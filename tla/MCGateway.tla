----------------------------- MODULE MCGateway -----------------------------
(* A finite instance of Gateway for TLC.                                    *)
EXTENDS Gateway

CONSTANTS token, watcher, other, k1, k2, shop, method, nft, zero

Ask(value, selector, amount) ==
  [target |-> token, value |-> value, selector |-> selector, amount |-> amount]

\* Native transfers, ERC-20 spends, NFTs and other calls, alone and together.
AllCalls == {Ask(0, "none", 0), Ask(1, "none", 0), Ask(2, "none", 0),
             Ask(0, "erc20", 1), Ask(1, "erc20", 2), Ask(0, nft, 2),
             Ask(0, method, 0), Ask(0, zero, 0)}

OneShop == [k \in {k1, k2} |-> shop]
TwoTerms == {<<0, 0, FALSE>>, <<1, 2, TRUE>>}

\* Settings of one kind: guardians and payment policies meet no other event.
Types == {log[k].type : k \in DOMAIN log}
Apart == {"GuardianSet", "PaymentPolicySet"}

\* The mirror or the bids; the two share nothing but the database.
Scoped ==
  /\ \/ solverBids = << >> /\ posting = 0 /\ intentOpen
     \/ log = << >> /\ spends = << >>
  /\ \A type \in Apart : type \in Types => Types = {type}
  /\ \A k \in DOMAIN log : log[k].type = "FunctionAllowlistUpdated" => log[k].selector \in {method, zero}
  /\ crashes > 0 => Len(log) <= 3
=============================================================================
