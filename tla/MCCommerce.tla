----------------------------- MODULE MCCommerce -----------------------------
(* Finite instances of CommerceRegistry for TLC.                            *)
EXTENDS CommerceRegistry

CONSTANTS merchant, agent, facilitator, hash, sid

\* A wallet-to-wallet quote of the first merchant and its first service.
Transfer == [merchantId |-> 1, serviceNumericId |-> 1, agent |-> agent,
             facilitator |-> ZeroAddress, paymentRail |-> "TRANSFER",
             expiresAt |-> 1, paymentNonce |-> 0]

\* The same service paid through a facilitator.
X402 == [Transfer EXCEPT !.paymentRail = "X402", !.facilitator = facilitator]

\* A quote on a rail that needs a facilitator and names none.
Unfacilitated == [X402 EXCEPT !.facilitator = ZeroAddress]

\* The second merchant quoting the first service, and its own.
Borrowed == [Transfer EXCEPT !.merchantId = 2]
Own == [Borrowed EXCEPT !.serviceNumericId = 2]

TheCommitments == {Transfer, X402, Unfacilitated, Borrowed, Own}

\* One merchant and service: two receipts and a dispute about quotes that may
\* be committed twice.
Settling ==
  /\ Len(merchants) <= 1 /\ Len(services) <= 1 /\ Cardinality(DOMAIN facilitatorsById) <= 1
  /\ trustSignals = << >>

\* Two of everything that registers, one receipt, no dispute.
Listing ==
  /\ now = 1 /\ disputes = << >> /\ Len(receipts) <= 1
  /\ \A c \in Commitments : commits[c] <= 1
  /\ \A m \in DOMAIN merchants : merchants[m].owner # agent
  /\ \A f \in DOMAIN facilitatorsById : facilitatorsById[f].facilitator # merchant
  /\ \A k \in DOMAIN trustSignals : trustSignals[k] = agent

Scoped == Settling \/ Listing
=============================================================================
