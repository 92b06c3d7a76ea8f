--------------------------- MODULE MCCommerceMirror ---------------------------
(* A finite instance of CommerceMirror for TLC.                             *)
EXTENDS CommerceMirror

CONSTANTS merchant, hash, sid

\* Two quotes of the first service, and one of the second.
Quote == [merchantId |-> 1, serviceNumericId |-> 1, agent |-> merchant,
          facilitator |-> ZeroAddress, paymentRail |-> "TRANSFER",
          expiresAt |-> 1, paymentNonce |-> 0]
Quotes == {Quote, [Quote EXCEPT !.paymentNonce = 1], [Quote EXCEPT !.serviceNumericId = 2]}

\* The mirror changes nothing the contract reads, so any run of both is one in
\* which the contract's calls come first.
MirrorLast == log' # log => at = 0 /\ crashes = 0

Count(types) == Cardinality({k \in DOMAIN log : log[k].type \in types})

\* One change of an active flag or one note beside the receipts; facilitators,
\* which no row refers to, only while there are no receipts; one late event.
Focus ==
  /\ Count({"MerchantUpdated", "ServiceUpdated", "FacilitatorUpdated",
            "FulfillmentRecorded", "TrustSignalRecorded"}) <= 1
  /\ Count({"FacilitatorRegistered"}) > 0 => Len(log) <= 5 /\ receipts = << >>
  /\ now = 2 => Len(log) <= 2
=============================================================================
