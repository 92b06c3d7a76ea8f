-------------------------- MODULE CommerceRegistry --------------------------
(***************************************************************************)
(* contracts/src/CommerceRegistry.sol: merchants and their services,       *)
(* payment facilitators, quotes a merchant commits to, the receipts that   *)
(* settle them, and the disputes about receipts.                           *)
(*                                                                         *)
(* A mapping the contract writes only at _nextXxxId++ is the sequence of   *)
(* its records, an id its position, the counter its length plus one, and   *)
(* an id outside the domain the zero record every "not found" check tests. *)
(* A quote hash binds every term of the commitment, so quotes are keyed by *)
(* the commitment itself and only the settled flag is state.  Metadata,    *)
(* payout addresses, tokens, amounts, the fee (always 0) and the hashes    *)
(* the contract stores but never compares are left out; a service keeps    *)
(* its id, which nothing makes unique.  A call that reverts leaves no      *)
(* trace, so it is not a step.                                             *)
(***************************************************************************)
EXTENDS Naturals, Sequences, FiniteSets

CONSTANTS
  Address,         \* accounts that may call
  ZeroAddress,     \* address(0), which never sends a transaction
  Commitments,     \* the quote commitments merchants may commit to
  ServiceId,       \* the ids merchants give their services
  Hash,            \* nonzero bytes32 values
  ZeroHash,        \* bytes32(0)
  MaxMerchants, MaxServices, MaxFacilitators,  \* bounds on the records of a kind
  MaxReceipts, MaxDisputes, MaxSignals,
  MaxCommits,      \* bound on how often one quote is committed
  MaxTime          \* last value of the clock

PaymentRail == {"TRANSFER", "SWAP", "FACILITATOR", "X402"}

Commitment == [merchantId : Nat, serviceNumericId : Nat, agent : Address \cup {ZeroAddress},
               facilitator : Address \cup {ZeroAddress}, paymentRail : PaymentRail,
               expiresAt : Nat, paymentNonce : Nat]

ASSUME CommerceAssumption == ZeroAddress \notin Address /\ Commitments \subseteq Commitment
ASSUME CommerceBounds ==
  {MaxMerchants, MaxServices, MaxFacilitators, MaxReceipts, MaxDisputes} \subseteq Nat

VARIABLES
  now,                       \* block.timestamp
  merchants,                 \* _merchants
  services,                  \* _services
  facilitatorsById,          \* _facilitatorsById
  facilitatorIdByAddress,    \* _facilitatorIdByAddress
  quotes,                    \* _quotes: "none", "open" or "settled"
  receipts,                  \* _receipts, with who recorded each one and when
  disputes,                  \* _disputes
  trustSignals,              \* _trustSignals: who recorded each one
  commits                    \* history: how often each quote was committed

directory == <<merchants, services, facilitatorsById, facilitatorIdByAddress>>
vars == <<now, directory, quotes, receipts, disputes, trustSignals, commits>>

Status == {"OPEN", "RESOLVED", "REJECTED"}

Init ==
  /\ now = 1
  /\ merchants = << >>
  /\ services = << >>
  /\ facilitatorsById = << >>
  /\ facilitatorIdByAddress = [a \in Address \cup {ZeroAddress} |-> 0]
  /\ quotes = [c \in Commitments |-> "none"]
  /\ receipts = << >>
  /\ disputes = << >>
  /\ trustSignals = << >>
  /\ commits = [c \in Commitments |-> 0]

----------------------------------------------------------------------------
(* Merchants, services and facilitators.                                   *)

RegisterMerchant(sender) ==
  /\ Len(merchants) < MaxMerchants
  /\ merchants' = Append(merchants, [owner |-> sender, active |-> TRUE])
  /\ UNCHANGED <<now, services, facilitatorsById, facilitatorIdByAddress,
                 quotes, receipts, disputes, trustSignals, commits>>

OwnsMerchant(sender, m) == m \in DOMAIN merchants /\ merchants[m].owner = sender

UpdateMerchant(sender, m, active) ==
  /\ OwnsMerchant(sender, m)
  /\ merchants' = [merchants EXCEPT ![m].active = active]
  /\ UNCHANGED <<now, services, facilitatorsById, facilitatorIdByAddress,
                 quotes, receipts, disputes, trustSignals, commits>>

RegisterService(sender, m, serviceId) ==
  /\ OwnsMerchant(sender, m)
  /\ Len(services) < MaxServices
  /\ services' = Append(services, [merchantId |-> m, serviceId |-> serviceId, active |-> TRUE])
  /\ UNCHANGED <<now, merchants, facilitatorsById, facilitatorIdByAddress,
                 quotes, receipts, disputes, trustSignals, commits>>

UpdateService(sender, s, active) ==
  /\ s \in DOMAIN services
  /\ OwnsMerchant(sender, services[s].merchantId)
  /\ services' = [services EXCEPT ![s].active = active]
  /\ UNCHANGED <<now, merchants, facilitatorsById, facilitatorIdByAddress,
                 quotes, receipts, disputes, trustSignals, commits>>

\* Mutant of FacilitatorIdFor: registering again always takes a new id.
MutantFacilitatorIdFor(facilitator) == Len(facilitatorsById) + 1

\* Mutant of FacilitatorIdFor: no id is allocated for a new address.
MutantNoIdAllocated(facilitator) == facilitatorIdByAddress[facilitator]

\* The id a registration writes to: the address's own, or the next one.
FacilitatorIdFor(facilitator) ==
  IF facilitatorIdByAddress[facilitator] = 0 THEN Len(facilitatorsById) + 1
  ELSE facilitatorIdByAddress[facilitator]

\* Anyone may register any address, again too, which makes it active again.
RegisterFacilitator(facilitator) ==
  LET id == FacilitatorIdFor(facilitator)
      record == [facilitator |-> facilitator, active |-> TRUE]
  IN  /\ id <= MaxFacilitators
      /\ facilitatorIdByAddress' = [facilitatorIdByAddress EXCEPT ![facilitator] = id]
      /\ facilitatorsById' =
           [k \in DOMAIN facilitatorsById \cup {id} |->
              IF k = id THEN record ELSE facilitatorsById[k]]
      /\ UNCHANGED <<now, merchants, services, quotes, receipts, disputes,
                     trustSignals, commits>>

\* ZeroAddress never sends, so a record of it is the not-found one.
UpdateFacilitator(sender, id, active) ==
  /\ id \in DOMAIN facilitatorsById
  /\ facilitatorsById[id].facilitator = sender
  /\ facilitatorsById' = [facilitatorsById EXCEPT ![id].active = active]
  /\ UNCHANGED <<now, merchants, services, facilitatorIdByAddress,
                 quotes, receipts, disputes, trustSignals, commits>>

FacilitatorActive(facilitator) ==
  LET id == facilitatorIdByAddress[facilitator]
  IN  id # 0 /\ facilitatorsById[id].active

----------------------------------------------------------------------------
(* Quotes, receipts, disputes and signals.                                 *)

ThroughFacilitator(c) == c.paymentRail \in {"FACILITATOR", "X402"}

\* Mutant of PaymentRailAllowed: every rail may do without a facilitator.
MutantPaymentRailAllowed(c) ==
  c.facilitator = ZeroAddress \/ FacilitatorActive(c.facilitator)

PaymentRailAllowed(c) ==
  \/ c.facilitator # ZeroAddress /\ FacilitatorActive(c.facilitator)
  \/ c.facilitator = ZeroAddress /\ ~ThroughFacilitator(c)

\* Mutant of ServiceOf: any existing service will do.
MutantServiceOf(c) == c.serviceNumericId \in DOMAIN services

\* The quoted service exists and is one of the quoting merchant.
ServiceOf(c) ==
  /\ c.serviceNumericId \in DOMAIN services
  /\ services[c.serviceNumericId].merchantId = c.merchantId

\* Committing a quote again writes settled: false over whatever it was.
CommitQuote(sender, c) ==
  /\ OwnsMerchant(sender, c.merchantId)
  /\ ServiceOf(c)
  /\ PaymentRailAllowed(c)
  /\ commits[c] < MaxCommits
  /\ quotes' = [quotes EXCEPT ![c] = "open"]
  /\ commits' = [commits EXCEPT ![c] = @ + 1]
  /\ UNCHANGED <<now, directory, receipts, disputes, trustSignals>>

\* Mutant of CanRecordReceipt: the facilitator's say on its own rails forgotten.
MutantCanRecordReceipt(c, sender) ==
  sender \in {merchants[c.merchantId].owner, c.agent, c.facilitator}

CanRecordReceipt(c, sender) ==
  IF ThroughFacilitator(c) THEN sender = c.facilitator
  ELSE sender \in {merchants[c.merchantId].owner, c.agent}

\* Mutant of Settle: the flag is left down.
MutantSettle(c) == quotes' = quotes

Settle(c) == quotes' = [quotes EXCEPT ![c] = "settled"]

RecordReceipt(sender, c) ==
  /\ quotes[c] = "open"
  /\ now <= c.expiresAt
  /\ CanRecordReceipt(c, sender)
  /\ Len(receipts) < MaxReceipts
  /\ Settle(c)
  /\ receipts' = Append(receipts, [quote |-> c, fulfillmentHash |-> ZeroHash,
                                   recorder |-> sender, time |-> now])
  /\ UNCHANGED <<now, directory, disputes, trustSignals, commits>>

MerchantOrFacilitator(c, sender) ==
  sender = merchants[c.merchantId].owner \/ sender = c.facilitator

RecordFulfillment(sender, r, fulfillmentHash) ==
  /\ r \in DOMAIN receipts
  /\ MerchantOrFacilitator(receipts[r].quote, sender)
  /\ receipts' = [receipts EXCEPT ![r].fulfillmentHash = fulfillmentHash]
  /\ UNCHANGED <<now, directory, quotes, disputes, trustSignals, commits>>

\* Mutant of IsParty: anyone may open a dispute.
MutantIsParty(c, sender) == TRUE

IsParty(c, sender) == sender = c.agent \/ MerchantOrFacilitator(c, sender)

OpenDispute(sender, r) ==
  /\ r \in DOMAIN receipts
  /\ IsParty(receipts[r].quote, sender)
  /\ Len(disputes) < MaxDisputes
  /\ disputes' = Append(disputes, [receiptId |-> r, opener |-> sender,
                                   status |-> "OPEN", resolutionHash |-> ZeroHash])
  /\ UNCHANGED <<now, directory, quotes, receipts, trustSignals, commits>>

\* Mutant of ResolutionAllowed: any status may be written.
MutantResolutionAllowed(status) == TRUE

ResolutionAllowed(status) == status # "OPEN"

\* The status the dispute has so far is not looked at.
ResolveDispute(sender, d, status, resolutionHash) ==
  /\ d \in DOMAIN disputes
  /\ MerchantOrFacilitator(receipts[disputes[d].receiptId].quote, sender)
  /\ ResolutionAllowed(status)
  /\ disputes' = [disputes EXCEPT ![d].status = status, ![d].resolutionHash = resolutionHash]
  /\ UNCHANGED <<now, directory, quotes, receipts, trustSignals, commits>>

\* The subject, kind and hash of a signal are never checked and are left out.
RecordTrustSignal(sender) ==
  /\ Len(trustSignals) < MaxSignals
  /\ trustSignals' = Append(trustSignals, sender)
  /\ UNCHANGED <<now, directory, quotes, receipts, disputes, commits>>

Tick ==
  /\ now < MaxTime
  /\ now' = now + 1
  /\ UNCHANGED <<directory, quotes, receipts, disputes, trustSignals, commits>>

Next ==
  \/ \E sender \in Address :
       \/ RegisterMerchant(sender)
       \/ \E m \in 1..MaxMerchants :
            \/ \E serviceId \in ServiceId : RegisterService(sender, m, serviceId)
            \/ \E active \in BOOLEAN : UpdateMerchant(sender, m, active)
       \/ \E s \in 1..MaxServices, active \in BOOLEAN : UpdateService(sender, s, active)
       \/ \E f \in 1..MaxFacilitators, active \in BOOLEAN : UpdateFacilitator(sender, f, active)
       \/ \E c \in Commitments : CommitQuote(sender, c) \/ RecordReceipt(sender, c)
       \/ \E r \in 1..MaxReceipts :
            \/ \E h \in Hash \cup {ZeroHash} : RecordFulfillment(sender, r, h)
            \/ OpenDispute(sender, r)
       \/ \E d \in 1..MaxDisputes, status \in Status, h \in Hash \cup {ZeroHash} :
            ResolveDispute(sender, d, status, h)
       \/ RecordTrustSignal(sender)
  \/ \E f \in Address \cup {ZeroAddress} : RegisterFacilitator(f)
  \/ Tick

Spec == Init /\ [][Next]_vars

----------------------------------------------------------------------------
(* Properties.                                                             *)

Receipt == [quote : Commitments, fulfillmentHash : Hash \cup {ZeroHash},
            recorder : Address, time : Nat]

\* Every variable holds a value of its type; ids start at 1, as 0 is no id.
TypeOK ==
  /\ now \in Nat
  /\ DOMAIN facilitatorsById \subseteq 1..MaxFacilitators
  /\ merchants \in Seq([owner : Address, active : BOOLEAN])
  /\ services \in Seq([merchantId : Nat, serviceId : ServiceId, active : BOOLEAN])
  /\ facilitatorsById \in Seq([facilitator : Address \cup {ZeroAddress}, active : BOOLEAN])
  /\ facilitatorIdByAddress \in [Address \cup {ZeroAddress} -> Nat]
  /\ quotes \in [Commitments -> {"none", "open", "settled"}]
  /\ receipts \in Seq(Receipt)
  /\ disputes \in Seq([receiptId : Nat, opener : Address, status : Status,
                       resolutionHash : Hash \cup {ZeroHash}])
  /\ trustSignals \in Seq(Address)
  /\ commits \in [Commitments -> Nat]

\* The two facilitator mappings are inverse to each other, through any order of
\* first and repeated registrations: an address has at most one record, and
\* deactivating that record deactivates the address.
FacilitatorIndexExact ==
  /\ \A a \in DOMAIN facilitatorIdByAddress :
       facilitatorIdByAddress[a] # 0 =>
         /\ facilitatorIdByAddress[a] \in DOMAIN facilitatorsById
         /\ facilitatorsById[facilitatorIdByAddress[a]].facilitator = a
  /\ \A id \in DOMAIN facilitatorsById :
       facilitatorIdByAddress[facilitatorsById[id].facilitator] = id

Committed(c) == quotes[c] # "none"

\* A committed quote names a merchant, a service of that same merchant and, on
\* the rails that need one, a registered facilitator; a receipt names a
\* committed quote and a dispute an existing receipt.
ChainSound ==
  /\ \A s \in DOMAIN services : services[s].merchantId \in DOMAIN merchants
  /\ \A c \in Commitments : Committed(c) =>
       /\ c.merchantId \in DOMAIN merchants
       /\ c.serviceNumericId \in DOMAIN services
       /\ services[c.serviceNumericId].merchantId = c.merchantId
       /\ ThroughFacilitator(c) =>
            c.facilitator # ZeroAddress /\ facilitatorIdByAddress[c.facilitator] # 0
  /\ \A r \in DOMAIN receipts : Committed(receipts[r].quote)
  /\ \A d \in DOMAIN disputes : disputes[d].receiptId \in DOMAIN receipts

ReceiptsOf(c) == {r \in DOMAIN receipts : receipts[r].quote = c}

\* Each commitment of a quote pays for one receipt at most: a quote is settled
\* again only after its merchant committed it again.
ReceiptsCovered ==
  \A c \in Commitments :
    Cardinality(ReceiptsOf(c)) + (IF quotes[c] = "open" THEN 1 ELSE 0) <= commits[c]

\* Whoever is a party of a receipt stays one (a merchant never changes hands):
\* every receipt was recorded in time by somebody its rail allows, every dispute
\* opened by the agent, the merchant or the facilitator of its receipt.  The rules
\* are those of docs/sdk-examples.md:62 and contracts/test/CommerceRegistry.t.sol:105:
\* quotes for the facilitator rails are settled by their facilitator, quotes for a
\* transfer or a swap by their merchant or agent.  docs/contracts.md:290 knows the
\* facilitator only, which the code does not enforce on the direct rails.
ActorsAuthorised ==
  /\ \A r \in DOMAIN receipts :
       LET c == receipts[r].quote
       IN  /\ receipts[r].time <= c.expiresAt
           /\ receipts[r].recorder \in
                IF ThroughFacilitator(c) THEN {c.facilitator}
                ELSE {c.agent, merchants[c.merchantId].owner}
  /\ \A d \in DOMAIN disputes :
       LET c == receipts[disputes[d].receiptId].quote
       IN  disputes[d].opener \in {c.agent, merchants[c.merchantId].owner, c.facilitator}

\* The public trail only grows: no receipt changes but for its fulfillment hash,
\* no dispute changes sides or is reopened, no signal is withdrawn.
TrailOnlyGrows ==
  [][/\ \A r \in DOMAIN receipts :
          /\ r \in DOMAIN receipts'
          /\ receipts'[r] = [receipts[r] EXCEPT !.fulfillmentHash = receipts'[r].fulfillmentHash]
     /\ \A d \in DOMAIN disputes :
          /\ d \in DOMAIN disputes'
          /\ disputes'[d].receiptId = disputes[d].receiptId
          /\ disputes'[d].opener = disputes[d].opener
          /\ disputes[d].status # "OPEN" => disputes'[d].status # "OPEN"
     /\ \A k \in DOMAIN trustSignals : k \in DOMAIN trustSignals' /\ trustSignals'[k] = trustSignals[k]]_vars
=============================================================================
