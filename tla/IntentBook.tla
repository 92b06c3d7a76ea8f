----------------------------- MODULE IntentBook -----------------------------
(***************************************************************************)
(* contracts/src/IntentBook.sol together with the AttestationRegistry it   *)
(* calls: owners publish signed intents, solvers bid on them, the owner    *)
(* selects one bid and the selected solver fills the intent.               *)
(*                                                                         *)
(* One action per external function; the guards are the function's reverts *)
(* in the order of the code.  The clock is block.timestamp and moves       *)
(* between any two transactions.  A signature is modelled by what it       *)
(* authorises: any sender may relay an intent of the set Intents, which    *)
(* its owner has signed, and nobody can relay another one.  Fees, the      *)
(* slippage value past its range check, token addresses and result hashes  *)
(* are stored or emitted and never read again, and are left out.           *)
(***************************************************************************)
EXTENDS AttestationRegistry

CONSTANTS
  Hash,         \* bytes32 execution commitments (ZeroHash may be one of them)
  Intents,      \* the intents owners have signed
  Offers,       \* the terms a solver may pass to submitBid
  MaxIntents,   \* bound on the intents submitted in a behaviour
  MaxBids,      \* bound on the bids submitted for one intent
  MaxTime       \* last value of the clock

Intent == [owner : Address, nonce : Nat, amountInMax : Nat, amountOutMin : Nat,
           deadline : Nat, slippageBps : Nat, dataHash : Hash \cup {ZeroHash},
           requiredSubject : Subject \cup {ZeroHash},
           requiredSchema : Schema \cup {ZeroHash}]

Offer == [amountIn : Nat, amountOut : Nat, validUntil : Nat,
          executionHash : Hash \cup {ZeroHash}]

ASSUME IntentsAssumption == Intents \subseteq Intent
ASSUME OffersAssumption == Offers \subseteq Offer
ASSUME BoundsAssumption ==
  /\ MaxIntents \in Nat
  /\ MaxBids \in Nat
  /\ MaxTime \in Nat

VARIABLES
  now,             \* block.timestamp
  nextIntentId,    \* _nextIntentId
  intents,         \* _intents
  statuses,        \* _statuses
  usedNonces,      \* _usedNonces
  nextBidId,       \* _nextBidId
  bids,            \* _bids
  selectedBidId,   \* _selectedBidId
  fills,           \* the IntentFilled / IntentFillProof events, in order
  lateFills        \* history: intents fillIntent was tried on past the deadline

bookVars == <<nextIntentId, intents, statuses, usedNonces,
              nextBidId, bids, selectedBidId, fills, lateFills>>
vars == <<registryVars, now, bookVars>>

IntentId == 1..MaxIntents
BidId == 1..MaxBids
IntentStatus == {"OPEN", "FILLED", "CANCELLED", "EXPIRED"}

\* What the mappings hold at a key nobody wrote.
NoIntent == [owner |-> ZeroAddress, nonce |-> 0, amountInMax |-> 0,
             amountOutMin |-> 0, deadline |-> 0, slippageBps |-> 0,
             dataHash |-> ZeroHash, requiredSubject |-> ZeroHash,
             requiredSchema |-> ZeroHash]

SolverBid == [solver : Address \cup {ZeroAddress}, amountIn : Nat, amountOut : Nat,
              validUntil : Nat, executionHash : Hash \cup {ZeroHash},
              selected : BOOLEAN, exists : BOOLEAN]

NoBid == [solver |-> ZeroAddress, amountIn |-> 0, amountOut |-> 0, validUntil |-> 0,
          executionHash |-> ZeroHash, selected |-> FALSE, exists |-> FALSE]

\* The calldata of fillIntent (executionData and the proof hashes left out).
Fill == [solver : Address, amountIn : {o.amountIn : o \in Offers},
         amountOut : {o.amountOut : o \in Offers},
         attestationId : 0..MaxAttestations]

\* Mutant of FirstIntentId: the initialiser of _nextIntentId forgotten.
MutantFirstIntentId == 0

FirstIntentId == 1

Init ==
  /\ RegistryInit
  /\ now = 1
  /\ nextIntentId = FirstIntentId
  /\ intents = [i \in IntentId |-> NoIntent]
  /\ statuses = [i \in IntentId |-> "OPEN"]
  /\ usedNonces = [a \in Address |-> {}]
  /\ nextBidId = [i \in IntentId |-> 0]
  /\ bids = [i \in IntentId |-> [b \in BidId |-> NoBid]]
  /\ selectedBidId = [i \in IntentId |-> 0]
  /\ fills = << >>
  /\ lateFills = {}

----------------------------------------------------------------------------
(* The checks several functions share.                                     *)

\* Mutant of IsOpen: a status that blocks a call listed, not the one that allows it.
MutantIsOpen(i) == statuses[i] # "CANCELLED"

IsOpen(i) == statuses[i] = "OPEN"

\* Mutant of BeforeDeadline: off by one, as the bid's own validity is compared.
MutantBeforeDeadline(i) == now <= intents[i].deadline

BeforeDeadline(i) == now < intents[i].deadline

\* Mutant of BidLive: the intent's deadline compared instead of the bid's validity.
MutantBidLive(i, b) == now <= intents[i].deadline

BidLive(i, b) == now <= bids[i][b].validUntil

\* The constraints a bid, and later its fill, must stay within.
WithinConstraints(i, amountIn, amountOut) ==
  /\ amountIn <= intents[i].amountInMax
  /\ amountOut >= intents[i].amountOutMin

\* Mutant of NonceFree: the check dropped.
MutantNonceFree(intent) == TRUE

NonceFree(intent) == intent.nonce \notin usedNonces[intent.owner]

----------------------------------------------------------------------------
(* The external functions.                                                 *)

SubmitIntent(intent) ==
  /\ nextIntentId <= MaxIntents
  /\ intent.deadline > now
  /\ intent.slippageBps <= 10000
  /\ NonceFree(intent)
  /\ usedNonces' = [usedNonces EXCEPT ![intent.owner] = @ \cup {intent.nonce}]
  /\ intents' = [intents EXCEPT ![nextIntentId] = intent]
  /\ statuses' = [statuses EXCEPT ![nextIntentId] = "OPEN"]
  /\ nextIntentId' = nextIntentId + 1
  /\ UNCHANGED <<registryVars, now, nextBidId, bids, selectedBidId, fills, lateFills>>

CancelIntent(sender, i) ==
  /\ IsOpen(i)
  /\ intents[i].owner = sender
  /\ statuses' = [statuses EXCEPT ![i] = "CANCELLED"]
  /\ UNCHANGED <<registryVars, now, nextIntentId, intents, usedNonces,
                 nextBidId, bids, selectedBidId, fills, lateFills>>

SubmitBid(sender, i, offer) ==
  /\ IsOpen(i)
  /\ intents[i].owner # ZeroAddress
  /\ BeforeDeadline(i)
  /\ now < offer.validUntil /\ offer.validUntil <= intents[i].deadline
  /\ WithinConstraints(i, offer.amountIn, offer.amountOut)
  /\ nextBidId[i] < MaxBids
  /\ nextBidId' = [nextBidId EXCEPT ![i] = @ + 1]
  /\ bids' = [bids EXCEPT ![i][nextBidId[i] + 1] =
       [solver |-> sender, amountIn |-> offer.amountIn, amountOut |-> offer.amountOut,
        validUntil |-> offer.validUntil, executionHash |-> offer.executionHash,
        selected |-> FALSE, exists |-> TRUE]]
  /\ UNCHANGED <<registryVars, now, nextIntentId, intents, statuses, usedNonces,
                 selectedBidId, fills, lateFills>>

\* Mutant of Reselect: the previous bid keeps its flag.
MutantReselect(bs, previous, b) == [bs EXCEPT ![b].selected = TRUE]

\* bs with the flag of the previously selected bid, if any, lowered and then
\* that of b raised.
Reselect(bs, previous, b) ==
  [c \in BidId |-> [bs[c] EXCEPT !.selected = (@ /\ c # previous) \/ c = b]]

SelectBid(sender, i, b) ==
  /\ IsOpen(i)
  /\ intents[i].owner = sender
  /\ bids[i][b].exists
  /\ BidLive(i, b)
  /\ bids' = [bids EXCEPT ![i] = Reselect(@, selectedBidId[i], b)]
  /\ selectedBidId' = [selectedBidId EXCEPT ![i] = b]
  /\ UNCHANGED <<registryVars, now, nextIntentId, intents, statuses, usedNonces,
                 nextBidId, fills, lateFills>>

\* Mutant of RequiredAttestationHeld: any live attestation about the subject will do.
MutantRequiredAttestationHeld(i, id) ==
  \/ intents[i].requiredSubject = ZeroHash
  \/ /\ AttestationExists(id)
     /\ ~attestations[id].revoked
     /\ attestations[id].subject = intents[i].requiredSubject

\* _validateRequiredAttestation does not revert.
RequiredAttestationHeld(i, id) ==
  LET subject == intents[i].requiredSubject
      schema == intents[i].requiredSchema
  IN  \/ subject = ZeroHash /\ schema = ZeroHash
      \/ /\ AttestationExists(id)
         /\ ~attestations[id].revoked
         /\ subject # ZeroHash => attestations[id].subject = subject
         /\ schema # ZeroHash => attestations[id].schema = schema

FillIntent(sender, i, fill) ==
  LET b == selectedBidId[i] IN
  /\ IsOpen(i)
  /\ intents[i].owner # ZeroAddress
  /\ BeforeDeadline(i)
  /\ WithinConstraints(i, fill.amountIn, fill.amountOut)
  /\ b # 0
  /\ bids[i][b].selected
  /\ BidLive(i, b)
  /\ fill.solver = bids[i][b].solver /\ sender = bids[i][b].solver
  /\ fill.amountIn = bids[i][b].amountIn /\ fill.amountOut = bids[i][b].amountOut
  /\ intents[i].dataHash # ZeroHash => bids[i][b].executionHash = intents[i].dataHash
  /\ RequiredAttestationHeld(i, fill.attestationId)
  /\ statuses' = [statuses EXCEPT ![i] = "FILLED"]
  /\ fills' = Append(fills, [intentId |-> i, solver |-> fill.solver,
                             amountIn |-> fill.amountIn, amountOut |-> fill.amountOut,
                             attestationId |-> fill.attestationId, time |-> now])
  /\ UNCHANGED <<registryVars, now, nextIntentId, intents, usedNonces,
                 nextBidId, bids, selectedBidId, lateFills>>

\* fillIntent past the deadline: the code stores EXPIRED and then reverts, and
\* the revert takes the store back with it.
FillExpiredIntent(i) ==
  /\ IsOpen(i)
  /\ intents[i].owner # ZeroAddress
  /\ ~BeforeDeadline(i)
  /\ lateFills' = lateFills \cup {i}
  /\ UNCHANGED <<registryVars, now, nextIntentId, intents, statuses, usedNonces,
                 nextBidId, bids, selectedBidId, fills>>

Attest ==
  /\ RegistryNext
  /\ UNCHANGED <<now, bookVars>>

Tick ==
  /\ now < MaxTime
  /\ now' = now + 1
  /\ UNCHANGED <<registryVars, bookVars>>

Next ==
  \/ \E intent \in Intents : SubmitIntent(intent)
  \/ \E sender \in Address, i \in IntentId :
       \/ CancelIntent(sender, i)
       \/ \E offer \in Offers : SubmitBid(sender, i, offer)
       \/ \E b \in BidId : SelectBid(sender, i, b)
       \/ \E fill \in Fill : FillIntent(sender, i, fill)
  \/ \E i \in IntentId : FillExpiredIntent(i)
  \/ Attest
  \/ Tick

Spec == Init /\ [][Next]_vars

----------------------------------------------------------------------------
(* The book implements IntentLifecycle: the agreement is the selected bid. *)

\* A bid without its bookkeeping.
Terms(b) == [solver |-> b.solver, amountIn |-> b.amountIn, amountOut |-> b.amountOut,
             validUntil |-> b.validUntil]

AgreementBar ==
  [i \in IntentId |-> IF selectedBidId[i] = 0 THEN Terms(NoBid)
                     ELSE Terms(bids[i][selectedBidId[i]])]

OutcomeBar ==
  [i \in IntentId |-> CASE statuses[i] = "FILLED" -> "settled"
                       [] statuses[i] = "CANCELLED" -> "cancelled"
                       [] OTHER -> "open"]

SettlementsBar ==
  [k \in DOMAIN fills |-> <<fills[k].intentId,
     [solver |-> fills[k].solver, amountIn |-> fills[k].amountIn,
      amountOut |-> fills[k].amountOut,
      validUntil |-> bids[fills[k].intentId][selectedBidId[fills[k].intentId]].validUntil]>>]

Abstract == INSTANCE IntentLifecycle WITH
  Offered <- Intents,
  Agreed <- [solver : Address, amountIn : Nat, amountOut : Nat, validUntil : Nat],
  NoOffer <- NoIntent,
  NoTerms <- Terms(NoBid),
  offer <- intents,
  agreement <- AgreementBar,
  outcome <- OutcomeBar,
  settlements <- SettlementsBar

\* Whatever owners, solvers, relayers and attesters interleave, each intent goes
\* through the life IntentLifecycle allows it.
ImplementsLifecycle == Abstract!Lifecycle

----------------------------------------------------------------------------
(* Properties.                                                             *)

FillEvent == [intentId : IntentId, solver : Address, amountIn : Nat,
              amountOut : Nat, attestationId : Nat, time : Nat]

\* Every variable holds a value of its type; the mappings are total.
TypeOK ==
  /\ nextAttestationId \in 1..MaxAttestations + 1
  /\ attestations \in [AttestationId -> Attestation]
  /\ subjectAttestations \in [Subject -> Seq(AttestationId)]
  /\ now \in Nat
  /\ nextIntentId \in 1..MaxIntents + 1
  /\ intents \in [IntentId -> Intents \cup {NoIntent}]
  /\ statuses \in [IntentId -> IntentStatus]
  /\ usedNonces \in [Address -> SUBSET Nat]
  /\ nextBidId \in [IntentId -> 0..MaxBids]
  /\ bids \in [IntentId -> [BidId -> SolverBid]]
  /\ selectedBidId \in [IntentId -> 0..MaxBids]
  /\ fills \in Seq(FillEvent)
  /\ lateFills \subseteq IntentId

Submitted(i) == intents[i].owner # ZeroAddress

\* The three counters and the zero defaults agree: exactly the ids handed out
\* hold an attestation, an intent or a bid, so a fresh id never overwrites one,
\* and only a submitted intent has bids, a status other than OPEN, or late fill
\* attempts (the functions rely on the default status of an unused id being
\* OPEN and its default owner being nobody).
IdsExact ==
  /\ \A a \in AttestationId : AttestationExists(a) <=> a < nextAttestationId
  /\ \A i \in IntentId : Submitted(i) <=> i < nextIntentId
  /\ \A i \in IntentId, b \in BidId : bids[i][b].exists <=> b <= nextBidId[i]
  /\ \A i \in IntentId : ~Submitted(i) => IsOpen(i) /\ nextBidId[i] = 0

\* The selected flag of a bid and the _selectedBidId of its intent, two copies
\* of one fact that selectBid updates separately, never disagree; fillIntent
\* reads both.
SelectionConsistent ==
  \A i \in IntentId :
    /\ \A b \in BidId : bids[i][b].selected <=> selectedBidId[i] = b
    /\ selectedBidId[i] # 0 => bids[i][selectedBidId[i]].exists

\* A signed intent is submitted at most once: no two intents of an owner have
\* the same nonce, whoever relays them and whatever became of the first.
NonceNeverReplayed ==
  /\ \A i \in IntentId : Submitted(i) => intents[i].nonce \in usedNonces[intents[i].owner]
  /\ \A i, j \in IntentId :
       /\ Submitted(i) /\ Submitted(j) /\ i # j
       /\ intents[i].owner = intents[j].owner
       => intents[i].nonce # intents[j].nonce

\* An intent is filled exactly as often as its status says: once if FILLED,
\* otherwise never.
OneFillPerIntent ==
  /\ \A k, l \in DOMAIN fills : fills[k].intentId = fills[l].intentId => k = l
  /\ \A i \in IntentId :
       statuses[i] = "FILLED" <=> \E k \in DOMAIN fills : fills[k].intentId = i

\* Does fill event f give the owner of its intent what was agreed: the terms of
\* the bid that still stands selected, in time for both, by the committed
\* execution, with an attestation of the required subject and schema?
HonoursAgreement(f) ==
  LET i == intents[f.intentId]
      b == bids[f.intentId][selectedBidId[f.intentId]]
  IN  /\ selectedBidId[f.intentId] # 0
      /\ f.solver = b.solver /\ f.amountIn = b.amountIn /\ f.amountOut = b.amountOut
      /\ f.amountIn <= i.amountInMax /\ f.amountOut >= i.amountOutMin
      /\ f.time < i.deadline /\ f.time <= b.validUntil
      /\ i.dataHash # ZeroHash => b.executionHash = i.dataHash
      /\ i.requiredSubject # ZeroHash =>
           /\ AttestationExists(f.attestationId)
           /\ attestations[f.attestationId].subject = i.requiredSubject
      /\ i.requiredSchema # ZeroHash =>
           /\ AttestationExists(f.attestationId)
           /\ attestations[f.attestationId].schema = i.requiredSchema

\* Every fill honours the agreement, at the fill and ever after: no later
\* selection, bid, cancellation or revocation can turn a settled intent into
\* one that was settled on other terms.
FillsHonourAgreements == \A k \in DOMAIN fills : HonoursAgreement(fills[k])

\* docs/decisions.md:43 says of an expired intent that it appears OPEN until
\* someone attempts to fill it; the attempt reverts, so it stays OPEN.
LateFillRecorded == \A i \in lateFills : statuses[i] # "OPEN"

\* Once an intent has left OPEN nothing about it moves again: not its status,
\* not its bids, not the selection (cancel, bid, select and fill all race for
\* the same intent, the first terminal one wins).
TerminalIsFrozen ==
  [][\A i \in IntentId : statuses[i] # "OPEN" =>
       /\ statuses'[i] = statuses[i]
       /\ bids'[i] = bids[i]
       /\ selectedBidId'[i] = selectedBidId[i]]_vars

\* What an owner signed, what a solver bid and what an attester claimed is never
\* rewritten: intents are immutable, of a bid only the selected flag changes,
\* of an attestation only the revoked flag, and that only from FALSE to TRUE.
TermsAreImmutable ==
  [][/\ \A i \in IntentId : Submitted(i) => intents'[i] = intents[i]
     /\ \A i \in IntentId, b \in BidId : bids[i][b].exists =>
          bids'[i][b] = [bids[i][b] EXCEPT !.selected = bids'[i][b].selected]
     /\ \A a \in AttestationId : AttestationExists(a) =>
          attestations'[a] \in {attestations[a], [attestations[a] EXCEPT !.revoked = TRUE]}]_vars
=============================================================================
