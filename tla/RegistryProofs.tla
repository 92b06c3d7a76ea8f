--------------------------- MODULE RegistryProofs ---------------------------
(***************************************************************************)
(* Proofs about the contracts on both sides of AttestationRegistry, for    *)
(* every value of their constants.  IntentBook, which asks it: its         *)
(* invariants, and that it implements IntentLifecycle, as every step of the*)
(* book is a step of the lifecycle or leaves it alone.  Participants, which*)
(* mirrors it: once the loop has caught up the tables agree with the       *)
(* registries, counters are off by what crashes repeated at most, and no   *)
(* revoked agent or attestation shows as valid again.                      *)
(***************************************************************************)
EXTENDS IntentBook, Participants, FiniteSetTheorems, SequenceTheorems, TLAPS

USE AddressAssumption, AttestationsBounded, IntentsAssumption, OffersAssumption,
    BoundsAssumption

\* A re-selection keeps the bids of an intent well typed.
LEMMA ReselectType ==
  ASSUME NEW bs \in [BidId -> SolverBid], NEW p, NEW b
  PROVE  Reselect(bs, p, b) \in [BidId -> SolverBid]
BY DEF Reselect, SolverBid

\* Every reachable state of the book is well typed.
THEOREM TypeCorrect == Spec => []TypeOK
<1>1. Init => TypeOK
  BY DEF Init, RegistryInit, FirstIntentId, TypeOK, NoAttestation, Attestation, NoBid, SolverBid,
         IntentStatus
<1>2. TypeOK /\ [Next]_vars => TypeOK'
  <2> SUFFICES ASSUME TypeOK, [Next]_vars PROVE TypeOK'
    OBVIOUS
  <2>1. ASSUME NEW intent \in Intents, SubmitIntent(intent) PROVE TypeOK'
    <3>1. intent.owner \in Address /\ intent.nonce \in Nat
      BY DEF Intent
    <3>2. usedNonces' \in [Address -> SUBSET Nat]
      BY <2>1, <3>1 DEF SubmitIntent, TypeOK
    <3>3. nextIntentId' \in 1..MaxIntents + 1
      BY <2>1 DEF SubmitIntent, TypeOK
    <3>4. /\ intents' \in [IntentId -> Intents \cup {NoIntent}]
          /\ statuses' \in [IntentId -> IntentStatus]
      <4>1. intents' = [intents EXCEPT ![nextIntentId] = intent]
            /\ statuses' = [statuses EXCEPT ![nextIntentId] = "OPEN"]
        BY <2>1 DEF SubmitIntent
      <4>2. intents' \in [IntentId -> Intents \cup {NoIntent}]
        BY <4>1 DEF TypeOK
      <4>3. statuses' \in [IntentId -> IntentStatus]
        BY <4>1 DEF TypeOK, IntentStatus
      <4> QED BY <4>2, <4>3
    <3>5. UNCHANGED <<registryVars, now, nextBidId, bids, selectedBidId, fills, lateFills>>
      BY <2>1 DEF SubmitIntent
    <3> QED BY <3>2, <3>3, <3>4, <3>5 DEF TypeOK, registryVars
  <2>2. ASSUME NEW sender \in Address, NEW i \in IntentId, CancelIntent(sender, i)
        PROVE TypeOK'
    BY <2>2 DEF CancelIntent, TypeOK, registryVars, IntentStatus
  <2>3. ASSUME NEW sender \in Address, NEW i \in IntentId, NEW offer \in Offers,
               SubmitBid(sender, i, offer)
        PROVE TypeOK'
    <3>1. offer \in Offer OBVIOUS
    <3>2. nextBidId' \in [IntentId -> 0..MaxBids]
      BY <2>3 DEF SubmitBid, TypeOK
    <3>3. bids' \in [IntentId -> [BidId -> SolverBid]]
      BY <2>3, <3>1 DEF SubmitBid, TypeOK, Offer, SolverBid
    <3> QED BY <2>3, <3>2, <3>3 DEF SubmitBid, TypeOK, registryVars
  <2>4. ASSUME NEW sender \in Address, NEW i \in IntentId, NEW b \in BidId,
               SelectBid(sender, i, b)
        PROVE TypeOK'
    <3>1. Reselect(bids[i], selectedBidId[i], b) \in [BidId -> SolverBid]
      BY ReselectType DEF TypeOK
    <3> QED BY <2>4, <3>1 DEF SelectBid, TypeOK, registryVars, BidId
  <2>5. ASSUME NEW sender \in Address, NEW i \in IntentId, NEW fill \in Fill,
               FillIntent(sender, i, fill)
        PROVE TypeOK'
    <3>1. [intentId |-> i, solver |-> fill.solver, amountIn |-> fill.amountIn,
           amountOut |-> fill.amountOut, attestationId |-> fill.attestationId,
           time |-> now] \in FillEvent
      BY DEF Fill, FillEvent, TypeOK, Offer
    <3>2. fills' \in Seq(FillEvent)
      BY <2>5, <3>1 DEF FillIntent, TypeOK
    <3> QED BY <2>5, <3>2 DEF FillIntent, TypeOK, registryVars, IntentStatus
  <2>6. ASSUME NEW i \in IntentId, FillExpiredIntent(i) PROVE TypeOK'
    BY <2>6 DEF FillExpiredIntent, TypeOK, registryVars
  <2>7. ASSUME Attest PROVE TypeOK'
    <3>1. ASSUME NEW sender \in Address, NEW schema \in Schema, NEW subject \in Subject,
                 SubmitAttestation(sender, schema, subject)
          PROVE TypeOK'
      BY <2>7, <3>1 DEF Attest, bookVars, SubmitAttestation, TypeOK, Attestation, AttestationId
    <3>2. ASSUME NEW sender \in Address, NEW id \in AttestationId,
                 RevokeAttestation(sender, id)
          PROVE TypeOK'
      <4>1. attestations' \in [AttestationId -> Attestation]
        <5>1. attestations[id] \in Attestation
          BY <3>2 DEF TypeOK
        <5>2. [attestations[id] EXCEPT !.revoked = TRUE] \in Attestation
          BY <5>1 DEF Attestation
        <5> QED BY <3>2, <5>2 DEF RevokeAttestation, TypeOK
      <4> QED BY <2>7, <3>2, <4>1 DEF Attest, bookVars, RevokeAttestation, TypeOK
    <3> QED BY <2>7, <3>1, <3>2 DEF Attest, RegistryNext
  <2>8. CASE Tick
    BY <2>8 DEF Tick, TypeOK, registryVars, bookVars
  <2>9. CASE UNCHANGED vars
    BY <2>9 DEF TypeOK, vars, registryVars, bookVars
  <2> QED BY <2>1, <2>2, <2>3, <2>4, <2>5, <2>6, <2>7, <2>8, <2>9 DEF Next
<1> QED BY <1>1, <1>2, PTL DEF Spec

----------------------------------------------------------------------------
(* The counters and the zero defaults.                                     *)

\* The counters and the zero defaults agree in every reachable state, so no function
\* ever overwrites the record of another id.
THEOREM IdsAlwaysExact == Spec => []IdsExact
<1>1. Init => IdsExact
  BY DEF Init, RegistryInit, FirstIntentId, IdsExact, AttestationExists, Submitted, IsOpen,
         NoAttestation, NoIntent, NoBid, AttestationId, IntentId, BidId
<1>2. TypeOK /\ TypeOK' /\ IdsExact /\ [Next]_vars => IdsExact'
  <2> SUFFICES ASSUME TypeOK, TypeOK', IdsExact, [Next]_vars PROVE IdsExact'
    OBVIOUS
  <2> USE DEF IdsExact, AttestationExists, Submitted, IsOpen
  <2>1. ASSUME NEW intent \in Intents, SubmitIntent(intent) PROVE IdsExact'
    <3>1. intent.owner # ZeroAddress
      BY DEF Intent
    <3>2. nextIntentId \in IntentId /\ nextIntentId' = nextIntentId + 1
      BY <2>1 DEF SubmitIntent, TypeOK, IntentId
    <3>3. \A i \in IntentId : i # nextIntentId =>
            intents'[i] = intents[i] /\ statuses'[i] = statuses[i]
      BY <2>1 DEF SubmitIntent, TypeOK
    <3>4. intents'[nextIntentId] = intent /\ statuses'[nextIntentId] = "OPEN"
      BY <2>1, <3>2 DEF SubmitIntent, TypeOK
    <3>5. UNCHANGED <<nextAttestationId, attestations, nextBidId, bids>>
      BY <2>1 DEF SubmitIntent, registryVars
    <3>6. ASSUME NEW i \in IntentId PROVE (Submitted(i) <=> i < nextIntentId)'
      BY <3>1, <3>2, <3>3, <3>4 DEF IntentId
    <3>7. ASSUME NEW i \in IntentId PROVE (~Submitted(i) => IsOpen(i) /\ nextBidId[i] = 0)'
      BY <3>1, <3>3, <3>4, <3>5
    <3> QED BY <3>5, <3>6, <3>7
  <2>2. ASSUME NEW sender \in Address, NEW i \in IntentId, CancelIntent(sender, i)
        PROVE IdsExact'
    BY <2>2, AddressAssumption DEF CancelIntent, TypeOK, registryVars
  <2>3. ASSUME NEW sender \in Address, NEW i \in IntentId, NEW offer \in Offers,
               SubmitBid(sender, i, offer)
        PROVE IdsExact'
    <3>1. /\ \A j \in IntentId, b \in BidId :
               ~(j = i /\ b = nextBidId[i] + 1) => bids'[j][b] = bids[j][b]
          /\ nextBidId[i] + 1 \in BidId => bids'[i][nextBidId[i] + 1].exists
      BY <2>3 DEF SubmitBid, TypeOK
    <3>2. \A j \in IntentId : nextBidId'[j] = IF j = i THEN nextBidId[i] + 1 ELSE nextBidId[j]
      BY <2>3 DEF SubmitBid, TypeOK
    <3>3. UNCHANGED <<nextAttestationId, attestations, nextIntentId, intents, statuses>>
      BY <2>3 DEF SubmitBid, registryVars
    <3>4. Submitted(i)
      BY <2>3 DEF SubmitBid
    <3>5. ASSUME NEW j \in IntentId, NEW b \in BidId
          PROVE  (bids[j][b].exists <=> b <= nextBidId[j])'
      <4>1. nextBidId[j] \in Nat /\ b \in Nat
        BY DEF TypeOK, BidId
      <4>2. CASE j = i /\ b = nextBidId[i] + 1
        <5>1. bids'[j][b].exists
          BY <3>1, <4>2
        <5>2. nextBidId'[j] = b
          BY <3>2, <4>2
        <5> QED BY <4>1, <5>1, <5>2
      <4>3. CASE ~(j = i /\ b = nextBidId[i] + 1)
        <5>1. b <= nextBidId[j] <=> b <= nextBidId'[j]
          BY <3>2, <4>1, <4>3
        <5> QED BY <3>1, <4>3, <5>1
      <4> QED BY <4>2, <4>3
    <3>6. ASSUME NEW j \in IntentId PROVE (~Submitted(j) => IsOpen(j) /\ nextBidId[j] = 0)'
      BY <3>2, <3>3, <3>4
    <3> QED BY <3>3, <3>5, <3>6
  <2>4. ASSUME NEW sender \in Address, NEW i \in IntentId, NEW b \in BidId,
               SelectBid(sender, i, b)
        PROVE IdsExact'
    <3>1. \A j \in IntentId, c \in BidId : bids'[j][c].exists = bids[j][c].exists
      BY <2>4 DEF SelectBid, Reselect, TypeOK, SolverBid
    <3>2. UNCHANGED <<nextAttestationId, attestations, nextIntentId, intents, statuses, nextBidId>>
      BY <2>4 DEF SelectBid, registryVars
    <3> QED BY <3>1, <3>2
  <2>5. ASSUME NEW sender \in Address, NEW i \in IntentId, NEW fill \in Fill,
               FillIntent(sender, i, fill)
        PROVE IdsExact'
    BY <2>5 DEF FillIntent, TypeOK, registryVars
  <2>6. ASSUME NEW i \in IntentId, FillExpiredIntent(i) PROVE IdsExact'
    BY <2>6 DEF FillExpiredIntent, registryVars
  <2>7. ASSUME Attest PROVE IdsExact'
    <3>1. ASSUME NEW sender \in Address, NEW schema \in Schema, NEW subject \in Subject,
                 SubmitAttestation(sender, schema, subject)
          PROVE IdsExact'
      <4>1. \A a \in AttestationId : attestations'[a].attester =
              IF a = nextAttestationId THEN sender ELSE attestations[a].attester
        BY <3>1 DEF SubmitAttestation, TypeOK
      <4> QED BY <2>7, <3>1, <4>1, AddressAssumption
              DEF Attest, bookVars, SubmitAttestation, TypeOK, AttestationId
    <3>2. ASSUME NEW sender \in Address, NEW id \in AttestationId,
                 RevokeAttestation(sender, id)
          PROVE IdsExact'
      <4>1. \A a \in AttestationId : attestations'[a].attester = attestations[a].attester
        BY <3>2 DEF RevokeAttestation, TypeOK, Attestation
      <4> QED BY <2>7, <3>2, <4>1 DEF Attest, bookVars, RevokeAttestation
    <3> QED BY <2>7, <3>1, <3>2 DEF Attest, RegistryNext
  <2>8. CASE Tick
    BY <2>8 DEF Tick, registryVars, bookVars
  <2>9. CASE UNCHANGED vars
    BY <2>9 DEF vars, registryVars, bookVars
  <2> QED BY <2>1, <2>2, <2>3, <2>4, <2>5, <2>6, <2>7, <2>8, <2>9 DEF Next
<1> QED BY <1>1, <1>2, TypeCorrect, PTL DEF Spec

----------------------------------------------------------------------------
(* What no step may do.                                                    *)

\* One step leaves alone whatever is attached to an intent that is not open.
LEMMA FrozenStep ==
  ASSUME TypeOK, IdsExact, [Next]_vars, NEW k \in IntentId, ~IsOpen(k)
  PROVE  /\ statuses'[k] = statuses[k]
         /\ bids'[k] = bids[k]
         /\ selectedBidId'[k] = selectedBidId[k]
<1> USE DEF IsOpen
<1>1. ASSUME NEW intent \in Intents, SubmitIntent(intent)
      PROVE  /\ UNCHANGED <<bids, selectedBidId>>
             /\ statuses'[k] = statuses[k]
  <2>1. k # nextIntentId
    BY DEF IdsExact, TypeOK, IntentId
  <2> QED BY <1>1, <2>1 DEF SubmitIntent, TypeOK
<1>2. ASSUME NEW sender \in Address, NEW i \in IntentId, CancelIntent(sender, i)
      PROVE  /\ UNCHANGED <<bids, selectedBidId>>
             /\ statuses'[k] = statuses[k]
  BY <1>2 DEF CancelIntent, TypeOK
<1>3. ASSUME NEW sender \in Address, NEW i \in IntentId, NEW offer \in Offers,
             SubmitBid(sender, i, offer)
      PROVE  /\ UNCHANGED <<statuses, selectedBidId>>
             /\ bids'[k] = bids[k]
  BY <1>3 DEF SubmitBid, TypeOK
<1>4. ASSUME NEW sender \in Address, NEW i \in IntentId, NEW b \in BidId,
             SelectBid(sender, i, b)
      PROVE  /\ UNCHANGED statuses
             /\ bids'[k] = bids[k]
             /\ selectedBidId'[k] = selectedBidId[k]
  BY <1>4 DEF SelectBid, TypeOK
<1>5. ASSUME NEW sender \in Address, NEW i \in IntentId, NEW fill \in Fill,
             FillIntent(sender, i, fill)
      PROVE  /\ UNCHANGED <<bids, selectedBidId>>
             /\ statuses'[k] = statuses[k]
  BY <1>5 DEF FillIntent, TypeOK
<1>6. ASSUME NEW i \in IntentId, FillExpiredIntent(i)
      PROVE  UNCHANGED <<statuses, bids, selectedBidId>>
  BY <1>6 DEF FillExpiredIntent
<1>7. CASE Attest
  BY <1>7 DEF Attest, bookVars
<1>8. CASE Tick
  BY <1>8 DEF Tick, bookVars
<1>9. CASE UNCHANGED vars
  BY <1>9 DEF vars, bookVars
<1> QED BY <1>1, <1>2, <1>3, <1>4, <1>5, <1>6, <1>7, <1>8, <1>9 DEF Next

\* One step rewrites no submitted intent.
LEMMA IntentStep ==
  ASSUME TypeOK, IdsExact, [Next]_vars, NEW k \in IntentId, Submitted(k)
  PROVE  intents'[k] = intents[k]
<1>1. ASSUME NEW intent \in Intents, SubmitIntent(intent) PROVE intents'[k] = intents[k]
  <2>1. k # nextIntentId
    BY DEF IdsExact, TypeOK, IntentId
  <2> QED BY <1>1, <2>1 DEF SubmitIntent, TypeOK
<1>2. ASSUME NEW sender \in Address, NEW i \in IntentId,
             \/ CancelIntent(sender, i)
             \/ \E offer \in Offers : SubmitBid(sender, i, offer)
             \/ \E b \in BidId : SelectBid(sender, i, b)
             \/ \E fill \in Fill : FillIntent(sender, i, fill)
      PROVE  UNCHANGED intents
  BY <1>2 DEF CancelIntent, SubmitBid, SelectBid, FillIntent
<1>3. ASSUME NEW i \in IntentId, FillExpiredIntent(i) PROVE UNCHANGED intents
  BY <1>3 DEF FillExpiredIntent
<1>4. CASE Attest \/ Tick \/ UNCHANGED vars
  BY <1>4 DEF Attest, Tick, vars, bookVars
<1> QED BY <1>1, <1>2, <1>3, <1>4 DEF Next

\* One step changes nothing of an existing bid but its selected flag.
LEMMA BidStep ==
  ASSUME TypeOK, IdsExact, [Next]_vars, NEW k \in IntentId, NEW c \in BidId,
         bids[k][c].exists
  PROVE  bids'[k][c] = [bids[k][c] EXCEPT !.selected = bids'[k][c].selected]
<1> DEFINE Same == bids'[k][c] = [bids[k][c] EXCEPT !.selected = bids'[k][c].selected]
<1>0. bids[k][c] \in SolverBid
  BY DEF TypeOK
<1>a. bids'[k][c] = bids[k][c] => Same
  BY <1>0 DEF SolverBid
<1>1. ASSUME NEW sender \in Address, NEW i \in IntentId, NEW offer \in Offers,
             SubmitBid(sender, i, offer)
      PROVE  bids'[k][c] = bids[k][c]
  <2>1. k = i => c # nextBidId[i] + 1
    BY DEF IdsExact, TypeOK, BidId
  <2> QED BY <1>1, <2>1 DEF SubmitBid, TypeOK
<1>2. ASSUME NEW sender \in Address, NEW i \in IntentId, NEW b \in BidId,
             SelectBid(sender, i, b)
      PROVE  Same
  <2>1. k # i => bids'[k][c] = bids[k][c]
    BY <1>2 DEF SelectBid, TypeOK
  <2>2. k = i => bids'[k][c] = Reselect(bids[k], selectedBidId[k], b)[c]
    BY <1>2 DEF SelectBid, TypeOK
  <2>3. k = i => \E s \in BOOLEAN : bids'[k][c] = [bids[k][c] EXCEPT !.selected = s]
    BY <1>0, <2>2 DEF Reselect, SolverBid
  <2>4. ASSUME NEW s \in BOOLEAN, bids'[k][c] = [bids[k][c] EXCEPT !.selected = s]
        PROVE  Same
    BY <1>0, <2>4 DEF SolverBid
  <2> QED BY <1>a, <2>1, <2>3, <2>4
<1>3. ASSUME NEW intent \in Intents, SubmitIntent(intent) PROVE UNCHANGED bids
  BY <1>3 DEF SubmitIntent
<1>4. ASSUME NEW sender \in Address, NEW i \in IntentId,
             CancelIntent(sender, i) \/ \E fill \in Fill : FillIntent(sender, i, fill)
      PROVE  UNCHANGED bids
  BY <1>4 DEF CancelIntent, FillIntent
<1>5. ASSUME NEW i \in IntentId, FillExpiredIntent(i) PROVE UNCHANGED bids
  BY <1>5 DEF FillExpiredIntent
<1>6. CASE Attest \/ Tick \/ UNCHANGED vars
  BY <1>6, <1>a DEF Attest, Tick, vars, bookVars
<1> QED BY <1>a, <1>1, <1>2, <1>3, <1>4, <1>5, <1>6 DEF Next

\* One step can only revoke an existing attestation.
LEMMA AttestationStep ==
  ASSUME TypeOK, IdsExact, [Next]_vars, NEW a \in AttestationId, AttestationExists(a)
  PROVE  attestations'[a] \in {attestations[a], [attestations[a] EXCEPT !.revoked = TRUE]}
<1>1. ASSUME NEW sender \in Address, NEW schema \in Schema, NEW subject \in Subject,
             SubmitAttestation(sender, schema, subject)
      PROVE  attestations'[a] = attestations[a]
  <2>1. a # nextAttestationId
    BY DEF IdsExact, TypeOK, AttestationId
  <2> QED BY <1>1, <2>1 DEF SubmitAttestation, TypeOK
<1>2. ASSUME NEW sender \in Address, NEW id \in AttestationId,
             RevokeAttestation(sender, id)
      PROVE  attestations'[a] \in {attestations[a], [attestations[a] EXCEPT !.revoked = TRUE]}
  BY <1>2 DEF RevokeAttestation, TypeOK
<1>3. ASSUME NEW intent \in Intents, SubmitIntent(intent) PROVE UNCHANGED attestations
  BY <1>3 DEF SubmitIntent, registryVars
<1>4. ASSUME NEW sender \in Address, NEW i \in IntentId,
             \/ CancelIntent(sender, i)
             \/ \E offer \in Offers : SubmitBid(sender, i, offer)
             \/ \E b \in BidId : SelectBid(sender, i, b)
             \/ \E fill \in Fill : FillIntent(sender, i, fill)
      PROVE  UNCHANGED attestations
  BY <1>4 DEF CancelIntent, SubmitBid, SelectBid, FillIntent, registryVars
<1>5. ASSUME NEW i \in IntentId, FillExpiredIntent(i) PROVE UNCHANGED attestations
  BY <1>5 DEF FillExpiredIntent, registryVars
<1>6. CASE Tick \/ UNCHANGED vars
  BY <1>6 DEF Tick, vars, registryVars
<1> QED BY <1>1, <1>2, <1>3, <1>4, <1>5, <1>6 DEF Next, Attest, RegistryNext

\* An intent that was filled or cancelled keeps its status, bids and selection.
THEOREM TerminalStaysFrozen == Spec => TerminalIsFrozen
<1>1. TypeOK /\ IdsExact /\ [Next]_vars =>
        [\A i \in IntentId : statuses[i] # "OPEN" =>
           /\ statuses'[i] = statuses[i]
           /\ bids'[i] = bids[i]
           /\ selectedBidId'[i] = selectedBidId[i]]_vars
  BY FrozenStep DEF IsOpen
<1> QED BY <1>1, TypeCorrect, IdsAlwaysExact, PTL DEF Spec, TerminalIsFrozen

\* Submitted intents, existing bids and attestations are never rewritten, but for
\* the selected flag and the revocation.
THEOREM TermsStayImmutable == Spec => TermsAreImmutable
<1>1. TypeOK /\ IdsExact /\ [Next]_vars =>
        [/\ \A i \in IntentId : Submitted(i) => intents'[i] = intents[i]
         /\ \A i \in IntentId, b \in BidId : bids[i][b].exists =>
              bids'[i][b] = [bids[i][b] EXCEPT !.selected = bids'[i][b].selected]
         /\ \A a \in AttestationId : AttestationExists(a) =>
              attestations'[a] \in
                {attestations[a], [attestations[a] EXCEPT !.revoked = TRUE]}]_vars
  BY IntentStep, BidStep, AttestationStep
<1> QED BY <1>1, TypeCorrect, IdsAlwaysExact, PTL DEF Spec, TermsAreImmutable

----------------------------------------------------------------------------
(* The safety invariants.                                                  *)

\* No signed intent enters the book twice: an owner's nonce is spent by the
\* submission and no function gives it back.
THEOREM NonceSafe == Spec => []NonceNeverReplayed
<1>1. Init => NonceNeverReplayed
  BY DEF Init, NonceNeverReplayed, Submitted, NoIntent
<1>2. TypeOK /\ IdsExact /\ NonceNeverReplayed /\ [Next]_vars => NonceNeverReplayed'
  <2> SUFFICES ASSUME TypeOK, IdsExact, NonceNeverReplayed, [Next]_vars
               PROVE  NonceNeverReplayed'
    OBVIOUS
  <2> USE DEF NonceNeverReplayed, Submitted
  <2>1. ASSUME NEW intent \in Intents, SubmitIntent(intent) PROVE NonceNeverReplayed'
    <3> DEFINE n == nextIntentId
    <3>1. /\ n \in IntentId
          /\ intent.nonce \notin usedNonces[intent.owner]
          /\ intent.owner \in Address
      BY <2>1 DEF SubmitIntent, NonceFree, TypeOK, IntentId, Intent
    <3>2. /\ intents'[n] = intent
          /\ \A i \in IntentId : i # n => intents'[i] = intents[i]
      BY <2>1, <3>1 DEF SubmitIntent, TypeOK
    <3>3. /\ intent.nonce \in usedNonces'[intent.owner]
          /\ \A a \in Address : usedNonces[a] \subseteq usedNonces'[a]
      BY <2>1, <3>1 DEF SubmitIntent, TypeOK
    <3>4. \A i \in IntentId : intents[i].owner # ZeroAddress => intents[i].owner \in Address
      BY DEF TypeOK, Intent, NoIntent
    <3> QED BY <3>1, <3>2, <3>3, <3>4
  <2>2. ASSUME NEW sender \in Address, NEW i \in IntentId,
               \/ CancelIntent(sender, i)
               \/ \E offer \in Offers : SubmitBid(sender, i, offer)
               \/ \E b \in BidId : SelectBid(sender, i, b)
               \/ \E fill \in Fill : FillIntent(sender, i, fill)
        PROVE  UNCHANGED <<intents, usedNonces>>
    BY <2>2 DEF CancelIntent, SubmitBid, SelectBid, FillIntent
  <2>3. ASSUME NEW i \in IntentId, FillExpiredIntent(i) PROVE UNCHANGED <<intents, usedNonces>>
    BY <2>3 DEF FillExpiredIntent
  <2>4. CASE Attest \/ Tick \/ UNCHANGED vars
    BY <2>4 DEF Attest, Tick, vars, bookVars
  <2> QED BY <2>1, <2>2, <2>3, <2>4 DEF Next
<1> QED BY <1>1, <1>2, TypeCorrect, IdsAlwaysExact, PTL DEF Spec

\* The selected flags and the selected id agree after every selection, first
\* or repeated, and a bid that was just submitted is never the selected one.
THEOREM SelectionSafe == Spec => []SelectionConsistent
<1>1. Init => SelectionConsistent
  BY DEF Init, SelectionConsistent, NoBid, BidId
<1>2. TypeOK /\ IdsExact /\ SelectionConsistent /\ [Next]_vars => SelectionConsistent'
  <2> SUFFICES ASSUME TypeOK, IdsExact, SelectionConsistent, [Next]_vars
               PROVE  SelectionConsistent'
    OBVIOUS
  <2> USE DEF SelectionConsistent
  <2>1. ASSUME NEW sender \in Address, NEW i \in IntentId, NEW offer \in Offers,
               SubmitBid(sender, i, offer)
        PROVE  SelectionConsistent'
    <3> DEFINE n == nextBidId[i] + 1
    <3>1. n \in BidId /\ selectedBidId[i] # n
      <4>1. nextBidId[i] \in Nat /\ n \in BidId
        BY <2>1 DEF SubmitBid, TypeOK, BidId
      <4>2. ~bids[i][n].exists
        BY <4>1 DEF IdsExact
      <4> QED BY <4>1, <4>2
    <3>2. /\ ~bids'[i][n].selected
          /\ \A j \in IntentId, b \in BidId : ~(j = i /\ b = n) => bids'[j][b] = bids[j][b]
      BY <2>1, <3>1 DEF SubmitBid, TypeOK
    <3>3. UNCHANGED selectedBidId
      BY <2>1 DEF SubmitBid
    <3>4. \A j \in IntentId : selectedBidId[j] # 0 => selectedBidId[j] \in BidId
      BY DEF TypeOK, BidId
    <3>5. ASSUME NEW j \in IntentId, NEW b \in BidId
          PROVE  (bids[j][b].selected <=> selectedBidId[j] = b)'
      BY <3>1, <3>2, <3>3
    <3> QED BY <3>1, <3>2, <3>3, <3>4, <3>5
  <2>2. ASSUME NEW sender \in Address, NEW i \in IntentId, NEW b \in BidId,
               SelectBid(sender, i, b)
        PROVE  SelectionConsistent'
    <3>1. \A j \in IntentId :
            /\ selectedBidId'[j] = IF j = i THEN b ELSE selectedBidId[j]
            /\ bids'[j] = IF j = i THEN Reselect(bids[i], selectedBidId[i], b) ELSE bids[j]
      BY <2>2 DEF SelectBid, TypeOK
    <3>2. ASSUME NEW c \in BidId
          PROVE  /\ bids'[i][c].selected <=> c = b
                 /\ bids'[i][c].exists <=> bids[i][c].exists
      <4>1. bids[i][c] \in SolverBid /\ (bids[i][c].selected <=> selectedBidId[i] = c)
        BY DEF TypeOK
      <4>2. bids'[i] = Reselect(bids[i], selectedBidId[i], b)
        BY <3>1
      <4>3. bids'[i][c] = [bids[i][c] EXCEPT !.selected =
                             (bids[i][c].selected /\ c # selectedBidId[i]) \/ c = b]
        BY <4>2 DEF Reselect
      <4> QED BY <4>1, <4>3 DEF SolverBid
    <3>3. bids[i][b].exists /\ b # 0
      BY <2>2 DEF SelectBid, BidId
    <3>4. ASSUME NEW j \in IntentId, NEW c \in BidId
          PROVE  bids'[j][c].selected <=> selectedBidId'[j] = c
      <4>1. CASE j = i
        <5>1. selectedBidId'[j] = b
          BY <3>1, <4>1
        <5>2. bids'[j][c].selected <=> c = b
          BY <3>2, <4>1
        <5> QED BY <5>1, <5>2
      <4>2. CASE j # i
        BY <3>1, <4>2
      <4> QED BY <4>1, <4>2
    <3>5. ASSUME NEW j \in IntentId
          PROVE  (selectedBidId[j] # 0 => bids[j][selectedBidId[j]].exists)'
      <4>1. CASE j = i
        BY <3>1, <3>2, <3>3, <4>1
      <4>2. CASE j # i
        BY <3>1, <4>2
      <4> QED BY <4>1, <4>2
    <3> QED BY <3>4, <3>5
  <2>3. ASSUME NEW intent \in Intents, SubmitIntent(intent) PROVE UNCHANGED <<bids, selectedBidId>>
    BY <2>3 DEF SubmitIntent
  <2>4. ASSUME NEW sender \in Address, NEW i \in IntentId,
               CancelIntent(sender, i) \/ \E fill \in Fill : FillIntent(sender, i, fill)
        PROVE  UNCHANGED <<bids, selectedBidId>>
    BY <2>4 DEF CancelIntent, FillIntent
  <2>5. ASSUME NEW i \in IntentId, FillExpiredIntent(i) PROVE UNCHANGED <<bids, selectedBidId>>
    BY <2>5 DEF FillExpiredIntent
  <2>6. CASE Attest \/ Tick \/ UNCHANGED vars
    BY <2>6 DEF Attest, Tick, vars, bookVars
  <2> QED BY <2>1, <2>2, <2>3, <2>4, <2>5, <2>6 DEF Next
<1> QED BY <1>1, <1>2, TypeCorrect, IdsAlwaysExact, PTL DEF Spec

\* An intent is filled once if its status is FILLED and never otherwise.
THEOREM FilledOnce == Spec => []OneFillPerIntent
<1>1. Init => OneFillPerIntent
  BY DEF Init, OneFillPerIntent
<1>2. TypeOK /\ IdsExact /\ OneFillPerIntent /\ [Next]_vars => OneFillPerIntent'
  <2> SUFFICES ASSUME TypeOK, IdsExact, OneFillPerIntent, [Next]_vars
               PROVE  OneFillPerIntent'
    OBVIOUS
  <2> USE DEF OneFillPerIntent, IsOpen
  <2>1. ASSUME NEW sender \in Address, NEW i \in IntentId, NEW fill \in Fill,
               FillIntent(sender, i, fill)
        PROVE  OneFillPerIntent'
    <3> DEFINE n == Len(fills) + 1
    <3>1. /\ DOMAIN fills = 1..Len(fills) /\ Len(fills) \in Nat
          /\ DOMAIN fills' = 1..n
          /\ \A k \in DOMAIN fills : fills'[k] = fills[k]
          /\ fills'[n].intentId = i
      BY <2>1 DEF FillIntent, TypeOK
    <3>2. \A k \in DOMAIN fills : fills[k].intentId # i
      BY <2>1 DEF FillIntent
    <3>3. \A j \in IntentId : statuses'[j] = IF j = i THEN "FILLED" ELSE statuses[j]
      BY <2>1 DEF FillIntent, TypeOK
    <3>4. \A k \in DOMAIN fills' : k \in DOMAIN fills \/ k = n
      BY <3>1
    <3>5. n \in DOMAIN fills' /\ \A k \in DOMAIN fills : k \in DOMAIN fills'
      BY <3>1
    <3>6. ASSUME NEW k \in DOMAIN fills', NEW l \in DOMAIN fills',
                 fills'[k].intentId = fills'[l].intentId
          PROVE  k = l
      BY <3>1, <3>2, <3>4, <3>6
    <3>7. ASSUME NEW j \in IntentId
          PROVE  statuses'[j] = "FILLED" <=> \E k \in DOMAIN fills' : fills'[k].intentId = j
      BY <3>1, <3>2, <3>3, <3>4, <3>5
    <3> QED BY <3>6, <3>7
  <2>2. ASSUME NEW intent \in Intents, SubmitIntent(intent)
        PROVE  UNCHANGED <<statuses, fills>>
    <3>1. nextIntentId \in IntentId /\ statuses[nextIntentId] = "OPEN"
      BY <2>2 DEF SubmitIntent, IdsExact, TypeOK, IntentId
    <3> QED BY <2>2, <3>1 DEF SubmitIntent, TypeOK
  <2>3. ASSUME NEW sender \in Address, NEW i \in IntentId, CancelIntent(sender, i)
        PROVE  OneFillPerIntent'
    BY <2>3 DEF CancelIntent, TypeOK
  <2>4. ASSUME NEW sender \in Address, NEW i \in IntentId,
               \/ \E offer \in Offers : SubmitBid(sender, i, offer)
               \/ \E b \in BidId : SelectBid(sender, i, b)
        PROVE  UNCHANGED <<statuses, fills>>
    BY <2>4 DEF SubmitBid, SelectBid
  <2>5. ASSUME NEW i \in IntentId, FillExpiredIntent(i) PROVE UNCHANGED <<statuses, fills>>
    BY <2>5 DEF FillExpiredIntent
  <2>6. CASE Attest \/ Tick \/ UNCHANGED vars
    BY <2>6 DEF Attest, Tick, vars, bookVars
  <2> QED BY <2>1, <2>2, <2>3, <2>4, <2>5, <2>6 DEF Next
<1> QED BY <1>1, <1>2, TypeCorrect, IdsAlwaysExact, PTL DEF Spec

\* A step keeps the agreement behind a fill that has already happened.
LEMMA HonoursStep ==
  ASSUME TypeOK, IdsExact, [Next]_vars,
         NEW f \in FillEvent, statuses[f.intentId] = "FILLED", HonoursAgreement(f)
  PROVE  HonoursAgreement(f)'
<1>1. f.intentId \in IntentId /\ ~IsOpen(f.intentId)
  BY DEF FillEvent, IsOpen
<1>2. intents'[f.intentId] = intents[f.intentId]
  <2>1. Submitted(f.intentId)
    BY <1>1 DEF IdsExact
  <2> QED BY <1>1, <2>1, IntentStep
<1>3. bids'[f.intentId] = bids[f.intentId] /\ selectedBidId'[f.intentId] = selectedBidId[f.intentId]
  BY <1>1, FrozenStep
<1>4. ASSUME AttestationExists(f.attestationId)
      PROVE  /\ AttestationExists(f.attestationId)'
             /\ attestations'[f.attestationId].subject = attestations[f.attestationId].subject
             /\ attestations'[f.attestationId].schema = attestations[f.attestationId].schema
  <2> DEFINE a == f.attestationId
  <2>1. a \in AttestationId /\ attestations[a].attester # ZeroAddress
    BY <1>4 DEF AttestationExists
  <2>2. attestations'[a] \in {attestations[a], [attestations[a] EXCEPT !.revoked = TRUE]}
    BY <1>4, <2>1, AttestationStep
  <2>3. attestations[a] \in Attestation
    BY <2>1 DEF TypeOK
  <2> HIDE DEF a
  <2>4. /\ attestations'[a].attester = attestations[a].attester
        /\ attestations'[a].subject = attestations[a].subject
        /\ attestations'[a].schema = attestations[a].schema
    BY <2>2, <2>3 DEF Attestation
  <2> QED BY <2>1, <2>4 DEF AttestationExists, a
<1>5. /\ intents'[f.intentId].requiredSubject # ZeroHash =>
           /\ AttestationExists(f.attestationId)'
           /\ attestations'[f.attestationId].subject = intents'[f.intentId].requiredSubject
      /\ intents'[f.intentId].requiredSchema # ZeroHash =>
           /\ AttestationExists(f.attestationId)'
           /\ attestations'[f.attestationId].schema = intents'[f.intentId].requiredSchema
  BY <1>2, <1>4 DEF HonoursAgreement
<1> QED BY <1>2, <1>3, <1>5 DEF HonoursAgreement

\* A fill happens only on the terms the book promises.
LEMMA FillHonours ==
  ASSUME TypeOK, NEW sender \in Address, NEW i \in IntentId, NEW fill \in Fill,
         FillIntent(sender, i, fill), NEW f \in FillEvent, f = fills'[Len(fills) + 1]
  PROVE  HonoursAgreement(f)'
<1>1. f = [intentId |-> i, solver |-> fill.solver, amountIn |-> fill.amountIn,
           amountOut |-> fill.amountOut, attestationId |-> fill.attestationId, time |-> now]
  BY DEF FillIntent, TypeOK
<1>2. UNCHANGED <<intents, bids, selectedBidId, attestations>>
  BY DEF FillIntent, registryVars
<1>3. /\ selectedBidId[i] # 0
      /\ f.solver = bids[i][selectedBidId[i]].solver
      /\ f.amountIn = bids[i][selectedBidId[i]].amountIn
      /\ f.amountOut = bids[i][selectedBidId[i]].amountOut
      /\ f.amountIn <= intents[i].amountInMax
      /\ f.amountOut >= intents[i].amountOutMin
      /\ f.time < intents[i].deadline
      /\ f.time <= bids[i][selectedBidId[i]].validUntil
      /\ intents[i].dataHash # ZeroHash =>
           bids[i][selectedBidId[i]].executionHash = intents[i].dataHash
  BY <1>1 DEF FillIntent, BeforeDeadline, BidLive, WithinConstraints
<1>4. RequiredAttestationHeld(i, f.attestationId)
  BY <1>1 DEF FillIntent
<1>5. f.intentId = i
  BY <1>1
<1>6. HonoursAgreement(f)
  BY <1>3, <1>4, <1>5 DEF HonoursAgreement, RequiredAttestationHeld
<1> QED BY <1>2, <1>6 DEF HonoursAgreement, AttestationExists

\* Only fillIntent adds to the fills, and it adds one.
LEMMA FillsStep ==
  ASSUME [Next]_vars
  PROVE  \/ UNCHANGED fills
         \/ \E sender \in Address, i \in IntentId, fill \in Fill : FillIntent(sender, i, fill)
<1>1. ASSUME NEW intent \in Intents, SubmitIntent(intent) PROVE UNCHANGED fills
  BY <1>1 DEF SubmitIntent
<1>2. ASSUME NEW sender \in Address, NEW i \in IntentId,
             \/ CancelIntent(sender, i)
             \/ \E offer \in Offers : SubmitBid(sender, i, offer)
             \/ \E b \in BidId : SelectBid(sender, i, b)
      PROVE  UNCHANGED fills
  BY <1>2 DEF CancelIntent, SubmitBid, SelectBid
<1>3. ASSUME NEW i \in IntentId, FillExpiredIntent(i) PROVE UNCHANGED fills
  BY <1>3 DEF FillExpiredIntent
<1>4. CASE Attest \/ Tick \/ UNCHANGED vars
  BY <1>4 DEF Attest, Tick, vars, bookVars
<1> QED BY <1>1, <1>2, <1>3, <1>4 DEF Next

\* Whatever happens before and after, an intent is only ever settled as its
\* owner signed and agreed.
THEOREM FillsSafe == Spec => []FillsHonourAgreements
<1>1. Init => FillsHonourAgreements
  BY DEF Init, FillsHonourAgreements
<1>2. TypeOK /\ TypeOK' /\ IdsExact /\ OneFillPerIntent /\ FillsHonourAgreements /\ [Next]_vars
        => FillsHonourAgreements'
  <2> SUFFICES ASSUME TypeOK, TypeOK', IdsExact, OneFillPerIntent, FillsHonourAgreements,
                      [Next]_vars, NEW k \in DOMAIN fills', NEW f \in FillEvent, f = fills'[k]
               PROVE  HonoursAgreement(f)'
    BY DEF FillsHonourAgreements, TypeOK
  <2>1. ASSUME k \in DOMAIN fills, f = fills[k] PROVE HonoursAgreement(f)'
    <3>1. HonoursAgreement(f)
      BY <2>1 DEF FillsHonourAgreements
    <3>2. statuses[f.intentId] = "FILLED"
      BY <2>1 DEF OneFillPerIntent, FillEvent
    <3> QED BY <3>1, <3>2, HonoursStep
  <2>2. CASE UNCHANGED fills
    BY <2>1, <2>2
  <2>3. ASSUME NEW sender \in Address, NEW i \in IntentId, NEW fill \in Fill,
               FillIntent(sender, i, fill)
        PROVE  HonoursAgreement(f)'
    <3>1. \/ k \in DOMAIN fills /\ f = fills[k]
          \/ k = Len(fills) + 1
      BY <2>3 DEF FillIntent, TypeOK
    <3>2. CASE k = Len(fills) + 1
      BY <2>3, <3>2, FillHonours
    <3> QED BY <2>1, <3>1, <3>2
  <2> QED BY <2>2, <2>3, FillsStep
<1> QED BY <1>1, <1>2, TypeCorrect, IdsAlwaysExact, FilledOnce, PTL DEF Spec

----------------------------------------------------------------------------
(* The lifecycle.                                                          *)

\* What an existing bid keeps promising: a solver, within the terms of its intent.
BidSound(i, b) ==
  /\ bids[i][b].solver \in Address
  /\ WithinConstraints(i, bids[i][b].amountIn, bids[i][b].amountOut)
  /\ bids[i][b].validUntil <= intents[i].deadline

BidsSound == \A i \in IntentId, b \in BidId : bids[i][b].exists => BidSound(i, b)

\* A submitted intent is none but the default's.
LEMMA SubmittedIsOffer ==
  ASSUME TypeOK, NEW i \in IntentId
  PROVE  /\ Submitted(i) <=> intents[i] # NoIntent
         /\ Submitted(i) => intents[i] \in Intents
<1>1. intents[i] \in Intents \cup {NoIntent}
  BY DEF TypeOK
<1>2. \A x \in Intents : x.owner # ZeroAddress
  BY DEF Intent
<1>3. NoIntent.owner = ZeroAddress
  BY DEF NoIntent
<1>4. CASE intents[i] \in Intents
  BY <1>2, <1>3, <1>4 DEF Submitted
<1>5. CASE intents[i] = NoIntent
  BY <1>2, <1>3, <1>5 DEF Submitted
<1> QED BY <1>1, <1>4, <1>5

\* What a bid holds but for its flag is what it held.
LEMMA TermsStep ==
  ASSUME TypeOK, IdsExact, [Next]_vars, NEW i \in IntentId, NEW b \in BidId, bids[i][b].exists
  PROVE  /\ bids'[i][b].exists /\ Terms(bids'[i][b]) = Terms(bids[i][b])
         /\ bids'[i][b].solver = bids[i][b].solver
         /\ bids'[i][b].amountIn = bids[i][b].amountIn
         /\ bids'[i][b].amountOut = bids[i][b].amountOut
         /\ bids'[i][b].validUntil = bids[i][b].validUntil
<1>1. bids'[i][b] = [bids[i][b] EXCEPT !.selected = bids'[i][b].selected]
  BY BidStep
<1>2. bids[i][b] \in SolverBid
  BY DEF TypeOK
<1>3. /\ bids'[i][b].exists /\ bids'[i][b].solver = bids[i][b].solver
      /\ bids'[i][b].amountIn = bids[i][b].amountIn
      /\ bids'[i][b].amountOut = bids[i][b].amountOut
      /\ bids'[i][b].validUntil = bids[i][b].validUntil
  BY <1>1, <1>2 DEF SolverBid
<1> QED BY <1>3 DEF Terms

\* Every bid was made by a solver, within the terms of its intent.
LEMMA BidsAlwaysSound == Spec => []BidsSound
<1>1. Init => BidsSound
  BY DEF Init, BidsSound, NoBid
<1>2. TypeOK /\ IdsExact /\ BidsSound /\ [Next]_vars => BidsSound'
  <2> SUFFICES ASSUME TypeOK, IdsExact, BidsSound, [Next]_vars,
                      NEW i \in IntentId, NEW b \in BidId, bids'[i][b].exists
               PROVE  BidSound(i, b)'
    BY DEF BidsSound
  <2>1. CASE bids[i][b].exists
    <3>1. Submitted(i)
      BY <2>1 DEF IdsExact, TypeOK, BidId
    <3>2. intents'[i] = intents[i]
      BY <3>1, IntentStep
    <3>3. BidSound(i, b)
      BY <2>1 DEF BidsSound
    <3> QED BY <2>1, <3>2, <3>3, TermsStep DEF BidSound, WithinConstraints
  <2>2. CASE ~bids[i][b].exists
    <3>1. ASSUME NEW sender \in Address, NEW j \in IntentId, NEW offer \in Offers,
                 SubmitBid(sender, j, offer)
          PROVE  BidSound(i, b)'
      <4>1. j = i /\ b = nextBidId[i] + 1
        BY <2>2, <3>1 DEF SubmitBid, TypeOK
      <4>2. bids'[i][b] =
              [solver |-> sender, amountIn |-> offer.amountIn, amountOut |-> offer.amountOut,
               validUntil |-> offer.validUntil, executionHash |-> offer.executionHash,
               selected |-> FALSE, exists |-> TRUE]
        BY <3>1, <4>1 DEF SubmitBid, TypeOK
      <4>3. /\ WithinConstraints(i, offer.amountIn, offer.amountOut)
            /\ offer.validUntil <= intents[i].deadline /\ intents' = intents
        BY <3>1, <4>1 DEF SubmitBid
      <4> QED BY <4>2, <4>3 DEF BidSound, WithinConstraints
    <3>2. ASSUME NEW sender \in Address, NEW j \in IntentId, NEW c \in BidId,
                 SelectBid(sender, j, c)
          PROVE  FALSE
      <4>1. i = j
        BY <2>2, <3>2 DEF SelectBid, TypeOK
      <4>2. bids'[i][b] = Reselect(bids[i], selectedBidId[i], c)[b]
        BY <3>2, <4>1 DEF SelectBid, TypeOK
      <4>3. bids[i][b] \in SolverBid
        BY DEF TypeOK
      <4>4. bids'[i][b].exists = bids[i][b].exists
        BY <4>2, <4>3 DEF Reselect, SolverBid
      <4> QED BY <2>2, <4>4
    <3>3. ASSUME NEW intent \in Intents, SubmitIntent(intent) PROVE UNCHANGED bids
      BY <3>3 DEF SubmitIntent
    <3>4. ASSUME NEW sender \in Address, NEW j \in IntentId,
                 CancelIntent(sender, j) \/ \E fill \in Fill : FillIntent(sender, j, fill)
          PROVE  UNCHANGED bids
      BY <3>4 DEF CancelIntent, FillIntent
    <3>5. ASSUME NEW j \in IntentId, FillExpiredIntent(j) PROVE UNCHANGED bids
      BY <3>5 DEF FillExpiredIntent
    <3>6. ASSUME Attest \/ Tick \/ UNCHANGED vars PROVE UNCHANGED bids
      BY <3>6 DEF Attest, Tick, vars, bookVars
    <3> QED BY <2>2, <3>1, <3>2, <3>3, <3>4, <3>5, <3>6 DEF Next
  <2> QED BY <2>1, <2>2
<1> QED BY <1>1, <1>2, TypeCorrect, IdsAlwaysExact, PTL DEF Spec

----------------------------------------------------------------------------
(* The refinement mapping, step by step.                                   *)

BookInv == TypeOK /\ IdsExact /\ SelectionConsistent /\ OneFillPerIntent /\ BidsSound

\* The settlements already made are what they were: their intents are frozen.
LEMMA SettlementsKeep ==
  ASSUME BookInv, [Next]_vars, UNCHANGED fills
  PROVE  SettlementsBar' = SettlementsBar
<1>1. ASSUME NEW k \in DOMAIN fills
      PROVE  LET i == fills[k].intentId
             IN  bids'[i][selectedBidId'[i]].validUntil = bids[i][selectedBidId[i]].validUntil
  <2>1. fills[k].intentId \in IntentId
    <3>1. fills[k] \in FillEvent
      BY <1>1 DEF BookInv, TypeOK
    <3> QED BY <3>1 DEF FillEvent
  <2>2. statuses[fills[k].intentId] = "FILLED"
    BY <2>1, <1>1 DEF BookInv, OneFillPerIntent
  <2>3. ~IsOpen(fills[k].intentId)
    BY <2>2 DEF IsOpen
  <2> QED BY <2>1, <2>3, FrozenStep DEF BookInv
<1> QED BY <1>1 DEF SettlementsBar

\* The agreement of an intent whose selection stays is what it was: of the
\* selected bid only the flag can change.
LEMMA AgreementKeeps ==
  ASSUME BookInv, [Next]_vars, NEW i \in IntentId, selectedBidId'[i] = selectedBidId[i]
  PROVE  AgreementBar'[i] = AgreementBar[i]
<1>1. CASE selectedBidId[i] = 0
  BY <1>1 DEF AgreementBar
<1>2. CASE selectedBidId[i] # 0
  <2>1. selectedBidId[i] \in BidId /\ bids[i][selectedBidId[i]].exists
    BY <1>2 DEF BookInv, TypeOK, BidId, SelectionConsistent
  <2>2. Terms(bids'[i][selectedBidId[i]]) = Terms(bids[i][selectedBidId[i]])
    BY <2>1, TermsStep DEF BookInv
  <2> QED BY <1>2, <2>2 DEF AgreementBar
<1> QED BY <1>1, <1>2

\* What stays when no selection, status or intent changes.
LEMMA LifecycleStutters ==
  ASSUME BookInv, [Next]_vars, UNCHANGED <<intents, statuses, selectedBidId, fills>>
  PROVE  UNCHANGED <<intents, AgreementBar, OutcomeBar, SettlementsBar>>
<1>1. \A i \in IntentId : AgreementBar'[i] = AgreementBar[i]
  BY AgreementKeeps
<1>2. AgreementBar' = AgreementBar
  BY <1>1 DEF AgreementBar
<1>3. OutcomeBar' = OutcomeBar
  BY DEF OutcomeBar
<1> QED BY <1>2, <1>3, SettlementsKeep

\* submitIntent publishes an offer.
LEMMA SubmitPublishes ==
  ASSUME BookInv, [Next]_vars, NEW intent \in Intents, SubmitIntent(intent)
  PROVE  Abstract!Step
<1> DEFINE i == nextIntentId
<1>1. i \in IntentId
  BY DEF SubmitIntent, BookInv, TypeOK, IntentId
<1>2. ~Submitted(i) /\ statuses[i] = "OPEN"
  BY <1>1 DEF BookInv, IdsExact, IsOpen, TypeOK, IntentId
<1>3. intents[i] = NoIntent
  BY <1>1, <1>2, SubmittedIsOffer DEF BookInv
<1>4. intents' = [intents EXCEPT ![i] = intent] /\ intents'[i] = intent /\ now < intent.deadline
  BY <1>1 DEF SubmitIntent, BookInv, TypeOK
<1>5. statuses' = statuses /\ UNCHANGED <<now, bids, selectedBidId, fills>>
  BY <1>1, <1>2 DEF SubmitIntent, BookInv, TypeOK
<1>6. UNCHANGED <<AgreementBar, OutcomeBar, SettlementsBar>>
  BY <1>5 DEF AgreementBar, OutcomeBar, SettlementsBar
<1> HIDE DEF i
<1>7. Abstract!Publish(i)
  BY <1>1, <1>3, <1>4, <1>5, <1>6 DEF Abstract!Publish
<1> QED BY <1>1, <1>7 DEF Abstract!Step

\* cancelIntent cancels.
LEMMA CancelCancels ==
  ASSUME BookInv, [Next]_vars, NEW sender \in Address, NEW i \in IntentId, CancelIntent(sender, i)
  PROVE  Abstract!Step
<1>1. Submitted(i) /\ statuses[i] = "OPEN"
  BY DEF CancelIntent, Submitted, IsOpen
<1>2. intents[i] # NoIntent
  BY <1>1, SubmittedIsOffer DEF BookInv
<1>3. /\ statuses' = [statuses EXCEPT ![i] = "CANCELLED"]
      /\ UNCHANGED <<now, intents, bids, selectedBidId, fills>>
  BY DEF CancelIntent
<1>4. OutcomeBar[i] = "open" /\ OutcomeBar' = [OutcomeBar EXCEPT ![i] = "cancelled"]
  BY <1>1, <1>3 DEF OutcomeBar, BookInv, TypeOK
<1>5. UNCHANGED <<AgreementBar, SettlementsBar>>
  BY <1>3 DEF AgreementBar, SettlementsBar
<1>6. Abstract!Cancel(i)
  BY <1>2, <1>3, <1>4, <1>5 DEF Abstract!Cancel, Abstract!Open
<1> QED BY <1>6 DEF Abstract!Step

\* selectBid agrees.
LEMMA SelectAgrees ==
  ASSUME BookInv, [Next]_vars, NEW sender \in Address, NEW i \in IntentId, NEW b \in BidId,
         SelectBid(sender, i, b)
  PROVE  Abstract!Step
<1>1. Submitted(i) /\ statuses[i] = "OPEN" /\ bids[i][b].exists /\ now <= bids[i][b].validUntil
  BY DEF SelectBid, Submitted, IsOpen, BidLive
<1>2. intents[i] # NoIntent /\ OutcomeBar[i] = "open"
  BY <1>1, SubmittedIsOffer DEF BookInv, OutcomeBar
<1>3. /\ selectedBidId' = [selectedBidId EXCEPT ![i] = b]
      /\ UNCHANGED <<now, intents, statuses, fills>>
  BY DEF SelectBid
<1>4. selectedBidId'[i] = b /\ b # 0
  BY <1>3 DEF BookInv, TypeOK, BidId
<1>5. AgreementBar'[i] = Terms(bids[i][b])
  BY <1>1, <1>4, TermsStep DEF AgreementBar, BookInv
<1>6. \A j \in IntentId : j # i => AgreementBar'[j] = AgreementBar[j]
  BY <1>3, AgreementKeeps DEF BookInv, TypeOK
<1>7. AgreementBar' = [AgreementBar EXCEPT ![i] = AgreementBar'[i]]
  BY <1>6 DEF AgreementBar
<1>8. UNCHANGED <<OutcomeBar, SettlementsBar>>
  BY <1>3, SettlementsKeep DEF OutcomeBar
<1>9. /\ AgreementBar'[i] \in [solver : Address, amountIn : Nat, amountOut : Nat, validUntil : Nat]
      /\ AgreementBar'[i].amountIn <= intents[i].amountInMax
      /\ AgreementBar'[i].amountOut >= intents[i].amountOutMin
      /\ AgreementBar'[i].validUntil <= intents[i].deadline
      /\ now <= AgreementBar'[i].validUntil
  <2>1. BidSound(i, b) /\ bids[i][b] \in SolverBid
    BY <1>1 DEF BookInv, BidsSound, TypeOK
  <2> QED BY <1>1, <1>5, <2>1 DEF BidSound, WithinConstraints, Terms, SolverBid
<1>10. Abstract!Agree(i)
  BY <1>2, <1>3, <1>7, <1>8, <1>9 DEF Abstract!Agree, Abstract!Open, Abstract!Acceptable
<1> QED BY <1>10 DEF Abstract!Step

\* fillIntent settles.
LEMMA FillSettles ==
  ASSUME BookInv, [Next]_vars, NEW sender \in Address, NEW i \in IntentId, NEW fill \in Fill,
         FillIntent(sender, i, fill)
  PROVE  Abstract!Step
<1> DEFINE b == selectedBidId[i]
<1>1. /\ Submitted(i) /\ statuses[i] = "OPEN" /\ b # 0
      /\ now < intents[i].deadline /\ now <= bids[i][b].validUntil
      /\ fill.solver = bids[i][b].solver
      /\ fill.amountIn = bids[i][b].amountIn /\ fill.amountOut = bids[i][b].amountOut
  BY DEF FillIntent, Submitted, IsOpen, BidLive, BeforeDeadline
<1>2. intents[i] # NoIntent /\ OutcomeBar[i] = "open"
  BY <1>1, SubmittedIsOffer DEF BookInv, OutcomeBar
<1>3. /\ statuses' = [statuses EXCEPT ![i] = "FILLED"]
      /\ fills' = Append(fills, [intentId |-> i, solver |-> fill.solver,
                                 amountIn |-> fill.amountIn, amountOut |-> fill.amountOut,
                                 attestationId |-> fill.attestationId, time |-> now])
      /\ UNCHANGED <<now, intents, bids, selectedBidId>>
  BY DEF FillIntent
<1>4. /\ AgreementBar[i] = Terms(bids[i][b]) /\ AgreementBar' = AgreementBar
      /\ AgreementBar[i].validUntil = bids[i][b].validUntil
  BY <1>1, <1>3 DEF AgreementBar, Terms
<1>5. AgreementBar[i] # Terms(NoBid)
  <2>1. b \in BidId /\ bids[i][b].exists
    BY <1>1 DEF BookInv, TypeOK, BidId, SelectionConsistent
  <2>2. bids[i][b].solver \in Address
    BY <2>1 DEF BookInv, BidsSound, BidSound
  <2>3. Terms(NoBid).solver = ZeroAddress /\ AgreementBar[i].solver = bids[i][b].solver
    BY <1>4 DEF Terms, NoBid
  <2> QED BY <2>2, <2>3
<1>6. OutcomeBar' = [OutcomeBar EXCEPT ![i] = "settled"]
  BY <1>3 DEF OutcomeBar, BookInv, TypeOK
<1>7. SettlementsBar' = Append(SettlementsBar, <<i, AgreementBar[i]>>)
  <2>1. /\ DOMAIN fills = 1..Len(fills) /\ Len(fills) \in Nat
        /\ DOMAIN fills' = 1..(Len(fills) + 1)
        /\ \A k \in DOMAIN fills : fills'[k] = fills[k]
        /\ fills'[Len(fills) + 1] = [intentId |-> i, solver |-> fill.solver,
                                     amountIn |-> fill.amountIn, amountOut |-> fill.amountOut,
                                     attestationId |-> fill.attestationId, time |-> now]
    BY <1>3 DEF BookInv, TypeOK
  <2>2. /\ bids' = bids /\ selectedBidId' = selectedBidId
        /\ fill.solver = bids[i][selectedBidId[i]].solver
        /\ fill.amountIn = bids[i][selectedBidId[i]].amountIn
        /\ fill.amountOut = bids[i][selectedBidId[i]].amountOut
        /\ AgreementBar[i] = Terms(bids[i][selectedBidId[i]])
    BY <1>1, <1>3, <1>4
  <2> HIDE DEF b
  <2>3. SettlementsBar'[Len(fills) + 1] = <<i, AgreementBar[i]>>
    <3> DEFINE n == Len(fills) + 1
    <3>1. n \in DOMAIN fills' /\ fills'[n].intentId = i
          /\ fills'[n].solver = fill.solver /\ fills'[n].amountIn = fill.amountIn
          /\ fills'[n].amountOut = fill.amountOut
      BY <2>1
    <3> HIDE DEF n
    <3>2. SettlementsBar'[n] =
            <<fills'[n].intentId,
              [solver |-> fills'[n].solver, amountIn |-> fills'[n].amountIn,
               amountOut |-> fills'[n].amountOut,
               validUntil |-> bids[fills'[n].intentId][selectedBidId[fills'[n].intentId]].validUntil]>>
      BY <3>1, <2>2 DEF SettlementsBar
    <3> QED BY <3>1, <3>2, <2>2 DEF Terms, n
  <2>6. ASSUME NEW k \in DOMAIN fills
        PROVE  SettlementsBar'[k] = SettlementsBar[k]
    <3> DEFINE Row(f, o, s) ==
          <<f.intentId, [solver |-> f.solver, amountIn |-> f.amountIn, amountOut |-> f.amountOut,
                         validUntil |-> o[f.intentId][s[f.intentId]].validUntil]>>
    <3>1. k \in DOMAIN fills' /\ fills'[k] = fills[k]
      BY ONLY <2>1, <2>6
    <3>2. SettlementsBar[k] = Row(fills[k], bids, selectedBidId)
      BY ONLY <2>6 DEF SettlementsBar
    <3>3. SettlementsBar'[k] = Row(fills'[k], bids', selectedBidId')
      BY ONLY <3>1 DEF SettlementsBar
    <3> HIDE DEF Row
    <3> QED BY ONLY <2>2, <3>1, <3>2, <3>3
  <2>4. /\ SettlementsBar \in Seq({SettlementsBar[k] : k \in DOMAIN fills})
        /\ Len(SettlementsBar) = Len(fills)
        /\ DOMAIN SettlementsBar' = 1..(Len(fills) + 1)
    BY <2>1 DEF SettlementsBar
  <2>5. SettlementsBar' = [k \in 1..(Len(fills) + 1) |-> SettlementsBar'[k]]
    BY <2>1 DEF SettlementsBar
  <2> QED BY <2>1, <2>3, <2>6, <2>4, <2>5
<1> HIDE DEF b
<1>8. Abstract!Settle(i)
  BY <1>1, <1>2, <1>3, <1>4, <1>5, <1>6, <1>7 DEF Abstract!Settle, Abstract!Open
<1> QED BY <1>8 DEF Abstract!Step

\* Every other step leaves what the lifecycle sees alone, or only moves the clock.
LEMMA OthersStutter ==
  ASSUME BookInv, [Next]_vars,
         \/ \E sender \in Address, i \in IntentId, o \in Offers : SubmitBid(sender, i, o)
         \/ \E i \in IntentId : FillExpiredIntent(i)
         \/ Attest
         \/ Tick
         \/ UNCHANGED vars
  PROVE  [Abstract!Step]_(Abstract!lifecycleVars)
<1>1. UNCHANGED <<intents, statuses, selectedBidId, fills>>
  BY DEF SubmitBid, FillExpiredIntent, Attest, Tick, vars, bookVars
<1>2. UNCHANGED <<intents, AgreementBar, OutcomeBar, SettlementsBar>>
  BY <1>1, LifecycleStutters
<1>3. now' = now \/ (now' \in Nat /\ now' > now)
  <2>1. now \in Nat
    BY DEF BookInv, TypeOK
  <2>2. now' = now \/ now' = now + 1
    BY DEF SubmitBid, FillExpiredIntent, Attest, Tick, vars, bookVars
  <2> QED BY <2>1, <2>2
<1> QED BY <1>2, <1>3 DEF Abstract!Step, Abstract!Pass, Abstract!lifecycleVars

\* Every step of the book is a step of the lifecycle, or none.
LEMMA StepImplements ==
  ASSUME BookInv, [Next]_vars
  PROVE  [Abstract!Step]_(Abstract!lifecycleVars)
<1>1. ASSUME NEW intent \in Intents, SubmitIntent(intent) PROVE Abstract!Step
  BY <1>1, SubmitPublishes
<1>2. ASSUME NEW sender \in Address, NEW i \in IntentId, CancelIntent(sender, i)
      PROVE  Abstract!Step
  BY <1>2, CancelCancels
<1>3. ASSUME NEW sender \in Address, NEW i \in IntentId, NEW b \in BidId, SelectBid(sender, i, b)
      PROVE  Abstract!Step
  BY <1>3, SelectAgrees
<1>4. ASSUME NEW sender \in Address, NEW i \in IntentId, NEW fill \in Fill,
             FillIntent(sender, i, fill)
      PROVE  Abstract!Step
  BY <1>4, FillSettles
<1>5. \/ \E intent \in Intents : SubmitIntent(intent)
      \/ \E sender \in Address, i \in IntentId : CancelIntent(sender, i)
      \/ \E sender \in Address, i \in IntentId, b \in BidId : SelectBid(sender, i, b)
      \/ \E sender \in Address, i \in IntentId, fill \in Fill : FillIntent(sender, i, fill)
      \/ \E sender \in Address, i \in IntentId, o \in Offers : SubmitBid(sender, i, o)
      \/ \E i \in IntentId : FillExpiredIntent(i)
      \/ Attest
      \/ Tick
      \/ UNCHANGED vars
  BY Zenon DEF Next
<1>6. CASE \/ \E sender \in Address, i \in IntentId, o \in Offers : SubmitBid(sender, i, o)
           \/ \E i \in IntentId : FillExpiredIntent(i)
           \/ Attest
           \/ Tick
           \/ UNCHANGED vars
  BY <1>6, OthersStutter
<1> QED BY <1>1, <1>2, <1>3, <1>4, <1>5, <1>6

\* The book starts where the lifecycle does.
LEMMA InitStarts == Init => Abstract!Start
<1> SUFFICES ASSUME Init PROVE Abstract!Start
  OBVIOUS
<1>1. now \in Nat /\ intents = [i \in IntentId |-> NoIntent]
  BY DEF Init
<1>2. AgreementBar = [i \in IntentId |-> Terms(NoBid)]
  BY DEF Init, AgreementBar
<1>3. OutcomeBar = [i \in IntentId |-> "open"]
  BY DEF Init, OutcomeBar
<1>4. fills = << >> /\ DOMAIN fills = {}
  BY DEF Init
<1>5. SettlementsBar = << >>
  BY <1>4 DEF SettlementsBar
<1> QED BY <1>1, <1>2, <1>3, <1>5 DEF Abstract!Start

\* IntentBook.sol implements the life of an offer that IntentLifecycle states:
\* whatever owners, solvers, relayers and attesters interleave, every change of
\* an intent is one the lifecycle allows.
THEOREM BookImplementsLifecycle == Spec => ImplementsLifecycle
<1>1. BookInv /\ [Next]_vars => [Abstract!Step]_(Abstract!lifecycleVars)
  BY StepImplements
<1>2. Spec => []BookInv
  BY TypeCorrect, IdsAlwaysExact, SelectionSafe, FilledOnce, BidsAlwaysSound, PTL DEF BookInv
<1> QED BY <1>1, <1>2, InitStarts, PTL DEF Spec, ImplementsLifecycle, Abstract!Lifecycle

----------------------------------------------------------------------------
(* The other registries and their mirror: what follows is about            *)
(* Participants, which knows of no intents.                                *)

USE LoopAssumption

----------------------------------------------------------------------------
(* The contracts and their log.                                            *)

Tables == {"agents", "attestations"} \cup Kind

Agent == [owner : Address, version : Nat, revoked : BOOLEAN]
Operator == [operator : Address, active : BOOLEAN, bond : Bond \cup {0}]

ParticipantEvent ==
  [type : {"AgentRegistered"}, id : Nat, owner : Address]
  \cup [type : {"AgentUpdated"}, id : Nat, version : Nat]
  \cup [type : {"AgentRevoked"}, id : Nat]
  \cup [type : {"OperatorRegistered"}, kind : Kind, id : Nat, operator : Address, bond : Bond \cup {0}]
  \cup [type : {"OperatorUpdated"}, kind : Kind, id : Nat, active : BOOLEAN]
  \cup [type : {"SolverBondChanged"}, id : Nat, bond : Bond]
  \cup [type : {"AttestationSubmitted"}, id : AttestationId, attester : Address,
        schema : Schema, subject : Subject]
  \cup [type : {"AttestationRevoked"}, id : AttestationId]

\* The table an event is about.
TableOf(e) ==
  IF e.type \in {"AgentRegistered", "AgentUpdated", "AgentRevoked"} THEN "agents"
  ELSE IF e.type \in {"AttestationSubmitted", "AttestationRevoked"} THEN "attestations"
  ELSE IF e.type = "SolverBondChanged" THEN "solvers" ELSE e.kind

Is(e, types, table, id) == e.type \in types /\ TableOf(e) = table /\ e.id = id

\* The first event of a record, and those that set a column of it.
First == {"AgentRegistered", "OperatorRegistered", "AttestationSubmitted"}
SetsVersion == {"AgentRegistered", "AgentUpdated"}
SetsRevoked == {"AgentRegistered", "AgentRevoked", "AttestationSubmitted", "AttestationRevoked"}
SetsActive == {"OperatorRegistered", "OperatorUpdated"}
SetsBond == {"OperatorRegistered", "SolverBondChanged"}

Exists(table, id) ==
  IF table = "agents" THEN id \in DOMAIN agents
  ELSE IF table = "attestations" THEN AttestationExists(id)
  ELSE id \in DOMAIN operators[table]

ContractTyped ==
  /\ agents \in Seq(Agent)
  /\ operators \in [Kind -> Seq(Operator)]
  /\ idByOperator \in [Kind -> [Address -> Nat]]
  /\ attestations \in [AttestationId -> Attestation]
  /\ nextAttestationId \in Nat \ {0}
  /\ \A id \in AttestationId : AttestationExists(id) <=> id < nextAttestationId
  /\ log \in Seq(ParticipantEvent)

\* Every record was opened by one event, and every event is about a record that
\* is open.
Opened ==
  /\ \A k \in DOMAIN log : TableOf(log[k]) \in Tables
  /\ \A k \in DOMAIN log : \A table, id :
       TableOf(log[k]) = table /\ log[k].id = id => Exists(table, id)
  /\ \A table \in Tables : \A id : Exists(table, id) =>
       \E k \in DOMAIN log : Is(log[k], First, table, id)
  /\ \A j, k \in DOMAIN log : \A table, id :
       Is(log[j], First, table, id) /\ Is(log[k], First, table, id) => j = k
  /\ \A k \in DOMAIN log : \E j \in 1..k : Is(log[j], First, TableOf(log[k]), log[k].id)

\* No later event sets a column that event k sets.
LastSets(k, types) ==
  \A j \in DOMAIN log : j > k => ~Is(log[j], types, TableOf(log[k]), log[k].id)

\* What events say of their record: what never changes, what once set stays, and
\* in each column what the last event that sets it says.
AgentSaid(k) ==
  LET e == log[k]
  IN  /\ e.type = "AgentRegistered" => agents[e.id].owner = e.owner
      /\ e.type = "AgentRegistered" /\ LastSets(k, SetsVersion) => agents[e.id].version = 0
      /\ e.type = "AgentUpdated" /\ LastSets(k, SetsVersion) => agents[e.id].version = e.version
      /\ e.type = "AgentRegistered" /\ LastSets(k, SetsRevoked) => ~agents[e.id].revoked
      /\ e.type = "AgentRevoked" => agents[e.id].revoked

OperatorSaid(k) ==
  LET e == log[k]
  IN  /\ e.type = "OperatorRegistered" => operators[e.kind][e.id].operator = e.operator
      /\ e.type = "OperatorRegistered" /\ LastSets(k, SetsActive) => operators[e.kind][e.id].active
      /\ e.type = "OperatorUpdated" /\ LastSets(k, SetsActive) =>
           operators[e.kind][e.id].active = e.active
      /\ e.type = "OperatorRegistered" /\ LastSets(k, SetsBond) =>
           operators[e.kind][e.id].bond = e.bond
      /\ e.type = "SolverBondChanged" /\ LastSets(k, SetsBond) =>
           operators["solvers"][e.id].bond = e.bond

AttestationSaid(k) ==
  LET e == log[k]
  IN  /\ e.type = "AttestationSubmitted" =>
           /\ attestations[e.id].attester = e.attester
           /\ attestations[e.id].schema = e.schema
           /\ attestations[e.id].subject = e.subject
      /\ e.type = "AttestationSubmitted" /\ LastSets(k, SetsRevoked) => ~attestations[e.id].revoked
      /\ e.type = "AttestationRevoked" => attestations[e.id].revoked

AgentsSaid == \A k \in DOMAIN log : AgentSaid(k)
OperatorsSaid == \A k \in DOMAIN log : OperatorSaid(k)
AttestationsSaid == \A k \in DOMAIN log : AttestationSaid(k)

\* An operator registers once with each registry.
RegistersOnce ==
  /\ \A k \in DOMAIN log : log[k].type = "OperatorRegistered" =>
       idByOperator[log[k].kind][log[k].operator] # 0
  /\ \A j, k \in DOMAIN log :
       /\ log[j].type = "OperatorRegistered" /\ log[k].type = "OperatorRegistered"
       /\ log[j].kind = log[k].kind /\ log[j].operator = log[k].operator
       => j = k

ContractInv ==
  /\ ContractTyped /\ Opened /\ RegistersOnce
  /\ AgentsSaid /\ OperatorsSaid /\ AttestationsSaid

----------------------------------------------------------------------------
(* The tables.                                                             *)

AgentRows == [owner : Address, metadata : Nat, capabilities : Nat, revoked : BOOLEAN]
OperatorRows == [operator : Address, active : BOOLEAN, bond : Bond \cup {0},
                 attestations : Nat, revoked : Nat]

LoopTyped ==
  /\ at \in 0..Len(log) /\ stored \in 0..at /\ crashes \in Nat
  /\ DOMAIN rows = Tables
  /\ \A id \in DOMAIN rows["agents"] : rows["agents"][id] \in AgentRows
  /\ \A id \in DOMAIN rows["attestations"] : rows["attestations"][id] \in Attestation
  /\ \A kind \in Kind : \A id \in DOMAIN rows[kind] : rows[kind][id] \in OperatorRows

\* There is a row for each first event that was handled, and for no others; in
\* the first life of the process it was handled in this life.
RowsThere ==
  /\ \A k \in 1..at : log[k].type \in First => log[k].id \in DOMAIN rows[TableOf(log[k])]
  /\ \A table \in Tables : \A id \in DOMAIN rows[table] :
       \E k \in DOMAIN log :
         Is(log[k], First, table, id) /\ (crashes = 0 => k <= at + Cardinality(pending))

\* No event to come sets such a column of the record.
Settled(types, table, id) == \A j \in (at + 1)..Len(log) : ~Is(log[j], types, table, id)

\* What a row shows of its record: at once what never changes, and a column that
\* changes when no event to come sets it; it never shows as revoked too early.
AgentShown(id) ==
  LET row == rows["agents"][id]
  IN  /\ row.owner = agents[id].owner
      /\ row.revoked => agents[id].revoked
      /\ Settled(SetsVersion, "agents", id) =>
           row.metadata = agents[id].version /\ row.capabilities = agents[id].version
      /\ Settled(SetsRevoked, "agents", id) => row.revoked = agents[id].revoked

AttestationShown(id) ==
  LET row == rows["attestations"][id]
  IN  /\ row.attester = attestations[id].attester
      /\ row.schema = attestations[id].schema
      /\ row.subject = attestations[id].subject
      /\ row.revoked => attestations[id].revoked
      /\ Settled(SetsRevoked, "attestations", id) => row.revoked = attestations[id].revoked

OperatorShown(kind, id) ==
  LET row == rows[kind][id]
  IN  /\ row.operator = operators[kind][id].operator
      /\ Settled(SetsActive, kind, id) => row.active = operators[kind][id].active
      /\ Settled(SetsBond, kind, id) => row.bond = operators[kind][id].bond

AgentsShown == \A id \in DOMAIN rows["agents"] : AgentShown(id)
AttestationsShown == \A id \in DOMAIN rows["attestations"] : AttestationShown(id)
OperatorsShown == \A kind \in Kind : \A id \in DOMAIN rows[kind] : OperatorShown(kind, id)

\* What a handler keeps between its steps.
PendingRight ==
  pending # {} =>
    /\ at < Len(log)
    /\ Event.type \in {"AgentRegistered", "AttestationSubmitted", "AttestationRevoked"}
    /\ Event.type = "AgentRegistered" =>
         \E record \in Agent :
           /\ pending = {record}
           /\ record.version <= agents[Event.id].version
           /\ record.revoked => agents[Event.id].revoked
           /\ Event.id \in DOMAIN rows["agents"] /\ rows["agents"][Event.id].revoked => record.revoked
    /\ Event.type # "AgentRegistered" =>
         /\ Event.id \in DOMAIN rows["attestations"]
         /\ pending = {attestations[Event.id].attester}
    /\ Event.type = "AttestationRevoked" => rows["attestations"][Event.id].revoked

UpTo(S, n) == {k \in S : k <= n}

\* A counter has counted what is due so far; in its first life the process
\* counts nothing else, and in each later one every event once at most.
Counted(counter, type, operator) ==
  /\ Cardinality(UpTo(Due(type, operator), at)) <= counter
  /\ crashes = 0 => counter <= Cardinality(UpTo(Due(type, operator), at))
  /\ crashes > 0 =>
       counter + Cardinality(Attested(type, operator))
         <= Cardinality(Due(type, operator)) + crashes * Cardinality(Attested(type, operator))
              + Cardinality(UpTo(Attested(type, operator), at))

CountersRight ==
  \A id \in DOMAIN rows["attestors"] :
    LET row == rows["attestors"][id]
    IN  /\ Counted(row.attestations, "AttestationSubmitted", row.operator)
        /\ Counted(row.revoked, "AttestationRevoked", row.operator)

IInv ==
  /\ ContractInv /\ LoopTyped /\ RowsThere /\ PendingRight
  /\ AgentsShown /\ AttestationsShown /\ OperatorsShown /\ CountersRight

----------------------------------------------------------------------------
(* The steps of the contracts.                                             *)

\* The log after an event.
LEMMA Appends ==
  ASSUME log \in Seq(ParticipantEvent), NEW e \in ParticipantEvent, Emit(e)
  PROVE  /\ Len(log) \in Nat /\ DOMAIN log = 1..Len(log)
         /\ log' \in Seq(ParticipantEvent) /\ Len(log') = Len(log) + 1
         /\ DOMAIN log' = 1..(Len(log) + 1)
         /\ \A k \in DOMAIN log : k \in DOMAIN log' /\ log'[k] = log[k]
         /\ Len(log) + 1 \in DOMAIN log' /\ log'[Len(log) + 1] = e
         /\ \A k \in DOMAIN log' : k \in DOMAIN log \/ k = Len(log) + 1
         /\ \A k \in DOMAIN log : k \in Nat /\ k < Len(log) + 1
<1>1. log' = Append(log, e)
  BY DEF Emit
<1>2. /\ Len(log) \in Nat /\ DOMAIN log = 1..Len(log)
      /\ log' \in Seq(ParticipantEvent) /\ Len(log') = Len(log) + 1
      /\ DOMAIN log' = 1..(Len(log) + 1)
  BY <1>1
<1>3. \A k \in DOMAIN log : log'[k] = log[k]
  BY <1>1, <1>2
<1>4. log'[Len(log) + 1] = e
  BY <1>1, <1>2
<1> QED BY <1>2, <1>3, <1>4

\* The table of an event.
LEMMA EventTables ==
  \A e \in ParticipantEvent :
    /\ e.type \in {"AgentRegistered", "AgentUpdated", "AgentRevoked"} => TableOf(e) = "agents"
    /\ e.type \in {"AttestationSubmitted", "AttestationRevoked"} => TableOf(e) = "attestations"
    /\ e.type = "SolverBondChanged" => TableOf(e) = "solvers"
    /\ e.type \in {"OperatorRegistered", "OperatorUpdated"} => TableOf(e) = e.kind /\ e.kind \in Kind
    /\ TableOf(e) \in Tables
    /\ e.type \in {"AgentRegistered", "AgentUpdated", "AgentRevoked", "OperatorRegistered",
                   "OperatorUpdated", "SolverBondChanged", "AttestationSubmitted",
                   "AttestationRevoked"}
BY DEF ParticipantEvent, TableOf, Tables, Kind

\* The fields of an event.
LEMMA EventFields ==
  \A e \in ParticipantEvent :
    /\ e.type = "AgentRegistered" => e.id \in Nat /\ e.owner \in Address
    /\ e.type = "AgentUpdated" => e.id \in Nat /\ e.version \in Nat
    /\ e.type = "OperatorRegistered" =>
         e.kind \in Kind /\ e.id \in Nat /\ e.operator \in Address /\ e.bond \in Bond \cup {0}
    /\ e.type = "OperatorUpdated" => e.kind \in Kind /\ e.active \in BOOLEAN
    /\ e.type = "SolverBondChanged" => e.bond \in Bond
    /\ e.type = "AttestationSubmitted" =>
         e.id \in AttestationId /\ e.attester \in Address /\ e.schema \in Schema /\ e.subject \in Subject
    /\ e.type = "AttestationRevoked" => e.id \in AttestationId
BY DEF ParticipantEvent

\* An event opens a new record.
LEMMA OpensNew ==
  ASSUME ContractTyped, Opened, NEW e \in ParticipantEvent, Emit(e), e.type \in First,
         ~Exists(TableOf(e), e.id),
         \A table \in Tables : \A id :
           Exists(table, id)' <=> Exists(table, id) \/ (table = TableOf(e) /\ id = e.id)
  PROVE  Opened'
<1> DEFINE n == Len(log) + 1
<1>1. log \in Seq(ParticipantEvent)
  BY DEF ContractTyped
<1>2. /\ DOMAIN log' = 1..n /\ n \in DOMAIN log' /\ log'[n] = e
      /\ \A k \in DOMAIN log : k \in DOMAIN log' /\ log'[k] = log[k] /\ k \in Nat /\ k < n
      /\ \A k \in DOMAIN log' : k \in DOMAIN log \/ k = n
      /\ Len(log) \in Nat
  BY <1>1, Appends
<1> HIDE DEF n
<1>3. TableOf(e) \in Tables
  BY EventTables
<1>4. /\ \A k \in DOMAIN log' : TableOf(log'[k]) \in Tables
      /\ \A k \in DOMAIN log' : \A table, id :
           TableOf(log'[k]) = table /\ log'[k].id = id => Exists(table, id)'
  BY <1>2, <1>3 DEF Opened
<1>5. ASSUME NEW table \in Tables, NEW id, Exists(table, id)'
      PROVE  \E k \in DOMAIN log' : Is(log'[k], First, table, id)
  <2>1. CASE Exists(table, id)
    BY <1>2, <2>1 DEF Opened
  <2>2. CASE table = TableOf(e) /\ id = e.id
    BY <1>2, <2>2 DEF Is
  <2> QED BY <1>5, <2>1, <2>2
<1>6. \A k \in DOMAIN log : \A table, id : Is(log[k], First, table, id) => Exists(table, id)
  BY DEF Opened, Is
<1>7. \A j, k \in DOMAIN log' : \A table, id :
        Is(log'[j], First, table, id) /\ Is(log'[k], First, table, id) => j = k
  <2> SUFFICES ASSUME NEW j \in DOMAIN log', NEW k \in DOMAIN log', NEW table, NEW id,
                      Is(log'[j], First, table, id), Is(log'[k], First, table, id), j # k
               PROVE  FALSE
    OBVIOUS
  <2>1. CASE j \in DOMAIN log /\ k \in DOMAIN log
    BY <1>2, <2>1 DEF Opened
  <2>2. CASE j = n \/ k = n
    BY <1>2, <1>6, <2>2 DEF Is
  <2> QED BY <1>2, <2>1, <2>2
<1>8. ASSUME NEW k \in DOMAIN log'
      PROVE  \E j \in 1..k : Is(log'[j], First, TableOf(log'[k]), log'[k].id)
  <2>1. CASE k = n
    <3>1. Is(log'[k], First, TableOf(log'[k]), log'[k].id) /\ k \in 1..k
      BY <1>2, <2>1 DEF Is
    <3> QED BY <3>1
  <2>2. CASE k \in DOMAIN log
    <3>1. PICK j \in 1..k : Is(log[j], First, TableOf(log[k]), log[k].id)
      BY <2>2 DEF Opened
    <3>2. j \in DOMAIN log
      BY <1>1, <2>2, <3>1
    <3> QED BY <1>2, <2>2, <3>1, <3>2
  <2> QED BY <1>2, <2>1, <2>2
<1> QED BY <1>4, <1>5, <1>7, <1>8 DEF Opened

\* An event is about a record that is open.
LEMMA OpensMore ==
  ASSUME ContractTyped, Opened, NEW e \in ParticipantEvent, Emit(e), e.type \notin First,
         Exists(TableOf(e), e.id),
         \A table \in Tables : \A id : Exists(table, id)' <=> Exists(table, id)
  PROVE  Opened'
<1> DEFINE n == Len(log) + 1
<1>1. log \in Seq(ParticipantEvent)
  BY DEF ContractTyped
<1>2. /\ DOMAIN log' = 1..n /\ n \in DOMAIN log' /\ log'[n] = e
      /\ \A k \in DOMAIN log : k \in DOMAIN log' /\ log'[k] = log[k] /\ k \in Nat /\ k < n
      /\ \A k \in DOMAIN log' : k \in DOMAIN log \/ k = n
      /\ Len(log) \in Nat
  BY <1>1, Appends
<1> HIDE DEF n
<1>3. TableOf(e) \in Tables
  BY EventTables
<1>4. /\ \A k \in DOMAIN log' : TableOf(log'[k]) \in Tables
      /\ \A k \in DOMAIN log' : \A table, id :
           TableOf(log'[k]) = table /\ log'[k].id = id => Exists(table, id)'
  BY <1>2, <1>3 DEF Opened
<1>5. ASSUME NEW table \in Tables, NEW id, Exists(table, id)'
      PROVE  \E k \in DOMAIN log' : Is(log'[k], First, table, id)
  BY <1>2, <1>5 DEF Opened
<1>6. \A table, id : ~Is(e, First, table, id)
  BY DEF Is
<1>7. \A j, k \in DOMAIN log' : \A table, id :
        Is(log'[j], First, table, id) /\ Is(log'[k], First, table, id) => j = k
  BY <1>2, <1>6 DEF Opened
<1>8. ASSUME NEW k \in DOMAIN log'
      PROVE  \E j \in 1..k : Is(log'[j], First, TableOf(log'[k]), log'[k].id)
  <2>1. CASE k = n
    <3>1. PICK j \in DOMAIN log : Is(log[j], First, TableOf(e), e.id)
      BY <1>3 DEF Opened
    <3>2. j \in 1..k
      BY <1>1, <1>2, <2>1
    <3> QED BY <1>2, <2>1, <3>1, <3>2
  <2>2. CASE k \in DOMAIN log
    <3>1. PICK j \in 1..k : Is(log[j], First, TableOf(log[k]), log[k].id)
      BY <2>2 DEF Opened
    <3>2. j \in DOMAIN log
      BY <1>1, <2>2, <3>1
    <3> QED BY <1>2, <2>2, <3>1, <3>2
  <2> QED BY <1>2, <2>1, <2>2
<1> QED BY <1>4, <1>5, <1>7, <1>8 DEF Opened

\* Who was last to set a column among more events was so among fewer.
LEMMA LastNext ==
  ASSUME log \in Seq(ParticipantEvent), NEW e \in ParticipantEvent, Emit(e)
  PROVE  \A k \in DOMAIN log : \A types :
           LastSets(k, types)' => LastSets(k, types) /\ ~Is(e, types, TableOf(log[k]), log[k].id)
<1> SUFFICES ASSUME NEW k \in DOMAIN log, NEW types, LastSets(k, types)'
             PROVE  LastSets(k, types) /\ ~Is(e, types, TableOf(log[k]), log[k].id)
  OBVIOUS
<1>1. /\ \A j \in DOMAIN log : j \in DOMAIN log' /\ log'[j] = log[j]
      /\ Len(log) + 1 \in DOMAIN log' /\ log'[Len(log) + 1] = e /\ k < Len(log) + 1
  BY Appends
<1>2. \A j \in DOMAIN log' : j > k => ~Is(log'[j], types, TableOf(log'[k]), log'[k].id)
  BY DEF LastSets
<1>3. LastSets(k, types)
  BY <1>1, <1>2 DEF LastSets
<1>4. k \in Nat /\ Len(log) + 1 > k
  BY Appends
<1> QED BY <1>1, <1>2, <1>3, <1>4

\* Events of other records leave true what was said of agents, of operators, of
\* attestations and of registrations.
LEMMA SaidStays ==
  ASSUME ContractTyped, NEW e \in ParticipantEvent, Emit(e)
  PROVE  /\ AgentsSaid /\ agents' = agents
            /\ e.type \notin {"AgentRegistered", "AgentUpdated", "AgentRevoked"} => AgentsSaid'
         /\ OperatorsSaid /\ operators' = operators
            /\ e.type \notin {"OperatorRegistered", "OperatorUpdated", "SolverBondChanged"}
            => OperatorsSaid'
         /\ AttestationsSaid /\ attestations' = attestations
            /\ e.type \notin {"AttestationSubmitted", "AttestationRevoked"} => AttestationsSaid'
         /\ RegistersOnce /\ idByOperator' = idByOperator /\ e.type # "OperatorRegistered"
            => RegistersOnce'
<1> DEFINE n == Len(log) + 1
<1>1. /\ \A k \in DOMAIN log : k \in DOMAIN log' /\ log'[k] = log[k] /\ k < n
      /\ \A k \in DOMAIN log' : k \in DOMAIN log \/ k = n
      /\ log'[n] = e
  BY Appends DEF ContractTyped
<1>2. \A k \in DOMAIN log : \A types : LastSets(k, types)' => LastSets(k, types)
  BY LastNext DEF ContractTyped
<1> HIDE DEF n
<1>3. ASSUME AgentsSaid, agents' = agents,
             e.type \notin {"AgentRegistered", "AgentUpdated", "AgentRevoked"}
      PROVE  AgentsSaid'
  <2> SUFFICES ASSUME NEW k \in DOMAIN log' PROVE AgentSaid(k)'
    BY DEF AgentsSaid
  <2>1. CASE k = n
    BY <1>1, <1>3, <2>1 DEF AgentSaid
  <2>2. CASE k \in DOMAIN log
    <3>1. AgentSaid(k)
      BY <1>3, <2>2 DEF AgentsSaid
    <3> QED BY <1>1, <1>2, <1>3, <2>2, <3>1 DEF AgentSaid
  <2> QED BY <1>1, <2>1, <2>2
<1>4. ASSUME OperatorsSaid, operators' = operators,
             e.type \notin {"OperatorRegistered", "OperatorUpdated", "SolverBondChanged"}
      PROVE  OperatorsSaid'
  <2> SUFFICES ASSUME NEW k \in DOMAIN log' PROVE OperatorSaid(k)'
    BY DEF OperatorsSaid
  <2>1. CASE k = n
    BY <1>1, <1>4, <2>1 DEF OperatorSaid
  <2>2. CASE k \in DOMAIN log
    <3>1. OperatorSaid(k)
      BY <1>4, <2>2 DEF OperatorsSaid
    <3> QED BY <1>1, <1>2, <1>4, <2>2, <3>1 DEF OperatorSaid
  <2> QED BY <1>1, <2>1, <2>2
<1>5. ASSUME AttestationsSaid, attestations' = attestations,
             e.type \notin {"AttestationSubmitted", "AttestationRevoked"}
      PROVE  AttestationsSaid'
  <2> SUFFICES ASSUME NEW k \in DOMAIN log' PROVE AttestationSaid(k)'
    BY DEF AttestationsSaid
  <2>1. CASE k = n
    BY <1>1, <1>5, <2>1 DEF AttestationSaid
  <2>2. CASE k \in DOMAIN log
    <3>1. AttestationSaid(k)
      BY <1>5, <2>2 DEF AttestationsSaid
    <3> QED BY <1>1, <1>2, <1>5, <2>2, <3>1 DEF AttestationSaid
  <2> QED BY <1>1, <2>1, <2>2
<1>6. ASSUME RegistersOnce, idByOperator' = idByOperator, e.type # "OperatorRegistered"
      PROVE  RegistersOnce'
  BY <1>1, <1>6 DEF RegistersOnce
<1> QED BY <1>3, <1>4, <1>5, <1>6

\* An owner registers an agent.
LEMMA RegisterAgentStep ==
  ASSUME ContractInv, NEW sender \in Address, RegisterAgent(sender)
  PROVE  ContractInv'
<1> DEFINE e == [type |-> "AgentRegistered", id |-> Len(agents) + 1, owner |-> sender]
           record == [owner |-> sender, version |-> 0, revoked |-> FALSE]
<1>1. agents \in Seq(Agent) /\ log \in Seq(ParticipantEvent)
  BY DEF ContractInv, ContractTyped
<1>2. /\ record \in Agent /\ e \in ParticipantEvent
      /\ agents' = Append(agents, record) /\ Emit(e)
      /\ UNCHANGED <<registryVars, operators, idByOperator>>
  BY <1>1 DEF RegisterAgent, Agent, ParticipantEvent
<1>3. /\ e.type = "AgentRegistered" /\ e.id = Len(agents) + 1 /\ TableOf(e) = "agents"
      /\ e.owner = sender /\ record.owner = sender /\ record.version = 0 /\ ~record.revoked
  BY DEF TableOf
<1> HIDE DEF e, record
<1>4. /\ agents' \in Seq(Agent) /\ DOMAIN agents = 1..Len(agents) /\ Len(agents) \in Nat
      /\ DOMAIN agents' = 1..(Len(agents) + 1)
      /\ agents'[Len(agents) + 1] = record
      /\ \A id \in DOMAIN agents : agents'[id] = agents[id]
  BY <1>1, <1>2
<1>5. ContractTyped'
  BY <1>1, <1>2, <1>4, Appends DEF ContractInv, ContractTyped, registryVars, AttestationExists
<1>6. Opened'
  <2>1. \A table \in Tables : \A id :
          Exists(table, id)' <=> Exists(table, id) \/ (table = TableOf(e) /\ id = e.id)
    BY <1>2, <1>3, <1>4 DEF Exists, AttestationExists, registryVars
  <2>2. ~Exists(TableOf(e), e.id) /\ e.type \in First
    BY <1>3, <1>4 DEF Exists, First
  <2> QED BY <1>2, <2>1, <2>2, OpensNew DEF ContractInv
<1>7. AgentsSaid'
  <2> SUFFICES ASSUME NEW k \in DOMAIN log' PROVE AgentSaid(k)'
    BY DEF AgentsSaid
  <2>1. CASE k = Len(log) + 1
    <3>1. log'[k] = e
      BY <1>1, <1>2, <2>1, Appends
    <3> QED BY <1>3, <1>4, <3>1 DEF AgentSaid
  <2>2. CASE k \in DOMAIN log
    <3>1. log'[k] = log[k] /\ \A types : LastSets(k, types)' => LastSets(k, types)
      BY <1>1, <1>2, <2>2, Appends, LastNext
    <3>2. AgentSaid(k)
      BY <2>2 DEF ContractInv, AgentsSaid
    <3>3. log[k].type \in {"AgentRegistered", "AgentUpdated", "AgentRevoked"} =>
            log[k].id \in DOMAIN agents
      <4>1. TableOf(log[k]) = "agents" => Exists("agents", log[k].id)
        BY <2>2 DEF ContractInv, Opened
      <4> QED BY <4>1 DEF Exists, TableOf
    <3> QED BY <1>4, <3>1, <3>2, <3>3 DEF AgentSaid
  <2> QED BY <1>1, <1>2, <2>1, <2>2, Appends
<1>8. OperatorsSaid' /\ AttestationsSaid' /\ RegistersOnce'
  BY <1>2, <1>3, SaidStays DEF ContractInv, registryVars
<1> QED BY <1>5, <1>6, <1>7, <1>8 DEF ContractInv

\* The owner of an agent updates it.
LEMMA UpdateAgentStep ==
  ASSUME ContractInv, NEW sender \in Address, NEW id0, UpdateAgent(sender, id0)
  PROVE  ContractInv'
<1> DEFINE e == [type |-> "AgentUpdated", id |-> id0, version |-> agents[id0].version + 1]
           record == [agents[id0] EXCEPT !.version = @ + 1]
<1>1. agents \in Seq(Agent) /\ log \in Seq(ParticipantEvent)
  BY DEF ContractInv, ContractTyped
<1>2. id0 \in DOMAIN agents /\ agents[id0] \in Agent /\ agents[id0].version \in Nat /\ id0 \in Nat
  <2>1. id0 \in DOMAIN agents
    BY DEF UpdateAgent, MayManage, AgentsByOwner
  <2>2. agents[id0] \in Agent /\ id0 \in Nat
    BY <1>1, <2>1
  <2> QED BY <2>1, <2>2 DEF Agent
<1>3. /\ record \in Agent /\ e \in ParticipantEvent
      /\ agents' = [agents EXCEPT ![id0] = record] /\ Emit(e)
      /\ UNCHANGED <<registryVars, operators, idByOperator>>
  <2>1. record \in Agent
    BY <1>2 DEF Agent
  <2>2. e \in ParticipantEvent
    BY <1>2 DEF ParticipantEvent
  <2> QED BY <2>1, <2>2 DEF UpdateAgent
<1>4. /\ e.type = "AgentUpdated" /\ e.id = id0 /\ TableOf(e) = "agents"
      /\ e.version = agents[id0].version + 1
      /\ record.owner = agents[id0].owner /\ record.version = e.version
      /\ record.revoked = agents[id0].revoked
  BY <1>2 DEF TableOf, Agent
<1> HIDE DEF e, record
<1>5. /\ agents' \in Seq(Agent) /\ DOMAIN agents' = DOMAIN agents
      /\ agents'[id0] = record
      /\ \A id \in DOMAIN agents : id # id0 => agents'[id] = agents[id]
  BY <1>1, <1>2, <1>3
<1>6. ContractTyped'
  BY <1>1, <1>3, <1>5, Appends DEF ContractInv, ContractTyped, registryVars, AttestationExists
<1>7. Opened'
  <2>1. \A table \in Tables : \A id : Exists(table, id)' <=> Exists(table, id)
    BY <1>3, <1>5 DEF Exists, AttestationExists, registryVars
  <2>2. Exists(TableOf(e), e.id) /\ e.type \notin First
    BY <1>2, <1>4 DEF Exists, First
  <2> QED BY <1>3, <2>1, <2>2, OpensMore DEF ContractInv
<1>8. AgentsSaid'
  <2> SUFFICES ASSUME NEW k \in DOMAIN log' PROVE AgentSaid(k)'
    BY DEF AgentsSaid
  <2>1. CASE k = Len(log) + 1
    <3>1. log'[k] = e
      BY <1>1, <1>3, <2>1, Appends
    <3> QED BY <1>4, <1>5, <3>1 DEF AgentSaid
  <2>2. CASE k \in DOMAIN log
    <3>1. /\ log'[k] = log[k]
          /\ \A types : LastSets(k, types)' =>
               LastSets(k, types) /\ ~Is(e, types, TableOf(log[k]), log[k].id)
      BY <1>1, <1>3, <2>2, Appends, LastNext
    <3>2. AgentSaid(k)
      BY <2>2 DEF ContractInv, AgentsSaid
    <3>3. log[k].type \in {"AgentRegistered", "AgentUpdated", "AgentRevoked"} =>
            log[k].id \in DOMAIN agents /\ TableOf(log[k]) = "agents"
      <4>1. TableOf(log[k]) = "agents" => Exists("agents", log[k].id)
        BY <2>2 DEF ContractInv, Opened
      <4> QED BY <4>1 DEF Exists, TableOf
    <3>4. ASSUME log[k].type \in SetsVersion, LastSets(k, SetsVersion)'
          PROVE  log[k].id # id0 /\ LastSets(k, SetsVersion)
      BY <1>4, <3>1, <3>3, <3>4 DEF Is, SetsVersion
    <3>5. log[k].type \in {"AgentRegistered", "AgentUpdated", "AgentRevoked"} =>
            /\ agents'[log[k].id].owner = agents[log[k].id].owner
            /\ agents'[log[k].id].revoked = agents[log[k].id].revoked
            /\ log[k].id # id0 => agents'[log[k].id].version = agents[log[k].id].version
      BY <1>4, <1>5, <3>3
    <3> QED BY <3>1, <3>2, <3>4, <3>5 DEF AgentSaid, SetsVersion
  <2> QED BY <1>1, <1>3, <2>1, <2>2, Appends
<1>9. OperatorsSaid' /\ AttestationsSaid' /\ RegistersOnce'
  BY <1>3, <1>4, SaidStays DEF ContractInv, registryVars
<1> QED BY <1>6, <1>7, <1>8, <1>9 DEF ContractInv

\* The owner of an agent revokes it.
LEMMA RevokeAgentStep ==
  ASSUME ContractInv, NEW sender \in Address, NEW id0, RevokeAgent(sender, id0)
  PROVE  ContractInv'
<1> DEFINE e == [type |-> "AgentRevoked", id |-> id0]
           record == [agents[id0] EXCEPT !.revoked = TRUE]
<1>1. agents \in Seq(Agent) /\ log \in Seq(ParticipantEvent)
  BY DEF ContractInv, ContractTyped
<1>2. id0 \in DOMAIN agents /\ agents[id0] \in Agent /\ id0 \in Nat
  BY <1>1 DEF RevokeAgent, MayManage, AgentsByOwner
<1>3. /\ record \in Agent /\ e \in ParticipantEvent
      /\ agents' = [agents EXCEPT ![id0] = record] /\ Emit(e)
      /\ UNCHANGED <<registryVars, operators, idByOperator>>
  BY <1>1, <1>2 DEF RevokeAgent, Agent, ParticipantEvent
<1>4. /\ e.type = "AgentRevoked" /\ e.id = id0 /\ TableOf(e) = "agents"
      /\ record.owner = agents[id0].owner /\ record.version = agents[id0].version
      /\ record.revoked
  BY <1>2 DEF TableOf, Agent
<1> HIDE DEF e, record
<1>5. /\ agents' \in Seq(Agent) /\ DOMAIN agents' = DOMAIN agents
      /\ agents'[id0] = record
      /\ \A id \in DOMAIN agents : id # id0 => agents'[id] = agents[id]
  BY <1>1, <1>2, <1>3
<1>6. ContractTyped'
  BY <1>1, <1>3, <1>5, Appends DEF ContractInv, ContractTyped, registryVars, AttestationExists
<1>7. Opened'
  <2>1. \A table \in Tables : \A id : Exists(table, id)' <=> Exists(table, id)
    BY <1>3, <1>5 DEF Exists, AttestationExists, registryVars
  <2>2. Exists(TableOf(e), e.id) /\ e.type \notin First
    BY <1>2, <1>4 DEF Exists, First
  <2> QED BY <1>3, <2>1, <2>2, OpensMore DEF ContractInv
<1>8. AgentsSaid'
  <2> SUFFICES ASSUME NEW k \in DOMAIN log' PROVE AgentSaid(k)'
    BY DEF AgentsSaid
  <2>1. CASE k = Len(log) + 1
    <3>1. log'[k] = e
      BY <1>1, <1>3, <2>1, Appends
    <3> QED BY <1>4, <1>5, <3>1 DEF AgentSaid
  <2>2. CASE k \in DOMAIN log
    <3>1. /\ log'[k] = log[k]
          /\ \A types : LastSets(k, types)' =>
               LastSets(k, types) /\ ~Is(e, types, TableOf(log[k]), log[k].id)
      BY <1>1, <1>3, <2>2, Appends, LastNext
    <3>2. AgentSaid(k)
      BY <2>2 DEF ContractInv, AgentsSaid
    <3>3. log[k].type \in {"AgentRegistered", "AgentUpdated", "AgentRevoked"} =>
            log[k].id \in DOMAIN agents /\ TableOf(log[k]) = "agents"
      <4>1. TableOf(log[k]) = "agents" => Exists("agents", log[k].id)
        BY <2>2 DEF ContractInv, Opened
      <4> QED BY <4>1 DEF Exists, TableOf
    <3>4. ASSUME log[k].type = "AgentRegistered", LastSets(k, SetsRevoked)'
          PROVE  log[k].id # id0 /\ LastSets(k, SetsRevoked)
      BY <1>4, <3>1, <3>3, <3>4 DEF Is, SetsRevoked
    <3>5. log[k].type \in {"AgentRegistered", "AgentUpdated", "AgentRevoked"} =>
            /\ agents'[log[k].id].owner = agents[log[k].id].owner
            /\ agents'[log[k].id].version = agents[log[k].id].version
            /\ agents[log[k].id].revoked => agents'[log[k].id].revoked
            /\ log[k].id # id0 => agents'[log[k].id].revoked = agents[log[k].id].revoked
      BY <1>4, <1>5, <3>3
    <3> QED BY <3>1, <3>2, <3>4, <3>5 DEF AgentSaid
  <2> QED BY <1>1, <1>3, <2>1, <2>2, Appends
<1>9. OperatorsSaid' /\ AttestationsSaid' /\ RegistersOnce'
  BY <1>3, <1>4, SaidStays DEF ContractInv, registryVars
<1> QED BY <1>6, <1>7, <1>8, <1>9 DEF ContractInv

\* An operator registers.
LEMMA RegisterOperatorStep ==
  ASSUME ContractInv, NEW kind0 \in Kind, NEW sender \in Address, NEW bond0 \in Bond \cup {0},
         RegisterOperator(kind0, sender, bond0)
  PROVE  ContractInv'
<1> DEFINE id0 == Len(operators[kind0]) + 1
           e == [type |-> "OperatorRegistered", kind |-> kind0, id |-> id0,
                 operator |-> sender, bond |-> bond0]
           record == [operator |-> sender, active |-> TRUE, bond |-> bond0]
<1>1. /\ operators \in [Kind -> Seq(Operator)] /\ log \in Seq(ParticipantEvent)
      /\ operators[kind0] \in Seq(Operator) /\ idByOperator \in [Kind -> [Address -> Nat]]
      /\ id0 \in Nat \ {0}
  BY DEF ContractInv, ContractTyped
<1>2. /\ record \in Operator /\ e \in ParticipantEvent
      /\ operators' = [operators EXCEPT ![kind0] = Append(operators[kind0], record)] /\ Emit(e)
      /\ idByOperator[kind0][sender] = 0
      /\ idByOperator' = [idByOperator EXCEPT ![kind0][sender] = id0]
      /\ UNCHANGED <<registryVars, agents>>
  BY <1>1 DEF RegisterOperator, Operator, ParticipantEvent
<1>3. /\ e.type = "OperatorRegistered" /\ e.id = id0 /\ e.kind = kind0 /\ TableOf(e) = kind0
      /\ e.operator = sender /\ e.bond = bond0
      /\ record.operator = sender /\ record.active /\ record.bond = bond0
  BY DEF TableOf
<1>4. /\ DOMAIN operators[kind0] = 1..Len(operators[kind0])
      /\ DOMAIN operators'[kind0] = 1..id0 /\ operators'[kind0][id0] = record
      /\ \A id \in DOMAIN operators[kind0] : operators'[kind0][id] = operators[kind0][id]
      /\ \A kind \in Kind : kind # kind0 => operators'[kind] = operators[kind]
      /\ operators' \in [Kind -> Seq(Operator)] /\ id0 \notin DOMAIN operators[kind0]
      /\ \A id : id \in DOMAIN operators'[kind0] <=> id \in DOMAIN operators[kind0] \/ id = id0
  <2>1. Append(operators[kind0], record) \in Seq(Operator)
    BY <1>1, <1>2
  <2>2. operators'[kind0] = Append(operators[kind0], record)
    BY <1>1, <1>2
  <2>3. \A kind \in Kind : kind # kind0 => operators'[kind] = operators[kind]
    BY <1>1, <1>2
  <2>4. operators' \in [Kind -> Seq(Operator)]
    BY <1>1, <1>2, <2>1
  <2> HIDE DEF record
  <2>5. /\ DOMAIN operators[kind0] = 1..Len(operators[kind0])
        /\ DOMAIN operators'[kind0] = 1..id0 /\ operators'[kind0][id0] = record
        /\ \A id \in DOMAIN operators[kind0] : operators'[kind0][id] = operators[kind0][id]
    BY <1>1, <1>2, <2>2
  <2> QED BY <1>1, <2>3, <2>4, <2>5
<1>5. /\ idByOperator' \in [Kind -> [Address -> Nat]] /\ idByOperator'[kind0][sender] # 0
      /\ \A kind \in Kind, a \in Address :
           idByOperator[kind][a] # 0 => idByOperator'[kind][a] # 0
  BY <1>1, <1>2
<1> HIDE DEF e, record, id0
<1>6. ContractTyped'
  BY <1>1, <1>2, <1>4, <1>5, Appends DEF ContractInv, ContractTyped, registryVars, AttestationExists
<1>7. Opened'
  <2>1. \A table \in Tables : \A id :
          Exists(table, id)' <=> Exists(table, id) \/ (table = TableOf(e) /\ id = e.id)
    BY <1>2, <1>3, <1>4 DEF Exists, AttestationExists, registryVars, Tables, Kind
  <2>2. ~Exists(TableOf(e), e.id) /\ e.type \in First
    BY <1>3, <1>4 DEF Exists, First, Kind
  <2> QED BY <1>2, <2>1, <2>2, OpensNew DEF ContractInv
<1>8. OperatorsSaid'
  <2> SUFFICES ASSUME NEW k \in DOMAIN log' PROVE OperatorSaid(k)'
    BY DEF OperatorsSaid
  <2>1. CASE k = Len(log) + 1
    <3>1. log'[k] = e
      BY <1>1, <1>2, <2>1, Appends
    <3> QED BY <1>3, <1>4, <3>1 DEF OperatorSaid
  <2>2. CASE k \in DOMAIN log
    <3>1. log'[k] = log[k] /\ \A types : LastSets(k, types)' => LastSets(k, types)
      BY <1>1, <1>2, <2>2, Appends, LastNext
    <3>2. OperatorSaid(k)
      BY <2>2 DEF ContractInv, OperatorsSaid
    <3>3. ASSUME log[k].type \in {"OperatorRegistered", "OperatorUpdated", "SolverBondChanged"}
          PROVE  /\ TableOf(log[k]) \in Kind /\ log[k].id \in DOMAIN operators[TableOf(log[k])]
                 /\ operators'[TableOf(log[k])][log[k].id] = operators[TableOf(log[k])][log[k].id]
                 /\ log[k].type = "SolverBondChanged" => TableOf(log[k]) = "solvers"
                 /\ log[k].type # "SolverBondChanged" => TableOf(log[k]) = log[k].kind
      <4>1. log[k] \in ParticipantEvent
        BY <1>1, <2>2
      <4>2. /\ TableOf(log[k]) \in Kind
            /\ log[k].type = "SolverBondChanged" => TableOf(log[k]) = "solvers"
            /\ log[k].type # "SolverBondChanged" => TableOf(log[k]) = log[k].kind
        BY <3>3, <4>1, EventTables DEF Kind
      <4>3. \A table : TableOf(log[k]) = table => Exists(table, log[k].id)
        BY <2>2 DEF ContractInv, Opened
      <4>4. Exists(TableOf(log[k]), log[k].id)
        BY <4>3
      <4>5. log[k].id \in DOMAIN operators[TableOf(log[k])]
        BY <4>2, <4>4 DEF Exists, Kind
      <4>6. operators'[TableOf(log[k])][log[k].id] = operators[TableOf(log[k])][log[k].id]
        <5>1. CASE TableOf(log[k]) = kind0
          BY <1>4, <4>5, <5>1
        <5>2. CASE TableOf(log[k]) # kind0
          BY <1>4, <4>2, <5>2
        <5> QED BY <5>1, <5>2
      <4> QED BY <4>2, <4>5, <4>6
    <3> QED BY <3>1, <3>2, <3>3 DEF OperatorSaid
  <2> QED BY <1>1, <1>2, <2>1, <2>2, Appends
<1>9. RegistersOnce'
  <2>1. /\ \A k \in DOMAIN log : k \in DOMAIN log' /\ log'[k] = log[k] /\ log[k] \in ParticipantEvent
        /\ \A k \in DOMAIN log' : k \in DOMAIN log \/ k = Len(log) + 1
        /\ log'[Len(log) + 1] = e
    BY <1>1, <1>2, Appends
  <2>2. \A k \in DOMAIN log : log[k].type = "OperatorRegistered" =>
          log[k].kind \in Kind /\ log[k].operator \in Address
    BY <2>1, EventFields
  <2>3. /\ \A k \in DOMAIN log : log[k].type = "OperatorRegistered" =>
             idByOperator[log[k].kind][log[k].operator] # 0
        /\ \A j, k \in DOMAIN log :
             /\ log[j].type = "OperatorRegistered" /\ log[k].type = "OperatorRegistered"
             /\ log[j].kind = log[k].kind /\ log[j].operator = log[k].operator
             => j = k
    BY DEF ContractInv, RegistersOnce
  <2>4. \A k \in DOMAIN log' : log'[k].type = "OperatorRegistered" =>
          idByOperator'[log'[k].kind][log'[k].operator] # 0
    <3> SUFFICES ASSUME NEW k \in DOMAIN log', log'[k].type = "OperatorRegistered"
                 PROVE  idByOperator'[log'[k].kind][log'[k].operator] # 0
      OBVIOUS
    <3>1. CASE k = Len(log) + 1
      BY <1>3, <1>5, <2>1, <3>1
    <3>2. CASE k \in DOMAIN log
      <4>1. /\ log'[k] = log[k] /\ log[k].kind \in Kind /\ log[k].operator \in Address
            /\ idByOperator[log[k].kind][log[k].operator] # 0
        BY <2>1, <2>2, <2>3, <3>2
      <4> QED BY <1>5, <4>1
    <3> QED BY <2>1, <3>1, <3>2
  <2>5. \A k \in DOMAIN log : log[k].type = "OperatorRegistered" =>
          ~(log[k].kind = kind0 /\ log[k].operator = sender)
    BY <1>2, <2>3
  <2>6. \A j, k \in DOMAIN log' :
          /\ log'[j].type = "OperatorRegistered" /\ log'[k].type = "OperatorRegistered"
          /\ log'[j].kind = log'[k].kind /\ log'[j].operator = log'[k].operator
          => j = k
    BY <1>3, <2>1, <2>3, <2>5
  <2> QED BY <2>4, <2>6 DEF RegistersOnce
<1>10. AgentsSaid' /\ AttestationsSaid'
  BY <1>2, <1>3, SaidStays DEF ContractInv, registryVars
<1> QED BY <1>6, <1>7, <1>8, <1>9, <1>10 DEF ContractInv

\* Events of operators are about operators that exist.
LEMMA OperatorOfEvent ==
  ASSUME ContractInv, NEW k \in DOMAIN log,
         log[k].type \in {"OperatorRegistered", "OperatorUpdated", "SolverBondChanged"}
  PROVE  /\ TableOf(log[k]) \in Kind /\ log[k].id \in DOMAIN operators[TableOf(log[k])]
         /\ log[k].type = "SolverBondChanged" => TableOf(log[k]) = "solvers"
         /\ log[k].type # "SolverBondChanged" => TableOf(log[k]) = log[k].kind
<1>1. log[k] \in ParticipantEvent
  BY DEF ContractInv, ContractTyped
<1>2. /\ TableOf(log[k]) \in Kind
      /\ log[k].type = "SolverBondChanged" => TableOf(log[k]) = "solvers"
      /\ log[k].type # "SolverBondChanged" => TableOf(log[k]) = log[k].kind
  BY <1>1, EventTables DEF Kind
<1>3. \A table : TableOf(log[k]) = table => Exists(table, log[k].id)
  BY DEF ContractInv, Opened
<1>4. Exists(TableOf(log[k]), log[k].id)
  BY <1>3
<1> QED BY <1>2, <1>4 DEF Exists, Kind

\* An operator keeps its record, but for the columns event e sets.
LEMMA ChangeOperatorStep ==
  ASSUME ContractInv, NEW kind0 \in Kind, NEW id0 \in DOMAIN operators[kind0], NEW record \in Operator,
         operators' = [operators EXCEPT ![kind0][id0] = record],
         record.operator = operators[kind0][id0].operator,
         NEW e \in ParticipantEvent, Emit(e), TableOf(e) = kind0, e.id = id0,
         \/ /\ e.type = "OperatorUpdated" /\ record.active = e.active
            /\ record.bond = operators[kind0][id0].bond
         \/ /\ e.type = "SolverBondChanged" /\ record.bond = e.bond
            /\ record.active = operators[kind0][id0].active,
         UNCHANGED <<registryVars, agents, idByOperator>>
  PROVE  ContractInv'
<1>1. /\ operators \in [Kind -> Seq(Operator)] /\ log \in Seq(ParticipantEvent)
      /\ operators[kind0] \in Seq(Operator)
  BY DEF ContractInv, ContractTyped
<1> DEFINE new == [operators[kind0] EXCEPT ![id0] = record]
<1>2. /\ new \in Seq(Operator) /\ DOMAIN new = DOMAIN operators[kind0] /\ new[id0] = record
      /\ \A id \in DOMAIN operators[kind0] : id # id0 => new[id] = operators[kind0][id]
  BY <1>1
<1>3. operators' = [operators EXCEPT ![kind0] = new]
  BY <1>1
<1> HIDE DEF new
<1>4. /\ operators' \in [Kind -> Seq(Operator)] /\ operators'[kind0] = new
      /\ \A kind \in Kind : kind # kind0 => operators'[kind] = operators[kind]
  BY <1>1, <1>2, <1>3
<1>5. \A kind \in Kind : DOMAIN operators'[kind] = DOMAIN operators[kind]
  BY <1>2, <1>4
<1>6. ContractTyped'
  BY <1>1, <1>4, Appends DEF ContractInv, ContractTyped, registryVars, AttestationExists
<1>7. Opened'
  <2>1. \A table \in Tables : \A id : Exists(table, id)' <=> Exists(table, id)
    BY <1>5 DEF Exists, AttestationExists, registryVars, Tables
  <2>2. Exists(TableOf(e), e.id) /\ e.type \notin First
    BY DEF Exists, First, Kind
  <2> QED BY <2>1, <2>2, OpensMore DEF ContractInv
<1>8. OperatorsSaid'
  <2> SUFFICES ASSUME NEW k \in DOMAIN log' PROVE OperatorSaid(k)'
    BY DEF OperatorsSaid
  <2>1. CASE k = Len(log) + 1
    <3>1. log'[k] = e
      BY <1>1, <2>1, Appends
    <3>2. e.type = "OperatorUpdated" => e.kind = kind0
      BY EventTables
    <3>3. e.type = "SolverBondChanged" => kind0 = "solvers"
      BY EventTables
    <3> QED BY <1>2, <1>4, <3>1, <3>2, <3>3 DEF OperatorSaid
  <2>2. CASE k \in DOMAIN log
    <3>1. /\ log'[k] = log[k]
          /\ \A types : LastSets(k, types)' =>
               LastSets(k, types) /\ ~Is(e, types, TableOf(log[k]), log[k].id)
      BY <1>1, <2>2, Appends, LastNext
    <3>2. OperatorSaid(k)
      BY <2>2 DEF ContractInv, OperatorsSaid
    <3>3. ASSUME log[k].type \in {"OperatorRegistered", "OperatorUpdated", "SolverBondChanged"}
          PROVE  /\ operators'[TableOf(log[k])][log[k].id].operator
                      = operators[TableOf(log[k])][log[k].id].operator
                 /\ LastSets(k, SetsActive)' =>
                      operators'[TableOf(log[k])][log[k].id].active
                        = operators[TableOf(log[k])][log[k].id].active
                 /\ LastSets(k, SetsBond)' =>
                      operators'[TableOf(log[k])][log[k].id].bond
                        = operators[TableOf(log[k])][log[k].id].bond
                 /\ log[k].type = "SolverBondChanged" => TableOf(log[k]) = "solvers"
                 /\ log[k].type # "SolverBondChanged" => TableOf(log[k]) = log[k].kind
      <4>1. /\ TableOf(log[k]) \in Kind /\ log[k].id \in DOMAIN operators[TableOf(log[k])]
            /\ log[k].type = "SolverBondChanged" => TableOf(log[k]) = "solvers"
            /\ log[k].type # "SolverBondChanged" => TableOf(log[k]) = log[k].kind
        BY <2>2, <3>3, OperatorOfEvent
      <4>2. CASE TableOf(log[k]) = kind0 /\ log[k].id = id0
        <5>1. LastSets(k, SetsActive)' => e.type # "OperatorUpdated"
          BY <3>1, <4>2 DEF Is, SetsActive
        <5>2. LastSets(k, SetsBond)' => e.type # "SolverBondChanged"
          BY <3>1, <4>2 DEF Is, SetsBond
        <5>3. operators'[kind0][id0] = record
          BY <1>2, <1>4
        <5> QED BY <4>1, <4>2, <5>1, <5>2, <5>3
      <4>3. CASE ~(TableOf(log[k]) = kind0 /\ log[k].id = id0)
        <5>1. operators'[TableOf(log[k])][log[k].id] = operators[TableOf(log[k])][log[k].id]
          BY <1>2, <1>4, <4>1, <4>3
        <5> QED BY <4>1, <5>1
      <4> QED BY <4>2, <4>3
    <3> QED BY <3>1, <3>2, <3>3 DEF OperatorSaid
  <2> QED BY <1>1, <2>1, <2>2, Appends
<1>9. AgentsSaid' /\ AttestationsSaid' /\ RegistersOnce'
  BY SaidStays DEF ContractInv, registryVars
<1> QED BY <1>6, <1>7, <1>8, <1>9 DEF ContractInv

\* An operator changes its metadata or its state.
LEMMA UpdateOperatorStep ==
  ASSUME ContractInv, NEW kind0 \in Kind, NEW sender \in Address, NEW id0, NEW active0 \in BOOLEAN,
         UpdateOperator(kind0, sender, id0, active0)
  PROVE  ContractInv'
<1> DEFINE e == [type |-> "OperatorUpdated", kind |-> kind0, id |-> id0, active |-> active0]
           record == [operators[kind0][id0] EXCEPT !.active = active0]
<1>1. operators[kind0] \in Seq(Operator) /\ id0 \in DOMAIN operators[kind0]
  BY DEF ContractInv, ContractTyped, UpdateOperator, Operates
<1>2. operators[kind0][id0] \in Operator /\ id0 \in Nat
  BY <1>1
<1>3. /\ record \in Operator /\ record.operator = operators[kind0][id0].operator
      /\ record.active = active0 /\ record.bond = operators[kind0][id0].bond
  BY <1>2 DEF Operator
<1>4. /\ e \in ParticipantEvent /\ TableOf(e) = kind0 /\ e.id = id0 /\ e.type = "OperatorUpdated"
      /\ e.active = active0
  BY <1>2 DEF ParticipantEvent, TableOf
<1>5. /\ operators' = [operators EXCEPT ![kind0][id0] = record] /\ Emit(e)
      /\ UNCHANGED <<registryVars, agents, idByOperator>>
  BY DEF UpdateOperator
<1> HIDE DEF e, record
<1> QED BY <1>1, <1>3, <1>4, <1>5, ChangeOperatorStep

\* A solver adds to its bond or withdraws of it.
LEMMA ChangeBondStep ==
  ASSUME ContractInv, NEW sender \in Address, NEW id0, NEW bond0 \in Bond,
         ChangeBond(sender, id0, bond0)
  PROVE  ContractInv'
<1> DEFINE e == [type |-> "SolverBondChanged", id |-> id0, bond |-> bond0]
           record == [operators["solvers"][id0] EXCEPT !.bond = bond0]
<1>1. /\ "solvers" \in Kind
      /\ operators["solvers"] \in Seq(Operator) /\ id0 \in DOMAIN operators["solvers"]
  BY DEF ContractInv, ContractTyped, ChangeBond, Operates, Kind
<1>2. operators["solvers"][id0] \in Operator /\ id0 \in Nat
  BY <1>1
<1>3. /\ record \in Operator /\ record.operator = operators["solvers"][id0].operator
      /\ record.bond = bond0 /\ record.active = operators["solvers"][id0].active
  BY <1>2 DEF Operator
<1>4. /\ e \in ParticipantEvent /\ TableOf(e) = "solvers" /\ e.id = id0 /\ e.bond = bond0
      /\ e.type = "SolverBondChanged"
  BY <1>2 DEF ParticipantEvent, TableOf
<1>5. /\ operators' = [operators EXCEPT !["solvers"][id0] = record] /\ Emit(e)
      /\ UNCHANGED <<registryVars, agents, idByOperator>>
  BY DEF ChangeBond
<1> HIDE DEF e, record
<1> QED BY <1>1, <1>3, <1>4, <1>5, ChangeOperatorStep

\* Somebody attests, or takes it back.
LEMMA SubmitStep ==
  ASSUME ContractInv, NEW sender \in Address, NEW schema0 \in Schema, NEW subject0 \in Subject,
         SubmitAttestation(sender, schema0, subject0),
         Emit([type |-> "AttestationSubmitted", id |-> nextAttestationId,
               attester |-> sender, schema |-> schema0, subject |-> subject0]),
         UNCHANGED <<agents, operators, idByOperator>>,
         NEW id0, id0 = nextAttestationId
  PROVE  ContractInv'
<1> DEFINE e == [type |-> "AttestationSubmitted", id |-> id0,
                 attester |-> sender, schema |-> schema0, subject |-> subject0]
           record == [attester |-> sender, schema |-> schema0, subject |-> subject0,
                      revoked |-> FALSE]
<1>1. /\ attestations \in [AttestationId -> Attestation] /\ log \in Seq(ParticipantEvent)
      /\ id0 \in AttestationId /\ nextAttestationId' = id0 + 1 /\ id0 \in Nat \ {0}
      /\ \A id \in AttestationId : AttestationExists(id) <=> id < id0
  BY DEF ContractInv, ContractTyped, SubmitAttestation, AttestationId
<1>2. /\ record \in Attestation /\ e \in ParticipantEvent /\ Emit(e)
      /\ attestations' = [attestations EXCEPT ![id0] = record]
  BY <1>1 DEF SubmitAttestation, Attestation, ParticipantEvent
<1>3. /\ e.type = "AttestationSubmitted" /\ e.id = id0 /\ TableOf(e) = "attestations"
      /\ e.attester = sender /\ e.schema = schema0 /\ e.subject = subject0
      /\ record.attester = sender /\ record.schema = schema0 /\ record.subject = subject0
      /\ ~record.revoked
  BY DEF TableOf
<1> HIDE DEF e, record
<1>4. /\ attestations' \in [AttestationId -> Attestation] /\ attestations'[id0] = record
      /\ \A id \in AttestationId : id # id0 => attestations'[id] = attestations[id]
  BY <1>1, <1>2
<1>5. \A id : AttestationExists(id)' <=> AttestationExists(id) \/ id = id0
  <2>1. AttestationExists(id0)'
    BY <1>1, <1>3, <1>4 DEF AttestationExists
  <2> QED BY <1>1, <1>4, <2>1 DEF AttestationExists
<1>6. ContractTyped'
  <2>1. \A id \in AttestationId : AttestationExists(id)' <=> id < nextAttestationId'
    BY <1>1, <1>5 DEF AttestationId
  <2> QED BY <1>1, <1>2, <1>4, <2>1, Appends DEF ContractInv, ContractTyped
<1>7. Opened'
  <2>1. \A table \in Tables : \A id :
          Exists(table, id)' <=> Exists(table, id) \/ (table = TableOf(e) /\ id = e.id)
    BY <1>3, <1>5 DEF Exists, Tables, Kind
  <2>2. ~Exists(TableOf(e), e.id) /\ e.type \in First
    BY <1>1, <1>3 DEF Exists, First
  <2> QED BY <1>2, <2>1, <2>2, OpensNew DEF ContractInv
<1>8. AttestationsSaid'
  <2> SUFFICES ASSUME NEW k \in DOMAIN log' PROVE AttestationSaid(k)'
    BY DEF AttestationsSaid
  <2>1. CASE k = Len(log) + 1
    <3>1. log'[k] = e
      BY <1>1, <1>2, <2>1, Appends
    <3> QED BY <1>3, <1>4, <3>1 DEF AttestationSaid
  <2>2. CASE k \in DOMAIN log
    <3>1. log'[k] = log[k] /\ \A types : LastSets(k, types)' => LastSets(k, types)
      BY <1>1, <1>2, <2>2, Appends, LastNext
    <3>2. AttestationSaid(k)
      BY <2>2 DEF ContractInv, AttestationsSaid
    <3>3. log[k].type \in {"AttestationSubmitted", "AttestationRevoked"} =>
            log[k].id \in AttestationId /\ log[k].id # id0
      <4>1. TableOf(log[k]) = "attestations" => Exists("attestations", log[k].id)
        BY <2>2 DEF ContractInv, Opened
      <4>2. ~AttestationExists(id0)
        BY <1>1
      <4> QED BY <4>1, <4>2 DEF Exists, TableOf, AttestationExists
    <3> QED BY <1>4, <3>1, <3>2, <3>3 DEF AttestationSaid
  <2> QED BY <1>1, <1>2, <2>1, <2>2, Appends
<1>9. AgentsSaid' /\ OperatorsSaid' /\ RegistersOnce'
  BY <1>2, <1>3, SaidStays DEF ContractInv
<1> QED BY <1>6, <1>7, <1>8, <1>9 DEF ContractInv

\* An attester takes its attestation back.
LEMMA RevokeAttestationStep ==
  ASSUME ContractInv, NEW sender \in Address, NEW id0, RevokeAttestation(sender, id0),
         Emit([type |-> "AttestationRevoked", id |-> id0]),
         UNCHANGED <<agents, operators, idByOperator>>
  PROVE  ContractInv'
<1> DEFINE e == [type |-> "AttestationRevoked", id |-> id0]
           record == [attestations[id0] EXCEPT !.revoked = TRUE]
<1>1. /\ attestations \in [AttestationId -> Attestation] /\ log \in Seq(ParticipantEvent)
      /\ id0 \in AttestationId /\ attestations[id0] \in Attestation /\ AttestationExists(id0)
  BY DEF ContractInv, ContractTyped, RevokeAttestation, AttestationExists
<1>2. /\ record \in Attestation /\ e \in ParticipantEvent /\ Emit(e)
      /\ attestations' = [attestations EXCEPT ![id0] = record]
  <2>1. record \in Attestation
    BY <1>1 DEF Attestation
  <2>2. e \in ParticipantEvent
    BY <1>1 DEF ParticipantEvent
  <2> QED BY <2>1, <2>2 DEF RevokeAttestation
<1>3. /\ e.type = "AttestationRevoked" /\ e.id = id0 /\ TableOf(e) = "attestations"
      /\ record.attester = attestations[id0].attester /\ record.schema = attestations[id0].schema
      /\ record.subject = attestations[id0].subject /\ record.revoked
  BY <1>1 DEF TableOf, Attestation
<1> HIDE DEF e, record
<1>4. /\ attestations' \in [AttestationId -> Attestation] /\ attestations'[id0] = record
      /\ \A id \in AttestationId : id # id0 => attestations'[id] = attestations[id]
  BY <1>1, <1>2
<1>5. \A id : AttestationExists(id)' <=> AttestationExists(id)
  BY <1>1, <1>3, <1>4 DEF AttestationExists
<1>6. ContractTyped'
  BY <1>1, <1>2, <1>4, <1>5, Appends DEF ContractInv, ContractTyped, RevokeAttestation
<1>7. Opened'
  <2>1. \A table \in Tables : \A id : Exists(table, id)' <=> Exists(table, id)
    BY <1>5 DEF Exists
  <2>2. Exists(TableOf(e), e.id) /\ e.type \notin First
    BY <1>1, <1>3 DEF Exists, First
  <2> QED BY <1>2, <2>1, <2>2, OpensMore DEF ContractInv
<1>8. AttestationsSaid'
  <2> SUFFICES ASSUME NEW k \in DOMAIN log' PROVE AttestationSaid(k)'
    BY DEF AttestationsSaid
  <2>1. CASE k = Len(log) + 1
    <3>1. log'[k] = e
      BY <1>1, <1>2, <2>1, Appends
    <3> QED BY <1>3, <1>4, <3>1 DEF AttestationSaid
  <2>2. CASE k \in DOMAIN log
    <3>1. /\ log'[k] = log[k]
          /\ \A types : LastSets(k, types)' =>
               LastSets(k, types) /\ ~Is(e, types, TableOf(log[k]), log[k].id)
      BY <1>1, <1>2, <2>2, Appends, LastNext
    <3>2. AttestationSaid(k)
      BY <2>2 DEF ContractInv, AttestationsSaid
    <3>3. log[k].type \in {"AttestationSubmitted", "AttestationRevoked"} =>
            log[k].id \in AttestationId /\ TableOf(log[k]) = "attestations"
      <4>1. TableOf(log[k]) = "attestations" => Exists("attestations", log[k].id)
        BY <2>2 DEF ContractInv, Opened
      <4> QED BY <4>1 DEF Exists, TableOf, AttestationExists
    <3>4. ASSUME log[k].type = "AttestationSubmitted", LastSets(k, SetsRevoked)'
          PROVE  log[k].id # id0 /\ LastSets(k, SetsRevoked)
      BY <1>3, <3>1, <3>3, <3>4 DEF Is, SetsRevoked
    <3>5. log[k].type \in {"AttestationSubmitted", "AttestationRevoked"} =>
            /\ attestations'[log[k].id].attester = attestations[log[k].id].attester
            /\ attestations'[log[k].id].schema = attestations[log[k].id].schema
            /\ attestations'[log[k].id].subject = attestations[log[k].id].subject
            /\ attestations[log[k].id].revoked => attestations'[log[k].id].revoked
            /\ log[k].id # id0 => attestations'[log[k].id].revoked = attestations[log[k].id].revoked
      BY <1>3, <1>4, <3>3
    <3> QED BY <3>1, <3>2, <3>4, <3>5 DEF AttestationSaid
  <2> QED BY <1>1, <1>2, <2>1, <2>2, Appends
<1>9. AgentsSaid' /\ OperatorsSaid' /\ RegistersOnce'
  BY <1>2, <1>3, SaidStays DEF ContractInv
<1> QED BY <1>6, <1>7, <1>8, <1>9 DEF ContractInv

\* Whatever call the contracts take, their log tells what they hold.
LEMMA ChainStep ==
  ASSUME ContractInv, Chain
  PROVE  ContractInv'
<1> SUFFICES ASSUME NEW sender \in Address,
      \/ RegisterAgent(sender)
      \/ \E id \in 1..MaxAgents : UpdateAgent(sender, id) \/ RevokeAgent(sender, id)
      \/ \E bond \in Bond : RegisterOperator("solvers", sender, bond)
      \/ RegisterOperator("attestors", sender, 0)
      \/ \E kind \in Kind, id \in 1..Cardinality(Address) :
           \/ \E active \in BOOLEAN : UpdateOperator(kind, sender, id, active)
           \/ \E bond \in Bond : kind = "solvers" /\ ChangeBond(sender, id, bond)
      \/ AttestOrRevoke(sender)
             PROVE  ContractInv'
  BY DEF Chain
<1>1. CASE RegisterAgent(sender)
  BY <1>1, RegisterAgentStep
<1>2. ASSUME NEW id \in 1..MaxAgents, UpdateAgent(sender, id) \/ RevokeAgent(sender, id)
      PROVE  ContractInv'
  BY <1>2, UpdateAgentStep, RevokeAgentStep
<1>3. ASSUME NEW bond \in Bond, RegisterOperator("solvers", sender, bond)
      PROVE  ContractInv'
  BY <1>3, RegisterOperatorStep DEF Kind
<1>4. CASE RegisterOperator("attestors", sender, 0)
  BY <1>4, RegisterOperatorStep DEF Kind
<1>5. ASSUME NEW kind \in Kind, NEW id \in 1..Cardinality(Address), NEW active \in BOOLEAN,
             UpdateOperator(kind, sender, id, active)
      PROVE  ContractInv'
  BY <1>5, UpdateOperatorStep
<1>6. ASSUME NEW id \in 1..Cardinality(Address), NEW bond \in Bond, ChangeBond(sender, id, bond)
      PROVE  ContractInv'
  BY <1>6, ChangeBondStep
<1>7. CASE AttestOrRevoke(sender)
  BY <1>7, SubmitStep, RevokeAttestationStep DEF AttestOrRevoke
<1> QED BY <1>1, <1>2, <1>3, <1>4, <1>5, <1>6, <1>7

\* What calls do to the records there are: a column changes only with an event
\* that sets it, versions grow, and nothing revoked becomes valid.
AgentsGrow(e) ==
  \A id \in DOMAIN agents :
    /\ id \in DOMAIN agents' /\ agents'[id].owner = agents[id].owner
    /\ agents[id].version \in Nat /\ agents'[id].version \in Nat
    /\ agents[id].version <= agents'[id].version
    /\ agents[id].revoked => agents'[id].revoked
    /\ agents'[id].version # agents[id].version => Is(e, SetsVersion, "agents", id)
    /\ agents'[id].revoked # agents[id].revoked => Is(e, SetsRevoked, "agents", id)

OperatorsGrow(e) ==
  \A kind \in Kind : \A id \in DOMAIN operators[kind] :
    /\ id \in DOMAIN operators'[kind]
    /\ operators'[kind][id].operator = operators[kind][id].operator
    /\ operators'[kind][id].active # operators[kind][id].active => Is(e, SetsActive, kind, id)
    /\ operators'[kind][id].bond # operators[kind][id].bond => Is(e, SetsBond, kind, id)

AttestationsGrow(e) ==
  \A id \in AttestationId : AttestationExists(id) =>
    /\ attestations'[id].attester = attestations[id].attester
    /\ attestations'[id].schema = attestations[id].schema
    /\ attestations'[id].subject = attestations[id].subject
    /\ attestations[id].revoked => attestations'[id].revoked
    /\ attestations'[id].revoked # attestations[id].revoked =>
         Is(e, SetsRevoked, "attestations", id)

Grows(e) == Emit(e) /\ AgentsGrow(e) /\ OperatorsGrow(e) /\ AttestationsGrow(e)

\* Tables an event is not about stay.
LEMMA OthersGrow ==
  ASSUME ContractTyped, NEW e
  PROVE  /\ agents' = agents => AgentsGrow(e)
         /\ operators' = operators => OperatorsGrow(e)
         /\ attestations' = attestations => AttestationsGrow(e)
<1>1. \A id \in DOMAIN agents : agents[id].version \in Nat
  <2>1. \A id \in DOMAIN agents : agents[id] \in Agent
    BY DEF ContractTyped
  <2> QED BY <2>1 DEF Agent
<1>2. agents' = agents => AgentsGrow(e)
  BY <1>1 DEF AgentsGrow
<1>3. operators' = operators => OperatorsGrow(e)
  BY DEF OperatorsGrow
<1>4. attestations' = attestations => AttestationsGrow(e)
  BY DEF AttestationsGrow
<1> QED BY <1>2, <1>3, <1>4

\* The calls of the registry of agents,
LEMMA AgentCallGrows ==
  ASSUME ContractTyped, NEW sender \in Address, NEW id0 \in Nat,
         RegisterAgent(sender) \/ UpdateAgent(sender, id0) \/ RevokeAgent(sender, id0)
  PROVE  \E e \in ParticipantEvent : Grows(e)
<1>1. agents \in Seq(Agent) /\ \A id \in DOMAIN agents : agents[id] \in Agent
  BY DEF ContractTyped
<1>2. \A id \in DOMAIN agents : agents[id].version \in Nat
  BY <1>1 DEF Agent
<1>3. CASE RegisterAgent(sender)
  <2> DEFINE e == [type |-> "AgentRegistered", id |-> Len(agents) + 1, owner |-> sender]
             record == [owner |-> sender, version |-> 0, revoked |-> FALSE]
  <2>1. /\ e \in ParticipantEvent /\ Emit(e) /\ agents' = Append(agents, record)
        /\ operators' = operators /\ attestations' = attestations
    BY <1>1, <1>3 DEF RegisterAgent, ParticipantEvent, registryVars
  <2> HIDE DEF e, record
  <2>2. \A id \in DOMAIN agents : id \in DOMAIN agents' /\ agents'[id] = agents[id]
    BY <1>1, <2>1
  <2>3. AgentsGrow(e)
    BY <1>2, <2>2 DEF AgentsGrow
  <2> QED BY <2>1, <2>3, OthersGrow DEF Grows
<1>4. CASE UpdateAgent(sender, id0)
  <2> DEFINE e == [type |-> "AgentUpdated", id |-> id0, version |-> agents[id0].version + 1]
             record == [agents[id0] EXCEPT !.version = @ + 1]
  <2>1. id0 \in DOMAIN agents
    BY <1>4 DEF UpdateAgent, MayManage, AgentsByOwner
  <2>2. /\ Emit(e) /\ agents' = [agents EXCEPT ![id0] = record]
        /\ operators' = operators /\ attestations' = attestations
    BY <1>4 DEF UpdateAgent, registryVars
  <2>3. e \in ParticipantEvent
    BY <1>2, <2>1 DEF ParticipantEvent
  <2>4. /\ record.version = agents[id0].version + 1 /\ record.owner = agents[id0].owner
        /\ record.revoked = agents[id0].revoked
    BY <1>1, <2>1 DEF Agent
  <2>5. Is(e, SetsVersion, "agents", id0)
    BY DEF Is, TableOf, SetsVersion
  <2> HIDE DEF e, record
  <2>6. /\ DOMAIN agents' = DOMAIN agents /\ agents'[id0] = record
        /\ \A id \in DOMAIN agents : id # id0 => agents'[id] = agents[id]
    BY <1>1, <2>1, <2>2
  <2>7. AgentsGrow(e)
    BY <1>2, <2>1, <2>4, <2>5, <2>6 DEF AgentsGrow
  <2> QED BY <2>2, <2>3, <2>7, OthersGrow DEF Grows
<1>5. CASE RevokeAgent(sender, id0)
  <2> DEFINE e == [type |-> "AgentRevoked", id |-> id0]
             record == [agents[id0] EXCEPT !.revoked = TRUE]
  <2>1. id0 \in DOMAIN agents
    BY <1>5 DEF RevokeAgent, MayManage, AgentsByOwner
  <2>2. /\ Emit(e) /\ agents' = [agents EXCEPT ![id0] = record]
        /\ operators' = operators /\ attestations' = attestations
    BY <1>5 DEF RevokeAgent, registryVars
  <2>3. e \in ParticipantEvent
    BY DEF ParticipantEvent
  <2>4. /\ record.version = agents[id0].version /\ record.owner = agents[id0].owner
        /\ record.revoked
    BY <1>1, <2>1 DEF Agent
  <2>5. Is(e, SetsRevoked, "agents", id0)
    BY DEF Is, TableOf, SetsRevoked
  <2> HIDE DEF e, record
  <2>6. /\ DOMAIN agents' = DOMAIN agents /\ agents'[id0] = record
        /\ \A id \in DOMAIN agents : id # id0 => agents'[id] = agents[id]
    BY <1>1, <2>1, <2>2
  <2>7. AgentsGrow(e)
    BY <1>2, <2>1, <2>4, <2>5, <2>6 DEF AgentsGrow
  <2> QED BY <2>2, <2>3, <2>7, OthersGrow DEF Grows
<1> QED BY <1>3, <1>4, <1>5

\* those of the registries of solvers and attestors,
LEMMA OperatorCallGrows ==
  ASSUME ContractTyped, NEW sender \in Address, NEW kind0 \in Kind, NEW id0, NEW active0 \in BOOLEAN,
         NEW bond0 \in Bond \cup {0},
         \/ RegisterOperator(kind0, sender, bond0) \/ UpdateOperator(kind0, sender, id0, active0)
         \/ bond0 \in Bond /\ ChangeBond(sender, id0, bond0)
  PROVE  \E e \in ParticipantEvent : Grows(e)
<1>1. /\ operators \in [Kind -> Seq(Operator)] /\ "solvers" \in Kind
      /\ \A kind \in Kind : operators[kind] \in Seq(Operator)
      /\ \A kind \in Kind : \A id \in DOMAIN operators[kind] :
           operators[kind][id] \in Operator /\ id \in Nat
  BY DEF ContractTyped, Kind
<1>2. CASE RegisterOperator(kind0, sender, bond0)
  <2> DEFINE e == [type |-> "OperatorRegistered", kind |-> kind0, id |-> Len(operators[kind0]) + 1,
                   operator |-> sender, bond |-> bond0]
             record == [operator |-> sender, active |-> TRUE, bond |-> bond0]
             new == Append(operators[kind0], record)
  <2>1. Len(operators[kind0]) + 1 \in Nat
    BY <1>1
  <2>2. e \in ParticipantEvent
    BY <2>1 DEF ParticipantEvent
  <2>3. /\ Emit(e) /\ operators' = [operators EXCEPT ![kind0] = new]
        /\ agents' = agents /\ attestations' = attestations
    BY <1>2 DEF RegisterOperator, registryVars
  <2> HIDE DEF e, record
  <2>4. \A id \in DOMAIN operators[kind0] : id \in DOMAIN new /\ new[id] = operators[kind0][id]
    BY <1>1
  <2> HIDE DEF new
  <2>5. OperatorsGrow(e)
    BY <1>1, <2>3, <2>4 DEF OperatorsGrow
  <2> QED BY <2>2, <2>3, <2>5, OthersGrow DEF Grows
<1>3. ASSUME NEW kind1 \in Kind, NEW record, NEW e \in ParticipantEvent, Emit(e),
             id0 \in DOMAIN operators[kind1],
             operators' = [operators EXCEPT ![kind1][id0] = record],
             agents' = agents, attestations' = attestations,
             record.operator = operators[kind1][id0].operator,
             record.active = operators[kind1][id0].active \/ Is(e, SetsActive, kind1, id0),
             record.bond = operators[kind1][id0].bond \/ Is(e, SetsBond, kind1, id0)
      PROVE  Grows(e)
  <2> DEFINE new == [operators[kind1] EXCEPT ![id0] = record]
  <2>1. operators' = [operators EXCEPT ![kind1] = new]
    BY <1>1, <1>3
  <2>2. /\ DOMAIN new = DOMAIN operators[kind1] /\ new[id0] = record
        /\ \A id \in DOMAIN operators[kind1] : id # id0 => new[id] = operators[kind1][id]
    BY <1>1, <1>3
  <2> HIDE DEF new
  <2>3. operators'[kind1] = new /\ \A kind \in Kind : kind # kind1 => operators'[kind] = operators[kind]
    BY <1>1, <2>1
  <2>4. OperatorsGrow(e)
    BY <1>3, <2>2, <2>3 DEF OperatorsGrow
  <2> QED BY <1>3, <2>4, OthersGrow DEF Grows
<1>4. CASE UpdateOperator(kind0, sender, id0, active0)
  <2> DEFINE e == [type |-> "OperatorUpdated", kind |-> kind0, id |-> id0, active |-> active0]
             record == [operators[kind0][id0] EXCEPT !.active = active0]
  <2>1. /\ id0 \in DOMAIN operators[kind0] /\ id0 \in Nat /\ operators[kind0][id0] \in Operator
    BY <1>1, <1>4 DEF UpdateOperator, Operates
  <2>2. /\ Emit(e) /\ operators' = [operators EXCEPT ![kind0][id0] = record]
        /\ agents' = agents /\ attestations' = attestations
    BY <1>4 DEF UpdateOperator, registryVars
  <2>3. e \in ParticipantEvent
    BY <2>1 DEF ParticipantEvent
  <2>4. record.bond = operators[kind0][id0].bond /\ record.operator = operators[kind0][id0].operator
    BY <2>1 DEF Operator
  <2>5. Is(e, SetsActive, kind0, id0)
    BY DEF Is, TableOf, SetsActive
  <2> HIDE DEF e, record
  <2> QED BY <1>3, <2>1, <2>2, <2>3, <2>4, <2>5
<1>5. CASE bond0 \in Bond /\ ChangeBond(sender, id0, bond0)
  <2> DEFINE e == [type |-> "SolverBondChanged", id |-> id0, bond |-> bond0]
             record == [operators["solvers"][id0] EXCEPT !.bond = bond0]
  <2>1. id0 \in DOMAIN operators["solvers"] /\ id0 \in Nat /\ operators["solvers"][id0] \in Operator
    BY <1>1, <1>5 DEF ChangeBond, Operates
  <2>2. /\ Emit(e) /\ operators' = [operators EXCEPT !["solvers"][id0] = record]
        /\ agents' = agents /\ attestations' = attestations
    BY <1>5 DEF ChangeBond, registryVars
  <2>3. e \in ParticipantEvent
    BY <1>5, <2>1 DEF ParticipantEvent
  <2>4. /\ record.active = operators["solvers"][id0].active
        /\ record.operator = operators["solvers"][id0].operator
    BY <2>1 DEF Operator
  <2>5. Is(e, SetsBond, "solvers", id0)
    BY DEF Is, TableOf, SetsBond
  <2> HIDE DEF e, record
  <2> QED BY <1>1, <1>3, <2>1, <2>2, <2>3, <2>4, <2>5
<1> QED BY <1>2, <1>4, <1>5

\* and those of the registry of attestations, let records grow.
LEMMA AttestGrows ==
  ASSUME ContractTyped, NEW sender \in Address, AttestOrRevoke(sender)
  PROVE  \E e \in ParticipantEvent : Grows(e)
<1>1. /\ attestations \in [AttestationId -> Attestation] /\ nextAttestationId \in Nat \ {0}
      /\ \A id \in AttestationId : AttestationExists(id) <=> id < nextAttestationId
      /\ agents' = agents /\ operators' = operators
  BY DEF ContractTyped, AttestOrRevoke
<1>2. ASSUME NEW schema \in Schema, NEW subject \in Subject,
             SubmitAttestation(sender, schema, subject),
             Emit([type |-> "AttestationSubmitted", id |-> nextAttestationId,
                   attester |-> sender, schema |-> schema, subject |-> subject])
      PROVE  \E e \in ParticipantEvent : Grows(e)
  <2> DEFINE e == [type |-> "AttestationSubmitted", id |-> nextAttestationId,
                   attester |-> sender, schema |-> schema, subject |-> subject]
  <2>1. nextAttestationId \in AttestationId
    BY <1>1, <1>2 DEF SubmitAttestation, AttestationId
  <2>2. e \in ParticipantEvent
    BY <2>1 DEF ParticipantEvent
  <2> HIDE DEF e
  <2>3. \A id \in AttestationId : id # nextAttestationId => attestations'[id] = attestations[id]
    BY <1>1, <1>2 DEF SubmitAttestation
  <2>4. AttestationsGrow(e)
    BY <1>1, <2>1, <2>3 DEF AttestationsGrow, AttestationId
  <2> QED BY <1>1, <1>2, <2>2, <2>4, OthersGrow DEF Grows, e
<1>3. ASSUME NEW id0 \in AttestationId, RevokeAttestation(sender, id0),
             Emit([type |-> "AttestationRevoked", id |-> id0])
      PROVE  \E e \in ParticipantEvent : Grows(e)
  <2> DEFINE e == [type |-> "AttestationRevoked", id |-> id0]
             record == [attestations[id0] EXCEPT !.revoked = TRUE]
  <2>1. e \in ParticipantEvent
    BY DEF ParticipantEvent
  <2>2. Is(e, SetsRevoked, "attestations", id0)
    BY DEF Is, TableOf, SetsRevoked
  <2>3. /\ record.attester = attestations[id0].attester /\ record.schema = attestations[id0].schema
        /\ record.subject = attestations[id0].subject /\ record.revoked
    BY <1>1 DEF Attestation
  <2>4. attestations' = [attestations EXCEPT ![id0] = record] /\ Emit(e)
    BY <1>3 DEF RevokeAttestation
  <2> HIDE DEF e, record
  <2>5. /\ attestations'[id0] = record
        /\ \A id \in AttestationId : id # id0 => attestations'[id] = attestations[id]
    BY <1>1, <2>4
  <2>6. AttestationsGrow(e)
    BY <2>2, <2>3, <2>5 DEF AttestationsGrow
  <2> QED BY <1>1, <2>1, <2>4, <2>6, OthersGrow DEF Grows
<1> QED BY <1>2, <1>3 DEF AttestOrRevoke

\* So does every call of a contract.
LEMMA ChainGrows ==
  ASSUME ContractTyped, Chain
  PROVE  \E e \in ParticipantEvent : Grows(e)
<1> PICK sender \in Address :
      \/ RegisterAgent(sender)
      \/ \E id \in 1..MaxAgents : UpdateAgent(sender, id) \/ RevokeAgent(sender, id)
      \/ \E bond \in Bond : RegisterOperator("solvers", sender, bond)
      \/ RegisterOperator("attestors", sender, 0)
      \/ \E kind \in Kind, id \in 1..Cardinality(Address) :
           \/ \E active \in BOOLEAN : UpdateOperator(kind, sender, id, active)
           \/ \E bond \in Bond : kind = "solvers" /\ ChangeBond(sender, id, bond)
      \/ AttestOrRevoke(sender)
  BY DEF Chain
<1> DEFINE Goal == \E e \in ParticipantEvent : Grows(e)
<1>a. "solvers" \in Kind /\ "attestors" \in Kind /\ 0 \in Nat /\ TRUE \in BOOLEAN
  BY DEF Kind
<1>1. ASSUME RegisterAgent(sender) PROVE Goal
  BY <1>1, <1>a, AgentCallGrows
<1>2. ASSUME NEW id \in 1..MaxAgents, UpdateAgent(sender, id) \/ RevokeAgent(sender, id)
      PROVE  Goal
  BY <1>2, AgentCallGrows
<1>3. ASSUME NEW bond \in Bond, RegisterOperator("solvers", sender, bond)
      PROVE  Goal
  BY <1>3, <1>a, OperatorCallGrows
<1>4. ASSUME RegisterOperator("attestors", sender, 0) PROVE Goal
  BY <1>4, <1>a, OperatorCallGrows
<1>5. ASSUME NEW kind \in Kind, NEW id \in 1..Cardinality(Address), NEW active \in BOOLEAN,
             UpdateOperator(kind, sender, id, active)
      PROVE  Goal
  <2>1. 0 \in Bond \cup {0}
    OBVIOUS
  <2> QED BY <1>5, <2>1, OperatorCallGrows
<1>6. ASSUME NEW id \in 1..Cardinality(Address), NEW bond \in Bond, ChangeBond(sender, id, bond)
      PROVE  Goal
  <2>1. bond \in Bond \cup {0}
    OBVIOUS
  <2> QED BY <1>6, <1>a, <2>1, OperatorCallGrows
<1>7. ASSUME AttestOrRevoke(sender) PROVE Goal
  BY <1>7, AttestGrows
<1> QED BY <1>1, <1>2, <1>3, <1>4, <1>5, <1>6, <1>7

----------------------------------------------------------------------------
(* A call of a contract leaves the tables behind, and what they show.      *)

\* A row is of a record that exists.
LEMMA RowsExist ==
  ASSUME Opened, RowsThere
  PROVE  \A table \in Tables : \A id \in DOMAIN rows[table] : Exists(table, id)
BY DEF Opened, RowsThere, Is

\* Settled with one more event to come, a column was so before, and is not set by it.
LEMMA SettledNext ==
  ASSUME ContractTyped, LoopTyped, NEW e \in ParticipantEvent, Emit(e)
  PROVE  /\ \A types, table, id :
              Settled(types, table, id)' => Settled(types, table, id) /\ ~Is(e, types, table, id)
         /\ at' = at /\ at \in Nat /\ Len(log) \in Nat
         /\ \A k \in 1..at : k \in DOMAIN log /\ log'[k] = log[k]
<1>1. /\ Len(log') = Len(log) + 1 /\ log'[Len(log) + 1] = e /\ Len(log) \in Nat
      /\ \A k \in DOMAIN log : log'[k] = log[k]
      /\ DOMAIN log = 1..Len(log)
  BY Appends DEF ContractTyped
<1>2. at' = at /\ at \in 0..Len(log)
  BY DEF Emit, database, LoopTyped
<1>3. \A j \in (at + 1)..Len(log) : j \in (at + 1)..(Len(log) + 1) /\ log'[j] = log[j]
  BY <1>1, <1>2
<1>4. Len(log) + 1 \in (at + 1)..(Len(log) + 1)
  BY <1>1, <1>2
<1>5. \A types, table, id :
        Settled(types, table, id)' => Settled(types, table, id) /\ ~Is(e, types, table, id)
  BY <1>1, <1>2, <1>3, <1>4 DEF Settled
<1> QED BY <1>1, <1>2, <1>5

\* The tables stay in order: a column that a call changed has an event to come.
LEMMA ChainKeepsTables ==
  ASSUME ContractInv, LoopTyped, RowsThere, NEW e \in ParticipantEvent, Grows(e)
  PROVE  /\ LoopTyped' /\ RowsThere'
         /\ AgentsShown => AgentsShown'
         /\ OperatorsShown => OperatorsShown'
         /\ AttestationsShown => AttestationsShown'
<1>1. Emit(e) /\ UNCHANGED database
  BY DEF Grows, Emit
<1>2. /\ \A types, table, id :
           Settled(types, table, id)' => Settled(types, table, id) /\ ~Is(e, types, table, id)
      /\ at' = at /\ at \in Nat /\ \A k \in 1..at : k \in DOMAIN log /\ log'[k] = log[k]
  BY <1>1, SettledNext DEF ContractInv
<1>3. Len(log') = Len(log) + 1 /\ Len(log) \in Nat
      /\ \A k \in DOMAIN log : k \in DOMAIN log' /\ log'[k] = log[k]
  BY <1>1, Appends DEF ContractInv, ContractTyped
<1>4. LoopTyped'
  BY <1>1, <1>3 DEF LoopTyped, database
<1>5. RowsThere'
  BY <1>1, <1>2, <1>3 DEF RowsThere, database
<1>6. \A table \in Tables : \A id \in DOMAIN rows[table] : Exists(table, id)
  BY RowsExist DEF ContractInv
<1>7. ASSUME AgentsShown PROVE AgentsShown'
  <2> SUFFICES ASSUME NEW id \in DOMAIN rows["agents"]
               PROVE  /\ rows["agents"][id].owner = agents'[id].owner
                      /\ rows["agents"][id].revoked => agents'[id].revoked
                      /\ Settled(SetsVersion, "agents", id)' =>
                           /\ rows["agents"][id].metadata = agents'[id].version
                           /\ rows["agents"][id].capabilities = agents'[id].version
                      /\ Settled(SetsRevoked, "agents", id)' =>
                           rows["agents"][id].revoked = agents'[id].revoked
    BY <1>1 DEF AgentsShown, AgentShown, database
  <2>1. id \in DOMAIN agents
    BY <1>6 DEF Exists, Tables
  <2> QED BY <1>2, <1>7, <2>1 DEF AgentsShown, AgentShown, Grows, AgentsGrow
<1>8. ASSUME OperatorsShown PROVE OperatorsShown'
  <2> SUFFICES ASSUME NEW kind \in Kind, NEW id \in DOMAIN rows[kind]
               PROVE  /\ rows[kind][id].operator = operators'[kind][id].operator
                      /\ Settled(SetsActive, kind, id)' =>
                           rows[kind][id].active = operators'[kind][id].active
                      /\ Settled(SetsBond, kind, id)' =>
                           rows[kind][id].bond = operators'[kind][id].bond
    BY <1>1 DEF OperatorsShown, OperatorShown, database
  <2>1. id \in DOMAIN operators[kind]
    BY <1>6 DEF Exists, Tables, Kind
  <2> QED BY <1>2, <1>8, <2>1 DEF OperatorsShown, OperatorShown, Grows, OperatorsGrow
<1>9. ASSUME AttestationsShown PROVE AttestationsShown'
  <2> SUFFICES ASSUME NEW id \in DOMAIN rows["attestations"]
               PROVE  /\ rows["attestations"][id].attester = attestations'[id].attester
                      /\ rows["attestations"][id].schema = attestations'[id].schema
                      /\ rows["attestations"][id].subject = attestations'[id].subject
                      /\ rows["attestations"][id].revoked => attestations'[id].revoked
                      /\ Settled(SetsRevoked, "attestations", id)' =>
                           rows["attestations"][id].revoked = attestations'[id].revoked
    BY <1>1 DEF AttestationsShown, AttestationShown, database
  <2>1. id \in AttestationId /\ AttestationExists(id)
    BY <1>6 DEF Exists, Tables, AttestationExists
  <2> QED BY <1>2, <1>9, <2>1 DEF AttestationsShown, AttestationShown, Grows, AttestationsGrow
<1> QED BY <1>4, <1>5, <1>7, <1>8, <1>9

\* What a handler keeps stays right: the record it read may have changed since.
LEMMA ChainKeepsPending ==
  ASSUME ContractInv, LoopTyped, PendingRight, NEW e \in ParticipantEvent, Grows(e)
  PROVE  PendingRight'
<1> SUFFICES ASSUME pending # {} PROVE PendingRight'
  BY DEF PendingRight, Grows, Emit, database
<1>1. Emit(e) /\ UNCHANGED database
  BY DEF Grows, Emit
<1>2. /\ at < Len(log) /\ at \in Nat /\ Len(log) \in Nat /\ at + 1 \in DOMAIN log
      /\ Len(log') = Len(log) + 1
      /\ log'[at + 1] = log[at + 1] /\ at' = at
  <2>1. at < Len(log) /\ at \in 0..Len(log)
    BY DEF PendingRight, LoopTyped
  <2>2. /\ Len(log) \in Nat /\ DOMAIN log = 1..Len(log) /\ Len(log') = Len(log) + 1
        /\ \A k \in DOMAIN log : log'[k] = log[k]
    BY <1>1, Appends DEF ContractInv, ContractTyped
  <2> QED BY <1>1, <2>1, <2>2 DEF database
<1>3. Event' = Event /\ Event = log[at + 1]
  BY <1>2 DEF Event
<1>4. \A table : TableOf(Event) = table => Exists(table, Event.id)
  BY <1>2, <1>3 DEF ContractInv, Opened
<1>5. CASE Event.type = "AgentRegistered"
  <2>1. Event.id \in DOMAIN agents
    BY <1>4, <1>5 DEF TableOf, Exists
  <2>2. /\ agents[Event.id].version <= agents'[Event.id].version
        /\ agents[Event.id].version \in Nat /\ agents'[Event.id].version \in Nat
        /\ agents[Event.id].revoked => agents'[Event.id].revoked
    BY <2>1 DEF Grows, AgentsGrow
  <2>3. PICK record \in Agent :
          /\ pending = {record}
          /\ record.version <= agents[Event.id].version
          /\ record.revoked => agents[Event.id].revoked
          /\ Event.id \in DOMAIN rows["agents"] /\ rows["agents"][Event.id].revoked => record.revoked
    BY <1>5 DEF PendingRight
  <2>4. record.version \in Nat
    BY DEF Agent
  <2>5. /\ record.version <= agents'[Event.id].version
        /\ record.revoked => agents'[Event.id].revoked
    BY <2>2, <2>3, <2>4
  <2> QED BY <1>1, <1>2, <1>3, <1>5, <2>3, <2>5 DEF PendingRight, database
<1>6. CASE Event.type \in {"AttestationSubmitted", "AttestationRevoked"}
  <2>1. Event.id \in AttestationId /\ AttestationExists(Event.id)
    BY <1>4, <1>6 DEF TableOf, Exists, AttestationExists
  <2>2. attestations'[Event.id].attester = attestations[Event.id].attester
    BY <2>1 DEF Grows, AttestationsGrow
  <2> QED BY <1>1, <1>2, <1>3, <1>6, <2>2 DEF PendingRight, database
<1> QED BY <1>5, <1>6 DEF PendingRight

\* So do the counters.
LEMMA ChainKeepsDue ==
  ASSUME ContractInv, NEW e \in ParticipantEvent, Grows(e), NEW type, NEW operator,
         type \in {"AttestationSubmitted", "AttestationRevoked"}
  PROVE  /\ \A k \in DOMAIN log : k \in Attested(type, operator)' <=> k \in Attested(type, operator)
         /\ \A k \in DOMAIN log : k \in Due(type, operator)' <=> k \in Due(type, operator)
         /\ \A k \in Attested(type, operator)' : k \in DOMAIN log \/ k = Len(log) + 1
         /\ \A k \in Due(type, operator)' : k \in Attested(type, operator)'
         /\ \A k \in Due(type, operator) : k \in Attested(type, operator)
         /\ \A k \in Attested(type, operator) : k \in DOMAIN log
<1>1. /\ \A k \in DOMAIN log : k \in DOMAIN log' /\ log'[k] = log[k]
      /\ \A k \in DOMAIN log' : k \in DOMAIN log \/ k = Len(log) + 1
      /\ Len(log) \in Nat /\ DOMAIN log = 1..Len(log)
  BY Appends DEF Grows, ContractInv, ContractTyped
<1>2. ASSUME NEW k \in DOMAIN log, log[k].type = type
      PROVE  attestations'[log[k].id].attester = attestations[log[k].id].attester
  <2>1. \A table : TableOf(log[k]) = table => Exists(table, log[k].id)
    BY DEF ContractInv, Opened
  <2>2. AttestationExists(log[k].id) /\ log[k].id \in AttestationId
    BY <1>2, <2>1 DEF TableOf, Exists, AttestationExists
  <2> QED BY <2>2 DEF Grows, AttestationsGrow
<1>3. \A k \in DOMAIN log : k \in Attested(type, operator)' <=> k \in Attested(type, operator)
  BY <1>1, <1>2 DEF Attested
<1>4. \A k \in DOMAIN log : \A j \in 1..(k - 1) : j \in DOMAIN log
  BY <1>1
<1>5. \A k \in DOMAIN log : k \in Due(type, operator)' <=> k \in Due(type, operator)
  BY <1>1, <1>3, <1>4 DEF Due
<1>6. /\ \A k \in Attested(type, operator)' : k \in DOMAIN log \/ k = Len(log) + 1
      /\ \A k \in Attested(type, operator) : k \in DOMAIN log
  BY <1>1 DEF Attested
<1> QED BY <1>3, <1>5, <1>6 DEF Due

\* Sets of positions are finite.
LEMMA Positions ==
  ASSUME ContractTyped
  PROVE  \A type, operator, n :
           /\ IsFiniteSet(Attested(type, operator)) /\ Cardinality(Attested(type, operator)) \in Nat
           /\ IsFiniteSet(Due(type, operator)) /\ Cardinality(Due(type, operator)) \in Nat
           /\ IsFiniteSet(UpTo(Attested(type, operator), n))
           /\ Cardinality(UpTo(Attested(type, operator), n)) \in Nat
           /\ Cardinality(UpTo(Attested(type, operator), n)) <= Cardinality(Attested(type, operator))
           /\ IsFiniteSet(UpTo(Due(type, operator), n))
           /\ Cardinality(UpTo(Due(type, operator), n)) \in Nat
           /\ Cardinality(UpTo(Due(type, operator), n)) <= Cardinality(Due(type, operator))
<1> SUFFICES ASSUME NEW type, NEW operator, NEW n
             PROVE  /\ IsFiniteSet(Attested(type, operator)) /\ Cardinality(Attested(type, operator)) \in Nat
                    /\ IsFiniteSet(Due(type, operator)) /\ Cardinality(Due(type, operator)) \in Nat
                    /\ IsFiniteSet(UpTo(Attested(type, operator), n))
                    /\ Cardinality(UpTo(Attested(type, operator), n)) \in Nat
                    /\ Cardinality(UpTo(Attested(type, operator), n)) <= Cardinality(Attested(type, operator))
                    /\ IsFiniteSet(UpTo(Due(type, operator), n))
                    /\ Cardinality(UpTo(Due(type, operator), n)) \in Nat
                    /\ Cardinality(UpTo(Due(type, operator), n)) <= Cardinality(Due(type, operator))
  OBVIOUS
<1>1. Len(log) \in Nat /\ DOMAIN log = 1..Len(log)
  BY DEF ContractTyped
<1>2. IsFiniteSet(DOMAIN log)
  BY <1>1, FS_Interval
<1>3. /\ Attested(type, operator) \in SUBSET DOMAIN log
      /\ Due(type, operator) \in SUBSET Attested(type, operator)
      /\ UpTo(Attested(type, operator), n) \in SUBSET Attested(type, operator)
      /\ UpTo(Due(type, operator), n) \in SUBSET Due(type, operator)
  BY DEF Attested, Due, UpTo
<1> QED BY <1>2, <1>3, FS_Subset, FS_CardinalityType

\* A counter stays right: the event of the call is still to be counted.
LEMMA CountedGrows ==
  ASSUME ContractInv, ContractTyped', LoopTyped, NEW e \in ParticipantEvent, Grows(e),
         NEW type \in {"AttestationSubmitted", "AttestationRevoked"}, NEW operator,
         NEW counter \in Nat, Counted(counter, type, operator)
  PROVE  Counted(counter, type, operator)'
<1> DEFINE A == Attested(type, operator)
           D == Due(type, operator)
           n == Len(log) + 1
<1>1. /\ Len(log) \in Nat /\ DOMAIN log = 1..Len(log) /\ at \in 0..Len(log) /\ crashes \in Nat
      /\ at' = at /\ crashes' = crashes
  BY DEF ContractInv, ContractTyped, LoopTyped, Grows, Emit, database
<1>2. /\ \A k \in DOMAIN log : k \in A' <=> k \in A
      /\ \A k \in DOMAIN log : k \in D' <=> k \in D
      /\ \A k \in A' : k \in DOMAIN log \/ k = n
      /\ \A k \in D' : k \in A'
      /\ \A k \in D : k \in A
      /\ \A k \in A : k \in DOMAIN log
  BY ChainKeepsDue
<1>3. /\ IsFiniteSet(A) /\ Cardinality(A) \in Nat /\ IsFiniteSet(D) /\ Cardinality(D) \in Nat
      /\ Cardinality(UpTo(A, at)) \in Nat /\ Cardinality(UpTo(D, at)) \in Nat
  BY Positions DEF ContractInv
<1>4. IsFiniteSet(A') /\ Cardinality(A') \in Nat /\ IsFiniteSet(D') /\ Cardinality(D') \in Nat
  <2>1. \A ty, op : /\ IsFiniteSet(Attested(ty, op)') /\ Cardinality(Attested(ty, op)') \in Nat
                    /\ IsFiniteSet(Due(ty, op)') /\ Cardinality(Due(ty, op)') \in Nat
    <3>1. /\ Len(log') \in Nat /\ DOMAIN log' = 1..Len(log')
      BY DEF ContractTyped
    <3>2. IsFiniteSet(DOMAIN log')
      BY <3>1, FS_Interval
    <3>3. \A ty, op : /\ Attested(ty, op)' \in SUBSET DOMAIN log'
                      /\ Due(ty, op)' \in SUBSET DOMAIN log'
      BY DEF Attested, Due
    <3> QED BY <3>2, <3>3, FS_Subset, FS_CardinalityType
  <2> QED BY <2>1
<1> HIDE DEF A, D, n
<1>5. UpTo(A', at) = UpTo(A, at) /\ UpTo(D', at) = UpTo(D, at)
  BY <1>1, <1>2 DEF UpTo, n
<1>6. Cardinality(A') = Cardinality(A) \/ Cardinality(A') = Cardinality(A) + 1
  <2>1. CASE n \in A'
    <3>1. n \notin A /\ A' = A \cup {n}
      BY <1>1, <1>2, <2>1 DEF n
    <3> QED BY <1>3, <3>1, FS_AddElement
  <2>2. CASE n \notin A'
    <3>1. A' = A
      BY <1>2, <2>2
    <3> QED BY <3>1
  <2> QED BY <2>1, <2>2
<1>7. Cardinality(D) <= Cardinality(D')
  <2>1. D \in SUBSET D'
    BY <1>2
  <2> QED BY <1>4, <2>1, FS_Subset
<1>8. /\ Cardinality(UpTo(D, at)) <= counter
      /\ crashes = 0 => counter <= Cardinality(UpTo(D, at))
      /\ crashes > 0 => counter + Cardinality(A)
           <= Cardinality(D) + crashes * Cardinality(A) + Cardinality(UpTo(A, at))
  BY DEF Counted, A, D
<1>9. ASSUME NEW a \in Nat, NEW aa \in Nat, NEW d \in Nat, NEW dd \in Nat, NEW u \in Nat,
             NEW c \in Nat, c > 0, aa = a \/ aa = a + 1, d <= dd, counter + a <= d + c * a + u
      PROVE  counter + aa <= dd + c * aa + u
  <2>1. CASE aa = a
    BY <1>9, <2>1
  <2>2. CASE aa = a + 1
    <3>1. c * (a + 1) = c * a + c /\ c * a \in Nat
      OBVIOUS
    <3> QED BY <1>9, <2>2, <3>1
  <2> QED BY <1>9, <2>1, <2>2
<1>10. crashes > 0 => counter + Cardinality(A')
         <= Cardinality(D') + crashes * Cardinality(A') + Cardinality(UpTo(A, at))
  BY <1>1, <1>3, <1>4, <1>6, <1>7, <1>8, <1>9
<1>11. /\ Cardinality(UpTo(D', at')) <= counter
       /\ crashes' = 0 => counter <= Cardinality(UpTo(D', at'))
       /\ crashes' > 0 => counter + Cardinality(A')
            <= Cardinality(D') + crashes' * Cardinality(A') + Cardinality(UpTo(A', at'))
  BY <1>1, <1>5, <1>8, <1>10
<1> QED BY <1>11 DEF Counted, A, D, UpTo

\* A call of a contract leaves everything in order.
LEMMA ChainInv ==
  ASSUME IInv, Chain
  PROVE  IInv'
<1>1. ContractInv'
  BY ChainStep DEF IInv
<1>2. PICK e \in ParticipantEvent : Grows(e)
  BY ChainGrows DEF IInv, ContractInv
<1>3. /\ LoopTyped' /\ RowsThere' /\ AgentsShown' /\ OperatorsShown' /\ AttestationsShown'
      /\ PendingRight'
  BY <1>2, ChainKeepsTables, ChainKeepsPending DEF IInv
<1>4. CountersRight'
  <2>1. rows' = rows
    BY <1>2 DEF Grows, Emit, database
  <2> SUFFICES ASSUME NEW id \in DOMAIN rows["attestors"], NEW op, NEW c1, NEW c2,
                      op = rows["attestors"][id].operator,
                      c1 = rows["attestors"][id].attestations, c2 = rows["attestors"][id].revoked
               PROVE  /\ Counted(c1, "AttestationSubmitted", op)'
                      /\ Counted(c2, "AttestationRevoked", op)'
    BY <2>1 DEF CountersRight
  <2>2. rows["attestors"][id] \in OperatorRows
    BY DEF IInv, LoopTyped, Kind
  <2>3. c1 \in Nat /\ c2 \in Nat
    BY <2>2 DEF OperatorRows
  <2>4. Counted(c1, "AttestationSubmitted", op) /\ Counted(c2, "AttestationRevoked", op)
    BY DEF IInv, CountersRight
  <2>5. ContractInv /\ ContractTyped' /\ LoopTyped
    BY <1>1 DEF IInv, ContractInv
  <2> QED BY <1>2, <2>3, <2>4, <2>5, CountedGrows
<1> QED BY <1>1, <1>3, <1>4 DEF IInv

----------------------------------------------------------------------------
(* Storing the position, and crashing.                                     *)

\* The contracts stay as they are while the indexer steps.
LEMMA ContractsStay ==
  ASSUME ContractInv, UNCHANGED <<chainVars, log>>
  PROVE  ContractInv'
<1>1. /\ agents' = agents /\ operators' = operators /\ idByOperator' = idByOperator
      /\ attestations' = attestations /\ nextAttestationId' = nextAttestationId /\ log' = log
  BY DEF chainVars, registryVars
<1>2. /\ ContractTyped' <=> ContractTyped
      /\ Opened' <=> Opened
      /\ RegistersOnce' <=> RegistersOnce
  BY <1>1 DEF ContractTyped, Opened, RegistersOnce, AttestationExists, Exists
<1>3. \A k, types : LastSets(k, types)' <=> LastSets(k, types)
  BY <1>1 DEF LastSets
<1>4. AgentsSaid' <=> AgentsSaid
  BY <1>1, <1>3 DEF AgentsSaid, AgentSaid
<1>5. OperatorsSaid' <=> OperatorsSaid
  BY <1>1, <1>3 DEF OperatorsSaid, OperatorSaid
<1>6. AttestationsSaid' <=> AttestationsSaid
  BY <1>1, <1>3 DEF AttestationsSaid, AttestationSaid
<1> QED BY <1>2, <1>4, <1>5, <1>6 DEF ContractInv

\* A row that stays shows what it showed, if as much is still to come for it.
LEMMA RowStays ==
  ASSUME UNCHANGED <<chainVars, log>>, NEW table, NEW id, rows'[table][id] = rows[table][id],
         \A types : Settled(types, table, id)' => Settled(types, table, id)
  PROVE  /\ table = "agents" /\ AgentShown(id) => AgentShown(id)'
         /\ table = "attestations" /\ AttestationShown(id) => AttestationShown(id)'
         /\ OperatorShown(table, id) => OperatorShown(table, id)'
<1>1. agents' = agents /\ operators' = operators /\ attestations' = attestations
  BY DEF chainVars, registryVars
<1> QED BY <1>1 DEF AgentShown, AttestationShown, OperatorShown

\* The events of an operator's attestations, and those due, stay.
LEMMA DueStays ==
  ASSUME UNCHANGED <<chainVars, log>>
  PROVE  \A type, operator : /\ Attested(type, operator)' = Attested(type, operator)
                             /\ Due(type, operator)' = Due(type, operator)
<1>1. attestations' = attestations /\ log' = log
  BY DEF chainVars, registryVars
<1> QED BY <1>1 DEF Attested, Due

\* With less handled than before, everything stays in order; after a crash the
\* counters may count once more what is handled once more.
LEMMA RestartCounted ==
  ASSUME ContractInv, LoopTyped, UNCHANGED <<chainVars, log>>, at' \in 0..at,
         crashes' = crashes + 1 \/ (crashes' = crashes /\ at' = at),
         NEW type, NEW operator, NEW counter \in Nat, Counted(counter, type, operator)
  PROVE  Counted(counter, type, operator)'
<1> DEFINE A == Attested(type, operator)
           D == Due(type, operator)
<1>1. at \in Nat /\ at' \in Nat /\ at' <= at /\ crashes \in Nat
  BY DEF LoopTyped
<1>2. A' = A /\ D' = D
  BY DueStays
<1>3. /\ IsFiniteSet(A) /\ Cardinality(A) \in Nat /\ IsFiniteSet(D) /\ Cardinality(D) \in Nat
      /\ IsFiniteSet(UpTo(A, at)) /\ IsFiniteSet(UpTo(D, at))
      /\ Cardinality(UpTo(A, at)) \in Nat /\ Cardinality(UpTo(D, at)) \in Nat
      /\ Cardinality(UpTo(A, at)) <= Cardinality(A) /\ Cardinality(UpTo(D, at)) <= Cardinality(D)
      /\ Cardinality(UpTo(A, at')) \in Nat /\ Cardinality(UpTo(D, at')) \in Nat
  BY Positions DEF ContractInv
<1>4. /\ Cardinality(UpTo(D, at)) <= counter
      /\ crashes = 0 => counter <= Cardinality(UpTo(D, at))
      /\ crashes > 0 => counter + Cardinality(A)
           <= Cardinality(D) + crashes * Cardinality(A) + Cardinality(UpTo(A, at))
  BY DEF Counted, A, D
<1>5. Cardinality(UpTo(D, at')) <= Cardinality(UpTo(D, at))
  <2>1. D \in SUBSET Nat
    BY DEF D, Due, Attested, ContractInv, ContractTyped
  <2>2. UpTo(D, at') \in SUBSET UpTo(D, at)
    BY <1>1, <2>1 DEF UpTo
  <2> QED BY <1>3, <2>2, FS_Subset
<1> HIDE DEF A, D
<1>6. CASE crashes' = crashes /\ at' = at
  <2>1. /\ Cardinality(UpTo(D', at')) <= counter
        /\ crashes' = 0 => counter <= Cardinality(UpTo(D', at'))
        /\ crashes' > 0 => counter + Cardinality(A')
             <= Cardinality(D') + crashes' * Cardinality(A') + Cardinality(UpTo(A', at'))
    BY <1>2, <1>4, <1>6
  <2> QED BY <2>1 DEF Counted, A, D, UpTo
<1>7. CASE crashes' = crashes + 1
  <2>1. ASSUME NEW a \in Nat, NEW d \in Nat, NEW u \in Nat, NEW v \in Nat, NEW c \in Nat,
               NEW du \in Nat, u <= a, du <= d,
               c = 0 => counter <= du, c > 0 => counter + a <= d + c * a + u
        PROVE  counter + a <= d + (c + 1) * a + v
    <3>1. (c + 1) * a = c * a + a /\ c * a \in Nat
      OBVIOUS
    <3>2. CASE c = 0
      BY <2>1, <3>1, <3>2
    <3>3. CASE c > 0
      BY <2>1, <3>1, <3>3
    <3> QED BY <3>2, <3>3
  <2>2. counter + Cardinality(A) <= Cardinality(D) + (crashes + 1) * Cardinality(A)
                                      + Cardinality(UpTo(A, at'))
    BY <1>1, <1>3, <1>4, <2>1
  <2>3. /\ Cardinality(UpTo(D', at')) <= counter
        /\ crashes' = 0 => counter <= Cardinality(UpTo(D', at'))
        /\ crashes' > 0 => counter + Cardinality(A')
             <= Cardinality(D') + crashes' * Cardinality(A') + Cardinality(UpTo(A', at'))
    BY <1>1, <1>2, <1>3, <1>4, <1>5, <1>7, <2>2
  <2> QED BY <2>3 DEF Counted, A, D, UpTo
<1> QED BY <1>6, <1>7

\* The loop stores its position, or dies and restarts from the one it stored.
LEMMA RestartInv ==
  ASSUME IInv, Store \/ Crash, UNCHANGED chainVars
  PROVE  IInv'
<1>1. /\ log' = log /\ rows' = rows /\ pending' \in {pending, {}}
      /\ at \in Nat /\ at \in 0..Len(log) /\ stored \in 0..at /\ crashes \in Nat /\ Len(log) \in Nat
      /\ at' \in 0..at /\ stored' \in 0..at' /\ crashes' \in Nat
      /\ at' \in Nat /\ at' <= at
      /\ \/ crashes' = crashes + 1 /\ pending' = {}
         \/ crashes' = crashes /\ at' = at /\ pending' = pending
  <2>1. /\ at \in Nat /\ at \in 0..Len(log) /\ stored \in 0..at /\ crashes \in Nat
        /\ Len(log) \in Nat
    BY DEF IInv, LoopTyped, ContractInv, ContractTyped
  <2>2. CASE Store
    BY <2>1, <2>2 DEF Store
  <2>3. CASE Crash
    BY <2>1, <2>3 DEF Crash
  <2> QED BY <2>1, <2>2, <2>3
<1>2. ContractInv'
  BY <1>1, ContractsStay DEF IInv
<1>3. ASSUME NEW types, NEW table, NEW id, Settled(types, table, id)'
      PROVE  Settled(types, table, id)
  <2>1. \A i \in (at' + 1)..Len(log) : ~Is(log[i], types, table, id)
    BY <1>1, <1>3 DEF Settled
  <2>2. at \in Nat /\ at' \in Nat /\ at' <= at /\ Len(log) \in Nat
    BY <1>1
  <2>3. \A i \in (at + 1)..Len(log) : i \in (at' + 1)..Len(log)
    <3>1. \A a, b, n \in Nat : b <= a => \A i \in (a + 1)..n : i \in (b + 1)..n
      OBVIOUS
    <3> QED BY <2>2, <3>1
  <2> QED BY <2>1, <2>3 DEF Settled
<1>4. LoopTyped'
  BY <1>1 DEF IInv, LoopTyped
<1>5. RowsThere'
  <2>1. \A k \in 1..at' : k \in 1..at
    BY <1>1
  <2>2. crashes' = 0 => at' = at /\ pending' = pending /\ crashes = 0
    BY <1>1
  <2> QED BY <1>1, <2>1, <2>2 DEF IInv, RowsThere
<1>6. PendingRight'
  <2>1. CASE pending' = {}
    BY <2>1 DEF PendingRight
  <2>2. CASE at' = at /\ pending' = pending
    BY <1>1, <2>2 DEF IInv, PendingRight, Event, chainVars, registryVars
  <2> QED BY <1>1, <2>1, <2>2
<1>7. AgentsShown'
  BY <1>1, <1>3, RowStays DEF IInv, AgentsShown
<1>8. AttestationsShown'
  BY <1>1, <1>3, RowStays DEF IInv, AttestationsShown
<1>9. OperatorsShown'
  BY <1>1, <1>3, RowStays DEF IInv, OperatorsShown
<1>10. CountersRight'
  <2> SUFFICES ASSUME NEW id \in DOMAIN rows["attestors"], NEW op, NEW c1, NEW c2,
                      op = rows["attestors"][id].operator,
                      c1 = rows["attestors"][id].attestations, c2 = rows["attestors"][id].revoked
               PROVE  /\ Counted(c1, "AttestationSubmitted", op)'
                      /\ Counted(c2, "AttestationRevoked", op)'
    BY <1>1 DEF CountersRight
  <2>1. rows["attestors"][id] \in OperatorRows
    BY DEF IInv, LoopTyped, Kind
  <2>2. c1 \in Nat /\ c2 \in Nat
    BY <2>1 DEF OperatorRows
  <2>3. Counted(c1, "AttestationSubmitted", op) /\ Counted(c2, "AttestationRevoked", op)
    BY DEF IInv, CountersRight
  <2> QED BY <1>1, <2>2, <2>3, RestartCounted DEF IInv
<1> QED BY <1>2, <1>4, <1>5, <1>6, <1>7, <1>8, <1>9, <1>10 DEF IInv

----------------------------------------------------------------------------
(* The steps of the handlers.                                              *)

\* What a step of a handler leaves alone, and how it ends.
HandlerStep ==
  /\ UNCHANGED <<chainVars, log, stored, crashes>>
  /\ at < Len(log)
  /\ Done \/ (pending = {} /\ \E kept : Halfway(kept))

\* The event in hand.
LEMMA InHand ==
  ASSUME ContractInv, LoopTyped, at < Len(log)
  PROVE  /\ at \in Nat /\ at + 1 \in DOMAIN log /\ Len(log) \in Nat /\ DOMAIN log = 1..Len(log)
         /\ Event = log[at + 1] /\ Event \in ParticipantEvent
         /\ TableOf(Event) \in Tables
         /\ \A table : TableOf(Event) = table => Exists(table, Event.id)
         /\ AgentSaid(at + 1) /\ OperatorSaid(at + 1) /\ AttestationSaid(at + 1)
<1>1. /\ at \in Nat /\ at + 1 \in DOMAIN log /\ Len(log) \in Nat /\ DOMAIN log = 1..Len(log)
  BY DEF ContractInv, ContractTyped, LoopTyped
<1>2. Event = log[at + 1] /\ Event \in ParticipantEvent
  BY <1>1 DEF Event, ContractInv, ContractTyped
<1>3. /\ TableOf(Event) \in Tables
      /\ \A table : TableOf(Event) = table => Exists(table, Event.id)
  BY <1>1, <1>2 DEF ContractInv, Opened
<1>4. AgentSaid(at + 1) /\ OperatorSaid(at + 1) /\ AttestationSaid(at + 1)
  BY <1>1 DEF ContractInv, AgentsSaid, OperatorsSaid, AttestationsSaid
<1> QED BY <1>1, <1>2, <1>3, <1>4

\* Passing an event settles what it sets, if it is the last to set it, and
\* nothing else.
LEMMA Passing ==
  ASSUME ContractInv, LoopTyped, HandlerStep
  PROVE  /\ \A types, table, id :
              Settled(types, table, id)' /\ (at' = at \/ ~Is(Event, types, table, id))
                => Settled(types, table, id)
         /\ \A types, table, id :
              Settled(types, table, id)' /\ at' = at + 1 /\ TableOf(Event) = table /\ Event.id = id
                => LastSets(at + 1, types)
         /\ \A types, table, id :
              at' = at /\ Is(Event, types, table, id) => ~Settled(types, table, id)'
<1>1. /\ at \in Nat /\ at + 1 \in DOMAIN log /\ Len(log) \in Nat /\ DOMAIN log = 1..Len(log)
      /\ Event = log[at + 1]
  BY InHand DEF HandlerStep
<1>2. log' = log /\ at' \in {at, at + 1}
  BY DEF HandlerStep, Done, Halfway
<1>3. ASSUME NEW types, NEW table, NEW id, Settled(types, table, id)',
             at' = at \/ ~Is(Event, types, table, id)
      PROVE  Settled(types, table, id)
  <2> SUFFICES ASSUME NEW j \in (at + 1)..Len(log) PROVE ~Is(log[j], types, table, id)
    BY DEF Settled
  <2>1. \A i \in (at' + 1)..Len(log) : ~Is(log[i], types, table, id)
    BY <1>2, <1>3 DEF Settled
  <2>2. CASE at' = at
    BY <2>1, <2>2
  <2>3. CASE at' = at + 1 /\ ~Is(Event, types, table, id)
    <3>1. CASE j = at + 1
      BY <1>1, <2>3, <3>1
    <3>2. CASE j # at + 1
      <4>1. j \in (at' + 1)..Len(log)
        BY <1>1, <2>3, <3>2
      <4> QED BY <2>1, <4>1
    <3> QED BY <3>1, <3>2
  <2> QED BY <1>1, <1>2, <1>3, <2>2, <2>3
<1>4. ASSUME NEW types, NEW table, NEW id, Settled(types, table, id)', at' = at + 1,
             TableOf(Event) = table, Event.id = id
      PROVE  LastSets(at + 1, types)
  BY <1>1, <1>2, <1>4 DEF Settled, LastSets
<1>5. ASSUME NEW types, NEW table, NEW id, at' = at, Is(Event, types, table, id)
      PROVE  ~Settled(types, table, id)'
  BY <1>1, <1>2, <1>5 DEF Settled
<1> QED BY <1>3, <1>4, <1>5

\* Writing a row leaves every other one.
LEMMA Writing ==
  ASSUME DOMAIN rows = Tables, NEW table \in Tables, NEW id, NEW row,
         Upsert(table, id, row) \/ (Update(table, id, row) /\ id \in DOMAIN rows[table])
  PROVE  /\ DOMAIN rows' = Tables
         /\ \A t \in Tables : t # table => rows'[t] = rows[t]
         /\ DOMAIN rows'[table] = DOMAIN rows[table] \cup {id}
         /\ rows'[table][id] = row
         /\ \A i \in DOMAIN rows[table] : i # id => rows'[table][i] = rows[table][i]
<1>1. CASE Upsert(table, id, row)
  BY <1>1 DEF Upsert
<1>2. CASE Update(table, id, row) /\ id \in DOMAIN rows[table]
  <2>1. DOMAIN rows[table] \cup {id} = DOMAIN rows[table]
    BY <1>2
  <2> QED BY <1>2, <2>1 DEF Update
<1> QED BY <1>1, <1>2

\* The record an event is about has a row, unless the event is its first.
LEMMA HasRow ==
  ASSUME ContractInv, LoopTyped, RowsThere, at < Len(log), Event.type \notin First,
         NEW table, TableOf(Event) = table
  PROVE  Event.id \in DOMAIN rows[table]
<1>1. /\ at \in Nat /\ at + 1 \in DOMAIN log /\ Event = log[at + 1]
  BY InHand
<1>2. PICK j \in 1..(at + 1) : Is(log[j], First, TableOf(log[at + 1]), log[at + 1].id)
  BY <1>1 DEF ContractInv, Opened
<1>3. j \in 1..at /\ log[j].type \in First /\ TableOf(log[j]) = table /\ log[j].id = Event.id
  BY <1>1, <1>2 DEF Is
<1> QED BY <1>3 DEF RowsThere

\* A row that is not written shows what it showed, unless its own event is passed.
LEMMA OtherRows ==
  ASSUME ContractInv, LoopTyped, HandlerStep, NEW table, NEW id,
         rows'[table][id] = rows[table][id],
         at' = at \/ ~(TableOf(Event) = table /\ Event.id = id)
  PROVE  /\ table = "agents" /\ AgentShown(id) => AgentShown(id)'
         /\ table = "attestations" /\ AttestationShown(id) => AttestationShown(id)'
         /\ OperatorShown(table, id) => OperatorShown(table, id)'
<1>1. ASSUME NEW types, Settled(types, table, id)'
      PROVE  Settled(types, table, id)
  BY <1>1, Passing DEF Is
<1>2. UNCHANGED <<chainVars, log>>
  BY DEF HandlerStep
<1> QED BY <1>1, <1>2, RowStays

\* A row for each first event handled, whichever way a handler ends.
LEMMA HandlerRows ==
  ASSUME IInv, HandlerStep, DOMAIN rows' = Tables,
         \A t \in Tables : \A id \in DOMAIN rows[t] : id \in DOMAIN rows'[t],
         \A t \in Tables : \A id \in DOMAIN rows'[t] : id \in DOMAIN rows[t] \/ Is(Event, First, t, id),
         \A t \in Tables : at' = at + 1 /\ Event.type \in First /\ TableOf(Event) = t
                             => Event.id \in DOMAIN rows'[t]
  PROVE  /\ ContractInv' /\ RowsThere'
         /\ at' \in 0..Len(log') /\ stored' \in 0..at' /\ crashes' \in Nat
         /\ at' \in {at, at + 1}
<1>1. ContractInv'
  BY ContractsStay DEF HandlerStep, IInv
<1>2. /\ at \in Nat /\ at + 1 \in DOMAIN log /\ Len(log) \in Nat /\ DOMAIN log = 1..Len(log)
      /\ Event = log[at + 1]
      /\ TableOf(Event) \in Tables
      /\ at < Len(log) /\ stored \in 0..at /\ crashes \in Nat
  BY InHand DEF HandlerStep, IInv, LoopTyped
<1>3. /\ log' = log /\ stored' = stored /\ crashes' = crashes
      /\ \/ at' = at + 1 /\ pending' = {}
         \/ at' = at /\ pending = {} /\ \E kept : pending' = {kept}
  BY DEF HandlerStep, Done, Halfway
<1>4. at' \in 0..Len(log') /\ stored' \in 0..at' /\ crashes' \in Nat /\ at' \in {at, at + 1}
  BY <1>2, <1>3
<1>5. /\ Cardinality(pending) \in 0..1 /\ (pending = {} => Cardinality(pending) = 0)
      /\ at' + Cardinality(pending') = at + 1
  <2>1. pending = {} \/ \E kept : pending = {kept}
    BY DEF IInv, PendingRight
  <2>2. Cardinality({}) = 0 /\ \A kept : Cardinality({kept}) = 1
    BY FS_EmptySet, FS_Singleton
  <2>3. Cardinality(pending) \in 0..1 /\ (pending = {} => Cardinality(pending) = 0)
    <3>1. CASE pending = {}
      BY <2>2, <3>1
    <3>2. ASSUME NEW kept, pending = {kept}
          PROVE  Cardinality(pending) \in 0..1 /\ (pending = {} => Cardinality(pending) = 0)
      <4>1. Cardinality(pending) = 1 /\ pending # {}
        BY <2>2, <3>2
      <4> QED BY <4>1
    <3> QED BY <2>1, <3>1, <3>2
  <2>4. ASSUME at' = at + 1, pending' = {} PROVE at' + Cardinality(pending') = at + 1
    BY <1>2, <2>2, <2>4
  <2>5. ASSUME at' = at, NEW kept, pending' = {kept} PROVE at' + Cardinality(pending') = at + 1
    BY <1>2, <2>2, <2>5
  <2> QED BY <1>3, <2>3, <2>4, <2>5
<1>6. ASSUME NEW k \in 1..at', log[k].type \in First
      PROVE  log[k].id \in DOMAIN rows'[TableOf(log[k])]
  <2>1. CASE k \in 1..at
    <3>1. k \in DOMAIN log
      BY <1>2, <2>1
    <3>2. TableOf(log[k]) \in Tables
      BY <3>1 DEF IInv, ContractInv, Opened
    <3> QED BY <1>6, <2>1, <3>2 DEF IInv, RowsThere
  <2>2. CASE at' = at + 1 /\ k = at + 1
    BY <1>2, <1>6, <2>2
  <2> QED BY <1>2, <1>3, <2>1, <2>2
<1>7. ASSUME NEW t \in Tables, NEW id \in DOMAIN rows'[t]
      PROVE  \E k \in DOMAIN log : /\ Is(log[k], First, t, id)
                                   /\ crashes' = 0 => k <= at' + Cardinality(pending')
  <2>1. CASE Is(Event, First, t, id)
    BY <1>2, <1>5, <2>1
  <2>2. CASE id \in DOMAIN rows[t]
    <3>1. PICK k \in DOMAIN log :
            Is(log[k], First, t, id) /\ (crashes = 0 => k <= at + Cardinality(pending))
      BY <2>2 DEF IInv, RowsThere
    <3>2. k \in Nat
      BY <1>2
    <3> QED BY <1>2, <1>3, <1>5, <3>1, <3>2
  <2> QED BY <1>7, <2>1, <2>2
<1>8. RowsThere'
  BY <1>3, <1>6, <1>7 DEF RowsThere
<1> QED BY <1>1, <1>4, <1>8

\* A counter is right after an event that counts nothing for its operator.
LEMMA CountedStays ==
  ASSUME ContractInv, LoopTyped, HandlerStep, NEW type, NEW operator, NEW counter,
         Counted(counter, type, operator),
         at' = at \/ at + 1 \notin Attested(type, operator)
  PROVE  Counted(counter, type, operator)'
<1> DEFINE A == Attested(type, operator)
           D == Due(type, operator)
<1>1. A' = A /\ D' = D /\ crashes' = crashes
  BY DueStays DEF HandlerStep
<1>2. at \in Nat /\ at' \in {at, at + 1} /\ A \in SUBSET Nat /\ D \in SUBSET A
  BY DEF LoopTyped, HandlerStep, Done, Halfway, A, D, Due, Attested, ContractInv, ContractTyped
<1>3. at' = at \/ at + 1 \notin A
  OBVIOUS
<1>4. /\ Cardinality(UpTo(D, at)) <= counter
      /\ crashes = 0 => counter <= Cardinality(UpTo(D, at))
      /\ crashes > 0 => counter + Cardinality(A)
           <= Cardinality(D) + crashes * Cardinality(A) + Cardinality(UpTo(A, at))
  BY DEF Counted
<1> HIDE DEF A, D
<1>5. UpTo(A, at') = UpTo(A, at) /\ UpTo(D, at') = UpTo(D, at)
  <2>1. ASSUME NEW S \in SUBSET Nat, NEW n \in Nat, n + 1 \notin S
        PROVE  UpTo(S, n + 1) = UpTo(S, n)
    <3>1. \A k \in S : k <= n + 1 <=> k <= n
      <4>1. \A k \in S : k \in Nat /\ k # n + 1
        BY <2>1
      <4> QED BY <4>1
    <3> QED BY <3>1 DEF UpTo
  <2>2. D \in SUBSET Nat /\ (at' = at \/ (at' = at + 1 /\ at + 1 \notin A /\ at + 1 \notin D))
    <3>1. \A k \in D : k \in A /\ k \in Nat
      BY <1>2
    <3> QED BY <1>2, <1>3, <3>1
  <2>3. CASE at' = at
    BY <2>3
  <2>4. CASE at' = at + 1 /\ at + 1 \notin A /\ at + 1 \notin D
    BY <1>2, <2>1, <2>2, <2>4
  <2> QED BY <2>2, <2>3, <2>4
<1>6. /\ Cardinality(UpTo(D', at')) <= counter
      /\ crashes' = 0 => counter <= Cardinality(UpTo(D', at'))
      /\ crashes' > 0 => counter + Cardinality(A')
           <= Cardinality(D') + crashes' * Cardinality(A') + Cardinality(UpTo(A', at'))
  BY <1>1, <1>4, <1>5
<1> QED BY <1>6 DEF Counted, A, D, UpTo

\* Only the events that submit and revoke attestations are counted.
LEMMA NotCounted ==
  ASSUME ContractInv, LoopTyped, at < Len(log), NEW type, NEW operator, Event.type # type
  PROVE  at + 1 \notin Attested(type, operator)
BY InHand DEF Attested

\* So the counters of a row are right after any other event.
LEMMA RowCountersStay ==
  ASSUME IInv, HandlerStep,
         at' = at \/ Event.type \notin {"AttestationSubmitted", "AttestationRevoked"},
         NEW id \in DOMAIN rows["attestors"], NEW op, NEW c1, NEW c2,
         op = rows["attestors"][id].operator,
         c1 = rows["attestors"][id].attestations, c2 = rows["attestors"][id].revoked
  PROVE  /\ Counted(c1, "AttestationSubmitted", op)'
         /\ Counted(c2, "AttestationRevoked", op)'
<1>1. Counted(c1, "AttestationSubmitted", op) /\ Counted(c2, "AttestationRevoked", op)
  BY DEF IInv, CountersRight
<1>2. /\ at' = at \/ at + 1 \notin Attested("AttestationSubmitted", op)
      /\ at' = at \/ at + 1 \notin Attested("AttestationRevoked", op)
  BY NotCounted DEF IInv, HandlerStep
<1> QED BY <1>1, <1>2, CountedStays DEF IInv

\* All of them are, if its handler keeps them.
LEMMA CountersStay ==
  ASSUME IInv, HandlerStep,
         at' = at \/ Event.type \notin {"AttestationSubmitted", "AttestationRevoked"},
         \A id \in DOMAIN rows'["attestors"] :
           /\ id \in DOMAIN rows["attestors"]
           /\ rows'["attestors"][id].operator = rows["attestors"][id].operator
           /\ rows'["attestors"][id].attestations = rows["attestors"][id].attestations
           /\ rows'["attestors"][id].revoked = rows["attestors"][id].revoked
  PROVE  CountersRight'
<1> SUFFICES ASSUME NEW id \in DOMAIN rows'["attestors"], NEW op, NEW c1, NEW c2,
                    op = rows'["attestors"][id].operator,
                    c1 = rows'["attestors"][id].attestations, c2 = rows'["attestors"][id].revoked
             PROVE  /\ Counted(c1, "AttestationSubmitted", op)'
                    /\ Counted(c2, "AttestationRevoked", op)'
  BY DEF CountersRight
<1> QED BY RowCountersStay

\* A handler that writes the row its event is about keeps the tables in order, if
\* the row shows its record.
LEMMA Written ==
  ASSUME IInv, HandlerStep, NEW table \in Tables, TableOf(Event) = table,
         NEW id0, id0 = Event.id, NEW row,
         Upsert(table, id0, row) \/ (Update(table, id0, row) /\ id0 \in DOMAIN rows[table]),
         id0 \in DOMAIN rows[table] \/ Event.type \in First,
         table = "agents" => row \in AgentRows /\ AgentShown(id0)',
         table = "attestations" => row \in Attestation /\ AttestationShown(id0)',
         table \in Kind => row \in OperatorRows /\ OperatorShown(table, id0)'
  PROVE  /\ ContractInv' /\ LoopTyped' /\ RowsThere'
         /\ AgentsShown' /\ AttestationsShown' /\ OperatorsShown'
         /\ at' \in {at, at + 1}
<1>1. DOMAIN rows = Tables /\ ContractInv /\ LoopTyped
  BY DEF IInv, LoopTyped
<1>2. /\ DOMAIN rows' = Tables
      /\ \A t \in Tables : t # table => rows'[t] = rows[t]
      /\ DOMAIN rows'[table] = DOMAIN rows[table] \cup {id0}
      /\ rows'[table][id0] = row
      /\ \A i \in DOMAIN rows[table] : i # id0 => rows'[table][i] = rows[table][i]
  BY <1>1, Writing
<1>3. /\ \A t \in Tables : \A id \in DOMAIN rows[t] : id \in DOMAIN rows'[t]
      /\ \A t \in Tables : \A id \in DOMAIN rows'[t] :
           id \in DOMAIN rows[t] \/ (t = table /\ id = id0)
      /\ \A t \in Tables : \A id \in DOMAIN rows'[t] :
           t # table \/ id # id0 => id \in DOMAIN rows[t] /\ rows'[t][id] = rows[t][id]
  BY <1>2
<1>4. \A t \in Tables : \A id \in DOMAIN rows'[t] : id \in DOMAIN rows[t] \/ Is(Event, First, t, id)
  BY <1>3 DEF Is
<1>5. \A t \in Tables : TableOf(Event) = t => Event.id \in DOMAIN rows'[t]
  BY <1>2
<1>6. /\ ContractInv' /\ RowsThere' /\ at' \in {at, at + 1}
      /\ at' \in 0..Len(log') /\ stored' \in 0..at' /\ crashes' \in Nat
  BY <1>2, <1>3, <1>4, <1>5, HandlerRows
<1>7. /\ "agents" \in Tables /\ "attestations" \in Tables
      /\ \A kind \in Kind : kind \in Tables /\ kind # "agents" /\ kind # "attestations"
  BY DEF Tables, Kind
<1>8. \A t \in Tables : \A id \in DOMAIN rows'[t] : t # table \/ id # id0 =>
        /\ t = "agents" /\ AgentShown(id) => AgentShown(id)'
        /\ t = "attestations" /\ AttestationShown(id) => AttestationShown(id)'
        /\ OperatorShown(t, id) => OperatorShown(t, id)'
  <2> SUFFICES ASSUME NEW t \in Tables, NEW id \in DOMAIN rows'[t], t # table \/ id # id0
               PROVE  /\ t = "agents" /\ AgentShown(id) => AgentShown(id)'
                      /\ t = "attestations" /\ AttestationShown(id) => AttestationShown(id)'
                      /\ OperatorShown(t, id) => OperatorShown(t, id)'
    OBVIOUS
  <2>1. rows'[t][id] = rows[t][id] /\ ~(TableOf(Event) = t /\ Event.id = id)
    BY <1>3
  <2> QED BY <1>1, <2>1, OtherRows
<1>9. LoopTyped'
  <2>1. \A id \in DOMAIN rows'["agents"] : rows'["agents"][id] \in AgentRows
    BY <1>1, <1>2, <1>3, <1>7 DEF LoopTyped
  <2>2. \A id \in DOMAIN rows'["attestations"] : rows'["attestations"][id] \in Attestation
    BY <1>1, <1>2, <1>3, <1>7 DEF LoopTyped
  <2>3. \A kind \in Kind : \A id \in DOMAIN rows'[kind] : rows'[kind][id] \in OperatorRows
    BY <1>1, <1>2, <1>3, <1>7 DEF LoopTyped
  <2> QED BY <1>2, <1>6, <2>1, <2>2, <2>3 DEF LoopTyped
<1>10. AgentsShown'
  <2> SUFFICES ASSUME NEW id \in DOMAIN rows'["agents"] PROVE AgentShown(id)'
    BY DEF AgentsShown
  <2>1. CASE table # "agents" \/ id # id0
    BY <1>3, <1>7, <1>8, <2>1 DEF IInv, AgentsShown
  <2>2. CASE table = "agents" /\ id = id0
    BY <2>2
  <2> QED BY <2>1, <2>2
<1>11. AttestationsShown'
  <2> SUFFICES ASSUME NEW id \in DOMAIN rows'["attestations"] PROVE AttestationShown(id)'
    BY DEF AttestationsShown
  <2>1. CASE table # "attestations" \/ id # id0
    BY <1>3, <1>7, <1>8, <2>1 DEF IInv, AttestationsShown
  <2>2. CASE table = "attestations" /\ id = id0
    BY <2>2
  <2> QED BY <2>1, <2>2
<1>12. OperatorsShown'
  <2> SUFFICES ASSUME NEW kind \in Kind, NEW id \in DOMAIN rows'[kind]
               PROVE  OperatorShown(kind, id)'
    BY DEF OperatorsShown
  <2>1. CASE table # kind \/ id # id0
    BY <1>3, <1>7, <1>8, <2>1 DEF IInv, OperatorsShown
  <2>2. CASE table = kind /\ id = id0
    BY <2>2
  <2> QED BY <2>1, <2>2
<1> QED BY <1>6, <1>9, <1>10, <1>11, <1>12

\* The registration of an agent is read, then written.
LEMMA ReadAgentInv ==
  ASSUME IInv, ReadAgent, UNCHANGED <<chainVars, log, stored, crashes>>
  PROVE  IInv'
<1>1. /\ HandlerStep /\ at' = at /\ pending = {} /\ pending' = {agents[Event.id]} /\ rows' = rows
      /\ Event.type = "AgentRegistered" /\ at < Len(log)
  BY DEF ReadAgent, Handle, HandlerStep, Halfway
<1>2. ContractInv /\ LoopTyped /\ DOMAIN rows = Tables
  BY DEF IInv, LoopTyped
<1>3. ContractInv' /\ RowsThere' /\ at' \in 0..Len(log') /\ stored' \in 0..at' /\ crashes' \in Nat
  <2>1. at' # at + 1 /\ DOMAIN rows' = Tables
    BY <1>1, <1>2 DEF LoopTyped
  <2>2. /\ \A t \in Tables : \A id \in DOMAIN rows[t] : id \in DOMAIN rows'[t]
        /\ \A t \in Tables : \A id \in DOMAIN rows'[t] : id \in DOMAIN rows[t]
    BY <1>1
  <2> QED BY <1>1, <2>1, <2>2, HandlerRows
<1>4. LoopTyped'
  BY <1>1, <1>2, <1>3 DEF LoopTyped
<1>5. AgentsShown' /\ AttestationsShown' /\ OperatorsShown'
  BY <1>1, <1>2, OtherRows DEF IInv, AgentsShown, AttestationsShown, OperatorsShown
<1>6. PendingRight'
  <2>1. Event.id \in DOMAIN agents
    BY <1>1, <1>2, InHand DEF TableOf, Exists
  <2>2. agents[Event.id] \in Agent /\ agents[Event.id].version \in Nat
    <3>1. agents[Event.id] \in Agent
      BY <1>2, <2>1 DEF ContractInv, ContractTyped
    <3> QED BY <3>1 DEF Agent
  <2>3. Event.id \in DOMAIN rows["agents"] /\ rows["agents"][Event.id].revoked
          => agents[Event.id].revoked
    BY DEF IInv, AgentsShown, AgentShown
  <2>4. log' = log /\ agents' = agents /\ Event' = Event
    BY <1>1 DEF HandlerStep, chainVars, Event
  <2>5. /\ pending' = {agents[Event.id]}
        /\ agents[Event.id].version <= agents[Event.id].version
    BY <1>1, <2>2
  <2> QED BY <1>1, <2>2, <2>3, <2>4, <2>5 DEF PendingRight
<1>7. CountersRight'
  BY <1>1, CountersStay
<1> QED BY <1>3, <1>4, <1>5, <1>6, <1>7 DEF IInv

\* A handler that is done and wrote no attestor's row leaves everything in order.
LEMMA DoneInv ==
  ASSUME IInv, HandlerStep, at' = at + 1, pending' = {}, CountersRight',
         ContractInv', LoopTyped', RowsThere', AgentsShown', AttestationsShown', OperatorsShown'
  PROVE  IInv'
BY DEF IInv, PendingRight

\* What every handler of a table starts from.
LEMMA Handling ==
  ASSUME IInv, NEW type, Handle(type) \/ (at < Len(log) /\ Event.type = type)
  PROVE  /\ ContractInv /\ LoopTyped /\ RowsThere /\ DOMAIN rows = Tables
         /\ at < Len(log) /\ at \in Nat /\ at # at + 1 /\ Event.type = type
         /\ Event \in ParticipantEvent /\ Event = log[at + 1] /\ at + 1 \in DOMAIN log
BY InHand DEF IInv, Handle, LoopTyped

\* The handlers of agents.
LEMMA HandleAgentRegisteredInv ==
  ASSUME IInv, HandleAgentRegistered, UNCHANGED <<chainVars, log, stored, crashes>>
  PROVE  IInv'
<1>1. /\ HandlerStep /\ at' = at + 1 /\ pending' = {} /\ pending # {}
      /\ Event.type = "AgentRegistered" /\ at < Len(log)
  BY DEF HandleAgentRegistered, HandlerStep, Done
<1>2. /\ ContractInv /\ LoopTyped /\ DOMAIN rows = Tables
      /\ Event \in ParticipantEvent /\ Event = log[at + 1]
  BY <1>1, Handling
<1>3. PICK record \in Agent :
        /\ pending = {record}
        /\ record.version <= agents[Event.id].version
        /\ record.revoked => agents[Event.id].revoked
  BY <1>1 DEF IInv, PendingRight
<1> DEFINE row == [owner |-> Event.owner, metadata |-> 0, capabilities |-> record.version,
                   revoked |-> record.revoked]
<1>4. PICK id0 : id0 = Event.id
  OBVIOUS
<1>5. Upsert("agents", id0, row)
  BY <1>3, <1>4 DEF HandleAgentRegistered, AgentRow
<1>6. TableOf(Event) = "agents" /\ "agents" \in Tables /\ Event.type \in First
  BY <1>1 DEF TableOf, Tables, First
<1>7. record.version \in Nat /\ record.revoked \in BOOLEAN
  BY DEF Agent
<1>8. row \in AgentRows
  <2>1. Event.owner \in Address
    BY <1>1, <1>2, EventFields
  <2> QED BY <1>7, <2>1 DEF AgentRows
<1>9. rows'["agents"][id0] = row /\ agents' = agents
  BY <1>2, <1>5, <1>6, Writing DEF chainVars
<1>10. /\ agents[id0].owner = Event.owner
       /\ LastSets(at + 1, SetsVersion) => agents[id0].version = 0
       /\ LastSets(at + 1, SetsRevoked) => ~agents[id0].revoked
  BY <1>1, <1>2, <1>4, InHand DEF AgentSaid
<1>11. /\ Settled(SetsVersion, "agents", id0)' => LastSets(at + 1, SetsVersion)
       /\ Settled(SetsRevoked, "agents", id0)' => LastSets(at + 1, SetsRevoked)
  BY <1>1, <1>2, <1>4, <1>6, Passing
<1>12. /\ row.owner = Event.owner /\ row.metadata = 0 /\ row.capabilities = record.version
       /\ row.revoked = record.revoked
  OBVIOUS
<1> HIDE DEF row
<1>13. AgentShown(id0)'
  <2>1. /\ row.owner = agents[id0].owner
        /\ row.revoked => agents[id0].revoked
        /\ agents[id0].version = 0 => row.metadata = agents[id0].version
                                        /\ row.capabilities = agents[id0].version
        /\ ~agents[id0].revoked => row.revoked = agents[id0].revoked
    <3>1. agents[id0].version = 0 => record.version = 0
      BY <1>3, <1>4, <1>7
    <3>2. agents[id0] \in Agent
      <4>1. id0 \in DOMAIN agents
        BY <1>1, <1>2, <1>4, <1>6, InHand DEF Exists
      <4> QED BY <1>2, <4>1 DEF ContractInv, ContractTyped
    <3>3. agents[id0].revoked \in BOOLEAN
      BY <3>2 DEF Agent
    <3> QED BY <1>3, <1>4, <1>7, <1>10, <1>12, <3>1, <3>3
  <2> QED BY <1>9, <1>10, <1>11, <2>1 DEF AgentShown
<1>14. /\ ContractInv' /\ LoopTyped' /\ RowsThere'
       /\ AgentsShown' /\ AttestationsShown' /\ OperatorsShown'
  BY <1>1, <1>4, <1>5, <1>6, <1>8, <1>13, Written DEF Kind
<1>15. CountersRight'
  <2>1. rows'["attestors"] = rows["attestors"]
    BY <1>2, <1>5, <1>6, Writing DEF Tables, Kind
  <2> QED BY <1>1, <2>1, CountersStay
<1> QED BY <1>1, <1>14, <1>15, DoneInv

\* An update sets metadata and capabilities.
LEMMA HandleAgentUpdatedInv ==
  ASSUME IInv, HandleAgentUpdated, UNCHANGED <<chainVars, log, stored, crashes>>
  PROVE  IInv'
<1>1. /\ HandlerStep /\ at' = at + 1 /\ pending' = {}
      /\ Event.type = "AgentUpdated" /\ at < Len(log)
  BY DEF HandleAgentUpdated, Handle, HandlerStep, Done
<1>2. /\ ContractInv /\ LoopTyped /\ RowsThere /\ DOMAIN rows = Tables
      /\ Event \in ParticipantEvent /\ Event = log[at + 1]
  BY <1>1, Handling
<1>3. TableOf(Event) = "agents" /\ "agents" \in Tables /\ Event.type \notin First
  BY <1>1 DEF TableOf, Tables, First
<1>4. PICK id0 : id0 = Event.id
  OBVIOUS
<1>5. id0 \in DOMAIN rows["agents"]
  BY <1>1, <1>2, <1>3, <1>4, HasRow
<1>6. PICK old : old = rows["agents"][id0]
  OBVIOUS
<1> DEFINE row == [old EXCEPT !.metadata = Event.version, !.capabilities = Event.version]
<1>7. Update("agents", id0, row)
  BY <1>4, <1>6 DEF HandleAgentUpdated
<1>8. old \in AgentRows
  BY <1>2, <1>5, <1>6 DEF LoopTyped
<1>9. /\ row \in AgentRows /\ row.owner = old.owner /\ row.revoked = old.revoked
      /\ row.metadata = Event.version /\ row.capabilities = Event.version
  <2>1. Event.version \in Nat
    BY <1>1, <1>2, EventFields
  <2> QED BY <1>8, <2>1 DEF AgentRows
<1> HIDE DEF row
<1>10. rows'["agents"][id0] = row /\ agents' = agents
  BY <1>2, <1>3, <1>5, <1>7, Writing DEF chainVars
<1>11. AgentShown(id0)'
  <2>1. LastSets(at + 1, SetsVersion) => agents[id0].version = Event.version
    BY <1>1, <1>2, <1>4, InHand DEF AgentSaid
  <2>2. Settled(SetsVersion, "agents", id0)' => LastSets(at + 1, SetsVersion)
    BY <1>1, <1>2, <1>3, <1>4, Passing
  <2>3. ~Is(Event, SetsRevoked, "agents", id0)
    BY <1>1 DEF Is, SetsRevoked
  <2>4. Settled(SetsRevoked, "agents", id0)' => Settled(SetsRevoked, "agents", id0)
    BY <1>1, <1>2, <2>3, Passing
  <2>5. AgentShown(id0)
    BY <1>5 DEF IInv, AgentsShown
  <2> QED BY <1>6, <1>9, <1>10, <2>1, <2>2, <2>4, <2>5 DEF AgentShown
<1>12. /\ ContractInv' /\ LoopTyped' /\ RowsThere'
       /\ AgentsShown' /\ AttestationsShown' /\ OperatorsShown'
  BY <1>1, <1>3, <1>4, <1>5, <1>7, <1>9, <1>11, Written DEF Kind
<1>13. CountersRight'
  <2>1. rows'["attestors"] = rows["attestors"]
    BY <1>2, <1>3, <1>5, <1>7, Writing DEF Tables, Kind
  <2> QED BY <1>1, <2>1, CountersStay
<1> QED BY <1>1, <1>12, <1>13, DoneInv

\* A revocation sets the flag.
LEMMA HandleAgentRevokedInv ==
  ASSUME IInv, HandleAgentRevoked, UNCHANGED <<chainVars, log, stored, crashes>>
  PROVE  IInv'
<1>1. /\ HandlerStep /\ at' = at + 1 /\ pending' = {}
      /\ Event.type = "AgentRevoked" /\ at < Len(log)
  BY DEF HandleAgentRevoked, Handle, HandlerStep, Done
<1>2. /\ ContractInv /\ LoopTyped /\ RowsThere /\ DOMAIN rows = Tables
      /\ Event \in ParticipantEvent /\ Event = log[at + 1]
  BY <1>1, Handling
<1>3. TableOf(Event) = "agents" /\ "agents" \in Tables /\ Event.type \notin First
  BY <1>1 DEF TableOf, Tables, First
<1>4. PICK id0 : id0 = Event.id
  OBVIOUS
<1>5. id0 \in DOMAIN rows["agents"]
  BY <1>1, <1>2, <1>3, <1>4, HasRow
<1>6. PICK old : old = rows["agents"][id0]
  OBVIOUS
<1> DEFINE row == [old EXCEPT !.revoked = TRUE]
<1>7. Update("agents", id0, row)
  BY <1>4, <1>6 DEF HandleAgentRevoked
<1>8. old \in AgentRows
  BY <1>2, <1>5, <1>6 DEF LoopTyped
<1>9. /\ row \in AgentRows /\ row.owner = old.owner /\ row.revoked = TRUE
      /\ row.metadata = old.metadata /\ row.capabilities = old.capabilities
  BY <1>8 DEF AgentRows
<1> HIDE DEF row
<1>10. rows'["agents"][id0] = row /\ agents' = agents
  BY <1>2, <1>3, <1>5, <1>7, Writing DEF chainVars
<1>11. AgentShown(id0)'
  <2>1. agents[id0].revoked
    BY <1>1, <1>2, <1>4, InHand DEF AgentSaid
  <2>2. agents[id0].revoked \in BOOLEAN
    <3>1. id0 \in DOMAIN agents
      BY <1>1, <1>2, <1>3, <1>4, InHand DEF Exists
    <3>2. agents[id0] \in Agent
      BY <1>2, <3>1 DEF ContractInv, ContractTyped
    <3> QED BY <3>2 DEF Agent
  <2>3. ~Is(Event, SetsVersion, "agents", id0)
    BY <1>1 DEF Is, SetsVersion
  <2>4. Settled(SetsVersion, "agents", id0)' => Settled(SetsVersion, "agents", id0)
    BY <1>1, <1>2, <2>3, Passing
  <2>5. AgentShown(id0)
    BY <1>5 DEF IInv, AgentsShown
  <2> QED BY <1>6, <1>9, <1>10, <2>1, <2>2, <2>4, <2>5 DEF AgentShown
<1>12. /\ ContractInv' /\ LoopTyped' /\ RowsThere'
       /\ AgentsShown' /\ AttestationsShown' /\ OperatorsShown'
  BY <1>1, <1>3, <1>4, <1>5, <1>7, <1>9, <1>11, Written DEF Kind
<1>13. CountersRight'
  <2>1. rows'["attestors"] = rows["attestors"]
    BY <1>2, <1>3, <1>5, <1>7, Writing DEF Tables, Kind
  <2> QED BY <1>1, <2>1, CountersStay
<1> QED BY <1>1, <1>12, <1>13, DoneInv

\* Nothing is due yet to an attestor whose registration is passed for the first
\* time, since it registers once.
LEMMA FreshCounted ==
  ASSUME ContractInv, LoopTyped, HandlerStep, at' = at + 1,
         Event.type = "OperatorRegistered", Event.kind = "attestors",
         NEW type, NEW operator, operator = Event.operator
  PROVE  Counted(0, type, operator)'
<1> DEFINE A == Attested(type, operator)
           D == Due(type, operator)
<1>1. A' = A /\ D' = D /\ crashes' = crashes /\ crashes \in Nat
  BY DueStays DEF HandlerStep, LoopTyped
<1>2. /\ at \in Nat /\ at + 1 \in DOMAIN log /\ Len(log) \in Nat /\ DOMAIN log = 1..Len(log)
      /\ Event = log[at + 1]
  BY InHand DEF HandlerStep
<1>3. /\ Cardinality(A) \in Nat /\ Cardinality(D) \in Nat
      /\ Cardinality(UpTo(A, at + 1)) \in Nat
  BY Positions DEF ContractInv
<1>4. \A k \in D : ~(k <= at + 1)
  <2> SUFFICES ASSUME NEW k \in D, k <= at + 1 PROVE FALSE
    OBVIOUS
  <2>1. k \in DOMAIN log
    BY DEF Due, Attested
  <2>2. PICK j \in 1..(k - 1) : /\ log[j].type = "OperatorRegistered"
                                /\ log[j].kind = "attestors" /\ log[j].operator = operator
    BY DEF Due
  <2>3. j \in DOMAIN log /\ j # at + 1
    BY <1>2, <2>1, <2>2
  <2> QED BY <1>2, <2>2, <2>3 DEF ContractInv, RegistersOnce
<1> HIDE DEF A, D
<1>5. UpTo(D, at + 1) = {}
  BY <1>4 DEF UpTo
<1>6. Cardinality(UpTo(D, at + 1)) = 0
  BY <1>5, FS_EmptySet
<1>7. crashes > 0 => Cardinality(A) <= crashes * Cardinality(A)
  <2>1. \A c, a \in Nat : c > 0 => a <= c * a
    <3> SUFFICES ASSUME NEW c \in Nat, NEW a \in Nat, c > 0 PROVE a <= c * a
      OBVIOUS
    <3>1. PICK b \in Nat : c = b + 1
      <4>1. c - 1 \in Nat /\ c = (c - 1) + 1
        OBVIOUS
      <4> QED BY <4>1
    <3>2. c * a = b * a + a /\ b * a \in Nat
      BY <3>1
    <3> QED BY <3>2
  <2> QED BY <1>1, <1>3, <2>1
<1>8. \A p, q, r, s \in Nat : p <= q => 0 + p <= r + q + s
  OBVIOUS
<1>9. crashes * Cardinality(A) \in Nat
  BY <1>1, <1>3
<1>10. crashes > 0 => 0 + Cardinality(A)
         <= Cardinality(D) + crashes * Cardinality(A) + Cardinality(UpTo(A, at + 1))
  BY <1>3, <1>7, <1>8, <1>9
<1>11. /\ Cardinality(UpTo(D', at')) <= 0
       /\ crashes' = 0 => 0 <= Cardinality(UpTo(D', at'))
       /\ crashes' > 0 => 0 + Cardinality(A')
            <= Cardinality(D') + crashes' * Cardinality(A') + Cardinality(UpTo(A', at'))
  BY <1>1, <1>6, <1>10
<1> QED BY <1>11 DEF Counted, A, D, UpTo

\* The handlers of solvers and attestors.
LEMMA HandleOperatorRegisteredInv ==
  ASSUME IInv, HandleOperatorRegistered, UNCHANGED <<chainVars, log, stored, crashes>>
  PROVE  IInv'
<1>1. /\ HandlerStep /\ at' = at + 1 /\ pending' = {}
      /\ Event.type = "OperatorRegistered" /\ at < Len(log)
  BY DEF HandleOperatorRegistered, Handle, HandlerStep, Done
<1>2. /\ ContractInv /\ LoopTyped /\ RowsThere /\ DOMAIN rows = Tables
      /\ Event \in ParticipantEvent /\ Event = log[at + 1]
  BY <1>1, Handling
<1>3. PICK kind0, id0 : kind0 = Event.kind /\ id0 = Event.id
  OBVIOUS
<1>4. kind0 \in Kind /\ Event.operator \in Address /\ Event.bond \in Bond \cup {0}
  BY <1>1, <1>2, <1>3, EventFields
<1>5. TableOf(Event) = kind0 /\ kind0 \in Tables /\ Event.type \in First
      /\ kind0 # "agents" /\ kind0 # "attestations"
  BY <1>1, <1>3, <1>4 DEF TableOf, Tables, First, Kind
<1>6. \A id \in DOMAIN rows[kind0] : rows[kind0][id] \in OperatorRows
  BY <1>2, <1>4 DEF LoopTyped
<1>7. PICK a \in Nat, r \in Nat :
        /\ id0 \in DOMAIN rows[kind0] =>
             a = rows[kind0][id0].attestations /\ r = rows[kind0][id0].revoked
        /\ id0 \notin DOMAIN rows[kind0] => a = 0 /\ r = 0
        /\ Upsert(kind0, id0, [operator |-> Event.operator, active |-> TRUE, bond |-> Event.bond,
                               attestations |-> a, revoked |-> r])
  <2>1. CASE id0 \in DOMAIN rows[kind0]
    <3>1. rows[kind0][id0].attestations \in Nat /\ rows[kind0][id0].revoked \in Nat
      BY <1>6, <2>1 DEF OperatorRows
    <3> QED BY <1>3, <2>1, <3>1 DEF HandleOperatorRegistered, Has
  <2>2. CASE id0 \notin DOMAIN rows[kind0]
    BY <1>3, <2>2 DEF HandleOperatorRegistered, Has
  <2> QED BY <2>1, <2>2
<1> DEFINE row == [operator |-> Event.operator, active |-> TRUE, bond |-> Event.bond,
                   attestations |-> a, revoked |-> r]
<1>8. /\ row \in OperatorRows /\ row.operator = Event.operator /\ row.active = TRUE
      /\ row.bond = Event.bond /\ row.attestations = a /\ row.revoked = r
  BY <1>4 DEF OperatorRows
<1>9. Upsert(kind0, id0, row)
  BY <1>7
<1> HIDE DEF row
<1>10. /\ rows'[kind0][id0] = row /\ operators' = operators
       /\ DOMAIN rows'[kind0] = DOMAIN rows[kind0] \cup {id0}
       /\ \A t \in Tables : t # kind0 => rows'[t] = rows[t]
       /\ \A i \in DOMAIN rows[kind0] : i # id0 => rows'[kind0][i] = rows[kind0][i]
  BY <1>2, <1>5, <1>9, Writing DEF HandleOperatorRegistered, chainVars
<1>11. /\ operators[kind0][id0].operator = Event.operator
       /\ LastSets(at + 1, SetsActive) => operators[kind0][id0].active
       /\ LastSets(at + 1, SetsBond) => operators[kind0][id0].bond = Event.bond
  BY <1>1, <1>2, <1>3, InHand DEF OperatorSaid
<1>12. OperatorShown(kind0, id0)'
  <2>1. /\ Settled(SetsActive, kind0, id0)' => LastSets(at + 1, SetsActive)
        /\ Settled(SetsBond, kind0, id0)' => LastSets(at + 1, SetsBond)
    BY <1>1, <1>2, <1>3, <1>5, Passing
  <2>2. operators[kind0][id0].active \in BOOLEAN
    <3>1. id0 \in DOMAIN operators[kind0]
      BY <1>1, <1>2, <1>3, <1>5, InHand DEF Exists
    <3>2. operators[kind0] \in Seq(Operator)
      BY <1>2, <1>4 DEF ContractInv, ContractTyped
    <3>3. operators[kind0][id0] \in Operator
      BY <3>1, <3>2
    <3> QED BY <3>3 DEF Operator
  <2> QED BY <1>8, <1>10, <1>11, <2>1, <2>2 DEF OperatorShown
<1>13. /\ ContractInv' /\ LoopTyped' /\ RowsThere'
       /\ AgentsShown' /\ AttestationsShown' /\ OperatorsShown'
  BY <1>1, <1>3, <1>5, <1>8, <1>9, <1>12, Written
<1>14. CountersRight'
  <2> SUFFICES ASSUME NEW id \in DOMAIN rows'["attestors"], NEW op, NEW c1, NEW c2,
                      op = rows'["attestors"][id].operator,
                      c1 = rows'["attestors"][id].attestations,
                      c2 = rows'["attestors"][id].revoked
               PROVE  /\ Counted(c1, "AttestationSubmitted", op)'
                      /\ Counted(c2, "AttestationRevoked", op)'
    BY DEF CountersRight
  <2>1. "attestors" \in Tables /\ "attestors" \in Kind
    BY DEF Tables, Kind
  <2>2. Event.type \notin {"AttestationSubmitted", "AttestationRevoked"}
    BY <1>1
  <2>3. ASSUME id \in DOMAIN rows["attestors"]
        PROVE  /\ op = rows["attestors"][id].operator
               /\ c1 = rows["attestors"][id].attestations /\ c2 = rows["attestors"][id].revoked
    <3>1. CASE kind0 # "attestors" \/ id # id0
      BY <1>10, <2>1, <2>3, <3>1
    <3>2. CASE kind0 = "attestors" /\ id = id0
      <4>1. OperatorShown(kind0, id0)
        BY <1>4, <2>3, <3>2 DEF IInv, OperatorsShown
      <4>2. rows[kind0][id0].operator = operators[kind0][id0].operator
        BY <4>1 DEF OperatorShown
      <4> QED BY <1>7, <1>8, <1>10, <1>11, <2>3, <3>2, <4>2
    <3> QED BY <3>1, <3>2
  <2>4. ASSUME id \notin DOMAIN rows["attestors"]
        PROVE  kind0 = "attestors" /\ c1 = 0 /\ c2 = 0 /\ op = Event.operator
    <3>1. kind0 = "attestors" /\ id = id0
      BY <1>10, <2>1, <2>4
    <3> QED BY <1>7, <1>8, <1>10, <2>4, <3>1
  <2>5. CASE id \in DOMAIN rows["attestors"]
    BY <1>1, <2>2, <2>3, <2>5, RowCountersStay
  <2>6. CASE id \notin DOMAIN rows["attestors"]
    BY <1>1, <1>2, <1>3, <2>4, <2>6, FreshCounted
  <2> QED BY <2>5, <2>6
<1> QED BY <1>1, <1>13, <1>14, DoneInv

\* An update of an operator sets its state.
LEMMA HandleOperatorUpdatedInv ==
  ASSUME IInv, HandleOperatorUpdated, UNCHANGED <<chainVars, log, stored, crashes>>
  PROVE  IInv'
<1>1. /\ HandlerStep /\ at' = at + 1 /\ pending' = {}
      /\ Event.type = "OperatorUpdated" /\ at < Len(log)
  BY DEF HandleOperatorUpdated, Handle, HandlerStep, Done
<1>2. /\ ContractInv /\ LoopTyped /\ RowsThere /\ DOMAIN rows = Tables
      /\ Event \in ParticipantEvent /\ Event = log[at + 1]
  BY <1>1, Handling
<1>3. PICK kind0, id0 : kind0 = Event.kind /\ id0 = Event.id
  OBVIOUS
<1>4. kind0 \in Kind /\ Event.active \in BOOLEAN
  BY <1>1, <1>2, <1>3, EventFields
<1>5. /\ TableOf(Event) = kind0 /\ kind0 \in Tables /\ Event.type \notin First
      /\ kind0 # "agents" /\ kind0 # "attestations"
  BY <1>1, <1>3, <1>4 DEF TableOf, Tables, First, Kind
<1>6. id0 \in DOMAIN rows[kind0]
  BY <1>1, <1>2, <1>3, <1>5, HasRow
<1>7. PICK old : old = rows[kind0][id0]
  OBVIOUS
<1> DEFINE row == [old EXCEPT !.active = Event.active]
<1>8. Update(kind0, id0, row)
  BY <1>3, <1>7 DEF HandleOperatorUpdated
<1>9. old \in OperatorRows
  BY <1>2, <1>4, <1>6, <1>7 DEF LoopTyped
<1>10. /\ row \in OperatorRows /\ row.operator = old.operator /\ row.bond = old.bond
       /\ row.active = Event.active
       /\ row.attestations = old.attestations /\ row.revoked = old.revoked
  BY <1>4, <1>9 DEF OperatorRows
<1> HIDE DEF row
<1>11. /\ rows'[kind0][id0] = row /\ operators' = operators
       /\ DOMAIN rows'[kind0] = DOMAIN rows[kind0] \cup {id0}
       /\ \A t \in Tables : t # kind0 => rows'[t] = rows[t]
       /\ \A i \in DOMAIN rows[kind0] : i # id0 => rows'[kind0][i] = rows[kind0][i]
  BY <1>2, <1>5, <1>6, <1>8, Writing DEF chainVars
<1>12. OperatorShown(kind0, id0)'
  <2>1. LastSets(at + 1, SetsActive) => operators[kind0][id0].active = Event.active
    BY <1>1, <1>2, <1>3, InHand DEF OperatorSaid
  <2>2. Settled(SetsActive, kind0, id0)' => LastSets(at + 1, SetsActive)
    BY <1>1, <1>2, <1>3, <1>5, Passing
  <2>3. ~Is(Event, SetsBond, kind0, id0)
    BY <1>1 DEF Is, SetsBond
  <2>4. Settled(SetsBond, kind0, id0)' => Settled(SetsBond, kind0, id0)
    BY <1>1, <1>2, <2>3, Passing
  <2>5. OperatorShown(kind0, id0)
    BY <1>4, <1>6 DEF IInv, OperatorsShown
  <2> QED BY <1>7, <1>10, <1>11, <2>1, <2>2, <2>4, <2>5 DEF OperatorShown
<1>13. /\ ContractInv' /\ LoopTyped' /\ RowsThere'
       /\ AgentsShown' /\ AttestationsShown' /\ OperatorsShown'
  BY <1>1, <1>3, <1>5, <1>6, <1>8, <1>10, <1>12, Written
<1>14. CountersRight'
  <2>1. "attestors" \in Tables
    BY DEF Tables, Kind
  <2>2. \A id \in DOMAIN rows'["attestors"] :
          /\ id \in DOMAIN rows["attestors"]
          /\ rows'["attestors"][id].operator = rows["attestors"][id].operator
          /\ rows'["attestors"][id].attestations = rows["attestors"][id].attestations
          /\ rows'["attestors"][id].revoked = rows["attestors"][id].revoked
    BY <1>6, <1>7, <1>10, <1>11, <2>1
  <2> QED BY <1>1, <2>2, CountersStay
<1> QED BY <1>1, <1>13, <1>14, DoneInv

\* A change of bond sets the bond.
LEMMA HandleSolverBondChangedInv ==
  ASSUME IInv, HandleSolverBondChanged, UNCHANGED <<chainVars, log, stored, crashes>>
  PROVE  IInv'
<1>1. /\ HandlerStep /\ at' = at + 1 /\ pending' = {}
      /\ Event.type = "SolverBondChanged" /\ at < Len(log)
  BY DEF HandleSolverBondChanged, Handle, HandlerStep, Done
<1>2. /\ ContractInv /\ LoopTyped /\ RowsThere /\ DOMAIN rows = Tables
      /\ Event \in ParticipantEvent /\ Event = log[at + 1]
  BY <1>1, Handling
<1>3. PICK kind0, id0 : kind0 = "solvers" /\ id0 = Event.id
  OBVIOUS
<1>4. kind0 \in Kind /\ Event.bond \in Bond
  BY <1>1, <1>2, <1>3, EventFields DEF Kind
<1>5. /\ TableOf(Event) = kind0 /\ kind0 \in Tables /\ Event.type \notin First
      /\ kind0 # "agents" /\ kind0 # "attestations"
  BY <1>1, <1>3, <1>4 DEF TableOf, Tables, First, Kind
<1>6. id0 \in DOMAIN rows[kind0]
  BY <1>1, <1>2, <1>3, <1>5, HasRow
<1>7. PICK old : old = rows[kind0][id0]
  OBVIOUS
<1> DEFINE row == [old EXCEPT !.bond = Event.bond]
<1>8. Update(kind0, id0, row)
  BY <1>3, <1>7 DEF HandleSolverBondChanged
<1>9. old \in OperatorRows
  BY <1>2, <1>4, <1>6, <1>7 DEF LoopTyped
<1>10. /\ row \in OperatorRows /\ row.operator = old.operator /\ row.active = old.active
       /\ row.bond = Event.bond
       /\ row.attestations = old.attestations /\ row.revoked = old.revoked
  BY <1>4, <1>9 DEF OperatorRows
<1> HIDE DEF row
<1>11. /\ rows'[kind0][id0] = row /\ operators' = operators
       /\ DOMAIN rows'[kind0] = DOMAIN rows[kind0] \cup {id0}
       /\ \A t \in Tables : t # kind0 => rows'[t] = rows[t]
       /\ \A i \in DOMAIN rows[kind0] : i # id0 => rows'[kind0][i] = rows[kind0][i]
  BY <1>2, <1>5, <1>6, <1>8, Writing DEF chainVars
<1>12. OperatorShown(kind0, id0)'
  <2>1. LastSets(at + 1, SetsBond) => operators[kind0][id0].bond = Event.bond
    BY <1>1, <1>2, <1>3, InHand DEF OperatorSaid
  <2>2. Settled(SetsBond, kind0, id0)' => LastSets(at + 1, SetsBond)
    BY <1>1, <1>2, <1>3, <1>5, Passing
  <2>3. ~Is(Event, SetsActive, kind0, id0)
    BY <1>1 DEF Is, SetsActive
  <2>4. Settled(SetsActive, kind0, id0)' => Settled(SetsActive, kind0, id0)
    BY <1>1, <1>2, <2>3, Passing
  <2>5. OperatorShown(kind0, id0)
    BY <1>4, <1>6 DEF IInv, OperatorsShown
  <2> QED BY <1>7, <1>10, <1>11, <2>1, <2>2, <2>4, <2>5 DEF OperatorShown
<1>13. /\ ContractInv' /\ LoopTyped' /\ RowsThere'
       /\ AgentsShown' /\ AttestationsShown' /\ OperatorsShown'
  BY <1>1, <1>3, <1>5, <1>6, <1>8, <1>10, <1>12, Written
<1>14. CountersRight'
  <2>1. "attestors" \in Tables
    BY DEF Tables, Kind
  <2>2. \A id \in DOMAIN rows'["attestors"] :
          /\ id \in DOMAIN rows["attestors"]
          /\ rows'["attestors"][id].operator = rows["attestors"][id].operator
          /\ rows'["attestors"][id].attestations = rows["attestors"][id].attestations
          /\ rows'["attestors"][id].revoked = rows["attestors"][id].revoked
    BY <1>6, <1>7, <1>10, <1>11, <2>1
  <2> QED BY <1>1, <2>2, CountersStay
<1> QED BY <1>1, <1>13, <1>14, DoneInv


\* The handlers of attestations: the row first, then the attestor's counter.
LEMMA HandleAttestationSubmittedInv ==
  ASSUME IInv, HandleAttestationSubmitted, UNCHANGED <<chainVars, log, stored, crashes>>
  PROVE  IInv'
<1>1. /\ HandlerStep /\ at' = at /\ pending' = {Event.attester}
      /\ Event.type = "AttestationSubmitted" /\ at < Len(log)
  BY DEF HandleAttestationSubmitted, Handle, HandlerStep, Halfway
<1>2. /\ ContractInv /\ LoopTyped /\ RowsThere /\ DOMAIN rows = Tables
      /\ Event \in ParticipantEvent /\ Event = log[at + 1]
  BY <1>1, Handling
<1>3. PICK id0 : id0 = Event.id
  OBVIOUS
<1>4. /\ TableOf(Event) = "attestations" /\ "attestations" \in Tables /\ Event.type \in First
      /\ "attestations" \notin Kind
  BY <1>1 DEF TableOf, Tables, First, Kind
<1>5. PICK flag \in BOOLEAN :
        flag = (id0 \in DOMAIN rows["attestations"] /\ rows["attestations"][id0].revoked)
  OBVIOUS
<1> DEFINE row == [attester |-> Event.attester, schema |-> Event.schema,
                   subject |-> Event.subject, revoked |-> flag]
<1>6. Upsert("attestations", id0, row)
  BY <1>3, <1>5 DEF HandleAttestationSubmitted, Has
<1>7. /\ row.attester = Event.attester /\ row.schema = Event.schema
      /\ row.subject = Event.subject /\ row.revoked = flag
  OBVIOUS
<1>8. row \in Attestation
  BY <1>1, <1>2, EventFields DEF Attestation
<1> HIDE DEF row
<1>9. /\ rows'["attestations"][id0] = row /\ id0 \in DOMAIN rows'["attestations"]
      /\ attestations' = attestations /\ log' = log /\ Event' = Event
  <2>1. attestations' = attestations /\ log' = log /\ Event' = Event
    BY <1>1 DEF HandlerStep, chainVars, registryVars, Event
  <2> QED BY <1>2, <1>4, <1>6, <2>1, Writing
<1>10. /\ attestations[id0].attester = Event.attester
       /\ attestations[id0].schema = Event.schema /\ attestations[id0].subject = Event.subject
  BY <1>1, <1>2, <1>3, InHand DEF AttestationSaid
<1>11. AttestationShown(id0)'
  <2>1. Is(Event, SetsRevoked, "attestations", id0)
    BY <1>1, <1>3, <1>4 DEF Is, SetsRevoked
  <2>2. ~Settled(SetsRevoked, "attestations", id0)'
    BY <1>1, <1>2, <2>1, Passing
  <2>3. flag => attestations[id0].revoked
    BY <1>5 DEF IInv, AttestationsShown, AttestationShown
  <2> QED BY <1>7, <1>9, <1>10, <2>2, <2>3 DEF AttestationShown
<1>12. /\ ContractInv' /\ LoopTyped' /\ RowsThere'
       /\ AgentsShown' /\ AttestationsShown' /\ OperatorsShown'
  BY <1>1, <1>3, <1>4, <1>6, <1>8, <1>11, Written
<1>13. CountersRight'
  <2>1. rows'["attestors"] = rows["attestors"]
    BY <1>2, <1>4, <1>6, Writing DEF Tables, Kind
  <2> QED BY <1>1, <2>1, CountersStay
<1>14. PendingRight'
  <2>1. pending' = {attestations[Event.id].attester}
    BY <1>1, <1>3, <1>10
  <2> QED BY <1>1, <1>3, <1>9, <2>1 DEF PendingRight
<1> QED BY <1>12, <1>13, <1>14 DEF IInv

\* A revocation of an attestation sets its flag, then is counted.
LEMMA HandleAttestationRevokedInv ==
  ASSUME IInv, HandleAttestationRevoked, UNCHANGED <<chainVars, log, stored, crashes>>
  PROVE  IInv'
<1>1. /\ HandlerStep /\ at' = at /\ pending' = {rows["attestations"][Event.id].attester}
      /\ Event.type = "AttestationRevoked" /\ at < Len(log)
  BY DEF HandleAttestationRevoked, Handle, HandlerStep, Halfway
<1>2. /\ ContractInv /\ LoopTyped /\ RowsThere /\ DOMAIN rows = Tables
      /\ Event \in ParticipantEvent /\ Event = log[at + 1]
  BY <1>1, Handling
<1>3. PICK id0 : id0 = Event.id
  OBVIOUS
<1>4. /\ TableOf(Event) = "attestations" /\ "attestations" \in Tables /\ Event.type \notin First
      /\ "attestations" \notin Kind
  BY <1>1 DEF TableOf, Tables, First, Kind
<1>5. id0 \in DOMAIN rows["attestations"]
  BY <1>1, <1>2, <1>3, <1>4, HasRow
<1>6. PICK old : old = rows["attestations"][id0]
  OBVIOUS
<1> DEFINE row == [old EXCEPT !.revoked = TRUE]
<1>7. Update("attestations", id0, row)
  BY <1>3, <1>6 DEF HandleAttestationRevoked
<1>8. old \in Attestation
  BY <1>2, <1>5, <1>6 DEF LoopTyped
<1>9. /\ row \in Attestation /\ row.attester = old.attester /\ row.schema = old.schema
      /\ row.subject = old.subject /\ row.revoked = TRUE
  BY <1>8 DEF Attestation
<1> HIDE DEF row
<1>10. /\ rows'["attestations"][id0] = row /\ id0 \in DOMAIN rows'["attestations"]
       /\ attestations' = attestations /\ log' = log /\ Event' = Event
  <2>1. attestations' = attestations /\ log' = log /\ Event' = Event
    BY <1>1 DEF HandlerStep, chainVars, registryVars, Event
  <2> QED BY <1>2, <1>4, <1>5, <1>7, <2>1, Writing
<1>11. AttestationShown(id0)
  BY <1>5 DEF IInv, AttestationsShown
<1>12. AttestationShown(id0)'
  <2>1. Is(Event, SetsRevoked, "attestations", id0)
    BY <1>1, <1>3, <1>4 DEF Is, SetsRevoked
  <2>2. ~Settled(SetsRevoked, "attestations", id0)'
    BY <1>1, <1>2, <2>1, Passing
  <2>3. attestations[id0].revoked
    BY <1>1, <1>2, <1>3, InHand DEF AttestationSaid
  <2> QED BY <1>6, <1>9, <1>10, <1>11, <2>2, <2>3 DEF AttestationShown
<1>13. /\ ContractInv' /\ LoopTyped' /\ RowsThere'
       /\ AgentsShown' /\ AttestationsShown' /\ OperatorsShown'
  BY <1>1, <1>3, <1>4, <1>5, <1>7, <1>9, <1>12, Written
<1>14. CountersRight'
  <2>1. rows'["attestors"] = rows["attestors"]
    BY <1>2, <1>4, <1>5, <1>7, Writing DEF Tables, Kind
  <2> QED BY <1>1, <2>1, CountersStay
<1>15. PendingRight'
  <2>1. pending' = {attestations[Event.id].attester}
    BY <1>1, <1>3, <1>6, <1>11 DEF AttestationShown
  <2> QED BY <1>1, <1>3, <1>9, <1>10, <2>1 DEF PendingRight
<1> QED BY <1>13, <1>14, <1>15 DEF IInv

\* One more position passed adds one position at most.
LEMMA UpToNext ==
  ASSUME NEW S \in SUBSET Nat, IsFiniteSet(S), NEW n \in Nat
  PROVE  /\ n + 1 \in S => Cardinality(UpTo(S, n + 1)) = Cardinality(UpTo(S, n)) + 1
         /\ n + 1 \notin S => Cardinality(UpTo(S, n + 1)) = Cardinality(UpTo(S, n))
<1>1. \A k \in S : k <= n + 1 <=> k <= n \/ k = n + 1
  <2>1. \A k \in S : k \in Nat
    OBVIOUS
  <2> QED BY <2>1
<1>2. IsFiniteSet(UpTo(S, n)) /\ Cardinality(UpTo(S, n)) \in Nat /\ n + 1 \notin UpTo(S, n)
  <2>1. UpTo(S, n) \in SUBSET S /\ n + 1 \notin UpTo(S, n)
    BY DEF UpTo
  <2> QED BY <2>1, FS_Subset, FS_CardinalityType
<1>3. CASE n + 1 \in S
  <2>1. UpTo(S, n + 1) = UpTo(S, n) \cup {n + 1}
    BY <1>1, <1>3 DEF UpTo
  <2> QED BY <1>2, <1>3, <2>1, FS_AddElement
<1>4. CASE n + 1 \notin S
  <2>1. UpTo(S, n + 1) = UpTo(S, n)
    BY <1>1, <1>4 DEF UpTo
  <2> QED BY <1>4, <2>1
<1> QED BY <1>3, <1>4

\* A counter that counts an event of its operator's attestations is right.
LEMMA CountedOnce ==
  ASSUME ContractInv, LoopTyped, HandlerStep, at' = at + 1,
         NEW type, NEW operator, at + 1 \in Attested(type, operator),
         NEW counter \in Nat, Counted(counter, type, operator),
         crashes = 0 => at + 1 \in Due(type, operator)
  PROVE  Counted(counter + 1, type, operator)'
<1> DEFINE A == Attested(type, operator)
           D == Due(type, operator)
<1>1. A' = A /\ D' = D /\ crashes' = crashes /\ crashes \in Nat
  BY DueStays DEF HandlerStep, LoopTyped
<1>2. at \in Nat /\ A \in SUBSET Nat /\ D \in SUBSET Nat
  BY DEF LoopTyped, Due, Attested, ContractInv, ContractTyped
<1>3. /\ IsFiniteSet(A) /\ Cardinality(A) \in Nat /\ IsFiniteSet(D) /\ Cardinality(D) \in Nat
      /\ Cardinality(UpTo(A, at)) \in Nat /\ Cardinality(UpTo(D, at)) \in Nat
  BY Positions DEF ContractInv
<1>4. /\ Cardinality(UpTo(D, at)) <= counter
      /\ crashes = 0 => counter <= Cardinality(UpTo(D, at))
      /\ crashes > 0 => counter + Cardinality(A)
           <= Cardinality(D) + crashes * Cardinality(A) + Cardinality(UpTo(A, at))
  BY DEF Counted
<1>5. at + 1 \in A /\ (crashes = 0 => at + 1 \in D)
  OBVIOUS
<1> HIDE DEF A, D
<1>6. /\ Cardinality(UpTo(A, at + 1)) = Cardinality(UpTo(A, at)) + 1
      /\ \/ Cardinality(UpTo(D, at + 1)) = Cardinality(UpTo(D, at)) + 1
         \/ crashes # 0 /\ Cardinality(UpTo(D, at + 1)) = Cardinality(UpTo(D, at))
  BY <1>2, <1>3, <1>5, UpToNext
<1>7. crashes * Cardinality(A) \in Nat
  BY <1>1, <1>3
<1>8. /\ Cardinality(UpTo(D, at + 1)) <= counter + 1
      /\ crashes = 0 => counter + 1 <= Cardinality(UpTo(D, at + 1))
      /\ crashes > 0 => counter + 1 + Cardinality(A)
           <= Cardinality(D) + crashes * Cardinality(A) + Cardinality(UpTo(A, at + 1))
  <2>1. Cardinality(UpTo(D, at + 1)) <= counter + 1
    BY <1>3, <1>4, <1>6
  <2>2. crashes = 0 => counter + 1 <= Cardinality(UpTo(D, at + 1))
    BY <1>3, <1>4, <1>6
  <2>3. \A a, d, u, m \in Nat : counter + a <= d + m + u => counter + 1 + a <= d + m + (u + 1)
    OBVIOUS
  <2>4. crashes > 0 => counter + 1 + Cardinality(A)
          <= Cardinality(D) + crashes * Cardinality(A) + (Cardinality(UpTo(A, at)) + 1)
    BY <1>3, <1>4, <1>7, <2>3
  <2> QED BY <1>6, <2>1, <2>2, <2>4
<1>9. /\ Cardinality(UpTo(D', at')) <= counter + 1
      /\ crashes' = 0 => counter + 1 <= Cardinality(UpTo(D', at'))
      /\ crashes' > 0 => counter + 1 + Cardinality(A')
           <= Cardinality(D') + crashes' * Cardinality(A') + Cardinality(UpTo(A', at'))
  BY <1>1, <1>8
<1> QED BY <1>9 DEF Counted, A, D, UpTo

\* In the first life of the process an attestation counted for a row is due to it:
\* the row is there because its registration was handled.
LEMMA CountedIsDue ==
  ASSUME IInv, at < Len(log), pending # {}, crashes = 0, NEW type, NEW operator,
         at + 1 \in Attested(type, operator),
         Event.type \in {"AttestationSubmitted", "AttestationRevoked"},
         NEW id \in DOMAIN rows["attestors"], rows["attestors"][id].operator = operator
  PROVE  at + 1 \in Due(type, operator)
<1>1. /\ at \in Nat /\ at + 1 \in DOMAIN log /\ Event = log[at + 1] /\ DOMAIN log = 1..Len(log)
      /\ Len(log) \in Nat
  BY InHand DEF IInv
<1>2. Cardinality(pending) = 1
  <2>1. \E kept : pending = {kept}
    BY DEF IInv, PendingRight
  <2> QED BY <2>1, FS_Singleton
<1>3. "attestors" \in Tables /\ "attestors" \in Kind
  BY DEF Tables, Kind
<1>4. PICK k \in DOMAIN log :
        Is(log[k], First, "attestors", id) /\ (crashes = 0 => k <= at + Cardinality(pending))
  BY <1>3 DEF IInv, RowsThere
<1>5. k <= at + 1 /\ k \in Nat /\ 1 <= k
  BY <1>1, <1>2, <1>4
<1>6. log[k].type = "OperatorRegistered" /\ log[k].kind = "attestors" /\ log[k].id = id
  <2>1. log[k].type \in First /\ TableOf(log[k]) = "attestors" /\ log[k].id = id
    BY <1>4 DEF Is
  <2> QED BY <2>1 DEF First, TableOf
<1>7. log[k].operator = operator
  <2>1. OperatorSaid(k)
    BY DEF IInv, ContractInv, OperatorsSaid
  <2>2. OperatorShown("attestors", id)
    BY <1>3 DEF IInv, OperatorsShown
  <2> QED BY <1>6, <2>1, <2>2 DEF OperatorSaid, OperatorShown
<1>8. k # at + 1
  BY <1>1, <1>6
<1>9. k \in 1..((at + 1) - 1)
  BY <1>1, <1>5, <1>8
<1>10. \E j \in 1..((at + 1) - 1) : /\ log[j].type = "OperatorRegistered"
                                  /\ log[j].kind = "attestors"
                                  /\ log[j].operator = operator
  BY <1>6, <1>7, <1>9
<1> QED BY <1>10 DEF Due

\* The second step of an attestation's handler.
LEMMA CountAttestationInv ==
  ASSUME IInv, CountAttestation, UNCHANGED <<chainVars, log, stored, crashes>>
  PROVE  IInv'
<1>1. /\ HandlerStep /\ at' = at + 1 /\ pending' = {} /\ at < Len(log) /\ pending # {}
      /\ Event.type \in {"AttestationSubmitted", "AttestationRevoked"}
  BY DEF CountAttestation, HandlerStep, Done
<1>2. /\ ContractInv /\ LoopTyped /\ RowsThere /\ DOMAIN rows = Tables
      /\ Event \in ParticipantEvent /\ Event = log[at + 1]
  BY <1>1, Handling
<1>3. PICK id0, attester : id0 = Event.id /\ attester = attestations[Event.id].attester
  OBVIOUS
<1>4. pending = {attester} /\ id0 \in DOMAIN rows["attestations"]
      /\ (Event.type = "AttestationRevoked" => rows["attestations"][id0].revoked)
  BY <1>1, <1>3 DEF IInv, PendingRight
<1>5. /\ "attestors" \in Tables /\ "attestations" \in Tables /\ "attestors" \in Kind
      /\ TableOf(Event) = "attestations"
      /\ \A kind \in Kind : kind \in Tables /\ kind # "attestations" /\ kind # "agents"
  BY <1>1 DEF Tables, Kind, TableOf
<1> DEFINE Row(id) == IF Counts(id, attester) THEN OneMore(rows["attestors"][id])
                      ELSE rows["attestors"][id]
<1>6. rows' = [rows EXCEPT !["attestors"] = [id \in DOMAIN rows["attestors"] |-> Row(id)]]
  BY <1>4 DEF CountAttestation
<1> HIDE DEF Row
<1>7. /\ DOMAIN rows' = Tables /\ \A t \in Tables : t # "attestors" => rows'[t] = rows[t]
      /\ DOMAIN rows'["attestors"] = DOMAIN rows["attestors"]
      /\ \A id \in DOMAIN rows["attestors"] : rows'["attestors"][id] = Row(id)
  BY <1>2, <1>5, <1>6
<1>8. ASSUME NEW id \in DOMAIN rows["attestors"]
      PROVE  /\ Row(id) \in OperatorRows
             /\ Row(id).operator = rows["attestors"][id].operator
             /\ Row(id).active = rows["attestors"][id].active
             /\ Row(id).bond = rows["attestors"][id].bond
             /\ ~Counts(id, attester) => Row(id) = rows["attestors"][id]
             /\ Counts(id, attester) /\ Event.type = "AttestationSubmitted" =>
                  /\ Row(id).attestations = rows["attestors"][id].attestations + 1
                  /\ Row(id).revoked = rows["attestors"][id].revoked
             /\ Counts(id, attester) /\ Event.type = "AttestationRevoked" =>
                  /\ Row(id).attestations = rows["attestors"][id].attestations
                  /\ Row(id).revoked = rows["attestors"][id].revoked + 1
  <2>1. rows["attestors"][id] \in OperatorRows
    BY <1>2, <1>5 DEF LoopTyped
  <2>2. CASE ~Counts(id, attester)
    BY <2>1, <2>2 DEF Row
  <2>3. CASE Counts(id, attester) /\ Event.type = "AttestationSubmitted"
    <3>1. Row(id) = [rows["attestors"][id] EXCEPT !.attestations = @ + 1]
      BY <2>3 DEF Row, OneMore
    <3> QED BY <2>1, <2>3, <3>1 DEF OperatorRows
  <2>4. CASE Counts(id, attester) /\ Event.type = "AttestationRevoked"
    <3>1. Row(id) = [rows["attestors"][id] EXCEPT !.revoked = @ + 1]
      BY <2>4 DEF Row, OneMore
    <3> QED BY <2>1, <2>4, <3>1 DEF OperatorRows
  <2> QED BY <1>1, <2>2, <2>3, <2>4
<1>9. /\ ContractInv' /\ RowsThere'
      /\ at' \in 0..Len(log') /\ stored' \in 0..at' /\ crashes' \in Nat
  <2>1. \A t \in Tables : DOMAIN rows'[t] = DOMAIN rows[t]
    BY <1>7
  <2> QED BY <1>1, <1>3, <1>4, <1>5, <1>7, <2>1, HandlerRows
<1>10. LoopTyped'
  <2>1. \A kind \in Kind : \A id \in DOMAIN rows'[kind] : rows'[kind][id] \in OperatorRows
    BY <1>2, <1>5, <1>7, <1>8 DEF LoopTyped
  <2>2. rows'["agents"] = rows["agents"] /\ rows'["attestations"] = rows["attestations"]
    BY <1>7 DEF Tables
  <2> QED BY <1>2, <1>7, <1>9, <2>1, <2>2 DEF LoopTyped
<1>11. AgentsShown'
  <2>1. rows'["agents"] = rows["agents"] /\ TableOf(Event) # "agents"
    BY <1>5, <1>7 DEF Tables
  <2> QED BY <1>1, <1>2, <2>1, OtherRows DEF IInv, AgentsShown
<1>12. AttestationsShown'
  <2>1. rows'["attestations"] = rows["attestations"] /\ attestations' = attestations
    BY <1>1, <1>5, <1>7 DEF HandlerStep, chainVars, registryVars
  <2> SUFFICES ASSUME NEW id \in DOMAIN rows["attestations"] PROVE AttestationShown(id)'
    BY <2>1 DEF AttestationsShown
  <2>2. AttestationShown(id)
    BY DEF IInv, AttestationsShown
  <2>3. CASE id # id0
    BY <1>1, <1>2, <1>3, <2>1, <2>2, <2>3, OtherRows
  <2>4. CASE id = id0
    <3>1. Settled(SetsRevoked, "attestations", id0)' => LastSets(at + 1, SetsRevoked)
      BY <1>1, <1>2, <1>3, <1>5, Passing
    <3>2. /\ LastSets(at + 1, SetsRevoked) /\ Event.type = "AttestationSubmitted"
             => ~attestations[id0].revoked
          /\ Event.type = "AttestationRevoked" => attestations[id0].revoked
      BY <1>1, <1>2, <1>3, InHand DEF AttestationSaid
    <3>3. attestations[id0].revoked \in BOOLEAN /\ rows["attestations"][id0].revoked \in BOOLEAN
      <4>1. id0 \in AttestationId
        BY <1>1, <1>2, <1>3, EventFields
      <4>2. attestations[id0] \in Attestation /\ rows["attestations"][id0] \in Attestation
        BY <1>2, <1>4, <4>1 DEF ContractInv, ContractTyped, LoopTyped
      <4> QED BY <4>2 DEF Attestation
    <3>4. Settled(SetsRevoked, "attestations", id0)' =>
            rows["attestations"][id0].revoked = attestations[id0].revoked
      BY <1>1, <1>4, <2>2, <2>4, <3>1, <3>2, <3>3 DEF AttestationShown
    <3> QED BY <2>1, <2>2, <2>4, <3>4 DEF AttestationShown
  <2> QED BY <2>3, <2>4
<1>13. OperatorsShown'
  <2> SUFFICES ASSUME NEW kind \in Kind, NEW id \in DOMAIN rows'[kind]
               PROVE  OperatorShown(kind, id)'
    BY DEF OperatorsShown
  <2>1. /\ id \in DOMAIN rows[kind] /\ rows'[kind][id].operator = rows[kind][id].operator
        /\ rows'[kind][id].active = rows[kind][id].active
        /\ rows'[kind][id].bond = rows[kind][id].bond
    <3>1. CASE kind = "attestors"
      BY <1>7, <1>8, <3>1
    <3>2. CASE kind # "attestors"
      BY <1>5, <1>7, <3>2
    <3> QED BY <3>1, <3>2
  <2>2. OperatorShown(kind, id) /\ operators' = operators
    BY <1>1, <2>1 DEF IInv, OperatorsShown, HandlerStep, chainVars
  <2>3. \A types : ~Is(Event, types, kind, id)
    BY <1>5 DEF Is
  <2>4. \A types : Settled(types, kind, id)' => Settled(types, kind, id)
    BY <1>1, <1>2, <2>3, Passing
  <2> QED BY <2>1, <2>2, <2>4 DEF OperatorShown
<1>14. CountersRight'
  <2> SUFFICES ASSUME NEW id \in DOMAIN rows'["attestors"], NEW op, NEW c1, NEW c2,
                      op = rows'["attestors"][id].operator,
                      c1 = rows'["attestors"][id].attestations,
                      c2 = rows'["attestors"][id].revoked
               PROVE  /\ Counted(c1, "AttestationSubmitted", op)'
                      /\ Counted(c2, "AttestationRevoked", op)'
    BY DEF CountersRight
  <2>1. id \in DOMAIN rows["attestors"] /\ op = rows["attestors"][id].operator
    BY <1>7, <1>8
  <2>2. PICK d1, d2 : d1 = rows["attestors"][id].attestations /\ d2 = rows["attestors"][id].revoked
    OBVIOUS
  <2>3. Counted(d1, "AttestationSubmitted", op) /\ Counted(d2, "AttestationRevoked", op)
    BY <2>1, <2>2 DEF IInv, CountersRight
  <2>4. d1 \in Nat /\ d2 \in Nat
    <3>1. rows["attestors"][id] \in OperatorRows
      BY <1>2, <1>5, <2>1 DEF LoopTyped
    <3> QED BY <2>2, <3>1 DEF OperatorRows
  <2>5. \A type : at + 1 \in Attested(type, op) <=> Event.type = type /\ attester = op
    BY <1>1, <1>2, <1>3, InHand DEF Attested
  <2>6. CASE attester # op
    <3>1. c1 = d1 /\ c2 = d2
      BY <1>7, <1>8, <2>1, <2>2, <2>6 DEF Counts
    <3> QED BY <1>1, <1>2, <2>3, <2>5, <2>6, <3>1, CountedStays
  <2>7. CASE attester = op /\ Event.type = "AttestationSubmitted"
    <3>1. c1 = d1 + 1 /\ c2 = d2
      BY <1>7, <1>8, <2>1, <2>2, <2>7 DEF Counts
    <3>2. Counted(c2, "AttestationRevoked", op)'
      BY <1>1, <1>2, <2>3, <2>5, <2>7, <3>1, CountedStays
    <3>3. crashes = 0 => at + 1 \in Due("AttestationSubmitted", op)
      BY <1>1, <2>1, <2>5, <2>7, CountedIsDue
    <3>4. Counted(d1 + 1, "AttestationSubmitted", op)'
      BY <1>1, <1>2, <2>3, <2>4, <2>5, <2>7, <3>3, CountedOnce
    <3> QED BY <3>1, <3>2, <3>4
  <2>8. CASE attester = op /\ Event.type = "AttestationRevoked"
    <3>1. c1 = d1 /\ c2 = d2 + 1
      BY <1>7, <1>8, <2>1, <2>2, <2>8 DEF Counts
    <3>2. Counted(c1, "AttestationSubmitted", op)'
      BY <1>1, <1>2, <2>3, <2>5, <2>8, <3>1, CountedStays
    <3>3. crashes = 0 => at + 1 \in Due("AttestationRevoked", op)
      BY <1>1, <2>1, <2>5, <2>8, CountedIsDue
    <3>4. Counted(d2 + 1, "AttestationRevoked", op)'
      BY <1>1, <1>2, <2>3, <2>4, <2>5, <2>8, <3>3, CountedOnce
    <3> QED BY <3>1, <3>2, <3>4
  <2> QED BY <1>1, <2>6, <2>7, <2>8
<1> QED BY <1>1, <1>9, <1>10, <1>11, <1>12, <1>13, <1>14, DoneInv

----------------------------------------------------------------------------
(* The theorems.                                                           *)

\* Everything is in order at the start.
LEMMA InitInv ==
  ASSUME MirrorInit
  PROVE  IInv
<1>1. /\ agents = << >> /\ operators = [kind \in Kind |-> << >>]
      /\ idByOperator = [kind \in Kind |-> [a \in Address |-> 0]]
      /\ nextAttestationId = 1 /\ attestations = [a \in AttestationId |-> NoAttestation]
      /\ log = << >> /\ rows = [t \in Tables |-> << >>] /\ at = 0 /\ stored = 0
      /\ pending = {} /\ crashes = 0
  BY DEF MirrorInit, RegistryInit, LoopInit, Tables, NoRows
<1>2. \A t \in Tables : DOMAIN rows[t] = {}
  BY <1>1
<1>3. "agents" \in Tables /\ "attestations" \in Tables /\ "attestors" \in Tables
      /\ \A kind \in Kind : kind \in Tables
  BY DEF Tables, Kind
<1>4. DOMAIN log = {} /\ Len(log) = 0
  BY <1>1
<1>5. \A id : ~AttestationExists(id)
  BY <1>1 DEF AttestationExists, NoAttestation
<1>6. ContractTyped
  <2>1. \A id \in AttestationId : ~(id < nextAttestationId)
    BY <1>1 DEF AttestationId
  <2>2. attestations \in [AttestationId -> Attestation]
    BY <1>1 DEF NoAttestation, Attestation
  <2>3. agents \in Seq(Agent) /\ operators \in [Kind -> Seq(Operator)] /\ log \in Seq(ParticipantEvent)
    BY <1>1
  <2> QED BY <1>1, <1>5, <2>1, <2>2, <2>3 DEF ContractTyped
<1>7. Opened
  <2>1. \A table \in Tables : \A id : ~Exists(table, id)
    BY <1>1, <1>5 DEF Exists, Tables, Kind
  <2> QED BY <1>4, <2>1 DEF Opened
<1>8. RegistersOnce /\ AgentsSaid /\ OperatorsSaid /\ AttestationsSaid
  BY <1>4 DEF RegistersOnce, AgentsSaid, OperatorsSaid, AttestationsSaid
<1>9. LoopTyped /\ RowsThere /\ PendingRight
  BY <1>1, <1>2, <1>3, <1>4 DEF LoopTyped, RowsThere, PendingRight
<1>10. AgentsShown /\ AttestationsShown /\ OperatorsShown /\ CountersRight
  BY <1>2, <1>3 DEF AgentsShown, AttestationsShown, OperatorsShown, CountersRight
<1> QED BY <1>6, <1>7, <1>8, <1>9, <1>10 DEF IInv, ContractInv

\* The order is kept: by the contracts, by each handler, by storing and crashing.
LEMMA NextInv ==
  ASSUME IInv, [MirrorNext]_mirrorVars
  PROVE  IInv'
<1>1. CASE Chain
  BY <1>1, ChainInv
<1>2. CASE Handler /\ UNCHANGED <<chainVars, log, stored, crashes>>
  BY <1>2, ReadAgentInv, HandleAgentRegisteredInv, HandleAgentUpdatedInv, HandleAgentRevokedInv,
     HandleOperatorRegisteredInv, HandleOperatorUpdatedInv, HandleSolverBondChangedInv,
     HandleAttestationSubmittedInv, HandleAttestationRevokedInv, CountAttestationInv
     DEF Handler
<1>3. CASE (Store \/ Crash) /\ UNCHANGED chainVars
  BY <1>3, RestartInv
<1>4. CASE UNCHANGED mirrorVars
  <2>1. /\ UNCHANGED <<chainVars, log>> /\ rows' = rows /\ at' = at /\ stored' = stored
        /\ pending' = pending /\ crashes' = crashes
    BY <1>4 DEF mirrorVars, loopVars, database
  <2>2. ContractInv'
    BY <2>1, ContractsStay DEF IInv
  <2>3. \A types, table, id : Settled(types, table, id)' => Settled(types, table, id)
    BY <2>1 DEF Settled
  <2>4. LoopTyped' /\ RowsThere'
    BY <2>1 DEF IInv, LoopTyped, RowsThere
  <2>5. PendingRight'
    BY <2>1 DEF IInv, PendingRight, Event, chainVars, registryVars
  <2>6. AgentsShown' /\ AttestationsShown' /\ OperatorsShown'
    BY <2>1, <2>3, RowStays DEF IInv, AgentsShown, AttestationsShown, OperatorsShown
  <2>7. CountersRight'
    <3>1. /\ rows'["attestors"] = rows["attestors"] /\ at' = at /\ crashes' = crashes
          /\ \A type, operator : /\ Attested(type, operator)' = Attested(type, operator)
                                 /\ Due(type, operator)' = Due(type, operator)
      BY <2>1, DueStays
    <3>2. \A counter, type, operator :
            Counted(counter, type, operator) <=> Counted(counter, type, operator)'
      BY ONLY <3>1 DEF Counted, UpTo
    <3> QED BY ONLY <3>1, <3>2, IInv DEF IInv, CountersRight
  <2> QED BY <2>2, <2>4, <2>5, <2>6, <2>7 DEF IInv
<1> QED BY <1>1, <1>2, <1>3, <1>4 DEF MirrorNext

\* What the log says of the contracts and what the tables show of both stays in
\* order, whatever the contracts are called for, and wherever the loop of the
\* indexer stops, crashes and starts again.
THEOREM AlwaysInOrder == MirrorSpec => []IInv
<1>1. MirrorInit => IInv
  BY InitInv
<1>2. IInv /\ [MirrorNext]_mirrorVars => IInv'
  BY NextInv
<1> QED BY <1>1, <1>2, PTL DEF MirrorSpec

\* A counter that is right for the position the loop has reached is right.
LEMMA CountedPlausible ==
  ASSUME ContractInv, LoopTyped, at = Len(log), NEW type, NEW operator, NEW counter \in Nat,
         Counted(counter, type, operator)
  PROVE  Plausible(counter, type, operator)
<1> DEFINE A == Attested(type, operator)
           D == Due(type, operator)
<1>1. Cardinality(A) \in Nat /\ Cardinality(D) \in Nat /\ crashes \in Nat
  BY Positions DEF ContractInv, LoopTyped
<1>2. UpTo(A, at) = A /\ UpTo(D, at) = D
  <2>1. \A k \in DOMAIN log : k <= at
    BY DEF ContractInv, ContractTyped
  <2> QED BY <2>1 DEF UpTo, A, D, Due, Attested
<1>3. /\ Cardinality(UpTo(D, at)) <= counter
      /\ crashes = 0 => counter <= Cardinality(UpTo(D, at))
      /\ crashes > 0 => counter + Cardinality(A)
           <= Cardinality(D) + crashes * Cardinality(A) + Cardinality(UpTo(A, at))
  BY DEF Counted
<1> HIDE DEF A, D
<1>4. ASSUME NEW a \in Nat, NEW d \in Nat, NEW c \in Nat,
             c = 0 => counter <= d, c > 0 => counter + a <= d + c * a + a
      PROVE  counter <= d + c * a
  <2>1. c * a \in Nat
    OBVIOUS
  <2>2. CASE c = 0
    BY <1>4, <2>1, <2>2
  <2>3. CASE c > 0
    BY <1>4, <2>1, <2>3
  <2> QED BY <2>2, <2>3
<1>5. Cardinality(D) <= counter /\ counter <= Cardinality(D) + crashes * Cardinality(A)
  BY <1>1, <1>2, <1>3, <1>4
<1> QED BY <1>5 DEF Plausible, A, D

\* When the loop has caught up, a table has a row for each record and no other.
LEMMA CaughtUpRows ==
  ASSUME IInv, at = Len(log)
  PROVE  \A table \in Tables : \A id : id \in DOMAIN rows[table] <=> Exists(table, id)
<1> SUFFICES ASSUME NEW table \in Tables, NEW id
             PROVE  id \in DOMAIN rows[table] <=> Exists(table, id)
  OBVIOUS
<1>1. id \in DOMAIN rows[table] => Exists(table, id)
  BY RowsExist DEF IInv, ContractInv
<1>2. ASSUME Exists(table, id) PROVE id \in DOMAIN rows[table]
  <2>1. PICK k \in DOMAIN log : Is(log[k], First, table, id)
    BY <1>2 DEF IInv, ContractInv, Opened
  <2>2. k \in 1..at /\ log[k].type \in First /\ TableOf(log[k]) = table /\ log[k].id = id
    BY <2>1 DEF Is, IInv, ContractInv, ContractTyped
  <2> QED BY <2>2 DEF IInv, RowsThere
<1> QED BY <1>1, <1>2

\* The order of AlwaysInOrder is what TablesAgree asks for.
LEMMA OrderAgrees ==
  ASSUME IInv
  PROVE  TablesAgree
<1> SUFFICES ASSUME at = Len(log)
             PROVE  TablesAgree
  BY DEF TablesAgree
<1>1. ContractInv /\ LoopTyped /\ ContractTyped
  BY DEF IInv, ContractInv
<1>2. \A types, table, id : Settled(types, table, id)
  BY <1>1 DEF Settled, ContractTyped
<1>3. \A table \in Tables : \A id : id \in DOMAIN rows[table] <=> Exists(table, id)
  BY CaughtUpRows
<1>4. /\ "agents" \in Tables /\ "attestations" \in Tables /\ "attestors" \in Kind
      /\ \A kind \in Kind : kind \in Tables /\ kind # "agents" /\ kind # "attestations"
  BY DEF Tables, Kind
<1>5. DOMAIN rows["agents"] = DOMAIN agents
  <2>1. \A id : id \in DOMAIN rows["agents"] <=> id \in DOMAIN agents
    BY <1>3, <1>4 DEF Exists
  <2> QED BY <2>1
<1>6. \A kind \in Kind : DOMAIN rows[kind] = DOMAIN operators[kind]
  <2> SUFFICES ASSUME NEW kind \in Kind PROVE DOMAIN rows[kind] = DOMAIN operators[kind]
    OBVIOUS
  <2>1. \A id : id \in DOMAIN rows[kind] <=> id \in DOMAIN operators[kind]
    BY <1>3, <1>4 DEF Exists
  <2> QED BY <2>1
<1>7. ASSUME NEW id \in DOMAIN agents
      PROVE  rows["agents"][id] =
               [owner |-> agents[id].owner, metadata |-> agents[id].version,
                capabilities |-> agents[id].version, revoked |-> agents[id].revoked]
  <2>1. rows["agents"][id] \in AgentRows
    BY <1>1, <1>5 DEF LoopTyped
  <2>2. AgentShown(id)
    BY <1>5 DEF IInv, AgentsShown
  <2>3. /\ rows["agents"][id].owner = agents[id].owner
        /\ rows["agents"][id].metadata = agents[id].version
        /\ rows["agents"][id].capabilities = agents[id].version
        /\ rows["agents"][id].revoked = agents[id].revoked
    BY <1>2, <2>2 DEF AgentShown
  <2> QED BY <2>1, <2>3 DEF AgentRows
<1>8. ASSUME NEW id \in AttestationId
      PROVE  /\ Has("attestations", id) <=> AttestationExists(id)
             /\ Has("attestations", id) => rows["attestations"][id] = attestations[id]
  <2>1. Has("attestations", id) <=> AttestationExists(id)
    BY <1>3, <1>4 DEF Exists, Has
  <2>2. ASSUME Has("attestations", id) PROVE rows["attestations"][id] = attestations[id]
    <3>1. id \in DOMAIN rows["attestations"]
      BY <2>2 DEF Has
    <3>2. rows["attestations"][id] \in Attestation /\ attestations[id] \in Attestation
      BY <1>1, <3>1 DEF LoopTyped, ContractTyped
    <3>3. AttestationShown(id)
      BY <3>1 DEF IInv, AttestationsShown
    <3>4. /\ rows["attestations"][id].attester = attestations[id].attester
          /\ rows["attestations"][id].schema = attestations[id].schema
          /\ rows["attestations"][id].subject = attestations[id].subject
          /\ rows["attestations"][id].revoked = attestations[id].revoked
      BY <1>2, <3>3 DEF AttestationShown
    <3> QED BY <3>2, <3>4 DEF Attestation
  <2> QED BY <2>1, <2>2
<1>9. ASSUME NEW kind \in Kind, NEW id \in DOMAIN operators[kind]
      PROVE  /\ rows[kind][id].operator = operators[kind][id].operator
             /\ rows[kind][id].active = operators[kind][id].active
             /\ rows[kind][id].bond = operators[kind][id].bond
  <2>1. OperatorShown(kind, id)
    BY <1>6 DEF IInv, OperatorsShown
  <2> QED BY <1>2, <2>1 DEF OperatorShown
<1>10. ASSUME NEW id \in DOMAIN rows["attestors"]
       PROVE  LET row == rows["attestors"][id]
              IN  /\ Plausible(row.attestations, "AttestationSubmitted", row.operator)
                  /\ Plausible(row.revoked, "AttestationRevoked", row.operator)
  <2>1. rows["attestors"][id] \in OperatorRows
    BY <1>1, <1>4 DEF LoopTyped
  <2>2. rows["attestors"][id].attestations \in Nat /\ rows["attestors"][id].revoked \in Nat
    BY <2>1 DEF OperatorRows
  <2>3. /\ Counted(rows["attestors"][id].attestations, "AttestationSubmitted",
                   rows["attestors"][id].operator)
        /\ Counted(rows["attestors"][id].revoked, "AttestationRevoked",
                   rows["attestors"][id].operator)
    BY DEF IInv, CountersRight
  <2> QED BY <1>1, <2>2, <2>3, CountedPlausible
<1> QED BY <1>5, <1>6, <1>7, <1>8, <1>9, <1>10 DEF TablesAgree

\* Once the loop of listener.ts has caught up, the handlers have brought agents,
\* attestations, solvers and attestors to what the registries hold, crashes and
\* replays notwithstanding; only the attestors' counters may be too high, by what
\* a replay counted again.
THEOREM TablesAlwaysAgree == MirrorSpec => []TablesAgree
<1>1. IInv => TablesAgree
  BY OrderAgrees
<1> QED BY <1>1, AlwaysInOrder, PTL

\* A step that writes another table, or keeps the flag of the row it writes, or
\* sets it, brings nothing back that was revoked.
LEMMA WritingKeeps ==
  ASSUME DOMAIN rows = Tables, NEW table \in Tables, NEW id0, NEW row,
         Upsert(table, id0, row) \/ (Update(table, id0, row) /\ id0 \in DOMAIN rows[table]),
         NEW t \in {"agents", "attestations"}, NEW id \in DOMAIN rows[t], rows[t][id].revoked,
         t = table /\ id = id0 => row.revoked
  PROVE  rows'[t][id].revoked
<1>1. t \in Tables
  BY DEF Tables
<1>2. /\ \A tt \in Tables : tt # table => rows'[tt] = rows[tt]
      /\ rows'[table][id0] = row
      /\ \A i \in DOMAIN rows[table] : i # id0 => rows'[table][i] = rows[table][i]
  BY Writing
<1> QED BY <1>1, <1>2

\* No step brings a revoked row back.
LEMMA StepKeepsRevoked ==
  ASSUME IInv, [MirrorNext]_mirrorVars, NEW t \in {"agents", "attestations"}, NEW id \in DOMAIN rows[t],
         rows[t][id].revoked
  PROVE  rows'[t][id].revoked
<1>1. DOMAIN rows = Tables /\ ContractInv /\ LoopTyped /\ RowsThere
  BY DEF IInv, LoopTyped
<1>2. /\ "agents" \in Tables /\ "attestations" \in Tables /\ "solvers" \in Tables
      /\ \A kind \in Kind : kind \in Tables /\ kind # t
      /\ "solvers" # t /\ "attestors" # t
  BY DEF Tables, Kind
<1>3. CASE rows' = rows
  BY <1>3
<1>4. CASE HandleAgentRegistered
  <2>1. at < Len(log) /\ Event.type = "AgentRegistered"
    BY <1>4 DEF HandleAgentRegistered
  <2>2. PICK record \in pending : Upsert("agents", Event.id, AgentRow(record))
    BY <1>4 DEF HandleAgentRegistered
  <2>3. Event.id \in DOMAIN rows["agents"] /\ rows["agents"][Event.id].revoked => record.revoked
    BY <2>1, <2>2 DEF IInv, PendingRight
  <2>4. AgentRow(record).revoked = record.revoked
    BY DEF AgentRow
  <2>5. t = "agents" /\ id = Event.id => AgentRow(record).revoked
    BY <2>3, <2>4
  <2> QED BY <1>1, <1>2, <2>2, <2>5, WritingKeeps
<1>5. CASE HandleAgentUpdated
  <2>1. at < Len(log) /\ Event.type = "AgentUpdated"
    BY <1>5 DEF HandleAgentUpdated, Handle
  <2>2. Event.id \in DOMAIN rows["agents"]
    BY <1>1, <2>1, HasRow DEF TableOf, First
  <2> DEFINE row == [rows["agents"][Event.id] EXCEPT !.metadata = Event.version,
                                                     !.capabilities = Event.version]
  <2>3. Update("agents", Event.id, row)
    BY <1>5 DEF HandleAgentUpdated
  <2>4. row.revoked = rows["agents"][Event.id].revoked
    <3>1. rows["agents"][Event.id] \in AgentRows
      BY <1>1, <2>2 DEF LoopTyped
    <3> QED BY <3>1 DEF AgentRows
  <2> HIDE DEF row
  <2>5. t = "agents" /\ id = Event.id => row.revoked
    BY <2>4
  <2> QED BY <1>1, <1>2, <2>2, <2>3, <2>5, WritingKeeps
<1>6. CASE HandleAgentRevoked
  <2>1. at < Len(log) /\ Event.type = "AgentRevoked"
    BY <1>6 DEF HandleAgentRevoked, Handle
  <2>2. Event.id \in DOMAIN rows["agents"]
    BY <1>1, <2>1, HasRow DEF TableOf, First
  <2> DEFINE row == [rows["agents"][Event.id] EXCEPT !.revoked = TRUE]
  <2>3. Update("agents", Event.id, row)
    BY <1>6 DEF HandleAgentRevoked
  <2>4. row.revoked
    <3>1. rows["agents"][Event.id] \in AgentRows
      BY <1>1, <2>2 DEF LoopTyped
    <3> QED BY <3>1 DEF AgentRows
  <2> HIDE DEF row
  <2> QED BY <1>1, <1>2, <2>2, <2>3, <2>4, WritingKeeps
<1>7. ASSUME NEW kind \in Kind, NEW f, rows' = [rows EXCEPT ![kind] = f]
      PROVE  rows'[t][id].revoked
  BY <1>1, <1>2, <1>7
<1>8. CASE HandleOperatorRegistered \/ HandleOperatorUpdated \/ HandleSolverBondChanged
           \/ CountAttestation
  <2>1. \/ Event.kind \in Kind /\ \E f : rows' = [rows EXCEPT ![Event.kind] = f]
        \/ \E f : rows' = [rows EXCEPT !["solvers"] = f]
        \/ \E f : rows' = [rows EXCEPT !["attestors"] = f]
    <3>1. CASE HandleOperatorRegistered
      <4>1. at < Len(log) /\ Event.type = "OperatorRegistered"
        BY <3>1 DEF HandleOperatorRegistered, Handle
      <4>2. Event.kind \in Kind
        BY <1>1, <4>1, InHand, EventFields
      <4>3. \E row : Upsert(Event.kind, Event.id, row)
        BY <3>1 DEF HandleOperatorRegistered
      <4>4. \E f : rows' = [rows EXCEPT ![Event.kind] = f]
        BY <4>3 DEF Upsert
      <4> QED BY <4>2, <4>4
    <3>2. CASE HandleOperatorUpdated
      <4>1. at < Len(log) /\ Event.type = "OperatorUpdated"
        BY <3>2 DEF HandleOperatorUpdated, Handle
      <4>2. Event.kind \in Kind
        BY <1>1, <4>1, InHand, EventFields
      <4>3. \E row : Update(Event.kind, Event.id, row)
        BY <3>2 DEF HandleOperatorUpdated
      <4>4. \E f : rows' = [rows EXCEPT ![Event.kind] = f]
        BY <4>3 DEF Update
      <4> QED BY <4>2, <4>4
    <3>3. CASE HandleSolverBondChanged
      BY <3>3 DEF HandleSolverBondChanged, Update
    <3>4. CASE CountAttestation
      BY <3>4 DEF CountAttestation
    <3> QED BY <1>8, <3>1, <3>2, <3>3, <3>4
  <2>2. "solvers" \in Kind /\ "attestors" \in Kind
    BY DEF Kind
  <2> QED BY <1>7, <2>1, <2>2
<1>9. CASE HandleAttestationSubmitted
  <2> DEFINE row == [attester |-> Event.attester, schema |-> Event.schema,
                     subject |-> Event.subject,
                     revoked |-> Has("attestations", Event.id)
                                   /\ rows["attestations"][Event.id].revoked]
  <2>1. Upsert("attestations", Event.id, row)
    BY <1>9 DEF HandleAttestationSubmitted
  <2>2. t = "attestations" /\ id = Event.id => row.revoked
    BY DEF Has
  <2> HIDE DEF row
  <2> QED BY <1>1, <1>2, <2>1, <2>2, WritingKeeps
<1>10. CASE HandleAttestationRevoked
  <2>1. at < Len(log) /\ Event.type = "AttestationRevoked"
    BY <1>10 DEF HandleAttestationRevoked, Handle
  <2>2. Event.id \in DOMAIN rows["attestations"]
    BY <1>1, <2>1, HasRow DEF TableOf, First
  <2> DEFINE row == [rows["attestations"][Event.id] EXCEPT !.revoked = TRUE]
  <2>3. Update("attestations", Event.id, row)
    BY <1>10 DEF HandleAttestationRevoked
  <2>4. row.revoked
    <3>1. rows["attestations"][Event.id] \in Attestation
      BY <1>1, <2>2 DEF LoopTyped
    <3> QED BY <3>1 DEF Attestation
  <2> HIDE DEF row
  <2> QED BY <1>1, <1>2, <2>2, <2>3, <2>4, WritingKeeps
<1>11. \/ rows' = rows
       \/ Handler
  <2>1. CASE Chain
    <3>1. PICK e \in ParticipantEvent : Grows(e)
      BY <1>1, <2>1, ChainGrows DEF ContractInv
    <3> QED BY <3>1 DEF Grows, Emit, database
  <2>2. CASE Store \/ Crash
    BY <2>2 DEF Store, Crash
  <2>3. CASE UNCHANGED mirrorVars
    BY <2>3 DEF mirrorVars, loopVars, database
  <2> QED BY <2>1, <2>2, <2>3 DEF MirrorNext
<1>12. ReadAgent => rows' = rows
  BY DEF ReadAgent
<1> QED BY <1>3, <1>4, <1>5, <1>6, <1>8, <1>9, <1>10, <1>11, <1>12 DEF Handler

\* The handlers of agents.ts and attestations.ts never show an agent or an
\* attestation as valid again that they once showed as revoked, although a crash
\* makes the loop handle its registration once more.
THEOREM RevocationsAlwaysStay == MirrorSpec => RevocationsStay
<1>1. IInv /\ [MirrorNext]_mirrorVars =>
        [\A table \in {"agents", "attestations"} : \A id \in DOMAIN rows[table] :
           rows[table][id].revoked => rows'[table][id].revoked]_mirrorVars
  BY StepKeepsRevoked
<1> QED BY <1>1, AlwaysInOrder, PTL DEF MirrorSpec, RevocationsStay
=============================================================================
