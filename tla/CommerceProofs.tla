---------------------------- MODULE CommerceProofs ----------------------------
(***************************************************************************)
(* Proofs about CommerceRegistry, and about its mirror in the indexer, for *)
(* every value of their constants.                                         *)
(***************************************************************************)
EXTENDS CommerceMirror, FiniteSetTheorems, TLAPS

USE CommerceAssumption, CommerceBounds

MerchantRecord == [owner : Address, active : BOOLEAN]
ServiceRecord == [merchantId : Nat, serviceId : ServiceId, active : BOOLEAN]
FacilitatorRecord == [facilitator : Address \cup {ZeroAddress}, active : BOOLEAN]
DisputeRecord == [receiptId : Nat, opener : Address, status : Status,
                  resolutionHash : Hash \cup {ZeroHash}]

\* A function over 1..n with values of S is a sequence over S of length n.
LEMMA FunctionIsSeq ==
  ASSUME NEW S, NEW n \in Nat, NEW f \in [1..n -> S]
  PROVE  f \in Seq(S) /\ Len(f) = n /\ DOMAIN f = 1..n
OBVIOUS

\* A sequence that grew by one element.
LEMMA Longer ==
  ASSUME NEW S, NEW s \in Seq(S), NEW e
  PROVE  /\ DOMAIN Append(s, e) = DOMAIN s \cup {Len(s) + 1} /\ Len(s) + 1 \notin DOMAIN s
         /\ Append(s, e)[Len(s) + 1] = e
         /\ \A k \in DOMAIN s : Append(s, e)[k] = s[k]
OBVIOUS

\* Replacing an element of a sequence by another one of its set.
LEMMA UpdateIsSeq ==
  ASSUME NEW S, NEW s \in Seq(S), NEW i \in DOMAIN s, NEW e \in S
  PROVE  [s EXCEPT ![i] = e] \in Seq(S)
OBVIOUS

\* Where a registration writes: the domain stays an interval and only the
\* registered address is affected.
LEMMA Registration ==
  ASSUME TypeOK, FacilitatorIndexExact, NEW f \in Address \cup {ZeroAddress},
         RegisterFacilitator(f)
  PROVE  LET id == FacilitatorIdFor(f)
         IN  /\ id \in 1..MaxFacilitators
             /\ facilitatorIdByAddress' = [facilitatorIdByAddress EXCEPT ![f] = id]
             /\ DOMAIN facilitatorsById' = DOMAIN facilitatorsById \cup {id}
             /\ \E n \in Nat : DOMAIN facilitatorsById' = 1..n
             /\ facilitatorsById'[id] = [facilitator |-> f, active |-> TRUE]
             /\ \A k \in DOMAIN facilitatorsById \ {id} :
                  facilitatorsById'[k] = facilitatorsById[k]
<1> DEFINE id == FacilitatorIdFor(f)
<1>1. /\ Len(facilitatorsById) \in Nat
      /\ DOMAIN facilitatorsById = 1..Len(facilitatorsById)
      /\ facilitatorIdByAddress[f] \in Nat
  BY DEF TypeOK
<1>2. id <= MaxFacilitators
  BY DEF RegisterFacilitator
<1>3. id \in Nat \ {0} /\ (id \in DOMAIN facilitatorsById \/ id = Len(facilitatorsById) + 1)
  <2>1. CASE facilitatorIdByAddress[f] = 0
    BY <1>1, <2>1 DEF FacilitatorIdFor
  <2>2. CASE facilitatorIdByAddress[f] # 0
    <3>1. f \in DOMAIN facilitatorIdByAddress
      BY DEF TypeOK
    <3> QED BY <1>1, <2>2, <3>1 DEF FacilitatorIdFor, FacilitatorIndexExact
  <2> QED BY <2>1, <2>2
<1>4. facilitatorsById' = [k \in DOMAIN facilitatorsById \cup {id} |->
                             IF k = id THEN [facilitator |-> f, active |-> TRUE]
                             ELSE facilitatorsById[k]]
  BY DEF RegisterFacilitator
<1>5. DOMAIN facilitatorsById' = DOMAIN facilitatorsById \cup {id}
  BY <1>4
<1>6. \E n \in Nat : DOMAIN facilitatorsById' = 1..n
  <2>1. CASE id \in DOMAIN facilitatorsById
    BY <1>1, <1>5, <2>1
  <2>2. CASE id = Len(facilitatorsById) + 1
    BY <1>1, <1>5, <2>2
  <2> QED BY <1>3, <2>1, <2>2
<1>7. id \in 1..MaxFacilitators
  BY <1>2, <1>3
<1>8. facilitatorIdByAddress' = [facilitatorIdByAddress EXCEPT ![f] = id]
  BY DEF RegisterFacilitator
<1>9. /\ facilitatorsById'[id] = [facilitator |-> f, active |-> TRUE]
      /\ \A k \in DOMAIN facilitatorsById \ {id} :
           facilitatorsById'[k] = facilitatorsById[k]
  BY <1>4
<1> QED BY <1>5, <1>6, <1>7, <1>8, <1>9

\* Registering leaves every variable well typed.
LEMMA RegistrationType ==
  ASSUME TypeOK, FacilitatorIndexExact, NEW f \in Address \cup {ZeroAddress},
         RegisterFacilitator(f)
  PROVE  TypeOK'
<1> DEFINE id == FacilitatorIdFor(f)
<1>1. /\ id \in 1..MaxFacilitators
      /\ facilitatorIdByAddress' = [facilitatorIdByAddress EXCEPT ![f] = id]
      /\ DOMAIN facilitatorsById' = DOMAIN facilitatorsById \cup {id}
      /\ facilitatorsById'[id] = [facilitator |-> f, active |-> TRUE]
      /\ \A k \in DOMAIN facilitatorsById \ {id} :
           facilitatorsById'[k] = facilitatorsById[k]
  BY Registration
<1>2. PICK n \in Nat : DOMAIN facilitatorsById' = 1..n
  BY Registration
<1>3. \A k \in 1..n : facilitatorsById'[k] \in FacilitatorRecord
  <2> SUFFICES ASSUME NEW k \in 1..n PROVE facilitatorsById'[k] \in FacilitatorRecord
    OBVIOUS
  <2>1. CASE k = id
    <3>1. [facilitator |-> f, active |-> TRUE] \in FacilitatorRecord
      BY DEF FacilitatorRecord
    <3> QED BY <1>1, <2>1, <3>1
  <2>2. CASE k # id
    <3>1. k \in DOMAIN facilitatorsById
      BY <1>1, <1>2, <2>2
    <3>2. facilitatorsById \in Seq(FacilitatorRecord)
      BY DEF TypeOK, FacilitatorRecord
    <3>3. facilitatorsById[k] \in FacilitatorRecord
      BY <3>1, <3>2
    <3> QED BY <1>1, <2>2, <3>1, <3>3
  <2> QED BY <2>1, <2>2
<1>4. facilitatorsById' = [k \in 1..n |-> facilitatorsById'[k]]
  BY <1>2 DEF RegisterFacilitator
<1>5. facilitatorsById' \in [1..n -> FacilitatorRecord]
  BY <1>3, <1>4
<1>6. facilitatorsById' \in Seq(FacilitatorRecord)
  BY <1>5, FunctionIsSeq
<1>7. DOMAIN facilitatorsById' \subseteq 1..MaxFacilitators
  BY <1>1 DEF TypeOK
<1>8. facilitatorIdByAddress' \in [Address \cup {ZeroAddress} -> Nat]
  BY <1>1 DEF TypeOK
<1>9. UNCHANGED <<now, merchants, services, quotes, receipts, disputes, trustSignals, commits>>
  BY DEF RegisterFacilitator
<1> QED BY <1>6, <1>7, <1>8, <1>9 DEF TypeOK, FacilitatorRecord, Receipt, Status

\* Every step leaves every variable well typed.
LEMMA TypeStep ==
  ASSUME TypeOK, FacilitatorIndexExact, [Next]_vars
  PROVE  TypeOK'
<1> USE DEF Status
<1>1. ASSUME NEW sender \in Address, RegisterMerchant(sender) PROVE TypeOK'
  <2>1. [owner |-> sender, active |-> TRUE] \in MerchantRecord
    BY DEF MerchantRecord
  <2>2. merchants' \in Seq(MerchantRecord)
    BY <1>1, <2>1 DEF RegisterMerchant, TypeOK, MerchantRecord
  <2> QED BY <1>1, <2>2 DEF RegisterMerchant, TypeOK, MerchantRecord, Receipt
<1>2. ASSUME NEW sender \in Address, NEW m \in 1..MaxMerchants, NEW serviceId \in ServiceId,
             RegisterService(sender, m, serviceId)
      PROVE  TypeOK'
  <2>1. [merchantId |-> m, serviceId |-> serviceId, active |-> TRUE] \in ServiceRecord
    BY DEF ServiceRecord
  <2>2. services' \in Seq(ServiceRecord)
    BY <1>2, <2>1 DEF RegisterService, TypeOK, ServiceRecord
  <2> QED BY <1>2, <2>2 DEF RegisterService, TypeOK, ServiceRecord, Receipt
<1>3. ASSUME NEW sender \in Address, NEW m \in 1..MaxMerchants, NEW active \in BOOLEAN,
             UpdateMerchant(sender, m, active)
      PROVE  TypeOK'
  <2>1. merchants \in Seq(MerchantRecord) /\ m \in DOMAIN merchants
    BY <1>3 DEF UpdateMerchant, OwnsMerchant, TypeOK, MerchantRecord
  <2>2. merchants[m] \in MerchantRecord
    BY <2>1
  <2>3. [merchants[m] EXCEPT !.active = active] \in MerchantRecord
    BY <2>2 DEF MerchantRecord
  <2>4. merchants' = [merchants EXCEPT ![m] = [merchants[m] EXCEPT !.active = active]]
    BY <1>3, <2>1 DEF UpdateMerchant
  <2>5. merchants' \in Seq(MerchantRecord)
    BY <2>1, <2>3, <2>4, UpdateIsSeq
  <2> QED BY <1>3, <2>5 DEF UpdateMerchant, TypeOK, MerchantRecord, Receipt
<1>4. ASSUME NEW sender \in Address, NEW s \in 1..MaxServices, NEW active \in BOOLEAN,
             UpdateService(sender, s, active)
      PROVE  TypeOK'
  <2>1. services \in Seq(ServiceRecord) /\ s \in DOMAIN services
    BY <1>4 DEF UpdateService, TypeOK, ServiceRecord
  <2>2. services[s] \in ServiceRecord
    BY <2>1
  <2>3. [services[s] EXCEPT !.active = active] \in ServiceRecord
    BY <2>2 DEF ServiceRecord
  <2>4. services' = [services EXCEPT ![s] = [services[s] EXCEPT !.active = active]]
    BY <1>4, <2>1 DEF UpdateService
  <2>5. services' \in Seq(ServiceRecord)
    BY <2>1, <2>3, <2>4, UpdateIsSeq
  <2> QED BY <1>4, <2>5 DEF UpdateService, TypeOK, ServiceRecord, Receipt
<1>5. ASSUME NEW sender \in Address, NEW f \in 1..MaxFacilitators, NEW active \in BOOLEAN,
             UpdateFacilitator(sender, f, active)
      PROVE  TypeOK'
  <2>1. facilitatorsById \in Seq(FacilitatorRecord) /\ f \in DOMAIN facilitatorsById
    BY <1>5 DEF UpdateFacilitator, TypeOK, FacilitatorRecord
  <2>2. facilitatorsById[f] \in FacilitatorRecord
    BY <2>1
  <2>3. [facilitatorsById[f] EXCEPT !.active = active] \in FacilitatorRecord
    BY <2>2 DEF FacilitatorRecord
  <2>4. facilitatorsById' =
          [facilitatorsById EXCEPT ![f] = [facilitatorsById[f] EXCEPT !.active = active]]
    BY <1>5, <2>1 DEF UpdateFacilitator
  <2>5. facilitatorsById' \in Seq(FacilitatorRecord)
    BY <2>1, <2>3, <2>4, UpdateIsSeq
  <2>6. DOMAIN facilitatorsById' = DOMAIN facilitatorsById
    BY <1>5 DEF UpdateFacilitator
  <2> QED BY <1>5, <2>5, <2>6 DEF UpdateFacilitator, TypeOK, FacilitatorRecord, Receipt
<1>6. ASSUME NEW sender \in Address, NEW c \in Commitments, CommitQuote(sender, c)
      PROVE  TypeOK'
  <2>1. quotes' \in [Commitments -> {"none", "open", "settled"}] /\ commits' \in [Commitments -> Nat]
    <3>1. quotes' \in [Commitments -> {"none", "open", "settled"}]
      BY <1>6 DEF CommitQuote, TypeOK
    <3>2. commits' \in [Commitments -> Nat]
      BY <1>6 DEF CommitQuote, TypeOK
    <3> QED BY <3>1, <3>2
  <2>2. UNCHANGED <<now, merchants, services, facilitatorsById, facilitatorIdByAddress,
                    receipts, disputes, trustSignals>>
    BY <1>6 DEF CommitQuote, directory
  <2> QED BY <2>1, <2>2 DEF TypeOK
<1>7. ASSUME NEW sender \in Address, NEW c \in Commitments, RecordReceipt(sender, c)
      PROVE  TypeOK'
  <2>1. [quote |-> c, fulfillmentHash |-> ZeroHash, recorder |-> sender, time |-> now] \in Receipt
    BY DEF Receipt, TypeOK
  <2>2. receipts' \in Seq(Receipt)
    BY <1>7, <2>1 DEF RecordReceipt, TypeOK
  <2> QED BY <1>7, <2>2 DEF RecordReceipt, Settle, TypeOK, directory
<1>8. ASSUME NEW sender \in Address, NEW r \in 1..MaxReceipts, NEW h \in Hash \cup {ZeroHash},
             RecordFulfillment(sender, r, h)
      PROVE  TypeOK'
  <2>1. receipts \in Seq(Receipt) /\ r \in DOMAIN receipts
    BY <1>8 DEF RecordFulfillment, TypeOK
  <2>2. receipts[r] \in Receipt
    BY <2>1
  <2>3. [receipts[r] EXCEPT !.fulfillmentHash = h] \in Receipt
    BY <2>2 DEF Receipt
  <2>4. receipts' = [receipts EXCEPT ![r] = [receipts[r] EXCEPT !.fulfillmentHash = h]]
    BY <1>8, <2>1 DEF RecordFulfillment
  <2>5. receipts' \in Seq(Receipt)
    BY <2>1, <2>3, <2>4, UpdateIsSeq
  <2> QED BY <1>8, <2>5 DEF RecordFulfillment, TypeOK, directory
<1>9. ASSUME NEW sender \in Address, NEW r \in 1..MaxReceipts, OpenDispute(sender, r)
      PROVE  TypeOK'
  <2>1. [receiptId |-> r, opener |-> sender, status |-> "OPEN", resolutionHash |-> ZeroHash]
          \in DisputeRecord
    BY DEF DisputeRecord
  <2>2. disputes' \in Seq(DisputeRecord)
    BY <1>9, <2>1 DEF OpenDispute, TypeOK, DisputeRecord
  <2> QED BY <1>9, <2>2 DEF OpenDispute, TypeOK, directory, DisputeRecord
<1>10. ASSUME NEW sender \in Address, NEW d \in 1..MaxDisputes, NEW status \in Status,
              NEW h \in Hash \cup {ZeroHash}, ResolveDispute(sender, d, status, h)
       PROVE  TypeOK'
  <2>1. disputes \in Seq(DisputeRecord) /\ d \in DOMAIN disputes
    BY <1>10 DEF ResolveDispute, TypeOK, DisputeRecord
  <2>2. disputes[d] \in DisputeRecord
    BY <2>1
  <2>3. [disputes[d] EXCEPT !.status = status, !.resolutionHash = h] \in DisputeRecord
    BY <2>2 DEF DisputeRecord
  <2>4. disputes' =
          [disputes EXCEPT ![d] = [disputes[d] EXCEPT !.status = status, !.resolutionHash = h]]
    BY <1>10, <2>1 DEF ResolveDispute
  <2>5. disputes' \in Seq(DisputeRecord)
    BY <2>1, <2>3, <2>4, UpdateIsSeq
  <2> QED BY <1>10, <2>5 DEF ResolveDispute, TypeOK, directory, DisputeRecord
<1>11. ASSUME NEW sender \in Address, RecordTrustSignal(sender) PROVE TypeOK'
  <2>1. trustSignals' \in Seq(Address)
    BY <1>11 DEF RecordTrustSignal, TypeOK
  <2> QED BY <1>11, <2>1 DEF RecordTrustSignal, TypeOK, directory
<1>12. ASSUME NEW f \in Address \cup {ZeroAddress}, RegisterFacilitator(f) PROVE TypeOK'
  BY <1>12, RegistrationType
<1>13. CASE Tick
  BY <1>13 DEF Tick, TypeOK, directory, Receipt
<1>14. CASE UNCHANGED vars
  BY <1>14 DEF vars, TypeOK, directory, Receipt
<1> QED BY <1>1, <1>2, <1>3, <1>4, <1>5, <1>6, <1>7, <1>8, <1>9, <1>10, <1>11, <1>12, <1>13,
           <1>14 DEF Next

\* No step breaks the two facilitator mappings apart.
LEMMA IndexStep ==
  ASSUME TypeOK, FacilitatorIndexExact, [Next]_vars
  PROVE  FacilitatorIndexExact'
<1>1. ASSUME NEW f \in Address \cup {ZeroAddress}, RegisterFacilitator(f)
      PROVE  FacilitatorIndexExact'
  <2> DEFINE id == FacilitatorIdFor(f)
  <2>1. /\ facilitatorIdByAddress' = [facilitatorIdByAddress EXCEPT ![f] = id]
        /\ DOMAIN facilitatorsById' = DOMAIN facilitatorsById \cup {id}
        /\ facilitatorsById'[id] = [facilitator |-> f, active |-> TRUE]
        /\ \A k \in DOMAIN facilitatorsById \ {id} :
             facilitatorsById'[k] = facilitatorsById[k]
    BY <1>1, Registration
  <2>2. /\ DOMAIN facilitatorIdByAddress = Address \cup {ZeroAddress}
        /\ facilitatorIdByAddress'[f] = id
        /\ \A a \in Address \cup {ZeroAddress} :
             a # f => facilitatorIdByAddress'[a] = facilitatorIdByAddress[a]
    BY <2>1 DEF TypeOK
  <2>3. \A k \in DOMAIN facilitatorsById :
          facilitatorsById[k].facilitator \in Address \cup {ZeroAddress}
    <3>1. facilitatorsById \in Seq(FacilitatorRecord)
      BY DEF TypeOK, FacilitatorRecord
    <3>2. \A k \in DOMAIN facilitatorsById : facilitatorsById[k] \in FacilitatorRecord
      BY <3>1
    <3> QED BY <3>2 DEF FacilitatorRecord
  <2>4. id \in DOMAIN facilitatorsById => facilitatorsById[id].facilitator = f
    <3>1. Len(facilitatorsById) + 1 \notin DOMAIN facilitatorsById
      BY DEF TypeOK
    <3> QED BY <2>2, <3>1 DEF FacilitatorIdFor, FacilitatorIndexExact
  <2>5. ASSUME NEW a \in Address \cup {ZeroAddress}, facilitatorIdByAddress'[a] # 0
        PROVE  /\ facilitatorIdByAddress'[a] \in DOMAIN facilitatorsById'
               /\ facilitatorsById'[facilitatorIdByAddress'[a]].facilitator = a
    <3>1. CASE a = f
      BY <2>1, <2>2, <3>1
    <3>2. CASE a # f
      <4>1. /\ facilitatorIdByAddress[a] \in DOMAIN facilitatorsById
            /\ facilitatorsById[facilitatorIdByAddress[a]].facilitator = a
        BY <2>2, <2>5, <3>2 DEF FacilitatorIndexExact
      <4>2. facilitatorIdByAddress[a] # id
        BY <2>4, <3>2, <4>1
      <4> QED BY <2>1, <2>2, <3>2, <4>1, <4>2
    <3> QED BY <3>1, <3>2
  <2>6. ASSUME NEW k \in DOMAIN facilitatorsById'
        PROVE  facilitatorIdByAddress'[facilitatorsById'[k].facilitator] = k
    <3>1. CASE k = id
      BY <2>1, <2>2, <3>1
    <3>2. CASE k # id
      <4>1. k \in DOMAIN facilitatorsById /\ facilitatorsById'[k] = facilitatorsById[k]
        BY <2>1, <2>6, <3>2
      <4>2. facilitatorIdByAddress[facilitatorsById[k].facilitator] = k
        BY <4>1 DEF FacilitatorIndexExact
      <4>3. facilitatorsById[k].facilitator # f
        <5>1. CASE facilitatorIdByAddress[f] = 0
          <6>1. k # 0
            BY <4>1 DEF TypeOK
          <6> QED BY <4>2, <5>1, <6>1
        <5>2. CASE facilitatorIdByAddress[f] # 0
          BY <3>2, <4>2, <5>2 DEF FacilitatorIdFor
        <5> QED BY <5>1, <5>2
      <4> QED BY <2>2, <2>3, <4>1, <4>2, <4>3
    <3> QED BY <3>1, <3>2
  <2>7. DOMAIN facilitatorIdByAddress' = Address \cup {ZeroAddress}
    BY <2>1, <2>2
  <2> QED BY <2>5, <2>6, <2>7 DEF FacilitatorIndexExact
<1>2. ASSUME NEW sender \in Address, NEW f \in 1..MaxFacilitators, NEW active \in BOOLEAN,
             UpdateFacilitator(sender, f, active)
      PROVE  FacilitatorIndexExact'
  <2>1. /\ facilitatorIdByAddress' = facilitatorIdByAddress
        /\ DOMAIN facilitatorsById' = DOMAIN facilitatorsById
        /\ \A k \in DOMAIN facilitatorsById :
             facilitatorsById'[k].facilitator = facilitatorsById[k].facilitator
    <3>1. facilitatorsById' = [facilitatorsById EXCEPT ![f] = [@ EXCEPT !.active = active]]
          /\ facilitatorIdByAddress' = facilitatorIdByAddress
      BY <1>2 DEF UpdateFacilitator
    <3>2. \A k \in DOMAIN facilitatorsById :
            facilitatorsById'[k] = IF k = f THEN [facilitatorsById[k] EXCEPT !.active = active]
                                   ELSE facilitatorsById[k]
      BY ONLY <3>1
    <3>3. \A k \in DOMAIN facilitatorsById :
            [facilitatorsById[k] EXCEPT !.active = active].facilitator = facilitatorsById[k].facilitator
      BY DEF TypeOK
    <3>4. DOMAIN facilitatorsById' = DOMAIN facilitatorsById
      BY ONLY <3>1
    <3> QED BY ONLY <3>1, <3>2, <3>3, <3>4
  <2> QED BY <2>1 DEF FacilitatorIndexExact
<1>3. CASE UNCHANGED <<facilitatorsById, facilitatorIdByAddress>>
  BY <1>3 DEF FacilitatorIndexExact
<1> QED BY <1>1, <1>2, <1>3 DEF Next, vars, directory, RegisterMerchant, UpdateMerchant,
           RegisterService, UpdateService, CommitQuote, RecordReceipt, RecordFulfillment,
           OpenDispute, ResolveDispute, RecordTrustSignal, Tick

\* Every variable always holds a value of its type.
THEOREM TypeCorrect == Spec => []TypeOK
<1>1. Init => TypeOK /\ FacilitatorIndexExact
  BY DEF Init, TypeOK, FacilitatorIndexExact
<1>2. TypeOK /\ FacilitatorIndexExact /\ [Next]_vars => (TypeOK /\ FacilitatorIndexExact)'
  BY TypeStep, IndexStep
<1> QED BY <1>1, <1>2, PTL DEF Spec

\* The two facilitator mappings stay inverse to each other, whoever registers
\* whom and in whatever order.
THEOREM FacilitatorIndexAlwaysExact == Spec => []FacilitatorIndexExact
<1>1. Init => TypeOK /\ FacilitatorIndexExact
  BY DEF Init, TypeOK, FacilitatorIndexExact
<1>2. TypeOK /\ FacilitatorIndexExact /\ [Next]_vars => (TypeOK /\ FacilitatorIndexExact)'
  BY TypeStep, IndexStep
<1> QED BY <1>1, <1>2, PTL DEF Spec

----------------------------------------------------------------------------
(* What no step takes back.                                                *)

\* What changes merchants and services.
LEMMA DirectoryKinds ==
  ASSUME [Next]_vars
  PROVE  /\ \/ \E sender \in Address : RegisterMerchant(sender)
            \/ \E sender \in Address, m \in 1..MaxMerchants, active \in BOOLEAN :
                 UpdateMerchant(sender, m, active)
            \/ UNCHANGED merchants
         /\ \/ \E sender \in Address, m \in 1..MaxMerchants, serviceId \in ServiceId :
                 RegisterService(sender, m, serviceId)
            \/ \E sender \in Address, s \in 1..MaxServices, active \in BOOLEAN :
                 UpdateService(sender, s, active)
            \/ UNCHANGED services
<1>1. \/ \E sender \in Address : RegisterMerchant(sender)
      \/ \E sender \in Address, m \in 1..MaxMerchants, active \in BOOLEAN :
           UpdateMerchant(sender, m, active)
      \/ UNCHANGED merchants
  BY DEF Next, vars, directory, RegisterService, UpdateService, UpdateFacilitator, CommitQuote,
         RecordReceipt, RecordFulfillment, OpenDispute, ResolveDispute, RecordTrustSignal,
         RegisterFacilitator, Tick
<1>2. \/ \E sender \in Address, m \in 1..MaxMerchants, serviceId \in ServiceId :
           RegisterService(sender, m, serviceId)
      \/ \E sender \in Address, s \in 1..MaxServices, active \in BOOLEAN :
           UpdateService(sender, s, active)
      \/ UNCHANGED services
  BY DEF Next, vars, directory, RegisterMerchant, UpdateMerchant, UpdateFacilitator, CommitQuote,
         RecordReceipt, RecordFulfillment, OpenDispute, ResolveDispute, RecordTrustSignal,
         RegisterFacilitator, Tick
<1> QED BY <1>1, <1>2

\* Merchants keep their owner, services their merchant and registered addresses
\* their registration.
LEMMA DirectoryPersists ==
  ASSUME TypeOK, FacilitatorIndexExact, [Next]_vars
  PROVE  /\ \A m \in DOMAIN merchants :
              m \in DOMAIN merchants' /\ merchants'[m].owner = merchants[m].owner
         /\ \A s \in DOMAIN services :
              s \in DOMAIN services' /\ services'[s].merchantId = services[s].merchantId
         /\ \A a \in Address \cup {ZeroAddress} :
              facilitatorIdByAddress[a] # 0 => facilitatorIdByAddress'[a] # 0
<1>1. \A m \in DOMAIN merchants :
        m \in DOMAIN merchants' /\ merchants'[m].owner = merchants[m].owner
  <2>1. ASSUME NEW sender \in Address, RegisterMerchant(sender)
        PROVE  \A m \in DOMAIN merchants : m \in DOMAIN merchants' /\ merchants'[m] = merchants[m]
    <3>1. merchants \in Seq([owner : Address, active : BOOLEAN])
      BY DEF TypeOK
    <3>2. merchants' = Append(merchants, [owner |-> sender, active |-> TRUE])
      BY <2>1 DEF RegisterMerchant
    <3> QED BY ONLY <3>1, <3>2, Longer
  <2>2. ASSUME NEW sender \in Address, NEW k \in 1..MaxMerchants, NEW active \in BOOLEAN,
               UpdateMerchant(sender, k, active)
        PROVE  \A m \in DOMAIN merchants :
                 m \in DOMAIN merchants' /\ merchants'[m].owner = merchants[m].owner
    BY <2>2 DEF UpdateMerchant
  <2>3. CASE UNCHANGED merchants
    BY <2>3
  <2> QED BY ONLY <2>1, <2>2, <2>3, DirectoryKinds, [Next]_vars
<1>2. \A s \in DOMAIN services :
        s \in DOMAIN services' /\ services'[s].merchantId = services[s].merchantId
  <2>1. ASSUME NEW sender \in Address, NEW m \in 1..MaxMerchants, NEW serviceId \in ServiceId,
               RegisterService(sender, m, serviceId)
        PROVE  \A s \in DOMAIN services : s \in DOMAIN services' /\ services'[s] = services[s]
    <3>1. services \in Seq([merchantId : Nat, serviceId : ServiceId, active : BOOLEAN])
      BY DEF TypeOK
    <3>2. services' = Append(services, [merchantId |-> m, serviceId |-> serviceId, active |-> TRUE])
      BY <2>1 DEF RegisterService
    <3> QED BY ONLY <3>1, <3>2, Longer
  <2>2. ASSUME NEW sender \in Address, NEW k \in 1..MaxServices, NEW active \in BOOLEAN,
               UpdateService(sender, k, active)
        PROVE  \A s \in DOMAIN services :
                 s \in DOMAIN services' /\ services'[s].merchantId = services[s].merchantId
    BY <2>2 DEF UpdateService
  <2>3. CASE UNCHANGED services
    BY <2>3
  <2> QED BY ONLY <2>1, <2>2, <2>3, DirectoryKinds, [Next]_vars
<1>3. \A a \in Address \cup {ZeroAddress} :
        facilitatorIdByAddress[a] # 0 => facilitatorIdByAddress'[a] # 0
  <2>1. ASSUME NEW f \in Address \cup {ZeroAddress}, RegisterFacilitator(f),
               NEW a \in Address \cup {ZeroAddress}, facilitatorIdByAddress[a] # 0
        PROVE  facilitatorIdByAddress'[a] # 0
    <3>1. /\ FacilitatorIdFor(f) \in 1..MaxFacilitators
          /\ facilitatorIdByAddress' =
               [facilitatorIdByAddress EXCEPT ![f] = FacilitatorIdFor(f)]
      BY <2>1, Registration
    <3>2. FacilitatorIdFor(f) # 0
      BY <3>1
    <3> QED BY <2>1, <3>1, <3>2 DEF TypeOK
  <2>2. CASE UNCHANGED facilitatorIdByAddress
    BY <2>2
  <2>3. \/ \E f \in Address \cup {ZeroAddress} : RegisterFacilitator(f)
        \/ UNCHANGED facilitatorIdByAddress
    BY DEF Next, vars, directory, RegisterMerchant, UpdateMerchant, RegisterService, UpdateService,
           UpdateFacilitator, CommitQuote, RecordReceipt, RecordFulfillment, OpenDispute,
           ResolveDispute, RecordTrustSignal, Tick
  <2> QED BY ONLY <2>1, <2>2, <2>3
<1> QED BY <1>1, <1>2, <1>3

\* What TrailOnlyGrows says of one step.
TrailGrows ==
  /\ \A r \in DOMAIN receipts :
       /\ r \in DOMAIN receipts'
       /\ receipts'[r] = [receipts[r] EXCEPT !.fulfillmentHash = receipts'[r].fulfillmentHash]
  /\ \A d \in DOMAIN disputes :
       /\ d \in DOMAIN disputes'
       /\ disputes'[d].receiptId = disputes[d].receiptId
       /\ disputes'[d].opener = disputes[d].opener
       /\ disputes[d].status # "OPEN" => disputes'[d].status # "OPEN"
  /\ \A k \in DOMAIN trustSignals : k \in DOMAIN trustSignals' /\ trustSignals'[k] = trustSignals[k]

\* A record does not change by having a field set to what it is.
LEMMA SameField ==
  ASSUME NEW x \in Receipt
  PROVE  x = [x EXCEPT !.fulfillmentHash = x.fulfillmentHash]
BY DEF Receipt

\* No step takes a receipt, a dispute or a signal back.
LEMMA TrailStep ==
  ASSUME TypeOK, [Next]_vars
  PROVE  TrailGrows
<1>1. \A r \in DOMAIN receipts :
        /\ r \in DOMAIN receipts'
        /\ receipts'[r] = [receipts[r] EXCEPT !.fulfillmentHash = receipts'[r].fulfillmentHash]
  <2>1. \A r \in DOMAIN receipts : receipts[r] \in Receipt
    BY DEF TypeOK
  <2>2. ASSUME NEW sender \in Address, NEW c \in Commitments, RecordReceipt(sender, c)
        PROVE  \A r \in DOMAIN receipts : r \in DOMAIN receipts' /\ receipts'[r] = receipts[r]
    <3>1. receipts \in Seq(Receipt)
      BY DEF TypeOK
    <3>2. receipts' = Append(receipts, [quote |-> c, fulfillmentHash |-> ZeroHash,
                                        recorder |-> sender, time |-> now])
      BY <2>2 DEF RecordReceipt
    <3> QED BY ONLY <3>1, <3>2, Longer
  <2>3. ASSUME NEW sender \in Address, NEW k \in 1..MaxReceipts, NEW h \in Hash \cup {ZeroHash},
               RecordFulfillment(sender, k, h), NEW r \in DOMAIN receipts
        PROVE  /\ r \in DOMAIN receipts'
               /\ receipts'[r] = [receipts[r] EXCEPT
                                    !.fulfillmentHash = receipts'[r].fulfillmentHash]
    <3>1. receipts' = [receipts EXCEPT ![k] = [receipts[k] EXCEPT !.fulfillmentHash = h]]
      BY <2>3 DEF RecordFulfillment
    <3>2. CASE r = k
      <4>1. receipts'[r] = [receipts[r] EXCEPT !.fulfillmentHash = h]
        BY <3>1, <3>2
      <4>2. receipts'[r].fulfillmentHash = h
        BY <2>1, <4>1 DEF Receipt
      <4> QED BY <3>1, <4>1, <4>2
    <3>3. CASE r # k
      BY <2>1, <3>1, <3>3, SameField
    <3> QED BY <3>2, <3>3
  <2>4. CASE UNCHANGED receipts
    BY <2>1, <2>4, SameField
  <2>5. ASSUME NEW r \in DOMAIN receipts, r \in DOMAIN receipts', receipts'[r] = receipts[r]
        PROVE  receipts'[r] = [receipts[r] EXCEPT !.fulfillmentHash = receipts'[r].fulfillmentHash]
    BY <2>1, <2>5, SameField
  <2>6. \/ \E sender \in Address, c \in Commitments : RecordReceipt(sender, c)
        \/ \E sender \in Address, k \in 1..MaxReceipts, h \in Hash \cup {ZeroHash} :
             RecordFulfillment(sender, k, h)
        \/ UNCHANGED receipts
    BY DEF Next, vars, directory, RegisterMerchant, UpdateMerchant, RegisterService, UpdateService,
           UpdateFacilitator, CommitQuote, OpenDispute, ResolveDispute, RecordTrustSignal,
           RegisterFacilitator, Tick
  <2> QED BY ONLY <2>2, <2>3, <2>4, <2>5, <2>6
<1>2. \A d \in DOMAIN disputes :
        /\ d \in DOMAIN disputes'
        /\ disputes'[d].receiptId = disputes[d].receiptId
        /\ disputes'[d].opener = disputes[d].opener
        /\ disputes[d].status # "OPEN" => disputes'[d].status # "OPEN"
  <2>1. ASSUME NEW sender \in Address, NEW r \in 1..MaxReceipts, OpenDispute(sender, r)
        PROVE  \A d \in DOMAIN disputes : d \in DOMAIN disputes' /\ disputes'[d] = disputes[d]
    <3>1. disputes \in Seq(DisputeRecord)
      BY DEF TypeOK, DisputeRecord
    <3> QED BY <2>1, <3>1 DEF OpenDispute
  <2>2. ASSUME NEW sender \in Address, NEW k \in 1..MaxDisputes, NEW status \in Status,
               NEW h \in Hash \cup {ZeroHash}, ResolveDispute(sender, k, status, h),
               NEW d \in DOMAIN disputes
        PROVE  /\ d \in DOMAIN disputes'
               /\ disputes'[d].receiptId = disputes[d].receiptId
               /\ disputes'[d].opener = disputes[d].opener
               /\ disputes[d].status # "OPEN" => disputes'[d].status # "OPEN"
    <3>1. /\ disputes' = [disputes EXCEPT ![k] = [disputes[k] EXCEPT !.status = status,
                                                                    !.resolutionHash = h]]
          /\ status # "OPEN"
      BY <2>2 DEF ResolveDispute, ResolutionAllowed
    <3>2. \A e \in DOMAIN disputes : disputes[e] \in DisputeRecord
      <4>1. disputes \in Seq(DisputeRecord)
        BY DEF TypeOK, DisputeRecord
      <4> QED BY <4>1
    <3>3. CASE d = k
      <4>1. disputes[d] \in DisputeRecord
        BY <3>2
      <4>2. disputes'[d] = [disputes[d] EXCEPT !.status = status, !.resolutionHash = h]
        BY <3>1, <3>3
      <4>3. d \in DOMAIN disputes'
        BY <3>1
      <4>4. /\ disputes'[d].receiptId = disputes[d].receiptId
            /\ disputes'[d].opener = disputes[d].opener
            /\ disputes'[d].status = status
        BY <4>1, <4>2 DEF DisputeRecord
      <4> QED BY <3>1, <4>3, <4>4
    <3>4. CASE d # k
      BY <3>1, <3>4
    <3> QED BY <3>3, <3>4
  <2>3. CASE UNCHANGED disputes
    BY <2>3
  <2> QED BY <2>1, <2>2, <2>3 DEF Next, vars, directory, RegisterMerchant, UpdateMerchant,
             RegisterService, UpdateService, UpdateFacilitator, CommitQuote, RecordReceipt,
             RecordFulfillment, RecordTrustSignal, RegisterFacilitator, Tick
<1>3. \A k \in DOMAIN trustSignals : k \in DOMAIN trustSignals' /\ trustSignals'[k] = trustSignals[k]
  <2>1. ASSUME NEW sender \in Address, RecordTrustSignal(sender)
        PROVE  \A k \in DOMAIN trustSignals :
                 k \in DOMAIN trustSignals' /\ trustSignals'[k] = trustSignals[k]
    <3>1. trustSignals \in Seq(Address) /\ trustSignals' = Append(trustSignals, sender)
      BY <2>1 DEF RecordTrustSignal, TypeOK
    <3> QED BY ONLY <3>1, Longer
  <2>2. CASE UNCHANGED trustSignals
    BY <2>2
  <2> QED BY <2>1, <2>2 DEF Next, vars, directory, RegisterMerchant, UpdateMerchant,
             RegisterService, UpdateService, UpdateFacilitator, CommitQuote, RecordReceipt,
             RecordFulfillment, OpenDispute, ResolveDispute, RegisterFacilitator, Tick
<1> QED BY <1>1, <1>2, <1>3 DEF TrailGrows

\* The public trail only grows: no step changes a receipt but for its fulfillment
\* hash, changes the sides of a dispute, reopens one, or withdraws a signal.
THEOREM TrailAlwaysGrows == Spec => TrailOnlyGrows
<1>1. Init => TypeOK /\ FacilitatorIndexExact
  BY DEF Init, TypeOK, FacilitatorIndexExact
<1>2. TypeOK /\ FacilitatorIndexExact /\ [Next]_vars => (TypeOK /\ FacilitatorIndexExact)'
  BY TypeStep, IndexStep
<1>3. TypeOK /\ [Next]_vars => [TrailGrows]_vars
  BY TrailStep
<1> QED BY <1>1, <1>2, <1>3, PTL DEF Spec, TrailOnlyGrows, TrailGrows

----------------------------------------------------------------------------
(* The chain of merchants, services, quotes, receipts and disputes.        *)

\* Terms of a committed quote that later steps can only strengthen.
LEMMA ChainStep ==
  ASSUME TypeOK, FacilitatorIndexExact, ChainSound, [Next]_vars
  PROVE  ChainSound'
<1> USE DEF Committed
<1>1. /\ \A m \in DOMAIN merchants : m \in DOMAIN merchants'
      /\ \A s \in DOMAIN services :
           s \in DOMAIN services' /\ services'[s].merchantId = services[s].merchantId
      /\ \A a \in Address \cup {ZeroAddress} :
           facilitatorIdByAddress[a] # 0 => facilitatorIdByAddress'[a] # 0
  BY DirectoryPersists
<1>2. /\ \A r \in DOMAIN receipts : r \in DOMAIN receipts'
      /\ \A d \in DOMAIN disputes : disputes'[d].receiptId = disputes[d].receiptId
  BY TrailStep DEF TrailGrows
<1>3. \A c \in Commitments : c.facilitator \in Address \cup {ZeroAddress}
  BY DEF Commitment
<1>4. ASSUME NEW s \in DOMAIN services' PROVE services'[s].merchantId \in DOMAIN merchants'
  <2>1. CASE s \in DOMAIN services
    BY <1>1, <2>1 DEF ChainSound
  <2>2. CASE s \notin DOMAIN services
    <3>1. ASSUME NEW sender \in Address, NEW m \in 1..MaxMerchants, NEW serviceId \in ServiceId,
                 RegisterService(sender, m, serviceId)
          PROVE  services'[s].merchantId = m /\ m \in DOMAIN merchants
      <4>1. services \in Seq(ServiceRecord)
        BY DEF TypeOK, ServiceRecord
      <4>2. services' = Append(services, [merchantId |-> m, serviceId |-> serviceId,
                                          active |-> TRUE])
        BY <3>1 DEF RegisterService
      <4>3. s = Len(services) + 1
        BY <2>2, <4>1, <4>2
      <4>4. services'[s] = [merchantId |-> m, serviceId |-> serviceId, active |-> TRUE]
        BY <4>1, <4>2, <4>3
      <4> QED BY <3>1, <4>4 DEF RegisterService, OwnsMerchant
    <3>2. \E sender \in Address, m \in 1..MaxMerchants, serviceId \in ServiceId :
            RegisterService(sender, m, serviceId)
      BY <2>2 DEF Next, vars, directory, RegisterMerchant, UpdateMerchant, UpdateService,
         UpdateFacilitator, CommitQuote, RecordReceipt, RecordFulfillment, OpenDispute,
         ResolveDispute, RecordTrustSignal, RegisterFacilitator, Tick
    <3> QED BY <1>1, <3>1, <3>2
  <2> QED BY <2>1, <2>2
<1>5. ASSUME NEW c \in Commitments, Committed(c)'
      PROVE  /\ c.merchantId \in DOMAIN merchants'
             /\ c.serviceNumericId \in DOMAIN services'
             /\ services'[c.serviceNumericId].merchantId = c.merchantId
             /\ ThroughFacilitator(c) =>
                  c.facilitator # ZeroAddress /\ facilitatorIdByAddress'[c.facilitator] # 0
  <2>1. CASE Committed(c)
    BY <1>1, <1>3, <2>1 DEF ChainSound
  <2>2. ASSUME NEW sender \in Address, CommitQuote(sender, c)
        PROVE  /\ c.merchantId \in DOMAIN merchants
               /\ c.serviceNumericId \in DOMAIN services
               /\ services[c.serviceNumericId].merchantId = c.merchantId
               /\ ThroughFacilitator(c) =>
                    c.facilitator # ZeroAddress /\ facilitatorIdByAddress[c.facilitator] # 0
    BY <2>2 DEF CommitQuote, OwnsMerchant, ServiceOf, PaymentRailAllowed, FacilitatorActive
  <2>3. CASE ~Committed(c)
    <3>1. ASSUME NEW sender \in Address, NEW d \in Commitments, CommitQuote(sender, d) PROVE d = c
      BY <1>5, <2>3, <3>1 DEF CommitQuote, TypeOK
    <3>2. ASSUME NEW sender \in Address, NEW d \in Commitments, RecordReceipt(sender, d)
          PROVE  FALSE
      BY <1>5, <2>3, <3>2 DEF RecordReceipt, Settle, TypeOK
    <3>3. \E sender \in Address : CommitQuote(sender, c)
      BY <1>5, <2>3, <3>1, <3>2 DEF Next, vars, directory, RegisterMerchant, UpdateMerchant,
         RegisterService, UpdateService, UpdateFacilitator, RecordFulfillment, OpenDispute,
         ResolveDispute, RecordTrustSignal, RegisterFacilitator, Tick
    <3> QED BY <1>1, <1>3, <2>2, <3>3
  <2> QED BY <2>1, <2>3
<1>6. \A c \in Commitments : Committed(c) => Committed(c)'
  <2>1. ASSUME NEW sender \in Address, NEW d \in Commitments, CommitQuote(sender, d)
        PROVE  \A c \in Commitments : Committed(c) => Committed(c)'
    BY <2>1 DEF CommitQuote, TypeOK
  <2>2. ASSUME NEW sender \in Address, NEW d \in Commitments, RecordReceipt(sender, d)
        PROVE  \A c \in Commitments : Committed(c) => Committed(c)'
    BY <2>2 DEF RecordReceipt, Settle, TypeOK
  <2>3. CASE UNCHANGED quotes
    BY <2>3
  <2> QED BY <2>1, <2>2, <2>3 DEF Next, vars, directory, RegisterMerchant, UpdateMerchant,
             RegisterService, UpdateService, UpdateFacilitator, RecordFulfillment, OpenDispute,
             ResolveDispute, RecordTrustSignal, RegisterFacilitator, Tick
<1>7. ASSUME NEW r \in DOMAIN receipts' PROVE quotes'[receipts'[r].quote] # "none"
  <2>1. \A k \in DOMAIN receipts : receipts[k] \in Receipt
    BY DEF TypeOK
  <2>2. CASE r \in DOMAIN receipts
    <3>1. receipts'[r] = [receipts[r] EXCEPT !.fulfillmentHash = receipts'[r].fulfillmentHash]
      BY <2>2, TrailStep DEF TrailGrows
    <3>2. receipts'[r].quote = receipts[r].quote /\ receipts[r].quote \in Commitments
      BY <2>1, <2>2, <3>1 DEF Receipt
    <3> QED BY <1>6, <2>2, <3>2 DEF ChainSound
  <2>3. CASE r \notin DOMAIN receipts
    <3>1. PICK sender \in Address, c \in Commitments : RecordReceipt(sender, c)
      BY <2>3 DEF Next, vars, directory, RegisterMerchant, UpdateMerchant, RegisterService,
         UpdateService, UpdateFacilitator, CommitQuote, RecordFulfillment, OpenDispute,
         ResolveDispute, RecordTrustSignal, RegisterFacilitator, Tick
    <3>2. receipts' = Append(receipts, [quote |-> c, fulfillmentHash |-> ZeroHash,
                                        recorder |-> sender, time |-> now])
      BY <3>1 DEF RecordReceipt
    <3>3. r = Len(receipts) + 1
      <4>1. receipts \in Seq(Receipt)
        BY DEF TypeOK
      <4> QED BY ONLY <2>3, <3>2, <4>1, r \in DOMAIN receipts', Longer
    <3>4. receipts'[r].quote = c
      BY <3>2, <3>3 DEF TypeOK
    <3> QED BY <3>1, <3>4 DEF RecordReceipt, Settle, TypeOK
  <2> QED BY <2>2, <2>3
<1>8. ASSUME NEW d \in DOMAIN disputes' PROVE disputes'[d].receiptId \in DOMAIN receipts'
  <2>1. CASE d \in DOMAIN disputes
    BY <1>2, <2>1 DEF ChainSound
  <2>2. CASE d \notin DOMAIN disputes
    <3>1. PICK sender \in Address, r \in 1..MaxReceipts : OpenDispute(sender, r)
      BY <2>2 DEF Next, vars, directory, RegisterMerchant, UpdateMerchant, RegisterService,
         UpdateService, UpdateFacilitator, CommitQuote, RecordReceipt, RecordFulfillment,
         ResolveDispute, RecordTrustSignal, RegisterFacilitator, Tick
    <3>2. disputes \in Seq(DisputeRecord)
      BY DEF TypeOK, DisputeRecord
    <3>3. disputes'[d].receiptId = r
      BY <2>2, <3>1, <3>2 DEF OpenDispute
    <3> QED BY <1>2, <3>1, <3>3 DEF OpenDispute
  <2> QED BY <2>1, <2>2
<1> QED BY <1>4, <1>5, <1>7, <1>8 DEF ChainSound

\* Every committed quote names an existing merchant, a service of that merchant and,
\* where its rail needs one, a registered facilitator; every receipt names a
\* committed quote and every dispute an existing receipt.
THEOREM ChainAlwaysSound == Spec => []ChainSound
<1>1. Init => TypeOK /\ FacilitatorIndexExact /\ ChainSound
  BY DEF Init, TypeOK, FacilitatorIndexExact, ChainSound, Committed
<1>2. TypeOK /\ FacilitatorIndexExact /\ ChainSound /\ [Next]_vars
        => (TypeOK /\ FacilitatorIndexExact /\ ChainSound)'
  BY TypeStep, IndexStep, ChainStep
<1> QED BY <1>1, <1>2, PTL DEF Spec

\* Who acted stays entitled to have acted.
LEMMA ActorsStep ==
  ASSUME TypeOK, FacilitatorIndexExact, ChainSound, ActorsAuthorised, [Next]_vars
  PROVE  ActorsAuthorised'
<1>1. \A m \in DOMAIN merchants : merchants'[m].owner = merchants[m].owner
  BY DirectoryPersists
<1>2. \A r \in DOMAIN receipts :
        /\ receipts[r] \in Receipt
        /\ receipts[r].quote \in Commitments
        /\ receipts[r].quote.merchantId \in DOMAIN merchants
  <2>1. \A r \in DOMAIN receipts : receipts[r] \in Receipt
    BY DEF TypeOK
  <2> QED BY <2>1 DEF ChainSound, Receipt
<1>3. \A r \in DOMAIN receipts :
        /\ receipts'[r].quote = receipts[r].quote
        /\ receipts'[r].recorder = receipts[r].recorder
        /\ receipts'[r].time = receipts[r].time
  <2>1. \A r \in DOMAIN receipts :
          receipts'[r] = [receipts[r] EXCEPT !.fulfillmentHash = receipts'[r].fulfillmentHash]
    BY TrailStep DEF TrailGrows
  <2> QED BY <1>2, <2>1 DEF Receipt
<1>4. ASSUME NEW r \in DOMAIN receipts'
      PROVE  /\ receipts'[r].time <= receipts'[r].quote.expiresAt
             /\ receipts'[r].recorder \in
                  IF ThroughFacilitator(receipts'[r].quote) THEN {receipts'[r].quote.facilitator}
                  ELSE {receipts'[r].quote.agent, merchants'[receipts'[r].quote.merchantId].owner}
  <2>1. CASE r \in DOMAIN receipts
    BY <1>1, <1>2, <1>3, <2>1 DEF ActorsAuthorised
  <2>2. CASE r \notin DOMAIN receipts
    <3>1. PICK sender \in Address, c \in Commitments : RecordReceipt(sender, c)
      BY <2>2 DEF Next, vars, directory, RegisterMerchant, UpdateMerchant, RegisterService,
         UpdateService, UpdateFacilitator, CommitQuote, RecordFulfillment, OpenDispute,
         ResolveDispute, RecordTrustSignal, RegisterFacilitator, Tick
    <3>2. receipts' = Append(receipts, [quote |-> c, fulfillmentHash |-> ZeroHash,
                                        recorder |-> sender, time |-> now])
      BY <3>1 DEF RecordReceipt
    <3>3. r = Len(receipts) + 1
      <4>1. receipts \in Seq(Receipt)
        BY DEF TypeOK
      <4> QED BY ONLY <2>2, <3>2, <4>1, r \in DOMAIN receipts', Longer
    <3>4. receipts'[r] = [quote |-> c, fulfillmentHash |-> ZeroHash,
                          recorder |-> sender, time |-> now]
      BY <3>2, <3>3 DEF TypeOK
    <3>5. now <= c.expiresAt /\ CanRecordReceipt(c, sender) /\ merchants' = merchants
      BY <3>1 DEF RecordReceipt, directory
    <3> QED BY <3>4, <3>5 DEF CanRecordReceipt
  <2> QED BY <2>1, <2>2
<1>5. ASSUME NEW d \in DOMAIN disputes'
      PROVE  LET c == receipts'[disputes'[d].receiptId].quote
             IN  disputes'[d].opener \in {c.agent, merchants'[c.merchantId].owner, c.facilitator}
  <2>1. CASE d \in DOMAIN disputes
    <3>1. /\ disputes'[d].receiptId = disputes[d].receiptId
          /\ disputes'[d].opener = disputes[d].opener
      BY <2>1, TrailStep DEF TrailGrows
    <3>2. disputes[d].receiptId \in DOMAIN receipts
      BY <2>1 DEF ChainSound
    <3> DEFINE r == disputes[d].receiptId
    <3>3. LET c == receipts[r].quote
          IN  disputes[d].opener \in {c.agent, merchants[c.merchantId].owner, c.facilitator}
      BY <2>1 DEF ActorsAuthorised
    <3>4. receipts'[r].quote = receipts[r].quote
          /\ merchants'[receipts[r].quote.merchantId].owner = merchants[receipts[r].quote.merchantId].owner
      BY <1>1, <1>2, <1>3, <3>2
    <3> DEFINE q == receipts[r].quote
    <3>5. disputes'[d].opener \in {q.agent, merchants'[q.merchantId].owner, q.facilitator}
      BY ONLY <3>1, <3>3, <3>4
    <3>6. receipts'[disputes'[d].receiptId].quote = q
      BY ONLY <3>1, <3>4
    <3>7. \A x : x = q => disputes'[d].opener \in {x.agent, merchants'[x.merchantId].owner, x.facilitator}
      BY ONLY <3>5
    <3> HIDE DEF q
    <3> QED BY ONLY <3>6, <3>7
  <2>2. CASE d \notin DOMAIN disputes
    <3>1. PICK sender \in Address, r \in 1..MaxReceipts : OpenDispute(sender, r)
      <4>1. \/ \E sender \in Address, r \in 1..MaxReceipts : OpenDispute(sender, r)
            \/ \E sender \in Address, e \in 1..MaxDisputes, status \in Status,
                 h \in Hash \cup {ZeroHash} : ResolveDispute(sender, e, status, h)
            \/ UNCHANGED disputes
        BY DEF Next, vars, directory, RegisterMerchant, UpdateMerchant, RegisterService,
           UpdateService, UpdateFacilitator, CommitQuote, RecordReceipt, RecordFulfillment,
           RecordTrustSignal, RegisterFacilitator, Tick
      <4>2. ASSUME NEW sender \in Address, NEW e \in 1..MaxDisputes, NEW status \in Status,
                   NEW h \in Hash \cup {ZeroHash}, ResolveDispute(sender, e, status, h)
            PROVE  DOMAIN disputes' = DOMAIN disputes
        BY <4>2 DEF ResolveDispute
      <4>3. UNCHANGED disputes => DOMAIN disputes' = DOMAIN disputes
        OBVIOUS
      <4>4. DOMAIN disputes' # DOMAIN disputes
        BY <2>2
      <4> QED BY ONLY <4>1, <4>2, <4>3, <4>4
    <3>2. disputes \in Seq(DisputeRecord)
      BY DEF TypeOK, DisputeRecord
    <3>3. disputes'[d].receiptId = r /\ disputes'[d].opener = sender
      BY <2>2, <3>1, <3>2 DEF OpenDispute
    <3>4. IsParty(receipts[r].quote, sender) /\ UNCHANGED <<receipts, merchants>>
      BY <3>1 DEF OpenDispute, directory
    <3> QED BY <3>3, <3>4 DEF IsParty, MerchantOrFacilitator
  <2> QED BY <2>1, <2>2
<1> QED BY <1>4, <1>5 DEF ActorsAuthorised

\* Every receipt was recorded before its quote expired and by somebody the quote's
\* rail entitles, and every dispute was opened by a party of its receipt.
THEOREM ActorsAlwaysAuthorised == Spec => []ActorsAuthorised
<1>1. Init => TypeOK /\ FacilitatorIndexExact /\ ChainSound /\ ActorsAuthorised
  BY DEF Init, TypeOK, FacilitatorIndexExact, ChainSound, Committed, ActorsAuthorised
<1>2. TypeOK /\ FacilitatorIndexExact /\ ChainSound /\ ActorsAuthorised /\ [Next]_vars
        => (TypeOK /\ FacilitatorIndexExact /\ ChainSound /\ ActorsAuthorised)'
  BY TypeStep, IndexStep, ChainStep, ActorsStep
<1> QED BY <1>1, <1>2, PTL DEF Spec

----------------------------------------------------------------------------
(* Receipts and commitments.                                               *)

\* One more element makes a finite set larger by one at most.
LEMMA AddedElement ==
  ASSUME NEW S, NEW x, IsFiniteSet(S)
  PROVE  Cardinality(S \cup {x}) \in Nat /\ Cardinality(S \cup {x}) <= Cardinality(S) + 1
<1>1. /\ IsFiniteSet(S \cup {x})
      /\ Cardinality(S \cup {x}) = IF x \in S THEN Cardinality(S) ELSE Cardinality(S) + 1
  BY FS_AddElement
<1>2. Cardinality(S) \in Nat
  BY FS_CardinalityType
<1> QED BY <1>1, <1>2

\* The receipts of a quote are finitely many.
LEMMA ReceiptsFinite ==
  ASSUME TypeOK, NEW c
  PROVE  IsFiniteSet(ReceiptsOf(c)) /\ Cardinality(ReceiptsOf(c)) \in Nat
<1>1. DOMAIN receipts = 1..Len(receipts) /\ Len(receipts) \in Nat
  BY DEF TypeOK
<1>2. IsFiniteSet(DOMAIN receipts)
  BY <1>1, FS_Interval
<1>3. ReceiptsOf(c) \subseteq DOMAIN receipts
  BY DEF ReceiptsOf
<1>4. IsFiniteSet(ReceiptsOf(c))
  BY <1>2, <1>3, FS_Subset
<1> QED BY <1>4, FS_CardinalityType

\* Recording a receipt uses up the commitment that was open.
LEMMA CoveredStep ==
  ASSUME TypeOK, ReceiptsCovered, [Next]_vars
  PROVE  ReceiptsCovered'
<1>1. \A r \in DOMAIN receipts : receipts[r] \in Receipt
  BY DEF TypeOK
<1>2. \A c \in Commitments :
        /\ Cardinality(ReceiptsOf(c)) \in Nat
        /\ commits[c] \in Nat
        /\ IsFiniteSet(ReceiptsOf(c))
  BY ReceiptsFinite DEF TypeOK
<1>3. ASSUME NEW sender \in Address, NEW q \in Commitments, CommitQuote(sender, q)
      PROVE  ReceiptsCovered'
  <2>1. \A c \in Commitments : ReceiptsOf(c)' = ReceiptsOf(c)
    BY <1>3 DEF CommitQuote, ReceiptsOf
  <2>2. ASSUME NEW c \in Commitments, c # q
        PROVE  quotes'[c] = quotes[c] /\ commits'[c] = commits[c]
    BY <1>3, <2>2 DEF CommitQuote, TypeOK
  <2>3. quotes'[q] = "open" /\ commits'[q] = commits[q] + 1
    BY <1>3 DEF CommitQuote, TypeOK
  <2>4. Cardinality(ReceiptsOf(q)) <= commits[q]
    BY <1>2 DEF ReceiptsCovered
  <2>5. ASSUME NEW c \in Commitments
        PROVE  Cardinality(ReceiptsOf(c)') + (IF quotes'[c] = "open" THEN 1 ELSE 0) <= commits'[c]
    BY <1>2, <2>1, <2>2, <2>3, <2>4 DEF ReceiptsCovered
  <2> QED BY <2>5 DEF ReceiptsCovered
<1>4. ASSUME NEW sender \in Address, NEW q \in Commitments, RecordReceipt(sender, q)
      PROVE  ReceiptsCovered'
  <2>1. /\ quotes[q] = "open"
        /\ quotes' = [quotes EXCEPT ![q] = "settled"]
        /\ receipts' = Append(receipts, [quote |-> q, fulfillmentHash |-> ZeroHash,
                                         recorder |-> sender, time |-> now])
        /\ commits' = commits
    BY <1>4 DEF RecordReceipt, Settle
  <2>2. /\ DOMAIN receipts' = DOMAIN receipts \cup {Len(receipts) + 1}
        /\ receipts'[Len(receipts) + 1].quote = q
        /\ \A r \in DOMAIN receipts : receipts'[r] = receipts[r]
    <3>1. receipts \in Seq(Receipt)
      BY DEF TypeOK
    <3>2. /\ DOMAIN receipts' = DOMAIN receipts \cup {Len(receipts) + 1}
          /\ receipts'[Len(receipts) + 1] = [quote |-> q, fulfillmentHash |-> ZeroHash,
                                            recorder |-> sender, time |-> now]
          /\ \A r \in DOMAIN receipts : receipts'[r] = receipts[r]
      BY ONLY <2>1, <3>1, Longer
    <3> QED BY ONLY <3>2
  <2>3. ASSUME NEW c \in Commitments, c # q
        PROVE  quotes'[c] = quotes[c] /\ ReceiptsOf(c)' = ReceiptsOf(c)
    <3>1. quotes'[c] = quotes[c]
      BY <2>1, <2>3 DEF TypeOK
    <3>2. ReceiptsOf(c)' = {r \in DOMAIN receipts' : receipts'[r].quote = c}
      BY DEF ReceiptsOf
    <3>3. ReceiptsOf(c)' = ReceiptsOf(c)
      BY <2>2, <2>3, <3>2 DEF ReceiptsOf
    <3> QED BY <3>1, <3>3
  <2>4. ReceiptsOf(q)' = ReceiptsOf(q) \cup {Len(receipts) + 1}
    <3>1. ReceiptsOf(q)' = {r \in DOMAIN receipts' : receipts'[r].quote = q}
      BY DEF ReceiptsOf
    <3> QED BY <2>2, <3>1 DEF ReceiptsOf
  <2>5. /\ Cardinality(ReceiptsOf(q) \cup {Len(receipts) + 1}) \in Nat
        /\ Cardinality(ReceiptsOf(q) \cup {Len(receipts) + 1}) <= Cardinality(ReceiptsOf(q)) + 1
    BY <1>2, AddedElement
  <2>6. /\ Cardinality(ReceiptsOf(q)') \in Nat
        /\ Cardinality(ReceiptsOf(q)') <= Cardinality(ReceiptsOf(q)) + 1
    BY <2>4, <2>5
  <2>7. quotes'[q] = "settled" /\ Cardinality(ReceiptsOf(q)) + 1 <= commits[q]
    BY <2>1 DEF TypeOK, ReceiptsCovered
  <2>8. ASSUME NEW c \in Commitments
        PROVE  Cardinality(ReceiptsOf(c)') + (IF quotes'[c] = "open" THEN 1 ELSE 0) <= commits'[c]
    <3>1. CASE c = q
      BY <1>2, <2>1, <2>6, <2>7, <3>1
    <3>2. CASE c # q
      BY <2>1, <2>3, <3>2 DEF ReceiptsCovered
    <3> QED BY <3>1, <3>2
  <2> QED BY <2>8 DEF ReceiptsCovered
<1>5. ASSUME NEW sender \in Address, NEW k \in 1..MaxReceipts, NEW h \in Hash \cup {ZeroHash},
             RecordFulfillment(sender, k, h)
      PROVE  ReceiptsCovered'
  <2>1. receipts' = [receipts EXCEPT ![k] = [receipts[k] EXCEPT !.fulfillmentHash = h]]
    BY <1>5 DEF RecordFulfillment
  <2>2. \A r \in DOMAIN receipts : receipts'[r].quote = receipts[r].quote
    BY <1>1, <2>1 DEF Receipt
  <2>3. \A c \in Commitments : ReceiptsOf(c)' = ReceiptsOf(c)
    BY <2>1, <2>2 DEF ReceiptsOf
  <2>4. UNCHANGED <<quotes, commits>>
    BY <1>5 DEF RecordFulfillment
  <2> QED BY <2>3, <2>4 DEF ReceiptsCovered
<1>6. CASE UNCHANGED <<quotes, receipts, commits>>
  BY <1>6 DEF ReceiptsCovered, ReceiptsOf
<1> QED BY <1>3, <1>4, <1>5, <1>6 DEF Next, vars, directory, RegisterMerchant, UpdateMerchant,
           RegisterService, UpdateService, UpdateFacilitator, OpenDispute, ResolveDispute,
           RecordTrustSignal, RegisterFacilitator, Tick

\* Each time a merchant commits a quote it pays for one receipt at most.
THEOREM ReceiptsAlwaysCovered == Spec => []ReceiptsCovered
<1>1. Init => TypeOK /\ FacilitatorIndexExact
  BY DEF Init, TypeOK, FacilitatorIndexExact
<1>2. Init => ReceiptsCovered
  <2> SUFFICES ASSUME Init PROVE ReceiptsCovered
    OBVIOUS
  <2>1. \A c \in Commitments : ReceiptsOf(c) = {}
    BY DEF Init, ReceiptsOf
  <2>2. Cardinality({}) = 0
    BY FS_EmptySet
  <2>3. \A c \in Commitments : Cardinality(ReceiptsOf(c)) = 0
    BY <2>1, <2>2
  <2> QED BY <2>3 DEF Init, ReceiptsCovered
<1>3. TypeOK /\ FacilitatorIndexExact /\ ReceiptsCovered /\ [Next]_vars
        => (TypeOK /\ FacilitatorIndexExact /\ ReceiptsCovered)'
  BY TypeStep, IndexStep, CoveredStep
<1> QED BY <1>1, <1>2, <1>3, PTL DEF Spec

----------------------------------------------------------------------------
(* The mirror: the contract beneath it.                                    *)

\* The contract under the mirror: its invariants, and its bounds.
ContractInv ==
  /\ TypeOK /\ FacilitatorIndexExact /\ ChainSound
  /\ DOMAIN merchants \subseteq 1..MaxMerchants
  /\ DOMAIN services \subseteq 1..MaxServices
  /\ DOMAIN receipts \subseteq 1..MaxReceipts
  /\ DOMAIN disputes \subseteq 1..MaxDisputes

\* A call of the contract that emits an event is a step of the contract.
LEMMA ChainIsNext == ContractInv /\ Chain => Next
BY DEF ContractInv, Chain, Next, TypeOK

\* One element more on a sequence that has room for it.
LEMMA OneMore ==
  ASSUME NEW S, NEW s \in Seq(S), NEW e, NEW max \in Nat, DOMAIN s \subseteq 1..max, Len(s) < max
  PROVE  DOMAIN Append(s, e) \subseteq 1..max
<1>1. Append(s, e) \in Seq(S \cup {e}) /\ Len(Append(s, e)) = Len(s) + 1
  OBVIOUS
<1> QED BY <1>1

\* No step of the contract breaks its invariants.
LEMMA ContractStep == ContractInv /\ [Next]_vars => ContractInv'
<1> SUFFICES ASSUME ContractInv, [Next]_vars PROVE ContractInv'
  OBVIOUS
<1>1. TypeOK' /\ FacilitatorIndexExact' /\ ChainSound'
  BY TypeStep, IndexStep, ChainStep DEF ContractInv
<1>2. DOMAIN merchants' \subseteq 1..MaxMerchants
  <2>1. ASSUME NEW sender \in Address, RegisterMerchant(sender) PROVE DOMAIN merchants' \subseteq 1..MaxMerchants
    BY <2>1, OneMore DEF RegisterMerchant, ContractInv, TypeOK
  <2>2. ASSUME NEW sender \in Address, NEW m \in 1..MaxMerchants, NEW active \in BOOLEAN,
               UpdateMerchant(sender, m, active)
        PROVE DOMAIN merchants' \subseteq 1..MaxMerchants
    BY <2>2 DEF UpdateMerchant, ContractInv
  <2>3. CASE UNCHANGED merchants
    BY <2>3 DEF ContractInv
  <2> QED BY ONLY <2>1, <2>2, <2>3, DirectoryKinds, [Next]_vars
<1>3. DOMAIN services' \subseteq 1..MaxServices
  <2>1. ASSUME NEW sender \in Address, NEW m \in 1..MaxMerchants, NEW serviceId \in ServiceId,
               RegisterService(sender, m, serviceId)
        PROVE  DOMAIN services' \subseteq 1..MaxServices
    BY <2>1, OneMore DEF RegisterService, ContractInv, TypeOK
  <2>2. ASSUME NEW sender \in Address, NEW s \in 1..MaxServices, NEW active \in BOOLEAN,
               UpdateService(sender, s, active)
        PROVE  DOMAIN services' \subseteq 1..MaxServices
    BY <2>2 DEF UpdateService, ContractInv
  <2>3. CASE UNCHANGED services
    BY <2>3 DEF ContractInv
  <2> QED BY ONLY <2>1, <2>2, <2>3, DirectoryKinds, [Next]_vars
<1>4. DOMAIN receipts' \subseteq 1..MaxReceipts
  <2>1. ASSUME NEW sender \in Address, NEW c \in Commitments, RecordReceipt(sender, c)
        PROVE  DOMAIN receipts' \subseteq 1..MaxReceipts
    BY <2>1, OneMore DEF RecordReceipt, ContractInv, TypeOK
  <2>2. ASSUME NEW sender \in Address, NEW r \in 1..MaxReceipts, NEW h \in Hash \cup {ZeroHash},
               RecordFulfillment(sender, r, h)
        PROVE  DOMAIN receipts' \subseteq 1..MaxReceipts
    BY <2>2 DEF RecordFulfillment, ContractInv
  <2>3. CASE UNCHANGED receipts
    BY <2>3 DEF ContractInv
  <2> QED BY <2>1, <2>2, <2>3 DEF Next, vars, directory, RegisterMerchant, UpdateMerchant,
             RegisterService, UpdateService, UpdateFacilitator, CommitQuote, OpenDispute,
             ResolveDispute, RecordTrustSignal, RegisterFacilitator, Tick
<1>5. DOMAIN disputes' \subseteq 1..MaxDisputes
  <2>1. ASSUME NEW sender \in Address, NEW r \in 1..MaxReceipts, OpenDispute(sender, r)
        PROVE  DOMAIN disputes' \subseteq 1..MaxDisputes
    BY <2>1, OneMore DEF OpenDispute, ContractInv, TypeOK
  <2>2. ASSUME NEW sender \in Address, NEW d \in 1..MaxDisputes, NEW status \in Status,
               NEW h \in Hash \cup {ZeroHash}, ResolveDispute(sender, d, status, h)
        PROVE  DOMAIN disputes' \subseteq 1..MaxDisputes
    BY <2>2 DEF ResolveDispute, ContractInv
  <2>3. CASE UNCHANGED disputes
    BY <2>3 DEF ContractInv
  <2> QED BY <2>1, <2>2, <2>3 DEF Next, vars, directory, RegisterMerchant, UpdateMerchant,
             RegisterService, UpdateService, UpdateFacilitator, CommitQuote, RecordReceipt,
             RecordFulfillment, RecordTrustSignal, RegisterFacilitator, Tick
<1> QED BY <1>1, <1>2, <1>3, <1>4, <1>5 DEF ContractInv

----------------------------------------------------------------------------
(* What the event of a call says about it.                                 *)

OfMerchant == {"MerchantRegistered", "MerchantUpdated"}
OfService == {"ServiceRegistered", "ServiceUpdated"}
OfFacilitator == {"FacilitatorRegistered", "FacilitatorUpdated"}
OfReceipt == {"ReceiptRecorded", "FulfillmentRecorded"}
OfDispute == {"DisputeOpened", "DisputeResolved"}

About(e, type, id) == e.type = type /\ e.id = id
Touches(e, types, id) == e.type \in types /\ e.id = id

\* The event e tells everything that changes in a step: which records are new,
\* what they are, and which of the old ones have which new value.
MerchantsTold(e) ==
  /\ \A m \in DOMAIN merchants :
       /\ m \in DOMAIN merchants' /\ merchants'[m].owner = merchants[m].owner
       /\ ~Touches(e, OfMerchant, m) => merchants'[m].active = merchants[m].active
  /\ \A m \in DOMAIN merchants' \ DOMAIN merchants : About(e, "MerchantRegistered", m)
  /\ e.type = "MerchantRegistered" =>
       /\ e.id \in DOMAIN merchants' \ DOMAIN merchants
       /\ merchants'[e.id] = [owner |-> e.owner, active |-> TRUE]
  /\ e.type = "MerchantUpdated" => e.id \in DOMAIN merchants /\ merchants'[e.id].active = e.active

ServicesTold(e) ==
  /\ \A s \in DOMAIN services :
       /\ s \in DOMAIN services' /\ services'[s].merchantId = services[s].merchantId
       /\ services'[s].serviceId = services[s].serviceId
       /\ ~Touches(e, OfService, s) => services'[s].active = services[s].active
  /\ \A s \in DOMAIN services' \ DOMAIN services : About(e, "ServiceRegistered", s)
  /\ e.type = "ServiceRegistered" =>
       /\ e.id \in DOMAIN services' \ DOMAIN services
       /\ services'[e.id] = [merchantId |-> e.merchantId, serviceId |-> e.serviceId, active |-> TRUE]
       /\ e.merchantId \in DOMAIN merchants
  /\ e.type = "ServiceUpdated" => e.id \in DOMAIN services /\ services'[e.id].active = e.active

FacilitatorsTold(e) ==
  /\ \A f \in DOMAIN facilitatorsById :
       /\ f \in DOMAIN facilitatorsById'
       /\ facilitatorsById'[f].facilitator = facilitatorsById[f].facilitator
       /\ ~Touches(e, OfFacilitator, f) => facilitatorsById'[f].active = facilitatorsById[f].active
  /\ \A f \in DOMAIN facilitatorsById' \ DOMAIN facilitatorsById : About(e, "FacilitatorRegistered", f)
  /\ e.type = "FacilitatorRegistered" =>
       /\ e.id \in DOMAIN facilitatorsById'
       /\ facilitatorsById'[e.id] = [facilitator |-> e.facilitator, active |-> TRUE]
  /\ e.type = "FacilitatorUpdated" =>
       e.id \in DOMAIN facilitatorsById /\ facilitatorsById'[e.id].active = e.active

QuotesTold(e) ==
  /\ \A c \in Commitments : quotes[c] # "none" => quotes'[c] # "none"
  /\ \A c \in Commitments :
       quotes[c] = "none" /\ quotes'[c] # "none" => e.type = "QuoteCommitted" /\ e.quote = c
  /\ e.type = "QuoteCommitted" =>
       /\ e.quote \in Commitments /\ quotes'[e.quote] # "none"
       /\ e.quote.merchantId \in DOMAIN merchants /\ e.quote.serviceNumericId \in DOMAIN services

ReceiptsTold(e) ==
  /\ \A r \in DOMAIN receipts :
       /\ r \in DOMAIN receipts' /\ receipts'[r].quote = receipts[r].quote
       /\ ~Touches(e, OfReceipt, r) => receipts'[r].fulfillmentHash = receipts[r].fulfillmentHash
  /\ \A r \in DOMAIN receipts' \ DOMAIN receipts : About(e, "ReceiptRecorded", r)
  /\ e.type = "ReceiptRecorded" =>
       /\ e.id \in DOMAIN receipts' \ DOMAIN receipts
       /\ receipts'[e.id].quote = e.quote /\ receipts'[e.id].fulfillmentHash = ZeroHash
       /\ e.quote \in Commitments /\ quotes[e.quote] # "none"
  /\ e.type = "FulfillmentRecorded" =>
       e.id \in DOMAIN receipts /\ receipts'[e.id].fulfillmentHash = e.fulfillmentHash

DisputesTold(e) ==
  /\ \A d \in DOMAIN disputes :
       /\ d \in DOMAIN disputes' /\ disputes'[d].receiptId = disputes[d].receiptId
       /\ disputes'[d].opener = disputes[d].opener
       /\ ~Touches(e, OfDispute, d) => /\ disputes'[d].status = disputes[d].status
                                       /\ disputes'[d].resolutionHash = disputes[d].resolutionHash
  /\ \A d \in DOMAIN disputes' \ DOMAIN disputes : About(e, "DisputeOpened", d)
  /\ e.type = "DisputeOpened" =>
       /\ e.id \in DOMAIN disputes' \ DOMAIN disputes
       /\ disputes'[e.id] = [receiptId |-> e.receiptId, opener |-> e.opener,
                             status |-> "OPEN", resolutionHash |-> ZeroHash]
       /\ e.receiptId \in DOMAIN receipts
  /\ e.type = "DisputeResolved" =>
       /\ e.id \in DOMAIN disputes
       /\ disputes'[e.id].status = e.status /\ disputes'[e.id].resolutionHash = e.resolutionHash

SignalsTold(e) ==
  /\ \A k \in DOMAIN trustSignals : k \in DOMAIN trustSignals' /\ trustSignals'[k] = trustSignals[k]
  /\ \A k \in DOMAIN trustSignals' \ DOMAIN trustSignals : About(e, "TrustSignalRecorded", k)
  /\ e.type = "TrustSignalRecorded" =>
       e.id \in DOMAIN trustSignals' \ DOMAIN trustSignals /\ trustSignals'[e.id] = e.reporter

Told(e) ==
  /\ MerchantsTold(e) /\ ServicesTold(e) /\ FacilitatorsTold(e) /\ QuotesTold(e)
  /\ ReceiptsTold(e) /\ DisputesTold(e) /\ SignalsTold(e)

\* A record kind that a call leaves alone and its event does not mention.
LEMMA NothingTold ==
  ASSUME NEW e
  PROVE  /\ merchants' = merchants /\ e.type \notin OfMerchant => MerchantsTold(e)
         /\ services' = services /\ e.type \notin OfService => ServicesTold(e)
         /\ facilitatorsById' = facilitatorsById /\ e.type \notin OfFacilitator => FacilitatorsTold(e)
         /\ quotes' = quotes /\ e.type # "QuoteCommitted" => QuotesTold(e)
         /\ receipts' = receipts /\ e.type \notin OfReceipt => ReceiptsTold(e)
         /\ disputes' = disputes /\ e.type \notin OfDispute => DisputesTold(e)
         /\ trustSignals' = trustSignals /\ e.type # "TrustSignalRecorded" => SignalsTold(e)
<1> USE DEF OfMerchant, OfService, OfFacilitator, OfReceipt, OfDispute, Touches
<1>1. merchants' = merchants /\ e.type \notin OfMerchant => MerchantsTold(e)
  BY DEF MerchantsTold
<1>2. services' = services /\ e.type \notin OfService => ServicesTold(e)
  BY DEF ServicesTold
<1>3. facilitatorsById' = facilitatorsById /\ e.type \notin OfFacilitator => FacilitatorsTold(e)
  BY DEF FacilitatorsTold
<1>4. quotes' = quotes /\ e.type # "QuoteCommitted" => QuotesTold(e)
  BY DEF QuotesTold
<1>5. receipts' = receipts /\ e.type \notin OfReceipt => ReceiptsTold(e)
  BY DEF ReceiptsTold
<1>6. disputes' = disputes /\ e.type \notin OfDispute => DisputesTold(e)
  BY DEF DisputesTold
<1>7. trustSignals' = trustSignals /\ e.type # "TrustSignalRecorded" => SignalsTold(e)
  BY DEF SignalsTold
<1> QED BY <1>1, <1>2, <1>3, <1>4, <1>5, <1>6, <1>7

\* Every call is told by the event it emits.
LEMMA CallTold ==
  ASSUME ContractInv, Chain
  PROVE  \/ UNCHANGED <<directory, quotes, receipts, disputes, trustSignals, loopVars>>
         \/ \E e : Emit(e) /\ Told(e)
<1> USE DEF OfMerchant, OfService, OfFacilitator, OfReceipt, OfDispute
<1> DEFINE Goal == \E e : Emit(e) /\ Told(e)
<1>1. ASSUME NEW sender \in Address, RegisterMerchant(sender),
             Emit([type |-> "MerchantRegistered", id |-> Len(merchants) + 1, owner |-> sender])
      PROVE  Goal
  <2> DEFINE e == [type |-> "MerchantRegistered", id |-> Len(merchants) + 1, owner |-> sender]
  <2>1. merchants' = Append(merchants, [owner |-> sender, active |-> TRUE])
    BY <1>1 DEF RegisterMerchant
  <2>2. MerchantsTold(e)
    <3>1. merchants \in Seq(MerchantRecord)
      BY DEF ContractInv, TypeOK, MerchantRecord
    <3>2. /\ DOMAIN merchants' = DOMAIN merchants \cup {Len(merchants) + 1} /\ Len(merchants) + 1 \notin DOMAIN merchants
          /\ merchants'[Len(merchants) + 1] = [owner |-> sender, active |-> TRUE]
          /\ \A k \in DOMAIN merchants : merchants'[k] = merchants[k]
      BY <2>1, <3>1, Longer
    <3> QED BY <3>2 DEF MerchantsTold, Touches, About
  <2>3. UNCHANGED <<services, facilitatorsById, quotes, receipts, disputes, trustSignals>>
    BY <1>1 DEF RegisterMerchant
  <2> QED BY <1>1, <2>2, <2>3, NothingTold DEF Told
<1>2. ASSUME NEW sender \in Address, NEW m \in DOMAIN merchants, NEW active \in BOOLEAN,
             UpdateMerchant(sender, m, active),
             Emit([type |-> "MerchantUpdated", id |-> m, active |-> active])
      PROVE  Goal
  <2> DEFINE e == [type |-> "MerchantUpdated", id |-> m, active |-> active]
  <2>1. merchants' = [merchants EXCEPT ![m].active = active]
    BY <1>2 DEF UpdateMerchant
  <2>2. MerchantsTold(e)
    <3>1. merchants[m] \in MerchantRecord
      <4>1. merchants \in Seq(MerchantRecord)
        BY DEF ContractInv, TypeOK, MerchantRecord
      <4> QED BY <4>1
    <3>2. /\ DOMAIN merchants' = DOMAIN merchants
          /\ merchants'[m].active = active
          /\ merchants'[m].owner = merchants[m].owner
          /\ \A k \in DOMAIN merchants \ {m} : merchants'[k] = merchants[k]
      BY <2>1, <3>1 DEF MerchantRecord
    <3> QED BY <3>2 DEF MerchantsTold, Touches, About
  <2>3. UNCHANGED <<services, facilitatorsById, quotes, receipts, disputes, trustSignals>>
    BY <1>2 DEF UpdateMerchant
  <2> QED BY <1>2, <2>2, <2>3, NothingTold DEF Told
<1>3. ASSUME NEW sender \in Address, NEW m \in DOMAIN merchants, NEW sid \in ServiceId,
             RegisterService(sender, m, sid),
             Emit([type |-> "ServiceRegistered", id |-> Len(services) + 1,
                   merchantId |-> m, serviceId |-> sid])
      PROVE  Goal
  <2> DEFINE e == [type |-> "ServiceRegistered", id |-> Len(services) + 1, merchantId |-> m, serviceId |-> sid]
  <2>1. services' = Append(services, [merchantId |-> m, serviceId |-> sid, active |-> TRUE])
    BY <1>3 DEF RegisterService
  <2>2. ServicesTold(e)
    <3>1. services \in Seq(ServiceRecord)
      BY DEF ContractInv, TypeOK, ServiceRecord
    <3>2. /\ DOMAIN services' = DOMAIN services \cup {Len(services) + 1} /\ Len(services) + 1 \notin DOMAIN services
          /\ services'[Len(services) + 1] = [merchantId |-> m, serviceId |-> sid, active |-> TRUE]
          /\ \A k \in DOMAIN services : services'[k] = services[k]
      BY <2>1, <3>1, Longer
    <3> QED BY <3>2 DEF ServicesTold, Touches, About
  <2>3. UNCHANGED <<merchants, facilitatorsById, quotes, receipts, disputes, trustSignals>>
    BY <1>3 DEF RegisterService
  <2> QED BY <1>3, <2>2, <2>3, NothingTold DEF Told
<1>4. ASSUME NEW sender \in Address, NEW s \in DOMAIN services, NEW active \in BOOLEAN,
             UpdateService(sender, s, active),
             Emit([type |-> "ServiceUpdated", id |-> s, active |-> active])
      PROVE  Goal
  <2> DEFINE e == [type |-> "ServiceUpdated", id |-> s, active |-> active]
  <2>1. services' = [services EXCEPT ![s].active = active]
    BY <1>4 DEF UpdateService
  <2>2. ServicesTold(e)
    <3>1. services[s] \in ServiceRecord
      <4>1. services \in Seq(ServiceRecord)
        BY DEF ContractInv, TypeOK, ServiceRecord
      <4> QED BY <4>1
    <3>2. /\ DOMAIN services' = DOMAIN services
          /\ services'[s].active = active
          /\ services'[s].merchantId = services[s].merchantId /\ services'[s].serviceId = services[s].serviceId
          /\ \A k \in DOMAIN services \ {s} : services'[k] = services[k]
      BY <2>1, <3>1 DEF ServiceRecord
    <3> QED BY <3>2 DEF ServicesTold, Touches, About
  <2>3. UNCHANGED <<merchants, facilitatorsById, quotes, receipts, disputes, trustSignals>>
    BY <1>4 DEF UpdateService
  <2> QED BY <1>4, <2>2, <2>3, NothingTold DEF Told
<1>5. ASSUME NEW sender \in Address, NEW f \in DOMAIN facilitatorsById, NEW active \in BOOLEAN,
             UpdateFacilitator(sender, f, active),
             Emit([type |-> "FacilitatorUpdated", id |-> f, facilitator |-> sender, active |-> active])
      PROVE  Goal
  <2> DEFINE e == [type |-> "FacilitatorUpdated", id |-> f, facilitator |-> sender, active |-> active]
  <2>1. facilitatorsById' = [facilitatorsById EXCEPT ![f].active = active]
    BY <1>5 DEF UpdateFacilitator
  <2>2. FacilitatorsTold(e)
    <3>1. facilitatorsById[f] \in FacilitatorRecord
      <4>1. facilitatorsById \in Seq(FacilitatorRecord)
        BY DEF ContractInv, TypeOK, FacilitatorRecord
      <4> QED BY <4>1
    <3>2. /\ DOMAIN facilitatorsById' = DOMAIN facilitatorsById
          /\ facilitatorsById'[f].active = active
          /\ facilitatorsById'[f].facilitator = facilitatorsById[f].facilitator
          /\ \A k \in DOMAIN facilitatorsById \ {f} : facilitatorsById'[k] = facilitatorsById[k]
      BY <2>1, <3>1 DEF FacilitatorRecord
    <3> QED BY <3>2 DEF FacilitatorsTold, Touches, About
  <2>3. UNCHANGED <<merchants, services, quotes, receipts, disputes, trustSignals>>
    BY <1>5 DEF UpdateFacilitator
  <2> QED BY <1>5, <2>2, <2>3, NothingTold DEF Told
<1>6. ASSUME NEW sender \in Address, NEW c \in Commitments, CommitQuote(sender, c),
             Emit([type |-> "QuoteCommitted", quote |-> c])
      PROVE  Goal
  <2> DEFINE e == [type |-> "QuoteCommitted", quote |-> c]
  <2>1. /\ quotes' = [quotes EXCEPT ![c] = "open"]
        /\ c.merchantId \in DOMAIN merchants /\ c.serviceNumericId \in DOMAIN services
    BY <1>6 DEF CommitQuote, OwnsMerchant, ServiceOf
  <2>2. QuotesTold(e)
    BY <2>1 DEF ContractInv, TypeOK, QuotesTold
  <2>3. UNCHANGED <<merchants, services, facilitatorsById, receipts, disputes, trustSignals>>
    BY <1>6 DEF CommitQuote, directory
  <2> QED BY <1>6, <2>2, <2>3, NothingTold DEF Told
<1>7. ASSUME NEW sender \in Address, NEW c \in Commitments, RecordReceipt(sender, c),
             Emit([type |-> "ReceiptRecorded", id |-> Len(receipts) + 1, quote |-> c])
      PROVE  Goal
  <2> DEFINE e == [type |-> "ReceiptRecorded", id |-> Len(receipts) + 1, quote |-> c]
  <2>1. /\ quotes' = [quotes EXCEPT ![c] = "settled"] /\ quotes[c] = "open"
        /\ receipts' = Append(receipts, [quote |-> c, fulfillmentHash |-> ZeroHash,
                                         recorder |-> sender, time |-> now])
    BY <1>7 DEF RecordReceipt, Settle
  <2>2. QuotesTold(e)
    BY <2>1 DEF ContractInv, TypeOK, QuotesTold
  <2>3. ReceiptsTold(e)
    <3>1. receipts \in Seq(Receipt)
      BY DEF ContractInv, TypeOK
    <3>2. /\ DOMAIN receipts' = DOMAIN receipts \cup {Len(receipts) + 1} /\ Len(receipts) + 1 \notin DOMAIN receipts
          /\ receipts'[Len(receipts) + 1] = [quote |-> c, fulfillmentHash |-> ZeroHash, recorder |-> sender, time |-> now]
          /\ \A k \in DOMAIN receipts : receipts'[k] = receipts[k]
      BY <2>1, <3>1, Longer
    <3>3. \A k \in DOMAIN receipts :
            /\ k \in DOMAIN receipts' /\ receipts'[k].quote = receipts[k].quote
            /\ receipts'[k].fulfillmentHash = receipts[k].fulfillmentHash
      BY ONLY <3>2
    <3>4. \A k \in DOMAIN receipts' \ DOMAIN receipts : k = e.id
      BY ONLY <3>2
    <3>5. /\ e.id \in DOMAIN receipts' \ DOMAIN receipts
          /\ receipts'[e.id].quote = e.quote /\ receipts'[e.id].fulfillmentHash = ZeroHash
      BY ONLY <3>2
    <3>6. e.type = "ReceiptRecorded" /\ e.quote \in Commitments /\ quotes[e.quote] # "none"
      BY <2>1
    <3> HIDE DEF e
    <3> QED BY <3>3, <3>4, <3>5, <3>6 DEF ReceiptsTold, About
  <2>4. UNCHANGED <<merchants, services, facilitatorsById, disputes, trustSignals>>
    BY <1>7 DEF RecordReceipt, directory
  <2> QED BY <1>7, <2>2, <2>3, <2>4, NothingTold DEF Told
<1>8. ASSUME NEW sender \in Address, NEW r \in DOMAIN receipts, NEW h \in Hash \cup {ZeroHash},
             RecordFulfillment(sender, r, h),
             Emit([type |-> "FulfillmentRecorded", id |-> r, fulfillmentHash |-> h])
      PROVE  Goal
  <2> DEFINE e == [type |-> "FulfillmentRecorded", id |-> r, fulfillmentHash |-> h]
  <2>1. receipts' = [receipts EXCEPT ![r].fulfillmentHash = h]
    BY <1>8 DEF RecordFulfillment
  <2>2. ReceiptsTold(e)
    <3>1. receipts[r] \in Receipt
      BY DEF ContractInv, TypeOK
    <3>2. /\ DOMAIN receipts' = DOMAIN receipts
          /\ receipts'[r].fulfillmentHash = h
          /\ receipts'[r].quote = receipts[r].quote
          /\ \A k \in DOMAIN receipts \ {r} : receipts'[k] = receipts[k]
      BY <2>1, <3>1 DEF Receipt
    <3> QED BY <3>2 DEF ReceiptsTold, Touches, About
  <2>3. UNCHANGED <<merchants, services, facilitatorsById, quotes, disputes, trustSignals>>
    BY <1>8 DEF RecordFulfillment, directory
  <2> QED BY <1>8, <2>2, <2>3, NothingTold DEF Told
<1>9. ASSUME NEW sender \in Address, NEW r \in DOMAIN receipts, OpenDispute(sender, r),
             Emit([type |-> "DisputeOpened", id |-> Len(disputes) + 1, receiptId |-> r, opener |-> sender])
      PROVE  Goal
  <2> DEFINE e == [type |-> "DisputeOpened", id |-> Len(disputes) + 1, receiptId |-> r, opener |-> sender]
  <2>1. disputes' = Append(disputes, [receiptId |-> r, opener |-> sender,
                                      status |-> "OPEN", resolutionHash |-> ZeroHash])
    BY <1>9 DEF OpenDispute
  <2>2. DisputesTold(e)
    <3>1. disputes \in Seq(DisputeRecord)
      BY DEF ContractInv, TypeOK, DisputeRecord
    <3>2. /\ DOMAIN disputes' = DOMAIN disputes \cup {Len(disputes) + 1} /\ Len(disputes) + 1 \notin DOMAIN disputes
          /\ disputes'[Len(disputes) + 1] = [receiptId |-> r, opener |-> sender, status |-> "OPEN", resolutionHash |-> ZeroHash]
          /\ \A k \in DOMAIN disputes : disputes'[k] = disputes[k]
      BY <2>1, <3>1, Longer
    <3> QED BY <3>2 DEF DisputesTold, Touches, About
  <2>3. UNCHANGED <<merchants, services, facilitatorsById, quotes, receipts, trustSignals>>
    BY <1>9 DEF OpenDispute, directory
  <2> QED BY <1>9, <2>2, <2>3, NothingTold DEF Told
<1>10. ASSUME NEW sender \in Address, NEW d \in DOMAIN disputes, NEW status \in Status, NEW h \in Hash,
              ResolveDispute(sender, d, status, h),
              Emit([type |-> "DisputeResolved", id |-> d, status |-> status, resolutionHash |-> h])
       PROVE  Goal
  <2> DEFINE e == [type |-> "DisputeResolved", id |-> d, status |-> status, resolutionHash |-> h]
  <2>1. disputes' = [disputes EXCEPT ![d].status = status, ![d].resolutionHash = h]
    BY <1>10 DEF ResolveDispute
  <2>2. DisputesTold(e)
    <3>1. disputes[d] \in DisputeRecord
      <4>1. disputes \in Seq(DisputeRecord)
        BY DEF ContractInv, TypeOK, DisputeRecord
      <4> QED BY <4>1
    <3>2. /\ DOMAIN disputes' = DOMAIN disputes
          /\ disputes'[d].status = status /\ disputes'[d].resolutionHash = h
          /\ disputes'[d].receiptId = disputes[d].receiptId /\ disputes'[d].opener = disputes[d].opener
          /\ \A k \in DOMAIN disputes \ {d} : disputes'[k] = disputes[k]
      BY <2>1, <3>1 DEF DisputeRecord
    <3> QED BY <3>2 DEF DisputesTold, Touches, About
  <2>3. UNCHANGED <<merchants, services, facilitatorsById, quotes, receipts, trustSignals>>
    BY <1>10 DEF ResolveDispute, directory
  <2> QED BY <1>10, <2>2, <2>3, NothingTold DEF Told
<1>11. ASSUME NEW sender \in Address, RecordTrustSignal(sender),
              Emit([type |-> "TrustSignalRecorded", id |-> Len(trustSignals) + 1, reporter |-> sender])
       PROVE  Goal
  <2> DEFINE e == [type |-> "TrustSignalRecorded", id |-> Len(trustSignals) + 1, reporter |-> sender]
  <2>1. trustSignals' = Append(trustSignals, sender)
    BY <1>11 DEF RecordTrustSignal
  <2>2. SignalsTold(e)
    <3>1. trustSignals \in Seq(Address)
      BY DEF ContractInv, TypeOK
    <3>2. /\ DOMAIN trustSignals' = DOMAIN trustSignals \cup {Len(trustSignals) + 1} /\ Len(trustSignals) + 1 \notin DOMAIN trustSignals
          /\ trustSignals'[Len(trustSignals) + 1] = sender
          /\ \A k \in DOMAIN trustSignals : trustSignals'[k] = trustSignals[k]
      BY <2>1, <3>1, Longer
    <3> QED BY <3>2 DEF SignalsTold, About
  <2>3. UNCHANGED <<merchants, services, facilitatorsById, quotes, receipts, disputes>>
    BY <1>11 DEF RecordTrustSignal, directory
  <2> QED BY <1>11, <2>2, <2>3, NothingTold DEF Told
<1>12. ASSUME NEW f \in Address \cup {ZeroAddress}, RegisterFacilitator(f),
              Emit([type |-> "FacilitatorRegistered", id |-> FacilitatorIdFor(f), facilitator |-> f])
       PROVE  Goal
  <2> DEFINE id == FacilitatorIdFor(f)
             e == [type |-> "FacilitatorRegistered", id |-> id, facilitator |-> f]
  <2>1. /\ DOMAIN facilitatorsById' = DOMAIN facilitatorsById \cup {id}
        /\ facilitatorsById'[id] = [facilitator |-> f, active |-> TRUE]
        /\ \A k \in DOMAIN facilitatorsById \ {id} : facilitatorsById'[k] = facilitatorsById[k]
    BY <1>12, Registration DEF ContractInv
  <2>2. id \in DOMAIN facilitatorsById => facilitatorsById[id].facilitator = f
    <3>1. facilitatorIdByAddress[f] = 0 => id \notin DOMAIN facilitatorsById
      BY DEF FacilitatorIdFor, ContractInv, TypeOK
    <3>2. f \in DOMAIN facilitatorIdByAddress
      BY DEF ContractInv, TypeOK
    <3> QED BY <3>1, <3>2 DEF ContractInv, FacilitatorIndexExact, FacilitatorIdFor
  <2>3. FacilitatorsTold(e)
    <3> HIDE DEF id
    <3> QED BY <2>1, <2>2 DEF FacilitatorsTold, Touches, About
  <2>4. UNCHANGED <<merchants, services, quotes, receipts, disputes, trustSignals>>
    BY <1>12 DEF RegisterFacilitator
  <2>5. e.type = "FacilitatorRegistered" /\ Emit(e)
    BY <1>12
  <2> HIDE DEF e
  <2> QED BY <2>3, <2>4, <2>5, NothingTold DEF Told
<1>13. ASSUME Tick, UNCHANGED loopVars
       PROVE  UNCHANGED <<directory, quotes, receipts, disputes, trustSignals, loopVars>>
  BY <1>13 DEF Tick
<1> QED BY <1>1, <1>2, <1>3, <1>4, <1>5, <1>6, <1>7, <1>8, <1>9, <1>10, <1>11, <1>12, <1>13 DEF Chain

----------------------------------------------------------------------------
(* What the log says of the contract.                                      *)

LogTyped == \E S : log \in Seq(S)

Recorded(type, id) == \E k \in DOMAIN log : About(log[k], type, id)
RecordedBefore(n, type, id) == \E k \in DOMAIN log : k < n /\ About(log[k], type, id)
CommittedBefore(n, c) ==
  \E k \in DOMAIN log : k < n /\ log[k].type = "QuoteCommitted" /\ log[k].quote = c

\* No later event touches what event k is about.
Final(k, types) == \A j \in DOMAIN log : j > k => ~Touches(log[j], types, log[k].id)

\* Every event is about a record of the contract, and the last one about it says
\* what the record still holds; every record has the event that made it.
MerchantLog ==
  /\ \A k \in DOMAIN log :
       /\ log[k].type \in OfMerchant => log[k].id \in DOMAIN merchants
       /\ log[k].type = "MerchantRegistered" => merchants[log[k].id].owner = log[k].owner
       /\ log[k].type = "MerchantRegistered" /\ Final(k, OfMerchant) => merchants[log[k].id].active = TRUE
       /\ log[k].type = "MerchantUpdated" /\ Final(k, OfMerchant) =>
            merchants[log[k].id].active = log[k].active
  /\ \A m \in DOMAIN merchants : Recorded("MerchantRegistered", m)

ServiceLog ==
  /\ \A k \in DOMAIN log :
       /\ log[k].type \in OfService => log[k].id \in DOMAIN services
       /\ log[k].type = "ServiceRegistered" =>
            /\ services[log[k].id].merchantId = log[k].merchantId
            /\ services[log[k].id].serviceId = log[k].serviceId
            /\ RecordedBefore(k, "MerchantRegistered", log[k].merchantId)
       /\ log[k].type = "ServiceRegistered" /\ Final(k, OfService) => services[log[k].id].active = TRUE
       /\ log[k].type = "ServiceUpdated" /\ Final(k, OfService) => services[log[k].id].active = log[k].active
  /\ \A s \in DOMAIN services : Recorded("ServiceRegistered", s)

FacilitatorLog ==
  /\ \A k \in DOMAIN log :
       /\ log[k].type \in OfFacilitator => log[k].id \in DOMAIN facilitatorsById
       /\ log[k].type = "FacilitatorRegistered" =>
            facilitatorsById[log[k].id].facilitator = log[k].facilitator
       /\ log[k].type = "FacilitatorRegistered" /\ Final(k, OfFacilitator) =>
            facilitatorsById[log[k].id].active = TRUE
       /\ log[k].type = "FacilitatorUpdated" /\ Final(k, OfFacilitator) =>
            facilitatorsById[log[k].id].active = log[k].active
  /\ \A f \in DOMAIN facilitatorsById : Recorded("FacilitatorRegistered", f)

QuoteLog ==
  /\ \A k \in DOMAIN log : log[k].type = "QuoteCommitted" =>
       /\ log[k].quote \in Commitments /\ quotes[log[k].quote] # "none"
       /\ RecordedBefore(k, "MerchantRegistered", log[k].quote.merchantId)
       /\ RecordedBefore(k, "ServiceRegistered", log[k].quote.serviceNumericId)
  /\ \A c \in Commitments : quotes[c] # "none" =>
       \E k \in DOMAIN log : log[k].type = "QuoteCommitted" /\ log[k].quote = c

ReceiptLog ==
  /\ \A k \in DOMAIN log :
       /\ log[k].type \in OfReceipt => log[k].id \in DOMAIN receipts
       /\ log[k].type = "ReceiptRecorded" =>
            /\ receipts[log[k].id].quote = log[k].quote /\ log[k].quote \in Commitments
            /\ CommittedBefore(k, log[k].quote)
       /\ log[k].type = "ReceiptRecorded" /\ Final(k, OfReceipt) =>
            receipts[log[k].id].fulfillmentHash = ZeroHash
       /\ log[k].type = "FulfillmentRecorded" /\ Final(k, OfReceipt) =>
            receipts[log[k].id].fulfillmentHash = log[k].fulfillmentHash
  /\ \A r \in DOMAIN receipts : Recorded("ReceiptRecorded", r)

DisputeLog ==
  /\ \A k \in DOMAIN log :
       /\ log[k].type \in OfDispute => log[k].id \in DOMAIN disputes
       /\ log[k].type = "DisputeOpened" =>
            /\ disputes[log[k].id].receiptId = log[k].receiptId
            /\ disputes[log[k].id].opener = log[k].opener
            /\ RecordedBefore(k, "ReceiptRecorded", log[k].receiptId)
            /\ \A j \in DOMAIN log : About(log[j], "DisputeResolved", log[k].id) => j > k
       /\ log[k].type = "DisputeOpened" /\ Final(k, OfDispute) =>
            disputes[log[k].id].status = "OPEN" /\ disputes[log[k].id].resolutionHash = ZeroHash
       /\ log[k].type = "DisputeResolved" /\ Final(k, OfDispute) =>
            /\ disputes[log[k].id].status = log[k].status
            /\ disputes[log[k].id].resolutionHash = log[k].resolutionHash
  /\ \A d \in DOMAIN disputes : Recorded("DisputeOpened", d)

SignalLog ==
  /\ \A k \in DOMAIN log : log[k].type = "TrustSignalRecorded" =>
       log[k].id \in DOMAIN trustSignals /\ trustSignals[log[k].id] = log[k].reporter
  /\ \A k \in DOMAIN trustSignals : Recorded("TrustSignalRecorded", k)

LogInv ==
  /\ LogTyped /\ MerchantLog /\ ServiceLog /\ FacilitatorLog /\ QuoteLog /\ ReceiptLog
  /\ DisputeLog /\ SignalLog

\* The log has become longer by event e.
Appended(e) ==
  /\ Len(log) \in Nat /\ DOMAIN log = 1..Len(log)
  /\ Len(log') = Len(log) + 1 /\ DOMAIN log' = DOMAIN log \cup {Len(log) + 1}
  /\ log'[Len(log) + 1] = e
  /\ \A k \in DOMAIN log : log'[k] = log[k]

\* Emitting makes the log one event longer.
LEMMA EmitAppends ==
  ASSUME LogTyped, NEW e, log' = Append(log, e)
  PROVE  LogTyped' /\ Appended(e)
<1>1. PICK S : log \in Seq(S)
  BY DEF LogTyped
<1>2. log \in Seq(S \cup {e})
  BY <1>1
<1>3. log' \in Seq(S \cup {e})
  BY <1>2
<1> QED BY <1>1, <1>3 DEF LogTyped, Appended

\* An event that is the last of its kind was so, and is not about what e is about.
LEMMA FinalWas ==
  ASSUME NEW e, Appended(e), NEW types, NEW k \in DOMAIN log, Final(k, types)'
  PROVE  Final(k, types) /\ ~Touches(e, types, log[k].id)
BY DEF Final, Appended

\* What the log records, it goes on recording.
LEMMA RecordedStays ==
  ASSUME NEW e, Appended(e)
  PROVE  /\ \A type, id : Recorded(type, id) => Recorded(type, id)'
         /\ \A type, id : About(e, type, id) => Recorded(type, id)'
         /\ \A n, type, id : RecordedBefore(n, type, id) => RecordedBefore(n, type, id)'
         /\ \A n, type, id : Recorded(type, id) /\ n = Len(log) + 1 => RecordedBefore(n, type, id)'
         /\ \A n, c : CommittedBefore(n, c) => CommittedBefore(n, c)'
BY DEF Appended, Recorded, RecordedBefore, CommittedBefore

\* A call keeps what the log says of the merchants true.
LEMMA MerchantLogInv ==
  ASSUME MerchantLog, NEW e, Appended(e), MerchantsTold(e)
  PROVE  MerchantLog'
<1> USE DEF OfMerchant
<1>1. \A m \in DOMAIN merchants' : Recorded("MerchantRegistered", m)'
  BY RecordedStays DEF MerchantLog, MerchantsTold
<1>2. ASSUME NEW k \in DOMAIN log
      PROVE  /\ log'[k].type \in OfMerchant => log'[k].id \in DOMAIN merchants'
             /\ log'[k].type = "MerchantRegistered" => merchants'[log'[k].id].owner = log'[k].owner
             /\ log'[k].type = "MerchantRegistered" /\ Final(k, OfMerchant)' =>
                  merchants'[log'[k].id].active = TRUE
             /\ log'[k].type = "MerchantUpdated" /\ Final(k, OfMerchant)' =>
                  merchants'[log'[k].id].active = log'[k].active
  BY FinalWas DEF MerchantLog, MerchantsTold, Appended
<1>3. /\ e.type \in OfMerchant => e.id \in DOMAIN merchants'
      /\ e.type = "MerchantRegistered" => merchants'[e.id].owner = e.owner /\ merchants'[e.id].active = TRUE
      /\ e.type = "MerchantUpdated" => merchants'[e.id].active = e.active
  BY DEF MerchantsTold
<1> QED BY <1>1, <1>2, <1>3 DEF MerchantLog, Appended

\* The same for the services, whose merchant was recorded before them.
LEMMA ServiceLogInv ==
  ASSUME ServiceLog, MerchantLog, NEW e, Appended(e), ServicesTold(e)
  PROVE  ServiceLog'
<1> USE DEF OfService
<1>1. \A s \in DOMAIN services' : Recorded("ServiceRegistered", s)'
  BY RecordedStays DEF ServiceLog, ServicesTold
<1>2. ASSUME NEW k \in DOMAIN log
      PROVE  /\ log'[k].type \in OfService => log'[k].id \in DOMAIN services'
             /\ log'[k].type = "ServiceRegistered" =>
                  /\ services'[log'[k].id].merchantId = log'[k].merchantId
                  /\ services'[log'[k].id].serviceId = log'[k].serviceId
                  /\ (\A x : x = log'[k].merchantId => RecordedBefore(k, "MerchantRegistered", x)')
             /\ log'[k].type = "ServiceRegistered" /\ Final(k, OfService)' =>
                  services'[log'[k].id].active = TRUE
             /\ log'[k].type = "ServiceUpdated" /\ Final(k, OfService)' =>
                  services'[log'[k].id].active = log'[k].active
  BY FinalWas, RecordedStays DEF ServiceLog, ServicesTold, Appended
<1>3. /\ e.type \in OfService => e.id \in DOMAIN services'
      /\ e.type = "ServiceRegistered" =>
           /\ services'[e.id].merchantId = e.merchantId /\ services'[e.id].serviceId = e.serviceId
           /\ services'[e.id].active = TRUE
           /\ (\A n : n = Len(log) + 1 => RecordedBefore(n, "MerchantRegistered", e.merchantId)')
      /\ e.type = "ServiceUpdated" => services'[e.id].active = e.active
  BY RecordedStays DEF ServicesTold, MerchantLog
<1> QED BY <1>1, <1>2, <1>3 DEF ServiceLog, Appended, RecordedBefore, CommittedBefore

\* The same for the facilitators.
LEMMA FacilitatorLogInv ==
  ASSUME FacilitatorLog, NEW e, Appended(e), FacilitatorsTold(e)
  PROVE  FacilitatorLog'
<1> USE DEF OfFacilitator
<1>1. \A f \in DOMAIN facilitatorsById' : Recorded("FacilitatorRegistered", f)'
  BY RecordedStays DEF FacilitatorLog, FacilitatorsTold
<1>2. ASSUME NEW k \in DOMAIN log
      PROVE  /\ log'[k].type \in OfFacilitator => log'[k].id \in DOMAIN facilitatorsById'
             /\ log'[k].type = "FacilitatorRegistered" =>
                  facilitatorsById'[log'[k].id].facilitator = log'[k].facilitator
             /\ log'[k].type = "FacilitatorRegistered" /\ Final(k, OfFacilitator)' =>
                  facilitatorsById'[log'[k].id].active = TRUE
             /\ log'[k].type = "FacilitatorUpdated" /\ Final(k, OfFacilitator)' =>
                  facilitatorsById'[log'[k].id].active = log'[k].active
  BY FinalWas DEF FacilitatorLog, FacilitatorsTold, Appended
<1>3. /\ e.type \in OfFacilitator => e.id \in DOMAIN facilitatorsById'
      /\ e.type = "FacilitatorRegistered" =>
           facilitatorsById'[e.id].facilitator = e.facilitator /\ facilitatorsById'[e.id].active = TRUE
      /\ e.type = "FacilitatorUpdated" => facilitatorsById'[e.id].active = e.active
  BY DEF FacilitatorsTold
<1> QED BY <1>1, <1>2, <1>3 DEF FacilitatorLog, Appended

\* The same for the quotes, committed after their merchant and service were recorded.
LEMMA QuoteLogInv ==
  ASSUME QuoteLog, MerchantLog, ServiceLog, NEW e, Appended(e), QuotesTold(e)
  PROVE  QuoteLog'
<1>1. ASSUME NEW c \in Commitments, quotes'[c] # "none"
      PROVE  \E k \in DOMAIN log' : log'[k].type = "QuoteCommitted" /\ log'[k].quote = c
  <2>1. CASE quotes[c] # "none"
    BY <2>1 DEF QuoteLog, Appended
  <2>2. CASE quotes[c] = "none"
    BY <2>2, <1>1 DEF QuotesTold, Appended
  <2> QED BY <2>1, <2>2
<1>2. ASSUME NEW k \in DOMAIN log, log'[k].type = "QuoteCommitted"
      PROVE  /\ log'[k].quote \in Commitments /\ quotes'[log'[k].quote] # "none"
             /\ (\A x : x = log'[k].quote.merchantId => RecordedBefore(k, "MerchantRegistered", x)')
             /\ (\A x : x = log'[k].quote.serviceNumericId => RecordedBefore(k, "ServiceRegistered", x)')
  BY <1>2, RecordedStays DEF QuoteLog, QuotesTold, Appended
<1>3. ASSUME e.type = "QuoteCommitted"
      PROVE  /\ e.quote \in Commitments /\ quotes'[e.quote] # "none"
             /\ (\A n : n = Len(log) + 1 => RecordedBefore(n, "MerchantRegistered", e.quote.merchantId)')
             /\ (\A n : n = Len(log) + 1 => RecordedBefore(n, "ServiceRegistered", e.quote.serviceNumericId)')
  BY <1>3, RecordedStays DEF QuotesTold, MerchantLog, ServiceLog
<1> QED BY <1>1, <1>2, <1>3 DEF QuoteLog, Appended, RecordedBefore, CommittedBefore

\* The same for the receipts, recorded after their quote was committed.
LEMMA ReceiptLogInv ==
  ASSUME ReceiptLog, QuoteLog, NEW e, Appended(e), ReceiptsTold(e)
  PROVE  ReceiptLog'
<1> USE DEF OfReceipt
<1>1. \A r \in DOMAIN receipts' : Recorded("ReceiptRecorded", r)'
  BY RecordedStays DEF ReceiptLog, ReceiptsTold
<1>2. ASSUME NEW k \in DOMAIN log
      PROVE  /\ log'[k].type \in OfReceipt => log'[k].id \in DOMAIN receipts'
             /\ log'[k].type = "ReceiptRecorded" =>
                  /\ receipts'[log'[k].id].quote = log'[k].quote /\ log'[k].quote \in Commitments
                  /\ (\A x : x = log'[k].quote => CommittedBefore(k, x)')
             /\ log'[k].type = "ReceiptRecorded" /\ Final(k, OfReceipt)' =>
                  receipts'[log'[k].id].fulfillmentHash = ZeroHash
             /\ log'[k].type = "FulfillmentRecorded" /\ Final(k, OfReceipt)' =>
                  receipts'[log'[k].id].fulfillmentHash = log'[k].fulfillmentHash
  BY FinalWas, RecordedStays DEF ReceiptLog, ReceiptsTold, Appended
<1>3. /\ e.type \in OfReceipt => e.id \in DOMAIN receipts'
      /\ e.type = "ReceiptRecorded" =>
           /\ receipts'[e.id].quote = e.quote /\ e.quote \in Commitments
           /\ receipts'[e.id].fulfillmentHash = ZeroHash
      /\ e.type = "FulfillmentRecorded" => receipts'[e.id].fulfillmentHash = e.fulfillmentHash
  BY DEF ReceiptsTold
<1>4. e.type = "ReceiptRecorded" => (\A n : n = Len(log) + 1 => CommittedBefore(n, e.quote)')
  <2> SUFFICES ASSUME e.type = "ReceiptRecorded" PROVE (\A n : n = Len(log) + 1 => CommittedBefore(n, e.quote)')
    OBVIOUS
  <2>1. PICK k \in DOMAIN log : log[k].type = "QuoteCommitted" /\ log[k].quote = e.quote
    BY DEF ReceiptsTold, QuoteLog
  <2>2. k \in DOMAIN log' /\ k < Len(log) + 1 /\ log'[k] = log[k]
    BY <2>1 DEF Appended
  <2>3. /\ log'[k].type = "QuoteCommitted" /\ log'[k].quote = e.quote
    BY ONLY <2>1, <2>2
  <2>4. ASSUME NEW n, n = Len(log) + 1
        PROVE  \E j \in DOMAIN log' : j < n /\ log'[j].type = "QuoteCommitted" /\ log'[j].quote = e.quote
    BY ONLY <2>2, <2>3, <2>4
  <2> QED BY ONLY <2>4 DEF CommittedBefore
<1>5. ASSUME NEW k \in DOMAIN log'
      PROVE  /\ log'[k].type \in OfReceipt => log'[k].id \in DOMAIN receipts'
             /\ log'[k].type = "ReceiptRecorded" =>
                  receipts'[log'[k].id].quote = log'[k].quote /\ log'[k].quote \in Commitments
             /\ log'[k].type = "ReceiptRecorded" /\ Final(k, OfReceipt)' =>
                  receipts'[log'[k].id].fulfillmentHash = ZeroHash
             /\ log'[k].type = "FulfillmentRecorded" /\ Final(k, OfReceipt)' =>
                  receipts'[log'[k].id].fulfillmentHash = log'[k].fulfillmentHash
  <2>1. CASE k \in DOMAIN log
    BY ONLY <2>1, <1>2
  <2>2. CASE k = Len(log) + 1 /\ log'[k] = e
    BY ONLY <2>2, <1>3
  <2> QED BY ONLY <2>1, <2>2, Appended(e), k \in DOMAIN log' DEF Appended
<1>6. ASSUME NEW k \in DOMAIN log', log'[k].type = "ReceiptRecorded"
      PROVE  \E j \in DOMAIN log' : j < k /\ log'[j].type = "QuoteCommitted" /\ log'[j].quote = log'[k].quote
  <2>1. CASE k \in DOMAIN log
    BY ONLY <2>1, <1>2, <1>6 DEF CommittedBefore
  <2>2. CASE k = Len(log) + 1 /\ log'[k] = e
    BY ONLY <2>2, <1>4, <1>6 DEF CommittedBefore
  <2> QED BY ONLY <2>1, <2>2, Appended(e), k \in DOMAIN log' DEF Appended
<1> QED BY ONLY <1>1, <1>5, <1>6 DEF ReceiptLog, CommittedBefore

\* The same for the disputes: none is decided before it is opened.
LEMMA DisputeLogInv ==
  ASSUME DisputeLog, ReceiptLog, NEW e, Appended(e), DisputesTold(e)
  PROVE  DisputeLog'
<1> USE DEF OfDispute
<1>1. \A d \in DOMAIN disputes' : Recorded("DisputeOpened", d)'
  BY RecordedStays DEF DisputeLog, DisputesTold
<1>2. ASSUME NEW k \in DOMAIN log
      PROVE  /\ log'[k].type \in OfDispute => log'[k].id \in DOMAIN disputes'
             /\ log'[k].type = "DisputeOpened" =>
                  /\ disputes'[log'[k].id].receiptId = log'[k].receiptId
                  /\ disputes'[log'[k].id].opener = log'[k].opener
                  /\ (\A x : x = log'[k].receiptId => RecordedBefore(k, "ReceiptRecorded", x)')
             /\ log'[k].type = "DisputeOpened" /\ Final(k, OfDispute)' =>
                  disputes'[log'[k].id].status = "OPEN" /\ disputes'[log'[k].id].resolutionHash = ZeroHash
             /\ log'[k].type = "DisputeResolved" /\ Final(k, OfDispute)' =>
                  /\ disputes'[log'[k].id].status = log'[k].status
                  /\ disputes'[log'[k].id].resolutionHash = log'[k].resolutionHash
  BY FinalWas, RecordedStays DEF DisputeLog, DisputesTold, Appended
<1>3. /\ e.type \in OfDispute => e.id \in DOMAIN disputes'
      /\ e.type = "DisputeOpened" =>
           /\ disputes'[e.id].receiptId = e.receiptId /\ disputes'[e.id].opener = e.opener
           /\ disputes'[e.id].status = "OPEN" /\ disputes'[e.id].resolutionHash = ZeroHash
           /\ (\A n : n = Len(log) + 1 => RecordedBefore(n, "ReceiptRecorded", e.receiptId)')
      /\ e.type = "DisputeResolved" =>
           disputes'[e.id].status = e.status /\ disputes'[e.id].resolutionHash = e.resolutionHash
  BY RecordedStays DEF DisputesTold, ReceiptLog
<1>4. ASSUME NEW k \in DOMAIN log', log'[k].type = "DisputeOpened", NEW j \in DOMAIN log',
             About(log'[j], "DisputeResolved", log'[k].id)
      PROVE  j > k
  <2>1. CASE k \in DOMAIN log /\ j \in DOMAIN log
    BY <2>1, <1>4 DEF DisputeLog, Appended
  <2>2. CASE k \in DOMAIN log /\ j = Len(log) + 1
    BY <2>2 DEF Appended
  <2>3. CASE k = Len(log) + 1 /\ j \in DOMAIN log
    <3>1. e.id \notin DOMAIN disputes /\ log[j].id = e.id /\ log[j].type = "DisputeResolved"
      BY <2>3, <1>4 DEF DisputesTold, About, Appended
    <3> QED BY <3>1, <2>3 DEF DisputeLog
  <2>4. CASE k = Len(log) + 1 /\ j = Len(log) + 1
    BY <2>4, <1>4 DEF About
  <2> QED BY <2>1, <2>2, <2>3, <2>4 DEF Appended
<1> QED BY <1>1, <1>2, <1>3, <1>4 DEF DisputeLog, Appended, RecordedBefore, CommittedBefore

\* The same for the trust signals.
LEMMA SignalLogInv ==
  ASSUME SignalLog, NEW e, Appended(e), SignalsTold(e)
  PROVE  SignalLog'
<1>1. \A k \in DOMAIN trustSignals' : Recorded("TrustSignalRecorded", k)'
  BY RecordedStays DEF SignalLog, SignalsTold
<1> QED BY <1>1 DEF SignalLog, SignalsTold, Appended

\* A step of the contract keeps what the log says of it.
LEMMA LogStep ==
  ASSUME ContractInv, LogInv, Chain
  PROVE  LogInv'
<1>1. CASE UNCHANGED <<directory, quotes, receipts, disputes, trustSignals, loopVars>>
  <2> USE <1>1 DEF directory, loopVars
  <2>1. LogTyped' /\ MerchantLog' /\ ServiceLog' /\ FacilitatorLog'
    BY DEF LogInv, LogTyped, MerchantLog, ServiceLog, FacilitatorLog, Recorded, RecordedBefore, Final
  <2>2. QuoteLog' /\ ReceiptLog'
    BY DEF LogInv, QuoteLog, ReceiptLog, Recorded, RecordedBefore, CommittedBefore, Final
  <2>3. DisputeLog' /\ SignalLog'
    BY DEF LogInv, DisputeLog, SignalLog, Recorded, RecordedBefore, Final
  <2> QED BY <2>1, <2>2, <2>3 DEF LogInv
<1>2. ASSUME NEW e, Emit(e), Told(e) PROVE LogInv'
  <2>1. LogTyped' /\ Appended(e)
    BY <1>2, EmitAppends DEF Emit, LogInv
  <2>2. MerchantLog' /\ ServiceLog' /\ FacilitatorLog'
    BY <1>2, <2>1, MerchantLogInv, ServiceLogInv, FacilitatorLogInv DEF Told, LogInv
  <2>3. QuoteLog' /\ ReceiptLog' /\ DisputeLog' /\ SignalLog'
    BY <1>2, <2>1, QuoteLogInv, ReceiptLogInv, DisputeLogInv, SignalLogInv DEF Told, LogInv
  <2> QED BY <2>1, <2>2, <2>3 DEF LogInv
<1> QED BY <1>1, <1>2, CallTold

----------------------------------------------------------------------------
(* The tables.                                                             *)

Tables == {"merchants", "services", "facilitators", "quotes", "receipts", "disputes", "signals"}

LoopTyped ==
  /\ DOMAIN rows = Tables
  /\ at \in Nat /\ stored \in Nat /\ stored <= at /\ at <= Len(log)
  /\ Len(log) \in Nat /\ DOMAIN log = 1..Len(log)

\* No event about record id is left to handle.
Quiet(types, id) == \A k \in (at + 1)..Len(log) : ~Touches(log[k], types, id)

\* The contract made a call, told by e; the mirror did not move.
Grew(e) == Appended(e) /\ at <= Len(log) /\ rows' = rows /\ at' = at

\* The loop passed no event of these types.
Stood(types) ==
  /\ log' = log /\ at' \in Nat
  /\ at' <= at \/ (at' = at + 1 /\ Event.type \notin types)

\* The loop passed one event.
Passed == log' = log /\ at' = at + 1 /\ at < Len(log)

\* A record that is quiet after a call was so before it, and the call was not about it.
LEMMA GrewQuiet ==
  ASSUME NEW e, LoopTyped, Grew(e), NEW types, NEW id, Quiet(types, id)'
  PROVE  Quiet(types, id) /\ ~Touches(e, types, id)
<1>1. \A k \in (at + 1)..(Len(log) + 1) : ~Touches(log'[k], types, id)
  BY DEF Quiet, Grew, Appended
<1> QED BY <1>1 DEF Quiet, Grew, Appended, LoopTyped

\* A record that is quiet now was so before the loop passed an event of other kinds.
LEMMA StoodQuiet ==
  ASSUME LoopTyped, NEW types, Stood(types), NEW id, Quiet(types, id)'
  PROVE  Quiet(types, id)
<1>0. at \in Nat /\ at' \in Nat /\ Len(log) \in Nat
  BY DEF LoopTyped, Stood
<1>1. \A k \in (at' + 1)..Len(log) : ~Touches(log[k], types, id)
  BY DEF Quiet, Stood
<1>2. CASE at' <= at
  <2> SUFFICES ASSUME NEW k \in (at + 1)..Len(log) PROVE ~Touches(log[k], types, id)
    BY DEF Quiet
  <2>1. k \in (at' + 1)..Len(log)
    BY <1>0, <1>2
  <2> QED BY <1>1, <2>1
<1>3. CASE at' = at + 1 /\ Event.type \notin types
  BY <1>1, <1>3 DEF Quiet, LoopTyped, Event, Touches
<1> QED BY <1>2, <1>3 DEF Stood

\* Quiet once its event was passed: either the event was not about the record, or
\* it was the last one about it.
LEMMA PassedQuiet ==
  ASSUME LoopTyped, Passed, NEW types, NEW id, Quiet(types, id)'
  PROVE  /\ ~Touches(Event, types, id) => Quiet(types, id)
         /\ Event.id = id => Final(at + 1, types)
<1>1. \A k \in (at + 2)..Len(log) : ~Touches(log[k], types, id)
  BY DEF Quiet, Passed, LoopTyped
<1>2. ~Touches(Event, types, id) => Quiet(types, id)
  BY <1>1 DEF Quiet, LoopTyped, Event
<1>3. Event.id = id => Final(at + 1, types)
  BY <1>1 DEF Final, LoopTyped, Event
<1> QED BY <1>2, <1>3

\* What a write, and a change, of one row do to a table.
Wrote(table, id, row) ==
  /\ DOMAIN rows'[table] = DOMAIN rows[table] \cup {id}
  /\ rows'[table][id] = row
  /\ \A k \in DOMAIN rows[table] \ {id} : rows'[table][k] = rows[table][k]

Patched(table, id, row) ==
  /\ DOMAIN rows'[table] = DOMAIN rows[table]
  /\ id \in DOMAIN rows[table] => rows'[table][id] = row
  /\ \A k \in DOMAIN rows[table] \ {id} : rows'[table][k] = rows[table][k]

OthersKept(table) == DOMAIN rows' = Tables /\ \A t \in Tables \ {table} : rows'[t] = rows[t]

\* The two kinds of query write one table and leave the others alone.
LEMMA UpsertWrote ==
  ASSUME DOMAIN rows = Tables, NEW table \in Tables, NEW id, NEW row, Upsert(table, id, row)
  PROVE  Wrote(table, id, row) /\ OthersKept(table)
BY DEF Upsert, Wrote, OthersKept

\* The same for an update.
LEMMA UpdatePatched ==
  ASSUME DOMAIN rows = Tables, NEW table \in Tables, NEW id, NEW row, Update(table, id, row)
  PROVE  Patched(table, id, row) /\ OthersKept(table)
BY DEF Update, Patched, OthersKept

\* Every merchant's row is of that merchant and current unless an event about it
\* is still to come; every merchant the loop has seen registered has a row.
MerchantRows ==
  /\ \A m \in DOMAIN rows["merchants"] :
       /\ m \in DOMAIN merchants
       /\ rows["merchants"][m] = [owner |-> merchants[m].owner, active |-> rows["merchants"][m].active]
       /\ Quiet(OfMerchant, m) => rows["merchants"][m].active = merchants[m].active
  /\ \A k \in 1..at : log[k].type = "MerchantRegistered" => log[k].id \in DOMAIN rows["merchants"]

\* A call of the contract leaves the rows right: what it changes is still to come.
LEMMA MerchantRowsGrew ==
  ASSUME LoopTyped, MerchantRows, NEW e, Grew(e), MerchantsTold(e)
  PROVE  MerchantRows'
<1>1. \A m \in DOMAIN rows'["merchants"] :
        /\ m \in DOMAIN merchants'
        /\ rows'["merchants"][m] = [owner |-> merchants'[m].owner, active |-> rows'["merchants"][m].active]
  BY DEF MerchantRows, MerchantsTold, Grew
<1>2. ASSUME NEW m \in DOMAIN rows'["merchants"], Quiet(OfMerchant, m)'
      PROVE  rows'["merchants"][m].active = merchants'[m].active
  BY <1>2, GrewQuiet DEF MerchantRows, MerchantsTold, Grew
<1>3. \A k \in 1..at' : log'[k].type = "MerchantRegistered" => log'[k].id \in DOMAIN rows'["merchants"]
  BY DEF MerchantRows, Grew, Appended, LoopTyped
<1> QED BY <1>1, <1>2, <1>3 DEF MerchantRows

\* So does a step of the loop that passes no event about a merchant.
LEMMA MerchantRowsStood ==
  ASSUME LoopTyped, MerchantRows, Stood(OfMerchant), rows'["merchants"] = rows["merchants"], merchants' = merchants
  PROVE  MerchantRows'
<1>1. ASSUME NEW m \in DOMAIN rows'["merchants"], Quiet(OfMerchant, m)'
      PROVE  rows'["merchants"][m].active = merchants'[m].active
  BY <1>1, StoodQuiet DEF MerchantRows
<1>2. \A k \in 1..at' : log'[k].type = "MerchantRegistered" => log'[k].id \in DOMAIN rows'["merchants"]
  BY DEF MerchantRows, Stood, LoopTyped, OfMerchant, Event
<1> QED BY <1>1, <1>2 DEF MerchantRows

\* And so do the handlers that write the table.
LEMMA MerchantRowsPassed ==
  ASSUME LoopTyped, MerchantRows, MerchantLog, Passed, merchants' = merchants,
         \/ /\ Event.type = "MerchantRegistered"
            /\ Wrote("merchants", Event.id, [owner |-> Event.owner, active |-> TRUE])
         \/ /\ Event.type = "MerchantUpdated"
            /\ Patched("merchants", Event.id, [rows["merchants"][Event.id] EXCEPT !.active = Event.active])
  PROVE  MerchantRows'
<1>1. at + 1 \in DOMAIN log /\ Event = log[at + 1]
  BY DEF LoopTyped, Passed, Event
<1>2. ASSUME NEW m \in DOMAIN rows'["merchants"]
      PROVE  /\ m \in DOMAIN merchants'
             /\ rows'["merchants"][m] = [owner |-> merchants'[m].owner, active |-> rows'["merchants"][m].active]
             /\ Quiet(OfMerchant, m)' => rows'["merchants"][m].active = merchants'[m].active
  <2>1. CASE m # Event.id
    <3>1. m \in DOMAIN rows["merchants"] /\ rows'["merchants"][m] = rows["merchants"][m]
      BY <2>1, <1>2 DEF Wrote, Patched
    <3>2. Quiet(OfMerchant, m)' => Quiet(OfMerchant, m)
      BY <2>1, PassedQuiet DEF Touches
    <3> QED BY <3>1, <3>2 DEF MerchantRows
  <2>2. CASE m = Event.id
    <3>1. Quiet(OfMerchant, m)' => Final(at + 1, OfMerchant)
      BY <2>2, PassedQuiet
    <3>2. CASE Event.type = "MerchantRegistered"
      <4>1. rows'["merchants"][m] = [owner |-> Event.owner, active |-> TRUE]
        BY <2>2, <3>2 DEF Wrote
      <4>2. /\ m \in DOMAIN merchants /\ merchants[m].owner = Event.owner
            /\ Final(at + 1, OfMerchant) => merchants[m].active = TRUE
        BY <1>1, <2>2, <3>2 DEF MerchantLog, OfMerchant
      <4>3. rows'["merchants"][m].active = TRUE
        BY <4>1
      <4>4. rows'["merchants"][m] = [owner |-> merchants'[m].owner, active |-> rows'["merchants"][m].active]
        BY <4>1, <4>2
      <4>5. ASSUME Quiet(OfMerchant, m)' PROVE rows'["merchants"][m].active = merchants'[m].active
        BY <3>1, <4>2, <4>3, <4>5
      <4> QED BY <4>2, <4>4, <4>5
    <3>3. CASE Event.type = "MerchantUpdated"
      <4>1. m \in DOMAIN rows["merchants"]
            /\ rows'["merchants"][m] = [rows["merchants"][m] EXCEPT !.active = Event.active]
        BY <2>2, <3>3, <1>2 DEF Patched
      <4>2. rows["merchants"][m] = [owner |-> merchants[m].owner, active |-> rows["merchants"][m].active]
            /\ m \in DOMAIN merchants
        BY <4>1 DEF MerchantRows
      <4>3. rows'["merchants"][m] = [owner |-> merchants[m].owner, active |-> Event.active]
        BY <4>1, <4>2
      <4> QED BY <1>1, <2>2, <3>1, <3>3, <4>2, <4>3 DEF MerchantLog
    <3> QED BY <3>2, <3>3
  <2> QED BY <2>1, <2>2
<1>3. \A k \in 1..at' : log'[k].type = "MerchantRegistered" => log'[k].id \in DOMAIN rows'["merchants"]
  BY <1>1 DEF MerchantRows, Passed, LoopTyped, Wrote, Patched
<1> QED BY <1>2, <1>3 DEF MerchantRows

\* The same for the facilitators.
FacilitatorRows ==
  /\ \A m \in DOMAIN rows["facilitators"] :
       /\ m \in DOMAIN facilitatorsById
       /\ rows["facilitators"][m] = [facilitator |-> facilitatorsById[m].facilitator, active |-> rows["facilitators"][m].active]
       /\ Quiet(OfFacilitator, m) => rows["facilitators"][m].active = facilitatorsById[m].active
  /\ \A k \in 1..at : log[k].type = "FacilitatorRegistered" => log[k].id \in DOMAIN rows["facilitators"]

\* A call leaves the rows right.
LEMMA FacilitatorRowsGrew ==
  ASSUME LoopTyped, FacilitatorRows, NEW e, Grew(e), FacilitatorsTold(e)
  PROVE  FacilitatorRows'
<1>1. \A m \in DOMAIN rows'["facilitators"] :
        /\ m \in DOMAIN facilitatorsById'
        /\ rows'["facilitators"][m] = [facilitator |-> facilitatorsById'[m].facilitator, active |-> rows'["facilitators"][m].active]
  BY DEF FacilitatorRows, FacilitatorsTold, Grew
<1>2. ASSUME NEW m \in DOMAIN rows'["facilitators"], Quiet(OfFacilitator, m)'
      PROVE  rows'["facilitators"][m].active = facilitatorsById'[m].active
  BY <1>2, GrewQuiet DEF FacilitatorRows, FacilitatorsTold, Grew
<1>3. \A k \in 1..at' : log'[k].type = "FacilitatorRegistered" => log'[k].id \in DOMAIN rows'["facilitators"]
  BY DEF FacilitatorRows, Grew, Appended, LoopTyped
<1> QED BY <1>1, <1>2, <1>3 DEF FacilitatorRows

\* So does a step that passes no event about a facilitator.
LEMMA FacilitatorRowsStood ==
  ASSUME LoopTyped, FacilitatorRows, Stood(OfFacilitator), rows'["facilitators"] = rows["facilitators"], facilitatorsById' = facilitatorsById
  PROVE  FacilitatorRows'
<1>1. ASSUME NEW m \in DOMAIN rows'["facilitators"], Quiet(OfFacilitator, m)'
      PROVE  rows'["facilitators"][m].active = facilitatorsById'[m].active
  BY <1>1, StoodQuiet DEF FacilitatorRows
<1>2. \A k \in 1..at' : log'[k].type = "FacilitatorRegistered" => log'[k].id \in DOMAIN rows'["facilitators"]
  BY DEF FacilitatorRows, Stood, LoopTyped, OfFacilitator, Event
<1> QED BY <1>1, <1>2 DEF FacilitatorRows

\* And so do the handlers that write the table.
LEMMA FacilitatorRowsPassed ==
  ASSUME LoopTyped, FacilitatorRows, FacilitatorLog, Passed, facilitatorsById' = facilitatorsById,
         \/ /\ Event.type = "FacilitatorRegistered"
            /\ Wrote("facilitators", Event.id, [facilitator |-> Event.facilitator, active |-> TRUE])
         \/ /\ Event.type = "FacilitatorUpdated"
            /\ Patched("facilitators", Event.id, [rows["facilitators"][Event.id] EXCEPT !.active = Event.active])
  PROVE  FacilitatorRows'
<1>1. at + 1 \in DOMAIN log /\ Event = log[at + 1]
  BY DEF LoopTyped, Passed, Event
<1>2. ASSUME NEW m \in DOMAIN rows'["facilitators"]
      PROVE  /\ m \in DOMAIN facilitatorsById'
             /\ rows'["facilitators"][m] = [facilitator |-> facilitatorsById'[m].facilitator, active |-> rows'["facilitators"][m].active]
             /\ Quiet(OfFacilitator, m)' => rows'["facilitators"][m].active = facilitatorsById'[m].active
  <2>1. CASE m # Event.id
    <3>1. m \in DOMAIN rows["facilitators"] /\ rows'["facilitators"][m] = rows["facilitators"][m]
      BY <2>1, <1>2 DEF Wrote, Patched
    <3>2. Quiet(OfFacilitator, m)' => Quiet(OfFacilitator, m)
      BY <2>1, PassedQuiet DEF Touches
    <3> QED BY <3>1, <3>2 DEF FacilitatorRows
  <2>2. CASE m = Event.id
    <3>1. Quiet(OfFacilitator, m)' => Final(at + 1, OfFacilitator)
      BY <2>2, PassedQuiet
    <3>2. CASE Event.type = "FacilitatorRegistered"
      <4>1. rows'["facilitators"][m] = [facilitator |-> Event.facilitator, active |-> TRUE]
        BY <2>2, <3>2 DEF Wrote
      <4>2. /\ m \in DOMAIN facilitatorsById /\ facilitatorsById[m].facilitator = Event.facilitator
            /\ Final(at + 1, OfFacilitator) => facilitatorsById[m].active = TRUE
        BY <1>1, <2>2, <3>2 DEF FacilitatorLog, OfFacilitator
      <4>3. rows'["facilitators"][m].active = TRUE
        BY <4>1
      <4>4. rows'["facilitators"][m] = [facilitator |-> facilitatorsById'[m].facilitator, active |-> rows'["facilitators"][m].active]
        BY <4>1, <4>2
      <4>5. ASSUME Quiet(OfFacilitator, m)' PROVE rows'["facilitators"][m].active = facilitatorsById'[m].active
        BY <3>1, <4>2, <4>3, <4>5
      <4> QED BY <4>2, <4>4, <4>5
    <3>3. CASE Event.type = "FacilitatorUpdated"
      <4>1. m \in DOMAIN rows["facilitators"]
            /\ rows'["facilitators"][m] = [rows["facilitators"][m] EXCEPT !.active = Event.active]
        BY <2>2, <3>3, <1>2 DEF Patched
      <4>2. rows["facilitators"][m] = [facilitator |-> facilitatorsById[m].facilitator, active |-> rows["facilitators"][m].active]
            /\ m \in DOMAIN facilitatorsById
        BY <4>1 DEF FacilitatorRows
      <4>3. rows'["facilitators"][m] = [facilitator |-> facilitatorsById[m].facilitator, active |-> Event.active]
        BY <4>1, <4>2
      <4> QED BY <1>1, <2>2, <3>1, <3>3, <4>2, <4>3 DEF FacilitatorLog
    <3> QED BY <3>2, <3>3
  <2> QED BY <2>1, <2>2
<1>3. \A k \in 1..at' : log'[k].type = "FacilitatorRegistered" => log'[k].id \in DOMAIN rows'["facilitators"]
  BY <1>1 DEF FacilitatorRows, Passed, LoopTyped, Wrote, Patched
<1> QED BY <1>2, <1>3 DEF FacilitatorRows

\* The rows of the trust signals, which never change.
SignalRows ==
  /\ \A k \in DOMAIN rows["signals"] : k \in DOMAIN trustSignals /\ rows["signals"][k] = trustSignals[k]
  /\ \A k \in 1..at : log[k].type = "TrustSignalRecorded" => log[k].id \in DOMAIN rows["signals"]

\* A call leaves the rows right.
LEMMA SignalRowsGrew ==
  ASSUME LoopTyped, SignalRows, NEW e, Grew(e), SignalsTold(e)
  PROVE  SignalRows'
<1>1. \A k \in DOMAIN rows'["signals"] : k \in DOMAIN trustSignals' /\ rows'["signals"][k] = trustSignals'[k]
  BY DEF SignalRows, SignalsTold, Grew
<1>2. \A k \in 1..at' : log'[k].type = "TrustSignalRecorded" => log'[k].id \in DOMAIN rows'["signals"]
  BY DEF SignalRows, Grew, Appended, LoopTyped
<1> QED BY <1>1, <1>2 DEF SignalRows

\* So does a step that passes no signal.
LEMMA SignalRowsStood ==
  ASSUME LoopTyped, SignalRows, Stood({"TrustSignalRecorded"}), rows'["signals"] = rows["signals"],
         trustSignals' = trustSignals
  PROVE  SignalRows'
<1>1. \A k \in 1..at' : log'[k].type = "TrustSignalRecorded" => log'[k].id \in DOMAIN rows'["signals"]
  BY DEF SignalRows, Stood, LoopTyped, Event
<1> QED BY <1>1 DEF SignalRows

\* And so does the handler of a signal.
LEMMA SignalRowsPassed ==
  ASSUME LoopTyped, SignalRows, SignalLog, Passed, trustSignals' = trustSignals,
         Event.type = "TrustSignalRecorded", Wrote("signals", Event.id, Event.reporter)
  PROVE  SignalRows'
<1>1. at + 1 \in DOMAIN log /\ Event = log[at + 1]
  BY DEF LoopTyped, Passed, Event
<1>2. \A k \in DOMAIN rows'["signals"] : k \in DOMAIN trustSignals' /\ rows'["signals"][k] = trustSignals'[k]
  BY <1>1 DEF SignalRows, SignalLog, Wrote
<1>3. \A k \in 1..at' : log'[k].type = "TrustSignalRecorded" => log'[k].id \in DOMAIN rows'["signals"]
  BY <1>1 DEF SignalRows, Passed, LoopTyped, Wrote
<1> QED BY <1>2, <1>3 DEF SignalRows

\* Every service's row is of that service and refers to a merchant's row.
ServiceReal ==
  \A s \in DOMAIN rows["services"] :
    /\ s \in DOMAIN services
    /\ rows["services"][s] = [merchantId |-> services[s].merchantId, serviceId |-> services[s].serviceId,
                              active |-> rows["services"][s].active]
    /\ services[s].merchantId \in DOMAIN rows["merchants"]

\* The rows are current unless an event is still to come, and all there.
ServiceFresh ==
  /\ \A s \in DOMAIN rows["services"] : Quiet(OfService, s) => rows["services"][s].active = services[s].active
  /\ \A k \in 1..at : log[k].type = "ServiceRegistered" => log[k].id \in DOMAIN rows["services"]

\* Told or not, a call leaves the rows of services real.
LEMMA ServiceRealKept ==
  ASSUME ServiceReal, rows'["services"] = rows["services"], DOMAIN rows["merchants"] \subseteq DOMAIN rows'["merchants"],
         \A s \in DOMAIN services :
           /\ s \in DOMAIN services' /\ services'[s].merchantId = services[s].merchantId
           /\ services'[s].serviceId = services[s].serviceId
  PROVE  ServiceReal'
BY DEF ServiceReal

\* A call leaves the rows as current as they were.
LEMMA ServiceFreshGrew ==
  ASSUME LoopTyped, ServiceReal, ServiceFresh, NEW e, Grew(e), ServicesTold(e)
  PROVE  ServiceFresh'
<1>1. ASSUME NEW s \in DOMAIN rows'["services"], Quiet(OfService, s)'
      PROVE  rows'["services"][s].active = services'[s].active
  BY <1>1, GrewQuiet DEF ServiceReal, ServiceFresh, ServicesTold, Grew
<1>2. \A k \in 1..at' : log'[k].type = "ServiceRegistered" => log'[k].id \in DOMAIN rows'["services"]
  BY DEF ServiceFresh, Grew, Appended, LoopTyped
<1> QED BY <1>1, <1>2 DEF ServiceFresh

\* So does a step of the loop that passes no event about a service.
LEMMA ServiceFreshStood ==
  ASSUME LoopTyped, ServiceFresh, Stood(OfService), rows'["services"] = rows["services"], services' = services
  PROVE  ServiceFresh'
<1>1. ASSUME NEW s \in DOMAIN rows'["services"], Quiet(OfService, s)'
      PROVE  rows'["services"][s].active = services'[s].active
  BY <1>1, StoodQuiet DEF ServiceFresh
<1>2. \A k \in 1..at' : log'[k].type = "ServiceRegistered" => log'[k].id \in DOMAIN rows'["services"]
  BY DEF ServiceFresh, Stood, LoopTyped, OfService, Event
<1> QED BY <1>1, <1>2 DEF ServiceFresh

\* A service's row is written, or its flag is changed.
ServiceWritten ==
  \/ /\ Event.type = "ServiceRegistered" /\ Event.merchantId \in DOMAIN rows["merchants"]
     /\ Wrote("services", Event.id,
              [merchantId |-> Event.merchantId, serviceId |-> Event.serviceId, active |-> TRUE])
  \/ /\ Event.type = "ServiceUpdated"
     /\ Patched("services", Event.id, [rows["services"][Event.id] EXCEPT !.active = Event.active])

\* The handlers that write the table keep it right.
LEMMA ServiceRowsPassed ==
  ASSUME LoopTyped, ServiceReal, ServiceLog, Passed, services' = services, ServiceWritten,
         rows'["merchants"] = rows["merchants"]
  PROVE  ServiceReal' /\ (ServiceFresh => ServiceFresh')
<1>1. at + 1 \in DOMAIN log /\ Event = log[at + 1]
  BY DEF LoopTyped, Passed, Event
<1>2. ASSUME NEW s \in DOMAIN rows'["services"]
      PROVE  /\ s \in DOMAIN services
             /\ rows'["services"][s] = [merchantId |-> services[s].merchantId, serviceId |-> services[s].serviceId,
                                        active |-> rows'["services"][s].active]
             /\ services[s].merchantId \in DOMAIN rows["merchants"]
             /\ ServiceFresh /\ Quiet(OfService, s)' => rows'["services"][s].active = services[s].active
  <2>1. CASE s # Event.id
    <3>1. s \in DOMAIN rows["services"] /\ rows'["services"][s] = rows["services"][s]
      BY <2>1, <1>2 DEF ServiceWritten, Wrote, Patched
    <3>2. Quiet(OfService, s)' => Quiet(OfService, s)
      BY <2>1, PassedQuiet DEF Touches
    <3> QED BY <3>1, <3>2 DEF ServiceReal, ServiceFresh
  <2>2. CASE s = Event.id
    <3>1. Quiet(OfService, s)' => Final(at + 1, OfService)
      BY <2>2, PassedQuiet
    <3>2. CASE Event.type = "ServiceRegistered"
      <4>1. /\ rows'["services"][s] = [merchantId |-> Event.merchantId, serviceId |-> Event.serviceId, active |-> TRUE]
            /\ Event.merchantId \in DOMAIN rows["merchants"]
        BY <2>2, <3>2 DEF ServiceWritten, Wrote
      <4>2. /\ s \in DOMAIN services /\ services[s].merchantId = Event.merchantId
            /\ services[s].serviceId = Event.serviceId
            /\ Final(at + 1, OfService) => services[s].active = TRUE
        BY <1>1, <2>2, <3>2 DEF ServiceLog, OfService
      <4>3. rows'["services"][s].active = TRUE
        BY <4>1
      <4>4. rows'["services"][s] = [merchantId |-> services[s].merchantId, serviceId |-> services[s].serviceId,
                                    active |-> rows'["services"][s].active]
        BY <4>1, <4>2
      <4>5. ASSUME Quiet(OfService, s)' PROVE rows'["services"][s].active = services[s].active
        BY <3>1, <4>2, <4>3, <4>5
      <4> QED BY <4>1, <4>2, <4>4, <4>5
    <3>3. CASE Event.type = "ServiceUpdated"
      <4>1. s \in DOMAIN rows["services"]
            /\ rows'["services"][s] = [rows["services"][s] EXCEPT !.active = Event.active]
        BY <2>2, <3>3, <1>2 DEF ServiceWritten, Patched
      <4>2. rows["services"][s] = [merchantId |-> services[s].merchantId, serviceId |-> services[s].serviceId,
                                   active |-> rows["services"][s].active]
            /\ s \in DOMAIN services /\ services[s].merchantId \in DOMAIN rows["merchants"]
        BY <4>1 DEF ServiceReal
      <4>3. rows'["services"][s] = [merchantId |-> services[s].merchantId, serviceId |-> services[s].serviceId,
                                    active |-> Event.active]
        BY <4>1, <4>2
      <4> QED BY <1>1, <2>2, <3>1, <3>3, <4>2, <4>3 DEF ServiceLog
    <3> QED BY <3>2, <3>3 DEF ServiceWritten
  <2> QED BY <2>1, <2>2
<1>3. ServiceFresh =>
        \A k \in 1..at' : log'[k].type = "ServiceRegistered" => log'[k].id \in DOMAIN rows'["services"]
  BY <1>1 DEF ServiceFresh, Passed, LoopTyped, ServiceWritten, Wrote, Patched
<1> QED BY <1>2, <1>3 DEF ServiceReal, ServiceFresh

\* Every dispute's row is of that dispute, and has a resolution hash only if the
\* dispute was resolved.
DisputeReal ==
  \A d \in DOMAIN rows["disputes"] :
    /\ d \in DOMAIN disputes
    /\ rows["disputes"][d] = [receiptId |-> disputes[d].receiptId, opener |-> disputes[d].opener,
                              status |-> rows["disputes"][d].status,
                              resolutionHash |-> rows["disputes"][d].resolutionHash]
    /\ rows["disputes"][d].resolutionHash = ZeroHash \/ Recorded("DisputeResolved", d)

DisputeFresh ==
  /\ \A d \in DOMAIN rows["disputes"] : Quiet(OfDispute, d) =>
       /\ rows["disputes"][d].status = disputes[d].status
       /\ rows["disputes"][d].resolutionHash = disputes[d].resolutionHash
  /\ \A k \in 1..at : log[k].type = "DisputeOpened" => log[k].id \in DOMAIN rows["disputes"]

\* A dispute that keeps its sides keeps its row real.
LEMMA DisputeRealKept ==
  ASSUME DisputeReal, rows'["disputes"] = rows["disputes"],
         \A d \in DOMAIN disputes :
           /\ d \in DOMAIN disputes' /\ disputes'[d].receiptId = disputes[d].receiptId
           /\ disputes'[d].opener = disputes[d].opener,
         \A d : Recorded("DisputeResolved", d) => Recorded("DisputeResolved", d)'
  PROVE  DisputeReal'
BY DEF DisputeReal

\* A call leaves the rows as current as they were.
LEMMA DisputeFreshGrew ==
  ASSUME LoopTyped, DisputeReal, DisputeFresh, NEW e, Grew(e), DisputesTold(e)
  PROVE  DisputeFresh'
<1>1. ASSUME NEW d \in DOMAIN rows'["disputes"], Quiet(OfDispute, d)'
      PROVE  /\ rows'["disputes"][d].status = disputes'[d].status
             /\ rows'["disputes"][d].resolutionHash = disputes'[d].resolutionHash
  BY <1>1, GrewQuiet DEF DisputeReal, DisputeFresh, DisputesTold, Grew
<1>2. \A k \in 1..at' : log'[k].type = "DisputeOpened" => log'[k].id \in DOMAIN rows'["disputes"]
  BY DEF DisputeFresh, Grew, Appended, LoopTyped
<1> QED BY <1>1, <1>2 DEF DisputeFresh

\* So does a step of the loop that passes no event about a dispute.
LEMMA DisputeFreshStood ==
  ASSUME LoopTyped, DisputeFresh, Stood(OfDispute), rows'["disputes"] = rows["disputes"], disputes' = disputes
  PROVE  DisputeFresh'
<1>1. ASSUME NEW d \in DOMAIN rows'["disputes"], Quiet(OfDispute, d)'
      PROVE  /\ rows'["disputes"][d].status = disputes'[d].status
             /\ rows'["disputes"][d].resolutionHash = disputes'[d].resolutionHash
  BY <1>1, StoodQuiet DEF DisputeFresh
<1>2. \A k \in 1..at' : log'[k].type = "DisputeOpened" => log'[k].id \in DOMAIN rows'["disputes"]
  BY DEF DisputeFresh, Stood, LoopTyped, OfDispute, Event
<1> QED BY <1>1, <1>2 DEF DisputeFresh

\* A dispute's row is opened, which keeps the hash it may have, or decided.
DisputeWritten ==
  \/ /\ Event.type = "DisputeOpened"
     /\ Wrote("disputes", Event.id,
              [receiptId |-> Event.receiptId, opener |-> Event.opener, status |-> "OPEN",
               resolutionHash |-> IF Event.id \in DOMAIN rows["disputes"]
                                  THEN rows["disputes"][Event.id].resolutionHash ELSE ZeroHash])
  \/ Event.type = "DisputeResolved" /\ Patched("disputes", Event.id, Decided(rows["disputes"][Event.id]))

\* What deciding does to a row.
LEMMA DecidedRow ==
  ASSUME NEW a, NEW b, NEW st, NEW h
  PROVE  Decided([receiptId |-> a, opener |-> b, status |-> st, resolutionHash |-> h]) =
         [receiptId |-> a, opener |-> b, status |-> Event.status, resolutionHash |-> Event.resolutionHash]
<1> DEFINE dispute == [receiptId |-> a, opener |-> b, status |-> st, resolutionHash |-> h]
           first == [dispute EXCEPT !.status = Event.status]
<1>1. first = [receiptId |-> a, opener |-> b, status |-> Event.status, resolutionHash |-> h]
  OBVIOUS
<1>2. [first EXCEPT !.resolutionHash = Event.resolutionHash] =
      [receiptId |-> a, opener |-> b, status |-> Event.status, resolutionHash |-> Event.resolutionHash]
  <2> HIDE DEF first
  <2> QED BY <1>1
<1>3. Decided(dispute) = [first EXCEPT !.resolutionHash = Event.resolutionHash]
  BY DEF Decided
<1> QED BY <1>2, <1>3

\* The handlers that write the table keep it right: a dispute whose last event is
\* its opening was never decided, so the hash its row may have kept is none.
LEMMA DisputeRowsPassed ==
  ASSUME LoopTyped, DisputeReal, DisputeLog, Passed, disputes' = disputes, DisputeWritten
  PROVE  DisputeReal' /\ (DisputeFresh => DisputeFresh')
<1>1. at + 1 \in DOMAIN log /\ Event = log[at + 1]
  BY DEF LoopTyped, Passed, Event
<1>2. \A d : Recorded("DisputeResolved", d)' <=> Recorded("DisputeResolved", d)
  BY DEF Recorded, Passed
<1>3. ASSUME NEW d \in DOMAIN rows'["disputes"]
      PROVE  /\ d \in DOMAIN disputes
             /\ rows'["disputes"][d] = [receiptId |-> disputes[d].receiptId, opener |-> disputes[d].opener,
                                        status |-> rows'["disputes"][d].status,
                                        resolutionHash |-> rows'["disputes"][d].resolutionHash]
             /\ rows'["disputes"][d].resolutionHash = ZeroHash \/ Recorded("DisputeResolved", d)
             /\ DisputeFresh /\ Quiet(OfDispute, d)' =>
                  /\ rows'["disputes"][d].status = disputes[d].status
                  /\ rows'["disputes"][d].resolutionHash = disputes[d].resolutionHash
  <2>1. CASE d # Event.id
    <3>1. d \in DOMAIN rows["disputes"] /\ rows'["disputes"][d] = rows["disputes"][d]
      BY <2>1, <1>3 DEF DisputeWritten, Wrote, Patched
    <3>2. Quiet(OfDispute, d)' => Quiet(OfDispute, d)
      BY <2>1, PassedQuiet DEF Touches
    <3> QED BY <3>1, <3>2 DEF DisputeReal, DisputeFresh
  <2>2. CASE d = Event.id
    <3>1. Quiet(OfDispute, d)' => Final(at + 1, OfDispute)
      BY <2>2, PassedQuiet
    <3>2. CASE Event.type = "DisputeOpened"
      <4> DEFINE hash == IF d \in DOMAIN rows["disputes"] THEN rows["disputes"][d].resolutionHash ELSE ZeroHash
      <4>1. rows'["disputes"][d] = [receiptId |-> Event.receiptId, opener |-> Event.opener,
                                    status |-> "OPEN", resolutionHash |-> hash]
        BY <2>2, <3>2 DEF DisputeWritten, Wrote
      <4>2. hash = ZeroHash \/ Recorded("DisputeResolved", d)
        BY DEF DisputeReal
      <4>3. /\ d \in DOMAIN disputes
            /\ disputes[d].receiptId = Event.receiptId /\ disputes[d].opener = Event.opener
            /\ Final(at + 1, OfDispute) => disputes[d].status = "OPEN" /\ disputes[d].resolutionHash = ZeroHash
        BY <1>1, <2>2, <3>2 DEF DisputeLog, OfDispute
      <4>4. ASSUME Final(at + 1, OfDispute) PROVE ~Recorded("DisputeResolved", d)
        <5>1. \A j \in DOMAIN log : About(log[j], "DisputeResolved", d) => j > at + 1
          BY <1>1, <2>2, <3>2 DEF DisputeLog
        <5>2. \A j \in DOMAIN log : j > at + 1 => ~About(log[j], "DisputeResolved", d)
          BY <4>4, <1>1, <2>2 DEF Final, Touches, About, OfDispute
        <5> QED BY <5>1, <5>2 DEF Recorded
      <4> HIDE DEF hash
      <4> QED BY <3>1, <4>1, <4>2, <4>3, <4>4
    <3>3. CASE Event.type = "DisputeResolved"
      <4>1. d \in DOMAIN rows["disputes"] /\ rows'["disputes"][d] = Decided(rows["disputes"][d])
        BY <2>2, <3>3, <1>3 DEF DisputeWritten, Patched
      <4>2. rows["disputes"][d] = [receiptId |-> disputes[d].receiptId, opener |-> disputes[d].opener,
                                   status |-> rows["disputes"][d].status,
                                   resolutionHash |-> rows["disputes"][d].resolutionHash]
            /\ d \in DOMAIN disputes
        BY <4>1 DEF DisputeReal
      <4>3. rows'["disputes"][d] = [receiptId |-> disputes[d].receiptId, opener |-> disputes[d].opener,
                                    status |-> Event.status, resolutionHash |-> Event.resolutionHash]
        <5>1. PICK st, h : rows["disputes"][d] = [receiptId |-> disputes[d].receiptId, opener |-> disputes[d].opener,
                                                  status |-> st, resolutionHash |-> h]
          BY <4>2
        <5>2. Decided(rows["disputes"][d]) =
              [receiptId |-> disputes[d].receiptId, opener |-> disputes[d].opener,
               status |-> Event.status, resolutionHash |-> Event.resolutionHash]
          BY <5>1, DecidedRow
        <5> QED BY <4>1, <5>2
      <4>4. Recorded("DisputeResolved", d)
        BY <1>1, <2>2, <3>3 DEF Recorded, About
      <4> QED BY <1>1, <2>2, <3>1, <3>3, <4>2, <4>3, <4>4 DEF DisputeLog
    <3> QED BY <3>2, <3>3 DEF DisputeWritten
  <2> QED BY <2>1, <2>2
<1>4. DisputeFresh =>
        \A k \in 1..at' : log'[k].type = "DisputeOpened" => log'[k].id \in DOMAIN rows'["disputes"]
  BY <1>1 DEF DisputeFresh, Passed, LoopTyped, DisputeWritten, Wrote, Patched
<1> QED BY <1>2, <1>3, <1>4 DEF DisputeReal, DisputeFresh

\* Every receipt's row is of that receipt.
ReceiptReal ==
  \A r \in DOMAIN rows["receipts"] :
    /\ r \in DOMAIN receipts
    /\ rows["receipts"][r] = [quote |-> receipts[r].quote, fulfillmentHash |-> rows["receipts"][r].fulfillmentHash]

ReceiptFresh ==
  /\ \A r \in DOMAIN rows["receipts"] : Quiet(OfReceipt, r) =>
       rows["receipts"][r].fulfillmentHash = receipts[r].fulfillmentHash
  /\ \A k \in 1..at : log[k].type = "ReceiptRecorded" => log[k].id \in DOMAIN rows["receipts"]

\* Between its two queries the handler of a receipt has written its row.
PendingReal ==
  pending # {} =>
    /\ at < Len(log) /\ Event.type = "ReceiptRecorded" /\ pending = {Event.quote}
    /\ Event.id \in DOMAIN rows["receipts"] /\ rows["receipts"][Event.id].fulfillmentHash = ZeroHash
    /\ Event.quote \in DOMAIN rows["quotes"]

\* A receipt that keeps its quote keeps its row real.
LEMMA ReceiptRealKept ==
  ASSUME ReceiptReal, rows'["receipts"] = rows["receipts"],
         \A r \in DOMAIN receipts : r \in DOMAIN receipts' /\ receipts'[r].quote = receipts[r].quote
  PROVE  ReceiptReal'
BY DEF ReceiptReal

\* A call leaves the rows as current as they were.
LEMMA ReceiptFreshGrew ==
  ASSUME LoopTyped, ReceiptReal, ReceiptFresh, NEW e, Grew(e), ReceiptsTold(e)
  PROVE  ReceiptFresh'
<1>1. ASSUME NEW r \in DOMAIN rows'["receipts"], Quiet(OfReceipt, r)'
      PROVE  rows'["receipts"][r].fulfillmentHash = receipts'[r].fulfillmentHash
  BY <1>1, GrewQuiet DEF ReceiptReal, ReceiptFresh, ReceiptsTold, Grew
<1>2. \A k \in 1..at' : log'[k].type = "ReceiptRecorded" => log'[k].id \in DOMAIN rows'["receipts"]
  BY DEF ReceiptFresh, Grew, Appended, LoopTyped
<1> QED BY <1>1, <1>2 DEF ReceiptFresh

\* So does a step of the loop that passes no event about a receipt.
LEMMA ReceiptFreshStood ==
  ASSUME LoopTyped, ReceiptFresh, Stood(OfReceipt), rows'["receipts"] = rows["receipts"], receipts' = receipts
  PROVE  ReceiptFresh'
<1>1. ASSUME NEW r \in DOMAIN rows'["receipts"], Quiet(OfReceipt, r)'
      PROVE  rows'["receipts"][r].fulfillmentHash = receipts'[r].fulfillmentHash
  BY <1>1, StoodQuiet DEF ReceiptFresh
<1>2. \A k \in 1..at' : log'[k].type = "ReceiptRecorded" => log'[k].id \in DOMAIN rows'["receipts"]
  BY DEF ReceiptFresh, Stood, LoopTyped, OfReceipt, Event
<1> QED BY <1>1, <1>2 DEF ReceiptFresh

\* The first query of a receipt's handler: its event is still the next one.
LEMMA ReceiptRowsHalfway ==
  ASSUME LoopTyped, ReceiptReal, ReceiptLog, at < Len(log), log' = log, at' = at, receipts' = receipts,
         Event.type = "ReceiptRecorded",
         Wrote("receipts", Event.id, [quote |-> Event.quote, fulfillmentHash |-> ZeroHash])
  PROVE  ReceiptReal' /\ (ReceiptFresh => ReceiptFresh')
<1>1. at + 1 \in DOMAIN log /\ Event = log[at + 1] /\ at + 1 \in (at + 1)..Len(log)
  BY DEF LoopTyped, Event
<1>2. ~Quiet(OfReceipt, Event.id)
  BY <1>1 DEF Quiet, Touches, OfReceipt
<1>3. \A r : Quiet(OfReceipt, r)' <=> Quiet(OfReceipt, r)
  BY DEF Quiet
<1>4. ASSUME NEW r \in DOMAIN rows'["receipts"]
      PROVE  /\ r \in DOMAIN receipts
             /\ rows'["receipts"][r] = [quote |-> receipts[r].quote,
                                        fulfillmentHash |-> rows'["receipts"][r].fulfillmentHash]
             /\ ReceiptFresh /\ Quiet(OfReceipt, r)' =>
                  rows'["receipts"][r].fulfillmentHash = receipts[r].fulfillmentHash
  <2>1. CASE r # Event.id
    <3>1. r \in DOMAIN rows["receipts"] /\ rows'["receipts"][r] = rows["receipts"][r]
      BY <2>1, <1>4 DEF Wrote
    <3> QED BY <3>1, <1>3 DEF ReceiptReal, ReceiptFresh
  <2>2. CASE r = Event.id
    <3>1. rows'["receipts"][r] = [quote |-> Event.quote, fulfillmentHash |-> ZeroHash]
      BY <2>2 DEF Wrote
    <3>2. r \in DOMAIN receipts /\ receipts[r].quote = Event.quote
      BY <1>1, <2>2 DEF ReceiptLog, OfReceipt
    <3> QED BY <3>1, <3>2, <1>2, <1>3, <2>2
  <2> QED BY <2>1, <2>2
<1>5. ReceiptFresh => \A k \in 1..at' : log'[k].type = "ReceiptRecorded" => log'[k].id \in DOMAIN rows'["receipts"]
  BY DEF ReceiptFresh, Wrote
<1> QED BY <1>4, <1>5 DEF ReceiptReal, ReceiptFresh

\* The second query, and a fulfillment.
LEMMA ReceiptRowsPassed ==
  ASSUME LoopTyped, ReceiptReal, ReceiptLog, Passed, receipts' = receipts,
         \/ /\ Event.type = "ReceiptRecorded" /\ rows'["receipts"] = rows["receipts"]
            /\ Event.id \in DOMAIN rows["receipts"] /\ rows["receipts"][Event.id].fulfillmentHash = ZeroHash
         \/ /\ Event.type = "FulfillmentRecorded"
            /\ Patched("receipts", Event.id,
                       [rows["receipts"][Event.id] EXCEPT !.fulfillmentHash = Event.fulfillmentHash])
  PROVE  ReceiptReal' /\ (ReceiptFresh => ReceiptFresh')
<1>1. at + 1 \in DOMAIN log /\ Event = log[at + 1]
  BY DEF LoopTyped, Passed, Event
<1>2. ASSUME NEW r \in DOMAIN rows'["receipts"]
      PROVE  /\ r \in DOMAIN receipts
             /\ rows'["receipts"][r] = [quote |-> receipts[r].quote,
                                        fulfillmentHash |-> rows'["receipts"][r].fulfillmentHash]
             /\ ReceiptFresh /\ Quiet(OfReceipt, r)' =>
                  rows'["receipts"][r].fulfillmentHash = receipts[r].fulfillmentHash
  <2>1. CASE r # Event.id
    <3>1. r \in DOMAIN rows["receipts"] /\ rows'["receipts"][r] = rows["receipts"][r]
      BY <2>1, <1>2 DEF Patched
    <3>2. Quiet(OfReceipt, r)' => Quiet(OfReceipt, r)
      BY <2>1, PassedQuiet DEF Touches
    <3> QED BY <3>1, <3>2 DEF ReceiptReal, ReceiptFresh
  <2>2. CASE r = Event.id
    <3>1. Quiet(OfReceipt, r)' => Final(at + 1, OfReceipt)
      BY <2>2, PassedQuiet
    <3>2. CASE Event.type = "ReceiptRecorded"
      <4>1. /\ rows'["receipts"][r] = rows["receipts"][r] /\ r \in DOMAIN rows["receipts"]
            /\ rows["receipts"][r].fulfillmentHash = ZeroHash
        BY <2>2, <3>2
      <4>2. Final(at + 1, OfReceipt) => receipts[r].fulfillmentHash = ZeroHash
        BY <1>1, <2>2, <3>2 DEF ReceiptLog
      <4> QED BY <3>1, <4>1, <4>2 DEF ReceiptReal
    <3>3. CASE Event.type = "FulfillmentRecorded"
      <4>1. r \in DOMAIN rows["receipts"]
            /\ rows'["receipts"][r] = [rows["receipts"][r] EXCEPT !.fulfillmentHash = Event.fulfillmentHash]
        BY <2>2, <3>3, <1>2 DEF Patched
      <4>2. rows["receipts"][r] = [quote |-> receipts[r].quote,
                                   fulfillmentHash |-> rows["receipts"][r].fulfillmentHash]
            /\ r \in DOMAIN receipts
        BY <4>1 DEF ReceiptReal
      <4>3. rows'["receipts"][r] = [quote |-> receipts[r].quote, fulfillmentHash |-> Event.fulfillmentHash]
        BY <4>1, <4>2
      <4> QED BY <1>1, <2>2, <3>1, <3>3, <4>2, <4>3 DEF ReceiptLog
    <3> QED BY <3>2, <3>3
  <2> QED BY <2>1, <2>2
<1>3. ReceiptFresh => \A k \in 1..at' : log'[k].type = "ReceiptRecorded" => log'[k].id \in DOMAIN rows'["receipts"]
  BY <1>1 DEF ReceiptFresh, Passed, LoopTyped, Patched
<1> QED BY <1>2, <1>3 DEF ReceiptReal, ReceiptFresh

\* Every quote's row is of a committed quote, and shown as settled only if a
\* receipt of it was recorded.
QuoteReal ==
  \A c \in DOMAIN rows["quotes"] :
    /\ c \in Commitments /\ quotes[c] # "none" /\ rows["quotes"][c] \in BOOLEAN
    /\ rows["quotes"][c] = TRUE => \E r \in DOMAIN receipts : receipts[r].quote = c

QuoteEvents == {"QuoteCommitted", "ReceiptRecorded"}

QuoteFresh ==
  /\ \A k \in 1..at : log[k].type \in QuoteEvents => log[k].quote \in DOMAIN rows["quotes"]
  /\ \A k \in 1..at : log[k].type = "ReceiptRecorded" => rows["quotes"][log[k].quote] = TRUE

\* Quotes stay committed and receipts recorded, so the rows stay real.
LEMMA QuoteRealKept ==
  ASSUME QuoteReal, rows'["quotes"] = rows["quotes"],
         \A c \in Commitments : quotes[c] # "none" => quotes'[c] # "none",
         \A r \in DOMAIN receipts : r \in DOMAIN receipts' /\ receipts'[r].quote = receipts[r].quote
  PROVE  QuoteReal'
BY DEF QuoteReal

\* A call leaves the rows as current as they were.
LEMMA QuoteFreshGrew ==
  ASSUME LoopTyped, QuoteFresh, NEW e, Grew(e)
  PROVE  QuoteFresh'
<1>1. /\ \A k \in 1..at' : log'[k].type \in QuoteEvents => log'[k].quote \in DOMAIN rows'["quotes"]
      /\ \A k \in 1..at' : log'[k].type = "ReceiptRecorded" => rows'["quotes"][log'[k].quote] = TRUE
  <2>1. 1..at \in SUBSET DOMAIN log /\ rows' = rows /\ at' = at
        /\ \A k \in DOMAIN log : log'[k] = log[k]
    BY DEF Grew, Appended, LoopTyped
  <2> QED BY <2>1 DEF QuoteFresh
<1> QED BY <1>1 DEF QuoteFresh

\* So does a step of the loop that passes no event about a quote.
LEMMA QuoteFreshStood ==
  ASSUME LoopTyped, QuoteFresh, Stood(QuoteEvents), rows'["quotes"] = rows["quotes"]
  PROVE  QuoteFresh'
<1>1. /\ \A k \in 1..at' : log'[k].type \in QuoteEvents => log'[k].quote \in DOMAIN rows'["quotes"]
      /\ \A k \in 1..at' : log'[k].type = "ReceiptRecorded" => rows'["quotes"][log'[k].quote] = TRUE
  BY DEF QuoteFresh, Stood, LoopTyped, QuoteEvents, Event
<1> QED BY <1>1 DEF QuoteFresh

\* A quote's row is written, with the flag it may have, or marked as settled.
QuoteWritten ==
  \/ /\ Event.type = "QuoteCommitted"
     /\ DOMAIN rows'["quotes"] = DOMAIN rows["quotes"] \cup {Event.quote}
     /\ Event.quote \in DOMAIN rows["quotes"] => rows'["quotes"][Event.quote] = rows["quotes"][Event.quote]
     /\ Event.quote \notin DOMAIN rows["quotes"] => rows'["quotes"][Event.quote] = FALSE
     /\ \A c \in DOMAIN rows["quotes"] \ {Event.quote} : rows'["quotes"][c] = rows["quotes"][c]
  \/ /\ Event.type = "ReceiptRecorded" /\ Event.quote \in DOMAIN rows["quotes"]
     /\ DOMAIN rows'["quotes"] = DOMAIN rows["quotes"]
     /\ rows'["quotes"][Event.quote] = TRUE
     /\ \A c \in DOMAIN rows["quotes"] \ {Event.quote} : rows'["quotes"][c] = rows["quotes"][c]

\* The handlers that write the table keep it right.
LEMMA QuoteRowsPassed ==
  ASSUME LoopTyped, QuoteReal, QuoteLog, ReceiptLog, Passed, quotes' = quotes, receipts' = receipts, QuoteWritten
  PROVE  QuoteReal' /\ (QuoteFresh => QuoteFresh')
<1>1. at + 1 \in DOMAIN log /\ Event = log[at + 1]
  BY DEF LoopTyped, Passed, Event
<1>2. ASSUME NEW c \in DOMAIN rows'["quotes"]
      PROVE  /\ c \in Commitments /\ quotes[c] # "none" /\ rows'["quotes"][c] \in BOOLEAN
             /\ rows'["quotes"][c] = TRUE => \E r \in DOMAIN receipts : receipts[r].quote = c
  <2>1. CASE c \in DOMAIN rows["quotes"] /\ rows'["quotes"][c] = rows["quotes"][c]
    BY <2>1 DEF QuoteReal
  <2>2. CASE c = Event.quote /\ Event.type = "QuoteCommitted" /\ rows'["quotes"][c] = FALSE
    BY <1>1, <2>2 DEF QuoteLog
  <2>3. CASE c = Event.quote /\ Event.type = "ReceiptRecorded" /\ rows'["quotes"][c] = TRUE
    <3>1. \E r \in DOMAIN receipts : receipts[r].quote = c
      BY <1>1, <2>3 DEF ReceiptLog, OfReceipt
    <3>2. c \in DOMAIN rows["quotes"]
      BY <2>3 DEF QuoteWritten
    <3>3. c \in Commitments /\ quotes[c] # "none"
      BY <3>2 DEF QuoteReal
    <3>4. rows'["quotes"][c] \in BOOLEAN
      BY <2>3
    <3> QED BY <3>1, <3>3, <3>4
  <2> QED BY <2>1, <2>2, <2>3, <1>2 DEF QuoteWritten
<1>3. ASSUME QuoteFresh, NEW k \in 1..at'
      PROVE  /\ log'[k].type \in QuoteEvents => log'[k].quote \in DOMAIN rows'["quotes"]
             /\ log'[k].type = "ReceiptRecorded" => rows'["quotes"][log'[k].quote] = TRUE
  <2>1. CASE k \in 1..at
    <3>1. log'[k] = log[k] /\ DOMAIN rows["quotes"] \subseteq DOMAIN rows'["quotes"]
      BY DEF Passed, QuoteWritten
    <3>2. \A c \in DOMAIN rows["quotes"] : rows["quotes"][c] = TRUE => rows'["quotes"][c] = TRUE
      BY DEF QuoteWritten
    <3>3. log[k].type \in QuoteEvents => log[k].quote \in DOMAIN rows["quotes"]
      BY <1>3, <2>1 DEF QuoteFresh
    <3>4. log[k].type = "ReceiptRecorded" =>
            rows["quotes"][log[k].quote] = TRUE /\ log[k].quote \in DOMAIN rows["quotes"]
      BY <1>3, <2>1, <3>3 DEF QuoteFresh, QuoteEvents
    <3>5. log[k].type = "ReceiptRecorded" => rows'["quotes"][log[k].quote] = TRUE
      BY <3>2, <3>4
    <3> QED BY <3>1, <3>3, <3>5
  <2>2. CASE k = at + 1
    BY <1>1, <2>2 DEF Passed, QuoteWritten, QuoteEvents
  <2>3. k \in 1..at \/ k = at + 1
    BY DEF Passed, LoopTyped
  <2> QED BY <2>1, <2>2, <2>3
<1> QED BY <1>2, <1>3 DEF QuoteReal, QuoteFresh

----------------------------------------------------------------------------
(* The mirror's invariant, and the steps of the loop.                      *)

ServiceRows == ServiceReal /\ (ServiceIdsUnique => ServiceFresh)
QuoteRows == QuoteReal /\ (ServiceIdsUnique => QuoteFresh)
ReceiptRows == ReceiptReal /\ (ServiceIdsUnique => ReceiptFresh)
DisputeRows == DisputeReal /\ (ServiceIdsUnique => DisputeFresh)

MirrorInv ==
  /\ ContractInv /\ LogInv /\ LoopTyped /\ PendingReal
  /\ MerchantRows /\ ServiceRows /\ FacilitatorRows /\ QuoteRows /\ ReceiptRows
  /\ DisputeRows /\ SignalRows

\* A step of the loop: the contract and its log stand still.
LoopStep ==
  /\ UNCHANGED <<vars, log>> /\ DOMAIN rows' = Tables
  /\ at' \in Nat /\ stored' \in Nat /\ stored' <= at' /\ at' <= Len(log)

\* A step of the loop leaves the contract, its log and the uniqueness of ids alone.
LEMMA LoopKeeps ==
  ASSUME MirrorInv, LoopStep
  PROVE  /\ ContractInv' /\ LogInv' /\ LoopTyped'
         /\ ServiceIdsUnique' <=> ServiceIdsUnique
<1> USE DEF LoopStep, vars, directory
<1>1. ContractInv'
  BY DEF MirrorInv, ContractInv, TypeOK, FacilitatorIndexExact, ChainSound, Committed
<1>2. LogTyped' /\ MerchantLog' /\ ServiceLog' /\ FacilitatorLog'
  BY DEF MirrorInv, LogInv, LogTyped, MerchantLog, ServiceLog, FacilitatorLog, Recorded, RecordedBefore, Final
<1>3. QuoteLog' /\ ReceiptLog'
  BY DEF MirrorInv, LogInv, QuoteLog, ReceiptLog, Recorded, RecordedBefore, CommittedBefore, Final
<1>4. DisputeLog' /\ SignalLog'
  BY DEF MirrorInv, LogInv, DisputeLog, SignalLog, Recorded, RecordedBefore, Final
<1>5. LoopTyped'
  BY DEF MirrorInv, LoopTyped
<1>6. ServiceIdsUnique' <=> ServiceIdsUnique
  BY DEF ServiceIdsUnique
<1> QED BY <1>1, <1>2, <1>3, <1>4, <1>5, <1>6 DEF LogInv

\* A table that a step of the loop neither writes nor passes an event of.
LEMMA TablesStood ==
  ASSUME MirrorInv, LoopStep
  PROVE  /\ rows'["merchants"] = rows["merchants"] /\ Stood(OfMerchant) => MerchantRows'
         /\ rows'["services"] = rows["services"] /\ Stood(OfService)
            /\ DOMAIN rows["merchants"] \subseteq DOMAIN rows'["merchants"] => ServiceRows'
         /\ rows'["facilitators"] = rows["facilitators"] /\ Stood(OfFacilitator) => FacilitatorRows'
         /\ rows'["quotes"] = rows["quotes"] /\ Stood(QuoteEvents) => QuoteRows'
         /\ rows'["receipts"] = rows["receipts"] /\ Stood(OfReceipt) => ReceiptRows'
         /\ rows'["disputes"] = rows["disputes"] /\ Stood(OfDispute) => DisputeRows'
         /\ rows'["signals"] = rows["signals"] /\ Stood({"TrustSignalRecorded"}) => SignalRows'
<1>0. /\ merchants' = merchants /\ services' = services /\ facilitatorsById' = facilitatorsById
      /\ quotes' = quotes /\ receipts' = receipts /\ disputes' = disputes /\ trustSignals' = trustSignals
      /\ log' = log
  BY DEF LoopStep, vars, directory
<1>1. LoopTyped /\ (ServiceIdsUnique' => ServiceIdsUnique)
  BY LoopKeeps DEF MirrorInv
<1>2. rows'["merchants"] = rows["merchants"] /\ Stood(OfMerchant) => MerchantRows'
  BY <1>0, <1>1, MerchantRowsStood DEF MirrorInv
<1>3. rows'["services"] = rows["services"] /\ Stood(OfService)
      /\ DOMAIN rows["merchants"] \subseteq DOMAIN rows'["merchants"] => ServiceRows'
  BY <1>0, <1>1, ServiceRealKept, ServiceFreshStood DEF MirrorInv, ServiceRows
<1>4. rows'["facilitators"] = rows["facilitators"] /\ Stood(OfFacilitator) => FacilitatorRows'
  BY <1>0, <1>1, FacilitatorRowsStood DEF MirrorInv
<1>5. rows'["quotes"] = rows["quotes"] /\ Stood(QuoteEvents) => QuoteRows'
  BY <1>0, <1>1, QuoteRealKept, QuoteFreshStood DEF MirrorInv, QuoteRows
<1>6. rows'["receipts"] = rows["receipts"] /\ Stood(OfReceipt) => ReceiptRows'
  BY <1>0, <1>1, ReceiptRealKept, ReceiptFreshStood DEF MirrorInv, ReceiptRows
<1>7. rows'["disputes"] = rows["disputes"] /\ Stood(OfDispute) => DisputeRows'
  <2>1. \A d : Recorded("DisputeResolved", d) => Recorded("DisputeResolved", d)'
    BY <1>0 DEF Recorded
  <2> QED BY <1>0, <1>1, <2>1, DisputeRealKept, DisputeFreshStood DEF MirrorInv, DisputeRows
<1>8. rows'["signals"] = rows["signals"] /\ Stood({"TrustSignalRecorded"}) => SignalRows'
  BY <1>0, <1>1, SignalRowsStood DEF MirrorInv
<1> QED BY <1>2, <1>3, <1>4, <1>5, <1>6, <1>7, <1>8

\* While service ids are unique, the database refuses nothing: what an event
\* refers to was recorded before it, and has its row.
LEMMA NeverRefused ==
  ASSUME MirrorInv, ServiceIdsUnique, Refused
  PROVE  FALSE
<1>0. at + 1 \in DOMAIN log /\ Event = log[at + 1] /\ LoopTyped /\ LogInv
  BY DEF MirrorInv, LoopTyped, Refused, Event
<1>1. \A k \in DOMAIN log : k < at + 1 => k \in 1..at
  BY <1>0 DEF LoopTyped
<1>2. CASE Event.type = "ServiceRegistered"
  <2>1. Has("merchants", Event.merchantId)
    <3>1. PICK k \in DOMAIN log : k < at + 1 /\ About(log[k], "MerchantRegistered", Event.merchantId)
      BY <1>0, <1>2 DEF LogInv, ServiceLog, RecordedBefore
    <3> QED BY <1>1, <3>1 DEF MirrorInv, MerchantRows, About, Has
  <2>2. ASSUME NEW s \in DOMAIN rows["services"] \ {Event.id},
               rows["services"][s].merchantId = Event.merchantId, rows["services"][s].serviceId = Event.serviceId
        PROVE  FALSE
    <3>1. /\ s \in DOMAIN services /\ services[s].merchantId = Event.merchantId
          /\ services[s].serviceId = Event.serviceId
      <4>1. PICK active : rows["services"][s] =
              [merchantId |-> services[s].merchantId, serviceId |-> services[s].serviceId, active |-> active]
        BY DEF MirrorInv, ServiceRows, ServiceReal
      <4> QED BY <2>2, <4>1 DEF MirrorInv, ServiceRows, ServiceReal
    <3>2. /\ Event.id \in DOMAIN services /\ services[Event.id].merchantId = Event.merchantId
          /\ services[Event.id].serviceId = Event.serviceId
      BY <1>0, <1>2 DEF LogInv, ServiceLog, OfService
    <3> QED BY <3>1, <3>2 DEF ServiceIdsUnique
  <2> QED BY <1>2, <2>1, <2>2 DEF Refused
<1>3. CASE Event.type = "QuoteCommitted"
  <2>1. PICK k \in DOMAIN log : k < at + 1 /\ About(log[k], "ServiceRegistered", Event.quote.serviceNumericId)
    BY <1>0, <1>3 DEF LogInv, QuoteLog, RecordedBefore
  <2>2. Has("services", Event.quote.serviceNumericId)
    BY <1>1, <2>1 DEF MirrorInv, ServiceRows, ServiceFresh, About, Has
  <2> QED BY <1>3, <2>2 DEF Refused
<1>4. CASE Event.type = "ReceiptRecorded"
  <2>1. PICK k \in DOMAIN log : k < at + 1 /\ log[k].type = "QuoteCommitted" /\ log[k].quote = Event.quote
    BY <1>0, <1>4 DEF LogInv, ReceiptLog, CommittedBefore
  <2>2. Has("quotes", Event.quote)
    BY <1>1, <2>1 DEF MirrorInv, QuoteRows, QuoteFresh, QuoteEvents, Has
  <2> QED BY <1>4, <2>2 DEF Refused
<1>5. CASE Event.type = "DisputeOpened"
  <2>1. PICK k \in DOMAIN log : k < at + 1 /\ About(log[k], "ReceiptRecorded", Event.receiptId)
    BY <1>0, <1>5 DEF LogInv, DisputeLog, RecordedBefore
  <2>2. Has("receipts", Event.receiptId)
    BY <1>1, <2>1 DEF MirrorInv, ReceiptRows, ReceiptFresh, About, Has
  <2> QED BY <1>5, <2>2 DEF Refused
<1> QED BY <1>2, <1>3, <1>4, <1>5 DEF Refused

\* What a quote's handler, and the second query of a receipt's, write.
LEMMA QuoteUpserted ==
  ASSUME DOMAIN rows = Tables, QuoteReal,
         Upsert("quotes", Event.quote, Has("quotes", Event.quote) /\ rows["quotes"][Event.quote])
  PROVE  /\ DOMAIN rows'["quotes"] = DOMAIN rows["quotes"] \cup {Event.quote}
         /\ Event.quote \in DOMAIN rows["quotes"] => rows'["quotes"][Event.quote] = rows["quotes"][Event.quote]
         /\ Event.quote \notin DOMAIN rows["quotes"] => rows'["quotes"][Event.quote] = FALSE
         /\ \A c \in DOMAIN rows["quotes"] \ {Event.quote} : rows'["quotes"][c] = rows["quotes"][c]
         /\ OthersKept("quotes")
<1> DEFINE q == Event.quote
           flag == Has("quotes", q) /\ rows["quotes"][q]
           table == [k \in DOMAIN rows["quotes"] \cup {q} |-> IF k = q THEN flag ELSE rows["quotes"][k]]
<1>1. rows' = [rows EXCEPT !["quotes"] = table]
  BY DEF Upsert
<1>2. rows'["quotes"] = table /\ OthersKept("quotes")
  <2> HIDE DEF table
  <2> QED BY <1>1 DEF OthersKept, Tables
<1>3. table[q] = flag
  OBVIOUS
<1>4. q \in DOMAIN rows["quotes"] => flag = rows["quotes"][q]
  BY DEF QuoteReal, Has
<1>5. q \notin DOMAIN rows["quotes"] => flag = FALSE
  BY DEF Has
<1>6. DOMAIN table = DOMAIN rows["quotes"] \cup {q} /\ \A c \in DOMAIN rows["quotes"] \ {q} : table[c] = rows["quotes"][c]
  OBVIOUS
<1> HIDE DEF table, flag
<1> QED BY <1>2, <1>3, <1>4, <1>5, <1>6

\* The same for marking a quote as settled.
LEMMA QuoteSettled ==
  ASSUME DOMAIN rows = Tables, NEW q \in DOMAIN rows["quotes"], MarkSettled(q)
  PROVE  /\ DOMAIN rows'["quotes"] = DOMAIN rows["quotes"]
         /\ rows'["quotes"][q] = TRUE
         /\ \A c \in DOMAIN rows["quotes"] \ {q} : rows'["quotes"][c] = rows["quotes"][c]
         /\ OthersKept("quotes")
<1> DEFINE table == [k \in DOMAIN rows["quotes"] |-> IF k = q THEN TRUE ELSE rows["quotes"][k]]
<1>1. rows' = [rows EXCEPT !["quotes"] = table]
  BY DEF Update, MarkSettled
<1>2. rows'["quotes"] = table /\ OthersKept("quotes")
  <2> HIDE DEF table
  <2> QED BY <1>1 DEF OthersKept, Tables
<1>3. table[q] = TRUE
  OBVIOUS
<1>4. DOMAIN table = DOMAIN rows["quotes"] /\ \A c \in DOMAIN rows["quotes"] \ {q} : table[c] = rows["quotes"][c]
  OBVIOUS
<1> HIDE DEF table
<1> QED BY <1>2, <1>3, <1>4

\* A handler that is done: the loop passed its event, the other tables stood.
LEMMA HandlerKeeps ==
  ASSUME MirrorInv, UNCHANGED vars, UNCHANGED <<log, stored>>, Done, at < Len(log),
         NEW table \in Tables, OthersKept(table)
  PROVE  /\ LoopStep /\ Passed /\ PendingReal'
         /\ ContractInv' /\ LogInv' /\ LoopTyped' /\ (ServiceIdsUnique' <=> ServiceIdsUnique)
         /\ \A types : Event.type \notin types => Stood(types)
<1>1. LoopStep /\ Passed /\ PendingReal' /\ \A types : Event.type \notin types => Stood(types)
  BY DEF MirrorInv, LoopTyped, LoopStep, Passed, PendingReal, Stood, Done, OthersKept
<1> QED BY <1>1, LoopKeeps

\* Every handler keeps the invariant.
LEMMA HandlerStep ==
  ASSUME MirrorInv, UNCHANGED vars, UNCHANGED <<log, stored>>, Done, Handler
  PROVE  MirrorInv'
<1> USE DEF OfMerchant, OfService, OfFacilitator, QuoteEvents, OfReceipt, OfDispute, Handle
<1>0. /\ DOMAIN rows = Tables /\ LoopTyped
      /\ merchants' = merchants /\ services' = services /\ facilitatorsById' = facilitatorsById
      /\ quotes' = quotes /\ receipts' = receipts /\ disputes' = disputes /\ trustSignals' = trustSignals
  BY DEF MirrorInv, LoopTyped, vars, directory
<1>1. CASE HandleMerchantRegistered
  <2>1. Event.type = "MerchantRegistered" /\ at < Len(log) /\ "merchants" \in Tables
    BY <1>1 DEF HandleMerchantRegistered, Tables
  <2>2. OthersKept("merchants") /\ Wrote("merchants", Event.id, [owner |-> Event.owner, active |-> TRUE])
    BY <1>0, <1>1, <2>1, UpsertWrote DEF HandleMerchantRegistered
  <2>3. /\ LoopStep /\ Passed /\ PendingReal' /\ ContractInv' /\ LogInv' /\ LoopTyped'
        /\ ServiceIdsUnique' <=> ServiceIdsUnique
        /\ \A types : Event.type \notin types => Stood(types)
    BY <2>1, <2>2, HandlerKeeps
  <2>4. MerchantRows'
    BY <1>0, <2>1, <2>2, <2>3, MerchantRowsPassed DEF MirrorInv, LogInv
  <2>5. ServiceRows' /\ FacilitatorRows' /\ QuoteRows' /\ ReceiptRows' /\ DisputeRows' /\ SignalRows'
    <3>1. rows'["services"] = rows["services"] /\ rows'["facilitators"] = rows["facilitators"] /\ rows'["quotes"] = rows["quotes"]
          /\ rows'["receipts"] = rows["receipts"] /\ rows'["disputes"] = rows["disputes"] /\ rows'["signals"] = rows["signals"]
      BY <2>2 DEF OthersKept, Tables
    <3>2. DOMAIN rows["merchants"] \subseteq DOMAIN rows'["merchants"]
      BY <2>2 DEF Wrote, Patched
    <3> QED BY <2>1, <2>3, <3>1, <3>2, TablesStood
  <2> QED BY <2>3, <2>4, <2>5 DEF MirrorInv
<1>2. CASE HandleServiceRegistered
  <2>1. Event.type = "ServiceRegistered" /\ at < Len(log) /\ "services" \in Tables
    BY <1>2 DEF HandleServiceRegistered, Tables
  <2>2. OthersKept("services") /\ ServiceWritten
    BY <1>0, <1>2, <2>1, UpsertWrote DEF HandleServiceRegistered, ServiceWritten, Has
  <2>3. /\ LoopStep /\ Passed /\ PendingReal' /\ ContractInv' /\ LogInv' /\ LoopTyped'
        /\ ServiceIdsUnique' <=> ServiceIdsUnique
        /\ \A types : Event.type \notin types => Stood(types)
    BY <2>1, <2>2, HandlerKeeps
  <2>4. ServiceRows'
    <3>1. rows'["merchants"] = rows["merchants"]
      BY <2>2 DEF OthersKept, Tables
    <3> QED BY <1>0, <2>1, <2>2, <2>3, <3>1, ServiceRowsPassed DEF MirrorInv, LogInv, ServiceRows
  <2>5. MerchantRows' /\ FacilitatorRows' /\ QuoteRows' /\ ReceiptRows' /\ DisputeRows' /\ SignalRows'
    <3>1. rows'["merchants"] = rows["merchants"] /\ rows'["facilitators"] = rows["facilitators"] /\ rows'["quotes"] = rows["quotes"]
          /\ rows'["receipts"] = rows["receipts"] /\ rows'["disputes"] = rows["disputes"] /\ rows'["signals"] = rows["signals"]
      BY <2>2 DEF OthersKept, Tables
    <3> QED BY <2>1, <2>3, <3>1, TablesStood
  <2> QED BY <2>3, <2>4, <2>5 DEF MirrorInv
<1>3. CASE HandleFacilitatorRegistered
  <2>1. Event.type = "FacilitatorRegistered" /\ at < Len(log) /\ "facilitators" \in Tables
    BY <1>3 DEF HandleFacilitatorRegistered, Tables
  <2>2. OthersKept("facilitators") /\ Wrote("facilitators", Event.id, [facilitator |-> Event.facilitator, active |-> TRUE])
    BY <1>0, <1>3, <2>1, UpsertWrote DEF HandleFacilitatorRegistered
  <2>3. /\ LoopStep /\ Passed /\ PendingReal' /\ ContractInv' /\ LogInv' /\ LoopTyped'
        /\ ServiceIdsUnique' <=> ServiceIdsUnique
        /\ \A types : Event.type \notin types => Stood(types)
    BY <2>1, <2>2, HandlerKeeps
  <2>4. FacilitatorRows'
    BY <1>0, <2>1, <2>2, <2>3, FacilitatorRowsPassed DEF MirrorInv, LogInv
  <2>5. MerchantRows' /\ ServiceRows' /\ QuoteRows' /\ ReceiptRows' /\ DisputeRows' /\ SignalRows'
    <3>1. rows'["merchants"] = rows["merchants"] /\ rows'["services"] = rows["services"] /\ rows'["quotes"] = rows["quotes"]
          /\ rows'["receipts"] = rows["receipts"] /\ rows'["disputes"] = rows["disputes"] /\ rows'["signals"] = rows["signals"]
      BY <2>2 DEF OthersKept, Tables
    <3> QED BY <2>1, <2>3, <3>1, TablesStood
  <2> QED BY <2>3, <2>4, <2>5 DEF MirrorInv
<1>4. CASE HandleUpdated("merchants", "MerchantUpdated")
  <2>1. Event.type = "MerchantUpdated" /\ at < Len(log) /\ "merchants" \in Tables
    BY <1>4 DEF HandleUpdated, Tables
  <2>2. OthersKept("merchants") /\ Patched("merchants", Event.id, [rows["merchants"][Event.id] EXCEPT !.active = Event.active])
    BY <1>0, <1>4, <2>1, UpdatePatched DEF HandleUpdated
  <2>3. /\ LoopStep /\ Passed /\ PendingReal' /\ ContractInv' /\ LogInv' /\ LoopTyped'
        /\ ServiceIdsUnique' <=> ServiceIdsUnique
        /\ \A types : Event.type \notin types => Stood(types)
    BY <2>1, <2>2, HandlerKeeps
  <2>4. MerchantRows'
    BY <1>0, <2>1, <2>2, <2>3, MerchantRowsPassed DEF MirrorInv, LogInv
  <2>5. ServiceRows' /\ FacilitatorRows' /\ QuoteRows' /\ ReceiptRows' /\ DisputeRows' /\ SignalRows'
    <3>1. rows'["services"] = rows["services"] /\ rows'["facilitators"] = rows["facilitators"] /\ rows'["quotes"] = rows["quotes"]
          /\ rows'["receipts"] = rows["receipts"] /\ rows'["disputes"] = rows["disputes"] /\ rows'["signals"] = rows["signals"]
      BY <2>2 DEF OthersKept, Tables
    <3>2. DOMAIN rows["merchants"] \subseteq DOMAIN rows'["merchants"]
      BY <2>2 DEF Wrote, Patched
    <3> QED BY <2>1, <2>3, <3>1, <3>2, TablesStood
  <2> QED BY <2>3, <2>4, <2>5 DEF MirrorInv
<1>5. CASE HandleUpdated("services", "ServiceUpdated")
  <2>1. Event.type = "ServiceUpdated" /\ at < Len(log) /\ "services" \in Tables
    BY <1>5 DEF HandleUpdated, Tables
  <2>2. OthersKept("services") /\ ServiceWritten
    BY <1>0, <1>5, <2>1, UpdatePatched DEF HandleUpdated, ServiceWritten
  <2>3. /\ LoopStep /\ Passed /\ PendingReal' /\ ContractInv' /\ LogInv' /\ LoopTyped'
        /\ ServiceIdsUnique' <=> ServiceIdsUnique
        /\ \A types : Event.type \notin types => Stood(types)
    BY <2>1, <2>2, HandlerKeeps
  <2>4. ServiceRows'
    <3>1. rows'["merchants"] = rows["merchants"]
      BY <2>2 DEF OthersKept, Tables
    <3> QED BY <1>0, <2>1, <2>2, <2>3, <3>1, ServiceRowsPassed DEF MirrorInv, LogInv, ServiceRows
  <2>5. MerchantRows' /\ FacilitatorRows' /\ QuoteRows' /\ ReceiptRows' /\ DisputeRows' /\ SignalRows'
    <3>1. rows'["merchants"] = rows["merchants"] /\ rows'["facilitators"] = rows["facilitators"] /\ rows'["quotes"] = rows["quotes"]
          /\ rows'["receipts"] = rows["receipts"] /\ rows'["disputes"] = rows["disputes"] /\ rows'["signals"] = rows["signals"]
      BY <2>2 DEF OthersKept, Tables
    <3> QED BY <2>1, <2>3, <3>1, TablesStood
  <2> QED BY <2>3, <2>4, <2>5 DEF MirrorInv
<1>6. CASE HandleUpdated("facilitators", "FacilitatorUpdated")
  <2>1. Event.type = "FacilitatorUpdated" /\ at < Len(log) /\ "facilitators" \in Tables
    BY <1>6 DEF HandleUpdated, Tables
  <2>2. OthersKept("facilitators") /\ Patched("facilitators", Event.id, [rows["facilitators"][Event.id] EXCEPT !.active = Event.active])
    BY <1>0, <1>6, <2>1, UpdatePatched DEF HandleUpdated
  <2>3. /\ LoopStep /\ Passed /\ PendingReal' /\ ContractInv' /\ LogInv' /\ LoopTyped'
        /\ ServiceIdsUnique' <=> ServiceIdsUnique
        /\ \A types : Event.type \notin types => Stood(types)
    BY <2>1, <2>2, HandlerKeeps
  <2>4. FacilitatorRows'
    BY <1>0, <2>1, <2>2, <2>3, FacilitatorRowsPassed DEF MirrorInv, LogInv
  <2>5. MerchantRows' /\ ServiceRows' /\ QuoteRows' /\ ReceiptRows' /\ DisputeRows' /\ SignalRows'
    <3>1. rows'["merchants"] = rows["merchants"] /\ rows'["services"] = rows["services"] /\ rows'["quotes"] = rows["quotes"]
          /\ rows'["receipts"] = rows["receipts"] /\ rows'["disputes"] = rows["disputes"] /\ rows'["signals"] = rows["signals"]
      BY <2>2 DEF OthersKept, Tables
    <3> QED BY <2>1, <2>3, <3>1, TablesStood
  <2> QED BY <2>3, <2>4, <2>5 DEF MirrorInv
<1>7. CASE HandleQuoteCommitted
  <2>1. Event.type = "QuoteCommitted" /\ at < Len(log) /\ "quotes" \in Tables
    BY <1>7 DEF HandleQuoteCommitted, Tables
  <2>2. OthersKept("quotes") /\ QuoteWritten
    BY <1>0, <1>7, <2>1, QuoteUpserted DEF HandleQuoteCommitted, Has, QuoteWritten, MirrorInv, QuoteRows
  <2>3. /\ LoopStep /\ Passed /\ PendingReal' /\ ContractInv' /\ LogInv' /\ LoopTyped'
        /\ ServiceIdsUnique' <=> ServiceIdsUnique
        /\ \A types : Event.type \notin types => Stood(types)
    BY <2>1, <2>2, HandlerKeeps
  <2>4. QuoteRows'
    BY <1>0, <2>1, <2>2, <2>3, QuoteRowsPassed DEF MirrorInv, LogInv, QuoteRows
  <2>5. MerchantRows' /\ ServiceRows' /\ FacilitatorRows' /\ ReceiptRows' /\ DisputeRows' /\ SignalRows'
    <3>1. rows'["merchants"] = rows["merchants"] /\ rows'["services"] = rows["services"] /\ rows'["facilitators"] = rows["facilitators"]
          /\ rows'["receipts"] = rows["receipts"] /\ rows'["disputes"] = rows["disputes"] /\ rows'["signals"] = rows["signals"]
      BY <2>2 DEF OthersKept, Tables
    <3> QED BY <2>1, <2>3, <3>1, TablesStood
  <2> QED BY <2>3, <2>4, <2>5 DEF MirrorInv
<1>8. CASE HandleFulfillmentRecorded
  <2>1. Event.type = "FulfillmentRecorded" /\ at < Len(log) /\ "receipts" \in Tables
    BY <1>8 DEF HandleFulfillmentRecorded, Tables
  <2>2. OthersKept("receipts") /\ Patched("receipts", Event.id,
                 [rows["receipts"][Event.id] EXCEPT !.fulfillmentHash = Event.fulfillmentHash])
    BY <1>0, <1>8, <2>1, UpdatePatched DEF HandleFulfillmentRecorded
  <2>3. /\ LoopStep /\ Passed /\ PendingReal' /\ ContractInv' /\ LogInv' /\ LoopTyped'
        /\ ServiceIdsUnique' <=> ServiceIdsUnique
        /\ \A types : Event.type \notin types => Stood(types)
    BY <2>1, <2>2, HandlerKeeps
  <2>4. ReceiptRows'
    BY <1>0, <2>1, <2>2, <2>3, ReceiptRowsPassed DEF MirrorInv, LogInv, ReceiptRows
  <2>5. MerchantRows' /\ ServiceRows' /\ FacilitatorRows' /\ QuoteRows' /\ DisputeRows' /\ SignalRows'
    <3>1. rows'["merchants"] = rows["merchants"] /\ rows'["services"] = rows["services"] /\ rows'["facilitators"] = rows["facilitators"]
          /\ rows'["quotes"] = rows["quotes"] /\ rows'["disputes"] = rows["disputes"] /\ rows'["signals"] = rows["signals"]
      BY <2>2 DEF OthersKept, Tables
    <3> QED BY <2>1, <2>3, <3>1, TablesStood
  <2> QED BY <2>3, <2>4, <2>5 DEF MirrorInv
<1>9. CASE HandleTrustSignalRecorded
  <2>1. Event.type = "TrustSignalRecorded" /\ at < Len(log) /\ "signals" \in Tables
    BY <1>9 DEF HandleTrustSignalRecorded, Tables
  <2>2. OthersKept("signals") /\ Wrote("signals", Event.id, Event.reporter)
    BY <1>0, <1>9, <2>1, UpsertWrote DEF HandleTrustSignalRecorded
  <2>3. /\ LoopStep /\ Passed /\ PendingReal' /\ ContractInv' /\ LogInv' /\ LoopTyped'
        /\ ServiceIdsUnique' <=> ServiceIdsUnique
        /\ \A types : Event.type \notin types => Stood(types)
    BY <2>1, <2>2, HandlerKeeps
  <2>4. SignalRows'
    BY <1>0, <2>1, <2>2, <2>3, SignalRowsPassed DEF MirrorInv, LogInv
  <2>5. MerchantRows' /\ ServiceRows' /\ FacilitatorRows' /\ QuoteRows' /\ ReceiptRows' /\ DisputeRows'
    <3>1. rows'["merchants"] = rows["merchants"] /\ rows'["services"] = rows["services"] /\ rows'["facilitators"] = rows["facilitators"]
          /\ rows'["quotes"] = rows["quotes"] /\ rows'["receipts"] = rows["receipts"] /\ rows'["disputes"] = rows["disputes"]
      BY <2>2 DEF OthersKept, Tables
    <3> QED BY <2>1, <2>3, <3>1, TablesStood
  <2> QED BY <2>3, <2>4, <2>5 DEF MirrorInv
<1>10. CASE HandleDisputeOpened
  <2>1. Event.type = "DisputeOpened" /\ at < Len(log) /\ "disputes" \in Tables
    BY <1>10 DEF HandleDisputeOpened, Tables
  <2>2. OthersKept("disputes") /\ DisputeWritten
    BY <1>0, <1>10, <2>1, UpsertWrote DEF HandleDisputeOpened, DisputeWritten, Has
  <2>3. /\ LoopStep /\ Passed /\ PendingReal' /\ ContractInv' /\ LogInv' /\ LoopTyped'
        /\ ServiceIdsUnique' <=> ServiceIdsUnique
        /\ \A types : Event.type \notin types => Stood(types)
    BY <2>1, <2>2, HandlerKeeps
  <2>4. DisputeRows'
    BY <1>0, <2>1, <2>2, <2>3, DisputeRowsPassed DEF MirrorInv, LogInv, DisputeRows
  <2>5. MerchantRows' /\ ServiceRows' /\ FacilitatorRows' /\ QuoteRows' /\ ReceiptRows' /\ SignalRows'
    <3>1. rows'["merchants"] = rows["merchants"] /\ rows'["services"] = rows["services"] /\ rows'["facilitators"] = rows["facilitators"]
          /\ rows'["quotes"] = rows["quotes"] /\ rows'["receipts"] = rows["receipts"] /\ rows'["signals"] = rows["signals"]
      BY <2>2 DEF OthersKept, Tables
    <3> QED BY <2>1, <2>3, <3>1, TablesStood
  <2> QED BY <2>3, <2>4, <2>5 DEF MirrorInv
<1>11. CASE HandleDisputeResolved
  <2>1. Event.type = "DisputeResolved" /\ at < Len(log) /\ "disputes" \in Tables
    BY <1>11 DEF HandleDisputeResolved, Tables
  <2>2. OthersKept("disputes") /\ DisputeWritten
    BY <1>0, <1>11, <2>1, UpdatePatched DEF HandleDisputeResolved, DisputeWritten
  <2>3. /\ LoopStep /\ Passed /\ PendingReal' /\ ContractInv' /\ LogInv' /\ LoopTyped'
        /\ ServiceIdsUnique' <=> ServiceIdsUnique
        /\ \A types : Event.type \notin types => Stood(types)
    BY <2>1, <2>2, HandlerKeeps
  <2>4. DisputeRows'
    BY <1>0, <2>1, <2>2, <2>3, DisputeRowsPassed DEF MirrorInv, LogInv, DisputeRows
  <2>5. MerchantRows' /\ ServiceRows' /\ FacilitatorRows' /\ QuoteRows' /\ ReceiptRows' /\ SignalRows'
    <3>1. rows'["merchants"] = rows["merchants"] /\ rows'["services"] = rows["services"] /\ rows'["facilitators"] = rows["facilitators"]
          /\ rows'["quotes"] = rows["quotes"] /\ rows'["receipts"] = rows["receipts"] /\ rows'["signals"] = rows["signals"]
      BY <2>2 DEF OthersKept, Tables
    <3> QED BY <2>1, <2>3, <3>1, TablesStood
  <2> QED BY <2>3, <2>4, <2>5 DEF MirrorInv
<1> QED BY <1>1, <1>2, <1>3, <1>4, <1>5, <1>6, <1>7, <1>8, <1>9, <1>10, <1>11 DEF Handler

\* The handler's end of a receipt, and a row the database refuses.
LEMMA OtherStep ==
  ASSUME MirrorInv, UNCHANGED vars, UNCHANGED <<log, stored>>,
         \/ Refused /\ Done
         \/ HandleReceiptRecorded /\ Halfway(Event.quote)
         \/ \E quote \in pending : MarkSettled(quote) /\ Done
  PROVE  MirrorInv'
<1> USE DEF OfMerchant, OfService, OfFacilitator, QuoteEvents, OfReceipt, OfDispute
<1>0. /\ DOMAIN rows = Tables /\ LoopTyped
      /\ merchants' = merchants /\ services' = services /\ facilitatorsById' = facilitatorsById
      /\ quotes' = quotes /\ receipts' = receipts /\ disputes' = disputes /\ trustSignals' = trustSignals
  BY DEF MirrorInv, LoopTyped, vars, directory
<1>1. CASE Refused /\ Done
  <2>1. /\ at < Len(log) /\ rows' = rows
        /\ Event.type \in {"ServiceRegistered", "QuoteCommitted", "ReceiptRecorded", "DisputeOpened"}
    BY <1>1 DEF Refused
  <2>2. OthersKept("signals") /\ "signals" \in Tables
    BY <1>0, <2>1 DEF OthersKept, Tables
  <2>3. /\ LoopStep /\ Passed /\ PendingReal' /\ ContractInv' /\ LogInv' /\ LoopTyped'
        /\ ServiceIdsUnique' <=> ServiceIdsUnique
        /\ \A types : Event.type \notin types => Stood(types)
    BY <1>1, <2>1, <2>2, HandlerKeeps
  <2>4. MerchantRows' /\ FacilitatorRows' /\ SignalRows'
    BY <2>1, <2>3, TablesStood
  <2>5. ~ServiceIdsUnique'
    BY <1>1, <2>3, NeverRefused
  <2>6. ServiceReal' /\ QuoteReal' /\ ReceiptReal'
    BY <1>0, <2>1, ServiceRealKept, QuoteRealKept, ReceiptRealKept DEF MirrorInv, ServiceRows, QuoteRows, ReceiptRows
  <2>7. DisputeReal'
    <3>1. \A d : Recorded("DisputeResolved", d) => Recorded("DisputeResolved", d)'
      BY DEF Recorded
    <3> QED BY <1>0, <2>1, <3>1, DisputeRealKept DEF MirrorInv, DisputeRows
  <2> QED BY <2>3, <2>4, <2>5, <2>6, <2>7 DEF MirrorInv, ServiceRows, QuoteRows, ReceiptRows, DisputeRows
<1>2. CASE HandleReceiptRecorded /\ Halfway(Event.quote)
  <2>1. /\ Event.type = "ReceiptRecorded" /\ at < Len(log) /\ at' = at /\ pending' = {Event.quote}
        /\ Event.quote \in DOMAIN rows["quotes"] /\ "receipts" \in Tables
    BY <1>2 DEF HandleReceiptRecorded, Handle, Halfway, Has, Tables
  <2>2. OthersKept("receipts") /\ Wrote("receipts", Event.id, [quote |-> Event.quote, fulfillmentHash |-> ZeroHash])
    BY <1>0, <1>2, <2>1, UpsertWrote DEF HandleReceiptRecorded
  <2>3. LoopStep /\ \A types : Stood(types)
    BY <1>0, <2>1, <2>2 DEF LoopStep, LoopTyped, OthersKept, Stood
  <2>4. /\ rows'["merchants"] = rows["merchants"] /\ rows'["services"] = rows["services"]
        /\ rows'["facilitators"] = rows["facilitators"] /\ rows'["quotes"] = rows["quotes"]
        /\ rows'["disputes"] = rows["disputes"] /\ rows'["signals"] = rows["signals"]
    BY <2>2 DEF OthersKept, Tables
  <2>5. MerchantRows' /\ ServiceRows' /\ FacilitatorRows' /\ QuoteRows' /\ DisputeRows' /\ SignalRows'
    BY <2>3, <2>4, TablesStood
  <2>6. ContractInv' /\ LogInv' /\ LoopTyped' /\ (ServiceIdsUnique' <=> ServiceIdsUnique)
    BY <2>3, LoopKeeps
  <2>7. ReceiptRows'
    BY <1>0, <2>1, <2>2, <2>6, ReceiptRowsHalfway DEF MirrorInv, LogInv, ReceiptRows
  <2>8. PendingReal'
    <3>1. Event' = Event
      BY <2>1 DEF Event
    <3>2. Event.id \in DOMAIN rows'["receipts"] /\ rows'["receipts"][Event.id].fulfillmentHash = ZeroHash
      BY <2>2 DEF Wrote
    <3> QED BY <2>1, <2>4, <3>1, <3>2 DEF PendingReal
  <2> QED BY <2>5, <2>6, <2>7, <2>8 DEF MirrorInv
<1>3. ASSUME NEW quote \in pending, MarkSettled(quote), Done
      PROVE  MirrorInv'
  <2>1. /\ at < Len(log) /\ Event.type = "ReceiptRecorded" /\ quote = Event.quote
        /\ Event.id \in DOMAIN rows["receipts"] /\ rows["receipts"][Event.id].fulfillmentHash = ZeroHash
        /\ Event.quote \in DOMAIN rows["quotes"] /\ "quotes" \in Tables
    BY <1>3 DEF MirrorInv, PendingReal, Tables
  <2>2. OthersKept("quotes") /\ QuoteWritten
    BY <1>0, <1>3, <2>1, QuoteSettled DEF QuoteWritten
  <2>3. /\ LoopStep /\ Passed /\ PendingReal' /\ ContractInv' /\ LogInv' /\ LoopTyped'
        /\ ServiceIdsUnique' <=> ServiceIdsUnique
        /\ \A types : Event.type \notin types => Stood(types)
    BY <1>3, <2>1, <2>2, HandlerKeeps
  <2>4. /\ rows'["merchants"] = rows["merchants"] /\ rows'["services"] = rows["services"]
        /\ rows'["facilitators"] = rows["facilitators"] /\ rows'["receipts"] = rows["receipts"]
        /\ rows'["disputes"] = rows["disputes"] /\ rows'["signals"] = rows["signals"]
    BY <2>2 DEF OthersKept, Tables
  <2>5. MerchantRows' /\ ServiceRows' /\ FacilitatorRows' /\ DisputeRows' /\ SignalRows'
    BY <2>1, <2>3, <2>4, TablesStood
  <2>6. QuoteRows'
    BY <1>0, <2>2, <2>3, QuoteRowsPassed DEF MirrorInv, LogInv, QuoteRows
  <2>7. ReceiptRows'
    BY <1>0, <2>1, <2>3, <2>4, ReceiptRowsPassed DEF MirrorInv, LogInv, ReceiptRows
  <2> QED BY <2>3, <2>5, <2>6, <2>7 DEF MirrorInv
<1> QED BY <1>1, <1>2, <1>3

\* Storing moves nothing; a crash moves the loop back to what it stored.
LEMMA ResumeStep ==
  ASSUME MirrorInv, UNCHANGED vars, Store \/ Crash
  PROVE  MirrorInv'
<1>1. LoopStep /\ \A types : Stood(types)
  BY DEF MirrorInv, LoopTyped, LoopStep, Stood, Store, Crash
<1>2. rows' = rows
  BY DEF Store, Crash
<1>3. PendingReal'
  BY DEF PendingReal, Store, Crash
<1>4. /\ MerchantRows' /\ ServiceRows' /\ FacilitatorRows' /\ QuoteRows' /\ ReceiptRows' /\ DisputeRows'
      /\ SignalRows'
  BY <1>1, <1>2, TablesStood
<1> QED BY <1>1, <1>3, <1>4, LoopKeeps DEF MirrorInv

\* A call of the contract: the rows are as right as before, with one event to come.
LEMMA CallStep ==
  ASSUME MirrorInv, Chain
  PROVE  MirrorInv'
<1>0. ContractInv' /\ LogInv'
  BY ChainIsNext, ContractStep, LogStep DEF MirrorInv
<1>1. CASE UNCHANGED <<directory, quotes, receipts, disputes, trustSignals, loopVars>>
  <2> USE <1>1 DEF directory, loopVars, database
  <2>1. LoopTyped /\ (\A types : Stood(types)) /\ rows' = rows /\ LoopTyped'
    BY DEF MirrorInv, LoopTyped, Stood
  <2>2. MerchantRows' /\ FacilitatorRows' /\ SignalRows'
    BY <2>1, MerchantRowsStood, FacilitatorRowsStood, SignalRowsStood DEF MirrorInv
  <2>3. ServiceIdsUnique' => ServiceIdsUnique
    BY DEF ServiceIdsUnique
  <2>4. ServiceRows' /\ QuoteRows' /\ ReceiptRows'
    BY <2>1, <2>3, ServiceRealKept, ServiceFreshStood, QuoteRealKept, QuoteFreshStood, ReceiptRealKept,
       ReceiptFreshStood DEF MirrorInv, ServiceRows, QuoteRows, ReceiptRows
  <2>5. DisputeRows'
    <3>1. \A d : Recorded("DisputeResolved", d) => Recorded("DisputeResolved", d)'
      BY DEF Recorded
    <3> QED BY <2>1, <2>3, <3>1, DisputeRealKept, DisputeFreshStood DEF MirrorInv, DisputeRows
  <2>6. PendingReal'
    BY DEF MirrorInv, PendingReal, Event
  <2> QED BY <1>0, <2>1, <2>2, <2>4, <2>5, <2>6 DEF MirrorInv
<1>2. ASSUME NEW e, Emit(e), Told(e) PROVE MirrorInv'
  <2>1. Appended(e)
    BY <1>2, EmitAppends DEF MirrorInv, LogInv, Emit
  <2>2. LoopTyped /\ Grew(e) /\ LoopTyped' /\ rows' = rows /\ pending' = pending
    BY <1>2, <2>1 DEF MirrorInv, LoopTyped, Grew, Emit, database, Appended
  <2>3. MerchantRows' /\ FacilitatorRows' /\ SignalRows'
    BY <1>2, <2>2, MerchantRowsGrew, FacilitatorRowsGrew, SignalRowsGrew DEF MirrorInv, Told
  <2>4. ServiceIdsUnique' => ServiceIdsUnique
    BY <1>2 DEF ServiceIdsUnique, Told, ServicesTold
  <2>5. ServiceRows'
    <3>1. ServiceReal'
      BY <1>2, <2>2, ServiceRealKept DEF MirrorInv, ServiceRows, Told, ServicesTold
    <3> QED BY <1>2, <2>2, <2>4, <3>1, ServiceFreshGrew DEF MirrorInv, ServiceRows, Told
  <2>6. QuoteRows'
    <3>1. QuoteReal'
      BY <1>2, <2>2, QuoteRealKept DEF MirrorInv, QuoteRows, Told, QuotesTold, ReceiptsTold
    <3> QED BY <2>2, <2>4, <3>1, QuoteFreshGrew DEF MirrorInv, QuoteRows
  <2>7. ReceiptRows'
    <3>1. ReceiptReal'
      BY <1>2, <2>2, ReceiptRealKept DEF MirrorInv, ReceiptRows, Told, ReceiptsTold
    <3> QED BY <1>2, <2>2, <2>4, <3>1, ReceiptFreshGrew DEF MirrorInv, ReceiptRows, Told
  <2>8. DisputeRows'
    <3>1. DisputeReal'
      BY <1>2, <2>1, <2>2, DisputeRealKept, RecordedStays DEF MirrorInv, DisputeRows, Told, DisputesTold
    <3> QED BY <1>2, <2>2, <2>4, <3>1, DisputeFreshGrew DEF MirrorInv, DisputeRows, Told
  <2>9. PendingReal'
    <3>1. at < Len(log) => Event' = Event /\ at' < Len(log')
      BY <2>1, <2>2 DEF Event, Grew, Appended, LoopTyped
    <3> QED BY <2>2, <3>1 DEF MirrorInv, PendingReal
  <2> QED BY <1>0, <2>2, <2>3, <2>5, <2>6, <2>7, <2>8, <2>9 DEF MirrorInv
<1> QED BY <1>1, <1>2, CallTold DEF MirrorInv

\* The mirror starts in its invariant.
LEMMA MirrorInitially == MirrorInit => MirrorInv
<1> SUFFICES ASSUME MirrorInit PROVE MirrorInv
  OBVIOUS
<1>1. Init /\ log = << >> /\ at = 0 /\ stored = 0 /\ pending = {}
  BY DEF MirrorInit, LoopInit
<1>2. DOMAIN rows = Tables /\ \A t \in Tables : rows[t] = << >>
  BY DEF MirrorInit, LoopInit, Tables, NoRows
<1>3. ContractInv
  <2>1. TypeOK /\ FacilitatorIndexExact /\ ChainSound
    BY <1>1 DEF Init, TypeOK, FacilitatorIndexExact, ChainSound, Committed
  <2>2. DOMAIN merchants = {} /\ DOMAIN services = {} /\ DOMAIN receipts = {} /\ DOMAIN disputes = {}
    BY <1>1 DEF Init
  <2> QED BY <2>1, <2>2 DEF ContractInv
<1>4. LogInv
  <2>1. DOMAIN log = {}
    BY <1>1
  <2>2. LogTyped
    BY <1>1 DEF LogTyped
  <2>3. MerchantLog /\ ServiceLog /\ FacilitatorLog /\ SignalLog /\ ReceiptLog /\ DisputeLog
    BY <1>1, <2>1 DEF Init, MerchantLog, ServiceLog, FacilitatorLog, SignalLog, ReceiptLog, DisputeLog
  <2>4. QuoteLog
    BY <1>1, <2>1 DEF Init, QuoteLog
  <2> QED BY <2>2, <2>3, <2>4 DEF LogInv
<1>5. LoopTyped /\ PendingReal
  BY <1>1, <1>2 DEF LoopTyped, PendingReal
<1>6. \A t \in Tables : DOMAIN rows[t] = {}
  BY <1>2
<1>7. MerchantRows /\ FacilitatorRows /\ SignalRows
  BY <1>1, <1>6 DEF Tables, MerchantRows, FacilitatorRows, SignalRows
<1>8. ServiceRows /\ QuoteRows /\ ReceiptRows /\ DisputeRows
  BY <1>1, <1>6 DEF Tables, ServiceRows, QuoteRows, ReceiptRows, DisputeRows, ServiceReal, QuoteReal,
     ReceiptReal, DisputeReal, ServiceFresh, QuoteFresh, ReceiptFresh, DisputeFresh
<1> QED BY <1>3, <1>4, <1>5, <1>7, <1>8 DEF MirrorInv

\* No step of the mirror or of the contract leaves it.
LEMMA MirrorStep == MirrorInv /\ [MirrorNext]_mirrorVars => MirrorInv'
<1> SUFFICES ASSUME MirrorInv, [MirrorNext]_mirrorVars PROVE MirrorInv'
  OBVIOUS
<1>1. CASE Chain
  BY <1>1, CallStep
<1>2. CASE HandleNext /\ UNCHANGED vars
  <2>1. CASE Handler /\ Done
    BY <1>2, <2>1, HandlerStep DEF HandleNext
  <2> QED BY <1>2, <2>1, OtherStep DEF HandleNext
<1>3. CASE (Store \/ Crash) /\ UNCHANGED vars
  BY <1>3, ResumeStep
<1>4. CASE UNCHANGED mirrorVars
  <2> USE <1>4 DEF mirrorVars, loopVars, database
  <2>1. LoopStep /\ \A types : Stood(types)
    BY DEF MirrorInv, LoopTyped, LoopStep, Stood
  <2>2. PendingReal'
    BY DEF MirrorInv, PendingReal, Event
  <2>3. /\ MerchantRows' /\ ServiceRows' /\ FacilitatorRows' /\ QuoteRows' /\ ReceiptRows' /\ DisputeRows'
        /\ SignalRows'
    BY <2>1, TablesStood
  <2> QED BY <2>1, <2>2, <2>3, LoopKeeps DEF MirrorInv
<1> QED BY <1>1, <1>2, <1>3, <1>4 DEF MirrorNext

\* So it always holds.
LEMMA MirrorAlways == MirrorSpec => []MirrorInv
BY MirrorInitially, MirrorStep, PTL DEF MirrorSpec

\* The indexer changes nothing the contract reads: with it, the contract still
\* behaves as specified, so whatever is proved of the contract alone holds.
THEOREM MirrorIsPassive == MirrorSpec => Spec
<1>1. MirrorInit => Init
  BY DEF MirrorInit
<1>2. MirrorInv /\ [MirrorNext]_mirrorVars => [Next]_vars
  <2> SUFFICES ASSUME MirrorInv, [MirrorNext]_mirrorVars PROVE [Next]_vars
    OBVIOUS
  <2>1. CASE Chain
    BY <2>1, ChainIsNext DEF MirrorInv
  <2>2. CASE UNCHANGED vars
    BY <2>2
  <2> QED BY <2>1, <2>2 DEF MirrorNext, mirrorVars
<1> QED BY <1>1, <1>2, MirrorAlways, PTL DEF MirrorSpec, Spec

\* No row of the indexer is made up, whatever it skipped, replayed or was
\* interrupted in.
THEOREM RowsAlwaysReal == MirrorSpec => []RowsReal
<1>1. MirrorInv => RowsReal
  <2> SUFFICES ASSUME MirrorInv PROVE RowsReal
    OBVIOUS
  <2>1. \A m \in DOMAIN rows.merchants : rows.merchants[m].owner = merchants[m].owner
    <3> SUFFICES ASSUME NEW m \in DOMAIN rows["merchants"] PROVE rows["merchants"][m].owner = merchants[m].owner
      OBVIOUS
    <3>1. PICK active : rows["merchants"][m] = [owner |-> merchants[m].owner, active |-> active]
      BY DEF MirrorInv, MerchantRows
    <3> QED BY <3>1
  <2>2. \A s \in DOMAIN rows.services :
          /\ rows.services[s].merchantId = services[s].merchantId
          /\ rows.services[s].merchantId \in DOMAIN rows.merchants
    <3> SUFFICES ASSUME NEW s \in DOMAIN rows["services"]
                 PROVE  /\ rows["services"][s].merchantId = services[s].merchantId
                        /\ rows["services"][s].merchantId \in DOMAIN rows["merchants"]
      OBVIOUS
    <3>1. PICK active : rows["services"][s] = [merchantId |-> services[s].merchantId,
                                               serviceId |-> services[s].serviceId, active |-> active]
      BY DEF MirrorInv, ServiceRows, ServiceReal
    <3>2. services[s].merchantId \in DOMAIN rows["merchants"]
      BY DEF MirrorInv, ServiceRows, ServiceReal
    <3> QED BY <3>1, <3>2
  <2>3. \A f \in DOMAIN rows.facilitators :
          rows.facilitators[f].facilitator = facilitatorsById[f].facilitator
    <3> SUFFICES ASSUME NEW f \in DOMAIN rows["facilitators"]
                 PROVE  rows["facilitators"][f].facilitator = facilitatorsById[f].facilitator
      OBVIOUS
    <3>1. PICK active : rows["facilitators"][f] =
                          [facilitator |-> facilitatorsById[f].facilitator, active |-> active]
      BY DEF MirrorInv, FacilitatorRows
    <3> QED BY <3>1
  <2>4. \A c \in DOMAIN rows.quotes : Committed(c) /\ (rows.quotes[c] => ReceiptsOf(c) # {})
    <3> SUFFICES ASSUME NEW c \in DOMAIN rows["quotes"]
                 PROVE  Committed(c) /\ (rows["quotes"][c] => ReceiptsOf(c) # {})
      OBVIOUS
    <3>1. quotes[c] # "none" /\ rows["quotes"][c] \in BOOLEAN
      BY DEF MirrorInv, QuoteRows, QuoteReal
    <3>2. rows["quotes"][c] = TRUE => ReceiptsOf(c) # {}
      BY DEF MirrorInv, QuoteRows, QuoteReal, ReceiptsOf
    <3> QED BY <3>1, <3>2 DEF Committed
  <2>5. \A r \in DOMAIN rows.receipts : rows.receipts[r].quote = receipts[r].quote
    <3> SUFFICES ASSUME NEW r \in DOMAIN rows["receipts"] PROVE rows["receipts"][r].quote = receipts[r].quote
      OBVIOUS
    <3>1. PICK h : rows["receipts"][r] = [quote |-> receipts[r].quote, fulfillmentHash |-> h]
      BY DEF MirrorInv, ReceiptRows, ReceiptReal
    <3> QED BY <3>1
  <2>6. \A d \in DOMAIN rows.disputes :
          /\ rows.disputes[d].opener = disputes[d].opener
          /\ rows.disputes[d].receiptId = disputes[d].receiptId
    <3> SUFFICES ASSUME NEW d \in DOMAIN rows["disputes"]
                 PROVE  /\ rows["disputes"][d].opener = disputes[d].opener
                        /\ rows["disputes"][d].receiptId = disputes[d].receiptId
      OBVIOUS
    <3>1. PICK st, h : rows["disputes"][d] = [receiptId |-> disputes[d].receiptId, opener |-> disputes[d].opener,
                                              status |-> st, resolutionHash |-> h]
      BY DEF MirrorInv, DisputeRows, DisputeReal
    <3> QED BY <3>1
  <2> QED BY <2>1, <2>2, <2>3, <2>4, <2>5, <2>6 DEF RowsReal
<1> QED BY <1>1, MirrorAlways, PTL

\* Once the loop has passed the whole log, no event is left that touches a row.
LEMMA CaughtUp ==
  ASSUME MirrorInv, at = Len(log)
  PROVE  (\A types, id : Quiet(types, id)) /\ DOMAIN log = 1..at
BY DEF MirrorInv, LoopTyped, Quiet

\* Whenever the indexer has caught up, whatever it went through, and while no
\* merchant used a service id twice, it shows exactly what the contract stores.
THEOREM MirrorAlwaysExact == MirrorSpec => []MirrorExact
<1>1. MirrorInv => MirrorExact
  <2> SUFFICES ASSUME MirrorInv, at = Len(log), ServiceIdsUnique
               PROVE  /\ SameRows("merchants", merchants)
                      /\ SameRows("services", services)
                      /\ SameRows("facilitators", facilitatorsById)
                      /\ DOMAIN rows.quotes = {c \in Commitments : Committed(c)}
                      /\ \A c \in DOMAIN rows.quotes : rows.quotes[c] <=> ReceiptsOf(c) # {}
                      /\ DOMAIN rows.receipts = DOMAIN receipts
                      /\ \A r \in DOMAIN receipts :
                           rows.receipts[r].fulfillmentHash = receipts[r].fulfillmentHash
                      /\ SameRows("disputes", disputes)
                      /\ SameRows("signals", trustSignals)
    BY DEF MirrorExact
  <2>0. (\A types, id : Quiet(types, id)) /\ DOMAIN log = 1..at
    BY CaughtUp
  <2>1. SameRows("merchants", merchants)
    <3>1. merchants \in Seq(MerchantRecord)
      BY DEF MirrorInv, ContractInv, TypeOK, MerchantRecord
    <3>2. DOMAIN rows["merchants"] = DOMAIN merchants
      <4>1. DOMAIN rows["merchants"] \subseteq DOMAIN merchants
        BY DEF MirrorInv, MerchantRows
      <4>2. ASSUME NEW id \in DOMAIN merchants PROVE id \in DOMAIN rows["merchants"]
        <5>1. PICK k \in 1..at : log[k].type = "MerchantRegistered" /\ log[k].id = id
          BY <2>0 DEF MirrorInv, LogInv, MerchantLog, Recorded, About
        <5> QED BY <5>1 DEF MirrorInv, MerchantRows
      <4> QED BY <4>1, <4>2
    <3>3. ASSUME NEW m \in DOMAIN merchants PROVE rows["merchants"][m] = merchants[m]
      <4>1. merchants[m] \in MerchantRecord
        BY <3>1
      <4>2. rows["merchants"][m] = [owner |-> merchants[m].owner, active |-> merchants[m].active]
        BY <2>0, <3>2 DEF MirrorInv, MerchantRows
      <4> QED BY <4>1, <4>2 DEF MerchantRecord
    <3> QED BY <3>2, <3>3 DEF SameRows
  <2>2. SameRows("services", services)
    <3>1. services \in Seq(ServiceRecord)
      BY DEF MirrorInv, ContractInv, TypeOK, ServiceRecord
    <3>2. DOMAIN rows["services"] = DOMAIN services
      <4>1. DOMAIN rows["services"] \subseteq DOMAIN services
        BY DEF MirrorInv, ServiceRows, ServiceReal, ServiceFresh
      <4>2. ASSUME NEW id \in DOMAIN services PROVE id \in DOMAIN rows["services"]
        <5>1. PICK k \in 1..at : log[k].type = "ServiceRegistered" /\ log[k].id = id
          BY <2>0 DEF MirrorInv, LogInv, ServiceLog, Recorded, About
        <5> QED BY <5>1 DEF MirrorInv, ServiceRows, ServiceReal, ServiceFresh
      <4> QED BY <4>1, <4>2
    <3>3. ASSUME NEW s \in DOMAIN services PROVE rows["services"][s] = services[s]
      <4>1. services[s] \in ServiceRecord
        BY <3>1
      <4>2. rows["services"][s] = [merchantId |-> services[s].merchantId, serviceId |-> services[s].serviceId,
                                   active |-> services[s].active]
        BY <2>0, <3>2 DEF MirrorInv, ServiceRows, ServiceReal, ServiceFresh
      <4> QED BY <4>1, <4>2 DEF ServiceRecord
    <3> QED BY <3>2, <3>3 DEF SameRows
  <2>3. SameRows("facilitators", facilitatorsById)
    <3>1. facilitatorsById \in Seq(FacilitatorRecord)
      BY DEF MirrorInv, ContractInv, TypeOK, FacilitatorRecord
    <3>2. DOMAIN rows["facilitators"] = DOMAIN facilitatorsById
      <4>1. DOMAIN rows["facilitators"] \subseteq DOMAIN facilitatorsById
        BY DEF MirrorInv, FacilitatorRows
      <4>2. ASSUME NEW id \in DOMAIN facilitatorsById PROVE id \in DOMAIN rows["facilitators"]
        <5>1. PICK k \in 1..at : log[k].type = "FacilitatorRegistered" /\ log[k].id = id
          BY <2>0 DEF MirrorInv, LogInv, FacilitatorLog, Recorded, About
        <5> QED BY <5>1 DEF MirrorInv, FacilitatorRows
      <4> QED BY <4>1, <4>2
    <3>3. ASSUME NEW f \in DOMAIN facilitatorsById PROVE rows["facilitators"][f] = facilitatorsById[f]
      <4>1. facilitatorsById[f] \in FacilitatorRecord
        BY <3>1
      <4>2. rows["facilitators"][f] =
              [facilitator |-> facilitatorsById[f].facilitator, active |-> facilitatorsById[f].active]
        BY <2>0, <3>2 DEF MirrorInv, FacilitatorRows
      <4> QED BY <4>1, <4>2 DEF FacilitatorRecord
    <3> QED BY <3>2, <3>3 DEF SameRows
  <2>4. DOMAIN rows.receipts = DOMAIN receipts
    <3>1. DOMAIN rows["receipts"] \subseteq DOMAIN receipts
      BY DEF MirrorInv, ReceiptRows, ReceiptReal, ReceiptFresh
    <3>2. ASSUME NEW id \in DOMAIN receipts PROVE id \in DOMAIN rows["receipts"]
      <4>1. PICK k \in 1..at : log[k].type = "ReceiptRecorded" /\ log[k].id = id
        BY <2>0 DEF MirrorInv, LogInv, ReceiptLog, Recorded, About
      <4> QED BY <4>1 DEF MirrorInv, ReceiptRows, ReceiptReal, ReceiptFresh
    <3> QED BY <3>1, <3>2
  <2>5. \A r \in DOMAIN receipts : rows.receipts[r].fulfillmentHash = receipts[r].fulfillmentHash
    BY <2>0, <2>4 DEF MirrorInv, ReceiptRows, ReceiptFresh
  <2>6. DOMAIN rows.quotes = {c \in Commitments : Committed(c)}
    BY <2>0 DEF MirrorInv, QuoteRows, QuoteReal, QuoteFresh, QuoteEvents, LogInv, QuoteLog, Committed
  <2>7. \A c \in DOMAIN rows.quotes : rows.quotes[c] <=> ReceiptsOf(c) # {}
    <3> SUFFICES ASSUME NEW c \in DOMAIN rows["quotes"] PROVE rows["quotes"][c] <=> ReceiptsOf(c) # {}
      OBVIOUS
    <3>1. rows["quotes"][c] \in BOOLEAN
      BY DEF MirrorInv, QuoteRows, QuoteReal
    <3>2. rows["quotes"][c] = TRUE => ReceiptsOf(c) # {}
      BY DEF MirrorInv, QuoteRows, QuoteReal, ReceiptsOf
    <3>3. ASSUME NEW r \in DOMAIN receipts, receipts[r].quote = c PROVE rows["quotes"][c] = TRUE
      <4>1. PICK k \in DOMAIN log : log[k].type = "ReceiptRecorded" /\ log[k].id = r
        BY DEF MirrorInv, LogInv, ReceiptLog, Recorded, About
      <4>2. log[k].quote = c
        BY <3>3, <4>1 DEF MirrorInv, LogInv, ReceiptLog
      <4>3. rows["quotes"][log[k].quote] = TRUE
        BY <2>0, <4>1 DEF MirrorInv, QuoteRows, QuoteFresh
      <4> QED BY <4>2, <4>3
    <3>4. ReceiptsOf(c) # {} => rows["quotes"][c] = TRUE
      BY <3>3 DEF ReceiptsOf
    <3> QED BY <3>1, <3>2, <3>4
  <2>8. SameRows("disputes", disputes)
    <3>1. disputes \in Seq(DisputeRecord)
      BY DEF MirrorInv, ContractInv, TypeOK, DisputeRecord
    <3>2. DOMAIN rows["disputes"] = DOMAIN disputes
      <4>1. DOMAIN rows["disputes"] \subseteq DOMAIN disputes
        BY DEF MirrorInv, DisputeRows, DisputeReal, DisputeFresh
      <4>2. ASSUME NEW id \in DOMAIN disputes PROVE id \in DOMAIN rows["disputes"]
        <5>1. PICK k \in 1..at : log[k].type = "DisputeOpened" /\ log[k].id = id
          BY <2>0 DEF MirrorInv, LogInv, DisputeLog, Recorded, About
        <5> QED BY <5>1 DEF MirrorInv, DisputeRows, DisputeReal, DisputeFresh
      <4> QED BY <4>1, <4>2
    <3>3. ASSUME NEW d \in DOMAIN disputes PROVE rows["disputes"][d] = disputes[d]
      <4>1. disputes[d] \in DisputeRecord
        BY <3>1
      <4>2. rows["disputes"][d] = [receiptId |-> disputes[d].receiptId, opener |-> disputes[d].opener,
                                   status |-> disputes[d].status, resolutionHash |-> disputes[d].resolutionHash]
        BY <2>0, <3>2 DEF MirrorInv, DisputeRows, DisputeReal, DisputeFresh
      <4> QED BY <4>1, <4>2 DEF DisputeRecord
    <3> QED BY <3>2, <3>3 DEF SameRows
  <2>9. SameRows("signals", trustSignals)
    <3>1. DOMAIN rows["signals"] = DOMAIN trustSignals
      <4>1. DOMAIN rows["signals"] \subseteq DOMAIN trustSignals
        BY DEF MirrorInv, SignalRows
      <4>2. ASSUME NEW id \in DOMAIN trustSignals PROVE id \in DOMAIN rows["signals"]
        <5>1. PICK k \in 1..at : log[k].type = "TrustSignalRecorded" /\ log[k].id = id
          BY <2>0 DEF MirrorInv, LogInv, SignalLog, Recorded, About
        <5> QED BY <5>1 DEF MirrorInv, SignalRows
      <4> QED BY <4>1, <4>2
    <3> QED BY <3>1 DEF SameRows, MirrorInv, SignalRows
  <2> QED BY <2>1, <2>2, <2>3, <2>4, <2>5, <2>6, <2>7, <2>8, <2>9
<1> QED BY <1>1, MirrorAlways, PTL
=============================================================================
