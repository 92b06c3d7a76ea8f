----------------------------- MODULE PolicyProofs -----------------------------
(***************************************************************************)
(* Proofs about PolicyAccount, and the PolicyModule it extends, for every  *)
(* value of their constants.  A revert brings back an earlier state, so    *)
(* the invariant speaks of the states saved in calls as of the present one.*)
(* Then comes money: the books of a limit and of a payment policy balance  *)
(* with the history of what was spent, and no stretch of a day sees more   *)
(* than twice the largest maximum.  The last part is about Gateway: no two *)
(* bids win against each other, the policies table shows what the contract *)
(* has, and preflight answers accordingly.                                 *)
(***************************************************************************)
EXTENDS PolicyAccount, Gateway, SequenceTheorems, SumTheorems, TLAPS

USE PolicyAssumption, AccountAssumption

Nonce == {<<o.key, o.nonce>> : o \in Order}
SpendEntry == [token : Token, amount : Nat, time : Nat]
PaymentEntry == [key : PaymentKey, hash : PaymentHash, amount : Nat, time : Nat]
SessionKeys == [Key -> [expiresAt : Expiry \cup {0}, active : BOOLEAN]]

\* No limit allows, and nothing spent exceeds, what was ever allowed.
WithinPeak(ls, pk) ==
  \A t \in Token : ls[t].spentToday <= pk[t] /\ ls[t].maxPerDay <= pk[t]

\* The set holds the members of the sequence, which has none of them twice.
OnceEach(seq, set) ==
  /\ \A j, k \in DOMAIN seq : seq[j] = seq[k] => j = k
  /\ set = {seq[k] : k \in DOMAIN seq}

PaidOnce(ps, used) ==
  /\ \A j, k \in DOMAIN ps : ps[j].hash = ps[k].hash => j = k
  /\ used = {ps[k].hash : k \in DOMAIN ps}

SavedState ==
  [limits : [Token -> SpendLimit], allowedTargets : SUBSET GrantedTarget,
   allowedFunctions : SUBSET GrantedFunction, usesFunctionAllowlist : BOOLEAN,
   guardian : Guardian \cup {NoGuardian}, frozen : BOOLEAN,
   policies : [PaymentKey -> PaymentPolicy], usedPaymentHashes : SUBSET PaymentHash,
   peak : [Token -> Nat], spends : Seq(SpendEntry), payments : Seq(PaymentEntry),
   sessionKeys : SessionKeys, usedSessionNonces : SUBSET Nonce, honoured : Seq(Nonce)]

Saved ==
  {s \in SavedState :
     /\ WithinPeak(s.limits, s.peak)
     /\ OnceEach(s.honoured, s.usedSessionNonces)
     /\ PaidOnce(s.payments, s.usedPaymentHashes)}

\* What holds of the limits, of the settings, of the payments, of the session
\* keys and of the executions in progress.
LimitsInv ==
  /\ limits \in [Token -> SpendLimit]
  /\ peak \in [Token -> Nat]
  /\ spends \in Seq(SpendEntry)
  /\ WithinPeak(limits, peak)

SettingsInv ==
  /\ allowedTargets \in SUBSET GrantedTarget
  /\ allowedFunctions \in SUBSET GrantedFunction
  /\ usesFunctionAllowlist \in BOOLEAN
  /\ guardian \in Guardian \cup {NoGuardian}
  /\ frozen \in BOOLEAN
  /\ sessionKeys \in SessionKeys

PaymentsInv ==
  /\ policies \in [PaymentKey -> PaymentPolicy]
  /\ usedPaymentHashes \in SUBSET PaymentHash
  /\ payments \in Seq(PaymentEntry)
  /\ PaidOnce(payments, usedPaymentHashes)

NoncesInv ==
  /\ usedSessionNonces \in SUBSET Nonce
  /\ honoured \in Seq(Nonce)
  /\ OnceEach(honoured, usedSessionNonces)

CallsInv ==
  /\ calls \in Seq(Saved)
  /\ Len(calls) <= MaxDepth

IInv == now \in Nat /\ LimitsInv /\ SettingsInv /\ PaymentsInv /\ NoncesInv /\ CallsInv

----------------------------------------------------------------------------
(* Limits.                                                                 *)

\* Charging an amount a limit allows leaves every limit typed and within its peak.
LEMMA ChargeWithinPeak ==
  ASSUME now \in Nat, NEW ls \in [Token -> SpendLimit], NEW pk \in [Token -> Nat],
         WithinPeak(ls, pk), NEW t \in Token, NEW a \in Nat, WithinLimit(ls[t], a)
  PROVE  /\ RecordSpend(ls, t, a) \in [Token -> SpendLimit]
         /\ WithinPeak(RecordSpend(ls, t, a), pk)
<1>1. CASE ls[t].maxPerDay = 0
  BY <1>1 DEF RecordSpend
<1>2. CASE ls[t].maxPerDay # 0
  <2>1. RecordSpend(ls, t, a) = [ls EXCEPT ![t] = Charge(ls[t], a)]
    BY <1>2 DEF RecordSpend
  <2>2. ls[t] \in SpendLimit /\ Spent(ls[t]) \in Nat
    BY DEF SpendLimit, Spent
  <2>3. /\ Charge(ls[t], a) \in SpendLimit
        /\ Charge(ls[t], a).maxPerDay = ls[t].maxPerDay
        /\ Charge(ls[t], a).spentToday = Spent(ls[t]) + a
    <3> DEFINE reset == IF WindowOver(ls[t]) THEN now ELSE ls[t].lastReset
    <3>1. reset \in Nat /\ Spent(ls[t]) + a \in Nat
      BY <2>2 DEF SpendLimit
    <3>2. Charge(ls[t], a) = [ls[t] EXCEPT !.spentToday = Spent(ls[t]) + a, !.lastReset = reset]
      BY <2>2 DEF Charge, SpendLimit
    <3> HIDE DEF reset
    <3> QED BY <2>2, <3>1, <3>2 DEF SpendLimit
  <2>4. Spent(ls[t]) + a <= ls[t].maxPerDay /\ ls[t].maxPerDay <= pk[t]
    BY <1>2 DEF WithinLimit, WithinPeak
  <2>5. Spent(ls[t]) + a <= pk[t]
    BY <2>2, <2>4 DEF SpendLimit
  <2> QED BY <2>1, <2>3, <2>4, <2>5 DEF WithinPeak
<1> QED BY <1>1, <1>2

\* The history of a charge is well typed.
LEMMA ChargedType ==
  ASSUME now \in Nat, NEW ls, NEW t \in Token, NEW a \in Nat
  PROVE  Charged(ls, t, a) \in Seq(SpendEntry)
<1>1. [token |-> t, amount |-> a, time |-> now] \in SpendEntry
  BY DEF SpendEntry
<1> QED BY <1>1 DEF Charged

\* Setting a maximum raises the peak with it.
LEMMA SetSpendLimitInv ==
  ASSUME LimitsInv, NEW t \in Token, NEW m \in Maximum, SetSpendLimit(t, m)
  PROVE  LimitsInv'
<1>1. m \in Nat
  OBVIOUS
<1>2. /\ limits' = [limits EXCEPT ![t] = [limits[t] EXCEPT !.maxPerDay = m]]
      /\ peak' = [peak EXCEPT ![t] = Larger(peak[t], m)]
      /\ spends' = spends
  BY DEF SetSpendLimit, LimitsInv
<1>3. /\ [limits[t] EXCEPT !.maxPerDay = m] \in SpendLimit
      /\ [limits[t] EXCEPT !.maxPerDay = m].maxPerDay = m
      /\ [limits[t] EXCEPT !.maxPerDay = m].spentToday = limits[t].spentToday
      /\ limits[t].spentToday \in Nat
  BY <1>1 DEF LimitsInv, SpendLimit
<1>4. /\ Larger(peak[t], m) \in Nat
      /\ m <= Larger(peak[t], m) /\ limits[t].spentToday <= Larger(peak[t], m)
  BY <1>1, <1>3 DEF Larger, LimitsInv, WithinPeak
<1> QED BY <1>2, <1>3, <1>4 DEF LimitsInv, WithinPeak

\* So does a spend recorded by hand.
LEMMA RecordSpendInv ==
  ASSUME now \in Nat, LimitsInv, NEW t \in Token, NEW a \in Amount, RecordSpendDirectly(t, a)
  PROVE  LimitsInv'
<1>1. a \in Nat
  OBVIOUS
<1>2. RecordSpend(limits, t, a) \in [Token -> SpendLimit]
      /\ WithinPeak(RecordSpend(limits, t, a), peak)
  BY <1>1, ChargeWithinPeak DEF LimitsInv, RecordSpendDirectly
<1>3. spends \o Charged(limits, t, a) \in Seq(SpendEntry)
  BY <1>1, ChargedType DEF LimitsInv
<1> QED BY <1>2, <1>3 DEF RecordSpendDirectly, LimitsInv

\* The target of a call is a token, its amounts are numbers.
LEMMA CallType ==
  ASSUME NEW call \in Call
  PROVE  /\ call.target \in Token /\ Native \in Token
         /\ call.value \in Nat /\ TokenSpend(call) \in Nat
<1>1. call.target \in Target /\ call.value \in Amount \cup {0} /\ call.amount \in Amount \cup {0}
  BY DEF Call
<1>2. \A a \in Amount \cup {0} : a \in Nat
  OBVIOUS
<1>3. call.target \in Token /\ Native \in Token
  BY <1>1 DEF Token
<1> QED BY <1>1, <1>2, <1>3 DEF TokenSpend

\* An execution charges its coin and then its token.
LEMMA ExecuteLimits ==
  ASSUME now \in Nat, LimitsInv, NEW call \in Call, Execute(call)
  PROVE  LimitsInv'
<1> DEFINE charged == IF call.value > 0 THEN RecordSpend(limits, Native, call.value) ELSE limits
           entries == IF call.value > 0 THEN Charged(limits, Native, call.value) ELSE << >>
           spent == TokenSpend(call)
           more == IF spent > 0 THEN Charged(limits, call.target, spent) ELSE << >>
<1>1. call.value \in Nat /\ call.target \in Token /\ Native \in Token
  BY CallType
<1>2. spent \in Nat
  BY CallType
<1>3. charged \in [Token -> SpendLimit] /\ WithinPeak(charged, peak)
  <2>1. CASE call.value > 0
    <3>1. WithinLimit(limits[Native], call.value)
      BY <2>1 DEF Execute, CheckTransaction
    <3> QED BY <1>1, <2>1, <3>1, ChargeWithinPeak DEF LimitsInv
  <2>2. CASE ~(call.value > 0)
    BY <2>2 DEF LimitsInv
  <2> QED BY <2>1, <2>2
<1>4. /\ spent > 0 => WithinLimit(charged[call.target], spent)
      /\ limits' = IF spent > 0 THEN RecordSpend(charged, call.target, spent) ELSE charged
      /\ spends' = spends \o entries \o more
      /\ peak' = peak
  <2>1. spent > 0 => WithinLimit(charged[call.target], spent)
    BY DEF Execute
  <2>2. limits' = IF spent > 0 THEN RecordSpend(charged, call.target, spent) ELSE charged
    BY DEF Execute
  <2>3. spends' = spends \o entries \o more
    BY DEF Execute
  <2>4. peak' = peak
    BY DEF Execute
  <2> QED BY <2>1, <2>2, <2>3, <2>4
<1> HIDE DEF charged, entries, spent, more
<1>5. limits' \in [Token -> SpendLimit] /\ WithinPeak(limits', peak)
  <2>1. CASE spent > 0
    BY <1>1, <1>2, <1>3, <1>4, <2>1, ChargeWithinPeak DEF LimitsInv
  <2>2. CASE ~(spent > 0)
    BY <1>3, <1>4, <2>2
  <2> QED BY <2>1, <2>2
<1>6. entries \in Seq(SpendEntry)
  BY <1>1, ChargedType DEF entries
<1>7. more \in Seq(SpendEntry)
  BY <1>1, <1>2, ChargedType DEF more
<1>8. spends' \in Seq(SpendEntry)
  BY <1>4, <1>6, <1>7 DEF LimitsInv
<1> QED BY <1>4, <1>5, <1>8 DEF LimitsInv

----------------------------------------------------------------------------
(* Payments and nonces.                                                    *)

\* Appending a new member to the sequence and the set keeps them alike.
LEMMA AppendOnce ==
  ASSUME NEW S, NEW seq \in Seq(S), NEW set, NEW e \in S, OnceEach(seq, set), e \notin set
  PROVE  Append(seq, e) \in Seq(S) /\ OnceEach(Append(seq, e), set \cup {e})
<1> DEFINE longer == Append(seq, e)
<1>1. /\ longer \in Seq(S) /\ DOMAIN longer = DOMAIN seq \cup {Len(seq) + 1}
      /\ longer[Len(seq) + 1] = e
      /\ \A k \in DOMAIN seq : longer[k] = seq[k] /\ k # Len(seq) + 1
  OBVIOUS
<1>2. \A k \in DOMAIN seq : seq[k] \in set /\ seq[k] # e
  BY DEF OnceEach
<1> HIDE DEF longer
<1>3. \A j, k \in DOMAIN longer : longer[j] = longer[k] => j = k
  BY <1>1, <1>2 DEF OnceEach
<1>4. set \cup {e} = {longer[k] : k \in DOMAIN longer}
  BY <1>1 DEF OnceEach
<1> QED BY <1>1, <1>3, <1>4 DEF OnceEach, longer

\* A signer's call honours no order, a session's call one whose nonce is fresh.
LEMMA NoncesStep ==
  ASSUME NoncesInv, AsSigner \/ \E order \in Order : AsSession(order)
  PROVE  NoncesInv'
<1>1. CASE AsSigner
  BY <1>1 DEF AsSigner, NoncesInv
<1>2. ASSUME NEW order \in Order, AsSession(order) PROVE NoncesInv'
  <2> DEFINE n == <<order.key, order.nonce>>
  <2>1. n \in Nonce
    BY DEF Nonce
  <2>2. /\ n \notin usedSessionNonces
        /\ usedSessionNonces' = usedSessionNonces \cup {n}
        /\ honoured' = Append(honoured, n)
    BY <1>2 DEF AsSession, UseNonce
  <2> HIDE DEF n
  <2>3. honoured' \in Seq(Nonce) /\ OnceEach(honoured', usedSessionNonces')
    BY <2>1, <2>2, AppendOnce DEF NoncesInv
  <2> QED BY <2>1, <2>2, <2>3 DEF NoncesInv
<1> QED BY <1>1, <1>2

\* Charging a payment policy leaves it typed.
LEMMA ChargeType ==
  ASSUME now \in Nat, NEW p \in PaymentPolicy, NEW a \in Nat
  PROVE  Charge(p, a) \in PaymentPolicy
<1> DEFINE reset == IF WindowOver(p) THEN now ELSE p.lastReset
<1>1. reset \in Nat /\ Spent(p) + a \in Nat
  BY DEF PaymentPolicy, Spent
<1>2. Charge(p, a) = [p EXCEPT !.spentToday = Spent(p) + a, !.lastReset = reset]
  BY DEF Charge, PaymentPolicy
<1> HIDE DEF reset
<1> QED BY <1>1, <1>2 DEF PaymentPolicy

\* A payment is recorded under a hash nobody used.
LEMMA SignedPaymentInv ==
  ASSUME now \in Nat, PaymentsInv, NEW k \in PaymentKey, NEW a \in Amount, NEW h \in PaymentHash,
         RecordSignedPayment(k, a, h)
  PROVE  PaymentsInv'
<1> DEFINE e == [key |-> k, hash |-> h, amount |-> a, time |-> now]
<1>1. a \in Nat
  OBVIOUS
<1>2. policies' \in [PaymentKey -> PaymentPolicy]
  <2>1. policies[k] \in PaymentPolicy
    BY DEF PaymentsInv
  <2>2. Charge(policies[k], a) \in PaymentPolicy
    BY <1>1, <2>1, ChargeType
  <2>3. policies' = [policies EXCEPT ![k] = Charge(policies[k], a)]
    BY DEF RecordSignedPayment
  <2> QED BY <2>2, <2>3 DEF PaymentsInv
<1>3. /\ h \notin usedPaymentHashes
      /\ usedPaymentHashes' = usedPaymentHashes \cup {h}
      /\ payments' = Append(payments, e)
  BY DEF RecordSignedPayment, FreshPayment
<1>4. e \in PaymentEntry /\ e.hash = h
  BY <1>1 DEF PaymentEntry
<1> HIDE DEF e
<1>5. payments' \in Seq(PaymentEntry)
  BY <1>3, <1>4 DEF PaymentsInv
<1>6. /\ DOMAIN payments' = DOMAIN payments \cup {Len(payments) + 1}
      /\ payments'[Len(payments) + 1] = e
      /\ \A j \in DOMAIN payments : payments'[j] = payments[j] /\ j # Len(payments) + 1
  BY <1>3, <1>4 DEF PaymentsInv
<1>7. \A j \in DOMAIN payments : payments[j].hash # h
  BY <1>3 DEF PaymentsInv, PaidOnce
<1>8. \A i, j \in DOMAIN payments' : payments'[i].hash = payments'[j].hash => i = j
  BY <1>4, <1>6, <1>7 DEF PaymentsInv, PaidOnce
<1>9. usedPaymentHashes' = {payments'[j].hash : j \in DOMAIN payments'}
  BY <1>3, <1>4, <1>6 DEF PaymentsInv, PaidOnce
<1> QED BY <1>2, <1>3, <1>5, <1>8, <1>9 DEF PaymentsInv, PaidOnce

\* Setting a payment policy touches no payment.
LEMMA SetPaymentPolicyInv ==
  ASSUME now \in Nat, PaymentsInv, NEW k \in PaymentKey, NEW each \in Maximum,
         NEW daily \in Maximum, NEW allowed \in BOOLEAN,
         SetPaymentPolicy(k, each, daily, allowed)
  PROVE  PaymentsInv'
<1> DEFINE reset == IF policies[k].lastReset = 0 THEN now ELSE policies[k].lastReset
           p == [maxPerPayment |-> each, maxPerDay |-> daily,
                 spentToday |-> policies[k].spentToday, lastReset |-> reset, allowed |-> allowed]
<1>1. each \in Nat /\ daily \in Nat
  OBVIOUS
<1>2. policies[k].spentToday \in Nat /\ reset \in Nat
  BY DEF PaymentsInv, PaymentPolicy
<1>3. policies' = [policies EXCEPT ![k] = p]
  BY DEF SetPaymentPolicy, PaymentsInv
<1> HIDE DEF reset
<1>4. p \in PaymentPolicy
  BY <1>1, <1>2 DEF PaymentPolicy
<1> HIDE DEF p
<1>5. policies' \in [PaymentKey -> PaymentPolicy]
  BY <1>3, <1>4 DEF PaymentsInv
<1> QED BY <1>5 DEF SetPaymentPolicy, PaymentsInv

----------------------------------------------------------------------------
(* The executions in progress.                                             *)

\* What an execution saves satisfies what the present state does.
LEMMA SnapshotSaved ==
  ASSUME LimitsInv, SettingsInv, PaymentsInv, NoncesInv
  PROVE  Snapshot \in Saved
<1>1. Snapshot \in SavedState
  <2>1. /\ limits \in [Token -> SpendLimit] /\ allowedTargets \in SUBSET GrantedTarget
        /\ allowedFunctions \in SUBSET GrantedFunction /\ usesFunctionAllowlist \in BOOLEAN
        /\ guardian \in Guardian \cup {NoGuardian} /\ frozen \in BOOLEAN
        /\ policies \in [PaymentKey -> PaymentPolicy] /\ usedPaymentHashes \in SUBSET PaymentHash
        /\ peak \in [Token -> Nat] /\ spends \in Seq(SpendEntry) /\ payments \in Seq(PaymentEntry)
        /\ sessionKeys \in SessionKeys /\ usedSessionNonces \in SUBSET Nonce
        /\ honoured \in Seq(Nonce)
    BY DEF LimitsInv, SettingsInv, PaymentsInv, NoncesInv
  <2> QED BY <2>1 DEF Snapshot, SavedState
<1>2. /\ WithinPeak(Snapshot.limits, Snapshot.peak)
      /\ OnceEach(Snapshot.honoured, Snapshot.usedSessionNonces)
      /\ PaidOnce(Snapshot.payments, Snapshot.usedPaymentHashes)
  BY DEF Snapshot, LimitsInv, PaymentsInv, NoncesInv
<1> QED BY <1>1, <1>2 DEF Saved

\* Returning and reverting take the last execution off.
LEMMA Popped ==
  ASSUME CallsInv, ~Idle, calls' = SubSeq(calls, 1, Len(calls) - 1)
  PROVE  CallsInv' /\ calls[Len(calls)] \in Saved /\ Len(calls') < Len(calls)
<1>1. Len(calls) \in Nat \ {0}
  BY DEF CallsInv, Idle
<1>2. PICK n \in Nat : Len(calls) = n + 1
  <2>1. Len(calls) = (Len(calls) - 1) + 1 /\ Len(calls) - 1 \in Nat
    BY <1>1
  <2> QED BY <2>1
<1>3. calls' \in Seq(Saved) /\ Len(calls') = n
  <2>1. \A k \in 1..Len(calls) : calls[k] \in Saved
    BY ElementOfSeq DEF CallsInv
  <2>2. \A k \in 1..n : calls[k] \in Saved
    BY <1>2, <2>1
  <2>3. calls' = SubSeq(calls, 1, n)
    BY <1>2
  <2>4. calls' \in Seq(Saved) /\ Len(calls') = IF 1 <= n THEN n - 1 + 1 ELSE 0
    BY <2>2, <2>3, SubSeqProperties
  <2> QED BY <2>4
<1>4. calls[Len(calls)] \in Saved
  BY <1>1 DEF CallsInv
<1> QED BY <1>1, <1>2, <1>3, <1>4 DEF CallsInv

\* A revert restores a state that satisfied the invariant.
LEMMA RevertInv ==
  ASSUME IInv, Revert
  PROVE  IInv'
<1> DEFINE s == calls[Len(calls)]
<1>1. CallsInv' /\ s \in Saved
  BY Popped DEF Revert, IInv
<1>2. /\ s \in SavedState
      /\ WithinPeak(s.limits, s.peak)
      /\ OnceEach(s.honoured, s.usedSessionNonces)
      /\ PaidOnce(s.payments, s.usedPaymentHashes)
  BY <1>1 DEF Saved
<1>3. /\ limits' = s.limits /\ allowedTargets' = s.allowedTargets
      /\ allowedFunctions' = s.allowedFunctions
      /\ usesFunctionAllowlist' = s.usesFunctionAllowlist
      /\ guardian' = s.guardian /\ frozen' = s.frozen
      /\ policies' = s.policies /\ usedPaymentHashes' = s.usedPaymentHashes
      /\ peak' = s.peak /\ spends' = s.spends /\ payments' = s.payments
      /\ sessionKeys' = s.sessionKeys
      /\ usedSessionNonces' = s.usedSessionNonces /\ honoured' = s.honoured
      /\ now' = now
  BY DEF Revert
<1> HIDE DEF s
<1>4. LimitsInv'
  BY <1>2, <1>3 DEF SavedState, LimitsInv
<1>5. SettingsInv'
  <2>1. /\ s.allowedTargets \in SUBSET GrantedTarget
        /\ s.allowedFunctions \in SUBSET GrantedFunction
        /\ s.guardian \in Guardian \cup {NoGuardian}
        /\ s.sessionKeys \in SessionKeys
    BY <1>2 DEF SavedState
  <2>2. s.frozen \in BOOLEAN /\ s.usesFunctionAllowlist \in BOOLEAN
    BY <1>2 DEF SavedState
  <2> QED BY <1>3, <2>1, <2>2, Zenon DEF SettingsInv
<1>6. PaymentsInv'
  BY <1>2, <1>3 DEF SavedState, PaymentsInv
<1>7. NoncesInv'
  BY <1>2, <1>3 DEF SavedState, NoncesInv
<1> QED BY <1>1, <1>3, <1>4, <1>5, <1>6, <1>7 DEF IInv

\* An execution saves the state it would revert to.
LEMMA ExecuteInv ==
  ASSUME IInv, NEW call \in Call, Execute(call),
         AsSigner \/ \E order \in Order : AsSession(order)
  PROVE  IInv'
<1>1. LimitsInv' /\ NoncesInv'
  BY ExecuteLimits, NoncesStep DEF IInv
<1>2. UNCHANGED <<now, settings, frozen, policies, usedPaymentHashes, payments, sessionKeys>>
  BY DEF Execute
<1>3. SettingsInv' /\ PaymentsInv' /\ now' \in Nat
  BY <1>2 DEF IInv, SettingsInv, PaymentsInv, settings
<1>4. Len(calls) < MaxDepth /\ calls' = Append(calls, Snapshot)
  BY DEF Execute
<1>5. Snapshot \in Saved
  BY SnapshotSaved DEF IInv
<1>6. CallsInv'
  <2>1. calls' \in Seq(Saved) /\ Len(calls') = Len(calls) + 1 /\ Len(calls) \in Nat
    BY <1>4, <1>5 DEF IInv, CallsInv
  <2> QED BY <1>4, <2>1 DEF CallsInv
<1> QED BY <1>1, <1>3, <1>6 DEF IInv

----------------------------------------------------------------------------
(* Settings.                                                               *)

\* The account's wrappers around its module's settings.
LEMMA ModuleSettingInv ==
  ASSUME LimitsInv, SettingsInv, PaymentsInv, ModuleSetting
  PROVE  LimitsInv' /\ SettingsInv' /\ PaymentsInv'
<1>1. ASSUME NEW t \in Token, NEW m \in Maximum, SetSpendLimit(t, m), sessionKeys' = sessionKeys
      PROVE  LimitsInv' /\ SettingsInv' /\ PaymentsInv'
  <2>1. LimitsInv'
    BY <1>1, SetSpendLimitInv
  <2>2. UNCHANGED <<settings, frozen, policies, usedPaymentHashes, payments, sessionKeys>>
    BY <1>1 DEF SetSpendLimit
  <2> QED BY <2>1, <2>2 DEF SettingsInv, PaymentsInv, settings
<1>2. CASE UNCHANGED <<limits, policies, usedPaymentHashes, peak, spends, payments>>
  <2>1. LimitsInv' /\ PaymentsInv'
    BY <1>2 DEF LimitsInv, PaymentsInv
  <2>2. ASSUME NEW t \in GrantedTarget, NEW allowed \in BOOLEAN, SetTargetAllowed(t, allowed),
               sessionKeys' = sessionKeys
        PROVE  SettingsInv'
    BY <2>2 DEF SetTargetAllowed, SettingsInv
  <2>3. ASSUME NEW f \in GrantedFunction, NEW allowed \in BOOLEAN,
               SetFunctionAllowed(f[1], f[2], allowed), sessionKeys' = sessionKeys
        PROVE  SettingsInv'
    <3>1. f = <<f[1], f[2]>>
      OBVIOUS
    <3> QED BY <2>3, <3>1 DEF SetFunctionAllowed, SettingsInv
  <2>4. ASSUME NEW enabled \in BOOLEAN, SetUseFunctionAllowlist(enabled),
               sessionKeys' = sessionKeys
        PROVE  SettingsInv'
    BY <2>4, Zenon DEF SetUseFunctionAllowlist, SettingsInv
  <2>5. ASSUME NEW g \in Guardian \cup {NoGuardian}, SetGuardian(g), sessionKeys' = sessionKeys
        PROVE  SettingsInv'
    BY <2>5 DEF SetGuardian, SettingsInv
  <2>6. ASSUME NEW value \in BOOLEAN, SetAccountFrozen(value), sessionKeys' = sessionKeys
        PROVE  SettingsInv'
    BY <2>6, Zenon DEF SetAccountFrozen, SettingsInv, settings
  <2>7. ASSUME NEW t \in Token, NEW m \in Maximum, SetSpendLimit(t, m), sessionKeys' = sessionKeys
        PROVE  SettingsInv'
    BY <1>1, <2>7
  <2> QED BY <2>1, <2>2, <2>3, <2>4, <2>5, <2>6, <2>7 DEF ModuleSetting
<1> QED BY <1>1, <1>2 DEF ModuleSetting, SetTargetAllowed, SetFunctionAllowed,
           SetUseFunctionAllowlist, SetGuardian, SetAccountFrozen

----------------------------------------------------------------------------
(* The invariant.                                                          *)

\* Where everything starts.
LEMMA InitInv == Init => IInv
<1> SUFFICES ASSUME Init PROVE IInv
  OBVIOUS
<1>1. LimitsInv
  BY DEF Init, ModuleInit, LimitsInv, WithinPeak, SpendLimit
<1>2. SettingsInv
  <2>1. frozen \in BOOLEAN /\ usesFunctionAllowlist \in BOOLEAN
    BY DEF Init, ModuleInit
  <2>2. /\ allowedTargets \in SUBSET GrantedTarget /\ allowedFunctions \in SUBSET GrantedFunction
        /\ guardian \in Guardian \cup {NoGuardian} /\ sessionKeys \in SessionKeys
    BY DEF Init, ModuleInit, SessionKeys
  <2> QED BY <2>1, <2>2 DEF SettingsInv
<1>3. PaymentsInv
  BY DEF Init, ModuleInit, PaymentsInv, PaidOnce, PaymentPolicy
<1>4. NoncesInv /\ CallsInv
  BY DEF Init, NoncesInv, OnceEach, CallsInv
<1> QED BY <1>1, <1>2, <1>3, <1>4 DEF Init, ModuleInit, IInv

\* What the account tells its module or itself.
LEMMA OwnInv ==
  ASSUME IInv, UNCHANGED <<now, calls>>, ModuleSetting \/ SetSessionKey \/ ModuleFunction
  PROVE  now' \in Nat /\ LimitsInv' /\ SettingsInv' /\ PaymentsInv' /\ CallsInv'
<1>1. now' \in Nat /\ CallsInv'
  BY DEF IInv, CallsInv
<1>2. CASE ModuleSetting
  BY <1>1, <1>2, ModuleSettingInv DEF IInv
<1>3. CASE SetSessionKey
  <2>1. sessionKeys' \in SessionKeys
    BY <1>3 DEF SetSessionKey, SessionKeys, IInv, SettingsInv
  <2>2. UNCHANGED moduleVars
    BY <1>3 DEF SetSessionKey
  <2> QED BY <1>1, <2>1, <2>2 DEF IInv, moduleVars, settings, LimitsInv, SettingsInv, PaymentsInv
<1>4. CASE ModuleFunction
  <2>1. sessionKeys' = sessionKeys
    BY <1>4 DEF ModuleFunction
  <2>2. ASSUME NEW t \in Token, NEW a \in Amount, RecordSpendDirectly(t, a)
        PROVE  LimitsInv' /\ SettingsInv' /\ PaymentsInv'
    <3>1. LimitsInv'
      BY <2>2, RecordSpendInv DEF IInv
    <3> QED BY <2>1, <2>2, <3>1 DEF RecordSpendDirectly, IInv, settings, SettingsInv, PaymentsInv
  <2>3. ASSUME NEW k \in PaymentKey, NEW each \in Maximum, NEW daily \in Maximum,
               NEW allowed \in BOOLEAN, SetPaymentPolicy(k, each, daily, allowed)
        PROVE  LimitsInv' /\ SettingsInv' /\ PaymentsInv'
    <3>1. PaymentsInv'
      BY <2>3, SetPaymentPolicyInv DEF IInv
    <3> QED BY <2>1, <2>3, <3>1 DEF SetPaymentPolicy, IInv, settings, SettingsInv, LimitsInv
  <2>4. ASSUME NEW k \in PaymentKey, NEW a \in Amount, NEW h \in PaymentHash,
               RecordSignedPayment(k, a, h)
        PROVE  LimitsInv' /\ SettingsInv' /\ PaymentsInv'
    <3>1. PaymentsInv'
      BY <2>4, SignedPaymentInv DEF IInv
    <3> QED BY <2>1, <2>4, <3>1 DEF RecordSignedPayment, IInv, settings, SettingsInv, LimitsInv
  <2> QED BY <1>1, <1>4, <2>2, <2>3, <2>4 DEF ModuleFunction
<1> QED BY <1>2, <1>3, <1>4

\* No step breaks the invariant.
LEMMA StepInv == IInv /\ [Next]_vars => IInv'
<1> SUFFICES ASSUME IInv, [Next]_vars PROVE IInv'
  OBVIOUS
<1>1. CASE ExecuteCall
  <2>1. ASSUME AsSigner, NEW call \in Calls, Execute(call) PROVE IInv'
    BY <2>1, ExecuteInv
  <2>2. ASSUME NEW order \in Order, order.call \in Call, AsSession(order), Execute(order.call)
        PROVE  IInv'
    BY <2>2, ExecuteInv
  <2> QED BY <1>1, <2>1, <2>2 DEF ExecuteCall
<1>2. CASE Configure
  <2>1. NoncesInv'
    BY <1>2, NoncesStep DEF Configure, IInv
  <2> QED BY <1>2, <2>1, OwnInv DEF Configure, IInv
<1>3. ASSUME NEW target \in {Module, Self}, ExecuteOwn(target) PROVE IInv'
  <2>1. NoncesInv'
    BY <1>3, NoncesStep DEF ExecuteOwn, IInv
  <2> QED BY <1>3, <2>1, OwnInv DEF ExecuteOwn, IInv
<1>4. CASE GuardianFreeze
  <2>1. PICK value \in BOOLEAN : SetAccountFrozen(value)
    BY <1>4 DEF GuardianFreeze
  <2>2. UNCHANGED <<now, accountVars>>
    BY <1>4 DEF GuardianFreeze
  <2>3. SettingsInv'
    BY <2>1, <2>2, Zenon DEF SetAccountFrozen, IInv, SettingsInv, settings, accountVars
  <2> QED BY <2>1, <2>2, <2>3 DEF SetAccountFrozen, accountVars, settings, IInv, LimitsInv,
             PaymentsInv, NoncesInv, CallsInv
<1>5. CASE Return
  <2>1. CallsInv'
    BY <1>5, Popped DEF Return, IInv
  <2> QED BY <1>5, <2>1 DEF Return, moduleVars, settings, IInv, LimitsInv, SettingsInv,
             PaymentsInv, NoncesInv
<1>6. CASE Revert
  BY <1>6, RevertInv
<1>7. CASE Tick
  BY <1>7 DEF Tick, moduleVars, accountVars, settings, IInv, LimitsInv, SettingsInv,
     PaymentsInv, NoncesInv, CallsInv
<1>8. CASE UNCHANGED vars
  BY <1>8 DEF vars, moduleVars, accountVars, settings, IInv, LimitsInv, SettingsInv,
     PaymentsInv, NoncesInv, CallsInv
<1> QED BY <1>1, <1>2, <1>3, <1>4, <1>5, <1>6, <1>7, <1>8 DEF Next

\* So the invariant always holds.
LEMMA AlwaysInv == Spec => []IInv
<1> QED BY InitInv, StepInv, PTL DEF Spec

\* Every variable always holds a value of its type, whatever reverts.
THEOREM TypeCorrect == Spec => []TypeOK
<1>1. IInv => TypeOK
  <2> SUFFICES ASSUME IInv PROVE TypeOK
    OBVIOUS
  <2>1. ModuleTypeOK
    <3>1. frozen \in BOOLEAN /\ usesFunctionAllowlist \in BOOLEAN
      BY DEF IInv, SettingsInv
    <3> QED BY <3>1 DEF IInv, LimitsInv, SettingsInv, PaymentsInv, ModuleTypeOK,
               SpendEntry, PaymentEntry
  <2>2. honoured \in Seq(usedSessionNonces)
    <3>1. /\ DOMAIN honoured = 1..Len(honoured) /\ Len(honoured) \in Nat
          /\ honoured \in [1..Len(honoured) -> Nonce]
      BY DEF IInv, NoncesInv
    <3>2. \A k \in DOMAIN honoured : honoured[k] \in usedSessionNonces
      BY DEF IInv, NoncesInv, OnceEach
    <3>3. honoured \in [1..Len(honoured) -> usedSessionNonces]
      BY <3>1, <3>2
    <3> QED BY <3>1, <3>3
  <2> QED BY <2>1, <2>2 DEF IInv, SettingsInv, NoncesInv, CallsInv, SessionKeys, Nonce, TypeOK
<1> QED BY <1>1, AlwaysInv, PTL

\* What is spent of a token never exceeds the largest maximum it ever had, through
\* re-entrance and reverts: what the repository's fuzzed invariant tests.
THEOREM SpentAlwaysWithinPeak == Spec => []SpentWithinPeak
<1>1. IInv => SpentWithinPeak
  BY DEF IInv, LimitsInv, WithinPeak, SpentWithinPeak
<1> QED BY <1>1, AlwaysInv, PTL

\* A session nonce lets one execution through, however a target re-enters the
\* account and whatever reverts.
THEOREM NonceAlwaysHonouredOnce == Spec => []NonceHonouredOnce
<1>1. IInv => NonceHonouredOnce
  BY DEF IInv, NoncesInv, OnceEach, NonceHonouredOnce
<1> QED BY <1>1, AlwaysInv, PTL

\* A payment hash is used up by the one payment recorded under it.
THEOREM PaymentsAlwaysRecordedOnce == Spec => []PaymentsRecordedOnce
<1>1. IInv => PaymentsRecordedOnce
  BY DEF IInv, PaymentsInv, PaidOnce, PaymentsRecordedOnce
<1> QED BY <1>1, AlwaysInv, PTL

----------------------------------------------------------------------------
(* Frozen accounts.  That a revert cannot lengthen a history needs to know *)
(* that what it restores is older than the present.                        *)

NotLonger(s, h, sp, ps) ==
  Len(s.honoured) <= Len(h) /\ Len(s.spends) <= Len(sp) /\ Len(s.payments) <= Len(ps)

OrderInv ==
  /\ \A k \in DOMAIN calls : NotLonger(calls[k], honoured, spends, payments)
  /\ \A j, k \in DOMAIN calls :
       j <= k => NotLonger(calls[j], calls[k].honoured, calls[k].spends, calls[k].payments)

HistoriesGrow ==
  Len(honoured) <= Len(honoured') /\ Len(spends) <= Len(spends') /\ Len(payments) <= Len(payments')

\* The lengths compared are numbers.
LEMMA Lengths ==
  ASSUME IInv
  PROVE  /\ Len(honoured) \in Nat /\ Len(spends) \in Nat /\ Len(payments) \in Nat
         /\ \A k \in DOMAIN calls : /\ Len(calls[k].honoured) \in Nat
                                    /\ Len(calls[k].spends) \in Nat
                                    /\ Len(calls[k].payments) \in Nat
<1>1. Len(honoured) \in Nat /\ Len(spends) \in Nat /\ Len(payments) \in Nat
  BY DEF IInv, NoncesInv, LimitsInv, PaymentsInv
<1>2. ASSUME NEW k \in DOMAIN calls
      PROVE  /\ Len(calls[k].honoured) \in Nat
             /\ Len(calls[k].spends) \in Nat
             /\ Len(calls[k].payments) \in Nat
  <2>1. calls[k] \in Saved
    BY DEF IInv, CallsInv
  <2>2. calls[k] \in SavedState
    BY <2>1 DEF Saved
  <2>3. /\ calls[k].honoured \in Seq(Nonce)
        /\ calls[k].spends \in Seq(SpendEntry)
        /\ calls[k].payments \in Seq(PaymentEntry)
    BY <2>2 DEF SavedState
  <2> QED BY <2>3
<1> QED BY <1>1, <1>2

\* Whoever asks for an execution, no history of orders shrinks.
LEMMA HonouredGrows ==
  ASSUME IInv, AsSigner \/ \E order \in Order : AsSession(order)
  PROVE  Len(honoured) <= Len(honoured')
<1>1. CASE AsSigner
  BY <1>1, Lengths DEF AsSigner
<1>2. ASSUME NEW order \in Order, AsSession(order) PROVE Len(honoured) <= Len(honoured')
  <2>1. honoured' = Append(honoured, <<order.key, order.nonce>>)
    BY <1>2 DEF AsSession
  <2>2. Len(honoured') = Len(honoured) + 1
    BY <2>1 DEF IInv, NoncesInv
  <2> QED BY <2>2, Lengths
<1> QED BY <1>1, <1>2

\* Executing spends more, or nothing.
LEMMA ExecuteGrows ==
  ASSUME IInv, NEW call \in Call, Execute(call)
  PROVE  Len(spends) <= Len(spends') /\ payments' = payments
<1> DEFINE entries == IF call.value > 0 THEN Charged(limits, Native, call.value) ELSE << >>
           charged == IF call.value > 0 THEN RecordSpend(limits, Native, call.value) ELSE limits
           more == IF TokenSpend(call) > 0 THEN Charged(limits, call.target, TokenSpend(call))
                   ELSE << >>
<1>1. /\ call.target \in Token /\ Native \in Token
      /\ call.value \in Nat /\ TokenSpend(call) \in Nat
  BY CallType
<1>2. entries \in Seq(SpendEntry) /\ more \in Seq(SpendEntry)
  BY <1>1, ChargedType DEF IInv
<1>3. spends' = spends \o entries \o more /\ payments' = payments
  BY DEF Execute
<1> HIDE DEF entries, more
<1>4. Len(spends') = Len(spends) + Len(entries) + Len(more)
  BY <1>2, <1>3 DEF IInv, LimitsInv
<1> QED BY <1>2, <1>3, <1>4, Lengths

\* Nothing the account tells its module or itself shrinks a history.
LEMMA OwnGrows ==
  ASSUME IInv, ModuleSetting \/ SetSessionKey \/ ModuleFunction
  PROVE  Len(spends) <= Len(spends') /\ Len(payments) <= Len(payments')
<1>1. CASE ModuleSetting \/ SetSessionKey
  <2>1. UNCHANGED <<spends, payments>>
    BY <1>1 DEF ModuleSetting, SetSessionKey, moduleVars, SetSpendLimit, SetTargetAllowed,
       SetFunctionAllowed, SetUseFunctionAllowlist, SetGuardian, SetAccountFrozen
  <2> QED BY <2>1, Lengths
<1>2. CASE ModuleFunction
  <2>1. ASSUME NEW t \in Token, NEW a \in Amount, RecordSpendDirectly(t, a)
        PROVE  Len(spends) <= Len(spends') /\ payments' = payments
    <3>1. Charged(limits, t, a) \in Seq(SpendEntry)
      BY ChargedType DEF IInv
    <3>2. spends' = spends \o Charged(limits, t, a) /\ payments' = payments
      BY <2>1 DEF RecordSpendDirectly
    <3>3. Len(spends') = Len(spends) + Len(Charged(limits, t, a))
      BY <3>1, <3>2 DEF IInv, LimitsInv
    <3> QED BY <3>1, <3>2, <3>3, Lengths
  <2>2. ASSUME NEW k \in PaymentKey, NEW each \in Maximum, NEW daily \in Maximum,
               NEW allowed \in BOOLEAN, SetPaymentPolicy(k, each, daily, allowed)
        PROVE  UNCHANGED <<spends, payments>>
    BY <2>2 DEF SetPaymentPolicy
  <2>3. ASSUME NEW k \in PaymentKey, NEW a \in Amount, NEW h \in PaymentHash,
               RecordSignedPayment(k, a, h)
        PROVE  spends' = spends /\ Len(payments) <= Len(payments')
    <3>1. /\ spends' = spends
          /\ payments' = Append(payments, [key |-> k, hash |-> h, amount |-> a, time |-> now])
      BY <2>3 DEF RecordSignedPayment
    <3>2. Len(payments') = Len(payments) + 1
      BY <3>1 DEF IInv, PaymentsInv
    <3> QED BY <3>1, <3>2, Lengths
  <2> QED BY <1>2, <2>1, <2>2, <2>3, Lengths DEF ModuleFunction
<1> QED BY <1>1, <1>2

\* Every step but a revert lets the histories grow; all but the start of an
\* execution leave the executions in progress alone or take the last one off.
LEMMA StepGrows ==
  ASSUME IInv, [Next]_vars, ~Revert
  PROVE  /\ HistoriesGrow
         /\ \/ calls' = calls
            \/ ~Idle /\ calls' = SubSeq(calls, 1, Len(calls) - 1)
            \/ ~frozen /\ calls' = Append(calls, Snapshot)
<1> USE DEF HistoriesGrow
<1>1. CASE ExecuteCall
  <2>1. ASSUME NEW call \in Call, Execute(call), AsSigner \/ \E order \in Order : AsSession(order)
        PROVE  HistoriesGrow /\ ~frozen /\ calls' = Append(calls, Snapshot)
    <3>1. Len(honoured) <= Len(honoured')
      BY <2>1, HonouredGrows
    <3>2. Len(spends) <= Len(spends') /\ payments' = payments
      BY <2>1, ExecuteGrows
    <3>3. ~frozen /\ calls' = Append(calls, Snapshot)
      BY <2>1 DEF Execute, CheckTransaction
    <3> QED BY <3>1, <3>2, <3>3, Lengths
  <2> QED BY <1>1, <2>1 DEF ExecuteCall
<1>2. CASE Configure
  <2>1. Len(honoured) <= Len(honoured')
    BY <1>2, HonouredGrows DEF Configure
  <2>2. Len(spends) <= Len(spends') /\ Len(payments) <= Len(payments')
    BY <1>2, OwnGrows DEF Configure
  <2> QED BY <1>2, <2>1, <2>2 DEF Configure
<1>3. ASSUME NEW target \in {Module, Self}, ExecuteOwn(target)
      PROVE  HistoriesGrow /\ calls' = calls
  <2>1. Len(honoured) <= Len(honoured')
    BY <1>3, HonouredGrows DEF ExecuteOwn
  <2>2. Len(spends) <= Len(spends') /\ Len(payments) <= Len(payments')
    BY <1>3, OwnGrows DEF ExecuteOwn
  <2> QED BY <1>3, <2>1, <2>2 DEF ExecuteOwn
<1>4. CASE GuardianFreeze
  BY <1>4, Lengths DEF GuardianFreeze, SetAccountFrozen, accountVars
<1>5. CASE Return
  BY <1>5, Lengths DEF Return, moduleVars
<1>6. CASE Tick \/ UNCHANGED vars
  BY <1>6, Lengths DEF Tick, vars, moduleVars, accountVars
<1> QED BY <1>1, <1>2, <1>3, <1>4, <1>5, <1>6 DEF Next

\* The saved states stay older than the present one, and older than each other.
LEMMA OrderStep == IInv /\ IInv' /\ OrderInv /\ [Next]_vars => OrderInv'
<1> SUFFICES ASSUME IInv, IInv', OrderInv, [Next]_vars PROVE OrderInv'
  OBVIOUS
<1>1. /\ \A k \in DOMAIN calls : NotLonger(calls[k], honoured, spends, payments)
      /\ \A j, k \in DOMAIN calls :
           j <= k => NotLonger(calls[j], calls[k].honoured, calls[k].spends, calls[k].payments)
  BY DEF OrderInv
<1>2. ASSUME ~Idle, calls' = SubSeq(calls, 1, Len(calls) - 1)
      PROVE  /\ Len(calls) \in DOMAIN calls
             /\ DOMAIN calls' \subseteq DOMAIN calls
             /\ \A k \in DOMAIN calls' : calls'[k] = calls[k] /\ k <= Len(calls)
  <2>1. Len(calls) \in Nat \ {0} /\ DOMAIN calls = 1..Len(calls) /\ calls \in Seq(Saved)
    BY <1>2 DEF IInv, CallsInv, Idle
  <2>2. PICK n \in Nat : Len(calls) = n + 1
    <3>1. Len(calls) = (Len(calls) - 1) + 1 /\ Len(calls) - 1 \in Nat
      BY <2>1
    <3> QED BY <3>1
  <2>3. calls' = SubSeq(calls, 1, n)
    BY <1>2, <2>2
  <2>4. DOMAIN calls' = 1..n /\ \A k \in 1..n : calls'[k] = calls[k]
    BY <2>1, <2>2, <2>3
  <2> QED BY <2>1, <2>2, <2>4
<1>3. ASSUME HistoriesGrow, NEW s, Len(s.honoured) \in Nat, Len(s.spends) \in Nat,
             Len(s.payments) \in Nat, NotLonger(s, honoured, spends, payments)
      PROVE  NotLonger(s, honoured', spends', payments')
  <2>1. /\ Len(honoured) \in Nat /\ Len(spends) \in Nat /\ Len(payments) \in Nat
        /\ Len(honoured') \in Nat /\ Len(spends') \in Nat /\ Len(payments') \in Nat
    BY Lengths DEF IInv, NoncesInv, LimitsInv, PaymentsInv
  <2> QED BY <1>3, <2>1 DEF HistoriesGrow, NotLonger
<1>4. CASE Revert
  <2>1. ~Idle /\ calls' = SubSeq(calls, 1, Len(calls) - 1)
    BY <1>4 DEF Revert
  <2>2. /\ honoured' = calls[Len(calls)].honoured /\ spends' = calls[Len(calls)].spends
        /\ payments' = calls[Len(calls)].payments
    BY <1>4 DEF Revert
  <2>3. \A k \in DOMAIN calls' : NotLonger(calls'[k], honoured', spends', payments')
    BY <1>1, <1>2, <2>1, <2>2
  <2>4. \A j, k \in DOMAIN calls' :
          j <= k => NotLonger(calls'[j], calls'[k].honoured, calls'[k].spends, calls'[k].payments)
    BY <1>1, <1>2, <2>1
  <2> QED BY <2>3, <2>4 DEF OrderInv
<1>5. CASE ~Revert
  <2>1. HistoriesGrow
    BY <1>5, StepGrows
  <2>2. \A k \in DOMAIN calls : NotLonger(calls[k], honoured', spends', payments')
    BY <1>1, <1>3, <2>1, Lengths
  <2>3. CASE calls' = calls
    BY <1>1, <2>2, <2>3 DEF OrderInv
  <2>4. CASE ~Idle /\ calls' = SubSeq(calls, 1, Len(calls) - 1)
    <3>1. \A k \in DOMAIN calls' : NotLonger(calls'[k], honoured', spends', payments')
      BY <1>2, <2>2, <2>4
    <3>2. \A j, k \in DOMAIN calls' :
            j <= k => NotLonger(calls'[j], calls'[k].honoured, calls'[k].spends, calls'[k].payments)
      BY <1>1, <1>2, <2>4
    <3> QED BY <3>1, <3>2 DEF OrderInv
  <2>5. CASE calls' = Append(calls, Snapshot)
    <3>1. /\ DOMAIN calls' = DOMAIN calls \cup {Len(calls) + 1}
          /\ calls'[Len(calls) + 1] = Snapshot
          /\ \A k \in DOMAIN calls : calls'[k] = calls[k] /\ k <= Len(calls) /\ k \in Nat
          /\ Len(calls) \in Nat
      <4>1. calls \in Seq(Saved) /\ Snapshot \in Saved
        BY SnapshotSaved DEF IInv, CallsInv
      <4> QED BY <2>5, <4>1
    <3>2. /\ Snapshot.honoured = honoured /\ Snapshot.spends = spends
          /\ Snapshot.payments = payments
      BY DEF Snapshot
    <3>3. NotLonger(Snapshot, honoured, spends, payments)
      BY <3>2, Lengths DEF NotLonger
    <3>4. NotLonger(Snapshot, honoured', spends', payments')
      BY <1>3, <2>1, <3>2, <3>3, Lengths
    <3>5. \A k \in DOMAIN calls' : NotLonger(calls'[k], honoured', spends', payments')
      BY <2>2, <3>1, <3>4
    <3>6. ASSUME NEW j \in DOMAIN calls', NEW k \in DOMAIN calls', j <= k
          PROVE  NotLonger(calls'[j], calls'[k].honoured, calls'[k].spends, calls'[k].payments)
      <4>1. CASE k \in DOMAIN calls
        <5>1. j \in DOMAIN calls
          BY <3>1, <3>6, <4>1
        <5> QED BY <1>1, <3>1, <3>6, <4>1, <5>1
      <4>2. CASE k = Len(calls) + 1
        BY <1>1, <3>1, <3>2, <3>3, <4>2
      <4> QED BY <3>1, <4>1, <4>2
    <3> QED BY <3>5, <3>6 DEF OrderInv
  <2> QED BY <1>5, <2>3, <2>4, <2>5, StepGrows
<1> QED BY <1>4, <1>5

\* What FrozenMeansStill says of one step.
StillStep ==
  frozen => /\ Len(calls') <= Len(calls)
            /\ Len(honoured') <= Len(honoured)
            /\ Len(spends') <= Len(spends)
            /\ Len(payments') <= Len(payments)

\* A frozen account starts nothing: what it is told needs its check, which fails,
\* or is a setting.
LEMMA FrozenStep == IInv /\ OrderInv /\ [Next]_vars => [StillStep]_vars
<1> SUFFICES ASSUME IInv, OrderInv, [Next]_vars, frozen
             PROVE  /\ Len(calls') <= Len(calls)
                    /\ Len(honoured') <= Len(honoured)
                    /\ Len(spends') <= Len(spends)
                    /\ Len(payments') <= Len(payments)
  BY DEF StillStep
<1> USE Lengths
<1>1. Len(calls) \in Nat
  BY DEF IInv, CallsInv
<1>2. CASE ExecuteCall
  BY <1>2 DEF ExecuteCall, Execute, CheckTransaction
<1>3. CASE Configure
  <2>1. UNCHANGED <<calls, honoured>>
    BY <1>3 DEF Configure, AsSigner
  <2>2. UNCHANGED <<spends, payments>>
    BY <1>3 DEF Configure, ModuleSetting, SetSessionKey, moduleVars, SetSpendLimit,
       SetTargetAllowed, SetFunctionAllowed, SetUseFunctionAllowlist, SetGuardian,
       SetAccountFrozen
  <2> QED BY <1>1, <2>1, <2>2
<1>4. CASE ExecuteOwn(Module) \/ ExecuteOwn(Self)
  BY <1>4 DEF ExecuteOwn, CheckTransaction
<1>5. CASE GuardianFreeze
  BY <1>1, <1>5 DEF GuardianFreeze, SetAccountFrozen, accountVars
<1>6. CASE Return
  <2>1. Len(calls') < Len(calls) /\ CallsInv'
    BY <1>6, Popped DEF Return, IInv
  <2>2. Len(calls') \in Nat
    BY <2>1 DEF CallsInv
  <2> QED BY <1>1, <1>6, <2>1, <2>2 DEF Return, moduleVars
<1>7. CASE Revert
  <2>1. Len(calls') < Len(calls) /\ CallsInv'
    BY <1>7, Popped DEF Revert, IInv
  <2>2. Len(calls') \in Nat
    BY <2>1 DEF CallsInv
  <2>3. Len(calls) \in DOMAIN calls
    BY <1>1, <1>7 DEF Revert, Idle, IInv, CallsInv
  <2>4. NotLonger(calls[Len(calls)], honoured, spends, payments)
    BY <2>3 DEF OrderInv
  <2> QED BY <1>1, <1>7, <2>1, <2>2, <2>4 DEF Revert, NotLonger
<1>8. CASE Tick \/ UNCHANGED vars
  <2>1. UNCHANGED <<calls, honoured, spends, payments>>
    BY <1>8 DEF Tick, vars, moduleVars, accountVars
  <2> QED BY <1>1, <2>1
<1> QED BY <1>2, <1>3, <1>4, <1>5, <1>6, <1>7, <1>8 DEF Next

\* A frozen account starts no execution and records no payment, wherever in a
\* transaction its guardian froze it.
THEOREM FrozenStaysStill == Spec => FrozenMeansStill
<1>1. Init => OrderInv
  BY DEF Init, OrderInv
<1>2. Spec => []OrderInv
  BY <1>1, OrderStep, AlwaysInv, PTL DEF Spec
<1> QED BY <1>2, FrozenStep, AlwaysInv, PTL DEF Spec, FrozenMeansStill, StillStep

----------------------------------------------------------------------------
(* Powers.                                                                 *)

\* What PowersStayWithSigner says of one step.
PowersStep ==
  (~Idle \/ honoured' # honoured) /\ Len(calls') >= Len(calls)
    /\ {Module, Self} \cap allowedTargets = {}
  => Powers' = Powers

\* Charging a limit leaves its maximum.
LEMMA ChargeKeepsMaximum ==
  ASSUME NEW ls \in [Token -> SpendLimit], NEW t \in Token, NEW a \in Nat
  PROVE  \A u \in Token : RecordSpend(ls, t, a)[u].maxPerDay = ls[u].maxPerDay
<1>1. CASE ls[t].maxPerDay = 0
  BY <1>1 DEF RecordSpend
<1>2. CASE ls[t].maxPerDay # 0
  <2>1. RecordSpend(ls, t, a) = [ls EXCEPT ![t] = Charge(ls[t], a)]
    BY <1>2 DEF RecordSpend
  <2>2. ls[t] \in SpendLimit
    OBVIOUS
  <2>3. Charge(ls[t], a).maxPerDay = ls[t].maxPerDay
    BY <2>2 DEF Charge, SpendLimit
  <2> QED BY <2>1, <2>3
<1> QED BY <1>1, <1>2

\* Executing leaves every maximum, and every setting, alone.
LEMMA ExecuteKeepsPowers ==
  ASSUME IInv, NEW call \in Call, Execute(call)
  PROVE  Powers' = Powers
<1> DEFINE charged == IF call.value > 0 THEN RecordSpend(limits, Native, call.value) ELSE limits
           spent == TokenSpend(call)
<1>1. /\ call.target \in Token /\ Native \in Token
      /\ call.value \in Nat /\ spent \in Nat
  BY CallType
<1>2. /\ now \in Nat /\ limits \in [Token -> SpendLimit] /\ peak \in [Token -> Nat]
      /\ WithinPeak(limits, peak)
  BY DEF IInv, LimitsInv
<1>3. /\ charged \in [Token -> SpendLimit]
      /\ \A t \in Token : charged[t].maxPerDay = limits[t].maxPerDay
  <2>1. CASE call.value > 0
    <3>1. WithinLimit(limits[Native], call.value)
      BY <2>1 DEF Execute, CheckTransaction
    <3>2. RecordSpend(limits, Native, call.value) \in [Token -> SpendLimit]
      BY <1>1, <1>2, <3>1, ChargeWithinPeak
    <3>3. \A t \in Token :
            RecordSpend(limits, Native, call.value)[t].maxPerDay = limits[t].maxPerDay
      BY <1>1, <1>2, ChargeKeepsMaximum
    <3> QED BY <2>1, <3>2, <3>3
  <2>2. CASE ~(call.value > 0)
    BY <1>2, <2>2
  <2> QED BY <2>1, <2>2
<1>4. limits' = IF spent > 0 THEN RecordSpend(charged, call.target, spent) ELSE charged
  BY DEF Execute
<1> HIDE DEF charged, spent
<1>5. \A t \in Token : limits'[t].maxPerDay = limits[t].maxPerDay
  BY <1>1, <1>3, <1>4, ChargeKeepsMaximum
<1>6. UNCHANGED <<settings, policies, sessionKeys>>
  BY DEF Execute
<1> QED BY <1>5, <1>6 DEF Powers, settings

\* Only the signer at rest, and reverts, reach what changes powers.
LEMMA PowersStepHolds == IInv /\ [Next]_vars => [PowersStep]_vars
<1> SUFFICES ASSUME IInv, [Next]_vars, ~Idle \/ honoured' # honoured,
                    Len(calls') >= Len(calls), {Module, Self} \cap allowedTargets = {}
             PROVE  Powers' = Powers
  BY DEF PowersStep
<1>1. CASE ExecuteCall
  BY <1>1, ExecuteKeepsPowers DEF ExecuteCall
<1>2. CASE Configure
  BY <1>2 DEF Configure, AsSigner
<1>3. CASE ExecuteOwn(Module) \/ ExecuteOwn(Self)
  BY <1>3 DEF ExecuteOwn, CheckTransaction, OwnCall
<1>4. CASE GuardianFreeze
  BY <1>4 DEF GuardianFreeze, SetAccountFrozen, accountVars, settings, Powers
<1>5. CASE Return \/ Revert
  <2>1. Len(calls') < Len(calls) /\ CallsInv'
    BY <1>5, Popped DEF Return, Revert, IInv
  <2>2. Len(calls') \in Nat /\ Len(calls) \in Nat
    BY <2>1 DEF CallsInv, IInv
  <2> QED BY <2>1, <2>2
<1>6. CASE Tick
  BY <1>6 DEF Tick, accountVars
<1>7. CASE UNCHANGED vars
  BY <1>7 DEF vars, moduleVars, accountVars, settings, Powers
<1> QED BY <1>1, <1>2, <1>3, <1>4, <1>5, <1>6, <1>7 DEF Next

\* No session key and no code the account calls changes what the account allows,
\* as long as neither its module nor the account itself is an allowed target.
THEOREM PowersAlwaysStay == Spec => PowersStayWithSigner
<1> QED BY PowersStepHolds, AlwaysInv, PTL DEF Spec, PowersStayWithSigner, PowersStep

----------------------------------------------------------------------------
(* What is spent.                                                          *)

\* The history of spends or payments as functions to be summed, and the part of
\* it that one limit, or one payment policy, accounts for.
Amounts(ss) == [k \in DOMAIN ss |-> ss[k].amount]
Charging(ss, t) == {k \in DOMAIN ss : ss[k].token = t}
PaidUnder(ss, key) == {k \in DOMAIN ss : ss[k].key = key}

Since(ss, K, first) == {k \in K : first <= ss[k].time}
Between(ss, K, first, end) == {k \in K : first <= ss[k].time /\ ss[k].time < end}

\* A window that began at `reset', with `spent' in it, at time n.
Balanced(n, ss, K, spent, reset) ==
  /\ spent = SumOver(Amounts(ss), Since(ss, K, reset))
  /\ reset <= n
  /\ \A k \in K : Day <= ss[k].time /\ ss[k].time <= n /\ ss[k].time < reset + Day

\* A day before the window, and any day at all.
Bounded(ss, K, reset, p) ==
  /\ \A f \in Nat : f + Day >= reset => SumOver(Amounts(ss), Between(ss, K, f, reset)) <= p
  /\ \A f \in Nat : SumOver(Amounts(ss), Between(ss, K, f, f + Day)) <= 2 * p

History(ss) ==
  /\ \E S : ss \in Seq(S)
  /\ \A k \in DOMAIN ss : ss[k].amount \in Nat /\ ss[k].time \in Nat

\* Sums over parts of a history are naturals, and parts of it finite.
LEMMA PartSum ==
  ASSUME NEW ss, History(ss), NEW K \in SUBSET DOMAIN ss
  PROVE  /\ IsFiniteSet(K) /\ SumOver(Amounts(ss), K) \in Nat
         /\ \A k \in K : Amounts(ss)[k] \in Nat /\ Amounts(ss)[k] \in Int
<1>1. PICK S : ss \in Seq(S)
  BY DEF History
<1>2. DOMAIN ss = 1..Len(ss) /\ Len(ss) \in Nat
  BY <1>1
<1>3. IsFiniteSet(K)
  <2>1. IsFiniteSet(1..Len(ss))
    BY <1>2, FS_Interval
  <2> QED BY <1>2, <2>1, FS_Subset
<1>4. \A k \in K : Amounts(ss)[k] \in Nat
  BY DEF Amounts, History
<1> QED BY <1>3, <1>4, SumType

\* A history with one entry more.
LEMMA Longer ==
  ASSUME NEW ss, History(ss), NEW e, e.amount \in Nat, e.time \in Nat
  PROVE  /\ History(Append(ss, e)) /\ DOMAIN Append(ss, e) = DOMAIN ss \cup {Len(ss) + 1}
         /\ Len(ss) + 1 \notin DOMAIN ss /\ Append(ss, e)[Len(ss) + 1] = e
         /\ \A k \in DOMAIN ss : Append(ss, e)[k] = ss[k]
<1> DEFINE tt == Append(ss, e)
           x == Len(ss) + 1
<1>1. PICK S : ss \in Seq(S)
  BY DEF History
<1>2. ss \in Seq(S \cup {e}) /\ e \in S \cup {e}
  BY <1>1
<1>3. /\ tt \in Seq(S \cup {e}) /\ DOMAIN tt = DOMAIN ss \cup {x} /\ x \notin DOMAIN ss
      /\ tt[x] = e /\ \A k \in DOMAIN ss : tt[k] = ss[k]
  BY <1>2
<1> HIDE DEF tt, x
<1>4. History(tt)
  BY <1>3 DEF History
<1> QED BY <1>3, <1>4 DEF tt, x

\* Its old parts sum to the same, with the new entry to its amount more.
LEMMA LongerSum ==
  ASSUME NEW ss, History(ss), NEW e, e.amount \in Nat, e.time \in Nat
  PROVE  /\ \A K \in SUBSET DOMAIN ss :
              SumOver(Amounts(Append(ss, e)), K) = SumOver(Amounts(ss), K)
         /\ \A K \in SUBSET DOMAIN ss :
              SumOver(Amounts(Append(ss, e)), K \cup {Len(ss) + 1})
                = SumOver(Amounts(ss), K) + e.amount
<1> SUFFICES ASSUME NEW K \in SUBSET DOMAIN ss
             PROVE  /\ SumOver(Amounts(Append(ss, e)), K) = SumOver(Amounts(ss), K)
                    /\ SumOver(Amounts(Append(ss, e)), K \cup {Len(ss) + 1})
                         = SumOver(Amounts(ss), K) + e.amount
  OBVIOUS
<1> DEFINE tt == Append(ss, e)
           x == Len(ss) + 1
<1>3. /\ History(tt) /\ DOMAIN tt = DOMAIN ss \cup {x} /\ x \notin DOMAIN ss
      /\ tt[x] = e /\ \A k \in DOMAIN ss : tt[k] = ss[k]
  BY Longer
<1> HIDE DEF tt, x
<1>5. SumOver(Amounts(tt), K) = SumOver(Amounts(ss), K)
  <2>1. \A k \in K : Amounts(tt)[k] = Amounts(ss)[k]
    BY <1>3 DEF Amounts
  <2> QED BY <2>1, PartSum, SumEqual
<1>6. SumOver(Amounts(tt), K \cup {x}) = SumOver(Amounts(ss), K) + e.amount
  <2>1. x \notin K /\ K \cup {x} \in SUBSET DOMAIN tt /\ Amounts(tt)[x] = e.amount
    BY <1>3 DEF Amounts
  <2>2. \A k \in K \cup {x} : Amounts(tt)[k] \in Int
    BY <1>3, <2>1, PartSum
  <2>3. IsFiniteSet(K)
    BY PartSum
  <2>4. SumOver(Amounts(tt), K \cup {x}) = SumOver(Amounts(tt), K) + Amounts(tt)[x]
    BY ONLY <2>1, <2>2, <2>3, SumAdd
  <2> QED BY <1>5, <2>1, <2>4
<1> QED BY <1>5, <1>6 DEF tt, x

\* A spend that another limit accounts for leaves this one's books alone.
LEMMA OthersBalance ==
  ASSUME NEW n, NEW ss, History(ss), NEW K \in SUBSET DOMAIN ss,
         NEW e, e.amount \in Nat, e.time \in Nat, NEW spent, NEW reset, NEW p
  PROVE  /\ Balanced(n, ss, K, spent, reset) => Balanced(n, Append(ss, e), K, spent, reset)
         /\ Bounded(ss, K, reset, p) => Bounded(Append(ss, e), K, reset, p)
<1> DEFINE tt == Append(ss, e)
<1>1. \A k \in K : tt[k] = ss[k]
  BY Longer
<1>2. \A J \in SUBSET K : SumOver(Amounts(tt), J) = SumOver(Amounts(ss), J)
  <2>1. e.time \in Nat
    OBVIOUS
  <2>2. \A J \in SUBSET DOMAIN ss : SumOver(Amounts(tt), J) = SumOver(Amounts(ss), J)
    BY <2>1, LongerSum
  <2> HIDE DEF tt
  <2> QED BY <2>2
<1> HIDE DEF tt
<1>3. \A f, g : /\ Since(tt, K, f) = Since(ss, K, f) /\ Since(ss, K, f) \in SUBSET K
                /\ Between(tt, K, f, g) = Between(ss, K, f, g) /\ Between(ss, K, f, g) \in SUBSET K
  BY <1>1 DEF Since, Between
<1>4. Balanced(n, ss, K, spent, reset) => Balanced(n, tt, K, spent, reset)
  BY <1>1, <1>2, <1>3 DEF Balanced
<1>5. Bounded(ss, K, reset, p) => Bounded(tt, K, reset, p)
  BY <1>2, <1>3 DEF Bounded
<1> QED BY <1>4, <1>5 DEF tt

\* A spend charged at time n keeps the books of its own window, which the charge
\* begins anew if it was over.
LEMMA ChargeBalances ==
  ASSUME NEW n \in Nat, Day <= n, NEW ss, History(ss), NEW K \in SUBSET DOMAIN ss,
         NEW e, e.amount \in Nat, e.time = n, NEW spent, NEW reset \in Nat,
         Balanced(n, ss, K, spent, reset)
  PROVE  LET over == n >= reset + Day
         IN  Balanced(n, Append(ss, e), K \cup {Len(ss) + 1},
                      (IF over THEN 0 ELSE spent) + e.amount, IF over THEN n ELSE reset)
<1> DEFINE tt == Append(ss, e)
           x == Len(ss) + 1
           L == K \cup {x}
<1>1. tt[x] = e /\ x \notin K /\ \A k \in K : tt[k] = ss[k] /\ ss[k].time \in Nat
  BY Longer DEF History
<1>2. \A J \in SUBSET K : SumOver(Amounts(tt), J \cup {x}) = SumOver(Amounts(ss), J) + e.amount
  BY LongerSum
<1> HIDE DEF tt, x
<1>3. CASE n >= reset + Day
  <2>1. Since(tt, L, n) = {} \cup {x}
    BY <1>1, <1>3 DEF Since, Balanced
  <2>2. SumOver(Amounts(tt), Since(tt, L, n)) = 0 + e.amount
    BY <1>2, <2>1, SumEmpty
  <2>3. \A k \in L : Day <= tt[k].time /\ tt[k].time <= n /\ tt[k].time < n + Day
    BY <1>1, <1>3 DEF Balanced
  <2> QED BY <1>3, <2>2, <2>3 DEF Balanced, tt, x
<1>4. CASE ~(n >= reset + Day)
  <2>1. Since(tt, L, reset) = Since(ss, K, reset) \cup {x} /\ Since(ss, K, reset) \in SUBSET K
    BY <1>1 DEF Since, Balanced
  <2>2. SumOver(Amounts(tt), Since(tt, L, reset)) = spent + e.amount
    BY <1>2, <2>1 DEF Balanced
  <2>3. \A k \in L : Day <= tt[k].time /\ tt[k].time <= n /\ tt[k].time < reset + Day
    BY <1>1, <1>4 DEF Balanced
  <2>4. reset <= n
    BY DEF Balanced
  <2> QED BY <1>4, <2>2, <2>3, <2>4 DEF Balanced, tt, x
<1> QED BY <1>3, <1>4

\* And it keeps every stretch of a day within twice what the window may hold: a
\* stretch that sees the charge lies in the window and the day before it.
LEMMA ChargeBounded ==
  ASSUME NEW n \in Nat, Day <= n, NEW ss, History(ss), NEW K \in SUBSET DOMAIN ss,
         NEW e, e.amount \in Nat, e.time = n, NEW spent \in Nat, NEW reset \in Nat, NEW p \in Nat,
         Balanced(n, ss, K, spent, reset), Bounded(ss, K, reset, p), spent <= p,
         (IF n >= reset + Day THEN 0 ELSE spent) + e.amount <= p
  PROVE  Bounded(Append(ss, e), K \cup {Len(ss) + 1}, IF n >= reset + Day THEN n ELSE reset, p)
<1> DEFINE tt == Append(ss, e)
           x == Len(ss) + 1
           L == K \cup {x}
           over == n >= reset + Day
           spent2 == (IF over THEN 0 ELSE spent) + e.amount
           reset2 == IF over THEN n ELSE reset
<1>1. tt[x] = e /\ x \notin K /\ \A k \in K : tt[k] = ss[k] /\ ss[k].time \in Nat
  BY Longer DEF History
<1>2. \A J \in SUBSET K : SumOver(Amounts(tt), J) = SumOver(Amounts(ss), J)
  <2>1. e.time \in Nat
    OBVIOUS
  <2>2. \A J \in SUBSET DOMAIN ss : SumOver(Amounts(tt), J) = SumOver(Amounts(ss), J)
    BY <2>1, LongerSum
  <2> HIDE DEF tt
  <2> QED BY <2>2
<1>3. History(tt) /\ L \in SUBSET DOMAIN tt
  <2>1. e.time \in Nat
    OBVIOUS
  <2> QED BY <2>1, Longer
<1>4. Balanced(n, tt, L, spent2, reset2)
  BY ChargeBalances
<1>5. reset <= n /\ reset2 \in Nat /\ reset2 <= n /\ spent2 \in Nat /\ spent2 <= p
  BY DEF Balanced
<1> HIDE DEF tt, x
<1>6. \A f, g \in Nat : ~(f <= n /\ n < g) =>
        Between(tt, L, f, g) = Between(ss, K, f, g) /\ Between(ss, K, f, g) \in SUBSET K
  BY <1>1 DEF Between
<1>7. ASSUME NEW f \in Nat, f + Day >= reset2
      PROVE  SumOver(Amounts(tt), Between(tt, L, f, reset2)) <= p
  <2>1. SumOver(Amounts(tt), Between(tt, L, f, reset2)) = SumOver(Amounts(ss), Between(ss, K, f, reset2))
    <3> HIDE DEF reset2
    <3>1. ~(f <= n /\ n < reset2)
      BY ONLY <1>5, n \in Nat
    <3>2. /\ Between(tt, L, f, reset2) = Between(ss, K, f, reset2)
          /\ Between(ss, K, f, reset2) \in SUBSET K
      BY <1>5, <1>6, <3>1
    <3> QED BY <1>2, <3>2
  <2>2. CASE over
    <3>1. f >= reset
      BY <1>7, <2>2
    <3>2. Between(ss, K, f, reset2) \in SUBSET Since(ss, K, reset)
      BY <1>1, <3>1 DEF Between, Since
    <3>3. /\ IsFiniteSet(Since(ss, K, reset))
          /\ \A k \in Since(ss, K, reset) : Amounts(ss)[k] \in Nat
      <4>1. Since(ss, K, reset) \in SUBSET DOMAIN ss
        BY DEF Since
      <4> QED BY <4>1, PartSum
    <3>4. SumOver(Amounts(ss), Between(ss, K, f, reset2)) <= SumOver(Amounts(ss), Since(ss, K, reset))
      BY <3>2, <3>3, SumSubset
    <3>5. Between(ss, K, f, reset2) \in SUBSET DOMAIN ss
      BY DEF Between
    <3>6. SumOver(Amounts(ss), Between(ss, K, f, reset2)) \in Nat
      BY <3>5, PartSum
    <3>7. SumOver(Amounts(ss), Since(ss, K, reset)) = spent
      BY DEF Balanced
    <3> HIDE DEF reset2
    <3> QED BY <2>1, <3>4, <3>6, <3>7
  <2>3. CASE ~over
    BY <1>7, <2>1, <2>3 DEF Bounded
  <2> QED BY <2>2, <2>3
<1>8. ASSUME NEW f \in Nat
      PROVE  SumOver(Amounts(tt), Between(tt, L, f, f + Day)) <= 2 * p
  <2>1. CASE f <= n /\ n < f + Day
    <3> DEFINE A == Between(tt, L, f, reset2)
               B == Since(tt, L, reset2)
               C == Between(tt, L, f, f + Day)
    <3>1. SumOver(Amounts(tt), A) <= p
      <4>1. Day \in Nat
        BY PolicyAssumption
      <4>2. f + Day >= reset2
        BY ONLY <1>5, <2>1, <4>1, f \in Nat, n \in Nat
      <4> QED BY <1>7, <4>2
    <3>2. SumOver(Amounts(tt), B) = spent2
      BY <1>4 DEF Balanced
    <3>3. A \cap B = {} /\ C \in SUBSET (A \cup B)
      BY <1>1, <1>5 DEF Between, Since
    <3>4. A \in SUBSET DOMAIN tt /\ B \in SUBSET DOMAIN tt /\ C \in SUBSET DOMAIN tt
          /\ A \cup B \in SUBSET DOMAIN tt
      BY <1>3 DEF Between, Since
    <3> HIDE DEF A, B, C
    <3>5. /\ IsFiniteSet(A) /\ IsFiniteSet(B) /\ IsFiniteSet(A \cup B)
          /\ SumOver(Amounts(tt), A) \in Nat /\ SumOver(Amounts(tt), C) \in Nat
          /\ \A k \in A \cup B : Amounts(tt)[k] \in Nat /\ Amounts(tt)[k] \in Int
      BY <1>3, <3>4, PartSum
    <3>6. SumOver(Amounts(tt), A \cup B) = SumOver(Amounts(tt), A) + SumOver(Amounts(tt), B)
      BY <3>3, <3>5, SumUnion
    <3>7. SumOver(Amounts(tt), C) <= SumOver(Amounts(tt), A \cup B)
      BY <3>3, <3>5, SumSubset
    <3>8. SumOver(Amounts(tt), C) <= SumOver(Amounts(tt), A) + spent2
      BY <3>2, <3>6, <3>7
    <3> HIDE DEF spent2
    <3>9. SumOver(Amounts(tt), C) <= 2 * p
      BY <1>5, <3>1, <3>5, <3>8
    <3> QED BY <3>9 DEF C
  <2>2. CASE ~(f <= n /\ n < f + Day)
    <3>1. f + Day \in Nat
      OBVIOUS
    <3>2. /\ Between(tt, L, f, f + Day) = Between(ss, K, f, f + Day)
          /\ Between(ss, K, f, f + Day) \in SUBSET K
      BY <1>6, <2>2, <3>1
    <3>3. SumOver(Amounts(ss), Between(ss, K, f, f + Day)) <= 2 * p
      BY DEF Bounded
    <3> QED BY <1>2, <3>2, <3>3
  <2> QED BY <2>1, <2>2
<1>9. Bounded(tt, L, reset2, p)
  BY <1>7, <1>8 DEF Bounded
<1> QED BY <1>9 DEF tt, x

----------------------------------------------------------------------------
(* The steps of the module.                                                *)

LimitsBooked(n, ls, pk, ss) ==
  \A t \in Token : /\ Balanced(n, ss, Charging(ss, t), ls[t].spentToday, ls[t].lastReset)
                   /\ Bounded(ss, Charging(ss, t), ls[t].lastReset, pk[t])

PaymentsBooked(n, ps, ys) ==
  \A k \in PaymentKey :
    Balanced(n, ys, PaidUnder(ys, k), ps[k].spentToday, ps[k].lastReset)

\* Well-typed spends and payments are histories.
LEMMA Histories ==
  /\ \A ss \in Seq(SpendEntry) : History(ss)
  /\ \A ys \in Seq(PaymentEntry) : History(ys)
<1>1. ASSUME NEW ss \in Seq(SpendEntry) PROVE History(ss)
  <2>1. \A k \in DOMAIN ss : ss[k] \in SpendEntry
    OBVIOUS
  <2> QED BY <2>1 DEF History, SpendEntry
<1>2. ASSUME NEW ys \in Seq(PaymentEntry) PROVE History(ys)
  <2>1. \A k \in DOMAIN ys : ys[k] \in PaymentEntry
    OBVIOUS
  <2> QED BY <2>1 DEF History, PaymentEntry
<1> QED BY <1>1, <1>2

\* What charging writes.
LEMMA ChargeWrites ==
  ASSUME now \in Nat, NEW l \in SpendLimit \cup PaymentPolicy, NEW a \in Nat
  PROVE  /\ Charge(l, a).spentToday = (IF now >= l.lastReset + Day THEN 0 ELSE l.spentToday) + a
         /\ Charge(l, a).lastReset = IF now >= l.lastReset + Day THEN now ELSE l.lastReset
<1>1. CASE l \in SpendLimit
  BY <1>1 DEF Charge, Spent, WindowOver, SpendLimit
<1>2. CASE l \in PaymentPolicy
  BY <1>2 DEF Charge, Spent, WindowOver, PaymentPolicy
<1> QED BY <1>1, <1>2

\* A charge within the limit keeps every limit's books.
LEMMA ChargeBooked ==
  ASSUME now \in Nat, Day <= now, NEW ls \in [Token -> SpendLimit], NEW pk \in [Token -> Nat],
         NEW ss \in Seq(SpendEntry), WithinPeak(ls, pk), LimitsBooked(now, ls, pk, ss),
         NEW t \in Token, NEW a \in Nat, WithinLimit(ls[t], a)
  PROVE  LimitsBooked(now, RecordSpend(ls, t, a), pk, ss \o Charged(ls, t, a))
<1>1. CASE ls[t].maxPerDay = 0
  <2>1. RecordSpend(ls, t, a) = ls /\ ss \o Charged(ls, t, a) = ss
    BY <1>1 DEF RecordSpend, Charged
  <2> QED BY <2>1
<1>2. CASE ls[t].maxPerDay # 0
  <2> DEFINE e == [token |-> t, amount |-> a, time |-> now]
             tt == Append(ss, e)
             x == Len(ss) + 1
             ms == [ls EXCEPT ![t] = Charge(ls[t], a)]
  <2>1. RecordSpend(ls, t, a) = ms /\ ss \o Charged(ls, t, a) = tt
    BY <1>2 DEF RecordSpend, Charged
  <2>2. e \in SpendEntry /\ e.token = t /\ e.amount = a /\ e.time = now
    BY DEF SpendEntry
  <2>3. History(ss)
    BY Histories
  <2> HIDE DEF e
  <2>4. /\ DOMAIN tt = DOMAIN ss \cup {x} /\ x \notin DOMAIN ss /\ tt[x] = e
        /\ \A k \in DOMAIN ss : tt[k] = ss[k]
    BY <2>2, <2>3, Longer
  <2>5. \A u \in Token : Charging(ss, u) \in SUBSET DOMAIN ss
    BY DEF Charging
  <2>6. ASSUME NEW u \in Token, u # t
        PROVE  /\ Balanced(now, tt, Charging(tt, u), ms[u].spentToday, ms[u].lastReset)
               /\ Bounded(tt, Charging(tt, u), ms[u].lastReset, pk[u])
    <3>1. Charging(tt, u) = Charging(ss, u)
      BY <2>2, <2>4, <2>6 DEF Charging
    <3>2. ms[u] = ls[u]
      BY <2>6
    <3>3. /\ Balanced(now, ss, Charging(ss, u), ls[u].spentToday, ls[u].lastReset)
          /\ Bounded(ss, Charging(ss, u), ls[u].lastReset, pk[u])
      BY DEF LimitsBooked
    <3>4. e.amount \in Nat /\ e.time \in Nat
      BY <2>2
    <3> QED BY <2>3, <2>5, <3>1, <3>2, <3>3, <3>4, OthersBalance
  <2>7. /\ Balanced(now, tt, Charging(tt, t), ms[t].spentToday, ms[t].lastReset)
        /\ Bounded(tt, Charging(tt, t), ms[t].lastReset, pk[t])
    <3> DEFINE spent == ls[t].spentToday
               reset == ls[t].lastReset
               p == pk[t]
               K == Charging(ss, t)
    <3>1. Charging(tt, t) = K \cup {x}
      BY <2>2, <2>4 DEF Charging
    <3>2. /\ ms[t].spentToday = (IF now >= reset + Day THEN 0 ELSE spent) + e.amount
          /\ ms[t].lastReset = IF now >= reset + Day THEN now ELSE reset
      BY <2>2, ChargeWrites
    <3>3. spent \in Nat /\ reset \in Nat /\ p \in Nat /\ K \in SUBSET DOMAIN ss
      BY <2>5 DEF SpendLimit
    <3>4. Balanced(now, ss, K, spent, reset) /\ Bounded(ss, K, reset, p)
      BY DEF LimitsBooked
    <3>5. spent <= p
      BY DEF WithinPeak
    <3>6. (IF now >= reset + Day THEN 0 ELSE spent) + e.amount <= p
      <4>1. Spent(ls[t]) + a <= ls[t].maxPerDay /\ ls[t].maxPerDay <= pk[t]
        BY <1>2 DEF WithinLimit, WithinPeak
      <4>2. ls[t].maxPerDay \in Nat
        BY DEF SpendLimit
      <4> QED BY <2>2, <3>3, <4>1, <4>2 DEF Spent, WindowOver
    <3> HIDE DEF spent, reset, p, K, ms, x
    <3>7. e.amount \in Nat /\ e.time = now
      BY <2>2
    <3>8. Bounded(tt, K \cup {Len(ss) + 1}, IF now >= reset + Day THEN now ELSE reset, p)
      BY <2>3, <3>3, <3>4, <3>5, <3>6, <3>7, ChargeBounded
    <3>9. Balanced(now, tt, K \cup {Len(ss) + 1},
            (IF now >= reset + Day THEN 0 ELSE spent) + e.amount,
            IF now >= reset + Day THEN now ELSE reset)
      BY <2>3, <3>3, <3>4, <3>7, ChargeBalances
    <3> QED BY <3>1, <3>2, <3>8, <3>9 DEF x, p
  <2> QED BY <2>1, <2>6, <2>7 DEF LimitsBooked
<1> QED BY <1>1, <1>2

\* So does a spend recorded by hand.
LEMMA RecordSpendBooked ==
  ASSUME IInv, Day <= now, LimitsBooked(now, limits, peak, spends),
         NEW t \in Token, NEW a \in Amount, RecordSpendDirectly(t, a)
  PROVE  LimitsBooked(now, limits', peak', spends')
<1>1. a \in Nat
  OBVIOUS
<1>2. /\ WithinLimit(limits[t], a) /\ limits' = RecordSpend(limits, t, a)
      /\ spends' = spends \o Charged(limits, t, a) /\ peak' = peak
  BY DEF RecordSpendDirectly
<1>3. LimitsBooked(now, RecordSpend(limits, t, a), peak, spends \o Charged(limits, t, a))
  BY <1>1, <1>2, ChargeBooked DEF IInv, LimitsInv
<1> QED BY <1>2, <1>3

\* An execution makes up to two charges, the second on top of the first.
LEMMA ExecuteBooked ==
  ASSUME IInv, Day <= now, LimitsBooked(now, limits, peak, spends),
         NEW call \in Call, Execute(call)
  PROVE  LimitsBooked(now, limits', peak', spends')
<1> DEFINE charged == IF call.value > 0 THEN RecordSpend(limits, Native, call.value) ELSE limits
           entries == IF call.value > 0 THEN Charged(limits, Native, call.value) ELSE << >>
           spent == TokenSpend(call)
           more == IF spent > 0 THEN Charged(limits, call.target, spent) ELSE << >>
           ss == spends \o entries
<1>1. /\ call.target \in Token /\ Native \in Token
      /\ call.value \in Nat /\ spent \in Nat
  BY CallType
<1>2. /\ now \in Nat /\ limits \in [Token -> SpendLimit] /\ peak \in [Token -> Nat]
      /\ WithinPeak(limits, peak) /\ spends \in Seq(SpendEntry)
  BY DEF IInv, LimitsInv
<1>3. /\ charged \in [Token -> SpendLimit] /\ WithinPeak(charged, peak)
      /\ LimitsBooked(now, charged, peak, ss)
      /\ \A t \in Token : charged[t].maxPerDay = limits[t].maxPerDay
  <2>1. CASE call.value > 0
    <3>1. WithinLimit(limits[Native], call.value)
      BY <2>1 DEF Execute, CheckTransaction
    <3>2. /\ RecordSpend(limits, Native, call.value) \in [Token -> SpendLimit]
          /\ WithinPeak(RecordSpend(limits, Native, call.value), peak)
      BY <1>1, <1>2, <3>1, ChargeWithinPeak
    <3>3. LimitsBooked(now, RecordSpend(limits, Native, call.value), peak,
                       spends \o Charged(limits, Native, call.value))
      BY <1>1, <1>2, <3>1, ChargeBooked
    <3>4. \A t \in Token :
            RecordSpend(limits, Native, call.value)[t].maxPerDay = limits[t].maxPerDay
      BY <1>1, <1>2, ChargeKeepsMaximum
    <3> QED BY <2>1, <3>2, <3>3, <3>4
  <2>2. CASE ~(call.value > 0)
    <3>1. ss = spends /\ charged = limits
      BY <1>2, <2>2
    <3> HIDE DEF ss, charged
    <3> QED BY <1>2, <3>1
  <2> QED BY <2>1, <2>2
<1>4. ss \in Seq(SpendEntry)
  <2>1. entries \in Seq(SpendEntry)
    BY <1>1, ChargedType DEF IInv
  <2> HIDE DEF entries
  <2> QED BY <1>2, <2>1
<1>5. /\ spent > 0 => WithinLimit(charged[call.target], spent)
      /\ limits' = IF spent > 0 THEN RecordSpend(charged, call.target, spent) ELSE charged
      /\ spends' = ss \o more
      /\ peak' = peak
  <2>1. spent > 0 => WithinLimit(charged[call.target], spent)
    BY DEF Execute
  <2>2. limits' = IF spent > 0 THEN RecordSpend(charged, call.target, spent) ELSE charged
    BY DEF Execute
  <2>3. spends' = ss \o more
    BY DEF Execute
  <2>4. peak' = peak
    BY DEF Execute
  <2> QED BY <2>1, <2>2, <2>3, <2>4
<1>6. Charged(limits, call.target, spent) = Charged(charged, call.target, spent)
  <2> HIDE DEF charged, spent
  <2> QED BY <1>1, <1>3 DEF Charged
<1> HIDE DEF charged, entries, spent, ss
<1>7. CASE spent > 0
  <2>1. WithinLimit(charged[call.target], spent)
    BY <1>5, <1>7
  <2>2. LimitsBooked(now, RecordSpend(charged, call.target, spent), peak,
                     ss \o Charged(charged, call.target, spent))
    BY <1>1, <1>2, <1>3, <1>4, <2>1, ChargeBooked
  <2> QED BY <1>5, <1>6, <1>7, <2>2
<1>8. CASE ~(spent > 0)
  <2>1. ss \o more = ss
    BY <1>4, <1>8
  <2> QED BY <1>3, <1>5, <1>8, <2>1
<1> QED BY <1>7, <1>8

\* A larger maximum allows no less.
LEMMA SetSpendLimitBooked ==
  ASSUME IInv, LimitsBooked(now, limits, peak, spends),
         NEW t \in Token, NEW m \in Maximum, SetSpendLimit(t, m)
  PROVE  LimitsBooked(now, limits', peak', spends')
<1>1. m \in Nat /\ \A u \in Token : peak[u] \in Nat /\ limits[u] \in SpendLimit
  BY DEF IInv, LimitsInv
<1>2. /\ limits' = [limits EXCEPT ![t] = [limits[t] EXCEPT !.maxPerDay = m]]
      /\ peak' = [peak EXCEPT ![t] = Larger(peak[t], m)]
      /\ spends' = spends
  BY DEF SetSpendLimit, IInv, LimitsInv
<1>3. ASSUME NEW u \in Token
      PROVE  /\ limits'[u].spentToday = limits[u].spentToday
             /\ limits'[u].lastReset = limits[u].lastReset
             /\ peak[u] <= peak'[u] /\ peak'[u] \in Nat
  <2>1. CASE u = t
    <3>1. limits'[t] = [limits[t] EXCEPT !.maxPerDay = m] /\ peak'[t] = Larger(peak[t], m)
      BY <1>2 DEF IInv, LimitsInv
    <3> QED BY <1>1, <2>1, <3>1 DEF SpendLimit, Larger
  <2>2. CASE u # t
    BY <1>1, <1>2, <2>2 DEF IInv, LimitsInv
  <2> QED BY <2>1, <2>2
<1>4. ASSUME NEW u \in Token
      PROVE  Bounded(spends, Charging(spends, u), limits[u].lastReset, peak'[u])
  <2> DEFINE K == Charging(spends, u)
             reset == limits[u].lastReset
  <2>1. /\ K \in SUBSET DOMAIN spends /\ History(spends)
        /\ peak[u] \in Nat /\ peak'[u] \in Nat /\ peak[u] <= peak'[u]
    BY <1>1, <1>3, Histories DEF Charging, IInv, LimitsInv
  <2>2. Bounded(spends, K, reset, peak[u])
    BY DEF LimitsBooked
  <2> HIDE DEF K, reset
  <2>3. \A f, g : SumOver(Amounts(spends), Between(spends, K, f, g)) \in Nat
    <3>1. \A f, g : Between(spends, K, f, g) \in SUBSET DOMAIN spends
      BY <2>1 DEF Between
    <3> QED BY <2>1, <3>1, PartSum
  <2>4. \A n \in Nat : /\ n <= peak[u] => n <= peak'[u]
                       /\ n <= 2 * peak[u] => n <= 2 * peak'[u]
    BY <2>1
  <2>5. Bounded(spends, K, reset, peak'[u])
    BY <2>2, <2>3, <2>4 DEF Bounded
  <2> QED BY <2>5 DEF K, reset
<1> QED BY <1>2, <1>3, <1>4 DEF LimitsBooked

\* A payment keeps the books of every policy.
LEMMA SignedPaymentBooked ==
  ASSUME IInv, Day <= now, PaymentsBooked(now, policies, payments),
         NEW k \in PaymentKey, NEW a \in Amount, NEW h \in PaymentHash,
         RecordSignedPayment(k, a, h)
  PROVE  PaymentsBooked(now, policies', payments')
<1> DEFINE e == [key |-> k, hash |-> h, amount |-> a, time |-> now]
           x == Len(payments) + 1
           spent == policies[k].spentToday
           reset == policies[k].lastReset
<1>1. a \in Nat /\ now \in Nat /\ History(payments)
  BY Histories DEF IInv, PaymentsInv
<1>2. /\ policies' = [policies EXCEPT ![k] = Charge(policies[k], a)]
      /\ payments' = Append(payments, e)
  BY DEF RecordSignedPayment
<1>3. e.key = k /\ e.amount = a /\ e.time = now /\ e.amount \in Nat /\ e.time \in Nat
  BY <1>1
<1> HIDE DEF e
<1>4. /\ DOMAIN payments' = DOMAIN payments \cup {x} /\ x \notin DOMAIN payments
      /\ payments'[x] = e /\ \A j \in DOMAIN payments : payments'[j] = payments[j]
  BY <1>1, <1>2, <1>3, Longer
<1>5. \A u \in PaymentKey : PaidUnder(payments, u) \in SUBSET DOMAIN payments
  BY DEF PaidUnder
<1>6. ASSUME NEW u \in PaymentKey, u # k
      PROVE  Balanced(now, payments', PaidUnder(payments', u),
                      policies'[u].spentToday, policies'[u].lastReset)
  <2>1. PaidUnder(payments', u) = PaidUnder(payments, u) /\ policies'[u] = policies[u]
    BY <1>2, <1>3, <1>4, <1>6 DEF PaidUnder, IInv, PaymentsInv
  <2>2. Balanced(now, payments, PaidUnder(payments, u), policies[u].spentToday, policies[u].lastReset)
    BY DEF PaymentsBooked
  <2> QED BY <1>1, <1>2, <1>3, <1>5, <2>1, <2>2, OthersBalance
<1>7. Balanced(now, payments', PaidUnder(payments', k),
               policies'[k].spentToday, policies'[k].lastReset)
  <2>1. PaidUnder(payments', k) = PaidUnder(payments, k) \cup {x}
    BY <1>3, <1>4 DEF PaidUnder
  <2>2. policies[k] \in PaymentPolicy /\ policies'[k] = Charge(policies[k], a)
    BY <1>2 DEF IInv, PaymentsInv
  <2>3. /\ policies'[k].spentToday = (IF now >= reset + Day THEN 0 ELSE spent) + e.amount
        /\ policies'[k].lastReset = IF now >= reset + Day THEN now ELSE reset
    BY <1>1, <1>3, <2>2, ChargeWrites
  <2>4. reset \in Nat /\ Balanced(now, payments, PaidUnder(payments, k), spent, reset)
    BY <2>2 DEF PaymentPolicy, PaymentsBooked
  <2> HIDE DEF spent, reset, x
  <2>5. Balanced(now, payments', PaidUnder(payments, k) \cup {Len(payments) + 1},
          (IF now >= reset + Day THEN 0 ELSE spent) + e.amount,
          IF now >= reset + Day THEN now ELSE reset)
    BY <1>1, <1>2, <1>3, <1>5, <2>4, ChargeBalances
  <2> QED BY <2>1, <2>3, <2>5 DEF x
<1> QED BY <1>6, <1>7 DEF PaymentsBooked

\* A policy that never saw a payment gets a window in which nothing is spent.
LEMMA SetPaymentPolicyBooked ==
  ASSUME IInv, Day <= now, PaymentsBooked(now, policies, payments),
         NEW k \in PaymentKey, NEW each \in Maximum, NEW daily \in Maximum,
         NEW allowed \in BOOLEAN, SetPaymentPolicy(k, each, daily, allowed)
  PROVE  PaymentsBooked(now, policies', payments')
<1> DEFINE reset == policies[k].lastReset
           K == PaidUnder(payments, k)
<1>1. /\ now \in Nat /\ policies[k] \in PaymentPolicy /\ payments \in Seq(PaymentEntry)
      /\ History(payments)
  BY Histories DEF IInv, PaymentsInv
<1>2. /\ payments' = payments
      /\ \A u \in PaymentKey \ {k} : policies'[u] = policies[u]
      /\ policies'[k].spentToday = policies[k].spentToday
      /\ policies'[k].lastReset = IF reset = 0 THEN now ELSE reset
  BY DEF SetPaymentPolicy, IInv, PaymentsInv
<1>3. Balanced(now, payments, K, policies[k].spentToday, reset)
  BY DEF PaymentsBooked
<1>4. reset \in Nat /\ \A j \in K : payments[j].time \in Nat
  BY <1>1 DEF PaymentPolicy, History, PaidUnder
<1>5. Balanced(now, payments, K, policies[k].spentToday, IF reset = 0 THEN now ELSE reset)
  <2>1. CASE reset = 0
    <3>1. K = {}
      BY <1>3, <1>4, <2>1 DEF Balanced
    <3>2. Since(payments, K, now) = {} /\ Since(payments, K, reset) = {}
      BY <3>1 DEF Since
    <3>3. policies[k].spentToday = SumOver(Amounts(payments), Since(payments, K, now))
      BY <1>3, <3>2 DEF Balanced
    <3> HIDE DEF K, reset
    <3>4. now <= now
      BY <1>1
    <3> QED BY <2>1, <3>1, <3>3, <3>4 DEF Balanced
  <2> QED BY <1>3, <2>1
<1>6. \A u \in PaymentKey \ {k} :
        Balanced(now, payments, PaidUnder(payments, u), policies[u].spentToday, policies[u].lastReset)
  BY DEF PaymentsBooked
<1> QED BY <1>2, <1>5, <1>6 DEF PaymentsBooked

----------------------------------------------------------------------------
(* The invariant: the present books balance, and so do those a revert would*)
(* bring back.                                                             *)

Booked(n, s) ==
  LimitsBooked(n, s.limits, s.peak, s.spends) /\ PaymentsBooked(n, s.policies, s.payments)

BudgetInv ==
  /\ Day <= now
  /\ LimitsBooked(now, limits, peak, spends)
  /\ PaymentsBooked(now, policies, payments)
  /\ \A d \in DOMAIN calls : Booked(now, calls[d])

\* Nothing is spent at first.
LEMMA InitBudget == Init => BudgetInv
<1> SUFFICES ASSUME Init PROVE BudgetInv
  OBVIOUS
<1>1. /\ now = Day /\ spends = << >> /\ payments = << >> /\ calls = << >>
      /\ \A t \in Token : limits[t].spentToday = 0 /\ limits[t].lastReset = 0 /\ peak[t] = 0
      /\ \A k \in PaymentKey : policies[k].spentToday = 0 /\ policies[k].lastReset = 0
  BY DEF Init, ModuleInit
<1>2. \A t, f, g : /\ Charging(spends, t) = {} /\ Since(spends, {}, f) = {}
                  /\ Between(spends, {}, f, g) = {}
  BY <1>1 DEF Charging, Since, Between
<1>3. \A k, f : PaidUnder(payments, k) = {} /\ Since(payments, {}, f) = {}
  BY <1>1 DEF PaidUnder, Since
<1>4. LimitsBooked(now, limits, peak, spends)
  <2>1. SumOver(Amounts(spends), {}) = 0 /\ 0 <= 2 * 0 /\ 0 <= now
    BY <1>1, SumEmpty
  <2>2. Balanced(now, spends, {}, 0, 0)
    BY <1>2, <2>1 DEF Balanced
  <2>3. Bounded(spends, {}, 0, 0)
    <3>1. \A f, g : Between(spends, {}, f, g) = {}
      BY DEF Between
    <3>2. 0 <= 0
      OBVIOUS
    <3> QED BY <2>1, <3>1, <3>2 DEF Bounded
  <2> QED BY <1>1, <1>2, <2>2, <2>3 DEF LimitsBooked
<1>5. PaymentsBooked(now, policies, payments)
  <2>1. \A n \in Nat : Balanced(n, payments, {}, 0, 0)
    BY <1>3, SumEmpty DEF Balanced
  <2> QED BY <1>1, <1>3, <2>1 DEF PaymentsBooked
<1> QED BY <1>1, <1>4, <1>5 DEF BudgetInv

\* Time alone leaves the books balanced.
LEMMA TickBooked ==
  ASSUME IInv, BudgetInv, Tick
  PROVE  BudgetInv'
<1>1. /\ now \in Nat /\ now' = now + 1 /\ calls' = << >>
      /\ UNCHANGED <<limits, peak, spends, policies, payments>>
  BY DEF Tick, Idle, IInv, moduleVars, accountVars
<1>2. /\ \A t \in Token : limits[t].lastReset \in Nat
      /\ \A k \in PaymentKey : policies[k].lastReset \in Nat
      /\ \A t \in Token : \A k \in Charging(spends, t) : spends[k].time \in Nat
      /\ \A key \in PaymentKey : \A k \in PaidUnder(payments, key) : payments[k].time \in Nat
  <2>1. \A t \in Token : limits[t] \in SpendLimit
    BY DEF IInv, LimitsInv
  <2>2. \A k \in PaymentKey : policies[k] \in PaymentPolicy
    BY DEF IInv, PaymentsInv
  <2>3. History(spends) /\ History(payments)
    BY Histories DEF IInv, LimitsInv, PaymentsInv
  <2> QED BY <2>1, <2>2, <2>3 DEF SpendLimit, PaymentPolicy, History, Charging, PaidUnder
<1>3. ASSUME NEW ss, NEW K, NEW spent, NEW reset \in Nat, \A k \in K : ss[k].time \in Nat,
             Balanced(now, ss, K, spent, reset)
      PROVE  Balanced(now', ss, K, spent, reset)
  <2>1. \A m \in Nat : m <= now => m <= now'
    BY <1>1
  <2> QED BY <1>3, <2>1 DEF Balanced
<1>4. LimitsBooked(now', limits', peak', spends')
  BY <1>1, <1>2, <1>3 DEF BudgetInv, LimitsBooked
<1>5. PaymentsBooked(now', policies', payments')
  BY <1>1, <1>2, <1>3 DEF BudgetInv, PaymentsBooked
<1>6. Day <= now'
  BY <1>1 DEF BudgetInv
<1> QED BY <1>1, <1>4, <1>5, <1>6 DEF BudgetInv

\* Nothing the account tells its module or itself upsets the books.
LEMMA OwnBooked ==
  ASSUME IInv, BudgetInv, UNCHANGED <<now, calls>>,
         ModuleSetting \/ SetSessionKey \/ ModuleFunction
  PROVE  BudgetInv'
<1> DEFINE Good == /\ LimitsBooked(now, limits', peak', spends')
                   /\ PaymentsBooked(now, policies', payments')
<1>1. /\ Day <= now /\ LimitsBooked(now, limits, peak, spends)
      /\ PaymentsBooked(now, policies, payments)
      /\ \A d \in DOMAIN calls : Booked(now, calls[d])
  BY DEF BudgetInv
<1>2. ASSUME UNCHANGED <<limits, peak, spends, policies, payments>> PROVE Good
  BY <1>1, <1>2
<1>3. ASSUME NEW t \in Token, NEW m \in Maximum, SetSpendLimit(t, m) PROVE Good
  <2>1. UNCHANGED <<policies, payments>>
    BY <1>3 DEF SetSpendLimit
  <2> QED BY <1>1, <1>3, <2>1, SetSpendLimitBooked
<1>4. ASSUME NEW t \in Token, NEW a \in Amount, RecordSpendDirectly(t, a) PROVE Good
  <2>1. UNCHANGED <<policies, payments>>
    BY <1>4 DEF RecordSpendDirectly
  <2> QED BY <1>1, <1>4, <2>1, RecordSpendBooked
<1>5. ASSUME NEW k \in PaymentKey, NEW each \in Maximum, NEW daily \in Maximum,
             NEW allowed \in BOOLEAN, SetPaymentPolicy(k, each, daily, allowed)
      PROVE  Good
  <2>1. UNCHANGED <<limits, peak, spends>>
    BY <1>5 DEF SetPaymentPolicy
  <2> QED BY <1>1, <1>5, <2>1, SetPaymentPolicyBooked
<1>6. ASSUME NEW k \in PaymentKey, NEW a \in Amount, NEW h \in PaymentHash,
             RecordSignedPayment(k, a, h)
      PROVE  Good
  <2>1. UNCHANGED <<limits, peak, spends>>
    BY <1>6 DEF RecordSignedPayment
  <2> QED BY <1>1, <1>6, <2>1, SignedPaymentBooked
<1>7. Good
  <2>1. CASE ModuleSetting
    <3>1. \/ \E t \in Token, m \in Maximum : SetSpendLimit(t, m)
          \/ UNCHANGED <<limits, peak, spends, policies, payments>>
      BY <2>1 DEF ModuleSetting, SetTargetAllowed, SetFunctionAllowed, SetUseFunctionAllowlist,
         SetGuardian, SetAccountFrozen
    <3> QED BY <1>2, <1>3, <3>1
  <2>2. CASE SetSessionKey
    BY <1>2, <2>2 DEF SetSessionKey, moduleVars
  <2>3. CASE ModuleFunction
    BY <1>4, <1>5, <1>6, <2>3 DEF ModuleFunction
  <2> QED BY <2>1, <2>2, <2>3
<1> QED BY <1>1, <1>7 DEF BudgetInv

\* An execution saves the books as they are and then charges them.
LEMMA ExecutionBooked ==
  ASSUME IInv, BudgetInv, NEW call \in Call, Execute(call)
  PROVE  BudgetInv'
<1>1. /\ Day <= now /\ LimitsBooked(now, limits, peak, spends)
      /\ PaymentsBooked(now, policies, payments)
      /\ \A d \in DOMAIN calls : Booked(now, calls[d])
  BY DEF BudgetInv
<1>2. LimitsBooked(now, limits', peak', spends')
  BY <1>1, ExecuteBooked
<1>3. /\ calls' = Append(calls, Snapshot) /\ now' = now
      /\ policies' = policies /\ payments' = payments
  BY DEF Execute
<1>4. Booked(now, Snapshot)
  BY <1>1 DEF Booked, Snapshot
<1>5. /\ DOMAIN calls' = DOMAIN calls \cup {Len(calls) + 1}
      /\ calls'[Len(calls) + 1] = Snapshot
      /\ \A d \in DOMAIN calls : calls'[d] = calls[d]
  <2>1. calls \in Seq(Saved) /\ Snapshot \in Saved
    BY SnapshotSaved DEF IInv, CallsInv
  <2> QED BY <1>3, <2>1
<1> QED BY <1>1, <1>2, <1>3, <1>4, <1>5 DEF BudgetInv

\* The executions left after one ended are those it was called from.
LEMMA PoppedCalls ==
  ASSUME IInv, ~Idle, calls' = SubSeq(calls, 1, Len(calls) - 1)
  PROVE  /\ Len(calls) \in DOMAIN calls
         /\ \A d \in DOMAIN calls' : d \in DOMAIN calls /\ calls'[d] = calls[d]
<1>1. Len(calls) \in Nat \ {0} /\ DOMAIN calls = 1..Len(calls) /\ calls \in Seq(Saved)
  BY DEF IInv, CallsInv, Idle
<1>2. PICK n \in Nat : Len(calls) = n + 1
  <2>1. Len(calls) = (Len(calls) - 1) + 1 /\ Len(calls) - 1 \in Nat
    BY <1>1
  <2> QED BY <2>1
<1>3. calls' = SubSeq(calls, 1, n)
  BY <1>2
<1>4. DOMAIN calls' = 1..n /\ \A k \in 1..n : calls'[k] = calls[k]
  BY <1>1, <1>2, <1>3
<1> QED BY <1>1, <1>2, <1>4

\* No step upsets the books.
LEMMA StepBudget == IInv /\ BudgetInv /\ [Next]_vars => BudgetInv'
<1> SUFFICES ASSUME IInv, BudgetInv, [Next]_vars PROVE BudgetInv'
  OBVIOUS
<1>1. CASE ExecuteCall
  <2>1. ASSUME NEW call \in Calls, Execute(call) PROVE BudgetInv'
    <3>1. call \in Call
      BY AccountAssumption
    <3> QED BY <2>1, <3>1, ExecutionBooked
  <2>2. ASSUME NEW order \in Order, order.call \in Call, Execute(order.call) PROVE BudgetInv'
    BY <2>2, ExecutionBooked
  <2> QED BY <1>1, <2>1, <2>2 DEF ExecuteCall
<1>2. CASE Configure
  BY <1>2, OwnBooked DEF Configure
<1>3. CASE ExecuteOwn(Module) \/ ExecuteOwn(Self)
  <2>1. UNCHANGED <<now, calls>> /\ (ModuleSetting \/ SetSessionKey \/ ModuleFunction)
    BY <1>3 DEF ExecuteOwn
  <2> QED BY <2>1, OwnBooked
<1>4. CASE GuardianFreeze
  BY <1>4 DEF GuardianFreeze, SetAccountFrozen, accountVars, BudgetInv
<1>5. CASE Return
  <2>1. ~Idle /\ calls' = SubSeq(calls, 1, Len(calls) - 1) /\ UNCHANGED <<now, moduleVars>>
    BY <1>5 DEF Return
  <2>2. UNCHANGED <<now, limits, peak, spends, policies, payments>>
    BY <2>1 DEF moduleVars
  <2>3. \A d \in DOMAIN calls' : d \in DOMAIN calls /\ calls'[d] = calls[d]
    BY <2>1, PoppedCalls
  <2> QED BY <2>2, <2>3 DEF BudgetInv
<1>6. CASE Revert
  <2> DEFINE s == calls[Len(calls)]
  <2>1. /\ ~Idle /\ calls' = SubSeq(calls, 1, Len(calls) - 1) /\ now' = now
        /\ limits' = s.limits /\ peak' = s.peak /\ spends' = s.spends
        /\ policies' = s.policies /\ payments' = s.payments
    BY <1>6 DEF Revert
  <2>2. /\ Len(calls) \in DOMAIN calls
        /\ \A d \in DOMAIN calls' : d \in DOMAIN calls /\ calls'[d] = calls[d]
    BY <2>1, PoppedCalls
  <2>3. Booked(now, s)
    BY <2>2 DEF BudgetInv
  <2> HIDE DEF s
  <2> QED BY <2>1, <2>2, <2>3 DEF Booked, BudgetInv
<1>7. CASE Tick
  BY <1>7, TickBooked
<1>8. CASE UNCHANGED vars
  BY <1>8 DEF vars, moduleVars, accountVars, BudgetInv
<1> QED BY <1>1, <1>2, <1>3, <1>4, <1>5, <1>6, <1>7, <1>8 DEF Next

\* So the books are always kept.
LEMMA AlwaysBudget == Spec => [](IInv /\ BudgetInv)
<1> QED BY InitBudget, StepBudget, AlwaysInv, PTL DEF Spec

\* A limit's, and a payment policy's, record of what is spent is what was spent since
\* its window began, whatever was raised, lowered, removed or reverted meanwhile.
THEOREM BooksAlwaysBalance == Spec => []BooksBalance
<1>1. IInv /\ BudgetInv => BooksBalance
  <2> SUFFICES ASSUME IInv, BudgetInv PROVE BooksBalance
    OBVIOUS
  <2>1. ASSUME NEW t \in Token
        PROVE  limits[t].spentToday = SpentBetween(t, limits[t].lastReset, now)
    <3>1. Balanced(now, spends, Charging(spends, t), limits[t].spentToday, limits[t].lastReset)
      BY DEF BudgetInv, LimitsBooked
    <3>2. {k \in DOMAIN spends : /\ spends[k].token = t
                                /\ limits[t].lastReset <= spends[k].time /\ spends[k].time <= now}
            = Since(spends, Charging(spends, t), limits[t].lastReset)
      BY <3>1 DEF Balanced, Since, Charging
    <3> QED BY <3>1, <3>2 DEF SpentBetween, Balanced, Amounts
  <2>2. ASSUME NEW key \in PaymentKey
        PROVE  policies[key].spentToday = PaidSince(key, policies[key].lastReset)
    <3>1. Balanced(now, payments, PaidUnder(payments, key),
                   policies[key].spentToday, policies[key].lastReset)
      BY DEF BudgetInv, PaymentsBooked
    <3>2. {k \in DOMAIN payments : /\ payments[k].key = key
                                  /\ policies[key].lastReset <= payments[k].time}
            = Since(payments, PaidUnder(payments, key), policies[key].lastReset)
      BY DEF Since, PaidUnder
    <3> QED BY <3>1, <3>2 DEF PaidSince, Balanced, Amounts
  <2> QED BY <2>1, <2>2 DEF BooksBalance
<1> QED BY <1>1, AlwaysBudget, PTL

\* No stretch of one day sees more than twice the largest maximum spent: the promise
\* a window that tumbles keeps, where a rolling one was documented.
THEOREM AlwaysAtMostTwiceADay == Spec => []AtMostTwiceADay
<1>1. IInv /\ BudgetInv => AtMostTwiceADay
  <2> SUFFICES ASSUME IInv, BudgetInv, NEW t \in Token, NEW first \in Day..MaxTime
               PROVE  SpentBetween(t, first, first + Day - 1) <= 2 * peak[t]
    BY DEF AtMostTwiceADay
  <2>1. Bounded(spends, Charging(spends, t), limits[t].lastReset, peak[t])
    BY DEF BudgetInv, LimitsBooked
  <2>2. first \in Nat /\ \A k \in DOMAIN spends : spends[k].time \in Nat
    BY Histories DEF IInv, LimitsInv, History
  <2>3. {k \in DOMAIN spends : /\ spends[k].token = t
                              /\ first <= spends[k].time /\ spends[k].time <= first + Day - 1}
          = Between(spends, Charging(spends, t), first, first + Day)
    BY <2>2 DEF Between, Charging
  <2> QED BY <2>1, <2>2, <2>3 DEF SpentBetween, Bounded, Amounts
<1> QED BY <1>1, AlwaysBudget, PTL

----------------------------------------------------------------------------
(* The mirror of the settings and the API, which read no account: what     *)
(* follows is about Gateway and the PolicyMirror it extends.               *)

USE LoopAssumption, MirrorAssumption, GatewayAssumption

----------------------------------------------------------------------------
(* The bids.                                                               *)

BidStatus == {"OPEN", "SELECTED", "REJECTED"}
BidRow == [status : BidStatus, onChain : BOOLEAN, swept : SUBSET Nat]

\* A transaction in progress selects a bid that is open, and sees rows there are.
SelectionsInv(bids, sel) ==
  \A b \in DOMAIN sel :
    b \in DOMAIN bids /\ bids[b].status = "OPEN" /\ sel[b] \in SUBSET DOMAIN bids

\* No bid is open that a selected one swept: its selection rejected it.
SweptInv(bids) ==
  \A b \in DOMAIN bids :
    /\ bids[b].swept \in SUBSET DOMAIN bids
    /\ bids[b].status = "SELECTED" =>
         \A c \in bids[b].swept : c # b => bids[c].status # "OPEN"

Winners(bids) ==
  \A b, c \in DOMAIN bids :
    b # c /\ bids[b].status = "SELECTED" /\ bids[c].status = "SELECTED" =>
      b \notin bids[c].swept \/ c \notin bids[b].swept

BidsInv ==
  /\ solverBids \in Seq(BidRow)
  /\ SelectionsInv(solverBids, selections)
  /\ SweptInv(solverBids)
  /\ Winners(solverBids)

\* A bid arrives, over the API or from the chain.
LEMMA ArrivalInv ==
  ASSUME BidsInv, NEW onChain \in BOOLEAN, solverBids' = Append(solverBids, Row("OPEN", onChain)),
         UNCHANGED selections
  PROVE  BidsInv'
<1> DEFINE n == Len(solverBids)
<1>1. /\ solverBids \in Seq(BidRow) /\ n \in Nat /\ DOMAIN solverBids = 1..n
      /\ Row("OPEN", onChain) \in BidRow
      /\ Row("OPEN", onChain).status = "OPEN" /\ Row("OPEN", onChain).swept = {}
  BY DEF BidsInv, Row, BidRow, BidStatus
<1>2. /\ solverBids' \in Seq(BidRow) /\ DOMAIN solverBids' = 1..(n + 1)
      /\ solverBids'[n + 1] = Row("OPEN", onChain)
      /\ \A b \in 1..n : solverBids'[b] = solverBids[b]
      /\ \A b \in 1..(n + 1) : b \in 1..n \/ b = n + 1
      /\ \A b \in 1..n : b \in 1..(n + 1) /\ b # n + 1
  BY <1>1
<1> HIDE DEF n
<1>3. SelectionsInv(solverBids', selections')
  BY <1>1, <1>2 DEF BidsInv, SelectionsInv
<1>4. SweptInv(solverBids')
  BY <1>1, <1>2 DEF BidsInv, SweptInv
<1>5. Winners(solverBids')
  BY <1>1, <1>2 DEF BidsInv, Winners
<1> QED BY <1>2, <1>3, <1>4, <1>5 DEF BidsInv

\* The open ones among the rows seen, but for one.
Others(seen, b) == (seen \cap OpenBids) \ {b}

\* A bid is selected, of the rows `seen' all open ones are rejected, and the
\* transactions in progress are of bids that stay open.
Wins(b, seen) ==
  /\ b \in DOMAIN solverBids /\ solverBids[b].status = "OPEN" /\ seen \in SUBSET DOMAIN solverBids
  /\ \A c \in DOMAIN selections' :
       /\ c \in DOMAIN selections /\ c # b /\ c \notin Others(seen, b)
       /\ selections'[c] = selections[c]
  /\ DOMAIN solverBids' = DOMAIN solverBids /\ solverBids' \in Seq(BidRow)
  /\ solverBids'[b].status = "SELECTED" /\ solverBids'[b].swept = seen
  /\ \A c \in Others(seen, b) :
       solverBids'[c].status = "REJECTED" /\ solverBids'[c].swept = solverBids[c].swept
  /\ \A c \in DOMAIN solverBids : c # b /\ c \notin Others(seen, b) => solverBids'[c] = solverBids[c]

\* A winner that sweeps the bids it saw leaves the rows of bids sound.
LEMMA SelectionInv ==
  ASSUME BidsInv, NEW b, NEW seen, Wins(b, seen)
  PROVE  BidsInv'
<1> USE DEF Wins
<1>1. /\ \A c \in DOMAIN solverBids : solverBids'[c].status = "OPEN" =>
           c # b /\ c \notin Others(seen, b) /\ solverBids[c].status = "OPEN"
      /\ \A c \in DOMAIN solverBids : c # b /\ solverBids'[c].status = "SELECTED" =>
           solverBids'[c] = solverBids[c]
      /\ \A c \in Others(seen, b) : c \in DOMAIN solverBids /\ c # b
      /\ \A c \in seen : c # b /\ c \notin Others(seen, b) => solverBids[c].status # "OPEN"
  BY DEF OpenBids, Others
<1>2. SelectionsInv(solverBids', selections')
  BY <1>1 DEF BidsInv, SelectionsInv
<1>3. SweptInv(solverBids')
  <2> SUFFICES ASSUME NEW c \in DOMAIN solverBids
               PROVE  /\ solverBids'[c].swept \in SUBSET DOMAIN solverBids
                      /\ solverBids'[c].status = "SELECTED" =>
                           \A d \in solverBids'[c].swept : d # c => solverBids'[d].status # "OPEN"
    BY DEF SweptInv
  <2>1. CASE c = b
    BY <1>1, <2>1
  <2>2. CASE c # b
    BY <1>1, <2>2 DEF BidsInv, SweptInv
  <2> QED BY <2>1, <2>2
<1>4. Winners(solverBids')
  <2> SUFFICES ASSUME NEW c \in DOMAIN solverBids, NEW d \in DOMAIN solverBids, c # d,
                      solverBids'[c].status = "SELECTED", solverBids'[d].status = "SELECTED"
               PROVE  c \notin solverBids'[d].swept \/ d \notin solverBids'[c].swept
    BY DEF Winners
  <2>1. \A e \in DOMAIN solverBids : e # b /\ solverBids[e].status = "SELECTED" => b \notin solverBids[e].swept
    BY DEF BidsInv, SweptInv
  <2>2. CASE c = b
    BY <1>1, <2>1, <2>2
  <2>3. CASE d = b
    BY <1>1, <2>1, <2>3
  <2>4. CASE c # b /\ d # b
    BY <1>1, <2>4 DEF BidsInv, Winners
  <2> QED BY <2>2, <2>3, <2>4
<1> QED BY <1>2, <1>3, <1>4 DEF BidsInv

\* Committing a selection is such a sweep.
LEMMA CommitInv ==
  ASSUME BidsInv, NEW b, CommitSelection(b)
  PROVE  BidsInv'
<1> DEFINE seen == selections[b]
           others == Others(seen, b)
           row(c) ==
             CASE c = b -> [solverBids[c] EXCEPT !.status = "SELECTED", !.swept = seen]
               [] c \in others -> [solverBids[c] EXCEPT !.status = "REJECTED"]
               [] OTHER -> solverBids[c]
<1>1. /\ b \in DOMAIN solverBids /\ solverBids[b].status = "OPEN" /\ seen \in SUBSET DOMAIN solverBids
      /\ \A c \in others : c \notin DOMAIN selections /\ c \in DOMAIN solverBids
  BY DEF CommitSelection, BidsInv, SelectionsInv, Unlocked, OpenBids, Others
<1>2. \A c \in DOMAIN selections' :
        c \in DOMAIN selections /\ c # b /\ c \notin others /\ selections'[c] = selections[c]
  BY <1>1 DEF CommitSelection, Ended
<1>3. solverBids' = [c \in DOMAIN solverBids |-> row(c)]
  BY DEF CommitSelection, Others
<1>a. /\ row(b) = [solverBids[b] EXCEPT !.status = "SELECTED", !.swept = seen]
      /\ \A c \in others : row(c) = [solverBids[c] EXCEPT !.status = "REJECTED"]
      /\ \A c : c # b /\ c \notin others => row(c) = solverBids[c]
  BY DEF Others
<1>4. \A c \in DOMAIN solverBids : solverBids[c] \in BidRow
  BY DEF BidsInv
<1> HIDE DEF seen, others, row
<1>5. /\ DOMAIN solverBids' = DOMAIN solverBids
      /\ solverBids'[b] = [solverBids[b] EXCEPT !.status = "SELECTED", !.swept = seen]
      /\ \A c \in others : solverBids'[c] = [solverBids[c] EXCEPT !.status = "REJECTED"]
      /\ \A c \in DOMAIN solverBids : c # b /\ c \notin others => solverBids'[c] = solverBids[c]
  BY <1>1, <1>3, <1>a
<1>6. /\ solverBids'[b] \in BidRow /\ solverBids'[b].status = "SELECTED" /\ solverBids'[b].swept = seen
      /\ \A c \in others : /\ solverBids'[c] \in BidRow /\ solverBids'[c].status = "REJECTED"
                           /\ solverBids'[c].swept = solverBids[c].swept
  <2>1. seen \in SUBSET Nat
    BY <1>1 DEF BidsInv
  <2>2. solverBids[b] \in BidRow /\ \A c \in others : solverBids[c] \in BidRow
    BY <1>1, <1>4
  <2>3. ASSUME NEW c \in others
        PROVE  /\ solverBids'[c] \in BidRow /\ solverBids'[c].status = "REJECTED"
               /\ solverBids'[c].swept = solverBids[c].swept
    <3>1. solverBids[c] \in BidRow /\ solverBids'[c] = [solverBids[c] EXCEPT !.status = "REJECTED"]
      BY <1>5, <2>2
    <3> QED BY <3>1 DEF BidRow, BidStatus
  <2>4. /\ solverBids'[b] \in BidRow /\ solverBids'[b].status = "SELECTED"
        /\ solverBids'[b].swept = seen
    BY <1>5, <2>1, <2>2 DEF BidRow, BidStatus
  <2> QED BY <2>3, <2>4
<1>7. solverBids' \in Seq(BidRow)
  <2>1. DOMAIN solverBids = 1..Len(solverBids) /\ Len(solverBids) \in Nat
    BY DEF BidsInv
  <2>2. \A c \in DOMAIN solverBids : solverBids'[c] \in BidRow
    BY <1>4, <1>5, <1>6
  <2>3. solverBids' = [c \in DOMAIN solverBids |-> solverBids'[c]]
    BY <1>3
  <2>4. solverBids' \in [1..Len(solverBids) -> BidRow]
    BY <2>1, <2>2, <2>3
  <2> QED BY <2>1, <2>4, SeqDef
<1>8. Wins(b, seen)
  BY <1>1, <1>2, <1>5, <1>6, <1>7 DEF Wins, others
<1> QED BY <1>8, SelectionInv

\* Selections indexed from the chain.
LEMMA MirrorSelectionInv ==
  ASSUME BidsInv, NEW b, MirrorSelection(b)
  PROVE  BidsInv'
<1> DEFINE row(c) ==
      IF c \notin OpenBids THEN solverBids[c]
      ELSE IF c = b
           THEN [solverBids[c] EXCEPT !.status = "SELECTED", !.swept = DOMAIN solverBids]
           ELSE [solverBids[c] EXCEPT !.status = "REJECTED"]
<1>1. /\ b \in DOMAIN solverBids /\ \A c \in OpenBids : c \notin DOMAIN selections
      /\ selections' = selections /\ solverBids' = [c \in DOMAIN solverBids |-> row(c)]
  BY DEF MirrorSelection, Unlocked
<1>2. DOMAIN selections' = {}
  BY <1>1 DEF BidsInv, SelectionsInv, OpenBids
<1>3. /\ DOMAIN solverBids = 1..Len(solverBids) /\ Len(solverBids) \in Nat
      /\ DOMAIN solverBids \in SUBSET Nat /\ \A c \in DOMAIN solverBids : solverBids[c] \in BidRow
  BY DEF BidsInv
<1>4. /\ \A c \in DOMAIN solverBids : c \notin OpenBids => row(c) = solverBids[c]
      /\ \A c \in OpenBids : c # b => row(c) = [solverBids[c] EXCEPT !.status = "REJECTED"]
      /\ b \in OpenBids =>
           row(b) = [solverBids[b] EXCEPT !.status = "SELECTED", !.swept = DOMAIN solverBids]
  OBVIOUS
<1> HIDE DEF row
<1>5. ASSUME NEW c \in OpenBids, c # b
      PROVE  /\ row(c) \in BidRow /\ row(c).status = "REJECTED" /\ row(c).swept = solverBids[c].swept
  <2>1. solverBids[c] \in BidRow /\ row(c) = [solverBids[c] EXCEPT !.status = "REJECTED"]
    BY <1>3, <1>4, <1>5 DEF OpenBids
  <2> QED BY <2>1 DEF BidRow, BidStatus
<1>6. ASSUME b \in OpenBids
      PROVE  row(b) \in BidRow /\ row(b).status = "SELECTED" /\ row(b).swept = DOMAIN solverBids
  BY <1>1, <1>3, <1>4, <1>6 DEF BidRow, BidStatus
<1>7. /\ solverBids' \in Seq(BidRow) /\ DOMAIN solverBids' = DOMAIN solverBids
      /\ \A c \in DOMAIN solverBids : solverBids'[c] = row(c)
  <2>1. \A c \in DOMAIN solverBids : row(c) \in BidRow
    BY <1>3, <1>4, <1>5, <1>6
  <2>2. solverBids' \in [1..Len(solverBids) -> BidRow]
    BY <1>1, <1>3, <2>1
  <2> QED BY <1>1, <1>3, <2>2, SeqDef
<1>8. CASE b \in OpenBids
  <2>1. Others(DOMAIN solverBids, b) = OpenBids \ {b}
    BY DEF Others, OpenBids
  <2>2. Wins(b, DOMAIN solverBids)
    BY <1>1, <1>2, <1>4, <1>5, <1>6, <1>7, <1>8, <2>1 DEF Wins, OpenBids
  <2> QED BY <2>2, SelectionInv
<1>9. CASE b \notin OpenBids
  <2>1. /\ \A c \in DOMAIN solverBids : solverBids'[c].status # "OPEN"
        /\ \A c \in DOMAIN solverBids : solverBids'[c].swept = solverBids[c].swept
        /\ \A c \in DOMAIN solverBids : solverBids'[c].status = "SELECTED" => solverBids'[c] = solverBids[c]
    BY <1>4, <1>5, <1>7, <1>9 DEF OpenBids
  <2>2. SelectionsInv(solverBids', selections')
    BY <1>2 DEF SelectionsInv
  <2>3. SweptInv(solverBids')
    BY <1>7, <2>1 DEF BidsInv, SweptInv
  <2>4. Winners(solverBids')
    BY <1>7, <2>1 DEF BidsInv, Winners
  <2> QED BY <1>7, <2>2, <2>3, <2>4 DEF BidsInv
<1> QED BY <1>8, <1>9

\* The other steps of a selection leave the bids alone.
LEMMA TransactionInv ==
  ASSUME BidsInv, NEW b, BeginSelection(b) \/ BeginRejection(b) \/ RollBack(b)
  PROVE  BidsInv'
<1>1. solverBids' = solverBids
  BY DEF BeginSelection, BeginRejection, RollBack
<1>2. CASE BeginSelection(b)
  <2>1. /\ b \in DOMAIN solverBids /\ solverBids[b].status = "OPEN"
        /\ DOMAIN selections' = DOMAIN selections \cup {b}
        /\ \A c \in DOMAIN selections' :
             \/ c = b /\ selections'[c] = {}
             \/ c \in DOMAIN selections /\ selections'[c] = selections[c]
    BY <1>2 DEF BeginSelection, Selectable, OpenBids
  <2>2. SelectionsInv(solverBids, selections')
    BY <2>1 DEF BidsInv, SelectionsInv
  <2> QED BY <1>1, <2>2 DEF BidsInv
<1>3. CASE BeginRejection(b)
  <2>1. /\ DOMAIN selections' = DOMAIN selections
        /\ \A c \in DOMAIN selections :
             selections'[c] = DOMAIN solverBids \/ selections'[c] = selections[c]
    BY <1>3 DEF BeginRejection
  <2>2. SelectionsInv(solverBids, selections')
    BY <2>1 DEF BidsInv, SelectionsInv
  <2> QED BY <1>1, <2>2 DEF BidsInv
<1>4. CASE RollBack(b)
  <2>1. \A c \in DOMAIN selections' : c \in DOMAIN selections /\ selections'[c] = selections[c]
    BY <1>4 DEF RollBack, Ended
  <2>2. SelectionsInv(solverBids, selections')
    BY <2>1 DEF BidsInv, SelectionsInv
  <2> QED BY <1>1, <2>2 DEF BidsInv
<1> QED BY <1>2, <1>3, <1>4

\* No step of the gateway or of the mirror of bids breaks the rows of bids.
LEMMA BiddingInv == BidsInv /\ Bidding => BidsInv'
<1> SUFFICES ASSUME BidsInv, Bidding PROVE BidsInv'
  OBVIOUS
<1>1. CASE CheckIntentOpen \/ CloseIntent
  BY <1>1 DEF CheckIntentOpen, CloseIntent, BidsInv
<1>2. CASE InsertBid \/ MirrorBid
  BY <1>2, ArrivalInv DEF InsertBid, MirrorBid
<1>3. ASSUME NEW b \in 1..MaxBids, BeginSelection(b) \/ BeginRejection(b) \/ RollBack(b)
      PROVE  BidsInv'
  BY <1>3, TransactionInv
<1>4. ASSUME NEW b \in 1..MaxBids, CommitSelection(b)
      PROVE  BidsInv'
  BY <1>4, CommitInv
<1>5. ASSUME NEW b \in 1..MaxBids, MirrorSelection(b)
      PROVE  BidsInv'
  BY <1>5, MirrorSelectionInv
<1> QED BY <1>1, <1>2, <1>3, <1>4, <1>5 DEF Bidding

\* Whatever requests and indexed selections run at the same time, of two
\* selected bids one was not yet there when the other one's selection rejected
\* the rest (api/src/routes/bids.ts, the select route, and the indexer's handler
\* of SolverBidSelected).
THEOREM AlwaysOneWinner == GatewaySpec => []OneWinner
<1>1. GatewayInit => BidsInv
  <2> SUFFICES ASSUME GatewayInit PROVE BidsInv
    OBVIOUS
  <2>1. solverBids = << >> /\ selections = << >> /\ DOMAIN << >> = {} /\ << >> \in Seq(BidRow)
    BY DEF GatewayInit
  <2> QED BY <2>1 DEF BidsInv, SelectionsInv, SweptInv, Winners
<1>2. BidsInv /\ [GatewayNext]_gatewayVars => BidsInv'
  <2>1. BidsInv /\ UNCHANGED bidVars => BidsInv'
    BY DEF BidsInv, bidVars
  <2> QED BY <2>1, BiddingInv DEF GatewayNext, gatewayVars
<1>3. BidsInv => OneWinner
  BY DEF BidsInv, Winners, OneWinner
<1> QED BY <1>1, <1>2, <1>3, PTL DEF GatewaySpec

----------------------------------------------------------------------------
(* The policies table.  An event sets one thing, its subject; a row can    *)
(* only be wrong about a subject that an event still to be handled is of,  *)
(* because the last event of a subject has the contract's value.           *)

PolicyEvent ==
  [type : {"SpendLimitSet"}, token : Token, value : Maximum]
  \cup [type : {"TargetAllowlistUpdated"}, target : Target, value : BOOLEAN]
  \cup [type : {"FunctionAllowlistUpdated"}, target : Target, selector : Selectors, value : BOOLEAN]
  \cup [type : {"FunctionAllowlistModeUpdated"}, value : BOOLEAN]
  \cup [type : {"GuardianSet"}, value : Guardian \cup {NoGuardian}]
  \cup [type : {"AccountFrozen"}, value : BOOLEAN]
  \cup [type : {"PaymentPolicySet"}, paymentKey : PaymentKey, value : PaymentTerms]

\* The events about one token, target, function or payment key.
OfToken(e, t) == e.type = "SpendLimitSet" /\ e.token = t
OfTarget(e, t) == e.type = "TargetAllowlistUpdated" /\ e.target = t
OfFunction(e, t, s) == e.type = "FunctionAllowlistUpdated" /\ e.target = t /\ e.selector = s
OfMode(e) == e.type = "FunctionAllowlistModeUpdated"
OfGuardian(e) == e.type = "GuardianSet"
OfFrozen(e) == e.type = "AccountFrozen"
OfPayment(e, k) == e.type = "PaymentPolicySet" /\ e.paymentKey = k

\* Two events with one subject.
Same(e, f) ==
  \/ \E t \in Token : OfToken(e, t) /\ OfToken(f, t)
  \/ \E t \in Target : OfTarget(e, t) /\ OfTarget(f, t)
  \/ \E t \in Target, s \in Selectors : OfFunction(e, t, s) /\ OfFunction(f, t, s)
  \/ OfMode(e) /\ OfMode(f)
  \/ OfGuardian(e) /\ OfGuardian(f)
  \/ OfFrozen(e) /\ OfFrozen(f)
  \/ \E k \in PaymentKey : OfPayment(e, k) /\ OfPayment(f, k)

TermsOf(k) == <<policies[k].maxPerPayment, policies[k].maxPerDay, policies[k].allowed>>

\* The contract still has what the event says.
Current(e) ==
  /\ \A t \in Token : OfToken(e, t) => limits[t].maxPerDay = e.value
  /\ \A t \in Target : OfTarget(e, t) => (t \in allowedTargets) = e.value
  /\ \A t \in Target, s \in Selectors :
       OfFunction(e, t, s) => (<<t, s>> \in allowedFunctions) = e.value
  /\ OfMode(e) => usesFunctionAllowlist = e.value
  /\ OfGuardian(e) => guardian = e.value
  /\ OfFrozen(e) => frozen = e.value
  /\ \A k \in PaymentKey : OfPayment(e, k) => TermsOf(k) = e.value

LastIsCurrent ==
  \A k \in DOMAIN log : (\A j \in DOMAIN log : j > k => ~Same(log[j], log[k])) => Current(log[k])

\* The events that are still to be handled.
ToCome == (at + 1)..Len(log)

RowsShown ==
  /\ \A t \in Token :
       (\A j \in ToCome : ~OfToken(log[j], t)) =>
         Shown("spend_limit", t, NoAddress, NoSelector, 0) = limits[t].maxPerDay
  /\ \A t \in Target :
       (\A j \in ToCome : ~OfTarget(log[j], t)) =>
         Shown("target_allowlist", NoAddress, t, NoSelector, FALSE) = (t \in allowedTargets)
  /\ \A t \in Target, s \in Selectors :
       (\A j \in ToCome : ~OfFunction(log[j], t, s)) =>
         Shown("function_allowlist", NoAddress, t, s, FALSE) = (<<t, s>> \in allowedFunctions)
  /\ (\A j \in ToCome : ~OfMode(log[j])) =>
       Shown("function_allowlist_mode", NoAddress, NoAddress, NoSelector, FALSE)
         = usesFunctionAllowlist
  /\ (\A j \in ToCome : ~OfFrozen(log[j])) =>
       Shown("account_frozen", NoAddress, NoAddress, NoSelector, FALSE) = frozen
  /\ (\A j \in ToCome : ~OfGuardian(log[j])) /\ guardian # NoGuardian =>
       Has("policies", <<"guardian", NoAddress, guardian, NoSelector>>)

PaymentRow(k) == <<"signed_payment_policy", NoAddress, MerchantOf[k], NoSelector>>

PaymentsShown ==
  \A key \in DOMAIN rows["policies"] :
    key[1] = "signed_payment_policy" =>
      \E k \in PaymentKey :
        /\ key = PaymentRow(k) /\ rows["policies"][key][1] = k
        /\ (\A j \in ToCome : ~OfPayment(log[j], k)) => rows["policies"][key][2] = TermsOf(k)

TableInv ==
  /\ now \in Nat
  /\ limits \in [Token -> SpendLimit] /\ DOMAIN policies = PaymentKey
  /\ \A k \in PaymentKey : policies[k] \in PaymentPolicy
  /\ log \in Seq(PolicyEvent) /\ at \in 0..Len(log) /\ stored \in 0..at
  /\ "policies" \in DOMAIN rows
  /\ LastIsCurrent /\ RowsShown /\ PaymentsShown

\* What a row shows after a row was written.
LEMMA Written ==
  ASSUME "policies" \in DOMAIN rows, NEW key, NEW value, Upsert("policies", key, value)
  PROVE  /\ "policies" \in DOMAIN rows'
         /\ DOMAIN rows'["policies"] = DOMAIN rows["policies"] \cup {key}
         /\ rows'["policies"][key] = value
         /\ \A other \in DOMAIN rows["policies"] :
              other # key => rows'["policies"][other] = rows["policies"][other]
BY DEF Upsert

\* The same, of what is shown for a setting.
LEMMA ShownNext ==
  ASSUME "policies" \in DOMAIN rows, NEW key, NEW value, Upsert("policies", key, value),
         NEW type, NEW token, NEW target, NEW selector, NEW default
  PROVE  /\ <<type, token, target, selector>> = key =>
              Shown(type, token, target, selector, default)' = value
         /\ <<type, token, target, selector>> # key =>
              Shown(type, token, target, selector, default)' = Shown(type, token, target, selector, default)
BY Written DEF Shown, Has

\* An event is handled: its row has its value.
RowKey(e, key) ==
  \/ \E t \in Token : OfToken(e, t) /\ key = <<"spend_limit", t, NoAddress, NoSelector>>
  \/ \E t \in Target : OfTarget(e, t) /\ key = <<"target_allowlist", NoAddress, t, NoSelector>>
  \/ \E t \in Target, s \in Selectors :
       OfFunction(e, t, s) /\ key = <<"function_allowlist", NoAddress, t, s>>
  \/ OfMode(e) /\ key = <<"function_allowlist_mode", NoAddress, NoAddress, NoSelector>>
  \/ OfGuardian(e) /\ key = <<"guardian", NoAddress, e.value, NoSelector>>
  \/ OfFrozen(e) /\ key = <<"account_frozen", NoAddress, NoAddress, NoSelector>>
  \/ \E k \in PaymentKey : OfPayment(e, k) /\ key = PaymentRow(k)

RowValue(e, value) ==
  /\ \A k \in PaymentKey : OfPayment(e, k) => value = <<k, e.value>>
  /\ e.type # "PaymentPolicySet" => value = e.value

\* A handler writes the row of the event it is at.
LEMMA HandlerIs ==
  ASSUME TableInv, Handler
  PROVE  /\ at < Len(log) /\ Event \in PolicyEvent /\ at' = at + 1
         /\ \E key, value : Upsert("policies", key, value) /\ RowKey(Event, key) /\ RowValue(Event, value)
<1>1. at < Len(log) /\ at' = at + 1
  BY DEF Handler, HandleSpendLimitSet, HandleTargetAllowlistUpdated, HandleFunctionAllowlistUpdated,
         HandleFunctionAllowlistModeUpdated, HandleGuardianSet, HandleAccountFrozen,
         HandlePaymentPolicySet, UpsertPolicy, Handle, Done
<1>2. Event \in PolicyEvent
  BY <1>1 DEF TableInv, Event
<1> DEFINE Goal == \E key, value : Upsert("policies", key, value) /\ RowKey(Event, key) /\ RowValue(Event, value)
<1>3. ASSUME HandleSpendLimitSet PROVE Goal
  <2>1. Event.type = "SpendLimitSet" /\ Event.token \in Token
    BY <1>2, <1>3 DEF HandleSpendLimitSet, UpsertPolicy, Handle, PolicyEvent
  <2>2. Upsert("policies", <<"spend_limit", Event.token, NoAddress, NoSelector>>, Event.value)
    BY <1>3 DEF HandleSpendLimitSet, UpsertPolicy, PolicyKey
  <2> QED BY <2>1, <2>2 DEF RowKey, RowValue, OfToken, OfPayment
<1>4. ASSUME HandleTargetAllowlistUpdated PROVE Goal
  <2>1. Event.type = "TargetAllowlistUpdated" /\ Event.target \in Target
    BY <1>2, <1>4 DEF HandleTargetAllowlistUpdated, UpsertPolicy, Handle, PolicyEvent
  <2>2. Upsert("policies", <<"target_allowlist", NoAddress, Event.target, NoSelector>>, Event.value)
    BY <1>4 DEF HandleTargetAllowlistUpdated, UpsertPolicy, PolicyKey
  <2> QED BY <2>1, <2>2 DEF RowKey, RowValue, OfTarget, OfPayment
<1>5. ASSUME HandleFunctionAllowlistUpdated PROVE Goal
  <2>1. Event.type = "FunctionAllowlistUpdated" /\ Event.target \in Target /\ Event.selector \in Selectors
    BY <1>2, <1>5 DEF HandleFunctionAllowlistUpdated, UpsertPolicy, Handle, PolicyEvent
  <2>2. Upsert("policies", <<"function_allowlist", NoAddress, Event.target, Event.selector>>, Event.value)
    BY <1>5 DEF HandleFunctionAllowlistUpdated, UpsertPolicy, PolicyKey
  <2> QED BY <2>1, <2>2 DEF RowKey, RowValue, OfFunction, OfPayment
<1>6. ASSUME HandleFunctionAllowlistModeUpdated PROVE Goal
  <2>1. Event.type = "FunctionAllowlistModeUpdated"
    BY <1>6 DEF HandleFunctionAllowlistModeUpdated, UpsertPolicy, Handle
  <2>2. Upsert("policies", <<"function_allowlist_mode", NoAddress, NoAddress, NoSelector>>, Event.value)
    BY <1>6 DEF HandleFunctionAllowlistModeUpdated, UpsertPolicy, PolicyKey
  <2> QED BY <2>1, <2>2 DEF RowKey, RowValue, OfMode, OfPayment
<1>7. ASSUME HandleGuardianSet PROVE Goal
  <2>1. Event.type = "GuardianSet"
    BY <1>7 DEF HandleGuardianSet, UpsertPolicy, Handle
  <2>2. Upsert("policies", <<"guardian", NoAddress, Event.value, NoSelector>>, Event.value)
    BY <1>7 DEF HandleGuardianSet, UpsertPolicy, PolicyKey
  <2> QED BY <2>1, <2>2 DEF RowKey, RowValue, OfGuardian, OfPayment
<1>8. ASSUME HandleAccountFrozen PROVE Goal
  <2>1. Event.type = "AccountFrozen"
    BY <1>8 DEF HandleAccountFrozen, UpsertPolicy, Handle
  <2>2. Upsert("policies", <<"account_frozen", NoAddress, NoAddress, NoSelector>>, Event.value)
    BY <1>8 DEF HandleAccountFrozen, UpsertPolicy, PolicyKey
  <2> QED BY <2>1, <2>2 DEF RowKey, RowValue, OfFrozen, OfPayment
<1>9. ASSUME HandlePaymentPolicySet PROVE Goal
  <2>1. Event.type = "PaymentPolicySet" /\ Event.paymentKey \in PaymentKey
    BY <1>2, <1>9 DEF HandlePaymentPolicySet, UpsertPolicy, Handle, PolicyEvent
  <2>2. Upsert("policies", PaymentRow(Event.paymentKey), <<Event.paymentKey, Event.value>>)
    BY <1>9 DEF HandlePaymentPolicySet, UpsertPolicy, PolicyKey, PaymentRow
  <2> QED BY <2>1, <2>2 DEF RowKey, RowValue, OfPayment
<1>10. Goal
  BY <1>3, <1>4, <1>5, <1>6, <1>7, <1>8, <1>9 DEF Handler
<1> QED BY <1>1, <1>2, <1>10

\* Events with one subject have it in common.
LEMMA SameSubject ==
  ASSUME NEW e, NEW f, Same(f, e)
  PROVE  /\ \A t \in Token : OfToken(e, t) => OfToken(f, t)
         /\ \A t \in Target : OfTarget(e, t) => OfTarget(f, t)
         /\ \A t \in Target, s \in Selectors : OfFunction(e, t, s) => OfFunction(f, t, s)
         /\ OfMode(e) => OfMode(f)
         /\ OfGuardian(e) => OfGuardian(f)
         /\ OfFrozen(e) => OfFrozen(f)
         /\ \A k \in PaymentKey : OfPayment(e, k) => OfPayment(f, k)
BY DEF Same, OfToken, OfTarget, OfFunction, OfMode, OfGuardian, OfFrozen, OfPayment

\* The row of an event is the row of its subject.
LEMMA KeyOf ==
  ASSUME NEW e, NEW key, RowKey(e, key)
  PROVE  /\ \A t \in Token : OfToken(e, t) <=> <<"spend_limit", t, NoAddress, NoSelector>> = key
         /\ \A t \in Target : OfTarget(e, t) <=> <<"target_allowlist", NoAddress, t, NoSelector>> = key
         /\ \A t \in Target, s \in Selectors :
              OfFunction(e, t, s) <=> <<"function_allowlist", NoAddress, t, s>> = key
         /\ OfMode(e) <=> <<"function_allowlist_mode", NoAddress, NoAddress, NoSelector>> = key
         /\ OfGuardian(e) => <<"guardian", NoAddress, e.value, NoSelector>> = key
         /\ OfFrozen(e) <=> <<"account_frozen", NoAddress, NoAddress, NoSelector>> = key
         /\ \A k \in PaymentKey : OfPayment(e, k) => key = PaymentRow(k)
         /\ key[1] = "signed_payment_policy" => \E k \in PaymentKey : OfPayment(e, k)
BY DEF RowKey, OfToken, OfTarget, OfFunction, OfMode, OfGuardian, OfFrozen, OfPayment, PaymentRow

\* The last event about its subject says what the contract has.
Last(e) == \A j \in ToCome : j > at + 1 => ~Same(log[j], e)

\* With no later event about its subject, what an event says is what the contract has.
LEMMA LastEvent ==
  ASSUME TableInv, at < Len(log), Last(Event)
  PROVE  Current(Event)
<1>1. at \in Nat /\ DOMAIN log = 1..Len(log) /\ Len(log) \in Nat
  BY DEF TableInv
<1>2. at + 1 \in DOMAIN log /\ Event = log[at + 1]
  BY <1>1 DEF Event
<1>3. \A j \in DOMAIN log : j > at + 1 => j \in ToCome
  BY <1>1 DEF ToCome
<1> QED BY <1>1, <1>2, <1>3 DEF Last, TableInv, LastIsCurrent

\* The value of an event is that of its row, if nothing about its subject is to come.
LEMMA Due ==
  ASSUME TableInv, at < Len(log), NEW value, RowValue(Event, value)
  PROVE  /\ \A t \in Token : OfToken(Event, t) /\ (\A j \in ToCome : j > at + 1 => ~OfToken(log[j], t)) =>
              value = limits[t].maxPerDay
         /\ \A t \in Target : OfTarget(Event, t) /\ (\A j \in ToCome : j > at + 1 => ~OfTarget(log[j], t)) =>
              value = (t \in allowedTargets)
         /\ \A t \in Target, s \in Selectors :
              OfFunction(Event, t, s) /\ (\A j \in ToCome : j > at + 1 => ~OfFunction(log[j], t, s)) =>
              value = (<<t, s>> \in allowedFunctions)
         /\ OfMode(Event) /\ (\A j \in ToCome : j > at + 1 => ~OfMode(log[j])) =>
              value = usesFunctionAllowlist
         /\ OfFrozen(Event) /\ (\A j \in ToCome : j > at + 1 => ~OfFrozen(log[j])) =>
              value = frozen
         /\ OfGuardian(Event) /\ (\A j \in ToCome : j > at + 1 => ~OfGuardian(log[j])) =>
              Event.value = guardian
         /\ \A k \in PaymentKey : OfPayment(Event, k) /\ (\A j \in ToCome : j > at + 1 => ~OfPayment(log[j], k)) =>
              value = <<k, TermsOf(k)>>
<1>1. Last(Event) => Current(Event)
  BY LastEvent
<1>2. Event.type # "PaymentPolicySet" => value = Event.value
  BY DEF RowValue
<1>3. ASSUME NEW t \in Token, OfToken(Event, t), \A j \in ToCome : j > at + 1 => ~OfToken(log[j], t)
      PROVE  value = limits[t].maxPerDay
  <2>1. Last(Event)
    BY <1>3, SameSubject DEF Last
  <2> QED BY <2>1, <1>1, <1>2, <1>3 DEF Current, OfToken
<1>4. ASSUME NEW t \in Target, OfTarget(Event, t), \A j \in ToCome : j > at + 1 => ~OfTarget(log[j], t)
      PROVE  value = (t \in allowedTargets)
  <2>1. Last(Event)
    BY <1>4, SameSubject DEF Last
  <2> QED BY <2>1, <1>1, <1>2, <1>4 DEF Current, OfTarget
<1>5. ASSUME NEW t \in Target, NEW s \in Selectors, OfFunction(Event, t, s),
             \A j \in ToCome : j > at + 1 => ~OfFunction(log[j], t, s)
      PROVE  value = (<<t, s>> \in allowedFunctions)
  <2>1. Last(Event)
    BY <1>5, SameSubject DEF Last
  <2> QED BY <2>1, <1>1, <1>2, <1>5 DEF Current, OfFunction
<1>6. ASSUME OfMode(Event), \A j \in ToCome : j > at + 1 => ~OfMode(log[j])
      PROVE  value = usesFunctionAllowlist
  <2>1. Last(Event)
    BY <1>6, SameSubject DEF Last
  <2> QED BY <2>1, <1>1, <1>2, <1>6 DEF Current, OfMode
<1>7. ASSUME OfFrozen(Event), \A j \in ToCome : j > at + 1 => ~OfFrozen(log[j])
      PROVE  value = frozen
  <2>1. Last(Event)
    BY <1>7, SameSubject DEF Last
  <2> QED BY <2>1, <1>1, <1>2, <1>7 DEF Current, OfFrozen
<1>8. ASSUME OfGuardian(Event), \A j \in ToCome : j > at + 1 => ~OfGuardian(log[j])
      PROVE  Event.value = guardian
  <2>1. Last(Event)
    BY <1>8, SameSubject DEF Last
  <2> QED BY <2>1, <1>1, <1>8 DEF Current
<1>9. ASSUME NEW k \in PaymentKey, OfPayment(Event, k), \A j \in ToCome : j > at + 1 => ~OfPayment(log[j], k)
      PROVE  value = <<k, TermsOf(k)>>
  <2>1. Last(Event)
    BY <1>9, SameSubject DEF Last
  <2>2. value = <<k, Event.value>> /\ TermsOf(k) = Event.value
    BY <2>1, <1>1, <1>9 DEF Current, RowValue
  <2> QED BY <2>2
<1> QED BY <1>3, <1>4, <1>5, <1>6, <1>7, <1>8, <1>9

\* A handled event leaves the table right about every subject of which nothing is to come.
LEMMA HandledInv ==
  ASSUME TableInv, Handler, UNCHANGED <<now, moduleVars, log, stored, crashes>>
  PROVE  TableInv'
<1>1. /\ at < Len(log) /\ Event \in PolicyEvent /\ at' = at + 1
      /\ \E key, value : Upsert("policies", key, value) /\ RowKey(Event, key) /\ RowValue(Event, value)
  BY HandlerIs
<1>2. PICK key, value : Upsert("policies", key, value) /\ RowKey(Event, key) /\ RowValue(Event, value)
  BY <1>1
<1>3. /\ at \in Nat /\ Len(log) \in Nat /\ stored \in 0..at /\ "policies" \in DOMAIN rows
      /\ DOMAIN log = 1..Len(log)
  BY DEF TableInv
<1>4. /\ limits' = limits /\ allowedTargets' = allowedTargets /\ allowedFunctions' = allowedFunctions
      /\ usesFunctionAllowlist' = usesFunctionAllowlist /\ guardian' = guardian /\ frozen' = frozen
      /\ policies' = policies /\ log' = log /\ stored' = stored /\ now' = now
  BY DEF moduleVars, settings
<1>5. /\ ToCome' = {j \in ToCome : j > at + 1} /\ ToCome = ToCome' \cup {at + 1}
      /\ Event = log[at + 1]
  BY <1>1, <1>3, <1>4 DEF ToCome, Event
<1>6. LastIsCurrent'
  BY <1>4 DEF TableInv, LastIsCurrent, Current, TermsOf
<1>7. ASSUME NEW t \in Token, \A j \in ToCome' : ~OfToken(log[j], t)
      PROVE  Shown("spend_limit", t, NoAddress, NoSelector, 0)' = limits[t].maxPerDay
  <2>1. CASE OfToken(Event, t)
    BY <2>1, <1>7, <1>1, <1>2, <1>3, <1>5, Due, KeyOf, ShownNext
  <2>2. CASE ~OfToken(Event, t)
    <3>1. \A j \in ToCome : ~OfToken(log[j], t)
      BY <2>2, <1>7, <1>5
    <3> QED BY <3>1, <2>2, <1>2, <1>3, KeyOf, ShownNext DEF TableInv, RowsShown
  <2> QED BY <2>1, <2>2
<1>8. ASSUME NEW t \in Target, \A j \in ToCome' : ~OfTarget(log[j], t)
      PROVE  Shown("target_allowlist", NoAddress, t, NoSelector, FALSE)' = (t \in allowedTargets)
  <2>1. CASE OfTarget(Event, t)
    <3>1. value = (t \in allowedTargets)
      BY <2>1, <1>8, <1>1, <1>2, <1>5, Due
    <3>2. Shown("target_allowlist", NoAddress, t, NoSelector, FALSE)' = value
      <4>1. <<"target_allowlist", NoAddress, t, NoSelector>> = key
        BY <2>1, <1>2, KeyOf
      <4>2. \A d : Shown("target_allowlist", NoAddress, t, NoSelector, d)' = value
        BY <4>1, <1>2, <1>3, ShownNext
      <4> QED BY <4>2
    <3> QED BY <3>1, <3>2
  <2>2. CASE ~OfTarget(Event, t)
    <3>1. \A j \in ToCome : ~OfTarget(log[j], t)
      BY <2>2, <1>8, <1>5
    <3>2. Shown("target_allowlist", NoAddress, t, NoSelector, FALSE) = (t \in allowedTargets)
      BY <3>1 DEF TableInv, RowsShown
    <3>3. Shown("target_allowlist", NoAddress, t, NoSelector, FALSE)' = Shown("target_allowlist", NoAddress, t, NoSelector, FALSE)
      <4>1. <<"target_allowlist", NoAddress, t, NoSelector>> # key
        BY <2>2, <1>2, KeyOf
      <4>2. \A d : Shown("target_allowlist", NoAddress, t, NoSelector, d)' = Shown("target_allowlist", NoAddress, t, NoSelector, d)
        BY <4>1, <1>2, <1>3, ShownNext
      <4> QED BY <4>2
    <3> QED BY <3>2, <3>3
  <2> QED BY <2>1, <2>2
<1>9. ASSUME NEW t \in Target, NEW s \in Selectors, \A j \in ToCome' : ~OfFunction(log[j], t, s)
      PROVE  Shown("function_allowlist", NoAddress, t, s, FALSE)' = (<<t, s>> \in allowedFunctions)
  <2>1. CASE OfFunction(Event, t, s)
    <3>1. value = (<<t, s>> \in allowedFunctions)
      BY <2>1, <1>9, <1>1, <1>2, <1>5, Due
    <3>2. Shown("function_allowlist", NoAddress, t, s, FALSE)' = value
      <4>1. <<"function_allowlist", NoAddress, t, s>> = key
        BY <2>1, <1>2, KeyOf
      <4>2. \A d : Shown("function_allowlist", NoAddress, t, s, d)' = value
        BY <4>1, <1>2, <1>3, ShownNext
      <4> QED BY <4>2
    <3> QED BY <3>1, <3>2
  <2>2. CASE ~OfFunction(Event, t, s)
    <3>1. \A j \in ToCome : ~OfFunction(log[j], t, s)
      BY <2>2, <1>9, <1>5
    <3>2. Shown("function_allowlist", NoAddress, t, s, FALSE) = (<<t, s>> \in allowedFunctions)
      BY <3>1 DEF TableInv, RowsShown
    <3>3. Shown("function_allowlist", NoAddress, t, s, FALSE)' = Shown("function_allowlist", NoAddress, t, s, FALSE)
      <4>1. <<"function_allowlist", NoAddress, t, s>> # key
        BY <2>2, <1>2, KeyOf
      <4>2. \A d : Shown("function_allowlist", NoAddress, t, s, d)' = Shown("function_allowlist", NoAddress, t, s, d)
        BY <4>1, <1>2, <1>3, ShownNext
      <4> QED BY <4>2
    <3> QED BY <3>2, <3>3
  <2> QED BY <2>1, <2>2
<1>10. ASSUME \A j \in ToCome' : ~OfMode(log[j])
       PROVE  Shown("function_allowlist_mode", NoAddress, NoAddress, NoSelector, FALSE)'
                = usesFunctionAllowlist
  <2>1. CASE OfMode(Event)
    <3>1. value = usesFunctionAllowlist
      BY <2>1, <1>10, <1>1, <1>2, <1>5, Due
    <3>2. Shown("function_allowlist_mode", NoAddress, NoAddress, NoSelector, FALSE)' = value
      <4>1. <<"function_allowlist_mode", NoAddress, NoAddress, NoSelector>> = key
        BY <2>1, <1>2, KeyOf
      <4>2. \A d : Shown("function_allowlist_mode", NoAddress, NoAddress, NoSelector, d)' = value
        BY <4>1, <1>2, <1>3, ShownNext
      <4> QED BY <4>2
    <3> QED BY <3>1, <3>2
  <2>2. CASE ~OfMode(Event)
    <3>1. \A j \in ToCome : ~OfMode(log[j])
      BY <2>2, <1>10, <1>5
    <3>2. Shown("function_allowlist_mode", NoAddress, NoAddress, NoSelector, FALSE) = usesFunctionAllowlist
      BY <3>1 DEF TableInv, RowsShown
    <3>3. Shown("function_allowlist_mode", NoAddress, NoAddress, NoSelector, FALSE)' = Shown("function_allowlist_mode", NoAddress, NoAddress, NoSelector, FALSE)
      <4>1. <<"function_allowlist_mode", NoAddress, NoAddress, NoSelector>> # key
        BY <2>2, <1>2, KeyOf
      <4>2. \A d : Shown("function_allowlist_mode", NoAddress, NoAddress, NoSelector, d)' = Shown("function_allowlist_mode", NoAddress, NoAddress, NoSelector, d)
        BY <4>1, <1>2, <1>3, ShownNext
      <4> QED BY <4>2
    <3> QED BY <3>2, <3>3
  <2> QED BY <2>1, <2>2
<1>11. ASSUME \A j \in ToCome' : ~OfFrozen(log[j])
       PROVE  Shown("account_frozen", NoAddress, NoAddress, NoSelector, FALSE)' = frozen
  <2>1. CASE OfFrozen(Event)
    <3>1. value = frozen
      BY <2>1, <1>11, <1>1, <1>2, <1>5, Due
    <3>2. Shown("account_frozen", NoAddress, NoAddress, NoSelector, FALSE)' = value
      <4>1. <<"account_frozen", NoAddress, NoAddress, NoSelector>> = key
        BY <2>1, <1>2, KeyOf
      <4>2. \A d : Shown("account_frozen", NoAddress, NoAddress, NoSelector, d)' = value
        BY <4>1, <1>2, <1>3, ShownNext
      <4> QED BY <4>2
    <3> QED BY <3>1, <3>2
  <2>2. CASE ~OfFrozen(Event)
    <3>1. \A j \in ToCome : ~OfFrozen(log[j])
      BY <2>2, <1>11, <1>5
    <3>2. Shown("account_frozen", NoAddress, NoAddress, NoSelector, FALSE) = frozen
      BY <3>1 DEF TableInv, RowsShown
    <3>3. Shown("account_frozen", NoAddress, NoAddress, NoSelector, FALSE)' = Shown("account_frozen", NoAddress, NoAddress, NoSelector, FALSE)
      <4>1. <<"account_frozen", NoAddress, NoAddress, NoSelector>> # key
        BY <2>2, <1>2, KeyOf
      <4>2. \A d : Shown("account_frozen", NoAddress, NoAddress, NoSelector, d)' = Shown("account_frozen", NoAddress, NoAddress, NoSelector, d)
        BY <4>1, <1>2, <1>3, ShownNext
      <4> QED BY <4>2
    <3> QED BY <3>2, <3>3
  <2> QED BY <2>1, <2>2
<1>12. ASSUME \A j \in ToCome' : ~OfGuardian(log[j]), guardian # NoGuardian
       PROVE  Has("policies", <<"guardian", NoAddress, guardian, NoSelector>>)'
  <2>1. DOMAIN rows'["policies"] = DOMAIN rows["policies"] \cup {key}
    BY <1>2, <1>3, Written
  <2>2. CASE OfGuardian(Event)
    <3>1. Event.value = guardian
      BY <2>2, <1>12, <1>1, <1>2, <1>5, Due
    <3>2. <<"guardian", NoAddress, guardian, NoSelector>> = key
      BY <3>1, <2>2, <1>2, KeyOf
    <3> QED BY <3>2, <2>1, <1>4 DEF Has
  <2>3. CASE ~OfGuardian(Event)
    <3>1. \A j \in ToCome : ~OfGuardian(log[j])
      BY <2>3, <1>12, <1>5
    <3> QED BY <3>1, <2>1, <1>4, <1>12 DEF Has, TableInv, RowsShown
  <2> QED BY <2>2, <2>3
<1>13. RowsShown'
  BY <1>4, <1>7, <1>8, <1>9, <1>10, <1>11, <1>12 DEF RowsShown
<1>14. PaymentsShown'
  <2>1. /\ DOMAIN rows'["policies"] = DOMAIN rows["policies"] \cup {key}
        /\ rows'["policies"][key] = value
        /\ \A other \in DOMAIN rows["policies"] :
             other # key => rows'["policies"][other] = rows["policies"][other]
    BY <1>2, <1>3, Written
  <2>2. \A k \in PaymentKey : TermsOf(k)' = TermsOf(k)
    BY <1>4 DEF TermsOf
  <2>3. ASSUME NEW old \in DOMAIN rows'["policies"], old[1] = "signed_payment_policy"
        PROVE  \E k \in PaymentKey :
                 /\ old = PaymentRow(k) /\ rows'["policies"][old][1] = k
                 /\ (\A j \in ToCome' : ~OfPayment(log[j], k)) => rows'["policies"][old][2] = TermsOf(k)
    <3>1. CASE old = key
      <4>1. PICK k \in PaymentKey : OfPayment(Event, k)
        BY <3>1, <2>3, <1>2, KeyOf
      <4>2. old = PaymentRow(k) /\ rows'["policies"][old][1] = k
        BY <4>1, <3>1, <2>1, <1>2, KeyOf DEF RowValue
      <4>3. ASSUME \A j \in ToCome' : ~OfPayment(log[j], k)
            PROVE  rows'["policies"][old][2] = TermsOf(k)
        <5>1. value = <<k, TermsOf(k)>>
          BY <4>1, <4>3, <1>1, <1>2, <1>5, Due
        <5> QED BY <5>1, <3>1, <2>1
      <4> QED BY <4>2, <4>3
    <3>2. CASE old # key
      <4>1. old \in DOMAIN rows["policies"] /\ rows'["policies"][old] = rows["policies"][old]
        BY <3>2, <2>1
      <4>2. PICK k \in PaymentKey :
              /\ old = PaymentRow(k) /\ rows["policies"][old][1] = k
              /\ (\A j \in ToCome : ~OfPayment(log[j], k)) => rows["policies"][old][2] = TermsOf(k)
        BY <4>1, <2>3 DEF TableInv, PaymentsShown
      <4>3. ~OfPayment(Event, k)
        BY <4>2, <3>2, <1>2, KeyOf
      <4> QED BY <4>1, <4>2, <4>3, <1>5
    <3> QED BY <3>1, <3>2
  <2> QED BY <2>2, <2>3, <1>4 DEF PaymentsShown, PaymentRow
<1>15. stored' \in 0..at' /\ at' \in 0..Len(log)
  BY <1>1, <1>3, <1>4
<1>16. "policies" \in DOMAIN rows'
  BY <1>2, <1>3, Written
<1> QED BY <1>4, <1>6, <1>13, <1>14, <1>15, <1>16 DEF TableInv

\* What an event is not about stays as it is in the contract.
Kept(e) ==
  /\ \A t \in Token : ~OfToken(e, t) => limits'[t].maxPerDay = limits[t].maxPerDay
  /\ \A t \in Target : ~OfTarget(e, t) => (t \in allowedTargets') = (t \in allowedTargets)
  /\ \A t \in Target, s \in Selectors :
       ~OfFunction(e, t, s) => (<<t, s>> \in allowedFunctions') = (<<t, s>> \in allowedFunctions)
  /\ ~OfMode(e) => usesFunctionAllowlist' = usesFunctionAllowlist
  /\ ~OfGuardian(e) => guardian' = guardian
  /\ ~OfFrozen(e) => frozen' = frozen
  /\ \A k \in PaymentKey : ~OfPayment(e, k) => TermsOf(k)' = TermsOf(k)

\* What an event with another subject says is still so.
LEMMA CurrentKept ==
  ASSUME NEW e, NEW f, ~Same(e, f), Kept(e), Current(f)
  PROVE  Current(f)'
<1>1. \A t \in Token : OfToken(f, t) => limits'[t].maxPerDay = f.value
  BY DEF Kept, Current, Same
<1>2. \A t \in Target : OfTarget(f, t) => (t \in allowedTargets') = f.value
  BY DEF Kept, Current, Same
<1>3. \A t \in Target, s \in Selectors : OfFunction(f, t, s) => (<<t, s>> \in allowedFunctions') = f.value
  BY DEF Kept, Current, Same
<1>4. OfMode(f) => usesFunctionAllowlist' = f.value
  BY DEF Kept, Current, Same
<1>5. OfGuardian(f) => guardian' = f.value
  BY DEF Kept, Current, Same
<1>6. OfFrozen(f) => frozen' = f.value
  BY DEF Kept, Current, Same
<1>7. \A k \in PaymentKey : OfPayment(f, k) => TermsOf(k)' = f.value
  BY DEF Kept, Current, Same
<1> QED BY <1>1, <1>2, <1>3, <1>4, <1>5, <1>6, <1>7 DEF Current

\* A setting makes the last event about its subject one that is to come.
LEMMA EmittedInv ==
  ASSUME TableInv, NEW e \in PolicyEvent, Emit(e), Kept(e), Current(e)', now' = now,
         limits' \in [Token -> SpendLimit], DOMAIN policies' = PaymentKey,
         \A k \in PaymentKey : policies'[k] \in PaymentPolicy
  PROVE  TableInv'
<1>1. /\ log' = Append(log, e) /\ rows' = rows /\ at' = at /\ stored' = stored
      /\ log \in Seq(PolicyEvent) /\ Len(log) \in Nat /\ at \in 0..Len(log) /\ stored \in 0..at
  BY DEF Emit, database, TableInv
<1>2. /\ log' \in Seq(PolicyEvent) /\ Len(log') = Len(log) + 1 /\ log'[Len(log) + 1] = e
      /\ \A j \in DOMAIN log : log'[j] = log[j]
      /\ DOMAIN log' = DOMAIN log \cup {Len(log) + 1} /\ DOMAIN log = 1..Len(log)
  BY <1>1
<1>3. Len(log) + 1 \in ToCome' /\ ToCome \subseteq ToCome' /\ ToCome \subseteq DOMAIN log
  BY <1>1, <1>2 DEF ToCome
<1>4. LastIsCurrent'
  <2>1. ASSUME NEW k \in DOMAIN log', \A j \in DOMAIN log' : j > k => ~Same(log'[j], log'[k])
        PROVE  Current(log[k])'
    <3>1. PICK f : f = log'[k]
      OBVIOUS
    <3>2. CASE k = Len(log) + 1
      BY <3>2, <1>2
    <3>3. CASE k \in DOMAIN log
      <4>1. f = log[k] /\ \A j \in DOMAIN log : j > k => ~Same(log[j], f)
        BY <3>1, <3>3, <2>1, <1>2
      <4>2. Current(f)
        BY <4>1, <3>3 DEF TableInv, LastIsCurrent
      <4>3. ~Same(e, f)
        BY <3>1, <3>3, <2>1, <1>2, <1>1
      <4>4. Current(f)'
        BY <4>2, <4>3, CurrentKept
      <4> QED BY <4>4, <3>1
    <3> QED BY <3>2, <3>3, <1>2
  <2> QED BY <2>1 DEF LastIsCurrent
<1>5. \A type, token, target, selector, default :
        Shown(type, token, target, selector, default)' = Shown(type, token, target, selector, default)
  BY <1>1 DEF Shown, Has
<1>7. ASSUME NEW t \in Token, \A j \in ToCome' : ~OfToken(log'[j], t)
      PROVE  Shown("spend_limit", t, NoAddress, NoSelector, 0)' = limits'[t].maxPerDay
  <2>1. ~OfToken(e, t) /\ \A j \in ToCome : ~OfToken(log[j], t)
    BY <1>7, <1>2, <1>3
  <2> QED BY <2>1, <1>5 DEF Kept, TableInv, RowsShown
<1>8. ASSUME NEW t \in Target, \A j \in ToCome' : ~OfTarget(log'[j], t)
      PROVE  Shown("target_allowlist", NoAddress, t, NoSelector, FALSE)' = (t \in allowedTargets')
  <2>1. ~OfTarget(e, t) /\ \A j \in ToCome : ~OfTarget(log[j], t)
    BY <1>8, <1>2, <1>3
  <2>2. Shown("target_allowlist", NoAddress, t, NoSelector, FALSE) = (t \in allowedTargets)
    BY <2>1 DEF TableInv, RowsShown
  <2>3. (t \in allowedTargets') = (t \in allowedTargets)
    BY <2>1 DEF Kept
  <2>4. Shown("target_allowlist", NoAddress, t, NoSelector, FALSE)'
          = Shown("target_allowlist", NoAddress, t, NoSelector, FALSE)
    BY <1>1 DEF Shown, Has
  <2> QED BY <2>2, <2>3, <2>4
<1>9. ASSUME NEW t \in Target, NEW s \in Selectors, \A j \in ToCome' : ~OfFunction(log'[j], t, s)
      PROVE  Shown("function_allowlist", NoAddress, t, s, FALSE)' = (<<t, s>> \in allowedFunctions')
  <2>1. ~OfFunction(e, t, s) /\ \A j \in ToCome : ~OfFunction(log[j], t, s)
    BY <1>9, <1>2, <1>3
  <2>2. Shown("function_allowlist", NoAddress, t, s, FALSE) = (<<t, s>> \in allowedFunctions)
    BY <2>1 DEF TableInv, RowsShown
  <2>3. (<<t, s>> \in allowedFunctions') = (<<t, s>> \in allowedFunctions)
    BY <2>1 DEF Kept
  <2>4. Shown("function_allowlist", NoAddress, t, s, FALSE)'
          = Shown("function_allowlist", NoAddress, t, s, FALSE)
    BY <1>1 DEF Shown, Has
  <2> QED BY <2>2, <2>3, <2>4
<1>10. ASSUME \A j \in ToCome' : ~OfMode(log'[j])
       PROVE  Shown("function_allowlist_mode", NoAddress, NoAddress, NoSelector, FALSE)'
                = usesFunctionAllowlist'
  <2>1. ~OfMode(e) /\ \A j \in ToCome : ~OfMode(log[j])
    BY <1>10, <1>2, <1>3
  <2>2. Shown("function_allowlist_mode", NoAddress, NoAddress, NoSelector, FALSE) = usesFunctionAllowlist
    BY <2>1 DEF TableInv, RowsShown
  <2>3. usesFunctionAllowlist' = usesFunctionAllowlist
    BY <2>1 DEF Kept
  <2>4. Shown("function_allowlist_mode", NoAddress, NoAddress, NoSelector, FALSE)'
          = Shown("function_allowlist_mode", NoAddress, NoAddress, NoSelector, FALSE)
    BY <1>1 DEF Shown, Has
  <2> QED BY <2>2, <2>3, <2>4
<1>11. ASSUME \A j \in ToCome' : ~OfFrozen(log'[j])
       PROVE  Shown("account_frozen", NoAddress, NoAddress, NoSelector, FALSE)' = frozen'
  <2>1. ~OfFrozen(e) /\ \A j \in ToCome : ~OfFrozen(log[j])
    BY <1>11, <1>2, <1>3
  <2>2. Shown("account_frozen", NoAddress, NoAddress, NoSelector, FALSE) = frozen
    BY <2>1 DEF TableInv, RowsShown
  <2>3. frozen' = frozen
    BY <2>1 DEF Kept
  <2>4. Shown("account_frozen", NoAddress, NoAddress, NoSelector, FALSE)'
          = Shown("account_frozen", NoAddress, NoAddress, NoSelector, FALSE)
    BY <1>1 DEF Shown, Has
  <2> QED BY <2>2, <2>3, <2>4
<1>12. ASSUME \A j \in ToCome' : ~OfGuardian(log'[j]), guardian' # NoGuardian
       PROVE  Has("policies", <<"guardian", NoAddress, guardian, NoSelector>>)'
  <2>1. ~OfGuardian(e) /\ \A j \in ToCome : ~OfGuardian(log[j])
    BY <1>12, <1>2, <1>3
  <2> QED BY <2>1, <1>1, <1>12 DEF Kept, Has, TableInv, RowsShown
<1>13. RowsShown'
  BY <1>7, <1>8, <1>9, <1>10, <1>11, <1>12 DEF RowsShown
<1>14. PaymentsShown'
  <2>1. ASSUME NEW key \in DOMAIN rows["policies"], key[1] = "signed_payment_policy"
        PROVE  \E k \in PaymentKey :
                 /\ key = PaymentRow(k) /\ rows["policies"][key][1] = k
                 /\ (\A j \in ToCome' : ~OfPayment(log'[j], k)) => rows["policies"][key][2] = TermsOf(k)'
    <3>1. PICK k \in PaymentKey :
            /\ key = PaymentRow(k) /\ rows["policies"][key][1] = k
            /\ (\A j \in ToCome : ~OfPayment(log[j], k)) => rows["policies"][key][2] = TermsOf(k)
      BY <2>1 DEF TableInv, PaymentsShown
    <3>2. ASSUME \A j \in ToCome' : ~OfPayment(log'[j], k)
          PROVE  rows["policies"][key][2] = TermsOf(k)'
      <4>1. ~OfPayment(e, k) /\ \A j \in ToCome : ~OfPayment(log[j], k)
        BY <3>2, <1>2, <1>3
      <4> QED BY <4>1, <3>1 DEF Kept
    <3> QED BY <3>1, <3>2
  <2> QED BY <2>1, <1>1 DEF PaymentsShown, PaymentRow
<1>15. at' \in 0..Len(log') /\ stored' \in 0..at' /\ "policies" \in DOMAIN rows' /\ now' \in Nat
  BY <1>1, <1>2 DEF TableInv
<1> QED BY <1>2, <1>4, <1>13, <1>14, <1>15 DEF TableInv

\* Every setter emits the event that says what it set.
LEMMA SettingInv ==
  ASSUME TableInv, Setting, now' = now
  PROVE  TableInv'
<1> USE DEF Kept, Current, OfToken, OfTarget, OfFunction, OfMode, OfGuardian, OfFrozen, OfPayment,
            TermsOf, PolicyEvent
<1>1. /\ limits \in [Token -> SpendLimit] /\ DOMAIN policies = PaymentKey
      /\ \A k \in PaymentKey : policies[k] \in PaymentPolicy
      /\ now \in Nat
  BY DEF TableInv
<1>2. ASSUME NEW t \in Token, NEW max \in Maximum, SetSpendLimit(t, max),
             Emit([type |-> "SpendLimitSet", token |-> t, value |-> max])
      PROVE  TableInv'
  <2> DEFINE e == [type |-> "SpendLimitSet", token |-> t, value |-> max]
  <2>1. /\ limits' = [limits EXCEPT ![t].maxPerDay = max]
        /\ UNCHANGED <<settings, policies, frozen>>
    BY <1>2 DEF SetSpendLimit
  <2>2. max \in Nat
    BY PolicyAssumption
  <2>3. limits' \in [Token -> SpendLimit]
    BY <2>1, <2>2, <1>1 DEF SpendLimit
  <2>4. Kept(e)
    BY <2>1, <1>1 DEF settings, SpendLimit
  <2>5. Current(e)'
    BY <2>1, <1>1 DEF SpendLimit
  <2>6. e \in PolicyEvent
    OBVIOUS
  <2>7. DOMAIN policies' = PaymentKey /\ \A k \in PaymentKey : policies'[k] \in PaymentPolicy
    BY <1>1, <2>1
  <2> HIDE DEF e
  <2>8. Emit(e)
    BY <1>2 DEF e
  <2> QED BY <2>3, <2>4, <2>5, <2>6, <2>7, <2>8, EmittedInv
<1>3. ASSUME NEW t \in Target, NEW a \in BOOLEAN, SetTargetAllowed(t, a),
             Emit([type |-> "TargetAllowlistUpdated", target |-> t, value |-> a])
      PROVE  TableInv'
  <2> DEFINE e == [type |-> "TargetAllowlistUpdated", target |-> t, value |-> a]
  <2>1. /\ allowedTargets' = IF a THEN allowedTargets \cup {t} ELSE allowedTargets \ {t}
        /\ UNCHANGED <<limits, allowedFunctions, usesFunctionAllowlist, guardian, frozen, policies>>
    BY <1>3 DEF SetTargetAllowed
  <2>4. Kept(e)
    BY <2>1, <1>1
  <2>5. Current(e)'
    BY <2>1, <1>1
  <2>6. e \in PolicyEvent
    OBVIOUS
  <2>7. /\ DOMAIN policies' = PaymentKey /\ \A k \in PaymentKey : policies'[k] \in PaymentPolicy
        /\ limits' \in [Token -> SpendLimit]
    BY <1>1, <2>1
  <2> HIDE DEF e
  <2>8. Emit(e)
    BY <1>3 DEF e
  <2> QED BY <2>4, <2>5, <2>6, <2>7, <2>8, EmittedInv
<1>4. ASSUME NEW t \in Target, NEW s \in Selectors, NEW a \in BOOLEAN, SetFunctionAllowed(t, s, a),
             Emit([type |-> "FunctionAllowlistUpdated", target |-> t, selector |-> s, value |-> a])
      PROVE  TableInv'
  <2> DEFINE e == [type |-> "FunctionAllowlistUpdated", target |-> t, selector |-> s, value |-> a]
  <2>1. /\ allowedFunctions' = IF a THEN allowedFunctions \cup {<<t, s>>} ELSE allowedFunctions \ {<<t, s>>}
        /\ UNCHANGED <<limits, allowedTargets, usesFunctionAllowlist, guardian, frozen, policies>>
    BY <1>4 DEF SetFunctionAllowed
  <2>4. Kept(e)
    BY <2>1, <1>1
  <2>5. Current(e)'
    BY <2>1, <1>1
  <2>6. e \in PolicyEvent
    OBVIOUS
  <2>7. /\ DOMAIN policies' = PaymentKey /\ \A k \in PaymentKey : policies'[k] \in PaymentPolicy
        /\ limits' \in [Token -> SpendLimit]
    BY <1>1, <2>1
  <2> HIDE DEF e
  <2>8. Emit(e)
    BY <1>4 DEF e
  <2> QED BY <2>4, <2>5, <2>6, <2>7, <2>8, EmittedInv
<1>5. ASSUME NEW b \in BOOLEAN, SetUseFunctionAllowlist(b),
             Emit([type |-> "FunctionAllowlistModeUpdated", value |-> b])
      PROVE  TableInv'
  <2> DEFINE e == [type |-> "FunctionAllowlistModeUpdated", value |-> b]
  <2>1. /\ usesFunctionAllowlist' = b
        /\ UNCHANGED <<limits, allowedTargets, allowedFunctions, guardian, frozen, policies>>
    BY <1>5 DEF SetUseFunctionAllowlist
  <2>4. Kept(e)
    BY <2>1, <1>1
  <2>5. Current(e)'
    BY <2>1, <1>1
  <2>6. e \in PolicyEvent
    OBVIOUS
  <2>7. /\ DOMAIN policies' = PaymentKey /\ \A k \in PaymentKey : policies'[k] \in PaymentPolicy
        /\ limits' \in [Token -> SpendLimit]
    BY <1>1, <2>1
  <2> HIDE DEF e
  <2>8. Emit(e)
    BY <1>5 DEF e
  <2> QED BY <2>4, <2>5, <2>6, <2>7, <2>8, EmittedInv
<1>6. ASSUME NEW g \in Guardian \cup {NoGuardian}, SetGuardian(g),
             Emit([type |-> "GuardianSet", value |-> g])
      PROVE  TableInv'
  <2> DEFINE e == [type |-> "GuardianSet", value |-> g]
  <2>1. /\ guardian' = g
        /\ UNCHANGED <<limits, allowedTargets, allowedFunctions, usesFunctionAllowlist, frozen, policies>>
    BY <1>6 DEF SetGuardian
  <2>4. Kept(e)
    BY <2>1, <1>1
  <2>5. Current(e)'
    BY <2>1, <1>1
  <2>6. e \in PolicyEvent
    OBVIOUS
  <2>7. /\ DOMAIN policies' = PaymentKey /\ \A k \in PaymentKey : policies'[k] \in PaymentPolicy
        /\ limits' \in [Token -> SpendLimit]
    BY <1>1, <2>1
  <2> HIDE DEF e
  <2>8. Emit(e)
    BY <1>6 DEF e
  <2> QED BY <2>4, <2>5, <2>6, <2>7, <2>8, EmittedInv
<1>7. ASSUME NEW b \in BOOLEAN, SetAccountFrozen(b), Emit([type |-> "AccountFrozen", value |-> b])
      PROVE  TableInv'
  <2> DEFINE e == [type |-> "AccountFrozen", value |-> b]
  <2>1. frozen' = b /\ UNCHANGED <<limits, settings, policies>>
    BY <1>7 DEF SetAccountFrozen
  <2>4. Kept(e)
    BY <2>1, <1>1 DEF settings
  <2>5. Current(e)'
    BY <2>1, <1>1
  <2>6. e \in PolicyEvent
    OBVIOUS
  <2>7. /\ DOMAIN policies' = PaymentKey /\ \A k \in PaymentKey : policies'[k] \in PaymentPolicy
        /\ limits' \in [Token -> SpendLimit]
    BY <1>1, <2>1
  <2> HIDE DEF e
  <2>8. Emit(e)
    BY <1>7 DEF e
  <2> QED BY <2>4, <2>5, <2>6, <2>7, <2>8, EmittedInv
<1>8. ASSUME NEW k \in PaymentKey, NEW terms \in PaymentTerms,
             SetPaymentPolicy(k, terms[1], terms[2], terms[3]),
             Emit([type |-> "PaymentPolicySet", paymentKey |-> k, value |-> terms])
      PROVE  TableInv'
  <2> DEFINE e == [type |-> "PaymentPolicySet", paymentKey |-> k, value |-> terms]
  <2>1. /\ policies' = [policies EXCEPT ![k] =
             [maxPerPayment |-> terms[1], maxPerDay |-> terms[2], spentToday |-> @.spentToday,
              lastReset |-> IF @.lastReset = 0 THEN now ELSE @.lastReset, allowed |-> terms[3]]]
        /\ UNCHANGED <<limits, settings, frozen>>
    BY <1>8 DEF SetPaymentPolicy
  <2>2. /\ terms = <<terms[1], terms[2], terms[3]>>
        /\ terms[1] \in Nat /\ terms[2] \in Nat /\ terms[3] \in BOOLEAN
    BY MirrorAssumption
  <2>3. /\ DOMAIN policies' = PaymentKey
        /\ policies'[k].maxPerPayment = terms[1] /\ policies'[k].maxPerDay = terms[2]
        /\ policies'[k].allowed = terms[3]
        /\ \A j \in PaymentKey : j # k => policies'[j] = policies[j]
    BY <2>1, <1>1
  <2>4. Kept(e)
    BY <2>1, <2>3, <1>1 DEF settings
  <2>5. Current(e)'
    <3>1. TermsOf(k)' = terms
      BY <2>2, <2>3
    <3> QED BY <3>1
  <2>6. e \in PolicyEvent
    OBVIOUS
  <2>7. \A j \in PaymentKey : policies'[j] \in PaymentPolicy
    <3>1. policies'[k] \in PaymentPolicy
      BY <2>1, <2>2, <1>1 DEF PaymentPolicy
    <3> QED BY <3>1, <2>3, <1>1
  <2> HIDE DEF e
  <2>8. Emit(e)
    BY <1>8 DEF e
  <2>9. limits' \in [Token -> SpendLimit]
    BY <1>1, <2>1
  <2> QED BY <2>3, <2>4, <2>5, <2>6, <2>7, <2>8, <2>9, EmittedInv
<1> QED BY <1>2, <1>3, <1>4, <1>5, <1>6, <1>7, <1>8 DEF Setting

\* What holds of the table holds of it if less was handled, whatever was spent.
LEMMA RewoundInv ==
  ASSUME TableInv, now' = now, rows' = rows, log' = log, at' \in 0..at, stored' \in 0..at',
         limits' \in [Token -> SpendLimit], \A t \in Token : limits'[t].maxPerDay = limits[t].maxPerDay,
         UNCHANGED <<settings, frozen, policies>>
  PROVE  TableInv'
<1>1. /\ allowedTargets' = allowedTargets /\ allowedFunctions' = allowedFunctions
      /\ usesFunctionAllowlist' = usesFunctionAllowlist /\ guardian' = guardian /\ frozen' = frozen
      /\ policies' = policies
  BY DEF settings
<1>2. at \in 0..Len(log) /\ Len(log) \in Nat /\ at' \in 0..Len(log)
  BY DEF TableInv
<1>3. ToCome \subseteq ToCome'
  BY <1>2 DEF ToCome
<1>4. LastIsCurrent'
  BY <1>1 DEF TableInv, LastIsCurrent, Current, TermsOf
<1>5. RowsShown'
  <2>1. \A t \in Token : (\A j \in ToCome' : ~OfToken(log[j], t)) =>
          Shown("spend_limit", t, NoAddress, NoSelector, 0)' = limits'[t].maxPerDay
    BY <1>3 DEF TableInv, RowsShown, Shown, Has
  <2>2. \A t \in Target : (\A j \in ToCome' : ~OfTarget(log[j], t)) =>
          Shown("target_allowlist", NoAddress, t, NoSelector, FALSE)' = (t \in allowedTargets)
    BY <1>3 DEF TableInv, RowsShown, Shown, Has
  <2>3. \A t \in Target, s \in Selectors : (\A j \in ToCome' : ~OfFunction(log[j], t, s)) =>
          Shown("function_allowlist", NoAddress, t, s, FALSE)' = (<<t, s>> \in allowedFunctions)
    BY <1>3 DEF TableInv, RowsShown, Shown, Has
  <2>4. (\A j \in ToCome' : ~OfMode(log[j])) =>
          Shown("function_allowlist_mode", NoAddress, NoAddress, NoSelector, FALSE)'
            = usesFunctionAllowlist
    BY <1>3 DEF TableInv, RowsShown, Shown, Has
  <2>5. (\A j \in ToCome' : ~OfFrozen(log[j])) =>
          Shown("account_frozen", NoAddress, NoAddress, NoSelector, FALSE)' = frozen
    BY <1>3 DEF TableInv, RowsShown, Shown, Has
  <2>6. (\A j \in ToCome' : ~OfGuardian(log[j])) /\ guardian # NoGuardian =>
          Has("policies", <<"guardian", NoAddress, guardian, NoSelector>>)'
    BY <1>1, <1>3 DEF TableInv, RowsShown, Has
  <2> QED BY <1>1, <2>1, <2>2, <2>3, <2>4, <2>5, <2>6 DEF RowsShown
<1>6. PaymentsShown'
  <2>1. \A k \in PaymentKey : TermsOf(k)' = TermsOf(k)
    BY <1>1 DEF TermsOf
  <2>2. ASSUME NEW key \in DOMAIN rows["policies"], key[1] = "signed_payment_policy"
        PROVE  \E k \in PaymentKey :
                 /\ key = PaymentRow(k) /\ rows["policies"][key][1] = k
                 /\ (\A j \in ToCome' : ~OfPayment(log[j], k)) => rows["policies"][key][2] = TermsOf(k)
    BY <2>2, <1>3 DEF TableInv, PaymentsShown
  <2> QED BY <2>1, <2>2 DEF PaymentsShown, PaymentRow
<1> QED BY <1>1, <1>2, <1>4, <1>5, <1>6 DEF TableInv

\* Spending changes no row and nothing a row shows.
LEMMA SpendingInv ==
  ASSUME TableInv, Spending, now' = now
  PROVE  TableInv'
<1>1. PICK t \in Token, a \in Amount : RecordSpendDirectly(t, a)
  BY DEF Spending
<1>2. /\ limits \in [Token -> SpendLimit] /\ now \in Nat /\ a \in Nat
      /\ at \in 0..Len(log) /\ stored \in 0..at
  BY PolicyAssumption DEF TableInv
<1>3. /\ limits' = RecordSpend(limits, t, a) /\ UNCHANGED <<settings, frozen, policies>>
      /\ rows' = rows /\ log' = log /\ at' = at /\ stored' = stored
  BY <1>1 DEF RecordSpendDirectly, Spending, loopVars, database
<1>4. Charge(limits[t], a) \in SpendLimit /\ Charge(limits[t], a).maxPerDay = limits[t].maxPerDay
  <2>1. limits[t] \in SpendLimit
    BY <1>2
  <2>2. Spent(limits[t]) + a \in Nat
    BY <2>1, <1>2 DEF Spent, SpendLimit
  <2>3. (IF WindowOver(limits[t]) THEN now ELSE limits[t].lastReset) \in Nat
    BY <2>1, <1>2 DEF SpendLimit
  <2> QED BY <2>1, <2>2, <2>3 DEF Charge, SpendLimit
<1>5. /\ limits' \in [Token -> SpendLimit]
      /\ \A u \in Token : limits'[u].maxPerDay = limits[u].maxPerDay
  <2>1. CASE limits[t].maxPerDay = 0
    BY <2>1, <1>2, <1>3 DEF RecordSpend
  <2>2. CASE limits[t].maxPerDay # 0
    <3>1. limits' = [limits EXCEPT ![t] = Charge(limits[t], a)]
      BY <2>2, <1>3 DEF RecordSpend
    <3> QED BY <3>1, <1>2, <1>4
  <2> QED BY <2>1, <2>2
<1>6. at' \in 0..at /\ stored' \in 0..at'
  BY <1>2, <1>3 DEF TableInv
<1> QED BY <1>3, <1>5, <1>6, RewoundInv

\* The rows are stored below the event handled, and a crash handles those between again.
LEMMA LoopInv ==
  ASSUME TableInv, Store \/ Crash, UNCHANGED <<now, moduleVars>>
  PROVE  TableInv'
<1>1. /\ at' \in 0..at /\ stored' \in 0..at' /\ rows' = rows /\ log' = log
  BY DEF TableInv, Store, Crash
<1>2. limits \in [Token -> SpendLimit] /\ UNCHANGED <<limits, settings, frozen, policies, now>>
  BY DEF TableInv, moduleVars
<1> QED BY <1>1, <1>2, RewoundInv

\* No row, no event, nothing set.
LEMMA FirstTable == GatewayInit => TableInv
<1> SUFFICES ASSUME GatewayInit PROVE TableInv
  OBVIOUS
<1>1. /\ now = Day /\ log = << >> /\ rows = [t \in {"policies"} |-> NoRows] /\ at = 0 /\ stored = 0
      /\ limits = [t \in Token |-> [maxPerDay |-> 0, spentToday |-> 0, lastReset |-> 0]]
      /\ policies = [k \in PaymentKey |->
           [maxPerPayment |-> 0, maxPerDay |-> 0, spentToday |-> 0, lastReset |-> 0, allowed |-> FALSE]]
      /\ allowedTargets = {} /\ allowedFunctions = {} /\ usesFunctionAllowlist = FALSE
      /\ guardian = NoGuardian /\ frozen = FALSE
  BY DEF GatewayInit, MirrorInit, ModuleInit, LoopInit
<1>2. now \in Nat
  BY <1>1, PolicyAssumption
<1>3. limits \in [Token -> SpendLimit] /\ \A t \in Token : limits[t].maxPerDay = 0
  BY <1>1 DEF SpendLimit
<1>4. DOMAIN policies = PaymentKey /\ \A k \in PaymentKey : policies[k] \in PaymentPolicy
  BY <1>1 DEF PaymentPolicy
<1>5. log \in Seq(PolicyEvent) /\ Len(log) = 0 /\ DOMAIN log = {}
  BY <1>1
<1>6. "policies" \in DOMAIN rows /\ DOMAIN rows["policies"] = {}
  BY <1>1 DEF NoRows
<1>7. RowsShown
  <2>1. \A type, token, target, selector : ~Has("policies", <<type, token, target, selector>>)
    BY <1>6 DEF Has
  <2>2. \A t \in Token : Shown("spend_limit", t, NoAddress, NoSelector, 0) = limits[t].maxPerDay
    BY <2>1, <1>3 DEF Shown
  <2>3. \A t \in Target : Shown("target_allowlist", NoAddress, t, NoSelector, FALSE) = (t \in allowedTargets)
    <3>1. \A t : Shown("target_allowlist", NoAddress, t, NoSelector, FALSE) = FALSE
      BY <2>1 DEF Shown
    <3>2. \A t : (t \in allowedTargets) = FALSE
      BY <1>1
    <3> QED BY <3>1, <3>2
  <2>4. \A t \in Target, s \in Selectors :
          Shown("function_allowlist", NoAddress, t, s, FALSE) = (<<t, s>> \in allowedFunctions)
    <3>1. \A t, s : Shown("function_allowlist", NoAddress, t, s, FALSE) = FALSE
      BY <2>1 DEF Shown
    <3>2. \A t, s : (<<t, s>> \in allowedFunctions) = FALSE
      BY <1>1
    <3> QED BY <3>1, <3>2
  <2>5. Shown("function_allowlist_mode", NoAddress, NoAddress, NoSelector, FALSE) = usesFunctionAllowlist
    <3>1. Shown("function_allowlist_mode", NoAddress, NoAddress, NoSelector, FALSE) = FALSE
      BY <2>1 DEF Shown
    <3>2. usesFunctionAllowlist = FALSE
      BY <1>1
    <3> QED BY <3>1, <3>2
  <2>6. Shown("account_frozen", NoAddress, NoAddress, NoSelector, FALSE) = frozen
    <3>1. Shown("account_frozen", NoAddress, NoAddress, NoSelector, FALSE) = FALSE
      BY <2>1 DEF Shown
    <3>2. frozen = FALSE
      BY <1>1
    <3> QED BY <3>1, <3>2
  <2> QED BY <2>2, <2>3, <2>4, <2>5, <2>6, <1>1 DEF RowsShown
<1>8. LastIsCurrent /\ PaymentsShown
  BY <1>5, <1>6 DEF LastIsCurrent, PaymentsShown
<1> QED BY <1>1, <1>2, <1>3, <1>4, <1>5, <1>6, <1>7, <1>8 DEF TableInv

\* The mirror's steps and the gateway's.
LEMMA TableNext == TableInv /\ [GatewayNext]_gatewayVars => TableInv'
<1> SUFFICES ASSUME TableInv, [GatewayNext]_gatewayVars PROVE TableInv'
  OBVIOUS
<1>1. CASE MirrorNext
  <2>1. CASE Setting /\ now' = now
    BY <2>1, SettingInv
  <2>2. CASE Spending /\ now' = now
    BY <2>2, SpendingInv
  <2>3. CASE Handler /\ UNCHANGED <<now, moduleVars, log, stored, crashes>>
    BY <2>3, HandledInv
  <2>4. CASE (Store \/ Crash) /\ UNCHANGED <<now, moduleVars>>
    BY <2>4, LoopInv
  <2> QED BY <1>1, <2>1, <2>2, <2>3, <2>4 DEF MirrorNext, Chain
<1>2. CASE UNCHANGED mirrorVars
  <2>1. /\ UNCHANGED <<now, limits, settings, frozen, policies>>
        /\ log' = log /\ rows' = rows /\ at' = at /\ stored' = stored
    BY <1>2 DEF mirrorVars, moduleVars, loopVars, database
  <2>2. at' \in 0..at /\ stored' \in 0..at' /\ limits \in [Token -> SpendLimit]
    BY <2>1 DEF TableInv
  <2> QED BY <2>1, <2>2, RewoundInv
<1> QED BY <1>1, <1>2 DEF GatewayNext, gatewayVars

\* The rows say of every setting what the contract says of it, whenever the loop
\* has caught up: for every account, whatever was set, set again, spent, and
\* replayed after a crash.
THEOREM AlwaysPoliciesShown == GatewaySpec => []PoliciesShown
<1>1. TableInv => PoliciesShown
  <2> SUFFICES ASSUME TableInv, CaughtUp PROVE PoliciesShown
    BY DEF PoliciesShown
  <2>1. ToCome = {}
    BY DEF CaughtUp, ToCome, TableInv
  <2>2. \A t \in Token : Shown("spend_limit", t, NoAddress, NoSelector, 0) = limits[t].maxPerDay
    BY <2>1 DEF TableInv, RowsShown
  <2>3. \A t \in Target : Shown("target_allowlist", NoAddress, t, NoSelector, FALSE) = (t \in allowedTargets)
    BY <2>1 DEF TableInv, RowsShown
  <2>4. \A t \in Target, s \in Selectors :
          Shown("function_allowlist", NoAddress, t, s, FALSE) = (<<t, s>> \in allowedFunctions)
    BY <2>1 DEF TableInv, RowsShown
  <2>5. Shown("function_allowlist_mode", NoAddress, NoAddress, NoSelector, FALSE) = usesFunctionAllowlist
    BY <2>1 DEF TableInv, RowsShown
  <2>6. Shown("account_frozen", NoAddress, NoAddress, NoSelector, FALSE) = frozen
    BY <2>1 DEF TableInv, RowsShown
  <2>7. guardian # NoGuardian => Has("policies", <<"guardian", NoAddress, guardian, NoSelector>>)
    BY <2>1 DEF TableInv, RowsShown
  <2>8. ASSUME NEW key \in DOMAIN rows["policies"], key[1] = "signed_payment_policy"
        PROVE  rows["policies"][key][2] = TermsOf(rows["policies"][key][1])
    BY <2>1, <2>8 DEF TableInv, PaymentsShown
  <2>9. ASSUME NEW key \in DOMAIN rows["policies"], key[1] = "signed_payment_policy"
        PROVE  LET row == rows["policies"][key]
                   p == policies[row[1]]
               IN  row[2] = <<p.maxPerPayment, p.maxPerDay, p.allowed>>
    BY <2>8, <2>9 DEF TermsOf
  <2> QED BY <2>2, <2>3, <2>4, <2>5, <2>6, <2>7, <2>9 DEF PoliciesShown
<1> QED BY <1>1, FirstTable, TableNext, PTL DEF GatewaySpec

\* With the rows right, the preflight asks of the contract's settings.
LEMMA PreflightIs ==
  ASSUME TableInv, CaughtUp, NEW call \in PreflightCalls
  PROVE  /\ \A t \in Token, amount \in Nat :
              BelowSpendLimit(t, amount) <=> (limits[t].maxPerDay # 0 => amount <= limits[t].maxPerDay)
         /\ FunctionListed(call) <=>
              (usesFunctionAllowlist /\ PreflightSelector(call) # NoSelector =>
                 <<call.target, call.selector>> \in allowedFunctions)
         /\ Shown("account_frozen", NoAddress, NoAddress, NoSelector, FALSE) = frozen
         /\ Shown("target_allowlist", NoAddress, call.target, NoSelector, FALSE)
              = (call.target \in allowedTargets)
<1>1. ToCome = {}
  BY DEF CaughtUp, ToCome, TableInv
<1>2. \A t \in Token : Shown("spend_limit", t, NoAddress, NoSelector, 0) = limits[t].maxPerDay
  BY <1>1 DEF TableInv, RowsShown
<1>3. call.target \in Target /\ call.selector \in Selectors \cup {"none"}
  BY GatewayAssumption
<1>4. Shown("target_allowlist", NoAddress, call.target, NoSelector, FALSE) = (call.target \in allowedTargets)
  BY <1>1, <1>3 DEF TableInv, RowsShown
<1>5. \A s \in Selectors :
        Shown("function_allowlist", NoAddress, call.target, s, FALSE)
          = (<<call.target, s>> \in allowedFunctions)
  BY <1>1, <1>3 DEF TableInv, RowsShown
<1>6. Shown("function_allowlist_mode", NoAddress, NoAddress, NoSelector, FALSE) = usesFunctionAllowlist
  BY <1>1 DEF TableInv, RowsShown
<1>7. Shown("account_frozen", NoAddress, NoAddress, NoSelector, FALSE) = frozen
  BY <1>1 DEF TableInv, RowsShown
<1>8. PreflightSelector(call) # NoSelector => call.selector \in Selectors
  BY <1>3 DEF PreflightSelector
<1>9. FunctionListed(call) <=>
        (usesFunctionAllowlist /\ PreflightSelector(call) # NoSelector =>
           <<call.target, call.selector>> \in allowedFunctions)
  BY <1>5, <1>6, <1>8 DEF FunctionListed
<1>10. \A t \in Token, amount \in Nat :
         BelowSpendLimit(t, amount) <=> (limits[t].maxPerDay # 0 => amount <= limits[t].maxPerDay)
  BY <1>2 DEF BelowSpendLimit
<1> QED BY <1>4, <1>7, <1>9, <1>10

\* Once the loop has caught up, the preflight says yes only to a call the
\* contract accepts, of an account that spent nothing today, and no only to one
\* it refuses or an NFT transfer it takes for a spend: for any settings, however
\* they came about.
THEOREM PreflightAlwaysAgrees == GatewaySpec => []PreflightAgrees
<1>1. TableInv => PreflightAgrees
  <2> SUFFICES ASSUME TableInv, CaughtUp, NEW call \in PreflightCalls
               PROVE  /\ Preflight(call) /\ (\A t \in Tokens(call) : Spent(limits[t]) = 0)
                           /\ call.selector # NoSelector
                         => CheckTransaction(call)
                      /\ CheckTransaction(call) => Preflight(call) \/ Overstated(call)
    BY DEF PreflightAgrees
  <2>1. /\ call.target \in Target /\ call.target \in Token /\ Native \in Token
        /\ call.value \in Nat /\ call.amount \in Nat
        /\ TokenSpend(call) \in Nat /\ DetectTokenSpend(call) \in Nat
    BY GatewayAssumption DEF Token, TokenSpend, DetectTokenSpend
  <2>2. \A t \in Token, amount \in Nat :
          BelowSpendLimit(t, amount) <=> (limits[t].maxPerDay # 0 => amount <= limits[t].maxPerDay)
    BY PreflightIs
  <2>3. FunctionListed(call) <=>
          (usesFunctionAllowlist /\ PreflightSelector(call) # NoSelector =>
             <<call.target, call.selector>> \in allowedFunctions)
    BY PreflightIs
  <2>4. /\ Shown("account_frozen", NoAddress, NoAddress, NoSelector, FALSE) = frozen
        /\ Shown("target_allowlist", NoAddress, call.target, NoSelector, FALSE)
             = (call.target \in allowedTargets)
    BY PreflightIs
  <2>5. \A t \in Token : limits[t].maxPerDay \in Nat /\ Spent(limits[t]) \in Nat
    BY DEF TableInv, Spent, SpendLimit
  <2>6. \A t \in Token, amount \in Nat :
          /\ WithinLimit(limits[t], amount) => BelowSpendLimit(t, amount)
          /\ Spent(limits[t]) = 0 /\ BelowSpendLimit(t, amount) => WithinLimit(limits[t], amount)
    BY <2>2, <2>5 DEF WithinLimit
  <2>7. ASSUME Preflight(call), \A t \in Tokens(call) : Spent(limits[t]) = 0, call.selector # NoSelector
        PROVE  CheckTransaction(call)
    <3>1. ~frozen /\ call.target \in allowedTargets
      BY <2>4, <2>7 DEF Preflight
    <3>2. usesFunctionAllowlist /\ call.selector # "none" =>
            <<call.target, call.selector>> \in allowedFunctions
      BY <2>3, <2>7 DEF Preflight, PreflightSelector
    <3>3. call.value > 0 => WithinLimit(limits[Native], call.value)
      BY <2>1, <2>6, <2>7 DEF Preflight, Tokens
    <3>4. TokenSpend(call) > 0 => WithinLimit(limits[call.target], TokenSpend(call))
      <4>1. TokenSpend(call) > 0 => TokenSpend(call) = DetectTokenSpend(call)
        BY DEF TokenSpend, DetectTokenSpend
      <4> QED BY <4>1, <2>1, <2>6, <2>7 DEF Preflight, Tokens
    <3> QED BY <3>1, <3>2, <3>3, <3>4 DEF CheckTransaction
  <2>8. ASSUME CheckTransaction(call), ~Overstated(call) PROVE Preflight(call)
    <3>1. /\ ~Shown("account_frozen", NoAddress, NoAddress, NoSelector, FALSE)
          /\ Shown("target_allowlist", NoAddress, call.target, NoSelector, FALSE)
      BY <2>4, <2>8 DEF CheckTransaction
    <3>2. FunctionListed(call)
      BY <2>3, <2>8 DEF CheckTransaction, PreflightSelector
    <3>3. BelowSpendLimit(Native, call.value)
      <4>1. CASE call.value = 0
        BY <4>1, <2>1, <2>2, <2>5
      <4>2. CASE call.value > 0
        BY <4>2, <2>1, <2>6, <2>8 DEF CheckTransaction
      <4> QED BY <4>1, <4>2, <2>1
    <3>4. BelowSpendLimit(call.target, DetectTokenSpend(call))
      <4>1. CASE call.selector \in NFTSelector
        BY <4>1, <2>8 DEF Overstated, DetectTokenSpend
      <4>2. CASE call.selector \notin NFTSelector
        <5>1. DetectTokenSpend(call) = TokenSpend(call)
          BY <4>2 DEF DetectTokenSpend, TokenSpend
        <5>2. CASE TokenSpend(call) = 0
          BY <5>1, <5>2, <2>1, <2>2, <2>5
        <5>3. CASE TokenSpend(call) > 0
          BY <5>1, <5>3, <2>1, <2>6, <2>8 DEF CheckTransaction
        <5> QED BY <5>2, <5>3, <2>1
      <4> QED BY <4>1, <4>2
    <3> QED BY <3>1, <3>2, <3>3, <3>4 DEF Preflight
  <2> QED BY <2>7, <2>8
<1> QED BY <1>1, FirstTable, TableNext, PTL DEF GatewaySpec
=============================================================================
