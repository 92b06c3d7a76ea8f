---------------------------- MODULE PolicyModule ----------------------------
(***************************************************************************)
(* contracts/src/PolicyModule.sol for one account: every mapping is keyed  *)
(* by msg.sender (or by the account it names), so the entries of two       *)
(* accounts never meet.  A limit has two halves that are updated apart:    *)
(* the maximum the account sets and the amount spent since lastReset.      *)
(*                                                                         *)
(* The clock counts fractions of a day, Day of them; it starts a day after *)
(* zero, since block.timestamp is that large wherever the code runs and a  *)
(* fresh lastResetTimestamp of 0 therefore always lies a day back.  Checked*)
(* arithmetic that would panic reverts, so it is a guard here.             *)
(***************************************************************************)
EXTENDS Naturals, Sequences, Sums

CONSTANTS
  Native,         \* address(0) as a token: the chain's own coin
  Target,         \* the contracts, tokens among them, the account may call
  Selector,       \* 4-byte selectors other than those of ERC-20 spends
  Guardian,       \* addresses that may be made guardian
  NoGuardian,     \* address(0) as a guardian
  PaymentKey,     \* triples of merchant, token and facilitator
  PaymentHash,    \* hashes of signed payments
  Amount,         \* amounts of a spend or payment, positive
  Maximum,        \* values of maxPerDay; 0 means no limit
  Day,            \* 1 days
  MaxTime         \* last value of the clock

ASSUME PolicyAssumption ==
  /\ Amount \subseteq Nat \ {0} /\ Maximum \subseteq Nat
  /\ Day \in Nat \ {0} /\ MaxTime \in Nat

Token == Target \cup {Native}
\* transfer, approve and transferFrom are one selector: the amount counts alike.
Selectors == Selector \cup {"erc20"}

VARIABLES
  now,                    \* block.timestamp
  limits,                 \* _spendLimits
  allowedTargets,         \* _allowedTargets
  allowedFunctions,       \* _allowedFunctions
  usesFunctionAllowlist,  \* _usesFunctionAllowlist
  guardian,               \* _guardians
  frozen,                 \* _frozenAccounts
  policies,               \* _paymentPolicies
  usedPaymentHashes,      \* _usedPaymentHashes
  peak,                   \* history: the largest maxPerDay each token ever had
  spends,                 \* history: the spends charged to a limit
  payments                \* history: the signed payments recorded

settings == <<allowedTargets, allowedFunctions, usesFunctionAllowlist, guardian>>
moduleVars == <<limits, settings, frozen, policies, usedPaymentHashes, peak, spends, payments>>

SpendLimit == [maxPerDay : Nat, spentToday : Nat, lastReset : Nat]
PaymentPolicy == [maxPerPayment : Nat, maxPerDay : Nat, spentToday : Nat,
                  lastReset : Nat, allowed : BOOLEAN]

ModuleInit ==
  /\ now = Day
  /\ limits = [t \in Token |-> [maxPerDay |-> 0, spentToday |-> 0, lastReset |-> 0]]
  /\ allowedTargets = {}
  /\ allowedFunctions = {}
  /\ usesFunctionAllowlist = FALSE
  /\ guardian = NoGuardian
  /\ frozen = FALSE
  /\ policies = [k \in PaymentKey |->
       [maxPerPayment |-> 0, maxPerDay |-> 0, spentToday |-> 0, lastReset |-> 0,
        allowed |-> FALSE]]
  /\ usedPaymentHashes = {}
  /\ peak = [t \in Token |-> 0]
  /\ spends = << >>
  /\ payments = << >>

Larger(m, n) == IF m >= n THEN m ELSE n

----------------------------------------------------------------------------
(* The window of a limit or of a payment policy.                           *)

\* Mutant of WindowOver: the length of the window forgotten.
MutantWindowOver(l) == now >= l.lastReset

WindowOver(l) == now >= l.lastReset + Day

\* What counts as spent already.
Spent(l) == IF WindowOver(l) THEN 0 ELSE l.spentToday

\* Mutant of Charge: the window moves on and the old spending stays.
MutantCharge(l, amount) ==
  [l EXCEPT !.spentToday = @ + amount, !.lastReset = IF WindowOver(l) THEN now ELSE @]

\* l with a new window begun if the old one is over, and amount spent in it.
Charge(l, amount) ==
  [l EXCEPT !.spentToday = Spent(l) + amount,
            !.lastReset = IF WindowOver(l) THEN now ELSE @]

\* Mutant of WithinLimit: what was spent already is forgotten.
MutantWithinLimit(l, amount) == l.maxPerDay # 0 => amount <= l.maxPerDay

\* The check of _checkSpendLimit and of recordSpend, which agree: a maximum
\* lowered under what is spent fails both (remaining underflows).
WithinLimit(l, amount) == l.maxPerDay # 0 => Spent(l) + amount <= l.maxPerDay

\* recordSpend returns early when there is no limit.
RecordSpend(ls, token, amount) ==
  IF ls[token].maxPerDay = 0 THEN ls ELSE [ls EXCEPT ![token] = Charge(@, amount)]

\* The spends recordSpend charges, as history.
Charged(ls, token, amount) ==
  IF ls[token].maxPerDay = 0 THEN << >>
  ELSE <<[token |-> token, amount |-> amount, time |-> now]>>

----------------------------------------------------------------------------
(* Configuration, with msg.sender the account.                             *)

SetSpendLimit(token, maxPerDay) ==
  /\ limits' = [limits EXCEPT ![token].maxPerDay = maxPerDay]
  /\ peak' = [peak EXCEPT ![token] = Larger(@, maxPerDay)]
  /\ UNCHANGED <<settings, frozen, policies, usedPaymentHashes, spends, payments>>

SetTargetAllowed(target, allowed) ==
  /\ allowedTargets' = IF allowed THEN allowedTargets \cup {target}
                       ELSE allowedTargets \ {target}
  /\ UNCHANGED <<limits, allowedFunctions, usesFunctionAllowlist, guardian, frozen,
                 policies, usedPaymentHashes, peak, spends, payments>>

SetFunctionAllowed(target, selector, allowed) ==
  /\ allowedFunctions' = IF allowed THEN allowedFunctions \cup {<<target, selector>>}
                         ELSE allowedFunctions \ {<<target, selector>>}
  /\ UNCHANGED <<limits, allowedTargets, usesFunctionAllowlist, guardian, frozen,
                 policies, usedPaymentHashes, peak, spends, payments>>

SetUseFunctionAllowlist(enabled) ==
  /\ usesFunctionAllowlist' = enabled
  /\ UNCHANGED <<limits, allowedTargets, allowedFunctions, guardian, frozen,
                 policies, usedPaymentHashes, peak, spends, payments>>

SetGuardian(g) ==
  /\ guardian' = g
  /\ UNCHANGED <<limits, allowedTargets, allowedFunctions, usesFunctionAllowlist, frozen,
                 policies, usedPaymentHashes, peak, spends, payments>>

\* Mutant of MayFreeze: anyone may.
MutantMayFreeze(sender) == TRUE

\* A sender other than the account.
MayFreeze(sender) == sender = guardian

SetAccountFrozen(value) ==
  /\ frozen' = value
  /\ UNCHANGED <<limits, settings, policies, usedPaymentHashes, peak, spends, payments>>

SetPaymentPolicy(key, maxPerPayment, maxPerDay, allowed) ==
  /\ policies' = [policies EXCEPT ![key] =
       [maxPerPayment |-> maxPerPayment, maxPerDay |-> maxPerDay, spentToday |-> @.spentToday,
        lastReset |-> IF @.lastReset = 0 THEN now ELSE @.lastReset, allowed |-> allowed]]
  /\ UNCHANGED <<limits, settings, frozen, usedPaymentHashes, peak, spends, payments>>

----------------------------------------------------------------------------
(* Enforcement.                                                            *)

\* The token and amount an ERC-20 spend moves; a call's amount is 0 otherwise.
TokenSpend(call) == IF call.selector = "erc20" THEN call.amount ELSE 0

\* Mutant of CheckTransaction: the frozen flag not looked at.
MutantCheckTransaction(call) ==
  /\ call.target \in allowedTargets
  /\ call.value > 0 => WithinLimit(limits[Native], call.value)
  /\ TokenSpend(call) > 0 => WithinLimit(limits[call.target], TokenSpend(call))

\* checkTransaction does not revert.  A selector "none" is calldata shorter
\* than four bytes, which the function allowlist lets pass.
CheckTransaction(call) ==
  /\ ~frozen
  /\ call.target \in allowedTargets
  /\ usesFunctionAllowlist /\ call.selector # "none" =>
       <<call.target, call.selector>> \in allowedFunctions
  /\ call.value > 0 => WithinLimit(limits[Native], call.value)
  /\ TokenSpend(call) > 0 => WithinLimit(limits[call.target], TokenSpend(call))

\* recordSpend called by hand.
RecordSpendDirectly(token, amount) ==
  /\ WithinLimit(limits[token], amount)
  /\ limits' = RecordSpend(limits, token, amount)
  /\ spends' = spends \o Charged(limits, token, amount)
  /\ UNCHANGED <<settings, frozen, policies, usedPaymentHashes, peak, payments>>

\* Mutant of FreshPayment: a used hash is not looked up.
MutantFreshPayment(hash) == TRUE

FreshPayment(hash) == hash \notin usedPaymentHashes

RecordSignedPayment(key, amount, hash) ==
  LET p == policies[key] IN
  /\ ~frozen
  /\ FreshPayment(hash)
  /\ p.allowed
  /\ p.maxPerPayment > 0 => amount <= p.maxPerPayment
  /\ p.maxPerDay > 0 => Spent(p) + amount <= p.maxPerDay
  /\ policies' = [policies EXCEPT ![key] = Charge(@, amount)]
  /\ usedPaymentHashes' = usedPaymentHashes \cup {hash}
  /\ payments' = Append(payments, [key |-> key, hash |-> hash, amount |-> amount, time |-> now])
  /\ UNCHANGED <<limits, settings, frozen, peak, spends>>

----------------------------------------------------------------------------
(* Properties of the module's state.                                       *)

\* Every variable holds a value of its type.
ModuleTypeOK ==
  /\ now \in Nat
  /\ limits \in [Token -> SpendLimit]
  /\ usesFunctionAllowlist \in BOOLEAN
  /\ guardian \in Guardian \cup {NoGuardian}
  /\ frozen \in BOOLEAN
  /\ policies \in [PaymentKey -> PaymentPolicy]
  /\ usedPaymentHashes \subseteq PaymentHash
  /\ peak \in [Token -> Nat]
  /\ spends \in Seq([token : Token, amount : Nat, time : Nat])
  /\ payments \in Seq([key : PaymentKey, hash : PaymentHash, amount : Nat, time : Nat])

SpentBetween(token, first, last) ==
  SumOver([k \in DOMAIN spends |-> spends[k].amount],
    {k \in DOMAIN spends : /\ spends[k].token = token
                           /\ first <= spends[k].time /\ spends[k].time <= last})

PaidSince(key, first) ==
  SumOver([k \in DOMAIN payments |-> payments[k].amount],
    {k \in DOMAIN payments : payments[k].key = key /\ first <= payments[k].time})

\* spentToday is what was spent since lastReset, for a limit as for a payment
\* policy, whatever was raised, lowered, removed or reverted in between.
BooksBalance ==
  /\ \A t \in Token : limits[t].spentToday = SpentBetween(t, limits[t].lastReset, now)
  /\ \A k \in PaymentKey : policies[k].spentToday = PaidSince(k, policies[k].lastReset)

\* contracts/test/invariants/PolicyModuleInvariant.t.sol, spentNeverExceedsPeakMax.
SpentWithinPeak == \A t \in Token : limits[t].spentToday <= peak[t]

\* What the tumbling window really guarantees: no stretch of one day, wherever
\* it begins, sees more than twice the largest maximum spent.
AtMostTwiceADay ==
  \A t \in Token, first \in Day..MaxTime :
    SpentBetween(t, first, first + Day - 1) <= 2 * peak[t]

\* docs/contracts.md:157 calls the window a rolling 24-hour one; it is a
\* tumbling one, and a day across its edge can see more than the maximum.
RollingDailyLimit ==
  \A t \in Token, first \in Day..MaxTime :
    SpentBetween(t, first, first + Day - 1) <= peak[t]

\* A payment hash is used up by the one payment that was recorded under it.
PaymentsRecordedOnce ==
  /\ \A j, k \in DOMAIN payments : payments[j].hash = payments[k].hash => j = k
  /\ usedPaymentHashes = {payments[k].hash : k \in DOMAIN payments}
=============================================================================
