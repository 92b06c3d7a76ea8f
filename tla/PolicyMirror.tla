---------------------------- MODULE PolicyMirror ----------------------------
(***************************************************************************)
(* The settings of one account in PolicyModule and the policies table that *)
(* indexer/src/handlers/policies.ts keeps of them.  A row has the primary  *)
(* key of the table, of which every kind of setting uses a part, and a     *)
(* value.  What is spent is in no row: handleSpendRecorded and             *)
(* handleSignedPaymentRecorded only log, so their events are left out. The  *)
(* clock stands still: nothing in the table depends on it.                 *)
(***************************************************************************)
EXTENDS PolicyModule, EventLoop

CONSTANTS
  MaxCharges,    \* bound on the spends charged
  NoAddress,     \* the zero address in a key
  NoSelector,    \* 0x00000000, as a selector and in a key
  MerchantOf,    \* the merchant and token of a payment key: what its row is keyed by
  PaymentTerms   \* values of maxPerPayment, maxPerDay and allowed of a payment policy

ASSUME MirrorAssumption == PaymentTerms \subseteq Nat \X Nat \X BOOLEAN

mirrorVars == <<now, moduleVars, loopVars>>

MirrorInit ==
  /\ ModuleInit
  /\ LoopInit({"policies"})

----------------------------------------------------------------------------
(* The contract.                                                           *)

Setting ==
  \/ \E t \in Token, max \in Maximum :
       SetSpendLimit(t, max) /\ Emit([type |-> "SpendLimitSet", token |-> t, value |-> max])
  \/ \E t \in Target, a \in BOOLEAN :
       SetTargetAllowed(t, a) /\ Emit([type |-> "TargetAllowlistUpdated", target |-> t, value |-> a])
  \/ \E t \in Target, s \in Selectors, a \in BOOLEAN :
       /\ SetFunctionAllowed(t, s, a)
       /\ Emit([type |-> "FunctionAllowlistUpdated", target |-> t, selector |-> s, value |-> a])
  \/ \E e \in BOOLEAN :
       SetUseFunctionAllowlist(e) /\ Emit([type |-> "FunctionAllowlistModeUpdated", value |-> e])
  \/ \E g \in Guardian \cup {NoGuardian} :
       SetGuardian(g) /\ Emit([type |-> "GuardianSet", value |-> g])
  \/ \E f \in BOOLEAN :
       SetAccountFrozen(f) /\ Emit([type |-> "AccountFrozen", value |-> f])
  \/ \E k \in PaymentKey, terms \in PaymentTerms :
       /\ SetPaymentPolicy(k, terms[1], terms[2], terms[3])
       /\ Emit([type |-> "PaymentPolicySet", paymentKey |-> k, value |-> terms])

Spending ==
  /\ Len(spends) < MaxCharges
  /\ \E t \in Token, a \in Amount : RecordSpendDirectly(t, a)
  /\ UNCHANGED loopVars

Chain == Setting \/ Spending

----------------------------------------------------------------------------
(* The handlers.                                                           *)

\* Mutant of PolicyKey: the rows of all tokens are one.
MutantPolicyKey(type, token, target, selector) == <<type, NoAddress, target, selector>>

PolicyKey(type, token, target, selector) == <<type, token, target, selector>>

UpsertPolicy(event, type, token, target, selector, value) ==
  /\ Handle(event)
  /\ Upsert("policies", PolicyKey(type, token, target, selector), value)
  /\ Done

HandleSpendLimitSet ==
  UpsertPolicy("SpendLimitSet", "spend_limit", Event.token, NoAddress, NoSelector, Event.value)

HandleTargetAllowlistUpdated ==
  UpsertPolicy("TargetAllowlistUpdated", "target_allowlist", NoAddress, Event.target, NoSelector,
               Event.value)

HandleFunctionAllowlistUpdated ==
  UpsertPolicy("FunctionAllowlistUpdated", "function_allowlist", NoAddress, Event.target,
               Event.selector, Event.value)

HandleFunctionAllowlistModeUpdated ==
  UpsertPolicy("FunctionAllowlistModeUpdated", "function_allowlist_mode", NoAddress, NoAddress,
               NoSelector, Event.value)

\* A row for every guardian there ever was.
HandleGuardianSet ==
  UpsertPolicy("GuardianSet", "guardian", NoAddress, Event.value, NoSelector, Event.value)

HandleAccountFrozen ==
  UpsertPolicy("AccountFrozen", "account_frozen", NoAddress, NoAddress, NoSelector, Event.value)

\* The facilitator is in the value, not in the key.
HandlePaymentPolicySet ==
  UpsertPolicy("PaymentPolicySet", "signed_payment_policy", NoAddress,
               MerchantOf[Event.paymentKey], NoSelector, <<Event.paymentKey, Event.value>>)

Handler ==
  \/ HandleSpendLimitSet \/ HandleTargetAllowlistUpdated \/ HandleFunctionAllowlistUpdated
  \/ HandleFunctionAllowlistModeUpdated \/ HandleGuardianSet \/ HandleAccountFrozen
  \/ HandlePaymentPolicySet

MirrorNext ==
  \/ Chain /\ now' = now
  \/ Handler /\ UNCHANGED <<now, moduleVars, log, stored, crashes>>
  \/ (Store \/ Crash) /\ UNCHANGED <<now, moduleVars>>

----------------------------------------------------------------------------
(* Properties.                                                             *)

CaughtUp == at = Len(log)

\* The value of a row, or of the default of the contract's mapping.
Shown(type, token, target, selector, default) ==
  LET key == <<type, token, target, selector>>
  IN  IF Has("policies", key) THEN rows["policies"][key] ELSE default

\* Whatever was set, set again, crashed and replayed: once the loop has caught
\* up, the rows say of every setting what the contract says, except that a
\* payment policy is shown for one of the facilitators of its merchant only and
\* that a guardian keeps its row when another one takes over.
PoliciesShown ==
  CaughtUp =>
    /\ \A t \in Token :
         Shown("spend_limit", t, NoAddress, NoSelector, 0) = limits[t].maxPerDay
    /\ \A t \in Target :
         /\ Shown("target_allowlist", NoAddress, t, NoSelector, FALSE) = (t \in allowedTargets)
         /\ \A s \in Selectors :
              Shown("function_allowlist", NoAddress, t, s, FALSE) = (<<t, s>> \in allowedFunctions)
    /\ Shown("function_allowlist_mode", NoAddress, NoAddress, NoSelector, FALSE)
         = usesFunctionAllowlist
    /\ Shown("account_frozen", NoAddress, NoAddress, NoSelector, FALSE) = frozen
    /\ guardian # NoGuardian => Has("policies", <<"guardian", NoAddress, guardian, NoSelector>>)
    /\ \A key \in DOMAIN rows["policies"] :
         key[1] = "signed_payment_policy" =>
           LET row == rows["policies"][key]
               p == policies[row[1]]
           IN  row[2] = <<p.maxPerPayment, p.maxPerDay, p.allowed>>
=============================================================================
