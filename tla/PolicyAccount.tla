---------------------------- MODULE PolicyAccount ----------------------------
(***************************************************************************)
(* contracts/src/PolicyAccount.sol, the account the policies are kept for, *)
(* composed with PolicyModule.  An execution checks the policy, charges the*)
(* limits and only then calls the target, which is arbitrary code: until   *)
(* it returns it may present signed session orders to the account again,   *)
(* and the guardian, if it is a contract, may freeze the account.          *)
(*                                                                         *)
(* A step is what happens between two such calls.  calls is the stack of   *)
(* the executions the current transaction is inside of, each with the      *)
(* state to go back to when its target reverts (ExecutionFailed reverts    *)
(* the execution; the code that asked for it may carry on or revert too).  *)
(* Other transactions, and the clock, wait for an empty stack.  Calls of   *)
(* the account to its policy module or to itself run no foreign code and   *)
(* are single steps (which of its functions a session order names is left  *)
(* open); execute called through execute on the account itself only        *)
(* repeats the checks and is left out.                                     *)
(***************************************************************************)
EXTENDS PolicyModule

CONSTANTS
  Module,       \* the policy module as a target
  Self,         \* the account as a target
  Key,          \* session keys
  Calls,        \* the calls the signer may ask for
  Order,        \* the calls session keys have signed
  GrantedTarget,    \* the targets that may be allowed or disallowed
  GrantedFunction,  \* the functions, as pairs, that may be
  Expiry,       \* values of expiresAt
  MaxDepth,     \* bound on the nesting of executions
  MaxSpends,    \* bound on the spends charged
  MaxPayments   \* bound on the signed payments recorded

Call == [target : Target, value : Amount \cup {0}, selector : Selectors \cup {"none"},
         amount : Amount \cup {0}]

\* A call of the account to its module or to itself.
OwnCall(target) == [target |-> target, value |-> 0, selector |-> "own", amount |-> 0]

ASSUME AccountAssumption ==
  /\ Module \notin Target /\ Self \notin Target
  /\ Calls \subseteq Call
  /\ GrantedFunction \subseteq GrantedTarget \X Selectors /\ MaxDepth \in Nat
  /\ \A o \in Order : o.call \in Call \cup {OwnCall(Module), OwnCall(Self)}

VARIABLES
  sessionKeys,        \* sessionKeys
  usedSessionNonces,  \* usedSessionNonces
  calls,              \* the executions in progress
  honoured            \* history: the session orders executed

accountVars == <<sessionKeys, usedSessionNonces, calls, honoured>>
vars == <<now, moduleVars, accountVars>>

Init ==
  /\ ModuleInit
  /\ sessionKeys = [k \in Key |-> [expiresAt |-> 0, active |-> FALSE]]
  /\ usedSessionNonces = {}
  /\ calls = << >>
  /\ honoured = << >>

----------------------------------------------------------------------------
(* Transactions and reverts.                                               *)

Idle == calls = << >>

\* All a revert takes back.
Snapshot ==
  [limits |-> limits, allowedTargets |-> allowedTargets,
   allowedFunctions |-> allowedFunctions, usesFunctionAllowlist |-> usesFunctionAllowlist,
   guardian |-> guardian, frozen |-> frozen, policies |-> policies,
   usedPaymentHashes |-> usedPaymentHashes, peak |-> peak, spends |-> spends,
   payments |-> payments, sessionKeys |-> sessionKeys,
   usedSessionNonces |-> usedSessionNonces, honoured |-> honoured]

Return ==
  /\ ~Idle
  /\ calls' = SubSeq(calls, 1, Len(calls) - 1)
  /\ UNCHANGED <<now, moduleVars, sessionKeys, usedSessionNonces, honoured>>

Revert ==
  LET s == calls[Len(calls)] IN
  /\ ~Idle
  /\ calls' = SubSeq(calls, 1, Len(calls) - 1)
  /\ limits' = s.limits /\ allowedTargets' = s.allowedTargets
  /\ allowedFunctions' = s.allowedFunctions
  /\ usesFunctionAllowlist' = s.usesFunctionAllowlist
  /\ guardian' = s.guardian /\ frozen' = s.frozen
  /\ policies' = s.policies /\ usedPaymentHashes' = s.usedPaymentHashes
  /\ peak' = s.peak /\ spends' = s.spends /\ payments' = s.payments
  /\ sessionKeys' = s.sessionKeys
  /\ usedSessionNonces' = s.usedSessionNonces /\ honoured' = s.honoured
  /\ UNCHANGED now

----------------------------------------------------------------------------
(* Who asks for an execution.                                              *)

\* Mutant of AsSigner: the modifier forgotten.
MutantAsSigner == UNCHANGED <<usedSessionNonces, honoured>>

\* onlyEntryPointSelfOrSigner: neither is on the stack of a running execution.
AsSigner == Idle /\ UNCHANGED <<usedSessionNonces, honoured>>

\* Mutant of UseNonce: the nonce is not marked.
MutantUseNonce(order) == usedSessionNonces' = usedSessionNonces

\* Mutant of UseNonce: the deadline marked in its place.
MutantUseDeadline(order) ==
  usedSessionNonces' = usedSessionNonces \cup {<<order.key, order.deadline>>}

UseNonce(order) == usedSessionNonces' = usedSessionNonces \cup {<<order.key, order.nonce>>}

\* executeWithSessionKey up to the execution: anyone holding the signature may.
AsSession(order) ==
  /\ now <= order.deadline
  /\ sessionKeys[order.key].active
  /\ now <= sessionKeys[order.key].expiresAt
  /\ <<order.key, order.nonce>> \notin usedSessionNonces
  /\ UseNonce(order)
  /\ honoured' = Append(honoured, <<order.key, order.nonce>>)

\* _executePolicyChecked up to the call: the coin is charged, then the token.
Execute(call) ==
  LET coin == RecordSpend(limits, Native, call.value)
      charged == IF call.value > 0 THEN coin ELSE limits
  IN  /\ Len(calls) < MaxDepth
      /\ CheckTransaction(call)
      /\ TokenSpend(call) > 0 => WithinLimit(charged[call.target], TokenSpend(call))
      /\ limits' = IF TokenSpend(call) > 0
                   THEN RecordSpend(charged, call.target, TokenSpend(call)) ELSE charged
      /\ spends' = spends
           \o (IF call.value > 0 THEN Charged(limits, Native, call.value) ELSE << >>)
           \o (IF TokenSpend(call) > 0
               THEN Charged(limits, call.target, TokenSpend(call)) ELSE << >>)
      /\ Len(spends') <= MaxSpends
      /\ calls' = Append(calls, Snapshot)
      /\ UNCHANGED <<now, settings, frozen, policies, usedPaymentHashes, peak, payments,
                     sessionKeys>>

ExecuteCall ==
  \/ AsSigner /\ \E call \in Calls : Execute(call)
  \/ \E order \in Order : order.call \in Call /\ AsSession(order) /\ Execute(order.call)

----------------------------------------------------------------------------
(* What the account may tell its module and itself.                        *)

\* The module's settings the account has a function of its own for.
ModuleSetting ==
  /\ \/ \E t \in Token, m \in Maximum : SetSpendLimit(t, m)
     \/ \E t \in GrantedTarget, allowed \in BOOLEAN : SetTargetAllowed(t, allowed)
     \/ \E f \in GrantedFunction, allowed \in BOOLEAN : SetFunctionAllowed(f[1], f[2], allowed)
     \/ \E enabled \in BOOLEAN : SetUseFunctionAllowlist(enabled)
     \/ \E g \in Guardian \cup {NoGuardian} : SetGuardian(g)
     \/ \E value \in BOOLEAN : SetAccountFrozen(value)
  /\ UNCHANGED sessionKeys

SetSessionKey ==
  /\ \E k \in Key, e \in Expiry, active \in BOOLEAN :
       sessionKeys' = [sessionKeys EXCEPT ![k] = [expiresAt |-> e, active |-> active]]
  /\ UNCHANGED moduleVars

\* The functions of the module the account can only reach by executing them.
ModuleFunction ==
  /\ \/ \E t \in Token, a \in Amount :
          Len(spends) < MaxSpends /\ RecordSpendDirectly(t, a)
     \/ \E k \in PaymentKey, each, daily \in Maximum, allowed \in BOOLEAN :
          SetPaymentPolicy(k, each, daily, allowed)
     \/ \E k \in PaymentKey, a \in Amount, h \in PaymentHash :
          Len(payments) < MaxPayments /\ RecordSignedPayment(k, a, h)
  /\ UNCHANGED sessionKeys

\* A wrapper called by the signer or the entry point.
Configure ==
  /\ AsSigner
  /\ ModuleSetting \/ SetSessionKey
  /\ UNCHANGED <<now, calls>>

\* An execution whose target is the module or the account.
ExecuteOwn(target) ==
  /\ AsSigner \/ \E order \in Order : order.call = OwnCall(target) /\ AsSession(order)
  /\ CheckTransaction(OwnCall(target))
  /\ \/ ModuleSetting
     \/ target = Self /\ SetSessionKey
     \/ target = Module /\ ModuleFunction
  /\ UNCHANGED <<now, calls>>

\* The guardian, in a transaction of its own or out of the code of a target.
GuardianFreeze ==
  \E g \in Guardian, value \in BOOLEAN :
    /\ MayFreeze(g)
    /\ SetAccountFrozen(value)
    /\ UNCHANGED <<now, accountVars>>

Tick ==
  /\ Idle
  /\ now < MaxTime
  /\ now' = now + 1
  /\ UNCHANGED <<moduleVars, accountVars>>

Next ==
  \/ ExecuteCall
  \/ Configure
  \/ ExecuteOwn(Module)
  \/ ExecuteOwn(Self)
  \/ GuardianFreeze
  \/ Return
  \/ Revert
  \/ Tick

Spec == Init /\ [][Next]_vars

----------------------------------------------------------------------------
(* Properties.                                                             *)

\* Every variable holds a value of its type.
TypeOK ==
  /\ ModuleTypeOK
  /\ allowedTargets \subseteq GrantedTarget
  /\ allowedFunctions \subseteq GrantedFunction
  /\ sessionKeys \in [Key -> [expiresAt : Expiry \cup {0}, active : BOOLEAN]]
  /\ usedSessionNonces \subseteq {<<o.key, o.nonce>> : o \in Order}
  /\ honoured \in Seq(usedSessionNonces)
  /\ Len(calls) <= MaxDepth

\* However a target re-enters the account and whatever reverts, a session key's
\* nonce lets one execution through, and is marked used for exactly those that
\* went through.
NonceHonouredOnce ==
  /\ \A j, k \in DOMAIN honoured : honoured[j] = honoured[k] => j = k
  /\ usedSessionNonces = {honoured[k] : k \in DOMAIN honoured}

\* While the account is frozen, be it frozen by its guardian in the middle of an
\* execution, it starts no further execution and records no payment; executions
\* already under way can only end.
FrozenMeansStill ==
  [][frozen =>
       /\ Len(calls') <= Len(calls)
       /\ Len(honoured') <= Len(honoured)
       /\ Len(spends') <= Len(spends)
       /\ Len(payments') <= Len(payments)]_vars

Powers == <<[t \in Token |-> limits[t].maxPerDay], allowedTargets, allowedFunctions,
            usesFunctionAllowlist, guardian, sessionKeys,
            [k \in PaymentKey |-> [policies[k] EXCEPT !.spentToday = 0, !.lastReset = 0]]>>

\* No session key and no code the account calls can change what it allows: as
\* long as neither the module nor the account itself is an allowed target, the
\* limits, lists, keys, guardian and payment policies change only by the signer
\* at rest, or by a revert to what they were.
PowersStayWithSigner ==
  [][(~Idle \/ honoured' # honoured) /\ Len(calls') >= Len(calls)
       /\ {Module, Self} \cap allowedTargets = {}
     => Powers' = Powers]_vars
=============================================================================
