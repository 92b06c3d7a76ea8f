------------------------------ MODULE MCPolicy ------------------------------
(* Finite instances of PolicyAccount for TLC.                               *)
EXTENDS PolicyAccount

CONSTANTS token, key, method, watcher, merchant, h1, h2

Pay(value) == [target |-> token, value |-> value, selector |-> "none", amount |-> 0]
Spend(amount) == [target |-> token, value |-> 0, selector |-> "erc20", amount |-> amount]
Both == [target |-> token, value |-> 1, selector |-> "erc20", amount |-> 1]
Poke == [target |-> token, value |-> 0, selector |-> method, amount |-> 0]

\* Spends of coin and token, together and apart.
SpendCalls == {Spend(1), Spend(2), Both}
CoinCalls == {Pay(1), Pay(2)}

\* Two orders under one nonce, one under another.
SessionOrders ==
  {[key |-> key, call |-> Spend(1), deadline |-> Day + 1, nonce |-> 0],
   [key |-> key, call |-> Poke, deadline |-> Day, nonce |-> 0],
   [key |-> key, call |-> OwnCall(Self), deadline |-> Day + 1, nonce |-> 1]}
TheCalls == SpendCalls \cup {Poke}
AllFunctions == {<<token, method>>}
AllTargets == {token, Module, Self}

NoPayments == policies = [k \in PaymentKey |->
  [maxPerPayment |-> 0, maxPerDay |-> 0, spentToday |-> 0, lastReset |-> 0, allowed |-> FALSE]]
NoSessions == honoured = << >> /\ \A k \in Key : ~sessionKeys[k].active /\ sessionKeys[k].expiresAt = 0
NoLimits == \A t \in Token : limits[t].maxPerDay = 0

\* Coin and token spends under limits that come and go, over two days and a half.
Limiting ==
  /\ NoPayments /\ NoSessions /\ Len(calls) <= 1
  /\ Self \notin allowedTargets /\ allowedFunctions = {}
  /\ guardian = NoGuardian

\* A target that re-enters with session orders, a guardian, reverts.
Delegating ==
  /\ NoPayments /\ now <= Day + 1 /\ Len(spends) <= 2
  /\ Module \notin allowedTargets
  /\ \A t \in Token : peak[t] \in {0, 2} /\ limits[t].maxPerDay \in {0, 2}
  /\ \A k \in DOMAIN spends : spends[k].amount = 1

\* Signed payments recorded by the account under a policy.
Paying ==
  /\ NoLimits /\ peak = [t \in Token |-> 0] /\ NoSessions /\ calls = << >> /\ guardian = NoGuardian
  /\ allowedTargets \subseteq {Module} /\ allowedFunctions = {} /\ ~usesFunctionAllowlist
  /\ \A k \in PaymentKey : policies[k].maxPerDay # 1 /\ policies[k].maxPerPayment # 1

Scoped == Limiting \/ Delegating \/ Paying
=============================================================================
