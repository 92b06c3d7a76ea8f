---------------------------- MODULE SolverProofs ----------------------------
(***************************************************************************)
(* What the solver agent never does, for every number of intents, bids,    *)
(* selections, blocks and faults: bid twice on an intent in one life of    *)
(* the process, execute a plan more often than selections, errors and      *)
(* crashes explain, or fill without a plan that it was shown and that did  *)
(* not revert.  The agent keeps no record, so each of the two counts is an *)
(* account: what has happened, what waits in the mempool and what the      *)
(* agent may still do by what it sees, added up, never exceed what pays    *)
(* for it.                                                                 *)
(*                                                                         *)
(* The parts of the invariant are stated over arguments, so that a lemma   *)
(* about two states has no primes in it.                                   *)
(***************************************************************************)
EXTENDS SolverAgent, ChainTheorems

----------------------------------------------------------------------------
(* What the node shows of log c when h is the last block, and the agent's  *)
(* own part of the log.                                                    *)

Seen(c, h, name, i) == {k \in DOMAIN c : Is(c[k], name, i) /\ c[k].blockNumber <= h}

SelectionsSeen(c, h, i) == Seen(c, h, "SolverBidSelected", i)

SelectedSeen(c, h, i) ==
  IF SelectionsSeen(c, h, i) = {} THEN {} ELSE c[Max(SelectionsSeen(c, h, i))].solver

OpenSeen(c, h, i) ==
  /\ Seen(c, h, "IntentSubmitted", i) # {}
  /\ Seen(c, h, "IntentFilled", i) = {}
  /\ Seen(c, h, "IntentCancelled", i) = {}

Visible(c, h) == \A k \in DOMAIN c : c[k].blockNumber <= h

BidsBySelf(c, i) == {k \in BidsOf(c, i) : c[k].solver = {Self}}
FillBySelf(c, i) == \E k \in DOMAIN c : Is(c[k], "IntentFilled", i) /\ c[k].solver = {Self}

\* A bid and a selection name a solver.
Named(c) ==
  \A k \in DOMAIN c : c[k].name \in {"SolverBidSubmitted", "SolverBidSelected"} =>
    c[k].solver # {}

----------------------------------------------------------------------------
(* The mempool: what of a kind waits in it for an intent.                  *)

Kind == {"bid", "plan", "fill"}
Sent == Kind \X IntentId

Waiting(m, t) == {k \in DOMAIN m : m[k] = t}

\* Sets of indices are finite.
LEMMA Indices ==
  ASSUME NEW L \in Nat
  PROVE  \A S \in SUBSET (1..L) : IsFiniteSet(S) /\ Cardinality(S) \in Nat
<1>1. IsFiniteSet(1..L)
  BY FS_Interval
<1> QED BY <1>1, FS_Subset, FS_CardinalityType

\* What waits of a kind for an intent is finite.
LEMMA WaitingFinite ==
  ASSUME NEW m \in Seq(Sent)
  PROVE  \A u : IsFiniteSet(Waiting(m, u)) /\ Cardinality(Waiting(m, u)) \in Nat
<1>1. Len(m) \in Nat /\ DOMAIN m = 1..Len(m)
  OBVIOUS
<1>2. \A u : Waiting(m, u) \in SUBSET (1..Len(m))
  BY <1>1 DEF Waiting
<1> QED BY <1>1, <1>2, Indices

\* One transaction more is one more of its own.
LEMMA WaitingAppend ==
  ASSUME NEW m \in Seq(Sent), NEW t \in Sent
  PROVE  /\ \A u : IsFiniteSet(Waiting(m, u)) /\ Cardinality(Waiting(m, u)) \in Nat
         /\ \A u : u # t => Waiting(Append(m, t), u) = Waiting(m, u)
         /\ Waiting(Append(m, t), t) # {}
         /\ Cardinality(Waiting(Append(m, t), t)) = Cardinality(Waiting(m, t)) + 1
<1> DEFINE d == Append(m, t)
           n == Len(m)
<1>1. n \in Nat /\ DOMAIN m = 1..n
  OBVIOUS
<1>2. /\ \A k \in DOMAIN m : d[k] = m[k] /\ k # n + 1 /\ k \in DOMAIN d
      /\ \A k \in DOMAIN d : k \in DOMAIN m \/ k = n + 1
      /\ d[n + 1] = t /\ n + 1 \in DOMAIN d
  BY Appended, <1>1
<1> HIDE DEF d, n
<1>5. \A u : IsFiniteSet(Waiting(m, u)) /\ Cardinality(Waiting(m, u)) \in Nat
  BY WaitingFinite
<1>6. \A u : u # t => Waiting(d, u) = Waiting(m, u)
  BY <1>2 DEF Waiting
<1>7. Waiting(d, t) = Waiting(m, t) \cup {n + 1} /\ n + 1 \notin Waiting(m, t)
  BY <1>2 DEF Waiting
<1>8. Cardinality(Waiting(d, t)) = Cardinality(Waiting(m, t)) + 1
  BY <1>5, <1>7, FS_AddElement
<1> QED BY <1>5, <1>6, <1>7, <1>8 DEF d

\* When the first transaction lands, one less of its own waits.
LEMMA WaitingTail ==
  ASSUME NEW m \in Seq(Sent), m # << >>
  PROVE  /\ \A u : IsFiniteSet(Waiting(Tail(m), u)) /\ Cardinality(Waiting(Tail(m), u)) \in Nat
         /\ \A u : u # Head(m) => Cardinality(Waiting(Tail(m), u)) = Cardinality(Waiting(m, u))
         /\ \A u : u # Head(m) => (Waiting(Tail(m), u) = {} <=> Waiting(m, u) = {})
         /\ Waiting(m, Head(m)) # {}
         /\ Cardinality(Waiting(m, Head(m))) = Cardinality(Waiting(Tail(m), Head(m))) + 1
<1> DEFINE d == Tail(m)
           n == Len(m)
           Rest(u) == Waiting(m, u) \ {1}
<1>1. /\ n \in Nat /\ DOMAIN m = 1..n /\ 1 \in 1..n
      /\ DOMAIN d = 1..(n - 1) /\ \A k \in 1..(n - 1) : d[k] = m[k + 1]
      /\ Head(m) = m[1]
  OBVIOUS
<1> HIDE DEF d, n
<1>4. \A u : IsFiniteSet(Waiting(m, u)) /\ Cardinality(Waiting(m, u)) \in Nat
  BY WaitingFinite
<1>5. \A u : IsFiniteSet(Rest(u))
  BY <1>4, FS_RemoveElement
<1>6. ASSUME NEW u
      PROVE  IsFiniteSet(Waiting(d, u)) /\ Cardinality(Waiting(d, u)) = Cardinality(Rest(u))
  <2> DEFINE f == [k \in Rest(u) |-> k - 1]
  <2>1. Rest(u) = {k \in 2..n : m[k] = u}
    BY <1>1 DEF Waiting
  <2>2. Waiting(d, u) = {k \in 1..(n - 1) : m[k + 1] = u}
    BY <1>1 DEF Waiting
  <2> HIDE DEF Rest
  <2>3. \A k \in Rest(u) : f[k] = k - 1 /\ k \in Int
    BY <2>1
  <2>4. f \in [Rest(u) -> Waiting(d, u)]
    <3>1. \A k \in Rest(u) : k - 1 \in Waiting(d, u)
      BY <1>1, <2>1, <2>2
    <3> QED BY <3>1
  <2>5. \A t \in Waiting(d, u) : t + 1 \in Rest(u) /\ f[t + 1] = t
    <3>1. \A t \in Waiting(d, u) : t + 1 \in Rest(u) /\ (t + 1) - 1 = t
      BY <1>1, <2>1, <2>2
    <3> QED BY <3>1
  <2> HIDE DEF f
  <2>6. \A j, k \in Rest(u) : f[j] = f[k] => j = k
    BY <2>3
  <2>7. f \in Bijection(Rest(u), Waiting(d, u))
    BY <2>4, <2>5, <2>6 DEF Bijection, Injection, IsInjective, Surjection
  <2> QED BY <1>5, <2>7, FS_Bijection DEF ExistsBijection
<1>7. \A u : Cardinality(Waiting(d, u)) \in Nat
  BY <1>6, FS_CardinalityType
<1>8. \A u : u # m[1] => Rest(u) = Waiting(m, u)
  BY <1>1 DEF Waiting
<1>9. 1 \in Waiting(m, m[1])
  BY <1>1 DEF Waiting
<1>10. Cardinality(Rest(m[1])) = Cardinality(Waiting(m, m[1])) - 1
  BY <1>4, <1>9, FS_RemoveElement
<1> HIDE DEF Rest
<1>11. \A u : u # m[1] => Cardinality(Waiting(d, u)) = Cardinality(Waiting(m, u))
  BY <1>6, <1>8
<1>12. \A u : u # m[1] => (Waiting(d, u) = {} <=> Waiting(m, u) = {})
  BY <1>4, <1>6, <1>11, FS_EmptySet
<1>13. Cardinality(Waiting(m, m[1])) = Cardinality(Waiting(d, m[1])) + 1
  BY <1>4, <1>6, <1>7, <1>10
<1> QED BY <1>1, <1>6, <1>7, <1>9, <1>11, <1>12, <1>13 DEF d

----------------------------------------------------------------------------
(* The events of a poll, in the order of the log.                          *)

Ordered(f) == \A m, n \in DOMAIN f : m < n => f[m] < f[n]

Lists(f, S) == f \in [1..Cardinality(S) -> S] /\ Ordered(f)

\* Every set of indices can be listed in order: the greatest one comes last.
LEMMA Listing ==
  \A L \in Nat : \A S \in SUBSET (1..L) : \E f : Lists(f, S)
<1> DEFINE T == {L \in Nat : \A S \in SUBSET (1..L) : \E f : Lists(f, S)}
<1>1. 0 \in T
  <2>1. \A S \in SUBSET (1..0) : S = {}
    OBVIOUS
  <2>2. Lists([k \in 1..0 |-> k], {})
    BY FS_EmptySet DEF Lists, Ordered
  <2> QED BY <2>1, <2>2
<1>2. ASSUME NEW L \in Nat, L \in T
      PROVE  L + 1 \in T
  <2> SUFFICES ASSUME NEW S \in SUBSET (1..(L + 1))
               PROVE  \E f : Lists(f, S)
    OBVIOUS
  <2>1. CASE L + 1 \notin S
    <3>1. S \in SUBSET (1..L)
      BY <2>1
    <3> QED BY <1>2, <3>1
  <2>2. CASE L + 1 \in S
    <3> DEFINE R == S \ {L + 1}
               n == Cardinality(R)
    <3>1. R \in SUBSET (1..L)
      OBVIOUS
    <3>3. S = R \cup {L + 1} /\ L + 1 \notin R
      BY <2>2
    <3> HIDE DEF R
    <3>2. IsFiniteSet(R) /\ n \in Nat
      BY <3>1, Indices
    <3>4. PICK g : Lists(g, R)
      BY <1>2, <3>1
    <3>5. n \in Nat /\ Cardinality(S) = n + 1
      BY <3>2, <3>3, FS_AddElement
    <3> DEFINE f == [k \in 1..(n + 1) |-> IF k = n + 1 THEN L + 1 ELSE g[k]]
    <3>6. g \in [1..n -> R] /\ \A i, j \in 1..n : i < j => g[i] < g[j]
      BY <3>4 DEF Lists, Ordered
    <3> HIDE DEF n
    <3>10. /\ \A k \in 1..n : k # n + 1 /\ k \in 1..(n + 1)
           /\ \A k \in 1..(n + 1) : k \in 1..n \/ k = n + 1
           /\ n + 1 \in 1..(n + 1)
      BY <3>5
    <3>11. \A k \in 1..n : f[k] = g[k]
      BY <3>10
    <3>7. /\ DOMAIN f = 1..(n + 1) /\ f[n + 1] = L + 1
          /\ \A k \in 1..n : f[k] = g[k] /\ f[k] \in R /\ f[k] \in 1..L
          /\ \A k \in 1..(n + 1) : k \in 1..n \/ k = n + 1
      BY <3>1, <3>6, <3>10, <3>11
    <3>8. f \in [1..(n + 1) -> S]
      BY <3>3, <3>7
    <3>9. Ordered(f)
      <4> SUFFICES ASSUME NEW i \in 1..(n + 1), NEW j \in 1..(n + 1), i < j
                   PROVE  f[i] < f[j]
        BY <3>7 DEF Ordered
      <4>1. i \in 1..n
        BY <3>5
      <4>2. CASE j \in 1..n
        <5> HIDE DEF f
        <5> QED BY <3>6, <3>7, <4>1, <4>2
      <4>3. CASE j = n + 1
        <5> HIDE DEF f
        <5>1. f[i] \in 1..L /\ f[j] = L + 1
          BY <3>7, <4>1, <4>3
        <5> QED BY <5>1
      <4> QED BY <3>7, <4>2, <4>3
    <3> QED BY <3>5, <3>8, <3>9 DEF Lists
  <2> QED BY <2>1, <2>2
<1>3. \A L \in Nat : L \in T
  <2> HIDE DEF T
  <2>1. \A L \in Nat : L \in T => L + 1 \in T
    BY <1>2
  <2> QED BY <1>1, <2>1, Induction
<1> QED BY <1>3

\* The sequence InOrder returns lists the set, and no index twice.
LEMMA InOrderLists ==
  ASSUME NEW L \in Nat, NEW S \in SUBSET (1..L)
  PROVE  /\ Cardinality(S) \in Nat /\ DOMAIN InOrder(S) = 1..Cardinality(S)
         /\ \A n \in DOMAIN InOrder(S) : InOrder(S)[n] \in S
         /\ \A m, n \in DOMAIN InOrder(S) : InOrder(S)[m] = InOrder(S)[n] => m = n
<1> DEFINE f == InOrder(S)
<1>1. \E g : Lists(g, S)
  BY Listing
<1>2. f \in [1..Cardinality(S) -> S] /\ \A m, n \in DOMAIN f : m < n => f[m] < f[n]
  BY <1>1 DEF InOrder, Lists, Ordered
<1>3. Cardinality(S) \in Nat
  BY Indices
<1> HIDE DEF f
<1>4. \A n \in DOMAIN f : f[n] \in S /\ f[n] \in 1..L
  BY <1>2
<1>5. ASSUME NEW m \in DOMAIN f, NEW n \in DOMAIN f, f[m] = f[n]
      PROVE  m = n
  <2>1. m \in Nat /\ n \in Nat /\ f[m] \in Nat
    BY <1>2, <1>3, <1>4
  <2>2. ~(m < n) /\ ~(n < m)
    BY <1>2, <1>4, <1>5, <2>1
  <2> QED BY <2>1, <2>2
<1> QED BY <1>2, <1>3, <1>4, <1>5 DEF f

\* An intent in what a poll found has its event in the polled blocks, one for each
\* place it has.
LEMMA FoundEvents ==
  ASSUME ChainOK(chain, head), NEW name
  PROVE  /\ Found(name) \in Seq(IntentId)
         /\ \E at : /\ \A n \in DOMAIN Found(name) :
                         /\ at[n] \in DOMAIN chain
                         /\ Is(chain[at[n]], name, Found(name)[n])
                         /\ nextBlock <= chain[at[n]].blockNumber
                         /\ chain[at[n]].blockNumber <= head
                    /\ \A m, n \in DOMAIN Found(name) : at[m] = at[n] => m = n
<1> DEFINE S == {k \in DOMAIN chain : /\ chain[k].name = name
                                      /\ nextBlock <= chain[k].blockNumber
                                      /\ chain[k].blockNumber <= head}
           found == InOrder(S)
           N == Cardinality(S)
<1>1. chain \in Seq(EventType) /\ Len(chain) \in Nat /\ DOMAIN chain = 1..Len(chain)
  BY DEF ChainOK
<1>2. S \in SUBSET (1..Len(chain))
  BY <1>1
<1>3. Found(name) = [n \in DOMAIN found |-> chain[found[n]].intentId]
  BY DEF Found
<1>4. \A k \in S : /\ k \in DOMAIN chain /\ chain[k].name = name
                   /\ nextBlock <= chain[k].blockNumber /\ chain[k].blockNumber <= head
  OBVIOUS
<1> HIDE DEF S
<1>5. /\ N \in Nat /\ DOMAIN found = 1..N
      /\ \A n \in DOMAIN found : found[n] \in S
      /\ \A m, n \in DOMAIN found : found[m] = found[n] => m = n
  BY <1>1, <1>2, InOrderLists
<1> HIDE DEF found, N
<1>6. \A k \in DOMAIN chain : chain[k].intentId \in IntentId
  <2>1. \A k \in DOMAIN chain : chain[k] \in EventType
    BY <1>1
  <2> QED BY ONLY <2>1 DEF EventType
<1>7. Found(name) \in Seq(IntentId)
  <2>1. Found(name) = [n \in 1..N |-> chain[found[n]].intentId]
    BY <1>3, <1>5
  <2>2. \A n \in 1..N : chain[found[n]].intentId \in IntentId
    BY <1>4, <1>5, <1>6
  <2> QED BY <1>5, <2>1, <2>2
<1>8. \A n \in DOMAIN Found(name) : n \in DOMAIN found /\ Found(name)[n] = chain[found[n]].intentId
  BY <1>3
<1>9. \A n \in DOMAIN Found(name) :
        /\ found[n] \in DOMAIN chain
        /\ Is(chain[found[n]], name, Found(name)[n])
        /\ nextBlock <= chain[found[n]].blockNumber
        /\ chain[found[n]].blockNumber <= head
  BY <1>4, <1>5, <1>8 DEF Is
<1>10. \A m, n \in DOMAIN Found(name) : found[m] = found[n] => m = n
  BY <1>5, <1>8
<1> QED BY <1>7, <1>9, <1>10

----------------------------------------------------------------------------
(* What is seen of the log, as the operators of the agent say it, and how  *)
(* it changes while the log grows.                                         *)

\* What is seen of selections is a finite set of indices of the log.
LEMMA SeenIndices ==
  ASSUME NEW c, NEW h, ChainOK(c, h)
  PROVE  /\ \A b, i : IsFiniteSet(SelectionsSeen(c, b, i))
         /\ \A b, i : Cardinality(SelectionsSeen(c, b, i)) \in Nat
         /\ \A b, i : SelectionsSeen(c, b, i) # {} =>
              Max(SelectionsSeen(c, b, i)) \in SelectionsSeen(c, b, i)
<1>1. Len(c) \in Nat /\ DOMAIN c = 1..Len(c)
  BY DEF ChainOK
<1>2. \A b, i : SelectionsSeen(c, b, i) \in SUBSET (1..Len(c))
  BY <1>1 DEF SelectionsSeen, Seen
<1> QED BY <1>1, <1>2, Indices, GreatestIndex

\* The agent's questions to the node are answered from what is seen.
LEMMA NowIsSeen ==
  ASSUME ChainOK(chain, head)
  PROVE  /\ \A i : SelectionsNow(i) = SelectionsSeen(chain, head, i)
         /\ \A i : SelectedNow(i) = SelectedSeen(chain, head, i)
         /\ \A i : OpenNow(i) <=> OpenSeen(chain, head, i)
<1>1. /\ Len(chain) \in Nat /\ DOMAIN chain = 1..Len(chain) /\ head \in Nat
  BY DEF ChainOK
<1>2. /\ UpTo(chain, head) \in Nat /\ UpTo(chain, head) <= Len(chain)
      /\ \A k \in DOMAIN chain : k <= UpTo(chain, head) <=> chain[k].blockNumber <= head
  BY <1>1, PrefixUpTo
<1>3. \A i : SelectionsNow(i) = SelectionsSeen(chain, head, i)
  BY <1>2, Translation, LogPositions DEF SelectionsNow, SelectionsSeen, Seen
<1>4. \A i : SelectedNow(i) = SelectedSeen(chain, head, i)
  BY <1>3 DEF SelectedNow, SelectedSeen
<1>5. \A name, i : Was(chain, UpTo(chain, head), name, i) <=> Seen(chain, head, name, i) # {}
  <2>1. \A k : k \in 1..UpTo(chain, head) <=> k \in DOMAIN chain /\ k <= UpTo(chain, head)
    BY <1>1, <1>2
  <2> QED BY <1>2, <2>1 DEF Was, Seen
<1>6. \A i : OpenNow(i) <=> StatusIn(chain, UpTo(chain, head), i) = "OPEN"
  BY Translation DEF OpenNow
<1>7. \A i : OpenNow(i) <=> OpenSeen(chain, head, i)
  BY <1>5, <1>6 DEF StatusIn, OpenSeen
<1> QED BY <1>3, <1>4, <1>7

\* When everything is in a mined block, what is seen is what there is.
LEMMA AllIsSeen ==
  ASSUME ChainOK(chain, head), NEW h, Visible(chain, h)
  PROVE  /\ \A i : Selected(i) = SelectedSeen(chain, h, i)
         /\ \A i : IsOpen(i) <=> OpenSeen(chain, h, i)
<1>1. Len(chain) \in Nat /\ DOMAIN chain = 1..Len(chain)
  BY DEF ChainOK
<1>2. \A i : Selections(i) = SelectionsSeen(chain, h, i)
  BY LogPositions DEF Visible, SelectionsSeen, Seen
<1>3. \A i : Selected(i) = SelectedSeen(chain, h, i)
  BY <1>2 DEF Selected, SelectedSeen
<1>4. \A name, i : Was(chain, Len(chain), name, i) <=> Seen(chain, h, name, i) # {}
  BY <1>1 DEF Was, Seen, Visible
<1>5. \A i : IsOpen(i) <=> StatusIn(chain, Len(chain), i) = "OPEN"
  BY Translation DEF IsOpen
<1>6. \A i : IsOpen(i) <=> OpenSeen(chain, h, i)
  BY <1>4, <1>5 DEF StatusIn, OpenSeen
<1> QED BY <1>3, <1>6

\* The submission of an intent is in the polled blocks.
SubmissionPolled(c, n, i) ==
  \E k \in DOMAIN c : Is(c[k], "IntentSubmitted", i) /\ c[k].blockNumber < n

\* The log that grows, and the block that is mined, take nothing from what is seen.
Further(c, h, d, g) ==
  /\ ChainOK(c, h) /\ ChainOK(d, g)
  /\ Grown(c, d, h)
  /\ h <= g

\* What was seen is still seen; the selection that stands is another one only if
\* there are more of them; an intent is open only if it was, but for one nobody
\* had selected a bid for.
LEMMA SeenFurther ==
  ASSUME NEW c, NEW h, NEW d, NEW g, Further(c, h, d, g)
  PROVE  /\ \A n, i : SubmissionPolled(c, n, i) => SubmissionPolled(d, n, i)
         /\ \A i : SelectionsSeen(d, g, i) = {} => SelectionsSeen(c, h, i) = {}
         /\ \A i : \/ Cardinality(SelectionsSeen(d, g, i)) > Cardinality(SelectionsSeen(c, h, i))
                   \/ /\ SelectionsSeen(d, g, i) = SelectionsSeen(c, h, i)
                      /\ SelectedSeen(d, g, i) = SelectedSeen(c, h, i)
         /\ \A i : OpenSeen(d, g, i) /\ SelectionsSeen(c, h, i) # {} => OpenSeen(c, h, i)
<1>1. /\ c \in Seq(EventType) /\ h \in Nat /\ g \in Nat /\ h <= g
      /\ \A k \in DOMAIN c : c[k].blockNumber \in Nat
  <2>1. c \in Seq(EventType) /\ h \in Nat /\ g \in Nat /\ h <= g
    BY DEF Further, ChainOK
  <2>2. \A k \in DOMAIN c : c[k] \in EventType
    BY <2>1
  <2> QED BY <2>1, <2>2 DEF EventType
<1>2. \A k \in DOMAIN c : k \in DOMAIN d /\ d[k] = c[k]
  BY DEF Further, Grown
<1>3. \A name, i : Seen(c, h, name, i) \subseteq Seen(d, g, name, i)
  BY <1>1, <1>2 DEF Seen
<1>4. \A n, i : SubmissionPolled(c, n, i) => SubmissionPolled(d, n, i)
  BY <1>2 DEF SubmissionPolled
<1>5. \A i : SelectionsSeen(c, h, i) \subseteq SelectionsSeen(d, g, i)
  BY <1>3 DEF SelectionsSeen
<1>6. ASSUME NEW i
      PROVE  \/ Cardinality(SelectionsSeen(d, g, i)) > Cardinality(SelectionsSeen(c, h, i))
             \/ /\ SelectionsSeen(d, g, i) = SelectionsSeen(c, h, i)
                /\ SelectedSeen(d, g, i) = SelectedSeen(c, h, i)
  <2> DEFINE S == SelectionsSeen(c, h, i)
             R == SelectionsSeen(d, g, i)
  <2>1. S \in SUBSET R
    BY <1>5
  <2>2. /\ IsFiniteSet(R) /\ Cardinality(R) \in Nat /\ Cardinality(S) \in Nat
        /\ S # {} => Max(S) \in S
    BY SeenIndices DEF Further
  <2>3. \A k \in S : k \in DOMAIN c
    BY DEF SelectionsSeen, Seen
  <2>4. SelectedSeen(c, h, i) = (IF S = {} THEN {} ELSE c[Max(S)].solver)
    BY DEF SelectedSeen
  <2>5. SelectedSeen(d, g, i) = (IF R = {} THEN {} ELSE d[Max(R)].solver)
    BY DEF SelectedSeen
  <2> HIDE DEF S, R
  <2>6. Cardinality(S) <= Cardinality(R) /\ (Cardinality(R) = Cardinality(S) => S = R)
    BY <2>1, <2>2, FS_Subset
  <2>7. CASE S = R
    <3>1. S # {} => d[Max(S)] = c[Max(S)]
      BY <1>2, <2>2, <2>3
    <3> QED BY <2>4, <2>5, <2>7, <3>1 DEF S, R
  <2>8. CASE S # R
    <3>1. Cardinality(R) > Cardinality(S)
      BY <2>2, <2>6, <2>8
    <3> QED BY <3>1 DEF S, R
  <2> QED BY <2>7, <2>8
<1>7. ASSUME NEW i, OpenSeen(d, g, i), SelectionsSeen(c, h, i) # {}
      PROVE  OpenSeen(c, h, i)
  <2>1. PICK k \in DOMAIN c : Is(c[k], "SolverBidSelected", i) /\ c[k].blockNumber <= h
    BY <1>7 DEF SelectionsSeen, Seen
  <2>2. PICK j \in 1..k : Is(c[j], "IntentSubmitted", c[k].intentId)
    BY DEF Further, ChainOK, SubmittedFirst
  <2>3. j \in DOMAIN c /\ c[j].blockNumber <= c[k].blockNumber
    <3>1. j \in DOMAIN c
      BY <1>1, <2>1, <2>2
    <3> QED BY <3>1, <2>1, <2>2 DEF Further, ChainOK, InBlocks
  <2>4. Is(c[j], "IntentSubmitted", i) /\ c[j].blockNumber <= h
    BY <1>1, <2>1, <2>2, <2>3 DEF Is
  <2>5. Seen(c, h, "IntentSubmitted", i) # {}
    BY <2>3, <2>4 DEF Seen
  <2> QED BY <1>3, <1>7, <2>5 DEF OpenSeen
<1> QED BY <1>4, <1>5, <1>6, <1>7

\* An intent that is seen to be filled is not seen to be open.
LEMMA FilledIsClosed ==
  ASSUME NEW d, NEW g, Visible(d, g), NEW i, NEW k \in DOMAIN d, Is(d[k], "IntentFilled", i)
  PROVE  ~OpenSeen(d, g, i)
BY DEF OpenSeen, Seen, Visible

----------------------------------------------------------------------------
(* The steps of the chain.                                                 *)

\* An event that is none of the agent's doing.
OfOthers(e) ==
  /\ e.name \in {"SolverBidSubmitted", "SolverBidSelected"} => e.solver # {}
  /\ e.name \in {"SolverBidSubmitted", "IntentFilled"} => e.solver # {Self}

\* What is at the end of a sequence with one element more, and with two.
LEMMA AtTheEnd ==
  ASSUME NEW c \in Seq(EventType), NEW e \in EventType, NEW f \in EventType
  PROVE  /\ \A k \in DOMAIN (c \o <<e>>) : k \in DOMAIN c \/ (c \o <<e>>)[k] = e
         /\ \A k \in DOMAIN (c \o <<e, f>>) :
              k \in DOMAIN c \/ (c \o <<e, f>>)[k] = e \/ (c \o <<e, f>>)[k] = f
OBVIOUS

\* The agent's part of the log stays as it was when others append to it.
LEMMA OthersAppend ==
  ASSUME NEW c, NEW d, NEW h, Grown(c, d, h), Named(c),
         \A k \in DOMAIN d : k \in DOMAIN c \/ OfOthers(d[k])
  PROVE  /\ Named(d)
         /\ \A i : BidsBySelf(d, i) = BidsBySelf(c, i)
         /\ \A i : FillBySelf(d, i) => FillBySelf(c, i)
<1>1. \A k \in DOMAIN c : k \in DOMAIN d /\ d[k] = c[k]
  BY DEF Grown
<1>2. Named(d)
  BY <1>1 DEF Named, OfOthers
<1>3. \A i : BidsBySelf(d, i) = BidsBySelf(c, i)
  <2>1. \A i : BidsBySelf(c, i) \subseteq BidsBySelf(d, i)
    BY <1>1 DEF BidsBySelf, BidsOf
  <2>2. \A i : BidsBySelf(d, i) \subseteq BidsBySelf(c, i)
    BY <1>1 DEF BidsBySelf, BidsOf, Is, OfOthers
  <2> QED BY <2>1, <2>2
<1>4. \A i : FillBySelf(d, i) => FillBySelf(c, i)
  BY <1>1 DEF FillBySelf, Is, OfOthers
<1> QED BY <1>2, <1>3, <1>4

\* The transactions of everyone else.
LEMMA TransactionStep ==
  ASSUME ChainOK(chain, head), Named(chain), Transaction
  PROVE  /\ Further(chain, head, chain', head') /\ Named(chain')
         /\ \A i : BidsBySelf(chain', i) = BidsBySelf(chain, i)
         /\ \A i : FillBySelf(chain', i) => FillBySelf(chain, i)
<1> DEFINE ByOthers == /\ ChainOK(chain', head') /\ Grown(chain, chain', head) /\ head' = head
                       /\ \A k \in DOMAIN chain' : k \in DOMAIN chain \/ OfOthers(chain'[k])
<1>1. chain \in Seq(EventType) /\ head \in Nat
  BY DEF ChainOK
<1>2. PICK i \in IntentId :
        \/ SubmitIntent(i)
        \/ CancelIntent(i)
        \/ \E s \in Solver \ {Self} : i \notin late /\ SubmitBid(s, i)
        \/ \E b \in BidId : SelectBid(i, b)
        \/ Selected(i) # {Self} /\ i \notin late /\ FillIntent(i)
  BY DEF Transaction
<1>3. ASSUME NEW e, Fits(chain, head, e), Mined(<<e>>), OfOthers(e)
      PROVE  ByOthers
  <2>1. chain' = chain \o <<e>> /\ e \in EventType
    BY <1>3 DEF Mined, Fits
  <2>2. \A k \in DOMAIN (chain \o <<e>>) : k \in DOMAIN chain \/ (chain \o <<e>>)[k] = e
    BY <1>1, <2>1, AtTheEnd
  <2>3. \A k \in DOMAIN chain' : k \in DOMAIN chain \/ chain'[k] = e
    BY ONLY <2>1, <2>2
  <2> QED BY <1>3, <2>3, MinedOne
<1>4. ByOthers
  <2>1. CASE SubmitIntent(i)
    <3> DEFINE e == Event("IntentSubmitted", i, 0, {})
    <3>1. e \in EventType /\ OfOthers(e) /\ Mined(<<e>>)
      BY <1>1, <2>1 DEF SubmitIntent, Event, EventType, Names, OfOthers
    <3> HIDE DEF e
    <3>2. chain' = chain \o <<e>>
      BY <3>1 DEF Mined
    <3>3. \A k \in DOMAIN (chain \o <<e>>) : k \in DOMAIN chain \/ (chain \o <<e>>)[k] = e
      BY <1>1, <3>1, AtTheEnd
    <3>4. \A k \in DOMAIN chain' : k \in DOMAIN chain \/ chain'[k] = e
      BY ONLY <3>2, <3>3
    <3> QED BY <2>1, <3>1, <3>4, SubmitFits
  <2>2. CASE CancelIntent(i)
    <3> DEFINE e == Event("IntentCancelled", i, 0, {})
    <3>1. e \in EventType /\ OfOthers(e) /\ Mined(<<e>>)
      BY <1>1, <2>2 DEF CancelIntent, Event, EventType, Names, Ends, OfOthers
    <3> HIDE DEF e
    <3>2. chain' = chain \o <<e>>
      BY <3>1 DEF Mined
    <3>3. \A k \in DOMAIN (chain \o <<e>>) : k \in DOMAIN chain \/ (chain \o <<e>>)[k] = e
      BY <1>1, <3>1, AtTheEnd
    <3>4. \A k \in DOMAIN chain' : k \in DOMAIN chain \/ chain'[k] = e
      BY ONLY <3>2, <3>3
    <3> QED BY <2>2, <3>1, <3>4, CancelFits
  <2>3. ASSUME NEW s \in Solver \ {Self}, SubmitBid(s, i)
        PROVE  ByOthers
    <3> DEFINE e == Event("SolverBidSubmitted", i, BidCount(i) + 1, {s})
    <3>1. Fits(chain, head, e) /\ Mined(<<e>>)
      BY <2>3, BidEventFits DEF SubmitBid, BidEvents
    <3>2. OfOthers(e)
      BY <2>3 DEF OfOthers, Event
    <3> QED BY <1>3, <3>1, <3>2
  <2>4. ASSUME NEW b \in BidId, SelectBid(i, b)
        PROVE  ByOthers
    <3> DEFINE e == Event("SolverBidSelected", i, b, Bidder(i, b))
    <3>1. /\ Fits(chain, head, e) /\ Mined(<<e>>)
          /\ \E j \in BidsOf(chain, i) : Bidder(i, b) = chain[j].solver
      BY <2>4, SelectEventFits DEF SelectBid
    <3>2. Bidder(i, b) # {}
      BY <3>1 DEF Named, BidsOf, Is
    <3>3. OfOthers(e)
      BY <3>2 DEF OfOthers, Event
    <3> QED BY <1>3, <3>1, <3>3
  <2>5. CASE Selected(i) # {Self} /\ i \notin late /\ FillIntent(i)
    <3> DEFINE e == Event("IntentFilled", i, 0, Selected(i))
               f == Event("IntentFillProof", i, 0, {})
    <3>1. /\ Fits(chain, head, e) /\ Fits(Append(chain, e), head, f)
          /\ chain' = chain \o <<e, f>> /\ head' = head
      BY <2>5, FillEventsFit DEF FillIntent, FillEvents, Mined
    <3>2. OfOthers(e) /\ OfOthers(f)
      BY <2>5 DEF OfOthers, Event
    <3> HIDE DEF e, f
    <3>3. /\ ChainOK(chain \o <<e, f>>, head) /\ Grown(chain, chain \o <<e, f>>, head)
          /\ \A k \in DOMAIN (chain \o <<e, f>>) :
               k \in DOMAIN chain \/ (chain \o <<e, f>>)[k] = e \/ (chain \o <<e, f>>)[k] = f
      BY <3>1, TwoMore
    <3> QED BY <3>1, <3>2, <3>3
  <2> QED BY <1>2, <2>1, <2>2, <2>3, <2>4, <2>5
<1>5. Further(chain, head, chain', head')
  BY <1>1, <1>4 DEF Further
<1> QED BY <1>4, <1>5, OthersAppend

\* A transaction of the agent lands: afterwards everything there is can be seen.
LEMMA LandedStep ==
  ASSUME ChainOK(chain, head), NEW happens, NEW events, Landed(happens, events),
         happens => ChainOK(chain \o events, head) /\ Grown(chain, chain \o events, head)
  PROVE  /\ Further(chain, head, chain', head') /\ Visible(chain', head')
         /\ happens => chain' = chain \o events
         /\ ~happens => chain' = chain
<1>1. /\ head \in Nat /\ Len(chain) \in Nat /\ DOMAIN chain = 1..Len(chain)
  BY DEF ChainOK
<1>2. /\ happens => chain' = chain \o events
      /\ ~happens => chain' = chain
  BY DEF Landed
<1>3. ChainOK(chain', head) /\ Grown(chain, chain', head)
  <2>1. CASE happens
    BY <1>2, <2>1
  <2>2. CASE ~happens
    <3>1. Grown(chain, chain, head)
      BY <1>1 DEF Grown
    <3>2. chain' = chain
      BY <1>2, <2>2
    <3> QED BY <3>1, <3>2
  <2> QED BY <2>1, <2>2
<1>4. head' = IF Len(chain') > UpTo(chain, head) THEN head + 1 ELSE head
  BY Translation DEF Landed
<1>5. /\ UpTo(chain, head) \in Nat /\ UpTo(chain, head) <= Len(chain)
      /\ \A k \in DOMAIN chain : k <= UpTo(chain, head) <=> chain[k].blockNumber <= head
  BY <1>1, PrefixUpTo
<1>6. Len(chain') \in Nat /\ DOMAIN chain' = 1..Len(chain')
  BY <1>3 DEF ChainOK
<1>7. CASE Len(chain') > UpTo(chain, head)
  <2>1. head' = head + 1
    BY <1>4, <1>7
  <2>2. ChainOK(chain', head')
    BY <1>3, <2>1, NextBlock
  <2>3. Visible(chain', head + 1)
    BY <1>1, <1>3 DEF Visible, ChainOK, InBlocks
  <2>4. Visible(chain', head')
    BY ONLY <2>1, <2>3
  <2>5. head <= head'
    BY <1>1, <2>1
  <2> QED BY <1>2, <1>3, <2>2, <2>4, <2>5 DEF Further
<1>8. CASE ~(Len(chain') > UpTo(chain, head))
  <2>1. head' = head
    BY <1>4, <1>8
  <2>2. ASSUME NEW k \in DOMAIN chain'
        PROVE  chain'[k].blockNumber <= head
    <3>1. k \in DOMAIN chain /\ k <= UpTo(chain, head)
      BY <1>1, <1>5, <1>6, <1>8
    <3>2. chain'[k] = chain[k]
      BY <1>3, <3>1 DEF Grown
    <3>3. chain[k].blockNumber <= head
      BY <1>5, <3>1
    <3> QED BY ONLY <3>2, <3>3
  <2>3. Visible(chain', head)
    BY <2>2 DEF Visible
  <2>4. Visible(chain', head') /\ ChainOK(chain', head') /\ head <= head'
    BY <1>1, <1>3, <2>1, <2>3
  <2> QED BY <1>2, <1>3, <2>4 DEF Further
<1> QED BY <1>7, <1>8

\* The agent's bids are finitely many.
LEMMA OwnBidsFinite ==
  ASSUME NEW c, NEW h, ChainOK(c, h)
  PROVE  \A i : IsFiniteSet(BidsBySelf(c, i)) /\ Cardinality(BidsBySelf(c, i)) \in Nat
<1>1. Len(c) \in Nat /\ DOMAIN c = 1..Len(c)
  BY DEF ChainOK
<1>2. \A i : BidsBySelf(c, i) \in SUBSET (1..Len(c))
  BY <1>1 DEF BidsBySelf, BidsOf
<1> QED BY <1>1, <1>2, Indices

\* A bid of the agent lands, or comes too late.
LEMMA BidLands ==
  ASSUME ChainOK(chain, head), Named(chain), NEW i \in IntentId,
         Landed(IsOpen(i) /\ i \notin late /\ BidCount(i) < MaxBids, BidEvents(Self, i))
  PROVE  /\ Further(chain, head, chain', head') /\ Named(chain')
         /\ \A j : j # i => BidsBySelf(chain', j) = BidsBySelf(chain, j)
         /\ Cardinality(BidsBySelf(chain', i)) <= Cardinality(BidsBySelf(chain, i)) + 1
         /\ \A j : FillBySelf(chain', j) => FillBySelf(chain, j)
<1> DEFINE happens == IsOpen(i) /\ i \notin late /\ BidCount(i) < MaxBids
           e == Event("SolverBidSubmitted", i, BidCount(i) + 1, {Self})
           d == Append(chain, e)
<1>1. Landed(happens, <<e>>)
  BY DEF BidEvents
<1>2. /\ e.name = "SolverBidSubmitted" /\ e.intentId = i /\ e.solver = {Self}
      /\ happens => Fits(chain, head, e)
  BY AgentAssumption, BidEventFits DEF Event
<1> HIDE DEF e
<1>3. happens => /\ chain \o <<e>> = d
                 /\ ChainOK(d, head) /\ Grown(chain, d, head)
                 /\ \A k \in DOMAIN d : k \in DOMAIN chain \/ d[k] = e
  BY <1>2, OneMore
<1> HIDE DEF d
<1>4. happens => ChainOK(chain \o <<e>>, head) /\ Grown(chain, chain \o <<e>>, head)
  BY ONLY <1>3, Zenon
<1>5. \A j : IsFiniteSet(BidsBySelf(chain, j)) /\ Cardinality(BidsBySelf(chain, j)) \in Nat
  BY OwnBidsFinite
<1> HIDE DEF happens
<1>6. /\ Further(chain, head, chain', head')
      /\ happens => chain' = chain \o <<e>>
      /\ ~happens => chain' = chain
  BY <1>1, <1>4, LandedStep
<1>7. CASE ~happens
  BY <1>5, <1>6, <1>7
<1>8. CASE happens
  <2>1. chain' = d
    BY <1>3, <1>6, <1>8
  <2>2. /\ Len(chain) \in Nat /\ DOMAIN chain = 1..Len(chain)
        /\ DOMAIN d = 1..(Len(chain) + 1) /\ d[Len(chain) + 1] = e
        /\ \A k \in DOMAIN chain : d[k] = chain[k] /\ k \in DOMAIN d
        /\ \A k \in DOMAIN d : k \in DOMAIN chain \/ k = Len(chain) + 1
    <3>1. chain \in Seq(EventType) /\ e \in EventType
      BY <1>2, <1>8 DEF ChainOK, Fits
    <3> QED BY <3>1, Appended DEF d
  <2>3. \A j : j # i => BidsBySelf(d, j) = BidsBySelf(chain, j)
    BY <1>2, <2>2 DEF BidsBySelf, BidsOf, Is
  <2>4. BidsBySelf(d, i) \subseteq BidsBySelf(chain, i) \cup {Len(chain) + 1}
    BY <1>2, <2>2 DEF BidsBySelf, BidsOf, Is
  <2>5. Cardinality(BidsBySelf(d, i)) <= Cardinality(BidsBySelf(chain, i)) + 1
    <3> DEFINE T == BidsBySelf(chain, i) \cup {Len(chain) + 1}
    <3>1. IsFiniteSet(T) /\ Cardinality(T) \in Nat
          /\ Cardinality(T) <= Cardinality(BidsBySelf(chain, i)) + 1
      <4>1. /\ IsFiniteSet(BidsBySelf(chain, i)) /\ Cardinality(BidsBySelf(chain, i)) \in Nat
        BY <1>5
      <4>2. IsFiniteSet(T) /\ Cardinality(T) = IF Len(chain) + 1 \in BidsBySelf(chain, i)
                                              THEN Cardinality(BidsBySelf(chain, i))
                                              ELSE Cardinality(BidsBySelf(chain, i)) + 1
        BY <4>1, FS_AddElement
      <4> HIDE DEF T
      <4> QED BY <4>1, <4>2
    <3>2. BidsBySelf(d, i) \in SUBSET T
      BY <2>4
    <3> HIDE DEF T
    <3>3. Cardinality(BidsBySelf(d, i)) <= Cardinality(T) /\ Cardinality(BidsBySelf(d, i)) \in Nat
      BY <3>1, <3>2, FS_Subset, FS_CardinalityType
    <3> QED BY <1>5, <3>1, <3>3
  <2>6. Named(d)
    BY <1>2, <2>2 DEF Named
  <2>7. \A j : FillBySelf(d, j) => FillBySelf(chain, j)
    BY <1>2, <2>2 DEF FillBySelf, Is
  <2> QED BY <1>6, <2>1, <2>3, <2>5, <2>6, <2>7
<1> QED BY <1>7, <1>8

\* A fill of the agent lands, or comes too late: either way there is no more to do.
LEMMA FillLands ==
  ASSUME ChainOK(chain, head), Named(chain), NEW i \in IntentId,
         Landed(IsOpen(i) /\ i \notin late /\ Selected(i) = {Self}, FillEvents(i))
  PROVE  /\ Further(chain, head, chain', head') /\ Named(chain')
         /\ \A j : BidsBySelf(chain', j) = BidsBySelf(chain, j)
         /\ \A j : FillBySelf(chain', j) => FillBySelf(chain, j) \/ j = i
         /\ ~(OpenSeen(chain', head', i) /\ i \notin late /\ SelectedSeen(chain', head', i) = {Self})
<1> DEFINE happens == IsOpen(i) /\ i \notin late /\ Selected(i) = {Self}
           e == Event("IntentFilled", i, 0, Selected(i))
           f == Event("IntentFillProof", i, 0, {})
           d == chain \o <<e, f>>
<1>1. Landed(happens, <<e, f>>)
  BY DEF FillEvents
<1>2. /\ e.name = "IntentFilled" /\ e.intentId = i
      /\ f.name = "IntentFillProof" /\ f.intentId = i
      /\ happens => Fits(chain, head, e) /\ Fits(Append(chain, e), head, f)
  BY FillEventsFit DEF Event
<1> HIDE DEF e, f
<1>3. happens => /\ ChainOK(d, head) /\ Grown(chain, d, head)
                 /\ \A k \in DOMAIN d : k \in DOMAIN chain \/ d[k] = e \/ d[k] = f
  BY <1>2, TwoMore
<1>4. /\ Further(chain, head, chain', head') /\ Visible(chain', head')
      /\ happens => chain' = d
      /\ ~happens => chain' = chain
  <2>1. happens => ChainOK(chain \o <<e, f>>, head) /\ Grown(chain, chain \o <<e, f>>, head)
    BY <1>3
  <2> HIDE DEF happens
  <2>2. Further(chain, head, chain', head') /\ Visible(chain', head')
    BY <1>1, <2>1, LandedStep
  <2>3. happens => chain' = chain \o <<e, f>>
    BY <1>1 DEF Landed
  <2>4. ~happens => chain' = chain
    BY <1>1 DEF Landed
  <2> QED BY <2>2, <2>3, <2>4
<1>5. CASE ~happens
  <2>1. chain' = chain
    BY <1>4, <1>5
  <2>2. Visible(chain, head')
    BY ONLY <1>4, <2>1
  <2>3. ~(OpenSeen(chain, head', i) /\ i \notin late /\ SelectedSeen(chain, head', i) = {Self})
    <3>1. /\ Selected(i) = SelectedSeen(chain, head', i)
          /\ IsOpen(i) <=> OpenSeen(chain, head', i)
      BY <2>2, AllIsSeen
    <3> QED BY <1>5, <3>1
  <2> HIDE DEF happens
  <2> QED BY <1>4, <2>1, <2>3
<1>6. CASE happens
  <2> HIDE DEF happens, d
  <2>1. chain' = d
    BY <1>4, <1>6
  <2>2. \A k \in DOMAIN chain : k \in DOMAIN d /\ d[k] = chain[k]
    BY <1>3, <1>6 DEF Grown
  <2>3. \A k \in DOMAIN d : k \in DOMAIN chain \/ d[k] = e \/ d[k] = f
    BY <1>3, <1>6
  <2>4. \A j : BidsBySelf(d, j) = BidsBySelf(chain, j)
    <3>1. \A j : BidsBySelf(chain, j) \subseteq BidsBySelf(d, j)
      BY <2>2 DEF BidsBySelf, BidsOf
    <3>2. \A j : BidsBySelf(d, j) \subseteq BidsBySelf(chain, j)
      BY <1>2, <2>2, <2>3 DEF BidsBySelf, BidsOf, Is
    <3> QED BY <3>1, <3>2
  <2>5. Named(d)
    BY <1>2, <2>2, <2>3 DEF Named
  <2>6. \A j : FillBySelf(d, j) => FillBySelf(chain, j) \/ j = i
    BY <1>2, <2>2, <2>3 DEF FillBySelf, Is
  <2>7. \E k \in DOMAIN d : Is(d[k], "IntentFilled", i)
    <3>1. chain \in Seq(EventType) /\ Len(chain) \in Nat
      BY DEF ChainOK
    <3>2. Len(chain) + 1 \in DOMAIN d /\ d[Len(chain) + 1] = e
      BY <3>1 DEF d
    <3> QED BY <1>2, <3>2 DEF Is
  <2>8. ~OpenSeen(chain', head', i)
    BY <1>4, <2>1, <2>7, FilledIsClosed
  <2> QED BY <1>4, <2>1, <2>4, <2>5, <2>6, <2>8
<1> QED BY <1>5, <1>6

----------------------------------------------------------------------------
(* The invariant.                                                          *)

\* The variables hold what they should, and the process is at an event exactly when
\* there is one in its hands; it has polled no block that was not mined.
AgentTypes ==
  /\ nextBlock \in Nat
  /\ pc \in Phase \cup {"down", "idle"}
  /\ queue \in Seq(IntentId)
  /\ mempool \in Seq(Sent)
  /\ attested \subseteq IntentId
  /\ late \subseteq IntentId
  /\ executed \in [IntentId -> Nat]
  /\ errors \in Nat
  /\ crashes \in Nat

AgentWhere(h, n, p, q) ==
  /\ p \in Phase <=> q # << >>
  /\ n <= h + 1
  /\ p = "down" => n = 0

\* The submission of what is queued was polled, and an intent is queued twice only
\* if a selection can be seen.
Queued(c, h, n, q) ==
  /\ \A k \in DOMAIN q : SubmissionPolled(c, n, q[k])
  /\ \A j, k \in DOMAIN q : q[j] = q[k] /\ SelectionsSeen(c, h, q[j]) = {} => j = k

One(b) == IF b THEN 1 ELSE 0

InHand(p, q, i) == p \in Phase /\ Head(q) = i

\* The places of an intent in the queue, but for the one that is past its bid.
Unbid(p, q, i) == {k \in DOMAIN q : q[k] = i /\ (k = 1 => p # "await")}

\* The agent may yet bid on the intent in this life: it has not come to the
\* submission, or has the event in its queue and nothing it sees is against it.
MayBid(c, h, n, p, q, i) ==
  \/ ~SubmissionPolled(c, n, i)
  \/ SelectionsSeen(c, h, i) = {} /\ Unbid(p, q, i) # {}
  \/ p = "bid" /\ Head(q) = i

\* Bids made, bids sent and the bid that may come: one for each life.
BidsPaid(c, h, n, p, q, m, z) ==
  \A i \in IntentId :
    Cardinality(BidsBySelf(c, i)) + Cardinality(Waiting(m, <<"bid", i>>))
      + One(MayBid(c, h, n, p, q, i)) <= z + 1

\* The agent is past the choice of its role, and has yet to send the plan.
Committed(p, q, i) == InHand(p, q, i) /\ p \in {"lookUp", "execute"}

\* It is past the choice, up to the landing of the fill.
InProgress(p, q, m, i) ==
  /\ InHand(p, q, i)
  /\ \/ p \in {"lookUp", "execute", "awaitPlan", "fill"}
     \/ p = "await" /\ Waiting(m, <<"fill", i>>) # {}

\* To fill the intent is the agent's, by what it sees.
Ours(c, h, l, i) == OpenSeen(c, h, i) /\ i \notin l /\ SelectedSeen(c, h, i) = {Self}

\* An event may yet make it execute the plan for the selection that stands.
MayExecute(c, h, p, q, m, l, i) ==
  /\ ~InProgress(p, q, m, i)
  /\ \/ Ours(c, h, l, i)
     \/ SelectedSeen(c, h, i) = {Self} /\ InHand(p, q, i) /\ p = "choose"

\* Plans executed, plans sent, the plan that is to be sent and the one that may come:
\* the selections seen, the errors and the crashes pay for them.
PlansPaid(c, h, p, q, m, l, x, z) ==
  \A i \in IntentId :
    x[i] + Cardinality(Waiting(m, <<"plan", i>>)) + One(Committed(p, q, i))
      + One(MayExecute(c, h, p, q, m, l, i))
      <= Cardinality(SelectionsSeen(c, h, i)) + z

\* The plan of an intent comes before its fill, but for those of S.
PlanFirst(c, p, q, m, x, S) ==
  \A i \in IntentId \ S :
    /\ FillBySelf(c, i) => x[i] > 0
    /\ Waiting(m, <<"fill", i>>) # {} => x[i] > 0
    /\ InHand(p, q, i) /\ p = "fill" => x[i] > 0
    /\ InHand(p, q, i) /\ p = "awaitPlan" => x[i] > 0 \/ Waiting(m, <<"plan", i>>) # {}

LogSound == ChainOK(chain, head) /\ Named(chain)

QueueSound ==
  /\ AgentWhere(head, nextBlock, pc, queue)
  /\ Queued(chain, head, nextBlock, queue)

BidsAccount == BidsPaid(chain, head, nextBlock, pc, queue, mempool, crashes)

PlansAccount == PlansPaid(chain, head, pc, queue, mempool, late, executed, errors + crashes)

FillsAfterPlans == PlanFirst(chain, pc, queue, mempool, executed, planless)

AgentInv ==
  LogSound /\ AgentTypes /\ QueueSound /\ BidsAccount /\ PlansAccount /\ FillsAfterPlans

----------------------------------------------------------------------------
(* The kinds of steps.                                                     *)

\* A turn of processIntent: the process finishes with the event in its hands, or
\* goes on with it.
Turn ==
  \/ CheckIntent \/ ChooseRole \/ SendBid \/ LookUp
  \/ ExecutePlan \/ SendFill \/ Receipt \/ Throws

\* A step of the chain.
Onward == Land \/ PlanReverts \/ Transaction \/ MineBlock

LEMMA StepKinds ==
  ASSUME Next
  PROVE  \/ Start \/ Poll \/ Crash \/ Turn \/ Onward
         \/ \E i \in IntentId : Expire(i)
BY DEF Next, Process, Turn, Onward

\* The place of a phase among the values of pc.
LEMMA Phases ==
  /\ Phase = {"check", "choose", "bid", "lookUp", "execute", "fill", "await", "awaitPlan"}
  /\ "idle" \notin Phase /\ "down" \notin Phase
BY DEF Phase

\* What a turn does to the process and to the mempool.
LEMMA TurnStep ==
  ASSUME AgentTypes, AgentWhere(head, nextBlock, pc, queue), Turn
  PROVE  /\ chain' = chain /\ head' = head /\ nextBlock' = nextBlock
         /\ attested' = attested /\ late' = late
         /\ executed' = executed /\ crashes' = crashes /\ errors' \in Nat /\ errors <= errors'
         /\ planless \subseteq planless'
         /\ pc \in Phase /\ queue # << >> /\ Head(queue) \in IntentId
         /\ \/ /\ queue' = Tail(queue) /\ pc' = IF queue' = << >> THEN "idle" ELSE "check"
               /\ mempool' = mempool
            \/ /\ queue' = queue /\ pc' \in Phase \ {"check"} /\ pc # "await"
               /\ pc' = "bid" => SelectedNow(Head(queue)) = {}
               /\ \/ mempool' = mempool /\ pc' # "await"
                  \/ \E kind \in Kind :
                       /\ mempool' = Append(mempool, <<kind, Head(queue)>>)
                       /\ kind = "bid" => pc = "bid" /\ pc' = "await"
<1> DEFINE i == Head(queue)
<1>1. errors \in Nat
  BY DEF AgentTypes
<1>2. ASSUME pc \in Phase
      PROVE  queue # << >> /\ Head(queue) \in IntentId
  BY <1>2 DEF AgentTypes, AgentWhere
<1>3. CASE CheckIntent
  BY <1>1, <1>2, <1>3 DEF CheckIntent, At, GoOn, Finished, Phase, chainVars, worldVars, history
<1>4. CASE ChooseRole
  BY <1>1, <1>2, <1>4 DEF ChooseRole, RoleFor, Current, At, GoOn, Finished, Phase, chainVars, worldVars, history
<1>5. CASE SendBid
  BY <1>1, <1>2, <1>5
     DEF SendBid, SimulateAndSend, Send, Current, At, GoOn, Finished, Phase, Kind, chainVars,
         worldVars, history
<1>6. CASE LookUp
  BY <1>1, <1>2, <1>6 DEF LookUp, At, GoOn, Finished, Phase, chainVars, worldVars, history
<1>8. CASE ExecutePlan
  BY <1>1, <1>2, <1>8
     DEF ExecutePlan, SimulateAndSend, Send, Current, At, GoOn, Finished, Phase, Kind, chainVars,
         worldVars, history
<1>9. CASE SendFill
  BY <1>1, <1>2, <1>9
     DEF SendFill, SimulateAndSend, Send, Current, At, GoOn, Finished, Phase, Kind, chainVars,
         worldVars, history
<1>10. CASE Receipt
  BY <1>1, <1>2, <1>10 DEF Receipt, At, GoOn, Finished, Phase, chainVars, worldVars, history
<1>11. CASE Throws
  BY <1>1, <1>2, <1>11 DEF Throws, At, GoOn, Finished, Phase, chainVars, worldVars, history
<1> QED BY <1>3, <1>4, <1>5, <1>6, <1>8, <1>9, <1>10, <1>11 DEF Turn

\* What the chain's steps do: the first transaction in the mempool is done with, or
\* the log grows by what others do, or a block is mined.
LEMMA OnwardStep ==
  ASSUME LogSound, AgentTypes, Onward
  PROVE  /\ nextBlock' = nextBlock /\ pc' = pc /\ queue' = queue
         /\ attested' = attested /\ late' = late /\ crashes' = crashes
         /\ errors' \in Nat /\ errors <= errors'
         /\ Further(chain, head, chain', head') /\ Named(chain')
         /\ mempool' \in Seq(Sent)
         /\ executed' \in [IntentId -> Nat] /\ \A i \in IntentId : executed[i] <= executed'[i]
         /\ \A i : Cardinality(BidsBySelf(chain', i)) + Cardinality(Waiting(mempool', <<"bid", i>>))
                     <= Cardinality(BidsBySelf(chain, i)) + Cardinality(Waiting(mempool, <<"bid", i>>))
         /\ \A i \in IntentId :
              executed'[i] + Cardinality(Waiting(mempool', <<"plan", i>>))
                <= executed[i] + Cardinality(Waiting(mempool, <<"plan", i>>))
         /\ \A i : Waiting(mempool', <<"fill", i>>) # {} => Waiting(mempool, <<"fill", i>>) # {}
         /\ \A i : Waiting(mempool, <<"fill", i>>) # {} =>
              Waiting(mempool', <<"fill", i>>) # {} \/ ~Ours(chain', head', late, i)
         /\ \A i : FillBySelf(chain', i) =>
              FillBySelf(chain, i) \/ Waiting(mempool, <<"fill", i>>) # {}
         /\ planless \subseteq planless'
         /\ \A i \in IntentId \ planless' :
              Waiting(mempool, <<"plan", i>>) # {} =>
                Waiting(mempool', <<"plan", i>>) # {} \/ executed'[i] > 0
<1>1. /\ ChainOK(chain, head) /\ Named(chain) /\ head \in Nat
      /\ mempool \in Seq(Sent) /\ executed \in [IntentId -> Nat] /\ errors \in Nat
  BY DEF LogSound, AgentTypes, ChainOK
<1>2. \A j : IsFiniteSet(BidsBySelf(chain, j)) /\ Cardinality(BidsBySelf(chain, j)) \in Nat
  BY <1>1, OwnBidsFinite
<1>3. CASE MineBlock
  <2>1. /\ nextBlock' = nextBlock /\ pc' = pc /\ queue' = queue
        /\ attested' = attested /\ late' = late /\ crashes' = crashes
        /\ errors' = errors /\ mempool' = mempool /\ executed' = executed
        /\ chain' = chain /\ head' = head + 1 /\ planless' = planless
    BY <1>3 DEF MineBlock, Mine, agentVars, worldVars, history
  <2>2. ChainOK(chain, head + 1) /\ Grown(chain, chain, head)
    <3>1. Len(chain) <= Len(chain)
      BY <1>1 DEF ChainOK
    <3> QED BY <1>1, <3>1, NextBlock DEF Grown
  <2>3. Further(chain, head, chain', head')
    <3>1. Further(chain, head, chain, head + 1)
      BY <1>1, <2>2 DEF Further
    <3> QED BY ONLY <2>1, <3>1, Zenon
  <2>4. /\ \A u : Cardinality(Waiting(mempool, u)) \in Nat
        /\ \A i \in IntentId : executed[i] \in Nat
    BY <1>1, WaitingFinite
  <2>5. \A i : Cardinality(BidsBySelf(chain', i)) + Cardinality(Waiting(mempool', <<"bid", i>>))
                 <= Cardinality(BidsBySelf(chain, i)) + Cardinality(Waiting(mempool, <<"bid", i>>))
    BY <1>2, <2>1, <2>4
  <2>6. \A i \in IntentId :
          executed'[i] + Cardinality(Waiting(mempool', <<"plan", i>>))
            <= executed[i] + Cardinality(Waiting(mempool, <<"plan", i>>))
    BY <2>1, <2>4
  <2>7. /\ planless \subseteq planless'
        /\ \A i \in IntentId \ planless' : Waiting(mempool, <<"plan", i>>) # {} =>
             Waiting(mempool', <<"plan", i>>) # {}
    BY <2>1
  <2> QED BY <1>1, <2>1, <2>3, <2>5, <2>6, <2>7
<1>4. CASE Transaction
  <2>1. /\ nextBlock' = nextBlock /\ pc' = pc /\ queue' = queue
        /\ attested' = attested /\ late' = late /\ crashes' = crashes
        /\ errors' = errors /\ mempool' = mempool /\ executed' = executed
        /\ planless' = planless
    BY <1>4 DEF Transaction, agentVars, worldVars, history
  <2>2. /\ Further(chain, head, chain', head') /\ Named(chain')
        /\ \A i : BidsBySelf(chain', i) = BidsBySelf(chain, i)
        /\ \A i : FillBySelf(chain', i) => FillBySelf(chain, i)
    BY <1>1, <1>4, TransactionStep
  <2>4. /\ \A u : Cardinality(Waiting(mempool, u)) \in Nat
        /\ \A i \in IntentId : executed[i] \in Nat
    BY <1>1, WaitingFinite
  <2>5. \A i : Cardinality(BidsBySelf(chain', i)) + Cardinality(Waiting(mempool', <<"bid", i>>))
                 <= Cardinality(BidsBySelf(chain, i)) + Cardinality(Waiting(mempool, <<"bid", i>>))
    BY <1>2, <2>1, <2>2, <2>4
  <2>6. \A i \in IntentId :
          executed'[i] + Cardinality(Waiting(mempool', <<"plan", i>>))
            <= executed[i] + Cardinality(Waiting(mempool, <<"plan", i>>))
    BY <2>1, <2>4
  <2> QED BY <1>1, <2>1, <2>2, <2>5, <2>6
<1>5. CASE Land \/ PlanReverts
  <2> DEFINE t == Head(mempool)
             m == Tail(mempool)
             kind == Head(mempool)[1]
             i == Head(mempool)[2]
  <2>1. mempool # << >> /\ \E happens, events : Landed(happens, events)
    BY <1>5 DEF Land, PlanReverts
  <2>2. t \in Sent /\ m \in Seq(Sent)
    BY <1>1, <2>1
  <2>3. kind \in Kind /\ i \in IntentId /\ t = <<kind, i>>
    BY <2>2 DEF Sent
  <2>4. /\ nextBlock' = nextBlock /\ pc' = pc /\ queue' = queue
        /\ attested' = attested /\ late' = late /\ crashes' = crashes
        /\ mempool' = m
    BY <2>1 DEF Landed, agentVars, worldVars
  <2>5. /\ \A u : IsFiniteSet(Waiting(m, u)) /\ Cardinality(Waiting(m, u)) \in Nat
        /\ \A u : u # t => Cardinality(Waiting(m, u)) = Cardinality(Waiting(mempool, u))
        /\ \A u : u # t => (Waiting(m, u) = {} <=> Waiting(mempool, u) = {})
        /\ Waiting(mempool, t) # {}
        /\ Cardinality(Waiting(mempool, t)) = Cardinality(Waiting(m, t)) + 1
    BY <1>1, <2>1, WaitingTail
  <2>6. \A u : /\ Cardinality(Waiting(mempool, u)) \in Nat
               /\ Waiting(m, u) # {} => Waiting(mempool, u) # {}
    BY <2>5
  <2>7. \A k, j : <<k, j>> = t => k = kind /\ j = i
    OBVIOUS
  <2>8. \A j \in IntentId : executed[j] \in Nat
    BY <1>1
  <2>9. kind \in {"bid", "plan", "fill"} /\ {"bid", "plan", "fill"} = Kind
    BY <2>3 DEF Kind
  <2> HIDE DEF m, t, kind, i
  <2>10. CASE kind = "bid" /\ Land
    <3>1. /\ Landed(IsOpen(i) /\ i \notin late /\ BidCount(i) < MaxBids, BidEvents(Self, i))
          /\ executed' = executed /\ errors' = errors /\ planless' = planless
      BY <2>10 DEF Land, kind, i
    <3>2. /\ Further(chain, head, chain', head') /\ Named(chain')
          /\ \A j : j # i => BidsBySelf(chain', j) = BidsBySelf(chain, j)
          /\ Cardinality(BidsBySelf(chain', i)) <= Cardinality(BidsBySelf(chain, i)) + 1
          /\ \A j : FillBySelf(chain', j) => FillBySelf(chain, j)
      BY <1>1, <2>3, <3>1, BidLands
    <3>3. \A j : Cardinality(BidsBySelf(chain', j)) \in Nat
      <4>1. ChainOK(chain', head')
        BY <3>2 DEF Further
      <4> QED BY <4>1, OwnBidsFinite
    <3>4. ASSUME NEW j
          PROVE  Cardinality(BidsBySelf(chain', j)) + Cardinality(Waiting(m, <<"bid", j>>))
                   <= Cardinality(BidsBySelf(chain, j)) + Cardinality(Waiting(mempool, <<"bid", j>>))
      <4>1. CASE j = i
        <5>1. Cardinality(Waiting(mempool, <<"bid", i>>)) = Cardinality(Waiting(m, <<"bid", i>>)) + 1
          BY <2>3, <2>5, <2>10
        <5> QED BY <1>2, <2>5, <3>2, <3>3, <4>1, <5>1
      <4>2. CASE j # i
        <5>1. Cardinality(Waiting(m, <<"bid", j>>)) = Cardinality(Waiting(mempool, <<"bid", j>>))
          BY <2>5, <2>7, <2>9, <4>2
        <5> QED BY <1>2, <2>5, <3>2, <4>2, <5>1
      <4> QED BY <4>1, <4>2
    <3>5. \A j : /\ <<"plan", j>> # t /\ <<"fill", j>> # t
      BY <2>7, <2>9, <2>10
    <3>6. \A j : /\ Cardinality(Waiting(m, <<"plan", j>>)) = Cardinality(Waiting(mempool, <<"plan", j>>))
                 /\ Waiting(m, <<"plan", j>>) = {} <=> Waiting(mempool, <<"plan", j>>) = {}
                 /\ Waiting(m, <<"fill", j>>) = {} <=> Waiting(mempool, <<"fill", j>>) = {}
      BY <2>5, <3>5
    <3>7. ASSUME NEW j \in IntentId
          PROVE  executed[j] + Cardinality(Waiting(m, <<"plan", j>>))
                   <= executed[j] + Cardinality(Waiting(mempool, <<"plan", j>>))
      BY <2>6, <2>8, <3>6
    <3>8. /\ \A j : Waiting(m, <<"fill", j>>) = {} <=> Waiting(mempool, <<"fill", j>>) = {}
          /\ \A j : Waiting(m, <<"plan", j>>) = {} <=> Waiting(mempool, <<"plan", j>>) = {}
      BY <3>6
    <3>11. errors' \in Nat /\ errors <= errors' /\ executed' \in [IntentId -> Nat]
           /\ \A j \in IntentId : executed[j] <= executed'[j]
      BY <1>1, <2>8, <3>1
    <3> QED BY <2>2, <2>4, <3>1, <3>2, <3>4, <3>7, <3>8, <3>11
  <2>11. CASE kind = "fill" /\ Land
    <3>1. /\ Landed(IsOpen(i) /\ i \notin late /\ Selected(i) = {Self}, FillEvents(i))
          /\ executed' = executed /\ errors' = errors /\ planless' = planless
      BY <2>11 DEF Land, kind, i
    <3>2. /\ Further(chain, head, chain', head') /\ Named(chain')
          /\ \A j : BidsBySelf(chain', j) = BidsBySelf(chain, j)
          /\ \A j : FillBySelf(chain', j) => FillBySelf(chain, j) \/ j = i
          /\ ~Ours(chain', head', late, i)
      BY <1>1, <2>3, <3>1, FillLands DEF Ours
    <3>5. \A j : /\ <<"plan", j>> # t /\ <<"bid", j>> # t
                 /\ j # i => <<"fill", j>> # t
      BY <2>7, <2>9, <2>11
    <3>6. \A j : /\ Cardinality(Waiting(m, <<"plan", j>>)) = Cardinality(Waiting(mempool, <<"plan", j>>))
                 /\ Cardinality(Waiting(m, <<"bid", j>>)) = Cardinality(Waiting(mempool, <<"bid", j>>))
                 /\ Waiting(m, <<"plan", j>>) = {} <=> Waiting(mempool, <<"plan", j>>) = {}
                 /\ j # i => (Waiting(m, <<"fill", j>>) = {} <=> Waiting(mempool, <<"fill", j>>) = {})
      BY <2>5, <3>5
    <3>7. Waiting(mempool, <<"fill", i>>) # {}
      BY <2>3, <2>5, <2>11
    <3>8. /\ \A j \in IntentId : executed[j] + Cardinality(Waiting(m, <<"plan", j>>))
                                   <= executed[j] + Cardinality(Waiting(mempool, <<"plan", j>>))
          /\ \A j : Cardinality(BidsBySelf(chain', j)) + Cardinality(Waiting(m, <<"bid", j>>))
                      <= Cardinality(BidsBySelf(chain, j)) + Cardinality(Waiting(mempool, <<"bid", j>>))
      BY <1>2, <2>6, <2>8, <3>2, <3>6
    <3>9. \A j : Waiting(mempool, <<"fill", j>>) # {} =>
                   Waiting(m, <<"fill", j>>) # {} \/ ~Ours(chain', head', late, j)
      BY <3>2, <3>6
    <3>10. \A j : FillBySelf(chain', j) => FillBySelf(chain, j) \/ Waiting(mempool, <<"fill", j>>) # {}
      BY <3>2, <3>7
    <3>11. errors' \in Nat /\ errors <= errors' /\ executed' \in [IntentId -> Nat]
           /\ \A j \in IntentId : executed[j] <= executed'[j]
      BY <1>1, <2>8, <3>1
    <3> QED BY <2>2, <2>4, <2>6, <3>1, <3>2, <3>6, <3>8, <3>9, <3>10, <3>11
  <2>12. CASE kind = "plan"
    <3>1. /\ Landed(FALSE, << >>)
          /\ \/ /\ executed' = [executed EXCEPT ![i] = @ + 1] /\ errors' = errors
                /\ planless' = planless
             \/ /\ executed' = executed /\ errors' = errors + 1
                /\ planless' = planless \cup {i}
      BY <1>5, <2>12 DEF Land, PlanReverts, kind, i
    <3>2. Further(chain, head, chain', head') /\ chain' = chain
      BY <1>1, <3>1, LandedStep
    <3>3. /\ executed' \in [IntentId -> Nat]
          /\ \A j \in IntentId : executed'[j] \in Nat /\ executed[j] <= executed'[j]
          /\ \A j \in IntentId : j # i => executed'[j] = executed[j]
          /\ executed'[i] <= executed[i] + 1
          /\ errors' \in Nat /\ errors <= errors'
          /\ planless \subseteq planless'
          /\ i \in planless' \/ executed'[i] > 0
      <4>1. CASE /\ executed' = [executed EXCEPT ![i] = @ + 1] /\ errors' = errors
                 /\ planless' = planless
        BY <1>1, <2>3, <2>8, <4>1
      <4>2. CASE /\ executed' = executed /\ errors' = errors + 1
                 /\ planless' = planless \cup {i}
        BY <1>1, <2>3, <2>8, <4>2
      <4> QED BY <3>1, <4>1, <4>2
    <3>5. \A j : /\ <<"fill", j>> # t /\ <<"bid", j>> # t
                 /\ j # i => <<"plan", j>> # t
      BY <2>7, <2>9, <2>12
    <3>6. \A j : /\ Cardinality(Waiting(m, <<"bid", j>>)) = Cardinality(Waiting(mempool, <<"bid", j>>))
                 /\ Waiting(m, <<"fill", j>>) = {} <=> Waiting(mempool, <<"fill", j>>) = {}
                 /\ j # i => /\ Waiting(m, <<"plan", j>>) = {} <=> Waiting(mempool, <<"plan", j>>) = {}
                             /\ Cardinality(Waiting(m, <<"plan", j>>))
                                  = Cardinality(Waiting(mempool, <<"plan", j>>))
      BY <2>5, <3>5
    <3>7. Cardinality(Waiting(mempool, <<"plan", i>>)) = Cardinality(Waiting(m, <<"plan", i>>)) + 1
      BY <2>3, <2>5, <2>12
    <3>8. ASSUME NEW j \in IntentId
          PROVE  executed'[j] + Cardinality(Waiting(m, <<"plan", j>>))
                   <= executed[j] + Cardinality(Waiting(mempool, <<"plan", j>>))
      BY <2>5, <2>6, <2>8, <3>3, <3>6, <3>7
    <3>9. ASSUME NEW j
          PROVE  Cardinality(BidsBySelf(chain', j)) + Cardinality(Waiting(m, <<"bid", j>>))
                   <= Cardinality(BidsBySelf(chain, j)) + Cardinality(Waiting(mempool, <<"bid", j>>))
      BY <1>2, <2>6, <3>2, <3>6
    <3>10. Named(chain') /\ \A j : FillBySelf(chain', j) => FillBySelf(chain, j)
      BY <1>1, <3>2
    <3>11. \A j \in IntentId \ planless' : Waiting(mempool, <<"plan", j>>) # {} =>
             Waiting(m, <<"plan", j>>) # {} \/ executed'[j] > 0
      BY <3>3, <3>6
    <3> QED BY <2>2, <2>4, <2>6, <3>2, <3>3, <3>6, <3>8, <3>9, <3>10, <3>11
  <2>13. kind = "plan" \/ Land
    BY <1>5 DEF PlanReverts, kind
  <2> QED BY <2>9, <2>10, <2>11, <2>12, <2>13
<1> QED BY <1>3, <1>4, <1>5 DEF Onward

----------------------------------------------------------------------------
(* The log, the types and the queue.                                       *)

\* The steps of the process and of the world that leave the log alone.
LEMMA LogAlone ==
  ASSUME Next, ~Onward
  PROVE  chain' = chain /\ head' = head
<1>1. CASE Turn
  BY <1>1 DEF Turn, CheckIntent, ChooseRole, SendBid, LookUp, ExecutePlan, SendFill,
              SimulateAndSend, Receipt, Throws, chainVars
<1>2. CASE Start \/ Poll \/ Crash
  BY <1>2 DEF Start, Poll, Crash, chainVars
<1>3. CASE \E i \in IntentId : Expire(i)
  BY <1>3 DEF Expire, chainVars
<1> QED BY <1>1, <1>2, <1>3, StepKinds

\* The log stays sound.
LEMMA LogStep ==
  ASSUME LogSound, AgentTypes, Next
  PROVE  LogSound'
<1>1. CASE Onward
  BY <1>1, OnwardStep DEF LogSound, Further
<1>2. CASE ~Onward
  BY <1>2, LogAlone DEF LogSound
<1> QED BY <1>1, <1>2

\* What a poll finds: every intent with its submission, and twice, or again, only if a
\* selection is seen.
LEMMA PolledIsQueue ==
  ASSUME ChainOK(chain, head), nextBlock \in Nat
  PROVE  /\ Polled \in Seq(IntentId)
         /\ \A h : h = head + 1 =>
              \A k \in DOMAIN Polled : SubmissionPolled(chain, h, Polled[k])
         /\ \A k \in DOMAIN Polled :
              SelectionsSeen(chain, head, Polled[k]) = {} =>
                ~SubmissionPolled(chain, nextBlock, Polled[k])
         /\ \A j, k \in DOMAIN Polled :
              Polled[j] = Polled[k] /\ SelectionsSeen(chain, head, Polled[j]) = {} => j = k
<1> DEFINE new == Found("IntentSubmitted")
           chosen == Found("SolverBidSelected")
           N == Len(new)
<1>1. /\ head \in Nat /\ chain \in Seq(EventType) /\ DOMAIN chain = 1..Len(chain) /\ Len(chain) \in Nat
  BY DEF ChainOK
<1>2. \A k \in DOMAIN chain : chain[k].blockNumber \in Nat
  <2>1. \A k \in DOMAIN chain : chain[k] \in EventType
    BY <1>1
  <2> QED BY ONLY <2>1 DEF EventType
<1>3. new \in Seq(IntentId) /\ chosen \in Seq(IntentId) /\ N \in Nat /\ DOMAIN new = 1..N
  BY FoundEvents
<1>4. PICK at : /\ \A n \in DOMAIN new :
                     /\ at[n] \in DOMAIN chain
                     /\ Is(chain[at[n]], "IntentSubmitted", new[n])
                     /\ nextBlock <= chain[at[n]].blockNumber
                     /\ chain[at[n]].blockNumber <= head
                /\ \A m, n \in DOMAIN new : at[m] = at[n] => m = n
  BY FoundEvents
<1>5. PICK on : \A n \in DOMAIN chosen :
                     /\ on[n] \in DOMAIN chain
                     /\ Is(chain[on[n]], "SolverBidSelected", chosen[n])
                     /\ chain[on[n]].blockNumber <= head
  BY FoundEvents
<1>6. Polled = new \o chosen
  BY DEF Polled
<1> HIDE DEF new, chosen, N
<1>7. /\ Polled \in Seq(IntentId)
      /\ \A k \in DOMAIN Polled :
           \/ k \in DOMAIN new /\ Polled[k] = new[k]
           \/ \E n \in DOMAIN chosen : Polled[k] = chosen[n]
  BY <1>3, <1>6 DEF N
<1>8. \A n \in DOMAIN chosen : SelectionsSeen(chain, head, chosen[n]) # {}
  BY <1>5 DEF SelectionsSeen, Seen
<1>9. \A n \in DOMAIN new : SubmissionPolled(chain, head + 1, new[n])
  <2>1. \A n \in DOMAIN new : chain[at[n]].blockNumber < head + 1
    BY <1>1, <1>2, <1>4
  <2> QED BY <1>4, <2>1 DEF SubmissionPolled
<1>10. ASSUME NEW n \in DOMAIN chosen
       PROVE  SubmissionPolled(chain, head + 1, chosen[n])
  <2> DEFINE k == on[n]
  <2>1. k \in DOMAIN chain /\ Is(chain[k], "SolverBidSelected", chosen[n]) /\ chain[k].blockNumber <= head
    BY <1>5
  <2> HIDE DEF k
  <2>2. PICK j \in 1..k : Is(chain[j], "IntentSubmitted", chain[k].intentId)
    BY <2>1 DEF ChainOK, SubmittedFirst
  <2>3. j \in DOMAIN chain
    BY <1>1, <2>1, <2>2
  <2>4. chain[j].blockNumber <= chain[k].blockNumber
    BY <2>1, <2>2 DEF ChainOK, InBlocks
  <2>5. chain[j].blockNumber < head + 1
    BY <1>1, <1>2, <2>1, <2>3, <2>4
  <2>6. Is(chain[j], "IntentSubmitted", chosen[n])
    BY <2>1, <2>2 DEF Is
  <2> QED BY <2>3, <2>5, <2>6 DEF SubmissionPolled
<1>11. \A k \in DOMAIN Polled : SubmissionPolled(chain, head + 1, Polled[k])
  BY <1>7, <1>9, <1>10
<1>12. ASSUME NEW n \in DOMAIN new
       PROVE  ~SubmissionPolled(chain, nextBlock, new[n])
  <2> SUFFICES ASSUME NEW k \in DOMAIN chain, Is(chain[k], "IntentSubmitted", new[n]),
                      chain[k].blockNumber < nextBlock
               PROVE  FALSE
    BY DEF SubmissionPolled
  <2>1. k = at[n]
    BY <1>4 DEF ChainOK, SubmittedFirst, Is
  <2> QED BY <1>2, <1>4, <2>1
<1>13. ASSUME NEW j \in DOMAIN new, NEW k \in DOMAIN new, new[j] = new[k]
       PROVE  j = k
  <2>1. at[j] = at[k]
    BY <1>4, <1>13 DEF ChainOK, SubmittedFirst, Is
  <2> QED BY <1>4, <2>1
<1>14. \A k \in DOMAIN Polled : SelectionsSeen(chain, head, Polled[k]) = {} =>
         k \in DOMAIN new /\ Polled[k] = new[k]
  BY <1>7, <1>8
<1> QED BY <1>7, <1>11, <1>12, <1>13, <1>14

\* The variables keep their types.
LEMMA TypesStep ==
  ASSUME LogSound, AgentTypes, QueueSound, Next
  PROVE  AgentTypes'
<1>1. /\ ChainOK(chain, head) /\ head \in Nat
      /\ nextBlock \in Nat /\ pc \in Phase \cup {"down", "idle"}
      /\ queue \in Seq(IntentId) /\ mempool \in Seq(Sent)
      /\ attested \subseteq IntentId /\ late \subseteq IntentId
      /\ executed \in [IntentId -> Nat] /\ errors \in Nat /\ crashes \in Nat
  BY DEF LogSound, ChainOK, AgentTypes
<1>2. CASE Start
  BY <1>1, <1>2 DEF Start, FirstBlock, AgentTypes, worldVars, history
<1>3. CASE Poll
  <2>1. Polled \in Seq(IntentId)
    BY <1>1, PolledIsQueue
  <2> QED BY <1>1, <1>3, <2>1, Phases DEF Poll, AgentTypes, worldVars, history
<1>4. CASE Crash
  BY <1>1, <1>4 DEF Crash, AgentTypes, worldVars, history
<1>5. CASE Turn
  <2>1. /\ nextBlock' = nextBlock /\ attested' = attested /\ late' = late
        /\ executed' = executed /\ crashes' = crashes /\ errors' \in Nat
        /\ queue # << >> /\ Head(queue) \in IntentId
        /\ \/ queue' = Tail(queue) /\ pc' \in {"idle", "check"} /\ mempool' = mempool
           \/ /\ queue' = queue /\ pc' \in Phase
              /\ \/ mempool' = mempool
                 \/ \E kind \in Kind : mempool' = Append(mempool, <<kind, Head(queue)>>)
    BY <1>5, TurnStep DEF QueueSound
  <2>2. queue' \in Seq(IntentId)
    <3>1. Tail(queue) \in Seq(IntentId)
      BY <1>1, <2>1
    <3> QED BY <1>1, <2>1, <3>1
  <2>4. pc' \in Phase \cup {"down", "idle"}
    BY <2>1, Phases
  <2>3. mempool' \in Seq(Sent)
    <3>1. ASSUME NEW kind \in Kind
          PROVE  Append(mempool, <<kind, Head(queue)>>) \in Seq(Sent)
      <4>1. <<kind, Head(queue)>> \in Sent
        BY <2>1 DEF Sent
      <4> QED BY <1>1, <4>1
    <3> QED BY <1>1, <2>1, <3>1
  <2> QED BY <1>1, <2>1, <2>2, <2>3, <2>4 DEF AgentTypes
<1>6. CASE Onward
  BY <1>1, <1>6, OnwardStep DEF AgentTypes
<1>7. ASSUME NEW i \in IntentId, Expire(i)
      PROVE  AgentTypes'
  BY <1>1, <1>7 DEF Expire, AgentTypes, history, agentVars
<1> QED BY <1>2, <1>3, <1>4, <1>5, <1>6, <1>7, StepKinds

\* An event is taken from the queue.
LEMMA QueuedTail ==
  ASSUME NEW c, NEW h, NEW n, NEW q \in Seq(IntentId), q # << >>, Queued(c, h, n, q)
  PROVE  /\ Queued(c, h, n, Tail(q))
         /\ \A k \in DOMAIN Tail(q) : k + 1 \in DOMAIN q /\ Tail(q)[k] = q[k + 1] /\ k + 1 # 1
<1> DEFINE r == Tail(q)
<1>1. \A k \in DOMAIN r : k \in Nat /\ k + 1 \in DOMAIN q /\ r[k] = q[k + 1] /\ k + 1 # 1
  OBVIOUS
<1> HIDE DEF r
<1>2. \A j, k \in DOMAIN r : j + 1 = k + 1 => j = k
  BY <1>1
<1>3. Queued(c, h, n, r)
  BY <1>1, <1>2 DEF Queued
<1> QED BY <1>1, <1>3 DEF r

\* The log goes on under the queue.
LEMMA QueuedFurther ==
  ASSUME NEW c, NEW h, NEW d, NEW g, NEW n, NEW q, Further(c, h, d, g), Queued(c, h, n, q)
  PROVE  Queued(d, g, n, q)
BY SeenFurther DEF Queued

\* The queue stays as it should be.
LEMMA QueueStep ==
  ASSUME LogSound, AgentTypes, QueueSound, Next
  PROVE  QueueSound'
<1>1. /\ ChainOK(chain, head) /\ head \in Nat
      /\ nextBlock \in Nat /\ pc \in Phase \cup {"down", "idle"} /\ queue \in Seq(IntentId)
  BY DEF LogSound, ChainOK, AgentTypes
<1>2. /\ pc \in Phase <=> queue # << >>
      /\ nextBlock <= head + 1
      /\ pc = "down" => nextBlock = 0
      /\ Queued(chain, head, nextBlock, queue)
  BY DEF QueueSound, AgentWhere
<1>3. \A n : Queued(chain, head, n, << >>)
  BY DEF Queued
<1>4. CASE Start
  <2>1. /\ queue' = << >> /\ pc' = "idle" /\ nextBlock' \in Nat /\ nextBlock' <= head + 1
        /\ chain' = chain /\ head' = head
    BY <1>1, <1>2, <1>4, Phases DEF Start, FirstBlock, chainVars
  <2>2. AgentWhere(head, nextBlock', "idle", << >>) /\ Queued(chain, head, nextBlock', << >>)
    BY <1>3, <2>1, Phases DEF AgentWhere
  <2>3. AgentWhere(head', nextBlock', pc', queue') /\ Queued(chain', head', nextBlock', queue')
    BY <2>1, <2>2
  <2> QED BY <2>3 DEF QueueSound
<1>5. CASE Poll
  <2>1. /\ queue' = Polled /\ nextBlock' = head + 1 /\ chain' = chain /\ head' = head
        /\ pc' = IF Polled = << >> THEN "idle" ELSE "check"
    BY <1>5 DEF Poll, chainVars
  <2>2. Queued(chain, head, head + 1, Polled)
    BY <1>1, PolledIsQueue DEF Queued
  <2>3. AgentWhere(head, head + 1, pc', Polled)
    <3>1. head + 1 <= head + 1 /\ pc' # "down" /\ (pc' \in Phase <=> Polled # << >>)
      BY <1>1, <2>1, Phases
    <3> QED BY <3>1 DEF AgentWhere
  <2>4. AgentWhere(head', nextBlock', pc', queue') /\ Queued(chain', head', nextBlock', queue')
    BY ONLY <2>1, <2>2, <2>3
  <2> QED BY <2>4 DEF QueueSound
<1>6. CASE Crash
  <2>1. /\ queue' = << >> /\ pc' = "down" /\ nextBlock' = 0 /\ chain' = chain /\ head' = head
    BY <1>6 DEF Crash, chainVars
  <2>2. AgentWhere(head, 0, "down", << >>) /\ Queued(chain, head, 0, << >>)
    BY <1>1, <1>3, Phases DEF AgentWhere
  <2>3. AgentWhere(head', nextBlock', pc', queue') /\ Queued(chain', head', nextBlock', queue')
    BY ONLY <2>1, <2>2
  <2> QED BY <2>3 DEF QueueSound
<1>7. CASE Turn
  <2>1. /\ nextBlock' = nextBlock /\ chain' = chain /\ head' = head
        /\ pc \in Phase /\ queue # << >>
        /\ \/ queue' = Tail(queue) /\ pc' = IF queue' = << >> THEN "idle" ELSE "check"
           \/ queue' = queue /\ pc' \in Phase
    BY <1>7, TurnStep DEF QueueSound
  <2>2. Queued(chain, head, nextBlock, queue')
    BY <1>1, <1>2, <2>1, QueuedTail
  <2>3. AgentWhere(head, nextBlock, pc', queue')
    BY <1>2, <2>1, Phases DEF AgentWhere
  <2>4. AgentWhere(head', nextBlock', pc', queue') /\ Queued(chain', head', nextBlock', queue')
    BY <2>1, <2>2, <2>3
  <2> QED BY <2>4 DEF QueueSound
<1>8. CASE Onward
  <2>1. /\ nextBlock' = nextBlock /\ pc' = pc /\ queue' = queue
        /\ Further(chain, head, chain', head')
    BY <1>8, OnwardStep
  <2>2. Queued(chain', head', nextBlock, queue)
    BY <1>2, <2>1, QueuedFurther
  <2>3. head' \in Nat /\ head <= head'
    BY <2>1 DEF Further, ChainOK
  <2>4. AgentWhere(head', nextBlock, pc, queue)
    <3>2. \A g \in Nat : head <= g => nextBlock <= g + 1
      BY <1>1, <1>2
    <3>1. nextBlock <= head' + 1
      BY <2>3, <3>2
    <3> QED BY <1>2, <3>1 DEF AgentWhere
  <2>5. AgentWhere(head', nextBlock', pc', queue') /\ Queued(chain', head', nextBlock', queue')
    BY <2>1, <2>2, <2>4
  <2> QED BY <2>5 DEF QueueSound
<1>9. ASSUME NEW i \in IntentId, Expire(i)
      PROVE  QueueSound'
  <2>1. nextBlock' = nextBlock /\ pc' = pc /\ queue' = queue /\ chain' = chain /\ head' = head
    BY <1>9 DEF Expire, agentVars, chainVars, history
  <2> QED BY <2>1 DEF QueueSound
<1> QED BY <1>4, <1>5, <1>6, <1>7, <1>8, <1>9, StepKinds

----------------------------------------------------------------------------
(* The account of the bids.                                                *)

\* Nothing more is made, sent or may come: the account stays settled.
LEMMA BidsKept ==
  ASSUME NEW c, NEW h, NEW n, NEW p, NEW q, NEW m, NEW z \in Nat,
         BidsPaid(c, h, n, p, q, m, z),
         NEW d, NEW g, NEW o, NEW r, NEW s, NEW w,
         \A i \in IntentId : /\ Cardinality(BidsBySelf(c, i)) \in Nat
                             /\ Cardinality(BidsBySelf(d, i)) \in Nat
                             /\ Cardinality(Waiting(m, <<"bid", i>>)) \in Nat
                             /\ Cardinality(Waiting(w, <<"bid", i>>)) \in Nat,
         \A i \in IntentId :
           Cardinality(BidsBySelf(d, i)) + Cardinality(Waiting(w, <<"bid", i>>))
             <= Cardinality(BidsBySelf(c, i)) + Cardinality(Waiting(m, <<"bid", i>>)),
         \A i \in IntentId : MayBid(d, g, o, r, s, i) => MayBid(c, h, n, p, q, i)
  PROVE  BidsPaid(d, g, o, r, s, w, z)
<1> SUFFICES ASSUME NEW i \in IntentId
             PROVE  Cardinality(BidsBySelf(d, i)) + Cardinality(Waiting(w, <<"bid", i>>))
                      + One(MayBid(d, g, o, r, s, i)) <= z + 1
  BY DEF BidsPaid
<1>1. Cardinality(BidsBySelf(c, i)) + Cardinality(Waiting(m, <<"bid", i>>))
        + One(MayBid(c, h, n, p, q, i)) <= z + 1
  BY DEF BidsPaid
<1>2. One(MayBid(d, g, o, r, s, i)) <= One(MayBid(c, h, n, p, q, i))
  BY DEF One
<1>3. One(MayBid(d, g, o, r, s, i)) \in Nat /\ One(MayBid(c, h, n, p, q, i)) \in Nat
  BY DEF One
<1> QED BY <1>1, <1>2, <1>3

\* A crash pays for what may come in the next life.
LEMMA BidsAfterCrash ==
  ASSUME NEW c, NEW h, NEW n, NEW p, NEW q, NEW m, NEW z \in Nat,
         BidsPaid(c, h, n, p, q, m, z), NEW o, NEW r, NEW s,
         \A i \in IntentId : /\ Cardinality(BidsBySelf(c, i)) \in Nat
                             /\ Cardinality(Waiting(m, <<"bid", i>>)) \in Nat
  PROVE  BidsPaid(c, h, o, r, s, m, z + 1)
<1> SUFFICES ASSUME NEW i \in IntentId
             PROVE  Cardinality(BidsBySelf(c, i)) + Cardinality(Waiting(m, <<"bid", i>>))
                      + One(MayBid(c, h, o, r, s, i)) <= z + 1 + 1
  BY DEF BidsPaid
<1>1. Cardinality(BidsBySelf(c, i)) + Cardinality(Waiting(m, <<"bid", i>>))
        + One(MayBid(c, h, n, p, q, i)) <= z + 1
  BY DEF BidsPaid
<1>2. One(MayBid(c, h, o, r, s, i)) \in {0, 1} /\ One(MayBid(c, h, n, p, q, i)) \in {0, 1}
  BY DEF One
<1> QED BY <1>1, <1>2

\* The bid that could come is sent, and no other one may come.
LEMMA BidsAfterSending ==
  ASSUME NEW c, NEW h, NEW n, NEW p, NEW q, NEW m \in Seq(Sent), NEW z \in Nat,
         BidsPaid(c, h, n, p, q, m, z), NEW r, NEW j \in IntentId,
         \A i \in IntentId : Cardinality(BidsBySelf(c, i)) \in Nat,
         MayBid(c, h, n, p, q, j), ~MayBid(c, h, n, r, q, j),
         \A i \in IntentId : MayBid(c, h, n, r, q, i) => MayBid(c, h, n, p, q, i)
  PROVE  BidsPaid(c, h, n, r, q, Append(m, <<"bid", j>>), z)
<1> DEFINE t == <<"bid", j>>
           w == Append(m, t)
<1>1. t \in Sent
  BY DEF Sent, Kind
<1>2. \A i : i # j => <<"bid", i>> # t
  OBVIOUS
<1>3. /\ \A u : Cardinality(Waiting(m, u)) \in Nat
      /\ \A u : u # t => Waiting(w, u) = Waiting(m, u)
      /\ Cardinality(Waiting(w, t)) = Cardinality(Waiting(m, t)) + 1
  BY <1>1, WaitingAppend
<1> HIDE DEF w
<1>4. ASSUME NEW i \in IntentId
      PROVE  Cardinality(BidsBySelf(c, i)) + Cardinality(Waiting(w, <<"bid", i>>))
               + One(MayBid(c, h, n, r, q, i)) <= z + 1
  <2>1. Cardinality(BidsBySelf(c, i)) + Cardinality(Waiting(m, <<"bid", i>>))
          + One(MayBid(c, h, n, p, q, i)) <= z + 1
    BY DEF BidsPaid
  <2>2. CASE i = j
    <3>1. One(MayBid(c, h, n, p, q, i)) = 1 /\ One(MayBid(c, h, n, r, q, i)) = 0
      BY <2>2 DEF One
    <3>2. Cardinality(Waiting(w, <<"bid", i>>)) = Cardinality(Waiting(m, <<"bid", i>>)) + 1
      BY <1>3, <2>2
    <3>3. Cardinality(Waiting(m, <<"bid", i>>)) \in Nat /\ Cardinality(BidsBySelf(c, i)) \in Nat
      BY <1>3
    <3> QED BY <2>1, <3>1, <3>2, <3>3
  <2>3. CASE i # j
    <3>1. Waiting(w, <<"bid", i>>) = Waiting(m, <<"bid", i>>)
      BY <1>2, <1>3, <2>3
    <3>2. One(MayBid(c, h, n, r, q, i)) <= One(MayBid(c, h, n, p, q, i))
      BY DEF One
    <3>3. /\ One(MayBid(c, h, n, r, q, i)) \in Nat /\ One(MayBid(c, h, n, p, q, i)) \in Nat
          /\ Cardinality(Waiting(m, <<"bid", i>>)) \in Nat /\ Cardinality(BidsBySelf(c, i)) \in Nat
      BY <1>3 DEF One
    <3> QED BY <2>1, <3>1, <3>2, <3>3
  <2> QED BY <2>2, <2>3
<1>5. BidsPaid(c, h, n, r, q, w, z)
  BY <1>4 DEF BidsPaid
<1> QED BY <1>5 DEF w

\* What may come after the process is done with an event, and after it goes on with it.
LEMMA MayBidTurn ==
  ASSUME NEW c, NEW h, NEW n, NEW p, NEW q \in Seq(IntentId), q # << >>, NEW i
  PROVE  /\ \A r \in {"idle", "check"} : MayBid(c, h, n, r, Tail(q), i) => MayBid(c, h, n, p, q, i)
         /\ \A r : /\ p # "await"
                   /\ r = "bid" => SelectionsSeen(c, h, Head(q)) = {}
                   => (MayBid(c, h, n, r, q, i) => MayBid(c, h, n, p, q, i))
<1>1. \A k \in DOMAIN Tail(q) : k + 1 \in DOMAIN q /\ Tail(q)[k] = q[k + 1] /\ k + 1 # 1
  OBVIOUS
<1>2. 1 \in DOMAIN q /\ Head(q) = q[1]
  OBVIOUS
<1>3. ASSUME NEW r \in {"idle", "check"}, MayBid(c, h, n, r, Tail(q), i)
      PROVE  MayBid(c, h, n, p, q, i)
  <2>1. Unbid(r, Tail(q), i) # {} => Unbid(p, q, i) # {}
    <3> SUFFICES ASSUME NEW k \in DOMAIN Tail(q), Tail(q)[k] = i
                 PROVE  Unbid(p, q, i) # {}
      BY DEF Unbid
    <3> QED BY <1>1 DEF Unbid
  <2> QED BY <1>3, <2>1 DEF MayBid
<1>4. ASSUME NEW r, p # "await", r = "bid" => SelectionsSeen(c, h, Head(q)) = {},
             MayBid(c, h, n, r, q, i)
      PROVE  MayBid(c, h, n, p, q, i)
  <2>1. Unbid(r, q, i) \subseteq Unbid(p, q, i)
    BY <1>4 DEF Unbid
  <2>2. Head(q) = i => Unbid(p, q, i) # {}
    BY <1>2, <1>4 DEF Unbid
  <2> QED BY <1>4, <2>1, <2>2 DEF MayBid
<1> QED BY <1>3, <1>4

\* A bid that was sent is the last one for its event: the intent is queued once, or its
\* selection is seen.
LEMMA NoBidAfterSending ==
  ASSUME NEW c, NEW h, NEW n, NEW q \in Seq(IntentId), q # << >>, Queued(c, h, n, q)
  PROVE  ~MayBid(c, h, n, "await", q, Head(q))
<1>1. 1 \in DOMAIN q /\ Head(q) = q[1]
  OBVIOUS
<1>2. SubmissionPolled(c, n, Head(q))
  BY <1>1 DEF Queued
<1>3. ASSUME SelectionsSeen(c, h, Head(q)) = {}
      PROVE  Unbid("await", q, Head(q)) = {}
  <2>1. \A k \in DOMAIN q : q[k] = q[1] => k = 1
    BY <1>1, <1>3 DEF Queued
  <2> QED BY <1>1, <2>1 DEF Unbid
<1> QED BY <1>2, <1>3 DEF MayBid

\* While the log goes on, nothing comes back.
LEMMA MayBidFurther ==
  ASSUME NEW c, NEW h, NEW d, NEW g, Further(c, h, d, g), NEW n, NEW p, NEW q, NEW i,
         MayBid(d, g, n, p, q, i)
  PROVE  MayBid(c, h, n, p, q, i)
BY SeenFurther DEF MayBid

\* The account of the bids stays settled.
LEMMA BidsStep ==
  ASSUME LogSound, AgentTypes, QueueSound, BidsAccount, Next
  PROVE  BidsAccount'
<1> DEFINE Made(c) == \A i \in IntentId : Cardinality(BidsBySelf(c, i)) \in Nat
           Sending(m) == \A i \in IntentId : Cardinality(Waiting(m, <<"bid", i>>)) \in Nat
<1>1. /\ ChainOK(chain, head) /\ Named(chain) /\ head \in Nat
      /\ nextBlock \in Nat /\ pc \in Phase \cup {"down", "idle"}
      /\ queue \in Seq(IntentId) /\ mempool \in Seq(Sent) /\ crashes \in Nat
      /\ AgentWhere(head, nextBlock, pc, queue)
      /\ Queued(chain, head, nextBlock, queue)
      /\ BidsPaid(chain, head, nextBlock, pc, queue, mempool, crashes)
  BY DEF LogSound, ChainOK, AgentTypes, QueueSound, BidsAccount
<1>2. Made(chain) /\ Sending(mempool)
  BY <1>1, OwnBidsFinite, WaitingFinite
<1>3. \A k \in DOMAIN chain : chain[k].blockNumber \in Nat
  <2>1. \A k \in DOMAIN chain : chain[k] \in EventType
    BY <1>1 DEF ChainOK
  <2> QED BY ONLY <2>1 DEF EventType
<1>4. ASSUME NEW n, NEW p, NEW q,
             \A i \in IntentId : MayBid(chain, head, n, p, q, i) =>
                                   MayBid(chain, head, nextBlock, pc, queue, i)
      PROVE  BidsPaid(chain, head, n, p, q, mempool, crashes)
  <2>1. ASSUME NEW i \in IntentId
        PROVE  Cardinality(BidsBySelf(chain, i)) + Cardinality(Waiting(mempool, <<"bid", i>>))
                 <= Cardinality(BidsBySelf(chain, i)) + Cardinality(Waiting(mempool, <<"bid", i>>))
    <3>1. /\ Cardinality(BidsBySelf(chain, i)) \in Nat
          /\ Cardinality(Waiting(mempool, <<"bid", i>>)) \in Nat
      BY <1>2
    <3> QED BY ONLY <3>1
  <2> QED BY <1>1, <1>2, <1>4, <2>1, BidsKept
<1> HIDE DEF Made, Sending
<1>5. CASE Start
  <2>1. /\ chain' = chain /\ head' = head /\ mempool' = mempool /\ crashes' = crashes
        /\ nextBlock = 0
    BY <1>1, <1>5 DEF Start, AgentWhere, chainVars, history
  <2>2. \A i : ~SubmissionPolled(chain, 0, i)
    BY <1>3 DEF SubmissionPolled
  <2>3. \A i : MayBid(chain, head, nextBlock, pc, queue, i)
    BY <2>1, <2>2 DEF MayBid
  <2>4. BidsPaid(chain, head, nextBlock', pc', queue', mempool, crashes)
    BY <1>4, <2>3
  <2> QED BY <2>1, <2>4 DEF BidsAccount
<1>6. CASE Poll
  <2>1. /\ chain' = chain /\ head' = head /\ mempool' = mempool /\ crashes' = crashes
        /\ queue' = Polled /\ nextBlock' = head + 1
        /\ pc' = IF Polled = << >> THEN "idle" ELSE "check"
    BY <1>6 DEF Poll, chainVars, history
  <2>2. \A k \in DOMAIN Polled : SelectionsSeen(chain, head, Polled[k]) = {} =>
          ~SubmissionPolled(chain, nextBlock, Polled[k])
    BY <1>1, PolledIsQueue
  <2>3. \A i : SubmissionPolled(chain, nextBlock, i) => SubmissionPolled(chain, head + 1, i)
    <3>1. \A k \in DOMAIN chain : chain[k].blockNumber < nextBlock => chain[k].blockNumber < head + 1
      BY <1>1, <1>3 DEF AgentWhere
    <3> QED BY <3>1 DEF SubmissionPolled
  <2>4. \A i : MayBid(chain, head, head + 1, pc', Polled, i) =>
                 MayBid(chain, head, nextBlock, pc, queue, i)
    BY <2>1, <2>2, <2>3 DEF MayBid, Unbid
  <2>5. BidsPaid(chain, head, head + 1, pc', Polled, mempool, crashes)
    BY <1>4, <2>4
  <2>6. BidsPaid(chain', head', nextBlock', pc', queue', mempool', crashes')
    BY ONLY <2>1, <2>5
  <2> QED BY <2>6 DEF BidsAccount
<1>7. CASE Crash
  <2>1. /\ chain' = chain /\ head' = head /\ mempool' = mempool /\ crashes' = crashes + 1
    BY <1>7 DEF Crash, chainVars
  <2>2. BidsPaid(chain, head, nextBlock', pc', queue', mempool, crashes + 1)
    BY <1>1, <1>2, BidsAfterCrash DEF Made, Sending
  <2> QED BY <2>1, <2>2 DEF BidsAccount
<1>8. CASE Turn
  <2>1. /\ chain' = chain /\ head' = head /\ nextBlock' = nextBlock /\ crashes' = crashes
        /\ pc \in Phase /\ queue # << >> /\ Head(queue) \in IntentId
        /\ \/ /\ queue' = Tail(queue) /\ pc' = IF queue' = << >> THEN "idle" ELSE "check"
              /\ mempool' = mempool
           \/ /\ queue' = queue /\ pc' \in Phase \ {"check"} /\ pc # "await"
              /\ pc' = "bid" => SelectedNow(Head(queue)) = {}
              /\ \/ mempool' = mempool /\ pc' # "await"
                 \/ \E kind \in Kind :
                      /\ mempool' = Append(mempool, <<kind, Head(queue)>>)
                      /\ kind = "bid" => pc = "bid" /\ pc' = "await"
    BY <1>1, <1>8, TurnStep
  <2>2. SelectedNow(Head(queue)) = {} => SelectionsSeen(chain, head, Head(queue)) = {}
    <3> DEFINE S == SelectionsSeen(chain, head, Head(queue))
    <3>1. SelectedNow(Head(queue)) = IF S = {} THEN {} ELSE chain[Max(S)].solver
      BY <1>1, NowIsSeen DEF SelectedSeen
    <3>2. S # {} => Max(S) \in S
      BY <1>1, SeenIndices
    <3>3. \A k \in S : chain[k].solver # {}
      BY <1>1 DEF Named, SelectionsSeen, Seen, Is
    <3> HIDE DEF S
    <3>4. S # {} => SelectedNow(Head(queue)) # {}
      BY <3>1, <3>2, <3>3
    <3> QED BY <3>4 DEF S
  <2>3. CASE queue' = Tail(queue) /\ pc' \in {"idle", "check"} /\ mempool' = mempool
    <3>1. \A i : MayBid(chain, head, nextBlock, pc', queue', i) =>
                   MayBid(chain, head, nextBlock, pc, queue, i)
      BY <1>1, <2>1, <2>3, MayBidTurn
    <3>2. BidsPaid(chain, head, nextBlock, pc', queue', mempool, crashes)
      BY <1>4, <3>1
    <3> QED BY <2>1, <2>3, <3>2 DEF BidsAccount
  <2>4. CASE /\ queue' = queue /\ pc # "await"
             /\ pc' = "bid" => SelectionsSeen(chain, head, Head(queue)) = {}
             /\ \/ mempool' = mempool
                \/ \E kind \in Kind :
                     /\ mempool' = Append(mempool, <<kind, Head(queue)>>)
                     /\ kind = "bid" => pc = "bid" /\ pc' = "await"
    <3>1. \A i : MayBid(chain, head, nextBlock, pc', queue, i) =>
                   MayBid(chain, head, nextBlock, pc, queue, i)
      BY <1>1, <2>1, <2>4, MayBidTurn
    <3>2. CASE mempool' = mempool
      <4>1. BidsPaid(chain, head, nextBlock, pc', queue, mempool, crashes)
        BY <1>4, <3>1
      <4> QED BY <2>1, <2>4, <3>2, <4>1 DEF BidsAccount
    <3>3. ASSUME NEW kind \in Kind, kind # "bid",
                 mempool' = Append(mempool, <<kind, Head(queue)>>)
          PROVE  BidsAccount'
      <4> DEFINE t == <<kind, Head(queue)>>
                 m == Append(mempool, t)
      <4>1. t \in Sent /\ \A i : <<"bid", i>> # t
        BY <2>1, <3>3 DEF Sent
      <4>2. \A u : u # t => Waiting(m, u) = Waiting(mempool, u)
        BY <1>1, <4>1, WaitingAppend
      <4> HIDE DEF m, t
      <4>3. \A i : Waiting(m, <<"bid", i>>) = Waiting(mempool, <<"bid", i>>)
        BY <4>1, <4>2
      <4>4. Sending(m)
        BY <1>2, <4>3 DEF Sending
      <4>5. ASSUME NEW i \in IntentId
            PROVE  Cardinality(BidsBySelf(chain, i)) + Cardinality(Waiting(m, <<"bid", i>>))
                     <= Cardinality(BidsBySelf(chain, i)) + Cardinality(Waiting(mempool, <<"bid", i>>))
        <5>1. /\ Cardinality(BidsBySelf(chain, i)) \in Nat
              /\ Cardinality(Waiting(mempool, <<"bid", i>>)) \in Nat
          BY <1>2 DEF Made, Sending
        <5>2. Waiting(m, <<"bid", i>>) = Waiting(mempool, <<"bid", i>>)
          BY <4>3
        <5> QED BY ONLY <5>1, <5>2
      <4>6. BidsPaid(chain, head, nextBlock, pc', queue, m, crashes)
        BY <1>1, <1>2, <3>1, <4>4, <4>5, BidsKept DEF Made, Sending
      <4>7. mempool' = m
        BY <3>3 DEF m, t
      <4> QED BY <2>1, <2>4, <4>6, <4>7 DEF BidsAccount
    <3>4. ASSUME pc = "bid", pc' = "await", mempool' = Append(mempool, <<"bid", Head(queue)>>)
          PROVE  BidsAccount'
      <4>1. MayBid(chain, head, nextBlock, pc, queue, Head(queue))
        BY <3>4 DEF MayBid
      <4>2. ~MayBid(chain, head, nextBlock, "await", queue, Head(queue))
        BY <1>1, <2>1, NoBidAfterSending
      <4>3. \A i \in IntentId : MayBid(chain, head, nextBlock, "await", queue, i) =>
                                  MayBid(chain, head, nextBlock, pc, queue, i)
        BY <3>1, <3>4
      <4>4. BidsPaid(chain, head, nextBlock, "await", queue,
                     Append(mempool, <<"bid", Head(queue)>>), crashes)
        BY <1>1, <1>2, <2>1, <4>1, <4>2, <4>3, BidsAfterSending DEF Made
      <4>5. BidsPaid(chain', head', nextBlock', pc', queue', mempool', crashes')
        BY ONLY <2>1, <2>4, <3>4, <4>4
      <4> QED BY <4>5 DEF BidsAccount
    <3> QED BY <2>4, <3>2, <3>3, <3>4
  <2> QED BY <2>1, <2>2, <2>3, <2>4
<1>9. CASE Onward
  <2>1. /\ nextBlock' = nextBlock /\ pc' = pc /\ queue' = queue /\ crashes' = crashes
        /\ Further(chain, head, chain', head') /\ mempool' \in Seq(Sent)
        /\ \A i : Cardinality(BidsBySelf(chain', i)) + Cardinality(Waiting(mempool', <<"bid", i>>))
                    <= Cardinality(BidsBySelf(chain, i)) + Cardinality(Waiting(mempool, <<"bid", i>>))
    BY <1>9, OnwardStep
  <2>2. ChainOK(chain', head')
    BY <2>1 DEF Further
  <2>3. Made(chain') /\ Sending(mempool')
    BY <2>1, <2>2, OwnBidsFinite, WaitingFinite DEF Made, Sending
  <2>4. \A i : MayBid(chain', head', nextBlock, pc, queue, i) =>
                 MayBid(chain, head, nextBlock, pc, queue, i)
    BY <2>1, MayBidFurther
  <2>5. BidsPaid(chain', head', nextBlock, pc, queue, mempool', crashes)
    BY <1>1, <1>2, <2>1, <2>3, <2>4, BidsKept DEF Made, Sending
  <2> QED BY <2>1, <2>5 DEF BidsAccount
<1>10. ASSUME NEW i \in IntentId, Expire(i)
       PROVE  BidsAccount'
  <2>1. /\ nextBlock' = nextBlock /\ pc' = pc /\ queue' = queue /\ chain' = chain /\ head' = head
        /\ mempool' = mempool /\ crashes' = crashes
    BY <1>10 DEF Expire, agentVars, chainVars, history
  <2> QED BY <2>1 DEF BidsAccount
<1> QED BY <1>5, <1>6, <1>7, <1>8, <1>9, <1>10, StepKinds

----------------------------------------------------------------------------
(* The account of the plans.                                               *)

\* What the account counts with are numbers.
PlanNumbers(c, h, m, x) ==
  \A i \in IntentId :
    /\ x[i] \in Nat
    /\ Cardinality(Waiting(m, <<"plan", i>>)) \in Nat
    /\ Cardinality(SelectionsSeen(c, h, i)) \in Nat

\* The process is done with the event, or dies: what may come for an intent that was in
\* progress is what it was committed to, or is paid for by what went wrong.
LEMMA PlansIdle ==
  ASSUME NEW c, NEW h, NEW p, NEW q, NEW m, NEW l, NEW x, NEW z \in Nat,
         PlanNumbers(c, h, m, x), PlansPaid(c, h, p, q, m, l, x, z),
         NEW r \in {"idle", "check", "down"}, NEW s, NEW y \in Nat, z <= y,
         \A i \in IntentId : InProgress(p, q, m, i) /\ Ours(c, h, l, i) =>
                               Committed(p, q, i) \/ z < y
  PROVE  PlansPaid(c, h, r, s, m, l, x, y)
<1> SUFFICES ASSUME NEW i \in IntentId
             PROVE  x[i] + Cardinality(Waiting(m, <<"plan", i>>)) + One(Committed(r, s, i))
                      + One(MayExecute(c, h, r, s, m, l, i))
                      <= Cardinality(SelectionsSeen(c, h, i)) + y
  BY DEF PlansPaid
<1>1. x[i] + Cardinality(Waiting(m, <<"plan", i>>)) + One(Committed(p, q, i))
        + One(MayExecute(c, h, p, q, m, l, i))
        <= Cardinality(SelectionsSeen(c, h, i)) + z
  BY DEF PlansPaid
<1>2. /\ One(Committed(p, q, i)) \in {0, 1} /\ One(MayExecute(c, h, p, q, m, l, i)) \in {0, 1}
      /\ One(MayExecute(c, h, r, s, m, l, i)) \in {0, 1}
  BY DEF One
<1>3. One(Committed(r, s, i)) = 0
  BY DEF One, Committed
<1>4. \/ One(MayExecute(c, h, r, s, m, l, i)) = 0
      \/ One(MayExecute(c, h, p, q, m, l, i)) = 1
      \/ One(Committed(p, q, i)) = 1
      \/ z < y
  <2>1. MayExecute(c, h, r, s, m, l, i) => Ours(c, h, l, i)
    BY DEF MayExecute
  <2>2. Ours(c, h, l, i) /\ ~InProgress(p, q, m, i) => MayExecute(c, h, p, q, m, l, i)
    BY DEF MayExecute
  <2> QED BY <2>1, <2>2 DEF One
<1>5. /\ x[i] \in Nat /\ Cardinality(Waiting(m, <<"plan", i>>)) \in Nat
      /\ Cardinality(SelectionsSeen(c, h, i)) \in Nat
  BY DEF PlanNumbers
<1> QED BY <1>1, <1>2, <1>3, <1>4, <1>5

\* The process goes on with the event: only the intent in its hands is concerned.
LEMMA PlansOn ==
  ASSUME NEW c, NEW h, NEW p \in Phase, NEW q, NEW m, NEW l, NEW x, NEW z \in Nat,
         PlanNumbers(c, h, m, x), PlansPaid(c, h, p, q, m, l, x, z),
         NEW r \in Phase, NEW w, NEW y \in Nat, z <= y, NEW j, j = Head(q),
         \A i : i # j => Waiting(w, <<"plan", i>>) = Waiting(m, <<"plan", i>>),
         Cardinality(Waiting(w, <<"plan", j>>)) \in Nat,
         j \in IntentId =>
           Cardinality(Waiting(w, <<"plan", j>>)) + One(Committed(r, q, j))
             + One(MayExecute(c, h, r, q, w, l, j)) + z
             <= Cardinality(Waiting(m, <<"plan", j>>)) + One(Committed(p, q, j))
                  + One(MayExecute(c, h, p, q, m, l, j)) + y
  PROVE  PlansPaid(c, h, r, q, w, l, x, y)
<1> SUFFICES ASSUME NEW i \in IntentId
             PROVE  x[i] + Cardinality(Waiting(w, <<"plan", i>>)) + One(Committed(r, q, i))
                      + One(MayExecute(c, h, r, q, w, l, i))
                      <= Cardinality(SelectionsSeen(c, h, i)) + y
  BY DEF PlansPaid
<1>1. x[i] + Cardinality(Waiting(m, <<"plan", i>>)) + One(Committed(p, q, i))
        + One(MayExecute(c, h, p, q, m, l, i))
        <= Cardinality(SelectionsSeen(c, h, i)) + z
  BY DEF PlansPaid
<1>2. /\ x[i] \in Nat /\ Cardinality(Waiting(m, <<"plan", i>>)) \in Nat
      /\ Cardinality(SelectionsSeen(c, h, i)) \in Nat
  BY DEF PlanNumbers
<1>3. /\ One(Committed(p, q, i)) \in Nat /\ One(MayExecute(c, h, p, q, m, l, i)) \in Nat
      /\ One(Committed(r, q, i)) \in Nat /\ One(MayExecute(c, h, r, q, w, l, i)) \in Nat
  BY DEF One
<1>4. CASE i = j
  <2>1. Cardinality(Waiting(w, <<"plan", i>>)) + One(Committed(r, q, i))
          + One(MayExecute(c, h, r, q, w, l, i)) + z
          <= Cardinality(Waiting(m, <<"plan", i>>)) + One(Committed(p, q, i))
               + One(MayExecute(c, h, p, q, m, l, i)) + y
    BY <1>4
  <2>2. Cardinality(Waiting(w, <<"plan", i>>)) \in Nat
    BY <1>4
  <2> QED BY ONLY <1>1, <1>2, <1>3, <2>1, <2>2, z \in Nat, y \in Nat
<1>5. CASE i # j
  <2>1. /\ ~InHand(p, q, i) /\ ~InHand(r, q, i)
        /\ Waiting(w, <<"plan", i>>) = Waiting(m, <<"plan", i>>)
    BY <1>5 DEF InHand
  <2>2. /\ Committed(r, q, i) <=> Committed(p, q, i)
        /\ MayExecute(c, h, r, q, w, l, i) <=> MayExecute(c, h, p, q, m, l, i)
    BY <2>1 DEF Committed, MayExecute, InProgress
  <2>3. /\ One(Committed(r, q, i)) = One(Committed(p, q, i))
        /\ One(MayExecute(c, h, r, q, w, l, i)) = One(MayExecute(c, h, p, q, m, l, i))
    BY <2>2 DEF One
  <2> QED BY ONLY <1>1, <1>2, <1>3, <2>1, <2>3, z \in Nat, y \in Nat, z <= y
<1> QED BY <1>4, <1>5

\* The log goes on: a selection that was not seen before pays for what may come.
LEMMA PlansFurther ==
  ASSUME NEW c, NEW h, NEW d, NEW g, Further(c, h, d, g),
         NEW p, NEW q, NEW m, NEW l, NEW x, NEW z \in Nat,
         PlanNumbers(c, h, m, x), PlansPaid(c, h, p, q, m, l, x, z),
         NEW w, NEW k, NEW v, NEW y \in Nat, z <= y, l \subseteq k, PlanNumbers(d, g, w, v),
         \A i \in IntentId :
           v[i] + Cardinality(Waiting(w, <<"plan", i>>))
             <= x[i] + Cardinality(Waiting(m, <<"plan", i>>)),
         \A i \in IntentId :
           Waiting(m, <<"fill", i>>) # {} => Waiting(w, <<"fill", i>>) # {} \/ ~Ours(d, g, k, i)
  PROVE  PlansPaid(d, g, p, q, w, k, v, y)
<1> SUFFICES ASSUME NEW i \in IntentId
             PROVE  v[i] + Cardinality(Waiting(w, <<"plan", i>>)) + One(Committed(p, q, i))
                      + One(MayExecute(d, g, p, q, w, k, i))
                      <= Cardinality(SelectionsSeen(d, g, i)) + y
  BY DEF PlansPaid
<1>1. x[i] + Cardinality(Waiting(m, <<"plan", i>>)) + One(Committed(p, q, i))
        + One(MayExecute(c, h, p, q, m, l, i))
        <= Cardinality(SelectionsSeen(c, h, i)) + z
  BY DEF PlansPaid
<1>2. /\ x[i] \in Nat /\ Cardinality(Waiting(m, <<"plan", i>>)) \in Nat
      /\ Cardinality(SelectionsSeen(c, h, i)) \in Nat
      /\ v[i] \in Nat /\ Cardinality(Waiting(w, <<"plan", i>>)) \in Nat
      /\ Cardinality(SelectionsSeen(d, g, i)) \in Nat
  BY DEF PlanNumbers
<1>3. /\ One(Committed(p, q, i)) \in Nat /\ One(MayExecute(c, h, p, q, m, l, i)) \in {0, 1}
      /\ One(MayExecute(d, g, p, q, w, k, i)) \in {0, 1}
  BY DEF One
<1>4. v[i] + Cardinality(Waiting(w, <<"plan", i>>))
        <= x[i] + Cardinality(Waiting(m, <<"plan", i>>))
  OBVIOUS
<1>5. CASE Cardinality(SelectionsSeen(d, g, i)) > Cardinality(SelectionsSeen(c, h, i))
  BY ONLY <1>1, <1>2, <1>3, <1>4, <1>5, z \in Nat, y \in Nat, z <= y
<1>6. CASE /\ SelectionsSeen(d, g, i) = SelectionsSeen(c, h, i)
           /\ SelectedSeen(d, g, i) = SelectedSeen(c, h, i)
  <2>1. SelectedSeen(c, h, i) = {Self} => SelectionsSeen(c, h, i) # {}
    BY DEF SelectedSeen
  <2>2. Ours(d, g, k, i) => Ours(c, h, l, i)
    BY <1>6, <2>1, SeenFurther DEF Ours
  <2>3. MayExecute(d, g, p, q, w, k, i) => MayExecute(c, h, p, q, m, l, i)
    <3> SUFFICES ASSUME MayExecute(d, g, p, q, w, k, i)
                 PROVE  MayExecute(c, h, p, q, m, l, i)
      OBVIOUS
    <3>1. ~InProgress(p, q, w, i)
          /\ \/ Ours(d, g, k, i)
             \/ SelectedSeen(d, g, i) = {Self} /\ InHand(p, q, i) /\ p = "choose"
      BY DEF MayExecute
    <3>2. ~InProgress(p, q, m, i)
      BY <3>1 DEF InProgress
    <3> QED BY <1>6, <2>2, <3>1, <3>2 DEF MayExecute
  <2>4. One(MayExecute(d, g, p, q, w, k, i)) <= One(MayExecute(c, h, p, q, m, l, i))
    BY <2>3 DEF One
  <2>5. Cardinality(SelectionsSeen(d, g, i)) = Cardinality(SelectionsSeen(c, h, i))
    BY <1>6
  <2> QED BY ONLY <1>1, <1>2, <1>3, <1>4, <2>4, <2>5, z \in Nat, y \in Nat, z <= y
<1> QED BY <1>5, <1>6, SeenFurther

\* The account of the plans stays settled.
LEMMA PlansStep ==
  ASSUME LogSound, AgentTypes, QueueSound, PlansAccount, Next
  PROVE  PlansAccount'
<1> DEFINE z == errors + crashes
           j == Head(queue)
<1>1. /\ ChainOK(chain, head) /\ head \in Nat
      /\ pc \in Phase \cup {"down", "idle"}
      /\ queue \in Seq(IntentId) /\ mempool \in Seq(Sent)
      /\ errors \in Nat /\ crashes \in Nat /\ executed \in [IntentId -> Nat]
      /\ AgentWhere(head, nextBlock, pc, queue)
      /\ PlansPaid(chain, head, pc, queue, mempool, late, executed, errors + crashes)
  BY DEF LogSound, ChainOK, AgentTypes, QueueSound, PlansAccount
<1>2. /\ z \in Nat /\ z + 1 \in Nat /\ z <= z + 1 /\ z < z + 1 /\ z <= z
      /\ z + 1 = (errors + 1) + crashes /\ z + 1 = errors + (crashes + 1)
  BY <1>1
<1>3. PlanNumbers(chain, head, mempool, executed)
  BY <1>1, WaitingFinite, SeenIndices DEF PlanNumbers
<1>4. /\ SelectedNow(j) = SelectedSeen(chain, head, j)
      /\ OpenNow(j) <=> OpenSeen(chain, head, j)
  BY <1>1, NowIsSeen
<1>5. pc \in Phase => queue # << >> /\ j \in IntentId
  BY <1>1 DEF AgentWhere
<1>6. Current = j
  BY DEF Current
<1>7. \A u : IsFiniteSet(Waiting(mempool, u)) /\ Cardinality(Waiting(mempool, u)) \in Nat
  BY <1>1, WaitingFinite
<1>8. ASSUME PlansPaid(chain, head, pc', queue', mempool', late, executed, z),
             chain' = chain, head' = head, late' = late, executed' = executed,
             errors' = errors, crashes' = crashes
      PROVE  PlansAccount'
  BY ONLY <1>8 DEF PlansAccount, z
<1>9. ASSUME PlansPaid(chain, head, pc', queue', mempool', late, executed, z + 1),
             chain' = chain, head' = head, late' = late, executed' = executed,
             errors' + crashes' = z + 1
      PROVE  PlansAccount'
  BY ONLY <1>9 DEF PlansAccount
<1>10. ASSUME NEW r \in {"idle", "check", "down"}, NEW s,
              \A i \in IntentId : InProgress(pc, queue, mempool, i) /\ Ours(chain, head, late, i)
                                    => Committed(pc, queue, i)
       PROVE  PlansPaid(chain, head, r, s, mempool, late, executed, z)
  <2>1. \A i \in IntentId : InProgress(pc, queue, mempool, i) /\ Ours(chain, head, late, i)
                              => Committed(pc, queue, i) \/ z < z
    BY <1>10
  <2>2. PlansPaid(chain, head, pc, queue, mempool, late, executed, z)
    BY <1>1
  <2> HIDE DEF z
  <2> QED BY <1>2, <1>3, <2>1, <2>2, PlansIdle
<1>11. ASSUME NEW r \in {"idle", "check", "down"}, NEW s
       PROVE  PlansPaid(chain, head, r, s, mempool, late, executed, z + 1)
  <2>2. PlansPaid(chain, head, pc, queue, mempool, late, executed, z)
    BY <1>1
  <2> HIDE DEF z
  <2> QED BY <1>2, <1>3, <2>2, PlansIdle
<1>12. \A kind \in Kind \ {"plan"} :
         LET w == Append(mempool, <<kind, j>>)
         IN  j \in IntentId =>
               /\ \A i : Waiting(w, <<"plan", i>>) = Waiting(mempool, <<"plan", i>>)
               /\ Waiting(w, <<kind, j>>) # {}
  <2> SUFFICES ASSUME NEW kind \in Kind \ {"plan"}, j \in IntentId
               PROVE  /\ \A i : Waiting(Append(mempool, <<kind, j>>), <<"plan", i>>)
                                  = Waiting(mempool, <<"plan", i>>)
                      /\ Waiting(Append(mempool, <<kind, j>>), <<kind, j>>) # {}
    OBVIOUS
  <2> DEFINE t == <<kind, j>>
  <2>1. t \in Sent /\ \A i : <<"plan", i>> # t
    BY DEF Sent
  <2> HIDE DEF t
  <2>2. /\ \A u : u # t => Waiting(Append(mempool, t), u) = Waiting(mempool, u)
        /\ Waiting(Append(mempool, t), t) # {}
    BY <1>1, <2>1, WaitingAppend
  <2>3. /\ \A i : Waiting(Append(mempool, t), <<"plan", i>>) = Waiting(mempool, <<"plan", i>>)
        /\ Waiting(Append(mempool, t), t) # {}
    BY <2>1, <2>2
  <2> QED BY <2>3 DEF t
<1>13. ASSUME pc \in Phase, NEW r \in Phase, NEW w, NEW y \in {z, z + 1},
              \A i : Waiting(w, <<"plan", i>>) = Waiting(mempool, <<"plan", i>>),
              One(Committed(r, queue, j)) + One(MayExecute(chain, head, r, queue, w, late, j)) + z
                <= One(Committed(pc, queue, j))
                     + One(MayExecute(chain, head, pc, queue, mempool, late, j)) + y
       PROVE  PlansPaid(chain, head, r, queue, w, late, executed, y)
  <2> DEFINE a == One(Committed(r, queue, j))
             b == One(MayExecute(chain, head, r, queue, w, late, j))
             d == One(Committed(pc, queue, j))
             e == One(MayExecute(chain, head, pc, queue, mempool, late, j))
             n == Cardinality(Waiting(mempool, <<"plan", j>>))
  <2>1. y \in Nat /\ z <= y
    BY <1>2, <1>13
  <2>2. n \in Nat /\ Cardinality(Waiting(w, <<"plan", j>>)) = n
    BY <1>7, <1>13
  <2>3. a \in Nat /\ b \in Nat /\ d \in Nat /\ e \in Nat /\ a + b + z <= d + e + y
    BY <1>13 DEF One
  <2>4. PlansPaid(chain, head, pc, queue, mempool, late, executed, z)
    BY <1>1
  <2> HIDE DEF z, a, b, d, e, n
  <2>5. n + a + b + z <= n + d + e + y
    BY <1>2, <2>1, <2>2, <2>3
  <2>6. Cardinality(Waiting(w, <<"plan", j>>)) + a + b + z
          <= Cardinality(Waiting(mempool, <<"plan", j>>)) + d + e + y
    BY <2>2, <2>5 DEF n
  <2>7. Cardinality(Waiting(w, <<"plan", j>>)) \in Nat
    BY <2>2
  <2> QED BY <1>2, <1>3, <1>13, <2>1, <2>4, <2>6, <2>7, PlansOn DEF a, b, d, e
<1> HIDE DEF j
<1>14. \A i : InHand(pc, queue, i) => i = j
  BY DEF InHand, j
<1>15. pc \in Phase => InHand(pc, queue, j)
  BY DEF InHand, j
<1>16. CASE Start \/ Poll
  <2>1. /\ chain' = chain /\ head' = head /\ late' = late /\ executed' = executed
        /\ errors' = errors /\ crashes' = crashes /\ mempool' = mempool
        /\ pc' \in {"idle", "check", "down"} /\ pc \notin Phase
    BY <1>16, Phases DEF Start, Poll, chainVars, worldVars, history
  <2>2. \A i : ~InProgress(pc, queue, mempool, i)
    BY <2>1 DEF InProgress, InHand
  <2>3. PlansPaid(chain, head, pc', queue', mempool, late, executed, z)
    BY <1>10, <2>1, <2>2
  <2> QED BY <1>8, <2>1, <2>3
<1>17. CASE Crash
  <2>1. /\ chain' = chain /\ head' = head /\ late' = late /\ executed' = executed
        /\ errors' = errors /\ crashes' = crashes + 1 /\ mempool' = mempool
        /\ pc' \in {"idle", "check", "down"}
    BY <1>17 DEF Crash, chainVars, worldVars
  <2>2. PlansPaid(chain, head, pc', queue', mempool, late, executed, z + 1)
    BY <1>11, <2>1
  <2> QED BY <1>2, <1>9, <2>1, <2>2
<1>18. CASE Throws
  <2>1. /\ chain' = chain /\ head' = head /\ late' = late /\ executed' = executed
        /\ errors' = errors + 1 /\ crashes' = crashes /\ mempool' = mempool
        /\ pc' \in {"idle", "check", "down"}
    BY <1>18 DEF Throws, Finished, chainVars, worldVars
  <2>2. PlansPaid(chain, head, pc', queue', mempool, late, executed, z + 1)
    BY <1>11, <2>1
  <2> QED BY <1>2, <1>9, <2>1, <2>2
<1>19. CASE CheckIntent
  <2>1. /\ chain' = chain /\ head' = head /\ late' = late /\ executed' = executed
        /\ errors' = errors /\ crashes' = crashes /\ mempool' = mempool
        /\ pc = "check"
        /\ \/ pc' \in {"idle", "check", "down"}
           \/ OpenNow(j) /\ j \notin late /\ pc' = "choose" /\ queue' = queue
    BY <1>6, <1>19 DEF CheckIntent, At, GoOn, Finished, chainVars, worldVars, history
  <2>2. pc \in Phase /\ "choose" \in Phase
    BY <2>1, Phases
  <2>3. \A i : ~InProgress(pc, queue, mempool, i)
    BY <2>1 DEF InProgress
  <2>4. CASE pc' \in {"idle", "check", "down"}
    <3>1. PlansPaid(chain, head, pc', queue', mempool, late, executed, z)
      BY <1>10, <2>3, <2>4
    <3> QED BY <1>8, <2>1, <3>1
  <2>5. CASE OpenNow(j) /\ j \notin late /\ pc' = "choose" /\ queue' = queue
    <3>1. MayExecute(chain, head, "choose", queue, mempool, late, j) =>
            MayExecute(chain, head, pc, queue, mempool, late, j)
      BY <1>4, <2>3, <2>5 DEF MayExecute, Ours
    <3>2. ~Committed(pc, queue, j) /\ ~Committed("choose", queue, j)
      BY <2>1 DEF Committed
    <3>3. One(Committed("choose", queue, j))
            + One(MayExecute(chain, head, "choose", queue, mempool, late, j)) + z
            <= One(Committed(pc, queue, j))
                 + One(MayExecute(chain, head, pc, queue, mempool, late, j)) + z
      BY <1>2, <3>1, <3>2 DEF One
    <3>4. PlansPaid(chain, head, "choose", queue, mempool, late, executed, z)
      BY <1>13, <2>2, <3>3
    <3> QED BY <1>8, <2>1, <2>5, <3>4
  <2> QED BY <2>1, <2>4, <2>5
<1>20. CASE ChooseRole
  <2>1. /\ chain' = chain /\ head' = head /\ late' = late /\ executed' = executed
        /\ errors' = errors /\ crashes' = crashes /\ mempool' = mempool
        /\ pc = "choose"
        /\ \/ pc' \in {"idle", "check", "down"}
           \/ pc' = "bid" /\ SelectedNow(j) = {} /\ queue' = queue
           \/ pc' = "lookUp" /\ SelectedNow(j) = {Self} /\ queue' = queue
    BY <1>6, <1>20 DEF ChooseRole, RoleFor, At, GoOn, Finished, chainVars, worldVars, history
  <2>2. pc \in Phase /\ "bid" \in Phase /\ "lookUp" \in Phase
    BY <2>1, Phases
  <2>3. \A i : ~InProgress(pc, queue, mempool, i)
    BY <2>1 DEF InProgress
  <2>4. CASE pc' \in {"idle", "check", "down"}
    <3>1. PlansPaid(chain, head, pc', queue', mempool, late, executed, z)
      BY <1>10, <2>3, <2>4
    <3> QED BY <1>8, <2>1, <3>1
  <2>5. CASE pc' = "bid" /\ SelectedNow(j) = {} /\ queue' = queue
    <3>1. ~MayExecute(chain, head, "bid", queue, mempool, late, j)
      BY <1>4, <2>5 DEF MayExecute, Ours
    <3>2. ~Committed("bid", queue, j)
      BY DEF Committed
    <3>3. One(Committed("bid", queue, j))
            + One(MayExecute(chain, head, "bid", queue, mempool, late, j)) + z
            <= One(Committed(pc, queue, j))
                 + One(MayExecute(chain, head, pc, queue, mempool, late, j)) + z
      BY <1>2, <3>1, <3>2 DEF One
    <3>4. PlansPaid(chain, head, "bid", queue, mempool, late, executed, z)
      BY <1>13, <2>2, <3>3
    <3> QED BY <1>8, <2>1, <2>5, <3>4
  <2>6. CASE pc' = "lookUp" /\ SelectedNow(j) = {Self} /\ queue' = queue
    <3>1. ~MayExecute(chain, head, "lookUp", queue, mempool, late, j)
      BY <1>15, <2>2 DEF MayExecute, InProgress, InHand
    <3>2. MayExecute(chain, head, pc, queue, mempool, late, j)
      BY <1>4, <1>15, <2>1, <2>2, <2>3, <2>6 DEF MayExecute
    <3>3. One(Committed("lookUp", queue, j))
            + One(MayExecute(chain, head, "lookUp", queue, mempool, late, j)) + z
            <= One(Committed(pc, queue, j))
                 + One(MayExecute(chain, head, pc, queue, mempool, late, j)) + z
      BY <1>2, <3>1, <3>2 DEF One
    <3>4. PlansPaid(chain, head, "lookUp", queue, mempool, late, executed, z)
      BY <1>13, <2>2, <3>3
    <3> QED BY <1>8, <2>1, <2>6, <3>4
  <2> QED BY <2>1, <2>4, <2>5, <2>6
<1>21. CASE SendBid
  <2>1. /\ chain' = chain /\ head' = head /\ late' = late /\ executed' = executed
        /\ errors' = errors /\ crashes' = crashes
        /\ pc = "bid"
        /\ \/ pc' \in {"idle", "check", "down"} /\ mempool' = mempool
           \/ /\ pc' = "await" /\ queue' = queue /\ mempool' = Append(mempool, <<"bid", j>>)
    BY <1>6, <1>21 DEF SendBid, SimulateAndSend, Send, At, GoOn, Finished, chainVars, worldVars, history
  <2>2. pc \in Phase /\ "await" \in Phase
    BY <2>1, Phases
  <2>3. \A i : ~InProgress(pc, queue, mempool, i)
    BY <2>1 DEF InProgress
  <2>4. CASE pc' \in {"idle", "check", "down"} /\ mempool' = mempool
    <3>1. PlansPaid(chain, head, pc', queue', mempool, late, executed, z)
      BY <1>10, <2>3, <2>4
    <3> QED BY <1>8, <2>1, <2>4, <3>1
  <2>5. CASE pc' = "await" /\ queue' = queue /\ mempool' = Append(mempool, <<"bid", j>>)
    <3> DEFINE w == Append(mempool, <<"bid", j>>)
    <3>1. \A i : Waiting(w, <<"plan", i>>) = Waiting(mempool, <<"plan", i>>)
      BY <1>5, <1>12, <2>2 DEF Kind
    <3> HIDE DEF w
    <3>2. MayExecute(chain, head, "await", queue, w, late, j) =>
            MayExecute(chain, head, pc, queue, mempool, late, j)
      BY <2>3 DEF MayExecute
    <3>3. ~Committed(pc, queue, j) /\ ~Committed("await", queue, j)
      BY <2>1 DEF Committed
    <3>4. One(Committed("await", queue, j))
            + One(MayExecute(chain, head, "await", queue, w, late, j)) + z
            <= One(Committed(pc, queue, j))
                 + One(MayExecute(chain, head, pc, queue, mempool, late, j)) + z
      BY <1>2, <3>2, <3>3 DEF One
    <3>5. PlansPaid(chain, head, "await", queue, w, late, executed, z)
      BY <1>13, <2>2, <3>1, <3>4
    <3>6. mempool' = w
      BY <2>5 DEF w
    <3> QED BY <1>8, <2>1, <2>5, <3>5, <3>6
  <2> QED BY <2>1, <2>4, <2>5
<1>22. CASE LookUp
  <2>1. /\ chain' = chain /\ head' = head /\ late' = late /\ executed' = executed
        /\ errors' = errors /\ crashes' = crashes /\ mempool' = mempool
        /\ pc = "lookUp"
        /\ \/ pc' \in {"idle", "check", "down"}
           \/ pc' \in {"execute", "fill"} /\ queue' = queue
    BY <1>22 DEF LookUp, At, GoOn, Finished, chainVars, worldVars
  <2>2. pc \in Phase /\ "execute" \in Phase /\ "fill" \in Phase
    BY <2>1, Phases
  <2>3. Committed(pc, queue, j) /\ \A i : InProgress(pc, queue, mempool, i) => i = j
    BY <1>14, <1>15, <2>1, <2>2 DEF Committed, InProgress
  <2>4. CASE pc' \in {"idle", "check", "down"}
    <3>1. PlansPaid(chain, head, pc', queue', mempool, late, executed, z)
      BY <1>10, <2>3, <2>4
    <3> QED BY <1>8, <2>1, <3>1
  <2>5. CASE pc' \in {"execute", "fill"} /\ queue' = queue
    <3>1. pc' \in Phase /\ ~MayExecute(chain, head, pc', queue, mempool, late, j)
      BY <1>15, <2>2, <2>5 DEF MayExecute, InProgress, InHand
    <3>2. One(Committed(pc', queue, j))
            + One(MayExecute(chain, head, pc', queue, mempool, late, j)) + z
            <= One(Committed(pc, queue, j))
                 + One(MayExecute(chain, head, pc, queue, mempool, late, j)) + z
      BY <1>2, <2>3, <3>1 DEF One
    <3>3. PlansPaid(chain, head, pc', queue, mempool, late, executed, z)
      BY <1>13, <2>2, <3>1, <3>2
    <3> QED BY <1>8, <2>1, <2>5, <3>3
  <2> QED BY <2>1, <2>4, <2>5
<1>24. CASE ExecutePlan
  <2> DEFINE t == <<"plan", j>>
             w == Append(mempool, t)
  <2>1. /\ chain' = chain /\ head' = head /\ late' = late /\ executed' = executed
        /\ errors' = errors /\ crashes' = crashes /\ mempool' = w
        /\ pc = "execute" /\ pc' = "awaitPlan" /\ queue' = queue
    BY <1>6, <1>24 DEF ExecutePlan, SimulateAndSend, Send, At, GoOn, chainVars, worldVars, history
  <2>2. pc \in Phase /\ "awaitPlan" \in Phase
    BY <2>1, Phases
  <2>3. t \in Sent /\ \A i : i # j => <<"plan", i>> # t
    BY <1>5, <2>2 DEF Sent, Kind
  <2>4. /\ \A u : u # t => Waiting(w, u) = Waiting(mempool, u)
        /\ Cardinality(Waiting(w, t)) = Cardinality(Waiting(mempool, t)) + 1
    BY <1>1, <2>3, WaitingAppend
  <2> HIDE DEF w
  <2>5. Committed(pc, queue, j) /\ ~Committed("awaitPlan", queue, j)
    BY <1>15, <2>1, <2>2 DEF Committed
  <2>6. ~MayExecute(chain, head, "awaitPlan", queue, w, late, j)
    BY <1>15, <2>2 DEF MayExecute, InProgress, InHand
  <2>7. Cardinality(Waiting(w, <<"plan", j>>)) + One(Committed("awaitPlan", queue, j))
          + One(MayExecute(chain, head, "awaitPlan", queue, w, late, j)) + z
          <= Cardinality(Waiting(mempool, <<"plan", j>>)) + One(Committed(pc, queue, j))
               + One(MayExecute(chain, head, pc, queue, mempool, late, j)) + z
    <3>1. /\ One(Committed(pc, queue, j)) = 1 /\ One(Committed("awaitPlan", queue, j)) = 0
          /\ One(MayExecute(chain, head, "awaitPlan", queue, w, late, j)) = 0
          /\ One(MayExecute(chain, head, pc, queue, mempool, late, j)) \in Nat
      BY <2>5, <2>6 DEF One
    <3>2. Cardinality(Waiting(w, <<"plan", j>>)) = Cardinality(Waiting(mempool, <<"plan", j>>)) + 1
      BY <2>4
    <3>3. Cardinality(Waiting(mempool, <<"plan", j>>)) \in Nat /\ z \in Nat
      BY <1>2, <1>7
    <3> QED BY ONLY <3>1, <3>2, <3>3
  <2>8. \A i : i # j => Waiting(w, <<"plan", i>>) = Waiting(mempool, <<"plan", i>>)
    BY <2>3, <2>4
  <2>9. Cardinality(Waiting(w, <<"plan", j>>)) \in Nat
    BY <1>7, <2>4
  <2>10. PlansPaid(chain, head, "awaitPlan", queue, w, late, executed, z)
    <3>1. PlansPaid(chain, head, pc, queue, mempool, late, executed, z) /\ j = Head(queue)
      BY <1>1 DEF z, j
    <3> HIDE DEF z, t
    <3> QED BY <1>2, <1>3, <2>2, <2>7, <2>8, <2>9, <3>1, PlansOn
  <2> QED BY <1>8, <2>1, <2>10
<1>25. CASE SendFill
  <2>1. /\ chain' = chain /\ head' = head /\ late' = late /\ executed' = executed
        /\ errors' = errors /\ crashes' = crashes
        /\ pc = "fill"
        /\ \/ pc' \in {"idle", "check", "down"} /\ mempool' = mempool /\ ~Fillable(j)
           \/ pc' = "await" /\ queue' = queue /\ mempool' = Append(mempool, <<"fill", j>>)
    BY <1>6, <1>25 DEF SendFill, SimulateAndSend, Send, At, GoOn, Finished, chainVars, worldVars, history
  <2>2. pc \in Phase /\ "await" \in Phase
    BY <2>1, Phases
  <2>3. \A i : InProgress(pc, queue, mempool, i) => i = j
    BY <1>14 DEF InProgress
  <2>4. CASE pc' \in {"idle", "check", "down"} /\ mempool' = mempool /\ ~Fillable(j)
    <3>1. ~Ours(chain, head, late, j)
      BY <1>4, <2>4 DEF Fillable, Ours
    <3>2. PlansPaid(chain, head, pc', queue', mempool, late, executed, z)
      BY <1>10, <2>3, <2>4, <3>1
    <3> QED BY <1>8, <2>1, <2>4, <3>2
  <2>5. CASE pc' = "await" /\ queue' = queue /\ mempool' = Append(mempool, <<"fill", j>>)
    <3> DEFINE w == Append(mempool, <<"fill", j>>)
    <3>1. /\ \A i : Waiting(w, <<"plan", i>>) = Waiting(mempool, <<"plan", i>>)
          /\ Waiting(w, <<"fill", j>>) # {}
      BY <1>5, <1>12, <2>2 DEF Kind
    <3> HIDE DEF w
    <3>2. ~MayExecute(chain, head, "await", queue, w, late, j)
      BY <1>15, <2>2, <3>1 DEF MayExecute, InProgress, InHand
    <3>3. ~Committed("await", queue, j)
      BY DEF Committed
    <3>4. One(Committed("await", queue, j))
            + One(MayExecute(chain, head, "await", queue, w, late, j)) + z
            <= One(Committed(pc, queue, j))
                 + One(MayExecute(chain, head, pc, queue, mempool, late, j)) + z
      BY <1>2, <3>2, <3>3 DEF One
    <3>5. PlansPaid(chain, head, "await", queue, w, late, executed, z)
      BY <1>13, <2>2, <3>1, <3>4
    <3>6. mempool' = w
      BY <2>5 DEF w
    <3> QED BY <1>8, <2>1, <2>5, <3>5, <3>6
  <2> QED BY <2>1, <2>4, <2>5
<1>26. CASE Receipt
  <2>1. /\ chain' = chain /\ head' = head /\ late' = late /\ executed' = executed
        /\ errors' = errors /\ crashes' = crashes /\ mempool' = mempool
        /\ \/ pc = "await" /\ mempool = << >> /\ pc' \in {"idle", "check", "down"}
           \/ pc = "awaitPlan" /\ pc' = "fill" /\ queue' = queue
    BY <1>26 DEF Receipt, At, GoOn, Finished, chainVars, worldVars, history
  <2>4. CASE pc = "await" /\ mempool = << >> /\ pc' \in {"idle", "check", "down"}
    <3>1. \A u : Waiting(mempool, u) = {}
      BY <2>4 DEF Waiting
    <3>2. \A i : ~InProgress(pc, queue, mempool, i)
      BY <2>4, <3>1 DEF InProgress
    <3>3. PlansPaid(chain, head, pc', queue', mempool, late, executed, z)
      BY <1>10, <2>4, <3>2
    <3> QED BY <1>8, <2>1, <3>3
  <2>5. CASE pc = "awaitPlan" /\ pc' = "fill" /\ queue' = queue
    <3>1. pc \in Phase /\ "fill" \in Phase
      BY <2>5, Phases
    <3>2. ~MayExecute(chain, head, "fill", queue, mempool, late, j)
      BY <1>15, <3>1 DEF MayExecute, InProgress, InHand
    <3>3. ~Committed("fill", queue, j)
      BY DEF Committed
    <3>4. One(Committed("fill", queue, j))
            + One(MayExecute(chain, head, "fill", queue, mempool, late, j)) + z
            <= One(Committed(pc, queue, j))
                 + One(MayExecute(chain, head, pc, queue, mempool, late, j)) + z
      BY <1>2, <3>2, <3>3 DEF One
    <3>5. PlansPaid(chain, head, "fill", queue, mempool, late, executed, z)
      BY <1>13, <3>1, <3>4
    <3> QED BY <1>8, <2>1, <2>5, <3>5
  <2> QED BY <2>1, <2>4, <2>5
<1>27. CASE Onward
  <2>1. /\ pc' = pc /\ queue' = queue /\ late' = late /\ crashes' = crashes
        /\ errors' \in Nat /\ errors <= errors'
        /\ Further(chain, head, chain', head') /\ mempool' \in Seq(Sent)
        /\ executed' \in [IntentId -> Nat]
        /\ \A i \in IntentId :
             executed'[i] + Cardinality(Waiting(mempool', <<"plan", i>>))
               <= executed[i] + Cardinality(Waiting(mempool, <<"plan", i>>))
        /\ \A i : Waiting(mempool, <<"fill", i>>) # {} =>
             Waiting(mempool', <<"fill", i>>) # {} \/ ~Ours(chain', head', late, i)
    BY <1>27, OnwardStep
  <2>2. ChainOK(chain', head')
    BY <2>1 DEF Further
  <2>3. PlanNumbers(chain', head', mempool', executed')
    BY <2>1, <2>2, WaitingFinite, SeenIndices DEF PlanNumbers
  <2>4. errors' + crashes \in Nat /\ z <= errors' + crashes
    <3>1. \A e \in Nat : errors <= e => e + crashes \in Nat /\ z <= e + crashes
      BY <1>1
    <3> QED BY <2>1, <3>1
  <2>5. PlansPaid(chain, head, pc, queue, mempool, late, executed, z)
    BY <1>1
  <2> HIDE DEF z
  <2>6. PlansPaid(chain', head', pc, queue, mempool', late, executed', errors' + crashes)
    BY <1>2, <1>3, <2>1, <2>3, <2>4, <2>5, PlansFurther
  <2> QED BY <2>1, <2>6 DEF PlansAccount
<1>28. ASSUME NEW i \in IntentId, Expire(i)
       PROVE  PlansAccount'
  <2>1. /\ pc' = pc /\ queue' = queue /\ chain' = chain /\ head' = head /\ executed' = executed
        /\ mempool' = mempool /\ crashes' = crashes /\ errors' = errors /\ late \subseteq late'
    BY <1>28 DEF Expire, agentVars, chainVars, history
  <2>2. Further(chain, head, chain, head)
    <3>1. Len(chain) <= Len(chain) /\ head <= head
      BY <1>1 DEF ChainOK
    <3> QED BY <1>1, <3>1 DEF Further, Grown
  <2>3. PlansPaid(chain, head, pc, queue, mempool, late, executed, z)
    BY <1>1
  <2>4. \A k \in IntentId : executed[k] + Cardinality(Waiting(mempool, <<"plan", k>>))
                              <= executed[k] + Cardinality(Waiting(mempool, <<"plan", k>>))
    <3> SUFFICES ASSUME NEW k \in IntentId
                 PROVE  executed[k] + Cardinality(Waiting(mempool, <<"plan", k>>))
                          <= executed[k] + Cardinality(Waiting(mempool, <<"plan", k>>))
      OBVIOUS
    <3>1. executed[k] \in Nat /\ Cardinality(Waiting(mempool, <<"plan", k>>)) \in Nat
      BY <1>1, <1>7
    <3> QED BY ONLY <3>1
  <2> HIDE DEF z
  <2>5. PlansPaid(chain, head, pc, queue, mempool, late', executed, z)
    BY <1>2, <1>3, <2>1, <2>2, <2>3, <2>4, PlansFurther
  <2> QED BY <2>1, <2>5 DEF PlansAccount, z
<1> QED BY <1>16, <1>17, <1>18, <1>19, <1>20, <1>21, <1>22, <1>24, <1>25, <1>26, <1>27, <1>28,
           StepKinds DEF Turn

----------------------------------------------------------------------------
(* The plan comes before the fill.                                         *)

\* Nothing of the sort is in the hands of a process that is done with its event.
LEMMA FirstIdle ==
  ASSUME NEW c, NEW p, NEW q, NEW m, NEW x, NEW S, PlanFirst(c, p, q, m, x, S),
         NEW r \in {"idle", "check", "down"}, NEW s
  PROVE  PlanFirst(c, r, s, m, x, S)
BY DEF PlanFirst

\* The exempt intents may become more.
LEMMA FirstLess ==
  ASSUME NEW c, NEW p, NEW q, NEW m, NEW x, NEW S, PlanFirst(c, p, q, m, x, S),
         NEW T, S \subseteq T
  PROVE  PlanFirst(c, p, q, m, x, T)
BY DEF PlanFirst

\* The process goes on with the event: it sends a fill from one place only, and comes
\* to that place past the plan.
LEMMA FirstOn ==
  ASSUME NEW c, NEW p, NEW q, NEW m, NEW x, NEW S, PlanFirst(c, p, q, m, x, S),
         NEW r, NEW w,
         \A i : Waiting(w, <<"fill", i>>) # {} =>
                  Waiting(m, <<"fill", i>>) # {} \/ (InHand(p, q, i) /\ p = "fill"),
         r = "fill" /\ Head(q) \in IntentId \ S => x[Head(q)] > 0,
         r = "awaitPlan" => Waiting(w, <<"plan", Head(q)>>) # {}
  PROVE  PlanFirst(c, r, q, w, x, S)
BY DEF PlanFirst, InHand

\* The log goes on: a fill of the agent waited before, and a plan that waited was
\* executed, or still waits.
LEMMA FirstFurther ==
  ASSUME NEW c, NEW p, NEW q, NEW m, NEW x, NEW S, PlanFirst(c, p, q, m, x, S),
         NEW d, NEW w, NEW v,
         \A i \in IntentId : x[i] > 0 => v[i] > 0,
         \A i : FillBySelf(d, i) => FillBySelf(c, i) \/ Waiting(m, <<"fill", i>>) # {},
         \A i : Waiting(w, <<"fill", i>>) # {} => Waiting(m, <<"fill", i>>) # {},
         \A i \in IntentId \ S : Waiting(m, <<"plan", i>>) # {} =>
                                   Waiting(w, <<"plan", i>>) # {} \/ v[i] > 0
  PROVE  PlanFirst(d, p, q, w, v, S)
<1> SUFFICES ASSUME NEW i \in IntentId \ S
             PROVE  /\ FillBySelf(d, i) => v[i] > 0
                    /\ Waiting(w, <<"fill", i>>) # {} => v[i] > 0
                    /\ InHand(p, q, i) /\ p = "fill" => v[i] > 0
                    /\ InHand(p, q, i) /\ p = "awaitPlan" =>
                         v[i] > 0 \/ Waiting(w, <<"plan", i>>) # {}
  BY DEF PlanFirst
<1>1. /\ FillBySelf(c, i) => x[i] > 0
      /\ Waiting(m, <<"fill", i>>) # {} => x[i] > 0
      /\ InHand(p, q, i) /\ p = "fill" => x[i] > 0
      /\ InHand(p, q, i) /\ p = "awaitPlan" => x[i] > 0 \/ Waiting(m, <<"plan", i>>) # {}
  BY DEF PlanFirst
<1> QED BY <1>1

\* The plan stays first.
LEMMA FirstStep ==
  ASSUME LogSound, AgentTypes, QueueSound, FillsAfterPlans, Next
  PROVE  FillsAfterPlans'
<1> DEFINE j == Head(queue)
<1> SUFFICES PlanFirst(chain', pc', queue', mempool', executed', planless')
  BY DEF FillsAfterPlans
<1>1. /\ ChainOK(chain, head) /\ mempool \in Seq(Sent) /\ executed \in [IntentId -> Nat]
      /\ AgentWhere(head, nextBlock, pc, queue)
      /\ PlanFirst(chain, pc, queue, mempool, executed, planless)
  BY DEF LogSound, AgentTypes, QueueSound, FillsAfterPlans
<1>2. pc \in Phase => queue # << >> /\ j \in IntentId
  BY DEF AgentTypes, QueueSound, AgentWhere
<1>3. Current = j
  BY DEF Current
<1>4. ASSUME NEW r, NEW s, PlanFirst(chain, r, s, mempool, executed, planless), pc' = r, queue' = s,
             chain' = chain, mempool' = mempool, executed' = executed, planless' = planless
      PROVE  PlanFirst(chain', pc', queue', mempool', executed', planless')
  BY ONLY <1>4
<1>5. CASE chain' = chain /\ mempool' = mempool /\ executed' = executed
           /\ planless' = planless /\ pc' \in {"idle", "check", "down"}
  <2>1. PlanFirst(chain, pc', queue', mempool, executed, planless)
    BY <1>1, <1>5, FirstIdle
  <2> QED BY <1>5, <2>1
<1>6. ASSUME NEW r \in {"choose", "bid", "lookUp", "execute"}, pc' = r, queue' = queue,
             chain' = chain, mempool' = mempool, executed' = executed, planless' = planless
      PROVE  PlanFirst(chain', pc', queue', mempool', executed', planless')
  <2>1. PlanFirst(chain, r, queue, mempool, executed, planless)
    BY <1>1, FirstOn
  <2> QED BY <1>6, <2>1
<1>7. CASE Start \/ Poll \/ Crash \/ Throws
  BY <1>5, <1>7 DEF Start, Poll, Crash, Throws, Finished, history, chainVars
<1>8. CASE CheckIntent
  BY <1>5, <1>6, <1>8 DEF CheckIntent, GoOn, Finished, history, chainVars
<1>9. CASE ChooseRole
  BY <1>5, <1>6, <1>9 DEF ChooseRole, RoleFor, GoOn, Finished, history, chainVars
<1>10. CASE SendBid
  <2> DEFINE t == <<"bid", j>>
             w == Append(mempool, t)
  <2>1. /\ chain' = chain /\ executed' = executed /\ planless' = planless /\ pc = "bid"
        /\ \/ pc' \in {"idle", "check", "down"} /\ mempool' = mempool
           \/ pc' = "await" /\ queue' = queue /\ mempool' = w
    BY <1>3, <1>10 DEF SendBid, SimulateAndSend, Send, At, GoOn, Finished, history, chainVars
  <2>2. t \in Sent /\ \A i : <<"fill", i>> # t
    BY <1>2, <2>1, Phases DEF Sent, Kind
  <2>3. \A u : u # t => Waiting(w, u) = Waiting(mempool, u)
    BY <1>1, <2>2, WaitingAppend
  <2> HIDE DEF w, t
  <2>4. \A i : Waiting(w, <<"fill", i>>) = Waiting(mempool, <<"fill", i>>)
    BY <2>2, <2>3
  <2>5. PlanFirst(chain, pc, queue, mempool, executed, planless) /\ j = Head(queue)
    BY <1>1
  <2>6. \A i : Waiting(w, <<"fill", i>>) # {} =>
                 Waiting(mempool, <<"fill", i>>) # {} \/ (InHand(pc, queue, i) /\ pc = "fill")
    BY <2>4
  <2> HIDE DEF j
  <2>7. ASSUME NEW r, r # "fill", r # "awaitPlan"
        PROVE  PlanFirst(chain, r, queue, w, executed, planless)
    BY ONLY <2>5, <2>6, <2>7, FirstOn
  <2> QED BY <1>5, <2>1, <2>7
<1>11. CASE LookUp
  <2>1. /\ chain' = chain /\ executed' = executed /\ mempool' = mempool
        /\ \/ pc' \in {"idle", "check", "down"} /\ planless' = planless
           \/ pc' = "execute" /\ queue' = queue /\ planless' = planless
           \/ pc' = "fill" /\ queue' = queue /\ planless' = planless \cup {j}
    BY <1>3, <1>11 DEF LookUp, At, GoOn, Finished, chainVars
  <2>2. CASE pc' = "fill" /\ queue' = queue /\ planless' = planless \cup {j}
    <3> DEFINE T == planless \cup {j}
    <3>1. planless \subseteq T /\ Head(queue) \in T
      OBVIOUS
    <3> HIDE DEF T
    <3>2. PlanFirst(chain, pc, queue, mempool, executed, T)
      BY <1>1, <3>1, FirstLess
    <3>3. ASSUME NEW r, r # "awaitPlan"
          PROVE  PlanFirst(chain, r, queue, mempool, executed, T)
      BY <3>1, <3>2, <3>3, FirstOn
    <3>4. PlanFirst(chain, "fill", queue, mempool, executed, T)
      BY <3>3
    <3> QED BY <2>1, <2>2, <3>4 DEF T
  <2> QED BY <1>5, <1>6, <2>1, <2>2
<1>13. CASE ExecutePlan
  <2> DEFINE t == <<"plan", j>>
             w == Append(mempool, t)
  <2>1. /\ chain' = chain /\ executed' = executed /\ planless' = planless /\ pc = "execute"
        /\ pc' = "awaitPlan" /\ queue' = queue /\ mempool' = w
    BY <1>3, <1>13 DEF ExecutePlan, SimulateAndSend, Send, At, GoOn, history, chainVars
  <2>2. t \in Sent /\ \A i : <<"fill", i>> # t
    BY <1>2, <2>1, Phases DEF Sent, Kind
  <2>3. /\ \A u : u # t => Waiting(w, u) = Waiting(mempool, u)
        /\ Waiting(w, t) # {}
    BY <1>1, <2>2, WaitingAppend
  <2> HIDE DEF w
  <2>4. \A i : Waiting(w, <<"fill", i>>) = Waiting(mempool, <<"fill", i>>)
    BY <2>2, <2>3
  <2>5. PlanFirst(chain, "awaitPlan", queue, w, executed, planless)
    <3>1. \A i : Waiting(w, <<"fill", i>>) # {} =>
                   Waiting(mempool, <<"fill", i>>) # {} \/ (InHand(pc, queue, i) /\ pc = "fill")
      BY <2>4
    <3>2. Waiting(w, <<"plan", Head(queue)>>) # {}
      BY <2>3
    <3> HIDE DEF t, j
    <3>3. ASSUME NEW r, r # "fill"
          PROVE  PlanFirst(chain, r, queue, w, executed, planless)
      BY <1>1, <3>1, <3>2, <3>3, FirstOn
    <3> QED BY <3>3
  <2> QED BY <2>1, <2>5
<1>14. CASE SendFill
  <2> DEFINE t == <<"fill", j>>
             w == Append(mempool, t)
  <2>1. /\ chain' = chain /\ executed' = executed /\ planless' = planless /\ pc = "fill"
        /\ \/ pc' \in {"idle", "check", "down"} /\ mempool' = mempool
           \/ pc' = "await" /\ queue' = queue /\ mempool' = w
    BY <1>3, <1>14 DEF SendFill, SimulateAndSend, Send, At, GoOn, Finished, history, chainVars
  <2>2. t \in Sent /\ pc \in Phase /\ \A i : i # j => <<"fill", i>> # t
    BY <1>2, <2>1, Phases DEF Sent, Kind
  <2>3. \A u : u # t => Waiting(w, u) = Waiting(mempool, u)
    BY <1>1, <2>2, WaitingAppend
  <2> HIDE DEF w, t
  <2>4. \A i : i # j => Waiting(w, <<"fill", i>>) = Waiting(mempool, <<"fill", i>>)
    BY <2>2, <2>3
  <2>5. InHand(pc, queue, j)
    BY <2>2 DEF InHand
  <2>6. PlanFirst(chain, pc, queue, mempool, executed, planless) /\ j = Head(queue)
    BY <1>1
  <2>7. \A i : Waiting(w, <<"fill", i>>) # {} =>
                 Waiting(mempool, <<"fill", i>>) # {} \/ (InHand(pc, queue, i) /\ pc = "fill")
    BY <2>1, <2>4, <2>5
  <2> HIDE DEF j
  <2>8. ASSUME NEW r, r # "fill", r # "awaitPlan"
        PROVE  PlanFirst(chain, r, queue, w, executed, planless)
    BY ONLY <2>6, <2>7, <2>8, FirstOn
  <2> QED BY <1>5, <2>1, <2>8
<1>15. CASE Receipt
  <2>1. /\ chain' = chain /\ executed' = executed /\ planless' = planless /\ mempool' = mempool /\ mempool = << >>
        /\ \/ pc' \in {"idle", "check", "down"}
           \/ pc = "awaitPlan" /\ pc' = "fill" /\ queue' = queue
    BY <1>15 DEF Receipt, At, GoOn, Finished, history, chainVars
  <2>2. CASE pc = "awaitPlan" /\ pc' = "fill" /\ queue' = queue
    <3>1. Waiting(mempool, <<"plan", j>>) = {}
      BY <2>1 DEF Waiting
    <3>2. InHand(pc, queue, j)
      BY <2>2, Phases DEF InHand
    <3>3. j \in IntentId \ planless => executed[j] > 0
      BY <1>1, <2>2, <3>1, <3>2 DEF PlanFirst
    <3>4. PlanFirst(chain, "fill", queue, mempool, executed, planless)
      BY <1>1, <3>3, FirstOn
    <3> QED BY <2>1, <2>2, <3>4
  <2> QED BY <1>5, <2>1, <2>2
<1>16. CASE Onward
  <2>1. /\ pc' = pc /\ queue' = queue /\ planless \subseteq planless'
        /\ executed' \in [IntentId -> Nat] /\ \A i \in IntentId : executed[i] <= executed'[i]
        /\ \A i : Waiting(mempool', <<"fill", i>>) # {} => Waiting(mempool, <<"fill", i>>) # {}
        /\ \A i : FillBySelf(chain', i) =>
             FillBySelf(chain, i) \/ Waiting(mempool, <<"fill", i>>) # {}
        /\ \A i \in IntentId \ planless' :
             Waiting(mempool, <<"plan", i>>) # {} =>
               Waiting(mempool', <<"plan", i>>) # {} \/ executed'[i] > 0
    BY <1>1, <1>16, OnwardStep
  <2>2. \A i \in IntentId : executed[i] > 0 => executed'[i] > 0
    <3>1. \A a, b \in Nat : a <= b /\ a > 0 => b > 0
      OBVIOUS
    <3>2. \A i \in IntentId : executed[i] \in Nat /\ executed'[i] \in Nat /\ executed[i] <= executed'[i]
      BY <1>1, <2>1
    <3> QED BY <3>1, <3>2
  <2>3. PlanFirst(chain, pc, queue, mempool, executed, planless')
    BY <1>1, <2>1, FirstLess
  <2>4. PlanFirst(chain', pc, queue, mempool', executed', planless')
    BY <2>1, <2>2, <2>3, FirstFurther
  <2> QED BY <2>1, <2>4
<1>17. ASSUME NEW i \in IntentId, Expire(i)
       PROVE  PlanFirst(chain', pc', queue', mempool', executed', planless')
  <2>1. /\ pc' = pc /\ queue' = queue /\ chain' = chain /\ executed' = executed
        /\ mempool' = mempool /\ planless' = planless
    BY <1>17 DEF Expire, agentVars, history, chainVars
  <2> QED BY <1>1, <2>1
<1> QED BY <1>7, <1>8, <1>9, <1>10, <1>11, <1>13, <1>14, <1>15, <1>16, <1>17, StepKinds
        DEF Turn

----------------------------------------------------------------------------
(* The invariant, and the properties it implies.                           *)

\* Nothing happened, nothing waits and nothing is queued: one bid per intent may come.
LEMMA AgentInit ==
  ASSUME Init
  PROVE  AgentInv
<1>1. /\ chain = << >> /\ head = 0 /\ nextBlock = 0 /\ pc = "down" /\ queue = << >>
      /\ mempool = << >> /\ late = {} /\ executed = [i \in IntentId |-> 0]
      /\ attested \subseteq IntentId
      /\ errors = 0 /\ crashes = 0
  BY DEF Init, ChainInit
<1>2. /\ \A k \in DOMAIN chain : FALSE
      /\ \A k \in DOMAIN mempool : FALSE
      /\ \A k \in DOMAIN queue : FALSE
  BY <1>1
<1>3. pc \notin Phase
  BY <1>1, Phases
<1>4. LogSound
  BY <1>1, <1>2, EmptyLog DEF LogSound, Named
<1>5. AgentTypes
  BY <1>1 DEF AgentTypes
<1>6. QueueSound
  BY <1>1, <1>2, <1>3 DEF QueueSound, AgentWhere, Queued
<1>7. \A u : Waiting(mempool, u) = {}
  BY <1>2 DEF Waiting
<1>8. \A i : BidsBySelf(chain, i) = {} /\ SelectionsSeen(chain, head, i) = {}
  BY <1>2 DEF BidsBySelf, BidsOf, SelectionsSeen, Seen
<1>9. Cardinality({}) = 0
  BY FS_EmptySet
<1>10. BidsAccount
  <2>1. \A i \in IntentId : One(MayBid(chain, head, nextBlock, pc, queue, i)) \in {0, 1}
    BY DEF One
  <2>2. \A n \in {0, 1} : 0 + 0 + n <= 0 + 1
    OBVIOUS
  <2>3. \A i \in IntentId :
          0 + 0 + One(MayBid(chain, head, nextBlock, pc, queue, i)) <= 0 + 1
    BY <2>1, <2>2
  <2> QED BY <1>1, <1>7, <1>8, <1>9, <2>3 DEF BidsAccount, BidsPaid
<1>11. PlansAccount
  <2>1. \A i : SelectedSeen(chain, head, i) # {Self}
    BY <1>8 DEF SelectedSeen
  <2>2. \A i : /\ ~Committed(pc, queue, i)
               /\ ~MayExecute(chain, head, pc, queue, mempool, late, i)
    BY <1>3, <2>1 DEF Committed, InHand, MayExecute, Ours
  <2>3. \A i : /\ One(Committed(pc, queue, i)) = 0
               /\ One(MayExecute(chain, head, pc, queue, mempool, late, i)) = 0
    BY <2>2 DEF One
  <2>4. \A i \in IntentId : executed[i] = 0
    BY <1>1
  <2>5. errors + crashes = 0
    BY <1>1
  <2> QED BY <1>7, <1>8, <1>9, <2>3, <2>4, <2>5 DEF PlansAccount, PlansPaid
<1>12. FillsAfterPlans
  BY <1>2, <1>3, <1>7 DEF FillsAfterPlans, PlanFirst, FillBySelf, InHand
<1> QED BY <1>4, <1>5, <1>6, <1>10, <1>11, <1>12 DEF AgentInv

LEMMA AgentStep ==
  ASSUME AgentInv, [Next]_vars
  PROVE  AgentInv'
<1>1. CASE Next
  BY <1>1, LogStep, TypesStep, QueueStep, BidsStep, PlansStep, FirstStep DEF AgentInv
<1>2. CASE UNCHANGED vars
  <2>1. /\ chain' = chain /\ head' = head /\ nextBlock' = nextBlock /\ pc' = pc /\ queue' = queue
        /\ mempool' = mempool /\ attested' = attested /\ late' = late
        /\ executed' = executed /\ planless' = planless /\ errors' = errors /\ crashes' = crashes
    BY <1>2 DEF vars, chainVars, agentVars, worldVars, history
  <2>2. LogSound' /\ AgentTypes' /\ QueueSound'
    BY <2>1 DEF AgentInv, LogSound, AgentTypes, QueueSound
  <2>3. BidsAccount' /\ FillsAfterPlans'
    BY <2>1 DEF AgentInv, BidsAccount, FillsAfterPlans
  <2>4. PlansAccount'
    BY <2>1 DEF AgentInv, PlansAccount
  <2> QED BY <2>2, <2>3, <2>4 DEF AgentInv
<1> QED BY <1>1, <1>2

\* The inductive invariant: the log is as the registries write it, the queue holds what
\* was polled, the two accounts are settled, and a plan that was looked up with success comes
\* before its fill (solver/src/executor.ts, processIntent; listener.ts, pollForEvents).
THEOREM AgentInvAlways == Spec => []AgentInv
<1>1. Init => AgentInv
  BY AgentInit
<1>2. AgentInv /\ [Next]_vars => AgentInv'
  BY AgentStep
<1> QED BY <1>1, <1>2, PTL DEF Spec

\* The account of the bids pays for every bid with a life of the process.
LEMMA OnceByAccount ==
  ASSUME AgentInv
  PROVE  OneBidPerLife
<1> SUFFICES ASSUME NEW i \in IntentId
             PROVE  Cardinality(OwnBids(i)) <= crashes + 1
  BY DEF OneBidPerLife
<1>1. ChainOK(chain, head) /\ mempool \in Seq(Sent) /\ crashes \in Nat
  BY DEF AgentInv, LogSound, AgentTypes
<1>2. OwnBids(i) = BidsBySelf(chain, i)
  BY <1>1, LogPositions DEF OwnBids, BidsBySelf
<1> DEFINE a == Cardinality(BidsBySelf(chain, i))
           b == Cardinality(Waiting(mempool, <<"bid", i>>))
           o == One(MayBid(chain, head, nextBlock, pc, queue, i))
<1>3. a + b + o <= crashes + 1
  BY DEF AgentInv, BidsAccount, BidsPaid
<1>4. a \in Nat
  BY <1>1, OwnBidsFinite
<1>5. b \in Nat
  BY <1>1, WaitingFinite
<1>6. o \in Nat
  BY DEF One
<1> HIDE DEF a, b, o
<1>7. a <= crashes + 1
  BY ONLY <1>1, <1>3, <1>4, <1>5, <1>6
<1> QED BY <1>2, <1>7 DEF a

\* The agent, which keeps no record of its bids, bids on an intent at most once in each
\* life of the process (solver/src/executor.ts, processIntent).
THEOREM AlwaysOneBidPerLife == Spec => []OneBidPerLife
BY AgentInvAlways, OnceByAccount, PTL

\* The account of the plans pays for every execution with a selection or a failure, and
\* the order of the two transactions puts the plan before the fill.
LEMMA PlansByAccount ==
  ASSUME AgentInv
  PROVE  PlansBounded
<1>1. /\ ChainOK(chain, head) /\ mempool \in Seq(Sent) /\ executed \in [IntentId -> Nat]
      /\ errors \in Nat /\ crashes \in Nat
  BY DEF AgentInv, LogSound, AgentTypes
<1>2. /\ Len(chain) \in Nat /\ DOMAIN chain = 1..Len(chain)
  BY <1>1 DEF ChainOK
<1>3. ASSUME NEW i \in IntentId
      PROVE  executed[i] <= Cardinality(Selections(i)) + errors + crashes
  <2> DEFINE x == executed[i]
             a == Cardinality(Waiting(mempool, <<"plan", i>>))
             b == One(Committed(pc, queue, i))
             o == One(MayExecute(chain, head, pc, queue, mempool, late, i))
             s == Cardinality(SelectionsSeen(chain, head, i))
             t == Cardinality(Selections(i))
  <2>1. x + a + b + o <= s + (errors + crashes)
    BY DEF AgentInv, PlansAccount, PlansPaid
  <2>2. x \in Nat /\ a \in Nat
    BY <1>1, WaitingFinite
  <2>3. b \in Nat /\ o \in Nat
    BY DEF One
  <2>4. Selections(i) \subseteq 1..Len(chain)
    BY <1>1, <1>2, LogPositions
  <2>5. SelectionsSeen(chain, head, i) \subseteq Selections(i)
    BY <1>1, LogPositions DEF SelectionsSeen, Seen
  <2>6. s \in Nat /\ t \in Nat /\ s <= t
    <3>1. IsFiniteSet(Selections(i)) /\ t \in Nat
      BY <1>2, <2>4, Indices
    <3>2. s <= t
      BY <2>5, <3>1, FS_Subset
    <3>3. s \in Nat
      BY <1>2, <2>4, <2>5, Indices
    <3> QED BY <3>1, <3>2, <3>3
  <2> HIDE DEF x, a, b, o, s, t
  <2>7. x <= t + errors + crashes
    BY ONLY <1>1, <2>1, <2>2, <2>3, <2>6
  <2> QED BY <2>7 DEF x, t
<1>4. ASSUME NEW i \in IntentId, i \notin planless, FilledBySelf(i)
      PROVE  executed[i] > 0
  <2>1. FillBySelf(chain, i)
    BY <1>2, <1>4 DEF FilledBySelf, Positions, FillBySelf, Is
  <2> QED BY <1>4, <2>1 DEF AgentInv, FillsAfterPlans, PlanFirst
<1> QED BY <1>3, <1>4 DEF PlansBounded

\* A plan is executed no more often than the owner selected, but for one more time for
\* each error or crash; and, whatever crashes in between, an intent the agent filled
\* without having executed its plan is one of which a lookup of the metadata came back
\* empty, or whose plan reverted (solver/src/executor.ts, processIntent).
THEOREM PlansAlwaysBounded == Spec => []PlansBounded
BY AgentInvAlways, PlansByAccount, PTL
=============================================================================
