----------------------------- MODULE ChainTheorems -----------------------------
(***************************************************************************)
(* Facts about ChainLog for every value of its constants, which the proofs *)
(* about the services that read the log rest on: how a log of the book may *)
(* look, that every transaction keeps it so, and what a prefix of it tells.*)
(***************************************************************************)
EXTENDS ChainLog, SumTheorems

----------------------------------------------------------------------------
(* Counting.                                                               *)

\* A set of indices with every smaller index of its members is 1..n.
LEMMA InitialSegment ==
  ASSUME NEW L \in Nat, NEW S \in SUBSET (1..L), \A k \in S : \A j \in 1..k : j \in S
  PROVE  Cardinality(S) \in 0..L /\ S = 1..Cardinality(S)
<1>1. \E n \in 0..L : S = 1..n
  <2> SUFFICES ASSUME \A n \in 0..L : S # 1..n PROVE FALSE
    OBVIOUS
  <2> DEFINE T == {n \in Nat : \A j \in 1..n : j \in S}
  <2>1. 0 \in T
    OBVIOUS
  <2>2. ASSUME NEW n \in Nat, n \in T PROVE n + 1 \in T
    <3>1. n <= L
      BY <2>2
    <3>a. S # 1..n /\ \A j \in 1..n : j \in S
      BY <2>2, <3>1
    <3>2. PICK k \in S : k \notin 1..n
      BY <3>a
    <3>3. k \in Nat /\ n + 1 \in 1..k
      BY <3>2
    <3>4. n + 1 \in S
      BY <3>3
    <3> QED BY <2>2, <3>4
  <2>3. \A n \in Nat : n \in T
    <3> HIDE DEF T
    <3> QED BY <2>1, <2>2, Induction
  <2>4. L + 1 \in T
    <3> HIDE DEF T
    <3> QED BY <2>3
  <2> QED BY <2>4
<1>2. PICK n \in 0..L : S = 1..n
  BY <1>1
<1>3. Cardinality(S) = n
  <2>1. Cardinality(1..n) = IF 1 > n THEN 0 ELSE n - 1 + 1
    BY FS_Interval
  <2> QED BY <1>2, <2>1
<1> QED BY <1>2, <1>3

\* The greatest element of a nonempty set of indices.
LEMMA GreatestIndex ==
  ASSUME NEW L \in Nat, NEW S \in SUBSET (1..L), S # {}
  PROVE  Max(S) \in S
<1> DEFINE Covered == {j \in 1..L : \E k \in S : j <= k}
           n == Cardinality(Covered)
<1>1. n \in 0..L /\ Covered = 1..n
  <2>1. Covered \in SUBSET (1..L) /\ \A k \in Covered : \A j \in 1..k : j \in Covered
    OBVIOUS
  <2> HIDE DEF Covered
  <2> QED BY <2>1, InitialSegment
<1> HIDE DEF n
<1>2. n \in Covered
  <2>1. PICK k \in S : TRUE
    OBVIOUS
  <2>2. k \in Covered
    OBVIOUS
  <2> HIDE DEF Covered
  <2> QED BY <1>1, <2>2
<1>3. PICK k \in S : n <= k
  BY <1>2
<1>4. \A j \in S : j \in 1..n
  <2>1. \A j \in S : j \in 1..L /\ j <= j
    OBVIOUS
  <2>2. \A j \in S : j \in Covered
    BY <2>1
  <2> HIDE DEF Covered
  <2> QED BY <1>1, <2>2
<1>5. \A j \in S : k >= j
  BY <1>1, <1>3, <1>4
<1> QED BY <1>5 DEF Max

\* The least element of a nonempty set of indices.
LEMMA LeastIndex ==
  ASSUME NEW L \in Nat, NEW S \in SUBSET (1..L), S # {}
  PROVE  Min(S) \in S /\ \A k \in S : Min(S) <= k
<1> DEFINE Below == {j \in 1..L : \A k \in S : j < k}
           n == Cardinality(Below)
<1>1. n \in 0..L /\ Below = 1..n
  <2>1. Below \in SUBSET (1..L) /\ \A k \in Below : \A j \in 1..k : j \in Below
    OBVIOUS
  <2> HIDE DEF Below
  <2> QED BY <2>1, InitialSegment
<1>2. n + 1 \notin Below
  <2> HIDE DEF n, Below
  <2> QED BY <1>1
<1> HIDE DEF n
<1>3. n + 1 \in 1..L
  <2>1. PICK k \in S : TRUE
    OBVIOUS
  <2>2. k \notin Below /\ k \in 1..L
    OBVIOUS
  <2> HIDE DEF Below
  <2> QED BY <1>1, <2>2
<1>4. PICK k \in S : ~(n + 1 < k)
  BY <1>2, <1>3
<1>5. \A j \in S : n < j
  <2> SUFFICES ASSUME NEW j \in S, ~(n < j) PROVE FALSE
    BY <1>1
  <2>1. j \in 1..n
    BY <1>1
  <2>2. j \in Below
    <3> HIDE DEF Below
    <3> QED BY <1>1, <2>1
  <2> QED BY <2>2
<1>6. \A j \in S : k =< j
  BY <1>1, <1>4, <1>5
<1>7. \E x \in S : \A y \in S : x =< y
  BY <1>6
<1> QED BY <1>7 DEF Min

----------------------------------------------------------------------------
(* The log.                                                                *)

Ends == {"IntentFilled", "IntentCancelled"}
Names == Ends \cup {"IntentSubmitted", "IntentFillProof", "SolverBidSubmitted",
                    "SolverBidSelected"}

EventType == [name : Names, intentId : IntentId, bidId : Nat, solver : SUBSET Solver,
              blockNumber : Nat]

\* Event e has the name and is about intent i.
Is(e, name, i) == e.name = name /\ e.intentId = i

BidsOf(c, i) == {k \in DOMAIN c : Is(c[k], "SolverBidSubmitted", i)}

\* Events are in the order of their blocks, of which the last is being built.
InBlocks(c, h) ==
  \A k \in DOMAIN c :
    /\ c[k].blockNumber \in 1..(h + 1)
    /\ \A j \in 1..k : c[j].blockNumber <= c[k].blockNumber

\* An intent is submitted once and before anything else happens to it.
SubmittedFirst(c) ==
  /\ \A k \in DOMAIN c : \E j \in 1..k : Is(c[j], "IntentSubmitted", c[k].intentId)
  /\ \A j, k \in DOMAIN c :
       /\ c[j].name = "IntentSubmitted" /\ c[k].name = "IntentSubmitted"
       /\ c[j].intentId = c[k].intentId
       => j = k

\* An intent is filled or cancelled, and once.
EndsOnce(c) ==
  \A j, k \in DOMAIN c :
    c[j].name \in Ends /\ c[k].name \in Ends /\ c[j].intentId = c[k].intentId => j = k

\* The proof of a fill comes right after it.
ProofFollows(c) ==
  \A k \in DOMAIN c : c[k].name = "IntentFillProof" =>
    /\ k - 1 \in DOMAIN c
    /\ Is(c[k - 1], "IntentFilled", c[k].intentId)
    /\ c[k - 1].blockNumber = c[k].blockNumber

\* The bids for an intent are numbered from 1, and it is one of them that is selected.
BidsNumbered(c) ==
  /\ \A i \in IntentId : {c[k].bidId : k \in BidsOf(c, i)} = 1..Cardinality(BidsOf(c, i))
  /\ \A i \in IntentId : \A j, k \in BidsOf(c, i) : c[j].bidId = c[k].bidId => j = k
  /\ \A k \in DOMAIN c : c[k].name \in {"SolverBidSubmitted", "SolverBidSelected"} =>
       c[k].bidId \in BidId
  /\ \A k \in DOMAIN c : c[k].name = "SolverBidSelected" =>
       \E j \in 1..k : j \in BidsOf(c, c[k].intentId) /\ c[j].bidId = c[k].bidId

\* An event is about one solver at most.
OneSolver(c) == \A k \in DOMAIN c : \A s, t \in c[k].solver : s = t

ChainOK(c, h) ==
  /\ c \in Seq(EventType)
  /\ h \in Nat
  /\ InBlocks(c, h)
  /\ SubmittedFirst(c)
  /\ EndsOnce(c)
  /\ ProofFollows(c)
  /\ BidsNumbered(c)
  /\ OneSolver(c)

\* Event e may come next.
Fits(c, h, e) ==
  /\ e \in EventType
  /\ e.blockNumber = h + 1
  /\ e.name = "IntentSubmitted" => \A j \in DOMAIN c : c[j].intentId # e.intentId
  /\ e.name # "IntentSubmitted" => \E j \in DOMAIN c : Is(c[j], "IntentSubmitted", e.intentId)
  /\ e.name \in Ends => \A j \in DOMAIN c : c[j].name \in Ends => c[j].intentId # e.intentId
  /\ e.name = "IntentFillProof" =>
       /\ Len(c) \in DOMAIN c
       /\ Is(c[Len(c)], "IntentFilled", e.intentId)
       /\ c[Len(c)].blockNumber = e.blockNumber
  /\ e.name = "SolverBidSubmitted" => e.bidId = Cardinality(BidsOf(c, e.intentId)) + 1
  /\ e.name \in {"SolverBidSubmitted", "SolverBidSelected"} => e.bidId \in BidId
  /\ e.name = "SolverBidSelected" => \E j \in BidsOf(c, e.intentId) : c[j].bidId = e.bidId
  /\ \A s, t \in e.solver : s = t

\* What one event more does to a sequence.
LEMMA Appended ==
  ASSUME NEW T, NEW c \in Seq(T), NEW e \in T
  PROVE  /\ Append(c, e) \in Seq(T) /\ Len(c) \in Nat
         /\ DOMAIN c = 1..Len(c) /\ DOMAIN Append(c, e) = 1..(Len(c) + 1)
         /\ Append(c, e)[Len(c) + 1] = e
         /\ \A k \in DOMAIN c : Append(c, e)[k] = c[k] /\ k # Len(c) + 1
         /\ \A k \in DOMAIN Append(c, e) : k \in DOMAIN c \/ k = Len(c) + 1
         /\ \A k \in DOMAIN c : k \in DOMAIN Append(c, e) /\ \A j \in 1..k : j \in DOMAIN c
         /\ \A k \in DOMAIN Append(c, e) : k \in 1..(Len(c) + 1)
OBVIOUS

\* The bids for an intent stay as they were, or are one more.
LEMMA BidsNext ==
  ASSUME NEW c \in Seq(EventType), NEW e \in EventType
  PROVE  /\ \A i : IsFiniteSet(BidsOf(c, i)) /\ Cardinality(BidsOf(c, i)) \in Nat
         /\ \A i : ~Is(e, "SolverBidSubmitted", i) => BidsOf(Append(c, e), i) = BidsOf(c, i)
         /\ \A i : Is(e, "SolverBidSubmitted", i) =>
              /\ BidsOf(Append(c, e), i) = BidsOf(c, i) \cup {Len(c) + 1}
              /\ Len(c) + 1 \notin BidsOf(c, i)
              /\ Cardinality(BidsOf(Append(c, e), i)) = Cardinality(BidsOf(c, i)) + 1
<1> DEFINE d == Append(c, e)
<1>1. /\ DOMAIN c = 1..Len(c) /\ DOMAIN d = 1..(Len(c) + 1) /\ d[Len(c) + 1] = e
      /\ \A k \in DOMAIN c : d[k] = c[k] /\ k # Len(c) + 1 /\ k \in DOMAIN d
      /\ \A k \in DOMAIN d : k \in DOMAIN c \/ k = Len(c) + 1
      /\ Len(c) \in Nat /\ Len(c) + 1 \in DOMAIN d
  BY Appended
<1> HIDE DEF d
<1>2. \A i : IsFiniteSet(BidsOf(c, i)) /\ Cardinality(BidsOf(c, i)) \in Nat
  <2> TAKE i
  <2>1. IsFiniteSet(1..Len(c))
    <3>1. 1 \in Int /\ Len(c) \in Int
      BY <1>1
    <3> QED BY <3>1, FS_Interval
  <2>2. BidsOf(c, i) \subseteq 1..Len(c)
    BY <1>1 DEF BidsOf
  <2>3. IsFiniteSet(BidsOf(c, i))
    BY <2>1, <2>2, FS_Subset
  <2> QED BY <2>3, FS_CardinalityType
<1>3. \A i : ~Is(e, "SolverBidSubmitted", i) => BidsOf(d, i) = BidsOf(c, i)
  BY <1>1 DEF BidsOf
<1>4. \A i : Is(e, "SolverBidSubmitted", i) => BidsOf(d, i) = BidsOf(c, i) \cup {Len(c) + 1}
  BY <1>1 DEF BidsOf
<1>5. \A i : Len(c) + 1 \notin BidsOf(c, i)
  BY <1>1 DEF BidsOf
<1>6. \A i : Cardinality(BidsOf(c, i) \cup {Len(c) + 1}) = Cardinality(BidsOf(c, i)) + 1
  BY <1>2, <1>5, FS_AddElement
<1> QED BY <1>2, <1>3, <1>4, <1>5, <1>6 DEF d

\* An event that fits leaves the log sound.
LEMMA AppendKeeps ==
  ASSUME NEW c, NEW h, NEW e, ChainOK(c, h), Fits(c, h, e)
  PROVE  ChainOK(Append(c, e), h)
<1> DEFINE d == Append(c, e)
           n == Len(c)
<1>1. c \in Seq(EventType) /\ h \in Nat /\ e \in EventType
  BY DEF ChainOK, Fits
<1>2. /\ d \in Seq(EventType) /\ n \in Nat /\ DOMAIN c = 1..n /\ DOMAIN d = 1..(n + 1)
      /\ d[n + 1] = e
      /\ \A k \in DOMAIN c : d[k] = c[k] /\ k # n + 1
      /\ \A k \in DOMAIN d : k \in DOMAIN c \/ k = n + 1
      /\ \A k \in DOMAIN c : k \in DOMAIN d /\ \A j \in 1..k : j \in DOMAIN c
  BY <1>1, Appended
<1>2a. \A k \in 1..(n + 1) : k \in DOMAIN d
  BY <1>2
<1>2b. n + 1 \in DOMAIN d /\ n + 1 \in 1..(n + 1)
  BY <1>2
<1>2c. \A k \in DOMAIN c : k \in 1..(n + 1) /\ c[k] \in EventType
  BY <1>1, <1>2
<1> HIDE DEF d, n
<1>3. InBlocks(d, h)
  <2>1. \A k \in DOMAIN c : c[k].blockNumber \in 1..(h + 1) /\ \A j \in 1..k : c[j].blockNumber <= c[k].blockNumber
    BY DEF ChainOK, InBlocks
  <2>2. e.blockNumber = h + 1 /\ h + 1 \in 1..(h + 1)
    BY <1>1 DEF Fits
  <2>3. ASSUME NEW k \in DOMAIN c
        PROVE  d[k].blockNumber \in 1..(h + 1) /\ \A j \in 1..k : d[j].blockNumber <= d[k].blockNumber
    BY <1>2, <2>1
  <2>4. \A j \in 1..(n + 1) : d[j].blockNumber <= h + 1
    <3> TAKE j \in 1..(n + 1)
    <3>1. j \in DOMAIN c \/ j = n + 1
      BY <1>2, <1>2a
    <3>2. CASE j \in DOMAIN c
      <4>1. c[j].blockNumber \in 1..(h + 1) /\ d[j] = c[j]
        BY <1>2, <2>1, <3>2
      <4> QED BY <1>1, <4>1
    <3>3. CASE j = n + 1
      BY <1>1, <1>2, <2>2, <3>3
    <3> QED BY <3>1, <3>2, <3>3
  <2> QED BY <1>2, <2>2, <2>3, <2>4 DEF InBlocks
<1>4. SubmittedFirst(d)
  <2>1. \A k \in DOMAIN c : \E j \in 1..k : Is(c[j], "IntentSubmitted", c[k].intentId)
    BY DEF ChainOK, SubmittedFirst
  <2>2. ASSUME NEW k \in DOMAIN d PROVE \E j \in 1..k : Is(d[j], "IntentSubmitted", d[k].intentId)
    <3>1. CASE k \in DOMAIN c
      BY <1>2, <2>1, <3>1
    <3>2. CASE k = n + 1 /\ e.name = "IntentSubmitted"
      BY <1>2, <1>2b, <3>2 DEF Is
    <3>3. CASE k = n + 1 /\ e.name # "IntentSubmitted"
      <4>1. PICK j \in DOMAIN c : Is(c[j], "IntentSubmitted", e.intentId)
        BY <3>3 DEF Fits
      <4> QED BY <1>2, <1>2c, <3>3, <4>1
    <3> QED BY <1>2, <3>1, <3>2, <3>3
  <2>3. ASSUME NEW j \in DOMAIN d, NEW k \in DOMAIN d,
               d[j].name = "IntentSubmitted", d[k].name = "IntentSubmitted",
               d[j].intentId = d[k].intentId
        PROVE  j = k
    BY <1>2, <2>3 DEF ChainOK, SubmittedFirst, Fits
  <2> QED BY <2>2, <2>3 DEF SubmittedFirst
<1>5. EndsOnce(d)
  BY <1>2 DEF ChainOK, EndsOnce, Fits
<1>6. ProofFollows(d)
  <2> SUFFICES ASSUME NEW k \in DOMAIN d, d[k].name = "IntentFillProof"
               PROVE  /\ k - 1 \in DOMAIN d
                      /\ Is(d[k - 1], "IntentFilled", d[k].intentId)
                      /\ d[k - 1].blockNumber = d[k].blockNumber
    BY DEF ProofFollows
  <2>1. CASE k \in DOMAIN c
    <3>1. /\ k - 1 \in DOMAIN c /\ Is(c[k - 1], "IntentFilled", c[k].intentId)
          /\ c[k - 1].blockNumber = c[k].blockNumber
      BY <1>2, <2>1 DEF ChainOK, ProofFollows
    <3> QED BY <1>2, <2>1, <3>1
  <2>2. CASE k = n + 1
    <3>1. /\ n \in DOMAIN c /\ Is(c[n], "IntentFilled", e.intentId)
          /\ c[n].blockNumber = e.blockNumber
      BY <1>2, <2>2 DEF Fits, n
    <3>2. k - 1 = n
      BY <1>2, <2>2
    <3> QED BY <1>2, <2>2, <3>1, <3>2
  <2> QED BY <1>2, <2>1, <2>2
<1>7. BidsNumbered(d)
  <2>a. /\ \A i : IsFiniteSet(BidsOf(c, i)) /\ Cardinality(BidsOf(c, i)) \in Nat
        /\ \A i : ~Is(e, "SolverBidSubmitted", i) => BidsOf(d, i) = BidsOf(c, i)
        /\ \A i : Is(e, "SolverBidSubmitted", i) =>
             /\ BidsOf(d, i) = BidsOf(c, i) \cup {n + 1}
             /\ n + 1 \notin BidsOf(c, i)
             /\ Cardinality(BidsOf(d, i)) = Cardinality(BidsOf(c, i)) + 1
    BY <1>1, BidsNext DEF d, n
  <2>b. \A i : \A k \in BidsOf(c, i) : k \in DOMAIN c /\ d[k] = c[k]
    BY <1>2 DEF BidsOf
  <2>c. /\ \A i \in IntentId : {c[k].bidId : k \in BidsOf(c, i)} = 1..Cardinality(BidsOf(c, i))
        /\ \A i \in IntentId : \A j, k \in BidsOf(c, i) : c[j].bidId = c[k].bidId => j = k
    BY DEF ChainOK, BidsNumbered
  <2>1. ASSUME NEW i \in IntentId
        PROVE  /\ {d[k].bidId : k \in BidsOf(d, i)} = 1..Cardinality(BidsOf(d, i))
               /\ \A j, k \in BidsOf(d, i) : d[j].bidId = d[k].bidId => j = k
    <3>1. CASE ~Is(e, "SolverBidSubmitted", i)
      <4>1. BidsOf(d, i) = BidsOf(c, i)
        BY <2>a, <3>1
      <4>2. {d[k].bidId : k \in BidsOf(c, i)} = {c[k].bidId : k \in BidsOf(c, i)}
        BY <2>b
      <4>3. \A j, k \in BidsOf(c, i) : d[j].bidId = d[k].bidId => j = k
        BY <2>b, <2>c
      <4> QED BY <2>c, <4>1, <4>2, <4>3
    <3>2. CASE Is(e, "SolverBidSubmitted", i)
      <4> DEFINE m == Cardinality(BidsOf(c, i))
      <4>1. /\ BidsOf(d, i) = BidsOf(c, i) \cup {n + 1} /\ n + 1 \notin BidsOf(c, i)
            /\ Cardinality(BidsOf(d, i)) = m + 1 /\ m \in Nat
        BY <2>a, <3>2
      <4>2. d[n + 1].bidId = m + 1
        BY <1>2, <3>2 DEF Fits, Is
      <4>3. {c[k].bidId : k \in BidsOf(c, i)} = 1..m
        BY <2>c
      <4>4. \A k \in BidsOf(c, i) : d[k].bidId \in 1..m
        BY <2>b, <4>3
      <4>5. \A b \in 1..m : \E k \in BidsOf(c, i) : d[k].bidId = b
        BY <2>b, <4>3
      <4> HIDE DEF m
      <4>6. \A b \in 1..(m + 1) : b \in 1..m \/ b = m + 1
        BY <4>1
      <4>7. \A b \in 1..m : b \in 1..(m + 1) /\ b # m + 1
        BY <4>1
      <4>8. m + 1 \in 1..(m + 1)
        BY <4>1
      <4>9. {d[k].bidId : k \in BidsOf(d, i)} = 1..(m + 1)
        BY <4>1, <4>2, <4>4, <4>5, <4>6, <4>7, <4>8
      <4>10. \A j, k \in BidsOf(d, i) : d[j].bidId = d[k].bidId => j = k
        BY <2>b, <2>c, <4>1, <4>2, <4>4, <4>7
      <4> QED BY <4>1, <4>9, <4>10
    <3> QED BY <3>1, <3>2
  <2>2. ASSUME NEW k \in DOMAIN d, d[k].name \in {"SolverBidSubmitted", "SolverBidSelected"}
        PROVE  d[k].bidId \in BidId
    BY <1>2, <2>2 DEF ChainOK, BidsNumbered, Fits
  <2>3. ASSUME NEW k \in DOMAIN d, d[k].name = "SolverBidSelected"
        PROVE  \E j \in 1..k : j \in BidsOf(d, d[k].intentId) /\ d[j].bidId = d[k].bidId
    <3>a. \A i : \A j \in BidsOf(c, i) : j \in BidsOf(d, i)
      BY <1>2 DEF BidsOf
    <3>1. CASE k \in DOMAIN c
      <4>1. PICK j \in 1..k : j \in BidsOf(c, c[k].intentId) /\ c[j].bidId = c[k].bidId
        BY <1>2, <2>3, <3>1 DEF ChainOK, BidsNumbered
      <4> QED BY <1>2, <2>b, <3>1, <3>a, <4>1
    <3>2. CASE k = n + 1
      <4>1. PICK j \in BidsOf(c, e.intentId) : c[j].bidId = e.bidId
        BY <1>2, <2>3, <3>2 DEF Fits
      <4>2. j \in 1..(n + 1)
        BY <1>2c, <2>b
      <4> QED BY <1>2, <2>b, <3>2, <3>a, <4>1, <4>2
    <3> QED BY <1>2, <3>1, <3>2
  <2> QED BY <2>1, <2>2, <2>3 DEF BidsNumbered
<1>8. OneSolver(d)
  BY <1>2 DEF ChainOK, OneSolver, Fits
<1> QED BY <1>1, <1>2, <1>3, <1>4, <1>5, <1>6, <1>7, <1>8 DEF ChainOK, d

\* What the operators of ChainLog say of a prefix of the log.
Was(c, n, name, i) == \E k \in 1..n : Is(c[k], name, i)

StatusIn(c, n, i) ==
  IF Was(c, n, "IntentFilled", i) THEN "FILLED"
  ELSE IF Was(c, n, "IntentCancelled", i) THEN "CANCELLED"
  ELSE IF Was(c, n, "IntentSubmitted", i) THEN "OPEN"
  ELSE "none"

UpTo(c, b) == Cardinality({k \in DOMAIN c : c[k].blockNumber <= b})

\* The operators of ChainLog are these, of the log as it stands.
LEMMA Translation ==
  /\ \A n, name, i : Happened(n, name, i) <=> Was(chain, n, name, i)
  /\ \A n, i : StatusAfter(n, i) = StatusIn(chain, n, i)
  /\ \A b : EventsUpTo(b) = UpTo(chain, b)
<1>1. \A n, name, i : Happened(n, name, i) <=> Was(chain, n, name, i)
  BY DEF Happened, Positions, Was, Is
<1>2. \A n, i : StatusAfter(n, i) = StatusIn(chain, n, i)
  BY <1>1 DEF StatusAfter, StatusIn
<1> QED BY <1>1, <1>2 DEF EventsUpTo, UpTo

\* An open intent was submitted and neither filled nor cancelled.
LEMMA OpenIntent ==
  ASSUME ChainOK(chain, head), NEW i, IsOpen(i)
  PROVE  /\ \E j \in DOMAIN chain : Is(chain[j], "IntentSubmitted", i)
         /\ \A j \in DOMAIN chain : chain[j].name \in Ends => chain[j].intentId # i
<1>1. DOMAIN chain = 1..Len(chain)
  BY DEF ChainOK
<1>2. StatusIn(chain, Len(chain), i) = "OPEN"
  BY Translation DEF IsOpen
<1>3. /\ Was(chain, Len(chain), "IntentSubmitted", i)
      /\ ~Was(chain, Len(chain), "IntentFilled", i)
      /\ ~Was(chain, Len(chain), "IntentCancelled", i)
  BY <1>2 DEF StatusIn
<1> QED BY <1>1, <1>3 DEF Was, Is, Ends

\* The log afterwards begins with the log before, and what is new is in the block
\* being built.
Grown(c, d, h) ==
  /\ Len(c) <= Len(d)
  /\ \A k \in DOMAIN c : k \in DOMAIN d /\ d[k] = c[k]
  /\ \A k \in DOMAIN d : k \in DOMAIN c \/ (k > Len(c) /\ d[k].blockNumber = h + 1)

\* The log with one event more that fits.
LEMMA OneMore ==
  ASSUME NEW c, NEW h, ChainOK(c, h), NEW e, Fits(c, h, e)
  PROVE  /\ c \o <<e>> = Append(c, e)
         /\ ChainOK(Append(c, e), h) /\ Grown(c, Append(c, e), h)
         /\ \A k \in DOMAIN Append(c, e) : k \in DOMAIN c \/ Append(c, e)[k] = e
<1> DEFINE d == Append(c, e)
<1>1. c \in Seq(EventType) /\ e \in EventType /\ e.blockNumber = h + 1
  BY DEF ChainOK, Fits
<1>2. c \o <<e>> = d
  BY <1>1
<1>3. ChainOK(d, h)
  BY AppendKeeps
<1>4. Len(d) = Len(c) + 1 /\ Len(c) \in Nat
  BY <1>1
<1>5. /\ \A k \in DOMAIN c : k \in DOMAIN d /\ d[k] = c[k]
      /\ \A k \in DOMAIN d : k \in DOMAIN c \/ k = Len(c) + 1
      /\ d[Len(c) + 1] = e
  BY <1>1, Appended
<1> HIDE DEF d
<1>6. Grown(c, d, h)
  BY <1>1, <1>4, <1>5 DEF Grown
<1>7. \A k \in DOMAIN d : k \in DOMAIN c \/ d[k] = e
  BY <1>5
<1> QED BY <1>2, <1>3, <1>6, <1>7 DEF d

\* One event that fits is mined.
LEMMA MinedOne ==
  ASSUME ChainOK(chain, head), NEW e, Fits(chain, head, e), Mined(<<e>>)
  PROVE  ChainOK(chain', head') /\ Grown(chain, chain', head) /\ head' = head
<1>1. chain' = chain \o <<e>> /\ head' = head
  BY DEF Mined
<1>2. ChainOK(chain \o <<e>>, head) /\ Grown(chain, chain \o <<e>>, head)
  <2>1. /\ chain \o <<e>> = Append(chain, e)
        /\ ChainOK(Append(chain, e), head) /\ Grown(chain, Append(chain, e), head)
    BY OneMore
  <2> QED BY ONLY <2>1, Zenon
<1> QED BY <1>1, <1>2

\* The log with two events more that fit one after the other.
LEMMA TwoMore ==
  ASSUME NEW c, NEW h, ChainOK(c, h), NEW e, Fits(c, h, e), NEW f, Fits(Append(c, e), h, f)
  PROVE  /\ ChainOK(c \o <<e, f>>, h) /\ Grown(c, c \o <<e, f>>, h)
         /\ \A k \in DOMAIN (c \o <<e, f>>) :
              k \in DOMAIN c \/ (c \o <<e, f>>)[k] = e \/ (c \o <<e, f>>)[k] = f
<1> DEFINE b == Append(c, e)
           d == Append(b, f)
<1>1. /\ c \in Seq(EventType) /\ e \in EventType /\ f \in EventType
      /\ e.blockNumber = h + 1 /\ f.blockNumber = h + 1
  BY DEF ChainOK, Fits
<1>2. c \o <<e, f>> = d
  BY <1>1
<1>3. /\ ChainOK(b, h) /\ Grown(c, b, h)
      /\ \A k \in DOMAIN b : k \in DOMAIN c \/ b[k] = e
  BY OneMore
<1>4. /\ ChainOK(d, h) /\ Grown(b, d, h)
      /\ \A k \in DOMAIN d : k \in DOMAIN b \/ d[k] = f
  <2> HIDE DEF b
  <2> QED BY <1>3, OneMore DEF b
<1> HIDE DEF b, d
<1>5. Len(c) \in Nat /\ Len(b) \in Nat /\ Len(d) \in Nat /\ DOMAIN d = 1..Len(d)
  BY <1>1, <1>3, <1>4 DEF ChainOK
<1>6. Grown(c, d, h)
  <2>1. Len(c) <= Len(d) /\ \A k \in DOMAIN c : k \in DOMAIN d /\ d[k] = c[k]
    BY <1>3, <1>4, <1>5 DEF Grown
  <2>2. ASSUME NEW k \in DOMAIN d, k \notin DOMAIN c
        PROVE  k > Len(c) /\ d[k].blockNumber = h + 1
    <3>1. CASE k \in DOMAIN b
      BY <1>3, <1>4, <2>2, <3>1 DEF Grown
    <3>2. CASE k \notin DOMAIN b
      BY <1>3, <1>4, <1>5, <2>2, <3>2 DEF Grown
    <3> QED BY <3>1, <3>2
  <2> QED BY <2>1, <2>2 DEF Grown
<1>7. \A k \in DOMAIN d : k \in DOMAIN c \/ d[k] = e \/ d[k] = f
  BY <1>3, <1>4 DEF Grown
<1> QED BY <1>2, <1>4, <1>6, <1>7

\* Two events that fit one after the other are mined.
LEMMA MinedTwo ==
  ASSUME ChainOK(chain, head), NEW e, Fits(chain, head, e), NEW f,
         Fits(Append(chain, e), head, f), Mined(<<e, f>>)
  PROVE  ChainOK(chain', head') /\ Grown(chain, chain', head) /\ head' = head
<1>1. chain' = chain \o <<e, f>> /\ head' = head
  BY DEF Mined
<1>2. ChainOK(chain \o <<e, f>>, head) /\ Grown(chain, chain \o <<e, f>>, head)
  BY TwoMore
<1> QED BY <1>1, <1>2

\* Submitting an intent keeps the log sound: intents are numbered as they are submitted.
LEMMA SubmitFits ==
  ASSUME ChainOK(chain, head), NEW i \in IntentId, SubmitIntent(i)
  PROVE  ChainOK(chain', head') /\ Grown(chain, chain', head) /\ head' = head
<1> DEFINE e == Event("IntentSubmitted", i, 0, {})
<1>1. ~Was(chain, Len(chain), "IntentSubmitted", i)
  <2>1. i \in Nat /\ ~(i < i)
    BY DEF IntentId
  <2>2. ~Happened(Len(chain), "IntentSubmitted", i)
    BY <2>1 DEF SubmitIntent
  <2> QED BY <2>2, Translation
<1>2. chain \in Seq(EventType) /\ DOMAIN chain = 1..Len(chain) /\ head \in Nat
  BY DEF ChainOK
<1>3. \A j \in DOMAIN chain : chain[j].intentId # i
  <2> SUFFICES ASSUME NEW k \in DOMAIN chain, chain[k].intentId = i PROVE FALSE
    OBVIOUS
  <2>1. PICK j \in 1..k : Is(chain[j], "IntentSubmitted", i)
    BY DEF ChainOK, SubmittedFirst
  <2>2. j \in 1..Len(chain)
    BY <1>2
  <2> QED BY <1>1, <2>1, <2>2 DEF Was
<1>4. Fits(chain, head, e)
  <2>1. /\ e \in EventType /\ e.blockNumber = head + 1 /\ e.name = "IntentSubmitted"
        /\ e.intentId = i /\ e.solver = {}
    BY <1>2 DEF Event, EventType, Names
  <2> HIDE DEF e
  <2> QED BY <1>3, <2>1 DEF Fits, Ends
<1>5. Mined(<<e>>)
  BY DEF SubmitIntent
<1> HIDE DEF e
<1> QED BY <1>4, <1>5, MinedOne

\* Cancelling an open intent keeps it sound.
LEMMA CancelFits ==
  ASSUME ChainOK(chain, head), NEW i \in IntentId, CancelIntent(i)
  PROVE  ChainOK(chain', head') /\ Grown(chain, chain', head) /\ head' = head
<1> DEFINE e == Event("IntentCancelled", i, 0, {})
<1>1. Fits(chain, head, e)
  <2>1. /\ e \in EventType /\ e.blockNumber = head + 1 /\ e.name = "IntentCancelled"
        /\ e.intentId = i /\ e.solver = {}
    BY DEF Event, EventType, Names, Ends, ChainOK
  <2>2. /\ \E j \in DOMAIN chain : Is(chain[j], "IntentSubmitted", i)
        /\ \A j \in DOMAIN chain : chain[j].name \in Ends => chain[j].intentId # i
    BY OpenIntent DEF CancelIntent
  <2> HIDE DEF e
  <2> QED BY <2>1, <2>2 DEF Fits
<1>2. Mined(<<e>>)
  BY DEF CancelIntent
<1> HIDE DEF e
<1> QED BY <1>1, <1>2, MinedOne

\* The positions ChainLog speaks of.
LEMMA LogPositions ==
  ASSUME ChainOK(chain, head), NEW i
  PROVE  /\ Positions(Len(chain), "SolverBidSubmitted", i) = BidsOf(chain, i)
         /\ BidCount(i) = Cardinality(BidsOf(chain, i))
         /\ Selections(i) = {k \in DOMAIN chain : Is(chain[k], "SolverBidSelected", i)}
<1>1. DOMAIN chain = 1..Len(chain)
  BY DEF ChainOK
<1>2. Positions(Len(chain), "SolverBidSubmitted", i) = BidsOf(chain, i)
  BY <1>1 DEF Positions, BidsOf, Is
<1> QED BY <1>1, <1>2 DEF BidCount, Selections, Positions, Is

\* A bid fits: it takes the next number of its intent.
LEMMA BidEventFits ==
  ASSUME ChainOK(chain, head), NEW i \in IntentId, NEW s \in Solver, IsOpen(i),
         BidCount(i) < MaxBids
  PROVE  Fits(chain, head, Event("SolverBidSubmitted", i, BidCount(i) + 1, {s}))
<1> USE ChainAssumption
<1> DEFINE n == BidCount(i)
           e == Event("SolverBidSubmitted", i, n + 1, {s})
<1>1. n = Cardinality(BidsOf(chain, i)) /\ n \in Nat /\ n < MaxBids /\ head \in Nat
  <2>1. IsFiniteSet(BidsOf(chain, i))
    <3>1. chain \in Seq(EventType) /\ DOMAIN chain = 1..Len(chain) /\ Len(chain) \in Nat
      BY DEF ChainOK
    <3>2. IsFiniteSet(1..Len(chain))
      <4>1. 1 \in Int /\ Len(chain) \in Int
        BY <3>1
      <4> QED BY <4>1, FS_Interval
    <3>3. BidsOf(chain, i) \subseteq 1..Len(chain)
      BY <3>1 DEF BidsOf
    <3> QED BY <3>2, <3>3, FS_Subset
  <2> QED BY <2>1, LogPositions, FS_CardinalityType DEF ChainOK
<1> HIDE DEF n
<1>2. /\ e \in EventType /\ e.blockNumber = head + 1 /\ e.name = "SolverBidSubmitted"
      /\ e.intentId = i /\ e.solver = {s} /\ e.bidId = n + 1 /\ e.bidId \in BidId
  BY <1>1 DEF Event, EventType, Names, BidId
<1>3. /\ \E j \in DOMAIN chain : Is(chain[j], "IntentSubmitted", i)
      /\ \A j \in DOMAIN chain : chain[j].name \in Ends => chain[j].intentId # i
  BY OpenIntent
<1> HIDE DEF e
<1>4. \A t, u \in {s} : t = u
  OBVIOUS
<1>5. Fits(chain, head, e)
  BY <1>1, <1>2, <1>3, <1>4 DEF Fits, Ends
<1> QED BY <1>5 DEF e, n

\* So it keeps the log sound.
LEMMA BidFits ==
  ASSUME ChainOK(chain, head), NEW i \in IntentId, NEW s \in Solver, SubmitBid(s, i)
  PROVE  ChainOK(chain', head') /\ Grown(chain, chain', head) /\ head' = head
<1> DEFINE e == Event("SolverBidSubmitted", i, BidCount(i) + 1, {s})
<1>1. Fits(chain, head, e)
  BY BidEventFits DEF SubmitBid
<1>2. Mined(<<e>>)
  BY DEF SubmitBid, BidEvents
<1> HIDE DEF e
<1> QED BY <1>1, <1>2, MinedOne

\* A selection fits: it names a bid that was made, and its solver.
LEMMA SelectEventFits ==
  ASSUME ChainOK(chain, head), NEW i \in IntentId, NEW b \in BidId, IsOpen(i), b <= BidCount(i)
  PROVE  /\ Fits(chain, head, Event("SolverBidSelected", i, b, Bidder(i, b)))
         /\ \E j \in BidsOf(chain, i) : Bidder(i, b) = chain[j].solver
<1> DEFINE e == Event("SolverBidSelected", i, b, Bidder(i, b))
<1>1. chain \in Seq(EventType) /\ head \in Nat
  BY DEF ChainOK
<1>a. /\ IsFiniteSet(BidsOf(chain, i)) /\ Cardinality(BidsOf(chain, i)) \in Nat
  <2>1. Cardinality(BidsOf(chain, i)) \in Nat /\ IsFiniteSet(BidsOf(chain, i))
    <3>1. DOMAIN chain = 1..Len(chain) /\ Len(chain) \in Nat
      BY <1>1
    <3>2. IsFiniteSet(1..Len(chain))
      <4>1. 1 \in Int /\ Len(chain) \in Int
        BY <3>1
      <4> QED BY <4>1, FS_Interval
    <3>3. BidsOf(chain, i) \subseteq 1..Len(chain)
      BY <3>1 DEF BidsOf
    <3>4. IsFiniteSet(BidsOf(chain, i))
      BY <3>2, <3>3, FS_Subset
    <3> QED BY <3>4, FS_CardinalityType
  <2> QED BY <2>1
<1>2. PICK j \in BidsOf(chain, i) : chain[j].bidId = b
  <2>1. b \in 1..Cardinality(BidsOf(chain, i))
    <3>1. b \in Nat /\ b >= 1
      BY ChainAssumption DEF BidId
    <3>2. b <= Cardinality(BidsOf(chain, i))
      BY LogPositions
    <3> QED BY <1>a, <3>1, <3>2
  <2>2. {chain[k].bidId : k \in BidsOf(chain, i)} = 1..Cardinality(BidsOf(chain, i))
    BY DEF ChainOK, BidsNumbered
  <2> QED BY <2>1, <2>2
<1>3. Bidder(i, b) = chain[j].solver
  <2>1. {k \in BidsOf(chain, i) : chain[k].bidId = b} = {j}
    BY <1>2 DEF ChainOK, BidsNumbered
  <2> QED BY <2>1, LogPositions DEF Bidder
<1>4. /\ Bidder(i, b) \in SUBSET Solver
      /\ \A s, t \in Bidder(i, b) : s = t
  <2>1. j \in DOMAIN chain /\ chain[j] \in EventType
    BY <1>1 DEF BidsOf
  <2>2. chain[j].solver \in SUBSET Solver
    BY <2>1 DEF EventType
  <2>3. \A s, t \in chain[j].solver : s = t
    BY <2>1 DEF ChainOK, OneSolver
  <2> QED BY <1>3, <2>2, <2>3
<1>5. Fits(chain, head, e)
  <2>1. /\ e \in EventType /\ e.blockNumber = head + 1 /\ e.name = "SolverBidSelected"
        /\ e.intentId = i /\ e.solver = Bidder(i, b) /\ e.bidId = b
    <3>1. b \in Nat /\ head + 1 \in Nat
      BY <1>1, ChainAssumption DEF BidId
    <3> QED BY <1>4, <3>1 DEF Event, EventType, Names
  <2>2. \E k \in DOMAIN chain : Is(chain[k], "IntentSubmitted", i)
    BY OpenIntent
  <2> HIDE DEF e
  <2> QED BY <1>2, <1>4, <2>1, <2>2 DEF Fits, Ends
<1> QED BY <1>2, <1>3, <1>5

\* So it keeps the log sound.
LEMMA SelectFits ==
  ASSUME ChainOK(chain, head), NEW i \in IntentId, NEW b \in BidId, SelectBid(i, b)
  PROVE  ChainOK(chain', head') /\ Grown(chain, chain', head) /\ head' = head
<1> DEFINE e == Event("SolverBidSelected", i, b, Bidder(i, b))
<1>1. Fits(chain, head, e)
  BY SelectEventFits DEF SelectBid
<1>2. Mined(<<e>>)
  BY DEF SelectBid
<1> HIDE DEF e
<1> QED BY <1>1, <1>2, MinedOne

\* A fill fits, with its proof right behind it.
LEMMA FillEventsFit ==
  ASSUME ChainOK(chain, head), NEW i \in IntentId, IsOpen(i)
  PROVE  /\ Fits(chain, head, Event("IntentFilled", i, 0, Selected(i)))
         /\ Fits(Append(chain, Event("IntentFilled", i, 0, Selected(i))), head,
                 Event("IntentFillProof", i, 0, {}))
<1> DEFINE e == Event("IntentFilled", i, 0, Selected(i))
           f == Event("IntentFillProof", i, 0, {})
           n == Len(chain)
<1>1. chain \in Seq(EventType) /\ head \in Nat /\ n \in Nat /\ DOMAIN chain = 1..n
  BY DEF ChainOK
<1>2. Selected(i) \in SUBSET Solver /\ \A s, t \in Selected(i) : s = t
  <2>1. Selections(i) \in SUBSET (1..n) /\ Selections(i) \subseteq DOMAIN chain
    BY <1>1, LogPositions
  <2>2. CASE Selections(i) = {}
    BY <2>2 DEF Selected
  <2>3. CASE Selections(i) # {}
    <3> HIDE DEF n
    <3>1. Max(Selections(i)) \in DOMAIN chain
      BY <1>1, <2>1, <2>3, GreatestIndex
    <3>2. Selected(i) = chain[Max(Selections(i))].solver
      BY <2>3 DEF Selected
    <3>3. chain[Max(Selections(i))] \in EventType
      BY <1>1, <3>1
    <3>4. \A k \in DOMAIN chain : \A s, t \in chain[k].solver : s = t
      BY DEF ChainOK, OneSolver
    <3> QED BY <3>1, <3>2, <3>3, <3>4 DEF EventType
  <2> QED BY <2>2, <2>3
<1>3. /\ e \in EventType /\ e.blockNumber = head + 1 /\ e.name = "IntentFilled"
      /\ e.intentId = i /\ e.solver = Selected(i)
  BY <1>1, <1>2 DEF Event, EventType, Names, Ends
<1>4. /\ f \in EventType /\ f.blockNumber = head + 1 /\ f.name = "IntentFillProof"
      /\ f.intentId = i /\ f.solver = {}
  BY <1>1 DEF Event, EventType, Names
<1>5. /\ \E j \in DOMAIN chain : Is(chain[j], "IntentSubmitted", i)
      /\ \A j \in DOMAIN chain : chain[j].name \in Ends => chain[j].intentId # i
  BY OpenIntent
<1> HIDE DEF e, f, n
<1>7. Fits(chain, head, e)
  BY <1>2, <1>3, <1>5 DEF Fits, Ends
<1>8. Fits(Append(chain, e), head, f)
  <2> DEFINE d == Append(chain, e)
  <2>1. /\ \A k \in DOMAIN chain : k \in DOMAIN d /\ d[k] = chain[k]
        /\ d[n + 1] = e /\ Len(d) = n + 1 /\ n + 1 \in DOMAIN d
    BY <1>1, <1>3, Appended DEF n
  <2> HIDE DEF d
  <2>2. \E j \in DOMAIN d : Is(d[j], "IntentSubmitted", i)
    BY <1>5, <2>1
  <2>3. Fits(d, head, f)
    BY <1>3, <1>4, <2>1, <2>2 DEF Fits, Ends, Is
  <2> QED BY <2>3 DEF d
<1> QED BY <1>7, <1>8 DEF e, f

\* So they keep the log sound.
LEMMA FillFits ==
  ASSUME ChainOK(chain, head), NEW i \in IntentId, FillIntent(i)
  PROVE  ChainOK(chain', head') /\ Grown(chain, chain', head) /\ head' = head
<1> DEFINE e == Event("IntentFilled", i, 0, Selected(i))
           f == Event("IntentFillProof", i, 0, {})
<1>1. Fits(chain, head, e) /\ Fits(Append(chain, e), head, f)
  BY FillEventsFit DEF FillIntent
<1>2. Mined(<<e, f>>)
  BY DEF FillIntent, FillEvents
<1> HIDE DEF e, f
<1> QED BY <1>1, <1>2, MinedTwo

\* The log is empty at first.
LEMMA EmptyLog ==
  ASSUME NEW c, c = << >>
  PROVE  ChainOK(c, 0)
<1>1. c \in Seq(EventType) /\ \A k \in DOMAIN c : FALSE
  OBVIOUS
<1>2. \A i : BidsOf(c, i) = {}
  BY <1>1 DEF BidsOf
<1>3. \A i : {c[k].bidId : k \in BidsOf(c, i)} = {}
  BY <1>2
<1>4. BidsNumbered(c)
  <2>1. Cardinality({}) = 0
    BY FS_EmptySet
  <2>2. \A i : {c[k].bidId : k \in BidsOf(c, i)} = 1..Cardinality(BidsOf(c, i))
    BY ONLY <1>2, <1>3, <2>1
  <2> QED BY ONLY <1>1, <1>2, <2>2 DEF BidsNumbered
<1>5. 0 \in Nat
  OBVIOUS
<1> QED BY ONLY <1>1, <1>4, <1>5
        DEF ChainOK, InBlocks, SubmittedFirst, EndsOnce, ProofFollows, OneSolver

\* A block is mined: nothing is said of what is in it that was not said before.
LEMMA NextBlock ==
  ASSUME NEW c, NEW h, ChainOK(c, h)
  PROVE  ChainOK(c, h + 1)
<1>1. h \in Nat /\ InBlocks(c, h)
  BY DEF ChainOK
<1>2. InBlocks(c, h + 1)
  <2>1. \A k \in DOMAIN c : c[k].blockNumber \in 1..(h + 1 + 1)
    BY <1>1 DEF InBlocks
  <2> QED BY <1>1, <2>1 DEF InBlocks
<1> QED BY <1>1, <1>2 DEF ChainOK

\* The log stays sound, whatever happens on the chain.
LEMMA ChainStep ==
  ASSUME ChainOK(chain, head), ChainNext
  PROVE  /\ ChainOK(chain', head')
         /\ \/ Grown(chain, chain', head) /\ head' = head
            \/ chain' = chain /\ head' = head + 1
<1>1. CASE Transact
  BY <1>1, SubmitFits, CancelFits, BidFits, SelectFits, FillFits DEF Transact
<1>2. CASE Mine
  BY <1>2, NextBlock DEF Mine
<1> QED BY <1>1, <1>2 DEF ChainNext

\* The events up to a block are a prefix of the log, and more for a later block.
LEMMA PrefixUpTo ==
  ASSUME NEW c, NEW h, ChainOK(c, h)
  PROVE  /\ \A b \in Nat : UpTo(c, b) \in Nat /\ UpTo(c, b) <= Len(c)
         /\ \A b \in Nat : \A k \in DOMAIN c : k <= UpTo(c, b) <=> c[k].blockNumber <= b
         /\ \A a, b \in Nat : a <= b => UpTo(c, a) <= UpTo(c, b)
<1>1. /\ c \in Seq(EventType) /\ DOMAIN c = 1..Len(c) /\ Len(c) \in Nat
      /\ \A k \in DOMAIN c : c[k].blockNumber \in Nat
      /\ \A k \in DOMAIN c : \A j \in 1..k : j \in DOMAIN c /\ c[j].blockNumber <= c[k].blockNumber
  BY DEF ChainOK, InBlocks, EventType
<1>2. ASSUME NEW b \in Nat
      PROVE  /\ UpTo(c, b) \in Nat /\ UpTo(c, b) <= Len(c)
             /\ {k \in DOMAIN c : c[k].blockNumber <= b} = 1..UpTo(c, b)
  <2> DEFINE S == {k \in DOMAIN c : c[k].blockNumber <= b}
  <2>1. S \in SUBSET (1..Len(c))
    BY <1>1
  <2>2. ASSUME NEW k \in S, NEW j \in 1..k PROVE j \in S
    <3>1. /\ k \in DOMAIN c /\ c[k].blockNumber <= b /\ j \in DOMAIN c
          /\ c[j].blockNumber <= c[k].blockNumber /\ c[j].blockNumber \in Nat
          /\ c[k].blockNumber \in Nat
      BY <1>1
    <3> QED BY <3>1
  <2> HIDE DEF S
  <2>3. Cardinality(S) \in 0..Len(c) /\ S = 1..Cardinality(S)
    BY <1>1, <2>1, <2>2, InitialSegment
  <2> QED BY <1>1, <2>3 DEF UpTo, S
<1>3. \A b \in Nat : \A k \in DOMAIN c : k <= UpTo(c, b) <=> c[k].blockNumber <= b
  <2> TAKE b \in Nat
  <2> TAKE k \in DOMAIN c
  <2>1. k \in Nat /\ k >= 1
    BY <1>1
  <2>2. k \in 1..UpTo(c, b) <=> c[k].blockNumber <= b
    BY <1>2
  <2> QED BY <1>2, <2>1, <2>2
<1>4. ASSUME NEW a \in Nat, NEW b \in Nat, a <= b PROVE UpTo(c, a) <= UpTo(c, b)
  <2>1. UpTo(c, a) \in Nat /\ UpTo(c, b) \in Nat /\ UpTo(c, a) <= Len(c)
    BY <1>2
  <2>2. CASE UpTo(c, a) = 0
    BY <2>1, <2>2
  <2>3. CASE UpTo(c, a) # 0
    <3> DEFINE n == UpTo(c, a)
    <3>1. n \in DOMAIN c
      BY <1>1, <2>1, <2>3
    <3>2. c[n].blockNumber <= a
      BY <1>3, <2>1, <3>1
    <3>3. c[n].blockNumber <= b
      BY <1>1, <1>4, <3>1, <3>2
    <3> QED BY <1>3, <3>1, <3>3
  <2> QED BY <2>2, <2>3
<1> QED BY <1>2, <1>3, <1>4

\* What was mined is not reached by what happens later.
LEMMA MinedStays ==
  ASSUME NEW c, NEW d, NEW h \in Nat, Grown(c, d, h)
  PROVE  \A b \in Nat : b <= h => UpTo(d, b) = UpTo(c, b)
<1> SUFFICES ASSUME NEW b \in Nat, b <= h PROVE UpTo(d, b) = UpTo(c, b)
  OBVIOUS
<1>1. \A k \in DOMAIN d : d[k].blockNumber <= b => k \in DOMAIN c
  <2> SUFFICES ASSUME NEW k \in DOMAIN d, k \notin DOMAIN c PROVE ~(d[k].blockNumber <= b)
    OBVIOUS
  <2>1. d[k].blockNumber = h + 1
    BY DEF Grown
  <2> QED BY <2>1
<1>2. {k \in DOMAIN d : d[k].blockNumber <= b} = {k \in DOMAIN c : c[k].blockNumber <= b}
  BY <1>1 DEF Grown
<1> QED BY <1>2 DEF UpTo
=============================================================================
