----------------------------- MODULE IndexerProofs -----------------------------
(***************************************************************************)
(* Proofs about Indexer, for every value of its constants: what the tables *)
(* say of the part of the log that was handled, through crashes, replays   *)
(* and queries that fail.  They rest on three layers: how a log of the     *)
(* book may look, where in the log the process is, and what each query     *)
(* that was done has left in its table.                                    *)
(***************************************************************************)
EXTENDS Indexer, ChainTheorems

----------------------------------------------------------------------------
(* The process.                                                            *)

\* The queries an event of some name takes, and what may be left of them.
TasksOf ==
  [IntentSubmitted    |-> {"upsertIntent", "copyMetadata", "recordReceipt"},
   IntentFilled       |-> {"insertFill", "setFilled", "countFill", "recordReceipt"},
   IntentFillProof    |-> {"proveFills", "recordReceipt"},
   IntentCancelled    |-> {"setCancelled", "recordReceipt"},
   SolverBidSubmitted |-> {"upsertBid", "recordReceipt"},
   SolverBidSelected  |-> {"selectBid", "recordReceipt"}]

StagesOf ==
  [IntentSubmitted    |-> {<<"upsertIntent", "copyMetadata", "recordReceipt">>,
                           <<"copyMetadata", "recordReceipt">>, <<"recordReceipt">>},
   IntentFilled       |-> {<<"insertFill", "setFilled", "countFill", "recordReceipt">>,
                           <<"setFilled", "countFill", "recordReceipt">>,
                           <<"countFill", "recordReceipt">>, <<"recordReceipt">>},
   IntentFillProof    |-> {<<"proveFills", "recordReceipt">>, <<"recordReceipt">>},
   IntentCancelled    |-> {<<"setCancelled", "recordReceipt">>, <<"recordReceipt">>},
   SolverBidSubmitted |-> {<<"upsertBid", "recordReceipt">>, <<"recordReceipt">>},
   SolverBidSelected  |-> {<<"selectBid", "recordReceipt">>, <<"recordReceipt">>}]

Tasks(name) == TasksOf[name]
Stages(name) == StagesOf[name]

\* Query q is among those left.
Left(q, rest) == \E n \in DOMAIN rest : rest[n] = q

\* The tables above, a name at a time.
LEMMA TaskTable ==
  /\ Tasks("IntentSubmitted") = {"upsertIntent", "copyMetadata", "recordReceipt"}
  /\ Tasks("IntentFilled") = {"insertFill", "setFilled", "countFill", "recordReceipt"}
  /\ Tasks("IntentFillProof") = {"proveFills", "recordReceipt"}
  /\ Tasks("IntentCancelled") = {"setCancelled", "recordReceipt"}
  /\ Tasks("SolverBidSubmitted") = {"upsertBid", "recordReceipt"}
  /\ Tasks("SolverBidSelected") = {"selectBid", "recordReceipt"}
BY DEF Tasks, TasksOf

\* What may be left of the queries, a name at a time.
LEMMA StageTable ==
  /\ Stages("IntentSubmitted") =
       {<<"upsertIntent", "copyMetadata", "recordReceipt">>,
        <<"copyMetadata", "recordReceipt">>, <<"recordReceipt">>}
  /\ Stages("IntentFilled") =
       {<<"insertFill", "setFilled", "countFill", "recordReceipt">>,
        <<"setFilled", "countFill", "recordReceipt">>,
        <<"countFill", "recordReceipt">>, <<"recordReceipt">>}
  /\ Stages("IntentFillProof") = {<<"proveFills", "recordReceipt">>, <<"recordReceipt">>}
  /\ Stages("IntentCancelled") = {<<"setCancelled", "recordReceipt">>, <<"recordReceipt">>}
  /\ Stages("SolverBidSubmitted") = {<<"upsertBid", "recordReceipt">>, <<"recordReceipt">>}
  /\ Stages("SolverBidSelected") = {<<"selectBid", "recordReceipt">>, <<"recordReceipt">>}
BY DEF Stages, StagesOf

\* What is left of a sequence of up to four queries.
LEMMA LeftIn ==
  /\ \A q, a : Left(q, <<a>>) <=> q = a
  /\ \A q, a, b : Left(q, <<a, b>>) <=> q = a \/ q = b
  /\ \A q, a, b, d : Left(q, <<a, b, d>>) <=> q = a \/ q = b \/ q = d
  /\ \A q, a, b, d, e : Left(q, <<a, b, d, e>>) <=> q = a \/ q = b \/ q = d \/ q = e
BY DEF Left

\* The queries of each handler, a name at a time.
LEMMA QueryTable ==
  /\ Queries["IntentSubmitted"] = <<"upsertIntent", "copyMetadata">>
  /\ Queries["IntentFilled"] = <<"insertFill", "setFilled", "countFill">>
  /\ Queries["IntentFillProof"] = <<"proveFills">>
  /\ Queries["IntentCancelled"] = <<"setCancelled">>
  /\ Queries["SolverBidSubmitted"] = <<"upsertBid">>
  /\ Queries["SolverBidSelected"] = <<"selectBid">>
BY DEF Queries

\* Sequences are equal that have the same length and elements.
LEMMA SameSequence ==
  ASSUME NEW T, NEW s \in Seq(T), NEW t \in Seq(T), Len(s) = Len(t),
         \A k \in 1..Len(t) : s[k] = t[k]
  PROVE  s = t
<1>1. s = [k \in 1..Len(s) |-> s[k]] /\ t = [k \in 1..Len(t) |-> t[k]]
  OBVIOUS
<1> QED BY <1>1

\* The length of a sequence is where its domain ends.
LEMMA Length == \A T : \A s \in Seq(T) : \A n \in Nat : DOMAIN s = 1..n => Len(s) = n
OBVIOUS

\* What appending to a sequence of up to three gives.
LEMMA AppendIn ==
  /\ \A s, a, b : s = <<a>> => Append(s, b) = <<a, b>>
  /\ \A s, a, b, d : s = <<a, b>> => Append(s, d) = <<a, b, d>>
  /\ \A s, a, b, d, e : s = <<a, b, d>> => Append(s, e) = <<a, b, d, e>>
<1>1. ASSUME NEW s, NEW a, NEW b, s = <<a>> PROVE Append(s, b) = <<a, b>>
  <2> DEFINE T == {a, b}
             t == <<a, b>>
             r == Append(s, b)
  <2>1. s \in Seq(T) /\ b \in T /\ t \in Seq(T) /\ Len(s) = 1 /\ Len(t) = 2
    BY <1>1
  <2>2. /\ s[1] = a
        /\ t[1] = a /\ t[2] = b
    BY <1>1
  <2> HIDE DEF t, T
  <2>3. r \in Seq(T) /\ Len(r) = 2
    BY <2>1, Appended, Length
  <2>4. r[1] = a /\ r[2] = b
    BY <2>1, <2>2, Appended
  <2>5. \A k \in 1..2 : k = 1 \/ k = 2
    OBVIOUS
  <2> HIDE DEF r
  <2>6. r = t
    BY <2>1, <2>2, <2>3, <2>4, <2>5, SameSequence
  <2> QED BY <2>6 DEF t, r
<1>2. ASSUME NEW s, NEW a, NEW b, NEW d, s = <<a, b>> PROVE Append(s, d) = <<a, b, d>>
  <2> DEFINE T == {a, b, d}
             t == <<a, b, d>>
             r == Append(s, d)
  <2>1. s \in Seq(T) /\ d \in T /\ t \in Seq(T) /\ Len(s) = 2 /\ Len(t) = 3
    BY <1>2
  <2>2. /\ s[1] = a /\ s[2] = b
        /\ t[1] = a /\ t[2] = b /\ t[3] = d
    BY <1>2
  <2> HIDE DEF t, T
  <2>3. r \in Seq(T) /\ Len(r) = 3
    BY <2>1, Appended, Length
  <2>4. r[1] = a /\ r[2] = b /\ r[3] = d
    BY <2>1, <2>2, Appended
  <2>5. \A k \in 1..3 : k = 1 \/ k = 2 \/ k = 3
    OBVIOUS
  <2> HIDE DEF r
  <2>6. r = t
    BY <2>1, <2>2, <2>3, <2>4, <2>5, SameSequence
  <2> QED BY <2>6 DEF t, r
<1>3. ASSUME NEW s, NEW a, NEW b, NEW d, NEW e, s = <<a, b, d>> PROVE Append(s, e) = <<a, b, d, e>>
  <2> DEFINE T == {a, b, d, e}
             t == <<a, b, d, e>>
             r == Append(s, e)
  <2>1. s \in Seq(T) /\ e \in T /\ t \in Seq(T) /\ Len(s) = 3 /\ Len(t) = 4
    BY <1>3
  <2>2. /\ s[1] = a /\ s[2] = b /\ s[3] = d
        /\ t[1] = a /\ t[2] = b /\ t[3] = d /\ t[4] = e
    BY <1>3
  <2> HIDE DEF t, T
  <2>3. r \in Seq(T) /\ Len(r) = 4
    BY <2>1, Appended, Length
  <2>4. r[1] = a /\ r[2] = b /\ r[3] = d /\ r[4] = e
    BY <2>1, <2>2, Appended
  <2>5. \A k \in 1..4 : k = 1 \/ k = 2 \/ k = 3 \/ k = 4
    OBVIOUS
  <2> HIDE DEF r
  <2>6. r = t
    BY <2>1, <2>2, <2>3, <2>4, <2>5, SameSequence
  <2> QED BY <2>6 DEF t, r
<1> QED BY <1>1, <1>2, <1>3

\* What is left at the beginning is everything.
LEMMA RoutingStages ==
  ASSUME NEW k, chain[k].name \in Names
  PROVE  /\ Routing(k) \in Stages(chain[k].name)
         /\ \A q \in Tasks(chain[k].name) : Left(q, Routing(k))
<1> DEFINE name == chain[k].name
<1>1. CASE name = "IntentSubmitted"
  <2>1. Routing(k) = <<"upsertIntent", "copyMetadata", "recordReceipt">>
    BY <1>1, QueryTable, AppendIn DEF Routing
  <2> QED BY <1>1, <2>1, TaskTable, StageTable, LeftIn
<1>2. CASE name = "IntentFilled"
  <2>1. Routing(k) = <<"insertFill", "setFilled", "countFill", "recordReceipt">>
    BY <1>2, QueryTable, AppendIn DEF Routing
  <2> QED BY <1>2, <2>1, TaskTable, StageTable, LeftIn
<1>3. CASE name = "IntentFillProof"
  <2>1. Routing(k) = <<"proveFills", "recordReceipt">>
    BY <1>3, QueryTable, AppendIn DEF Routing
  <2> QED BY <1>3, <2>1, TaskTable, StageTable, LeftIn
<1>4. CASE name = "IntentCancelled"
  <2>1. Routing(k) = <<"setCancelled", "recordReceipt">>
    BY <1>4, QueryTable, AppendIn DEF Routing
  <2> QED BY <1>4, <2>1, TaskTable, StageTable, LeftIn
<1>5. CASE name = "SolverBidSubmitted"
  <2>1. Routing(k) = <<"upsertBid", "recordReceipt">>
    BY <1>5, QueryTable, AppendIn DEF Routing
  <2> QED BY <1>5, <2>1, TaskTable, StageTable, LeftIn
<1>6. CASE name = "SolverBidSelected"
  <2>1. Routing(k) = <<"selectBid", "recordReceipt">>
    BY <1>6, QueryTable, AppendIn DEF Routing
  <2> QED BY <1>6, <2>1, TaskTable, StageTable, LeftIn
<1> QED BY <1>1, <1>2, <1>3, <1>4, <1>5, <1>6 DEF Names, Ends

\* Doing the next query leaves the others, in the order of the handler.
LEMMA StageStep ==
  ASSUME NEW name \in Names, NEW t \in Stages(name)
  PROVE  /\ t # << >> /\ Head(t) \in Tasks(name)
         /\ Head(t) = "recordReceipt" => Tail(t) = << >>
         /\ Head(t) # "recordReceipt" => Tail(t) # << >> /\ Tail(t) \in Stages(name)
         /\ \A q : Left(q, t) <=> q = Head(t) \/ Left(q, Tail(t))
         /\ ~Left(Head(t), Tail(t))
         /\ Left("recordReceipt", t)
<1> DEFINE Claim(s) ==
      /\ s # << >> /\ Head(s) \in Tasks(name)
      /\ Head(s) = "recordReceipt" => Tail(s) = << >>
      /\ Head(s) # "recordReceipt" => Tail(s) # << >> /\ Tail(s) \in Stages(name)
      /\ \A q : Left(q, s) <=> q = Head(s) \/ Left(q, Tail(s))
      /\ ~Left(Head(s), Tail(s))
      /\ Left("recordReceipt", s)
<1>1. ASSUME NEW a, a = "recordReceipt" PROVE Claim(<<a>>)
  BY <1>1, LeftIn, TaskTable DEF Names, Ends, Left
<1>2. ASSUME NEW a, NEW b, a # b, a # "recordReceipt", b = "recordReceipt",
             a \in Tasks(name), <<b>> \in Stages(name)
      PROVE  Claim(<<a, b>>)
  BY <1>2 DEF Left
<1>3. ASSUME NEW a, NEW b, NEW d, a # b, a # d, a # "recordReceipt", d = "recordReceipt", <<b, d>> \in Stages(name),
             a \in Tasks(name)
      PROVE  Claim(<<a, b, d>>)
  BY <1>3 DEF Left
<1>4. ASSUME NEW a, NEW b, NEW d, NEW e, a # b, a # d, a # e, a # "recordReceipt",
             e = "recordReceipt", <<b, d, e>> \in Stages(name), a \in Tasks(name)
      PROVE  Claim(<<a, b, d, e>>)
  BY <1>4 DEF Left
<1>5. <<"recordReceipt">> \in Stages(name)
  BY StageTable DEF Names, Ends
<1> SUFFICES Claim(t)
  BY DEF Claim
<1> HIDE DEF Claim
<1>6. Claim(<<"recordReceipt">>)
  BY <1>1
<1>7. CASE name = "IntentSubmitted"
  <2>1. /\ <<"copyMetadata", "recordReceipt">> \in Stages(name)
        /\ "copyMetadata" \in Tasks(name) /\ "upsertIntent" \in Tasks(name)
    BY <1>7, TaskTable, StageTable
  <2>2. Claim(<<"copyMetadata", "recordReceipt">>)
    BY <1>2, <1>5, <2>1
  <2>3. Claim(<<"upsertIntent", "copyMetadata", "recordReceipt">>)
    BY <1>3, <2>1
  <2> QED BY <1>6, <1>7, <2>2, <2>3, StageTable
<1>8. CASE name = "IntentFilled"
  <2>1. /\ <<"countFill", "recordReceipt">> \in Stages(name)
        /\ <<"setFilled", "countFill", "recordReceipt">> \in Stages(name)
        /\ "insertFill" \in Tasks(name) /\ "setFilled" \in Tasks(name)
        /\ "countFill" \in Tasks(name)
    BY <1>8, TaskTable, StageTable
  <2>2. Claim(<<"countFill", "recordReceipt">>)
    BY <1>2, <1>5, <2>1
  <2>3. Claim(<<"setFilled", "countFill", "recordReceipt">>)
    BY <1>3, <2>1
  <2>4. Claim(<<"insertFill", "setFilled", "countFill", "recordReceipt">>)
    BY <1>4, <2>1
  <2> QED BY <1>6, <1>8, <2>2, <2>3, <2>4, StageTable
<1>9. CASE name = "IntentFillProof"
  BY <1>2, <1>5, <1>6, <1>9, TaskTable, StageTable
<1>10. CASE name = "IntentCancelled"
  BY <1>2, <1>5, <1>6, <1>10, TaskTable, StageTable
<1>11. CASE name = "SolverBidSubmitted"
  BY <1>2, <1>5, <1>6, <1>11, TaskTable, StageTable
<1>12. CASE name = "SolverBidSelected"
  BY <1>2, <1>5, <1>6, <1>12, TaskTable, StageTable
<1> QED BY <1>7, <1>8, <1>9, <1>10, <1>11, <1>12 DEF Names, Ends

\* Where the process is: what it stored it has processed, and of the event at
\* hand some of the queries are left.
ProcessOK ==
  /\ storedBlock \in Nat /\ lastProcessedBlock \in Nat /\ toBlock \in Nat /\ at \in Nat
  /\ pc \in {"down", "idle", "routing"}
  /\ storedBlock <= head
  /\ pc = "idle" => storedBlock <= lastProcessedBlock /\ lastProcessedBlock <= head
  /\ pc = "routing" =>
       /\ storedBlock <= lastProcessedBlock /\ lastProcessedBlock <= toBlock /\ toBlock <= head
       /\ UpTo(chain, lastProcessedBlock) < at /\ at <= UpTo(chain, toBlock) + 1
       /\ at <= UpTo(chain, toBlock) => todo \in Stages(chain[at].name)
       /\ at = UpTo(chain, toBlock) + 1 => todo = << >>

Place == ChainOK(chain, head) /\ ProcessOK

\* The query q of event k was done in this life of the process or one it resumes.
Passed(k, q) ==
  k <= Handled \/ (pc = "routing" /\ todo # << >> /\ k = at /\ ~Left(q, todo))

\* How far the process is, in numbers.
LEMMA HandledRange ==
  ASSUME Place
  PROVE  /\ Handled \in Nat /\ Handled <= UpTo(chain, head)
         /\ UpTo(chain, storedBlock) <= Handled
         /\ UpTo(chain, head) \in Nat /\ UpTo(chain, head) <= Len(chain)
<1>1. head \in Nat /\ ChainOK(chain, head) /\ storedBlock \in Nat /\ storedBlock <= head
  BY DEF Place, ChainOK, ProcessOK
<1>2. /\ \A b \in Nat : UpTo(chain, b) \in Nat /\ UpTo(chain, b) <= Len(chain)
      /\ \A a, b \in Nat : a <= b => UpTo(chain, a) <= UpTo(chain, b)
  BY <1>1, PrefixUpTo
<1>3. CASE pc = "down"
  <2>1. Handled = UpTo(chain, storedBlock)
    BY <1>3, Translation DEF Handled
  <2> QED BY <1>1, <1>2, <2>1
<1>4. CASE pc = "idle"
  <2>1. Handled = UpTo(chain, lastProcessedBlock)
    BY <1>4, Translation DEF Handled
  <2>2. lastProcessedBlock \in Nat /\ storedBlock <= lastProcessedBlock /\ lastProcessedBlock <= head
    BY <1>4 DEF Place, ProcessOK
  <2> QED BY <1>1, <1>2, <2>1, <2>2
<1>5. CASE pc = "routing"
  <2>1. Handled = at - 1
    BY <1>5 DEF Handled
  <2>2. /\ lastProcessedBlock \in Nat /\ storedBlock <= lastProcessedBlock
        /\ toBlock \in Nat /\ toBlock <= head /\ at \in Nat
        /\ UpTo(chain, lastProcessedBlock) < at /\ at <= UpTo(chain, toBlock) + 1
    BY <1>5 DEF Place, ProcessOK
  <2>3. /\ UpTo(chain, storedBlock) <= UpTo(chain, lastProcessedBlock)
        /\ UpTo(chain, toBlock) <= UpTo(chain, head)
        /\ UpTo(chain, storedBlock) \in Nat /\ UpTo(chain, lastProcessedBlock) \in Nat
        /\ UpTo(chain, toBlock) \in Nat /\ UpTo(chain, head) \in Nat
        /\ UpTo(chain, head) <= Len(chain)
    BY <1>1, <1>2, <2>2
  <2> QED BY <2>1, <2>2, <2>3
<1> QED BY <1>3, <1>4, <1>5 DEF Place, ProcessOK

\* While a query is left there is an event at hand, and the query is one of its.
LEMMA AtHand ==
  ASSUME Place, pc = "routing", todo # << >>
  PROVE  /\ at \in DOMAIN chain /\ chain[at] \in EventType /\ at = Handled + 1
         /\ at <= UpTo(chain, toBlock) /\ UpTo(chain, toBlock) \in Nat
         /\ at <= UpTo(chain, head)
         /\ todo \in Stages(chain[at].name) /\ Head(todo) \in Tasks(chain[at].name)
<1>1. /\ chain \in Seq(EventType) /\ DOMAIN chain = 1..Len(chain) /\ Len(chain) \in Nat
      /\ head \in Nat /\ ChainOK(chain, head)
  BY DEF Place, ChainOK
<1>2. /\ lastProcessedBlock \in Nat /\ toBlock \in Nat /\ toBlock <= head /\ at \in Nat
      /\ UpTo(chain, lastProcessedBlock) < at /\ at <= UpTo(chain, toBlock) + 1
      /\ at <= UpTo(chain, toBlock) => todo \in Stages(chain[at].name)
      /\ at = UpTo(chain, toBlock) + 1 => todo = << >>
  BY DEF Place, ProcessOK
<1>3. /\ UpTo(chain, lastProcessedBlock) \in Nat /\ UpTo(chain, toBlock) \in Nat
      /\ UpTo(chain, toBlock) <= UpTo(chain, head) /\ UpTo(chain, head) <= Len(chain)
      /\ UpTo(chain, head) \in Nat
  BY <1>1, <1>2, PrefixUpTo
<1>4. at <= UpTo(chain, toBlock)
  BY <1>2, <1>3
<1>5. at \in DOMAIN chain
  BY <1>1, <1>2, <1>3, <1>4
<1>6. chain[at] \in EventType /\ chain[at].name \in Names
  <2>1. chain[at] \in EventType
    BY <1>1, <1>5
  <2> QED BY <2>1 DEF EventType
<1>7. todo \in Stages(chain[at].name) /\ Head(todo) \in Tasks(chain[at].name)
  BY <1>2, <1>4, <1>6, StageStep
<1>8. at = Handled + 1
  BY <1>2 DEF Handled
<1> QED BY <1>2, <1>3, <1>4, <1>5, <1>6, <1>7, <1>8

\* The process goes on to what is left of an event, or to the next event.
LEMMA ContinueOK ==
  ASSUME Place, pc = "routing", todo # << >>, NEW rest, Continue(rest),
         rest # << >> => rest \in Stages(chain[at].name)
  PROVE  /\ Place' /\ pc' = pc /\ chain' = chain /\ head' = head
         /\ rest # << >> => at' = at /\ todo' = rest /\ Handled' = Handled
         /\ rest = << >> =>
              /\ at' = at + 1 /\ Handled' = at
              /\ todo' = << >> \/ (at + 1 \in DOMAIN chain /\ todo' = Routing(at + 1))
<1>1. /\ chain' = chain /\ head' = head /\ pc' = pc /\ lastProcessedBlock' = lastProcessedBlock
      /\ toBlock' = toBlock /\ storedBlock' = storedBlock
  BY DEF Continue, chainVars
<1>2. /\ at \in Nat /\ at <= UpTo(chain, toBlock) /\ UpTo(chain, toBlock) \in Nat
      /\ UpTo(chain, toBlock) <= Len(chain) /\ DOMAIN chain = 1..Len(chain) /\ Len(chain) \in Nat
  <2>1. at <= UpTo(chain, toBlock) /\ UpTo(chain, toBlock) \in Nat
    BY AtHand
  <2>2. at \in Nat /\ toBlock \in Nat /\ ChainOK(chain, head)
    BY DEF Place, ProcessOK
  <2> QED BY <2>1, <2>2, PrefixUpTo DEF ChainOK
<1>3. ChainOK(chain', head')
  BY <1>1 DEF Place
<1>4. CASE rest # << >>
  <2>1. todo' = rest /\ at' = at
    BY <1>4 DEF Continue
  <2>2. ProcessOK'
    <3>1. UpTo(chain, toBlock)' = UpTo(chain, toBlock) /\ UpTo(chain, lastProcessedBlock)' = UpTo(chain, lastProcessedBlock)
      BY <1>1
    <3>2. ~(at = UpTo(chain, toBlock) + 1)
      BY <1>2
    <3> QED BY <1>1, <1>4, <2>1, <3>1, <3>2 DEF Place, ProcessOK
  <2>3. Handled' = at' - 1 /\ Handled = at - 1
    BY <1>1 DEF Handled
  <2> QED BY <1>1, <1>3, <1>4, <2>1, <2>2, <2>3 DEF Place
<1>5. CASE rest = << >>
  <2>1. at' = at + 1 /\ todo' = IF at < UpTo(chain, toBlock) THEN Routing(at + 1) ELSE << >>
    BY <1>5, Translation DEF Continue
  <2>2. /\ at < UpTo(chain, toBlock) => todo' = Routing(at + 1) /\ at + 1 \in DOMAIN chain
        /\ ~(at < UpTo(chain, toBlock)) => todo' = << >>
    BY <1>2, <2>1
  <2>3. ASSUME at < UpTo(chain, toBlock)
        PROVE  todo' \in Stages(chain[at + 1].name) /\ todo' # << >>
    <3>1. chain[at + 1] \in EventType
      BY <2>2, <2>3 DEF Place, ChainOK
    <3>2. chain[at + 1].name \in Names
      BY <3>1 DEF EventType
    <3> QED BY <2>2, <2>3, <3>2, RoutingStages, StageStep
  <2>4. ProcessOK'
    <3>1. UpTo(chain, toBlock)' = UpTo(chain, toBlock) /\ UpTo(chain, lastProcessedBlock)' = UpTo(chain, lastProcessedBlock)
      BY <1>1
    <3>2. /\ UpTo(chain, lastProcessedBlock) < at + 1 /\ at + 1 <= UpTo(chain, toBlock) + 1
          /\ at + 1 \in Nat
      <4>1. UpTo(chain, lastProcessedBlock) < at /\ UpTo(chain, lastProcessedBlock) \in Nat
        <5>1. UpTo(chain, lastProcessedBlock) < at /\ lastProcessedBlock \in Nat /\ ChainOK(chain, head)
          BY DEF Place, ProcessOK
        <5> QED BY <5>1, PrefixUpTo
      <4> QED BY <1>2, <4>1
    <3>3. /\ at + 1 <= UpTo(chain, toBlock) => todo' \in Stages(chain[at + 1].name)
          /\ at + 1 = UpTo(chain, toBlock) + 1 => todo' = << >>
      <4>1. at + 1 <= UpTo(chain, toBlock) => at < UpTo(chain, toBlock)
        BY <1>2
      <4>2. at + 1 = UpTo(chain, toBlock) + 1 => ~(at < UpTo(chain, toBlock))
        BY <1>2
      <4> QED BY <2>2, <2>3, <4>1, <4>2
    <3>4. /\ storedBlock \in Nat /\ lastProcessedBlock \in Nat /\ toBlock \in Nat
          /\ storedBlock <= head
          /\ storedBlock <= lastProcessedBlock /\ lastProcessedBlock <= toBlock /\ toBlock <= head
      BY DEF Place, ProcessOK
    <3> QED BY <1>1, <2>1, <3>1, <3>2, <3>3, <3>4 DEF ProcessOK
  <2>5. Handled' = at' - 1
    BY <1>1 DEF Handled
  <2>6. Handled' = at
    BY <1>2, <2>1, <2>5
  <2> QED BY <1>1, <1>3, <1>5, <2>1, <2>2, <2>4, <2>6 DEF Place
<1> QED BY <1>4, <1>5

\* A query is done or fails.
LEMMA RunContinues ==
  ASSUME RunQuery
  PROVE  /\ pc = "routing" /\ todo # << >>
         /\ \/ Continue(Tail(todo)) /\ failures' = failures
            \/ QueryFails
<1>1. CASE QueryFails
  BY <1>1 DEF QueryFails
<1>2. CASE UpsertIntent \/ CopyMetadata \/ InsertFill
  BY <1>2 DEF UpsertIntent, CopyMetadata, InsertFill, Do, Done
<1>3. CASE CountFill \/ ProveFills \/ UpsertBid
  BY <1>3 DEF CountFill, ProveFills, UpsertBid, Do, Done
<1>4. CASE SetStatus("setFilled", "FILLED") \/ SetStatus("setCancelled", "CANCELLED")
  BY <1>4 DEF SetStatus, Do, Done
<1>5. CASE SelectBidRow \/ RecordTxReceipt
  BY <1>5 DEF SelectBidRow, RecordTxReceipt, Do, Done
<1> QED BY <1>1, <1>2, <1>3, <1>4, <1>5 DEF RunQuery

\* What was passed in the state after, in terms of it.
LEMMA PassedAfter ==
  \A k, q : Passed(k, q)' <=>
    k <= Handled' \/ (pc' = "routing" /\ todo' # << >> /\ k = at' /\ ~Left(q, todo'))
BY DEF Passed, Left

\* Going on with what is left of an event passes what is no longer left.
LEMMA ContinuePasses ==
  ASSUME Place, pc = "routing", todo # << >>, NEW rest, Continue(rest),
         rest # << >> => rest \in Stages(chain[at].name),
         \A q : Left(q, rest) => Left(q, todo)
  PROVE  \A k \in DOMAIN chain : \A q \in Tasks(chain[k].name) :
           Passed(k, q)' <=> Passed(k, q) \/ (k = at /\ ~Left(q, rest))
                                          \/ (k = at /\ rest = << >>)
<1> SUFFICES ASSUME NEW k \in DOMAIN chain, NEW q \in Tasks(chain[k].name)
             PROVE  Passed(k, q)' <=> Passed(k, q) \/ (k = at /\ ~Left(q, rest))
                                                   \/ (k = at /\ rest = << >>)
  OBVIOUS
<1>a. /\ pc' = pc /\ chain' = chain
      /\ rest # << >> => at' = at /\ todo' = rest /\ Handled' = Handled
      /\ rest = << >> =>
           /\ at' = at + 1 /\ Handled' = at
           /\ todo' = << >> \/ (at + 1 \in DOMAIN chain /\ todo' = Routing(at + 1))
  BY ContinueOK
<1>b. k \in Nat /\ at \in Nat /\ at = Handled + 1 /\ Handled \in Nat /\ chain[k].name \in Names
  <2>1. chain \in Seq(EventType) /\ chain[k] \in EventType /\ k \in Nat
    BY DEF Place, ChainOK
  <2>2. at \in Nat
    BY DEF Place, ProcessOK
  <2> QED BY <2>1, <2>2, AtHand, HandledRange DEF EventType
<1>1. CASE rest # << >>
  <2>1. Passed(k, q)' <=> k <= Handled \/ (k = at /\ ~Left(q, rest))
    BY <1>1, <1>a, PassedAfter
  <2>2. Passed(k, q) <=> k <= Handled \/ (k = at /\ ~Left(q, todo))
    BY DEF Passed
  <2>3. Left(q, rest) => Left(q, todo)
    OBVIOUS
  <2> QED BY <1>1, <2>1, <2>2, <2>3
<1>2. CASE rest = << >>
  <2>1. at' = at + 1 /\ Handled' = at
    BY <1>2, <1>a
  <2>2. Passed(k, q)' <=> k <= at
    <3>1. CASE todo' = << >>
      BY <2>1, <3>1, PassedAfter
    <3>2. CASE todo' = Routing(at + 1)
      <4>1. k = at + 1 => Left(q, todo')
        BY <1>b, <3>2, RoutingStages
      <4> QED BY <2>1, <4>1, PassedAfter
    <3> QED BY <1>2, <1>a, <3>1, <3>2
  <2>3. k <= at <=> k <= Handled \/ k = at
    BY <1>b
  <2>4. Passed(k, q) => k <= Handled \/ k = at
    BY DEF Passed
  <2>5. k <= Handled => Passed(k, q)
    BY DEF Passed
  <2> QED BY <1>2, <2>2, <2>3, <2>4, <2>5
<1> QED BY <1>1, <1>2

\* What a query does to the place of the process: it is passed, and all that was.
LEMMA QueryStep ==
  ASSUME Place, RunQuery
  PROVE  /\ Place' /\ pc' = pc /\ chain' = chain /\ head' = head /\ storedBlock' = storedBlock
         /\ crashes' = crashes /\ pendingMetadata' = pendingMetadata
         /\ failures' = failures \/ QueryFails
         /\ \A k \in DOMAIN chain : \A q \in Tasks(chain[k].name) : Passed(k, q) => Passed(k, q)'
         /\ failures' = failures /\ ~QueryFails =>
              \A k \in DOMAIN chain : \A q \in Tasks(chain[k].name) :
                Passed(k, q)' => Passed(k, q) \/ (k = at /\ Do(q))
         /\ failures' = failures /\ ~QueryFails =>
              \A k \in DOMAIN chain : \A q \in Tasks(chain[k].name) :
                k = at /\ Do(q) => Passed(k, q)'
<1>a. pc = "routing" /\ todo # << >>
  BY RunContinues
<1>b. /\ at \in DOMAIN chain /\ chain[at].name \in Names /\ todo \in Stages(chain[at].name)
  BY <1>a, AtHand DEF EventType
<1>c. /\ Head(todo) = "recordReceipt" => Tail(todo) = << >>
      /\ Head(todo) # "recordReceipt" => Tail(todo) # << >> /\ Tail(todo) \in Stages(chain[at].name)
      /\ \A q : Left(q, todo) <=> q = Head(todo) \/ Left(q, Tail(todo))
      /\ ~Left(Head(todo), Tail(todo))
      /\ Left("recordReceipt", todo)
  BY <1>b, StageStep
<1>1. ASSUME NEW rest, Continue(rest), rest # << >> => rest \in Stages(chain[at].name),
             \A q : Left(q, rest) => Left(q, todo)
      PROVE  /\ Place' /\ pc' = pc /\ chain' = chain /\ head' = head /\ storedBlock' = storedBlock
             /\ crashes' = crashes /\ pendingMetadata' = pendingMetadata
             /\ \A k \in DOMAIN chain : \A q \in Tasks(chain[k].name) :
                  Passed(k, q)' <=> Passed(k, q) \/ (k = at /\ ~Left(q, rest))
                                                 \/ (k = at /\ rest = << >>)
  <2>1. Place' /\ pc' = pc /\ chain' = chain /\ head' = head
    BY <1>1, <1>a, ContinueOK
  <2>2. storedBlock' = storedBlock /\ crashes' = crashes /\ pendingMetadata' = pendingMetadata
    BY <1>1 DEF Continue
  <2> QED BY <1>1, <1>a, <2>1, <2>2, ContinuePasses
<1>2. CASE Continue(Tail(todo)) /\ failures' = failures
  <2>0. failures' = failures
    BY <1>2
  <2>1. Tail(todo) # << >> => Tail(todo) \in Stages(chain[at].name)
    BY <1>c
  <2>2. \A q : Left(q, Tail(todo)) => Left(q, todo)
    BY <1>c
  <2>3. /\ Place' /\ pc' = pc /\ chain' = chain /\ head' = head /\ storedBlock' = storedBlock
        /\ crashes' = crashes /\ pendingMetadata' = pendingMetadata
    BY <1>1, <1>2, <2>1, <2>2
  <2>4. \A k \in DOMAIN chain : \A q \in Tasks(chain[k].name) :
          Passed(k, q)' <=> Passed(k, q) \/ (k = at /\ ~Left(q, Tail(todo)))
                                         \/ (k = at /\ Tail(todo) = << >>)
    BY <1>1, <1>2, <2>1, <2>2
  <2>5. Tail(todo) = << >> => \A q : ~Left(q, Tail(todo))
    BY DEF Left
  <2>6. \A k : \A q : k = at /\ ~Left(q, todo) => Passed(k, q)
    BY <1>a DEF Passed
  <2>7. \A q : q = Head(todo) => Do(q)
    BY <1>a DEF Do
  <2>8. \A k \in DOMAIN chain : \A q \in Tasks(chain[k].name) :
          Passed(k, q)' => Passed(k, q) \/ (k = at /\ Do(q))
    BY <1>c, <2>4, <2>5, <2>6, <2>7
  <2>9. \A k \in DOMAIN chain : \A q \in Tasks(chain[k].name) :
          k = at /\ Do(q) => Passed(k, q)'
    <3>1. \A q : Do(q) => ~Left(q, Tail(todo))
      BY <1>c DEF Do
    <3> QED BY <2>4, <3>1
  <2> QED BY <2>0, <2>3, <2>4, <2>8, <2>9
<1>3. CASE QueryFails
  <2> DEFINE rest == IF Head(todo) = "recordReceipt" THEN << >> ELSE <<"recordReceipt">>
  <2>1. Continue(rest)
    BY <1>3 DEF QueryFails
  <2>2. <<"recordReceipt">> \in Stages(chain[at].name)
    BY <1>b, StageTable DEF Names, Ends
  <2>3. \A q : Left(q, rest) => Left(q, todo)
    <3>1. CASE Head(todo) = "recordReceipt"
      <4>1. rest = << >>
        BY <3>1
      <4> HIDE DEF rest
      <4> QED BY <4>1 DEF Left
    <3>2. CASE Head(todo) # "recordReceipt"
      <4>1. rest = <<"recordReceipt">>
        BY <3>2
      <4> HIDE DEF rest
      <4>2. \A q : Left(q, rest) => q = "recordReceipt"
        BY <4>1, LeftIn
      <4> QED BY <1>c, <4>2
    <3> QED BY <3>1, <3>2
  <2>4. rest # << >> => rest \in Stages(chain[at].name)
    BY <2>2
  <2> HIDE DEF rest
  <2>5. /\ Place' /\ pc' = pc /\ chain' = chain /\ head' = head /\ storedBlock' = storedBlock
        /\ crashes' = crashes /\ pendingMetadata' = pendingMetadata
    BY <1>1, <2>1, <2>3, <2>4
  <2>6. \A k \in DOMAIN chain : \A q \in Tasks(chain[k].name) : Passed(k, q) => Passed(k, q)'
    BY <1>1, <2>1, <2>3, <2>4
  <2> QED BY <1>3, <2>5, <2>6
<1> QED BY <1>2, <1>3, RunContinues

----------------------------------------------------------------------------
(* The other steps.                                                        *)

\* The log grows or a block is mined: nothing moves for the process.
LEMMA ChainMoves ==
  ASSUME Place, ChainNext, UNCHANGED <<processVars, storedBlock>>
  PROVE  /\ Place' /\ Handled' = Handled /\ head' >= head
         /\ Len(chain) <= Len(chain') /\ Len(chain') \in Nat
         /\ \A k \in DOMAIN chain : k \in DOMAIN chain' /\ chain'[k] = chain[k]
         /\ \A k \in DOMAIN chain' : k \in DOMAIN chain \/ k > Len(chain)
         /\ UpTo(chain, head) <= UpTo(chain', head')
         /\ \A k, q : Passed(k, q)' <=> Passed(k, q)
<1>1. ChainOK(chain, head) /\ head \in Nat /\ chain \in Seq(EventType) /\ Len(chain) \in Nat
  BY DEF Place, ChainOK
<1>2. /\ ChainOK(chain', head')
      /\ \/ Grown(chain, chain', head) /\ head' = head
         \/ chain' = chain /\ head' = head + 1
  BY <1>1, ChainStep
<1>3. /\ Len(chain) <= Len(chain') /\ Len(chain') \in Nat
      /\ \A k \in DOMAIN chain : k \in DOMAIN chain' /\ chain'[k] = chain[k]
      /\ \A k \in DOMAIN chain' : k \in DOMAIN chain \/ k > Len(chain)
  BY <1>1, <1>2 DEF Grown, ChainOK
<1>4. \A b \in Nat : b <= head => UpTo(chain', b) = UpTo(chain, b)
  BY <1>1, <1>2, MinedStays
<1>5. head' \in Nat /\ head' >= head
  BY <1>1, <1>2
<1>6. UpTo(chain, head) <= UpTo(chain', head')
  <2>1. UpTo(chain, head) = UpTo(chain', head)
    BY <1>1, <1>4
  <2> QED BY <1>1, <1>2, <1>5, <2>1, PrefixUpTo
<1>7. /\ pc' = pc /\ lastProcessedBlock' = lastProcessedBlock /\ toBlock' = toBlock /\ at' = at
      /\ todo' = todo /\ storedBlock' = storedBlock
  BY DEF processVars
<1>8. ProcessOK'
  <2>1. /\ storedBlock \in Nat /\ lastProcessedBlock \in Nat /\ toBlock \in Nat /\ at \in Nat
        /\ pc \in {"down", "idle", "routing"}
        /\ storedBlock <= head
        /\ pc = "idle" => storedBlock <= lastProcessedBlock /\ lastProcessedBlock <= head
    BY DEF Place, ProcessOK
  <2>2. storedBlock <= head' /\ (pc = "idle" => lastProcessedBlock <= head')
    BY <1>1, <1>5, <2>1
  <2>3. ASSUME pc = "routing"
        PROVE  /\ storedBlock <= lastProcessedBlock /\ lastProcessedBlock <= toBlock /\ toBlock <= head'
               /\ UpTo(chain', lastProcessedBlock) < at /\ at <= UpTo(chain', toBlock) + 1
               /\ at <= UpTo(chain', toBlock) => todo \in Stages(chain'[at].name)
               /\ at = UpTo(chain', toBlock) + 1 => todo = << >>
    <3>1. /\ storedBlock <= lastProcessedBlock /\ lastProcessedBlock <= toBlock /\ toBlock <= head
          /\ UpTo(chain, lastProcessedBlock) < at /\ at <= UpTo(chain, toBlock) + 1
          /\ at <= UpTo(chain, toBlock) => todo \in Stages(chain[at].name)
          /\ at = UpTo(chain, toBlock) + 1 => todo = << >>
      BY <2>3 DEF Place, ProcessOK
    <3>2. lastProcessedBlock <= head /\ toBlock <= head /\ toBlock <= head'
      BY <1>1, <1>5, <2>1, <3>1
    <3>3. /\ UpTo(chain', lastProcessedBlock) = UpTo(chain, lastProcessedBlock)
          /\ UpTo(chain', toBlock) = UpTo(chain, toBlock)
      BY <1>4, <2>1, <3>2
    <3>4. at <= UpTo(chain, toBlock) => chain'[at] = chain[at]
      <4>1. /\ UpTo(chain, toBlock) \in Nat /\ UpTo(chain, toBlock) <= Len(chain)
            /\ UpTo(chain, lastProcessedBlock) \in Nat
        BY <1>1, <2>1, PrefixUpTo
      <4>2. at <= UpTo(chain, toBlock) => at \in DOMAIN chain
        BY <1>1, <2>1, <3>1, <4>1
      <4> QED BY <1>3, <4>2
    <3> QED BY <3>1, <3>2, <3>3, <3>4
  <2> QED BY <1>7, <2>1, <2>2, <2>3 DEF ProcessOK
<1>9. Handled' = Handled
  <2>1. CASE pc = "routing"
    BY <1>7, <2>1 DEF Handled
  <2>2. CASE pc = "idle"
    <3>1. lastProcessedBlock \in Nat /\ lastProcessedBlock <= head
      BY <2>2 DEF Place, ProcessOK
    <3>2. Handled = UpTo(chain, lastProcessedBlock)
      BY <2>2, Translation DEF Handled
    <3>3. Handled' = UpTo(chain', lastProcessedBlock')
      BY <1>7, <2>2 DEF Handled, EventsUpTo, UpTo
    <3> QED BY <1>4, <1>7, <3>1, <3>2, <3>3
  <2>3. CASE pc = "down"
    <3>1. storedBlock \in Nat /\ storedBlock <= head
      BY <2>3 DEF Place, ProcessOK
    <3>2. Handled = UpTo(chain, storedBlock)
      BY <2>3, Translation DEF Handled
    <3>3. Handled' = UpTo(chain', storedBlock')
      BY <1>7, <2>3 DEF Handled, EventsUpTo, UpTo
    <3> QED BY <1>4, <1>7, <3>1, <3>2, <3>3
  <2> QED BY <2>1, <2>2, <2>3 DEF Place, ProcessOK
<1>10. \A k, q : Passed(k, q)' <=> Passed(k, q)
  BY <1>7, <1>9, PassedAfter DEF Passed
<1> QED BY <1>2, <1>3, <1>5, <1>6, <1>8, <1>9, <1>10 DEF Place

\* Nothing is passed that is not in a block.
LEMMA PassedMined ==
  ASSUME Place
  PROVE  \A k \in Nat : \A q : Passed(k, q) => k <= UpTo(chain, head) /\ k <= Len(chain)
<1> SUFFICES ASSUME NEW k \in Nat, NEW q, Passed(k, q)
             PROVE  k <= UpTo(chain, head) /\ k <= Len(chain)
  OBVIOUS
<1>1. /\ Handled \in Nat /\ Handled <= UpTo(chain, head)
      /\ UpTo(chain, head) \in Nat /\ UpTo(chain, head) <= Len(chain)
      /\ Len(chain) \in Nat
  BY HandledRange DEF Place, ChainOK
<1>2. CASE k <= Handled
  BY <1>1, <1>2
<1>3. CASE pc = "routing" /\ todo # << >> /\ k = at
  <2>1. at <= UpTo(chain, head) /\ at \in Nat
    BY <1>3, AtHand DEF Place, ProcessOK
  <2> QED BY <1>1, <1>3, <2>1
<1> QED BY <1>2, <1>3 DEF Passed

\* What a step is that runs no query.
OtherStep ==
  /\ Place' /\ Len(chain) <= Len(chain') /\ UpTo(chain, head) <= UpTo(chain', head')
  /\ \A k \in DOMAIN chain : k \in DOMAIN chain' /\ chain'[k] = chain[k]
  /\ \A k \in DOMAIN chain' : k \in DOMAIN chain \/ k > Len(chain)
  /\ Handled' \in Nat /\ Handled' <= Handled
  /\ \A k \in DOMAIN chain : \A q \in Tasks(chain[k].name) : Passed(k, q)' => Passed(k, q)
  /\ \A k \in DOMAIN chain' : \A q : Passed(k, q)' => k \in DOMAIN chain
  /\ pc' # "down" \/ pc = "down" =>
       \A k \in DOMAIN chain : \A q \in Tasks(chain[k].name) : Passed(k, q) => Passed(k, q)'
  /\ failures' = failures
  /\ crashes' = IF pc' = "down" /\ pc # "down" THEN crashes + 1 ELSE crashes
  /\ UNCHANGED <<intentRows, bidRows, fillRows, solverRows, receiptEvents>>

\* The process and the chain stay where they are.
LEMMA RestStep ==
  ASSUME Place, UNCHANGED <<chainVars, processVars, storedBlock, crashes, failures,
                            intentRows, bidRows, fillRows, solverRows, receiptEvents>>
  PROVE  OtherStep
<1>1. /\ chain' = chain /\ head' = head /\ pc' = pc /\ lastProcessedBlock' = lastProcessedBlock
      /\ toBlock' = toBlock /\ at' = at /\ todo' = todo /\ storedBlock' = storedBlock
  BY DEF chainVars, processVars
<1>2. Place'
  BY <1>1 DEF Place, ProcessOK
<1>3. Handled' = Handled
  BY <1>1 DEF Handled, EventsUpTo
<1>4. \A k, q : Passed(k, q)' <=> Passed(k, q)
  BY <1>1, <1>3, PassedAfter DEF Passed
<1>5. UpTo(chain, head) <= UpTo(chain', head') /\ Len(chain) <= Len(chain')
  BY <1>1, HandledRange DEF Place, ChainOK
<1>6. Handled' \in Nat /\ Handled' <= Handled
  BY <1>3, HandledRange
<1>7. pc' = pc /\ crashes' = crashes /\ failures' = failures
  BY <1>1
<1>8. UNCHANGED <<intentRows, bidRows, fillRows, solverRows, receiptEvents>>
  OBVIOUS
<1>9. \A k \in DOMAIN chain : k \in DOMAIN chain' /\ chain'[k] = chain[k]
  BY <1>1
<1>10. \A k \in DOMAIN chain' : k \in DOMAIN chain
  BY <1>1
<1> QED BY <1>2, <1>4, <1>5, <1>6, <1>7, <1>8, <1>9, <1>10 DEF OtherStep

\* A step of the loop that only moves the place of the process.
LEMMA LoopMove ==
  ASSUME Place, ProcessOK', Handled' <= Handled, Handled' \in Nat,
         UNCHANGED <<chainVars, failures, intentRows, bidRows, fillRows, solverRows, receiptEvents>>,
         \A k \in DOMAIN chain : \A q \in Tasks(chain[k].name) : Passed(k, q)' => Passed(k, q),
         pc' # "down" \/ pc = "down" =>
           \A k \in DOMAIN chain : \A q \in Tasks(chain[k].name) : Passed(k, q) => Passed(k, q)',
         crashes' = IF pc' = "down" /\ pc # "down" THEN crashes + 1 ELSE crashes
  PROVE  OtherStep
<1>1. chain' = chain /\ head' = head
  BY DEF chainVars
<1>2. Place'
  BY <1>1 DEF Place
<1>3. UpTo(chain, head) <= UpTo(chain', head') /\ Len(chain) <= Len(chain')
  BY <1>1, HandledRange DEF Place, ChainOK
<1> QED BY <1>1, <1>2, <1>3 DEF OtherStep

\* A restart resumes where the stored block ends: nothing more is passed.
LEMMA StartMoves == ASSUME Place, Start PROVE OtherStep
<1>1. /\ pc = "down" /\ pc' = "idle" /\ lastProcessedBlock' = storedBlock
      /\ chain' = chain /\ head' = head /\ storedBlock' = storedBlock /\ toBlock' = toBlock
      /\ at' = at
  BY DEF Start, chainVars
<1>2. Handled = UpTo(chain, storedBlock) /\ Handled' = UpTo(chain', lastProcessedBlock')
  BY <1>1 DEF Handled, EventsUpTo, UpTo
<1>3. Handled' = Handled /\ Handled \in Nat
  BY <1>1, <1>2, HandledRange
<1>4. ProcessOK'
  BY <1>1 DEF Place, ProcessOK
<1>5. \A k, q : Passed(k, q)' <=> Passed(k, q)
  BY <1>1, <1>3, PassedAfter DEF Passed
<1>6. /\ UNCHANGED <<chainVars, failures, intentRows, bidRows, fillRows, solverRows, receiptEvents>>
      /\ crashes' = crashes
  BY DEF Start, tables
<1> QED BY <1>1, <1>3, <1>4, <1>5, <1>6, LoopMove

\* A crash goes back to the stored block: what is passed after it was before.
LEMMA CrashMoves == ASSUME Place, Crash PROVE OtherStep
<1>1. /\ pc # "down" /\ pc' = "down" /\ lastProcessedBlock' = 0 /\ toBlock' = 0 /\ at' = 0
      /\ chain' = chain /\ head' = head /\ storedBlock' = storedBlock /\ crashes' = crashes + 1
  BY DEF Crash, chainVars
<1>2. Handled' = UpTo(chain, storedBlock)
  BY <1>1 DEF Handled, EventsUpTo, UpTo
<1>3. Handled' <= Handled /\ Handled' \in Nat /\ Handled \in Nat
  <2>1. UpTo(chain, storedBlock) \in Nat
    BY PrefixUpTo DEF Place, ProcessOK
  <2> QED BY <1>2, <2>1, HandledRange
<1>4. ProcessOK'
  BY <1>1 DEF Place, ProcessOK
<1>5. ASSUME NEW k \in DOMAIN chain, NEW q, Passed(k, q)' PROVE Passed(k, q)
  <2>1. k <= Handled'
    BY <1>1, <1>5, PassedAfter
  <2>2. k \in Nat
    BY DEF Place, ChainOK
  <2>3. k <= Handled
    BY <1>3, <2>1, <2>2
  <2> QED BY <2>3 DEF Passed
<1>6. UNCHANGED <<chainVars, failures, intentRows, bidRows, fillRows, solverRows, receiptEvents>>
  BY DEF Crash, tables
<1> QED BY <1>1, <1>3, <1>4, <1>5, <1>6, LoopMove

\* The end of a range leaves everything in it passed.
LEMMA FinishMoves == ASSUME Place, Finish PROVE OtherStep
<1>1. /\ pc = "routing" /\ todo = << >> /\ pc' = "idle" /\ lastProcessedBlock' = toBlock
      /\ chain' = chain /\ head' = head /\ toBlock' = toBlock /\ at' = at
      /\ storedBlock' \in {storedBlock, toBlock}
  BY DEF Finish, chainVars
<1>2. /\ storedBlock \in Nat /\ toBlock \in Nat /\ storedBlock <= lastProcessedBlock
      /\ lastProcessedBlock <= toBlock /\ toBlock <= head /\ lastProcessedBlock \in Nat /\ at \in Nat
      /\ UpTo(chain, lastProcessedBlock) < at /\ at <= UpTo(chain, toBlock) + 1
      /\ at <= UpTo(chain, toBlock) => todo \in Stages(chain[at].name)
      /\ ChainOK(chain, head)
  BY <1>1 DEF Place, ProcessOK
<1>3. ~(at <= UpTo(chain, toBlock))
  <2> SUFFICES ASSUME at <= UpTo(chain, toBlock) PROVE FALSE
    OBVIOUS
  <2>1. /\ UpTo(chain, toBlock) <= Len(chain) /\ UpTo(chain, toBlock) \in Nat
        /\ UpTo(chain, lastProcessedBlock) \in Nat
    BY <1>2, PrefixUpTo
  <2>2. at \in DOMAIN chain /\ chain \in Seq(EventType)
    BY <1>2, <2>1 DEF ChainOK
  <2>3. chain[at] \in EventType
    BY <2>2
  <2>4. chain[at].name \in Names
    BY <2>3 DEF EventType
  <2> QED BY <1>1, <1>2, <2>4, StageStep
<1>4. Handled = at - 1 /\ Handled' = UpTo(chain', lastProcessedBlock')
  BY <1>1 DEF Handled, EventsUpTo, UpTo
<1>5. Handled' = Handled /\ Handled \in Nat
  <2>1. UpTo(chain, toBlock) \in Nat
    BY <1>2, PrefixUpTo
  <2>2. UpTo(chain, toBlock) = at - 1
    BY <1>2, <1>3, <2>1
  <2> QED BY <1>1, <1>4, <2>2, HandledRange
<1>6. ProcessOK'
  <2>1. storedBlock' \in Nat /\ storedBlock' <= head /\ storedBlock' <= toBlock
    <3>1. head \in Nat
      BY <1>2 DEF ChainOK
    <3> QED BY <1>1, <1>2, <3>1
  <2> QED BY <1>1, <1>2, <2>1 DEF ProcessOK
<1>7. \A k, q : Passed(k, q)' <=> Passed(k, q)
  BY <1>1, <1>5, PassedAfter DEF Passed
<1>8. /\ UNCHANGED <<chainVars, failures, intentRows, bidRows, fillRows, solverRows, receiptEvents>>
      /\ crashes' = crashes
  BY DEF Finish, tables
<1>9. Handled' <= Handled /\ Handled' \in Nat
  BY <1>5
<1> QED BY <1>1, <1>6, <1>7, <1>8, <1>9, LoopMove

\* A new range begins with the first event that is not passed.
LEMMA PollMoves == ASSUME Place, Poll PROVE OtherStep
<1>1. /\ pc = "idle" /\ lastProcessedBlock < head /\ pc' = "routing" /\ toBlock' = PollEnd
      /\ lastProcessedBlock' = lastProcessedBlock /\ storedBlock' = storedBlock
      /\ chain' = chain /\ head' = head
      /\ at' = UpTo(chain, lastProcessedBlock) + 1
      /\ todo' = IF at' <= UpTo(chain, PollEnd) THEN Routing(at') ELSE << >>
  BY Translation DEF Poll, chainVars
<1>2. /\ storedBlock \in Nat /\ storedBlock <= lastProcessedBlock /\ lastProcessedBlock \in Nat
      /\ head \in Nat /\ ChainOK(chain, head) /\ chain \in Seq(EventType) /\ storedBlock <= head
  BY <1>1 DEF Place, ProcessOK, ChainOK
<1>3. PollEnd \in Nat /\ lastProcessedBlock <= PollEnd /\ PollEnd <= head
  <2> DEFINE m == lastProcessedBlock + MaxRange
  <2>1. m \in Nat /\ lastProcessedBlock < m
    BY <1>2, IndexerAssumption
  <2> HIDE DEF m
  <2>2. \E x \in {head, m} : \A y \in {head, m} : x =< y
    <3>1. CASE head <= m
      BY <1>2, <2>1, <3>1
    <3>2. CASE m <= head
      BY <1>2, <2>1, <3>2
    <3> QED BY <1>2, <2>1, <3>1, <3>2
  <2>3. Min({head, m}) \in {head, m} /\ \A y \in {head, m} : Min({head, m}) =< y
    BY <2>2 DEF Min
  <2>4. PollEnd = Min({head, m})
    BY DEF PollEnd, m
  <2> HIDE DEF Min
  <2>5. PollEnd \in {head, m} /\ PollEnd <= head
    BY <2>3, <2>4
  <2> QED BY <1>1, <1>2, <2>1, <2>5
<1>4. /\ UpTo(chain, lastProcessedBlock) \in Nat /\ UpTo(chain, PollEnd) \in Nat
      /\ UpTo(chain, lastProcessedBlock) <= UpTo(chain, PollEnd)
      /\ UpTo(chain, PollEnd) <= Len(chain)
  BY <1>2, <1>3, PrefixUpTo
<1>5. Handled' = at' - 1 /\ Handled = UpTo(chain, lastProcessedBlock)
  BY <1>1, Translation DEF Handled
<1>6. Handled' = Handled /\ Handled \in Nat
  BY <1>1, <1>4, <1>5
<1> DEFINE n == UpTo(chain, lastProcessedBlock) + 1
<1>7. n \in Nat /\ at' = n /\ (n <= UpTo(chain, PollEnd) => n \in DOMAIN chain /\ todo' = Routing(n))
      /\ (~(n <= UpTo(chain, PollEnd)) => todo' = << >>)
  BY <1>1, <1>2, <1>4
<1>8. n <= UpTo(chain, PollEnd) => chain[n].name \in Names
  <2>1. n <= UpTo(chain, PollEnd) => chain[n] \in EventType
    BY <1>2, <1>7
  <2> QED BY <2>1 DEF EventType
<1> HIDE DEF n
<1>9. ProcessOK'
  <2>1. n <= UpTo(chain, PollEnd) => todo' \in Stages(chain[n].name)
    BY <1>7, <1>8, RoutingStages
  <2>2. n = UpTo(chain, PollEnd) + 1 => todo' = << >>
    BY <1>4, <1>7
  <2>3. UpTo(chain, lastProcessedBlock) < n /\ n <= UpTo(chain, PollEnd) + 1
    BY <1>4 DEF n
  <2> QED BY <1>1, <1>2, <1>3, <1>7, <2>1, <2>2, <2>3 DEF ProcessOK
<1>10. ASSUME NEW k \in DOMAIN chain, NEW q \in Tasks(chain[k].name)
       PROVE  Passed(k, q)' <=> Passed(k, q)
  <2>1. Passed(k, q) <=> k <= Handled
    BY <1>1 DEF Passed
  <2>2. Passed(k, q)' <=> k <= Handled \/ (todo' # << >> /\ k = n /\ ~Left(q, todo'))
    BY <1>1, <1>6, <1>7, PassedAfter
  <2>3. todo' # << >> /\ k = n => Left(q, todo')
    BY <1>7, <1>8, RoutingStages
  <2> QED BY <2>1, <2>2, <2>3
<1>11. /\ UNCHANGED <<chainVars, failures, intentRows, bidRows, fillRows, solverRows, receiptEvents>>
       /\ crashes' = crashes
  BY DEF Poll, tables
<1>12. Handled' <= Handled /\ Handled' \in Nat
  BY <1>6
<1>13. crashes' = IF pc' = "down" /\ pc # "down" THEN crashes + 1 ELSE crashes
  BY <1>1, <1>11
<1> QED BY <1>9, <1>10, <1>11, <1>12, <1>13, LoopMove

\* A transaction on chain, or the mining of a block, passes nothing.
LEMMA TransactionMoves == ASSUME Place, Transaction PROVE OtherStep
<1>1. ChainNext /\ UNCHANGED <<processVars, storedBlock, crashes, failures>>
  BY DEF Transaction
<1>2. UNCHANGED <<intentRows, bidRows, fillRows, solverRows, receiptEvents>>
  BY DEF Transaction, tables
<1>3. /\ Place' /\ Handled' = Handled /\ head' >= head
      /\ Len(chain) <= Len(chain') /\ Len(chain') \in Nat
      /\ \A k \in DOMAIN chain : k \in DOMAIN chain' /\ chain'[k] = chain[k]
      /\ \A k \in DOMAIN chain' : k \in DOMAIN chain \/ k > Len(chain)
      /\ UpTo(chain, head) <= UpTo(chain', head')
      /\ \A k, q : Passed(k, q)' <=> Passed(k, q)
  BY <1>1, ChainMoves
<1>4. ASSUME NEW k \in DOMAIN chain', NEW q, Passed(k, q)' PROVE k \in DOMAIN chain
  <2>2. k \in Nat /\ Len(chain) \in Nat
    BY <1>3 DEF Place, ChainOK
  <2>1. k <= Len(chain)
    BY <1>3, <1>4, <2>2, PassedMined
  <2> QED BY <1>3, <2>1, <2>2
<1>5. Handled' \in Nat /\ Handled' <= Handled
  BY <1>3, HandledRange
<1>6. pc' = pc
  BY <1>1 DEF processVars
<1> QED BY <1>1, <1>2, <1>3, <1>4, <1>5, <1>6 DEF OtherStep

\* A step runs a query or leaves the tables and moves the process and the chain only.
LEMMA Steps ==
  ASSUME Place, [Next]_vars
  PROVE  RunQuery \/ OtherStep
<1>1. CASE Start
  BY <1>1, StartMoves
<1>2. CASE Poll
  BY <1>2, PollMoves
<1>3. CASE Finish
  BY <1>3, FinishMoves
<1>4. CASE Crash
  BY <1>4, CrashMoves
<1>5. CASE Transaction
  BY <1>5, TransactionMoves
<1>6. CASE \E i \in IntentId : PostPendingMetadata(i) \/ PutMetadata(i)
  BY <1>6, RestStep DEF PostPendingMetadata, PutMetadata, tables
<1>7. CASE UNCHANGED vars
  BY <1>7, RestStep DEF vars, tables
<1> QED BY <1>1, <1>2, <1>3, <1>4, <1>5, <1>6, <1>7 DEF Next

----------------------------------------------------------------------------
(* The tables.                                                             *)

IntentRow == [status : {"none", "OPEN", "FILLED", "CANCELLED"}, block : Nat]
FillRow == [intentId : IntentId, proof : BOOLEAN]
SolverRow == [fills : Nat, latency : Nat]
BidStatus == {"none", "OPEN", "SELECTED", "REJECTED"}

RowsOK ==
  /\ intentRows \in [IntentId -> IntentRow]
  /\ bidRows \in [IntentId -> [BidId -> BidStatus]]
  /\ fillRows \in Seq(FillRow)
  /\ solverRows \in [Solver -> SolverRow]
  /\ receiptEvents \in Seq(Nat)
  /\ intentMetadata \in [IntentId -> {"none", "pending", "put"}]
  /\ pendingMetadata \in [IntentId -> {"none", "reserved", "late"}]
  /\ crashes \in Nat /\ failures \in Nat

\* The event a query belongs to.
LEMMA QueryEvent ==
  ASSUME Place, pc = "routing", todo # << >>
  PROVE  /\ Head(todo) \in {"upsertIntent", "copyMetadata"} => chain[at].name = "IntentSubmitted"
         /\ Head(todo) \in {"insertFill", "setFilled", "countFill"} => chain[at].name = "IntentFilled"
         /\ Head(todo) = "proveFills" => chain[at].name = "IntentFillProof"
         /\ Head(todo) = "setCancelled" => chain[at].name = "IntentCancelled"
         /\ Head(todo) = "upsertBid" => chain[at].name = "SolverBidSubmitted"
         /\ Head(todo) = "selectBid" => chain[at].name = "SolverBidSelected"
<1>1. chain[at].name \in Names /\ Head(todo) \in Tasks(chain[at].name)
  BY AtHand DEF EventType
<1> QED BY <1>1, TaskTable DEF Names, Ends

\* The event at hand.
LEMMA EventAt ==
  ASSUME Place, pc = "routing", todo # << >>
  PROVE  /\ at \in DOMAIN chain /\ chain[at].name \in Names /\ chain[at].intentId \in IntentId
         /\ chain[at].bidId \in Nat /\ chain[at].solver \in SUBSET Solver
         /\ chain[at].blockNumber \in Nat
         /\ chain[at].name \in {"SolverBidSubmitted", "SolverBidSelected"} => chain[at].bidId \in BidId
<1>1. at \in DOMAIN chain /\ chain[at] \in EventType
  BY AtHand
<1>2. chain[at].name \in {"SolverBidSubmitted", "SolverBidSelected"} => chain[at].bidId \in BidId
  BY <1>1 DEF Place, ChainOK, BidsNumbered
<1> QED BY <1>1, <1>2 DEF EventType

\* What a query does to the table of intents: i is the intent of the event at hand.
StatusMoves(i) ==
  \/ /\ Do("upsertIntent") /\ chain[at].name = "IntentSubmitted"
     /\ intentRows[i].status = "none" /\ intentRows'[i].status = "OPEN"
  \/ /\ Do("setFilled") /\ chain[at].name = "IntentFilled"
     /\ intentRows[i].status # "none" /\ intentRows'[i].status = "FILLED"
  \/ /\ Do("setCancelled") /\ chain[at].name = "IntentCancelled"
     /\ intentRows[i].status # "none" /\ intentRows'[i].status = "CANCELLED"

\* The submission opens a row that is not there, and leaves the status of one that is.
LEMMA UpsertRow ==
  ASSUME Place, RowsOK, UpsertIntent
  PROVE  /\ intentRows' \in [IntentId -> IntentRow]
         /\ \A i \in IntentId : intentRows'[i].status = intentRows[i].status
                                \/ (i = chain[at].intentId /\ StatusMoves(i))
         /\ \A i \in IntentId : i = chain[at].intentId => intentRows'[i].status # "none"
<1>1. /\ pc = "routing" /\ todo # << >> /\ Head(todo) = "upsertIntent" /\ Do("upsertIntent")
      /\ intentRows' = [intentRows EXCEPT ![chain[at].intentId] =
                          Upserted(intentRows[chain[at].intentId], chain[at].blockNumber)]
  BY DEF UpsertIntent, Do, Current
<1>2. /\ chain[at].intentId \in IntentId /\ chain[at].blockNumber \in Nat
      /\ chain[at].name = "IntentSubmitted"
  BY <1>1, EventAt, QueryEvent
<1> DEFINE i0 == chain[at].intentId
           row == intentRows[i0]
           new == Upserted(row, chain[at].blockNumber)
<1>3. row \in IntentRow /\ intentRows \in [IntentId -> IntentRow]
  BY <1>2 DEF RowsOK
<1>4. /\ new \in IntentRow /\ new.status # "none"
      /\ row.status = "none" => new.status = "OPEN"
      /\ row.status # "none" => new.status = row.status
  BY <1>2, <1>3 DEF Upserted, IntentRow
<1>5. /\ intentRows' \in [IntentId -> IntentRow] /\ intentRows'[i0] = new
      /\ \A i \in IntentId : i # i0 => intentRows'[i] = intentRows[i]
  <2> HIDE DEF new
  <2> QED BY <1>1, <1>2, <1>3, <1>4 DEF new
<1> HIDE DEF new, row
<1> QED BY <1>1, <1>2, <1>4, <1>5 DEF StatusMoves, row

\* A fill or a cancellation closes a row that is there.
LEMMA CloseRow ==
  ASSUME Place, RowsOK, NEW query, NEW status, SetStatus(query, status),
         \/ query = "setFilled" /\ status = "FILLED"
         \/ query = "setCancelled" /\ status = "CANCELLED"
  PROVE  /\ intentRows' \in [IntentId -> IntentRow]
         /\ \A i \in IntentId : intentRows'[i].status = intentRows[i].status
                                \/ (i = chain[at].intentId /\ StatusMoves(i))
         /\ \A i \in IntentId : i = chain[at].intentId /\ intentRows[i].status # "none" =>
              intentRows'[i].status = status
<1>1. /\ pc = "routing" /\ todo # << >> /\ Head(todo) = query /\ Do(query)
      /\ intentRows' = Closed(intentRows, chain[at].intentId, status, chain[at].blockNumber)
  BY DEF SetStatus, Do, Current
<1>2. chain[at].intentId \in IntentId /\ chain[at].blockNumber \in Nat
  BY <1>1, EventAt
<1>3. /\ query = "setFilled" => chain[at].name = "IntentFilled"
      /\ query = "setCancelled" => chain[at].name = "IntentCancelled"
  BY <1>1, QueryEvent
<1>4. intentRows \in [IntentId -> IntentRow]
  BY DEF RowsOK
<1>5. CASE intentRows[chain[at].intentId].status = "none"
  BY <1>1, <1>4, <1>5 DEF Closed
<1>6. CASE intentRows[chain[at].intentId].status # "none"
  <2> DEFINE new == [status |-> status, block |-> chain[at].blockNumber]
  <2>1. new \in IntentRow /\ new.status = status
    BY <1>2 DEF IntentRow
  <2>2. intentRows' = [intentRows EXCEPT ![chain[at].intentId] = new]
    BY <1>1, <1>6 DEF Closed
  <2> HIDE DEF new
  <2>3. /\ intentRows' \in [IntentId -> IntentRow] /\ intentRows'[chain[at].intentId] = new
        /\ \A i \in IntentId : i # chain[at].intentId => intentRows'[i] = intentRows[i]
    BY <1>2, <1>4, <2>1, <2>2
  <2> QED BY <1>1, <1>3, <1>6, <2>1, <2>3 DEF StatusMoves
<1> QED BY <1>5, <1>6

\* The other queries leave the table of intents.
LEMMA StatusStep ==
  ASSUME Place, RowsOK, RunQuery
  PROVE  /\ intentRows' \in [IntentId -> IntentRow]
         /\ \A i \in IntentId : intentRows'[i].status = intentRows[i].status
                                \/ (i = chain[at].intentId /\ StatusMoves(i))
<1>1. CASE UpsertIntent
  BY <1>1, UpsertRow
<1>2. CASE SetStatus("setFilled", "FILLED") \/ SetStatus("setCancelled", "CANCELLED")
  BY <1>2, CloseRow
<1>3. CASE UNCHANGED intentRows
  BY <1>3 DEF RowsOK
<1>4. CASE CopyMetadata \/ InsertFill \/ CountFill \/ ProveFills
  BY <1>3, <1>4 DEF CopyMetadata, InsertFill, CountFill, ProveFills
<1>5. CASE UpsertBid \/ SelectBidRow \/ RecordTxReceipt \/ QueryFails
  BY <1>3, <1>5 DEF UpsertBid, SelectBidRow, RecordTxReceipt, QueryFails, tables
<1> QED BY <1>1, <1>2, <1>4, <1>5 DEF RunQuery

\* A row that is closed says what happened.
ClosedRight ==
  \A i \in IntentId :
    /\ intentRows[i].status = "FILLED" => Was(chain, Len(chain), "IntentFilled", i)
    /\ intentRows[i].status = "CANCELLED" => Was(chain, Len(chain), "IntentCancelled", i)

\* A step keeps that, and what is closed stays closed as it is.
LEMMA ClosedStep ==
  ASSUME Place, RowsOK, ClosedRight, [Next]_vars
  PROVE  /\ ClosedRight'
         /\ \A i \in IntentId : intentRows[i].status \in {"FILLED", "CANCELLED"} =>
              intentRows'[i].status = intentRows[i].status
<1>1. CASE OtherStep
  <2>1. /\ intentRows' = intentRows /\ Len(chain) <= Len(chain') /\ Place'
        /\ \A k \in DOMAIN chain : chain'[k] = chain[k]
    BY <1>1 DEF OtherStep
  <2>2. Len(chain) \in Nat /\ Len(chain') \in Nat /\ DOMAIN chain = 1..Len(chain)
    BY <2>1 DEF Place, ChainOK
  <2>3. \A name, i : Was(chain, Len(chain), name, i) => Was(chain', Len(chain'), name, i)
    BY <2>1, <2>2 DEF Was
  <2> QED BY <2>1, <2>3 DEF ClosedRight
<1>2. CASE RunQuery
  <2>1. chain' = chain
    BY <1>2, QueryStep
  <2>2. pc = "routing" /\ todo # << >>
    BY <1>2, RunContinues
  <2>3. /\ at \in DOMAIN chain /\ chain \in Seq(EventType) /\ DOMAIN chain = 1..Len(chain)
        /\ EndsOnce(chain) /\ chain[at].intentId \in IntentId
    BY <2>2, EventAt DEF Place, ChainOK
  <2>4. Was(chain, Len(chain), chain[at].name, chain[at].intentId)
    BY <2>3 DEF Was, Is
  <2>5. ~(/\ Was(chain, Len(chain), "IntentFilled", chain[at].intentId)
          /\ Was(chain, Len(chain), "IntentCancelled", chain[at].intentId))
    BY <2>3 DEF Was, Is, EndsOnce, Ends
  <2>6. ASSUME NEW i \in IntentId
        PROVE  /\ intentRows'[i].status = "FILLED" => Was(chain, Len(chain), "IntentFilled", i)
               /\ intentRows'[i].status = "CANCELLED" => Was(chain, Len(chain), "IntentCancelled", i)
               /\ intentRows[i].status \in {"FILLED", "CANCELLED"} =>
                    intentRows'[i].status = intentRows[i].status
    <3>1. CASE intentRows'[i].status = intentRows[i].status
      BY <3>1 DEF ClosedRight
    <3>2. CASE i = chain[at].intentId /\ StatusMoves(i)
      <4>1. /\ Was(chain, Len(chain), chain[at].name, i)
            /\ ~(Was(chain, Len(chain), "IntentFilled", i) /\ Was(chain, Len(chain), "IntentCancelled", i))
        BY <2>4, <2>5, <3>2
      <4>2. CASE chain[at].name = "IntentSubmitted"
        BY <3>2, <4>2 DEF StatusMoves
      <4>3. CASE chain[at].name = "IntentFilled"
        BY <3>2, <4>1, <4>3 DEF StatusMoves, ClosedRight, RowsOK, IntentRow
      <4>4. CASE chain[at].name = "IntentCancelled"
        BY <3>2, <4>1, <4>4 DEF StatusMoves, ClosedRight, RowsOK, IntentRow
      <4> QED BY <3>2, <4>2, <4>3, <4>4 DEF StatusMoves
    <3> QED BY <1>2, <3>1, <3>2, StatusStep
  <2> QED BY <2>1, <2>6 DEF ClosedRight
<1> QED BY <1>1, <1>2, Steps

\* A query that does not fail is the one next to do.
LEMMA Which ==
  ASSUME RunQuery, ~QueryFails
  PROVE  /\ Do("upsertIntent") => UpsertIntent
         /\ Do("copyMetadata") => CopyMetadata
         /\ Do("insertFill") => InsertFill
         /\ Do("setFilled") => SetStatus("setFilled", "FILLED")
         /\ Do("setCancelled") => SetStatus("setCancelled", "CANCELLED")
         /\ Do("countFill") => CountFill
         /\ Do("proveFills") => ProveFills
         /\ Do("upsertBid") => UpsertBid
         /\ Do("selectBid") => SelectBidRow
         /\ Do("recordReceipt") => RecordTxReceipt
<1>1. /\ UpsertIntent => Do("upsertIntent")
      /\ CopyMetadata => Do("copyMetadata")
      /\ InsertFill => Do("insertFill")
      /\ SetStatus("setFilled", "FILLED") => Do("setFilled")
      /\ SetStatus("setCancelled", "CANCELLED") => Do("setCancelled")
      /\ CountFill => Do("countFill")
      /\ ProveFills => Do("proveFills")
      /\ UpsertBid => Do("upsertBid")
      /\ SelectBidRow => Do("selectBid")
      /\ RecordTxReceipt => Do("recordReceipt")
  BY DEF UpsertIntent, CopyMetadata, InsertFill, SetStatus, CountFill, ProveFills, UpsertBid,
         SelectBidRow, RecordTxReceipt
<1>2. \A p, q : Do(p) /\ Do(q) => p = q
  BY DEF Do
<1> QED BY <1>1, <1>2 DEF RunQuery

\* Failed queries are counted.
LEMMA FailureCounts ==
  ASSUME RunQuery, failures \in Nat
  PROVE  /\ QueryFails <=> failures' # failures
         /\ failures' = failures \/ failures' = failures + 1
<1>1. QueryFails => failures' = failures + 1
  BY DEF QueryFails
<1>2. ~QueryFails => failures' = failures
  BY DEF RunQuery, UpsertIntent, CopyMetadata, InsertFill, CountFill, ProveFills, SetStatus,
         UpsertBid, SelectBidRow, RecordTxReceipt, Done
<1> QED BY <1>1, <1>2

\* What a query does to the table of fills.
FillRowsMove ==
  /\ fillRows' \in Seq(FillRow)
  /\ \/ /\ Do("insertFill") /\ ~QueryFails
        /\ fillRows' = Append(fillRows, [intentId |-> chain[at].intentId, proof |-> FALSE])
     \/ /\ Do("insertFill") => QueryFails
        /\ DOMAIN fillRows' = DOMAIN fillRows
        /\ \A n \in DOMAIN fillRows : fillRows'[n].intentId = fillRows[n].intentId
        /\ \A n \in DOMAIN fillRows : fillRows[n].proof => fillRows'[n].proof
  /\ Do("proveFills") /\ ~QueryFails =>
       \A n \in DOMAIN fillRows : fillRows[n].intentId = chain[at].intentId => fillRows'[n].proof

\* Only inserting and proving change the table of fills.
LEMMA FillRowsStep ==
  ASSUME Place, RowsOK, RunQuery
  PROVE  FillRowsMove
<1>a. pc = "routing" /\ todo # << >>
  BY RunContinues
<1>b. chain[at].intentId \in IntentId /\ fillRows \in Seq(FillRow)
  BY <1>a, EventAt DEF RowsOK
<1>c. \A p, q : Do(p) /\ Do(q) => p = q
  BY DEF Do
<1>d. \A n \in DOMAIN fillRows : fillRows[n] \in FillRow
  BY <1>b
<1>1. CASE InsertFill /\ ~QueryFails
  <2> DEFINE row == [intentId |-> chain[at].intentId, proof |-> FALSE]
  <2>1. row \in FillRow
    BY <1>b DEF FillRow
  <2>2. Do("insertFill") /\ fillRows' = Append(fillRows, row)
    BY <1>1 DEF InsertFill, Current
  <2>3. fillRows' \in Seq(FillRow)
    <3> HIDE DEF row
    <3> QED BY <1>b, <2>1, <2>2
  <2>4. ~Do("proveFills")
    BY <1>c, <2>2
  <2> QED BY <1>1, <2>2, <2>3, <2>4 DEF FillRowsMove
<1>2. CASE ProveFills /\ ~QueryFails
  <2>1. /\ Do("proveFills")
        /\ fillRows' = [k \in DOMAIN fillRows |->
             [fillRows[k] EXCEPT !.proof = @ \/ fillRows[k].intentId = chain[at].intentId]]
    BY <1>2 DEF ProveFills, Current
  <2>2. ASSUME NEW n \in DOMAIN fillRows
        PROVE  /\ fillRows'[n] \in FillRow
               /\ fillRows'[n].intentId = fillRows[n].intentId
               /\ fillRows'[n].proof <=> fillRows[n].proof \/ fillRows[n].intentId = chain[at].intentId
    <3> DEFINE row == fillRows[n]
               new == [row EXCEPT !.proof = @ \/ row.intentId = chain[at].intentId]
    <3>1. row \in FillRow
      BY <1>d
    <3>2. fillRows'[n] = new
      BY <2>1
    <3> HIDE DEF row
    <3>3. new \in FillRow /\ new.intentId = row.intentId
      BY <3>1 DEF FillRow
    <3>4. new.proof = (row.proof \/ row.intentId = chain[at].intentId)
      BY <3>1 DEF FillRow
    <3> QED BY <3>2, <3>3, <3>4 DEF row
  <2>3. DOMAIN fillRows' = DOMAIN fillRows
    BY <2>1
  <2>4. fillRows' \in Seq(FillRow)
    <3>1. DOMAIN fillRows = 1..Len(fillRows) /\ Len(fillRows) \in Nat
      BY <1>b
    <3>2. fillRows' \in [1..Len(fillRows) -> FillRow]
      BY <2>1, <2>2, <3>1
    <3> QED BY <3>1, <3>2
  <2>5. ~Do("insertFill")
    BY <1>c, <2>1
  <2> QED BY <2>2, <2>3, <2>4, <2>5 DEF FillRowsMove
<1>3. CASE UNCHANGED fillRows /\ (Do("insertFill") => QueryFails) /\ (Do("proveFills") => QueryFails)
  BY <1>b, <1>3 DEF FillRowsMove
<1>4. UpsertIntent \/ CopyMetadata \/ CountFill => UNCHANGED fillRows
  BY DEF UpsertIntent, CopyMetadata, CountFill
<1>5. SetStatus("setFilled", "FILLED") \/ SetStatus("setCancelled", "CANCELLED") => UNCHANGED fillRows
  BY DEF SetStatus
<1>6. UpsertBid \/ SelectBidRow \/ RecordTxReceipt \/ QueryFails => UNCHANGED fillRows
  BY DEF UpsertBid, SelectBidRow, RecordTxReceipt, QueryFails, tables
<1>7. ~QueryFails => (Do("insertFill") => InsertFill) /\ (Do("proveFills") => ProveFills)
  BY Which
<1> QED BY <1>1, <1>2, <1>3, <1>4, <1>5, <1>6, <1>7 DEF RunQuery

\* What a query does to the table of bids.
BidRowsMove ==
  /\ bidRows' \in [IntentId -> [BidId -> BidStatus]]
  /\ \A i \in IntentId : \A b \in BidId :
       \/ bidRows'[i][b] = bidRows[i][b]
       \/ /\ Do("upsertBid") /\ ~QueryFails
          /\ i = chain[at].intentId /\ b = chain[at].bidId
          /\ bidRows[i][b] = "none" /\ bidRows'[i][b] = "OPEN"
       \/ /\ Do("selectBid") /\ ~QueryFails
          /\ i = chain[at].intentId /\ bidRows[i][b] = "OPEN"
          /\ bidRows'[i][b] = IF b = chain[at].bidId THEN "SELECTED" ELSE "REJECTED"
  /\ Do("upsertBid") /\ ~QueryFails =>
       \A i \in IntentId : \A b \in BidId :
         i = chain[at].intentId /\ b = chain[at].bidId => bidRows'[i][b] # "none"
  /\ Do("selectBid") /\ ~QueryFails =>
       \A i \in IntentId : \A b \in BidId :
         i = chain[at].intentId /\ bidRows[i][b] = "OPEN" =>
           bidRows'[i][b] = IF b = chain[at].bidId THEN "SELECTED" ELSE "REJECTED"

\* Only upserting and selecting change the table of bids.
LEMMA BidRowsStep ==
  ASSUME Place, RowsOK, RunQuery
  PROVE  BidRowsMove
<1>a. pc = "routing" /\ todo # << >>
  BY RunContinues
<1>b. chain[at].intentId \in IntentId /\ bidRows \in [IntentId -> [BidId -> BidStatus]]
  BY <1>a, EventAt DEF RowsOK
<1>c. \A p, q : Do(p) /\ Do(q) => p = q
  BY DEF Do
<1> DEFINE i0 == chain[at].intentId
           b0 == chain[at].bidId
<1>1. CASE UpsertBid /\ ~QueryFails
  <2>1. Do("upsertBid") /\ ~Do("selectBid")
    BY <1>c, <1>1 DEF UpsertBid
  <2>2. b0 \in BidId
    <3>1. chain[at].name = "SolverBidSubmitted"
      BY <1>a, <2>1, QueryEvent DEF Do
    <3> QED BY <1>a, <3>1, EventAt
  <2>3. bidRows' = [bidRows EXCEPT ![i0][b0] = IF bidRows[i0][b0] = "none" THEN "OPEN" ELSE bidRows[i0][b0]]
    BY <1>1 DEF UpsertBid, Current
  <2> DEFINE new == IF bidRows[i0][b0] = "none" THEN "OPEN" ELSE bidRows[i0][b0]
             col == [bidRows[i0] EXCEPT ![b0] = new]
  <2>4. bidRows' = [bidRows EXCEPT ![i0] = col]
    BY <2>3
  <2>5. bidRows[i0] \in [BidId -> BidStatus]
    BY <1>b
  <2>6. new \in BidStatus /\ new # "none" /\ (bidRows[i0][b0] # "none" => new = bidRows[i0][b0])
        /\ (bidRows[i0][b0] = "none" => new = "OPEN")
    BY <2>2, <2>5 DEF BidStatus
  <2> HIDE DEF new
  <2>7. col \in [BidId -> BidStatus] /\ col[b0] = new /\ \A b \in BidId : b # b0 => col[b] = bidRows[i0][b]
    BY <2>2, <2>5, <2>6
  <2> HIDE DEF col, i0, b0
  <2>8. /\ bidRows' \in [IntentId -> [BidId -> BidStatus]] /\ bidRows'[i0] = col
        /\ \A i \in IntentId : i # i0 => bidRows'[i] = bidRows[i]
    BY <1>b, <2>4, <2>7 DEF i0
  <2>9. ASSUME NEW i \in IntentId, NEW b \in BidId
        PROVE  \/ bidRows'[i][b] = bidRows[i][b]
               \/ /\ i = i0 /\ b = b0
                  /\ bidRows[i][b] = "none" /\ bidRows'[i][b] = "OPEN"
    <3>1. CASE i = i0 /\ b = b0
      BY <2>6, <2>7, <2>8, <3>1
    <3>2. CASE i = i0 /\ b # b0
      BY <2>7, <2>8, <3>2
    <3>3. CASE i # i0
      BY <2>8, <3>3
    <3> QED BY <3>1, <3>2, <3>3
  <2>10. bidRows'[i0][b0] # "none"
    BY <2>6, <2>7, <2>8
  <2> QED BY <1>1, <2>1, <2>8, <2>9, <2>10 DEF BidRowsMove, i0, b0
<1>2. CASE SelectBidRow /\ ~QueryFails
  <2>1. Do("selectBid") /\ ~Do("upsertBid")
    BY <1>c, <1>2 DEF SelectBidRow
  <2> DEFINE col == [b \in BidId |-> Chosen(bidRows[i0][b], b, b0)]
  <2>2. bidRows' = [bidRows EXCEPT ![i0] = col]
    BY <1>2 DEF SelectBidRow, Current
  <2>3. \A b \in BidId : bidRows[i0][b] \in BidStatus
    BY <1>b
  <2>4. \A b \in BidId : /\ col[b] \in BidStatus
                         /\ bidRows[i0][b] # "OPEN" => col[b] = bidRows[i0][b]
                         /\ bidRows[i0][b] = "OPEN" => col[b] = IF b = b0 THEN "SELECTED" ELSE "REJECTED"
    BY <2>3 DEF Chosen, BidStatus
  <2>5. col \in [BidId -> BidStatus]
    BY <2>4
  <2> HIDE DEF col, i0, b0
  <2>6. /\ bidRows' \in [IntentId -> [BidId -> BidStatus]] /\ bidRows'[i0] = col
        /\ \A i \in IntentId : i # i0 => bidRows'[i] = bidRows[i]
    BY <1>b, <2>2, <2>5 DEF i0
  <2>7. ASSUME NEW i \in IntentId, NEW b \in BidId
        PROVE  \/ bidRows'[i][b] = bidRows[i][b]
               \/ /\ i = i0 /\ bidRows[i][b] = "OPEN"
                  /\ bidRows'[i][b] = IF b = b0 THEN "SELECTED" ELSE "REJECTED"
    <3>1. CASE i = i0
      BY <2>4, <2>6, <3>1
    <3>2. CASE i # i0
      BY <2>6, <3>2
    <3> QED BY <3>1, <3>2
  <2>8. \A b \in BidId : bidRows[i0][b] = "OPEN" =>
          bidRows'[i0][b] = IF b = b0 THEN "SELECTED" ELSE "REJECTED"
    BY <2>4, <2>6
  <2> QED BY <1>2, <2>1, <2>6, <2>7, <2>8 DEF BidRowsMove, i0, b0
<1>3. CASE UNCHANGED bidRows /\ (Do("upsertBid") => QueryFails) /\ (Do("selectBid") => QueryFails)
  BY <1>b, <1>3 DEF BidRowsMove
<1>4. UpsertIntent \/ CopyMetadata \/ InsertFill \/ CountFill => UNCHANGED bidRows
  BY DEF UpsertIntent, CopyMetadata, InsertFill, CountFill
<1>5. SetStatus("setFilled", "FILLED") \/ SetStatus("setCancelled", "CANCELLED") => UNCHANGED bidRows
  BY DEF SetStatus
<1>6. ProveFills \/ RecordTxReceipt \/ QueryFails => UNCHANGED bidRows
  BY DEF ProveFills, RecordTxReceipt, QueryFails, tables
<1>7. ~QueryFails => (Do("upsertBid") => UpsertBid) /\ (Do("selectBid") => SelectBidRow)
  BY Which
<1> QED BY <1>1, <1>2, <1>3, <1>4, <1>5, <1>6, <1>7 DEF RunQuery

\* What a query does to the counters of the solvers.
SolverRowsMove ==
  /\ solverRows' \in [Solver -> SolverRow]
  /\ \/ solverRows' = solverRows
     \/ /\ Do("countFill") /\ ~QueryFails
        /\ \A s \in Solver : solverRows'[s].fills =
             solverRows[s].fills + (IF s \in chain[at].solver THEN 1 ELSE 0)

\* Only the counting query changes them, by one for the solver of the event.
LEMMA SolverRowsStep ==
  ASSUME Place, RowsOK, RunQuery
  PROVE  SolverRowsMove
<1>1. CASE CountFill /\ ~QueryFails
  <2>1. pc = "routing" /\ todo # << >> /\ Do("countFill")
    BY <1>1 DEF CountFill, Do
  <2> DEFINE i0 == chain[at].intentId
             b0 == chain[at].blockNumber
             latency == IF Row(i0) /\ b0 > intentRows[i0].block THEN b0 - intentRows[i0].block ELSE 0
  <2>2. solverRows' = [s \in Solver |->
           IF s \notin chain[at].solver THEN solverRows[s]
           ELSE [fills |-> solverRows[s].fills + 1, latency |-> solverRows[s].latency + latency]]
    BY <1>1 DEF CountFill, Current
  <2>3. latency \in Nat
    <3>1. i0 \in IntentId /\ b0 \in Nat
      BY <2>1, EventAt
    <3>2. intentRows[i0].block \in Nat
      BY <3>1 DEF RowsOK, IntentRow
    <3> HIDE DEF i0, b0
    <3> QED BY <3>1, <3>2
  <2> HIDE DEF latency
  <2>4. ASSUME NEW s \in Solver
        PROVE  /\ solverRows'[s] \in SolverRow
               /\ solverRows'[s].fills = solverRows[s].fills + (IF s \in chain[at].solver THEN 1 ELSE 0)
    <3>1. solverRows[s] \in SolverRow
      BY DEF RowsOK
    <3>2. solverRows[s].fills \in Nat /\ solverRows[s].latency \in Nat
      BY <3>1 DEF SolverRow
    <3>3. CASE s \notin chain[at].solver
      BY <2>2, <3>1, <3>2, <3>3
    <3>4. CASE s \in chain[at].solver
      <4>1. solverRows'[s] = [fills |-> solverRows[s].fills + 1, latency |-> solverRows[s].latency + latency]
        BY <2>2, <3>4
      <4> QED BY <2>3, <3>2, <3>4, <4>1 DEF SolverRow
    <3> QED BY <3>3, <3>4
  <2>5. solverRows' \in [Solver -> SolverRow]
    BY <2>2, <2>4
  <2> QED BY <1>1, <2>1, <2>4, <2>5 DEF SolverRowsMove
<1>2. CASE UNCHANGED solverRows
  BY <1>2 DEF SolverRowsMove, RowsOK
<1>3. UpsertIntent \/ CopyMetadata \/ InsertFill \/ ProveFills => UNCHANGED solverRows
  BY DEF UpsertIntent, CopyMetadata, InsertFill, ProveFills
<1>4. SetStatus("setFilled", "FILLED") \/ SetStatus("setCancelled", "CANCELLED") => UNCHANGED solverRows
  BY DEF SetStatus
<1>5. UpsertBid \/ SelectBidRow \/ RecordTxReceipt \/ QueryFails => UNCHANGED solverRows
  BY DEF UpsertBid, SelectBidRow, RecordTxReceipt, QueryFails, tables
<1> QED BY <1>1, <1>2, <1>3, <1>4, <1>5 DEF RunQuery

\* Receipts are only added, that of the event at hand by its last query.
LEMMA ReceiptStep ==
  ASSUME Place, RowsOK, RunQuery
  PROVE  /\ receiptEvents' \in Seq(Nat)
         /\ \A n \in DOMAIN receiptEvents :
              n \in DOMAIN receiptEvents' /\ receiptEvents'[n] = receiptEvents[n]
         /\ Do("recordReceipt") /\ ~QueryFails => \E n \in DOMAIN receiptEvents' : receiptEvents'[n] = at
<1>a. receiptEvents \in Seq(Nat) /\ at \in Nat
  BY DEF RowsOK, Place, ProcessOK
<1>1. CASE RecordTxReceipt
  <2>1. receiptEvents' = Append(receiptEvents, at)
    BY <1>1 DEF RecordTxReceipt
  <2>2. Len(receiptEvents) + 1 \in DOMAIN receiptEvents'
        /\ receiptEvents'[Len(receiptEvents) + 1] = at
    BY <1>a, <2>1
  <2> QED BY <1>a, <2>1, <2>2, Appended
<1>2. CASE UNCHANGED receiptEvents /\ (Do("recordReceipt") => QueryFails)
  BY <1>a, <1>2
<1>3. UpsertIntent \/ CopyMetadata \/ InsertFill \/ ProveFills => UNCHANGED receiptEvents
  BY DEF UpsertIntent, CopyMetadata, InsertFill, ProveFills
<1>4. SetStatus("setFilled", "FILLED") \/ SetStatus("setCancelled", "CANCELLED") => UNCHANGED receiptEvents
  BY DEF SetStatus
<1>5. UpsertBid \/ SelectBidRow \/ CountFill \/ QueryFails => UNCHANGED receiptEvents
  BY DEF UpsertBid, SelectBidRow, CountFill, QueryFails, tables
<1>6. ~QueryFails => (Do("recordReceipt") => RecordTxReceipt)
  BY Which
<1> QED BY <1>1, <1>2, <1>3, <1>4, <1>5, <1>6 DEF RunQuery

\* Metadata is not taken away, reserved only before the submission, and copied by its query.
LEMMA MetadataStep ==
  ASSUME Place, RowsOK, [Next]_vars
  PROVE  /\ intentMetadata' \in [IntentId -> {"none", "pending", "put"}]
         /\ pendingMetadata' \in [IntentId -> {"none", "reserved", "late"}]
         /\ \A i \in IntentId : intentMetadata[i] # "none" => intentMetadata'[i] # "none"
         /\ \A i \in IntentId : pendingMetadata'[i] = "reserved" =>
              pendingMetadata[i] = "reserved" \/ ~Was(chain, Len(chain), "IntentSubmitted", i)
         /\ RunQuery /\ Do("copyMetadata") /\ ~QueryFails =>
              \A i \in IntentId : i = chain[at].intentId /\ pendingMetadata[i] # "none" =>
                intentMetadata'[i] # "none"
<1>a. /\ intentMetadata \in [IntentId -> {"none", "pending", "put"}]
      /\ pendingMetadata \in [IntentId -> {"none", "reserved", "late"}]
  BY DEF RowsOK
<1>b. RunQuery => pendingMetadata' = pendingMetadata
  BY QueryStep
<1>c. ~RunQuery \/ ~Do("copyMetadata") \/ QueryFails \/ CopyMetadata
  BY Which
<1>1. CASE CopyMetadata
  <2>1. pc = "routing" /\ todo # << >>
    BY <1>1 DEF CopyMetadata, Do
  <2>2. chain[at].intentId \in IntentId
    BY <2>1, EventAt
  <2>3. intentMetadata' = IF pendingMetadata[chain[at].intentId] # "none"
                          THEN [intentMetadata EXCEPT ![chain[at].intentId] = "pending"]
                          ELSE intentMetadata
    BY <1>1 DEF CopyMetadata, Current
  <2>4. pendingMetadata' = pendingMetadata
    BY <1>1, <1>b DEF RunQuery
  <2>5. CASE pendingMetadata[chain[at].intentId] # "none"
    <3>1. intentMetadata' = [intentMetadata EXCEPT ![chain[at].intentId] = "pending"]
      BY <2>3, <2>5
    <3> QED BY <1>a, <2>2, <2>4, <3>1
  <2>6. CASE pendingMetadata[chain[at].intentId] = "none"
    <3>1. intentMetadata' = intentMetadata
      BY <2>3, <2>6
    <3> QED BY <1>a, <2>2, <2>4, <2>6, <3>1
  <2> QED BY <2>5, <2>6
<1>2. CASE ~CopyMetadata /\ UNCHANGED <<intentMetadata, pendingMetadata>>
  BY <1>a, <1>c, <1>2
<1>3. CASE RunQuery /\ ~CopyMetadata
  <2>1. UpsertIntent \/ InsertFill \/ ProveFills \/ CountFill => UNCHANGED intentMetadata
    BY DEF UpsertIntent, InsertFill, ProveFills, CountFill
  <2>2. SetStatus("setFilled", "FILLED") \/ SetStatus("setCancelled", "CANCELLED") => UNCHANGED intentMetadata
    BY DEF SetStatus
  <2>3. UpsertBid \/ SelectBidRow \/ RecordTxReceipt \/ QueryFails => UNCHANGED intentMetadata
    BY DEF UpsertBid, SelectBidRow, RecordTxReceipt, QueryFails, tables
  <2>4. UNCHANGED intentMetadata
    BY <1>3, <2>1, <2>2, <2>3 DEF RunQuery
  <2> QED BY <1>2, <1>3, <1>b, <2>4
<1>4. CASE Start \/ Poll \/ Finish \/ Crash \/ Transaction \/ UNCHANGED vars
  <2>1. UNCHANGED <<intentMetadata, pendingMetadata>>
    BY <1>4 DEF Start, Poll, Finish, Crash, Transaction, vars, tables
  <2> QED BY <1>1, <1>2, <2>1
<1>5. ASSUME NEW i \in IntentId, PostPendingMetadata(i)
      PROVE  /\ UNCHANGED intentMetadata
             /\ pendingMetadata' \in [IntentId -> {"none", "reserved", "late"}]
             /\ \A j \in IntentId : pendingMetadata'[j] = "reserved" =>
                  pendingMetadata[j] = "reserved" \/ ~Was(chain, Len(chain), "IntentSubmitted", j)
  <2> DEFINE new == IF Was(chain, Len(chain), "IntentSubmitted", i) THEN "late" ELSE "reserved"
  <2>1. intentMetadata' = intentMetadata /\ pendingMetadata' = [pendingMetadata EXCEPT ![i] = new]
    BY <1>5, Translation DEF PostPendingMetadata, tables
  <2>2. new \in {"late", "reserved"} /\ (new = "reserved" => ~Was(chain, Len(chain), "IntentSubmitted", i))
    OBVIOUS
  <2> HIDE DEF new
  <2> QED BY <1>a, <2>1, <2>2
<1>6. ASSUME NEW i \in IntentId, PutMetadata(i)
      PROVE  /\ UNCHANGED pendingMetadata
             /\ intentMetadata' \in [IntentId -> {"none", "pending", "put"}]
             /\ \A j \in IntentId : intentMetadata[j] # "none" => intentMetadata'[j] # "none"
  BY <1>6, <1>a DEF PutMetadata
<1>7. CASE \E i \in IntentId : PostPendingMetadata(i) \/ PutMetadata(i)
  <2>1. CASE RunQuery
    BY <1>1, <1>3, <2>1
  <2>2. CASE ~RunQuery /\ \E i \in IntentId : PostPendingMetadata(i)
    BY <1>5, <1>a, <2>2
  <2>3. CASE ~RunQuery /\ \E i \in IntentId : PutMetadata(i)
    BY <1>6, <1>a, <2>3
  <2> QED BY <1>7, <2>1, <2>2, <2>3
<1> QED BY <1>1, <1>3, <1>4, <1>7 DEF Next

\* Every step keeps the tables well typed.
LEMMA RowsStep ==
  ASSUME Place, RowsOK, [Next]_vars
  PROVE  RowsOK'
<1>1. /\ intentMetadata' \in [IntentId -> {"none", "pending", "put"}]
      /\ pendingMetadata' \in [IntentId -> {"none", "reserved", "late"}]
  BY MetadataStep
<1>2. CASE OtherStep
  <2>1. /\ UNCHANGED <<intentRows, bidRows, fillRows, solverRows, receiptEvents>>
        /\ crashes' \in Nat /\ failures' \in Nat
    BY <1>2 DEF OtherStep, RowsOK
  <2> QED BY <1>1, <2>1 DEF RowsOK
<1>3. CASE RunQuery
  <2>1. crashes' \in Nat /\ failures' \in Nat
    BY <1>3, QueryStep, FailureCounts DEF RowsOK
  <2>2. intentRows' \in [IntentId -> IntentRow]
    BY <1>3, StatusStep
  <2>3. bidRows' \in [IntentId -> [BidId -> BidStatus]]
    BY <1>3, BidRowsStep DEF BidRowsMove
  <2>4. fillRows' \in Seq(FillRow)
    BY <1>3, FillRowsStep DEF FillRowsMove
  <2>5. solverRows' \in [Solver -> SolverRow] /\ receiptEvents' \in Seq(Nat)
    BY <1>3, SolverRowsStep, ReceiptStep DEF SolverRowsMove
  <2> QED BY <1>1, <2>1, <2>2, <2>3, <2>4, <2>5 DEF RowsOK
<1> QED BY <1>2, <1>3, Steps

\* Nothing was emitted, and nothing is passed.
LEMMA Begins ==
  ASSUME Init
  PROVE  /\ Place /\ RowsOK /\ chain = << >> /\ Handled = 0 /\ failures = 0 /\ crashes = 0
         /\ \A k \in DOMAIN chain : FALSE
         /\ \A b : UpTo(chain, b) = 0
<1>1. /\ chain = << >> /\ head = 0 /\ pc = "down" /\ lastProcessedBlock = 0 /\ toBlock = 0 /\ at = 0
      /\ todo = << >> /\ storedBlock = 0
  BY DEF Init, ChainInit
<1>2. \A k \in DOMAIN chain : FALSE
  BY <1>1
<1>3. \A b : UpTo(chain, b) = 0
  <2> TAKE b
  <2>1. {k \in DOMAIN chain : chain[k].blockNumber <= b} = {}
    BY <1>2
  <2> QED BY <2>1, FS_EmptySet DEF UpTo
<1>4. ChainOK(chain, head)
  BY <1>1, EmptyLog
<1>5. ProcessOK
  BY <1>1 DEF ProcessOK
<1>6. Handled = 0
  BY <1>1, <1>3, Translation DEF Handled
<1>7. RowsOK
  BY DEF Init, RowsOK, IntentRow, BidStatus, SolverRow
<1>8. failures = 0 /\ crashes = 0
  BY DEF Init
<1> QED BY <1>1, <1>2, <1>3, <1>4, <1>5, <1>6, <1>7, <1>8 DEF Place

\* What holds of the process and the types of the tables in every state.
Sound == Place /\ RowsOK /\ ClosedRight

\* Nothing breaks it.
LEMMA SoundStep == Sound /\ [Next]_vars => Sound'
<1>1. ASSUME Place, [Next]_vars PROVE Place'
  BY <1>1, Steps, QueryStep DEF OtherStep
<1> QED BY <1>1, RowsStep, ClosedStep DEF Sound

\* From the start it holds.
LEMMA SoundInit == Init => Sound
<1> SUFFICES ASSUME Init PROVE Sound
  OBVIOUS
<1>1. \A i \in IntentId : intentRows[i].status = "none"
  BY DEF Init
<1> QED BY <1>1, Begins DEF Sound, ClosedRight

\* Place, tables and closed rows are as described in every state.
THEOREM AlwaysSound == Spec => []Sound
<1> QED BY SoundInit, SoundStep, PTL DEF Spec

\* A row never leaves a status that is final on chain, whatever is replayed.
THEOREM FinalRowsAlwaysStay == Spec => FinalRowsStay
<1>1. Sound /\ [Next]_vars =>
        [\A i \in IntentId : intentRows[i].status \in {"FILLED", "CANCELLED"} =>
           intentRows'[i].status = intentRows[i].status]_vars
  BY ClosedStep DEF Sound
<1> QED BY <1>1, AlwaysSound, PTL DEF Spec, FinalRowsStay

----------------------------------------------------------------------------
(* How many fill rows there are.                                           *)

\* The next query is not passed yet, and those before it in the handler are.
LEMMA NextIsLeft ==
  ASSUME Place, pc = "routing", todo # << >>
  PROVE  /\ \A k \in Nat : \A q : k = at /\ Do(q) => ~Passed(k, q)
         /\ \A k \in Nat : k = at /\ Do("countFill") => Passed(k, "insertFill")
         /\ \A k \in Nat : k > at => \A q : ~Passed(k, q)
<1>1. /\ at \in Nat /\ at = Handled + 1 /\ Handled \in Nat /\ chain[at].name \in Names
      /\ todo \in Stages(chain[at].name)
  BY AtHand, HandledRange DEF EventType, Place, ProcessOK
<1>2. Left(Head(todo), todo)
  BY <1>1, StageStep
<1>3. Head(todo) = "countFill" => ~Left("insertFill", todo)
  <2> SUFFICES ASSUME Head(todo) = "countFill" PROVE ~Left("insertFill", todo)
    OBVIOUS
  <2>1. chain[at].name = "IntentFilled"
    BY QueryEvent
  <2>2. todo \in {<<"insertFill", "setFilled", "countFill", "recordReceipt">>,
                  <<"setFilled", "countFill", "recordReceipt">>,
                  <<"countFill", "recordReceipt">>, <<"recordReceipt">>}
    BY <1>1, <2>1, StageTable
  <2>3. todo = <<"countFill", "recordReceipt">>
    BY <2>2
  <2> QED BY <2>3, LeftIn
<1> QED BY <1>1, <1>2, <1>3 DEF Passed, Do

\* A query that fails passes the other queries of its event, and nothing else.
LEMMA FailurePasses ==
  ASSUME Place, QueryFails
  PROVE  /\ \A k \in DOMAIN chain : \A q \in Tasks(chain[k].name) :
              k = at /\ q # "recordReceipt" => Passed(k, q)'
         /\ \A k \in DOMAIN chain : \A q \in Tasks(chain[k].name) :
              k # at /\ Passed(k, q)' => Passed(k, q)
<1> DEFINE rest == IF Head(todo) = "recordReceipt" THEN << >> ELSE <<"recordReceipt">>
<1>a. pc = "routing" /\ todo # << >> /\ Continue(rest)
  BY DEF QueryFails
<1>b. chain[at].name \in Names /\ todo \in Stages(chain[at].name)
  BY <1>a, AtHand DEF EventType
<1>c. Left("recordReceipt", todo)
  BY <1>b, StageStep
<1>1. <<"recordReceipt">> \in Stages(chain[at].name)
  BY <1>b, StageTable DEF Names, Ends
<1>2. rest = << >> \/ rest = <<"recordReceipt">>
  OBVIOUS
<1> HIDE DEF rest
<1>3. \A q : Left(q, rest) => q = "recordReceipt"
  <2>1. CASE rest = << >>
    BY <2>1 DEF Left
  <2>2. CASE rest = <<"recordReceipt">>
    BY <2>2, LeftIn
  <2> QED BY <1>2, <2>1, <2>2
<1>4. \A q : Left(q, rest) => Left(q, todo)
  BY <1>c, <1>3
<1>5. rest # << >> => rest \in Stages(chain[at].name)
  BY <1>1, <1>2
<1>6. \A k \in DOMAIN chain : \A q \in Tasks(chain[k].name) :
        Passed(k, q)' <=> Passed(k, q) \/ (k = at /\ ~Left(q, rest)) \/ (k = at /\ rest = << >>)
  BY <1>a, <1>4, <1>5, ContinuePasses
<1> QED BY <1>3, <1>6

\* Intent i is filled and this life of the process is past the insertion of its row.
Inserted(i) ==
  \E k \in DOMAIN chain : Is(chain[k], "IntentFilled", i) /\ Passed(k, "insertFill")

\* An intent has a row for each crash at most, and one more once it is inserted
\* in this life.
FillsCounted ==
  \A i \in IntentId :
    Cardinality(FillRowsOf(i)) <= crashes + (IF pc # "down" /\ Inserted(i) THEN 1 ELSE 0)

\* A row was inserted that is not counted yet.
Owed ==
  \E k \in DOMAIN chain :
    chain[k].name = "IntentFilled" /\ Passed(k, "insertFill") /\ ~Passed(k, "countFill")

Credits == SumOver([s \in Solver |-> solverRows[s].fills], Solver)

\* The fills credited have rows, and so has the one owed.
CreditsCovered == Credits + (IF Owed THEN 1 ELSE 0) <= Len(fillRows)

\* What filling tells of its event.
LEMMA FilledTasks ==
  ASSUME Place
  PROVE  \A k \in DOMAIN chain : chain[k].name = "IntentFilled" =>
           "insertFill" \in Tasks(chain[k].name) /\ "countFill" \in Tasks(chain[k].name)
           /\ k \in Nat
<1>1. chain \in Seq(EventType)
  BY DEF Place, ChainOK
<1> QED BY <1>1, TaskTable

\* The rows of an intent are finitely many, and one more after an insertion.
LEMMA FillRowsGrow ==
  ASSUME RowsOK, NEW i, NEW row \in FillRow
  PROVE  /\ Cardinality(FillRowsOf(i)) \in Nat
         /\ fillRows' = Append(fillRows, row) =>
              Cardinality(FillRowsOf(i)') <= Cardinality(FillRowsOf(i)) + (IF row.intentId = i THEN 1 ELSE 0)
<1>1. fillRows \in Seq(FillRow) /\ Len(fillRows) \in Nat /\ DOMAIN fillRows = 1..Len(fillRows)
  BY DEF RowsOK
<1>2. IsFiniteSet(1..Len(fillRows))
  BY <1>1, FS_Interval
<1>3. IsFiniteSet(FillRowsOf(i))
  <2>1. FillRowsOf(i) \subseteq 1..Len(fillRows)
    BY <1>1 DEF FillRowsOf
  <2> QED BY <1>2, <2>1, FS_Subset
<1>4. Cardinality(FillRowsOf(i)) \in Nat
  BY <1>3, FS_CardinalityType
<1>5. ASSUME fillRows' = Append(fillRows, row)
      PROVE  Cardinality(FillRowsOf(i)') <= Cardinality(FillRowsOf(i)) + (IF row.intentId = i THEN 1 ELSE 0)
  <2>1. /\ DOMAIN fillRows' = 1..(Len(fillRows) + 1) /\ fillRows'[Len(fillRows) + 1] = row
        /\ \A n \in DOMAIN fillRows : fillRows'[n] = fillRows[n] /\ n \in DOMAIN fillRows'
        /\ \A n \in DOMAIN fillRows' : n \in DOMAIN fillRows \/ n = Len(fillRows) + 1
        /\ Len(fillRows) + 1 \in DOMAIN fillRows'
    BY <1>1, <1>5, Appended
  <2>2. CASE row.intentId = i
    <3>1. FillRowsOf(i)' = FillRowsOf(i) \cup {Len(fillRows) + 1}
      BY <2>1, <2>2 DEF FillRowsOf
    <3>2. Len(fillRows) + 1 \notin FillRowsOf(i)
      BY <1>1 DEF FillRowsOf
    <3>3. Cardinality(FillRowsOf(i)') = Cardinality(FillRowsOf(i)) + 1
      BY <1>3, <3>1, <3>2, FS_AddElement
    <3> QED BY <1>4, <2>2, <3>3
  <2>3. CASE row.intentId # i
    <3>1. FillRowsOf(i)' = FillRowsOf(i)
      BY <2>1, <2>3 DEF FillRowsOf
    <3> QED BY <1>4, <2>3, <3>1
  <2> QED BY <2>2, <2>3
<1> QED BY <1>4, <1>5

\* A step adds a row to an intent only with a crash before, or for the first time
\* in this life.
LEMMA FillsCountedStep ==
  ASSUME Place, RowsOK, FillsCounted, [Next]_vars
  PROVE  FillsCounted'
<1> SUFFICES ASSUME NEW i \in IntentId
             PROVE  Cardinality(FillRowsOf(i)') <=
                      crashes' + (IF pc' # "down" /\ Inserted(i)' THEN 1 ELSE 0)
  BY DEF FillsCounted
<1>a. /\ Cardinality(FillRowsOf(i)) \in Nat /\ crashes \in Nat
      /\ Cardinality(FillRowsOf(i)) <= crashes + (IF pc # "down" /\ Inserted(i) THEN 1 ELSE 0)
  <2>1. \E row : row \in FillRow
    <3>1. [intentId |-> i, proof |-> FALSE] \in FillRow
      BY DEF FillRow
    <3> QED BY <3>1
  <2> QED BY <2>1, FillRowsGrow DEF FillsCounted, RowsOK
<1>b. \A k \in DOMAIN chain : chain[k].name = "IntentFilled" =>
        "insertFill" \in Tasks(chain[k].name) /\ k \in Nat
  BY FilledTasks
<1>1. CASE OtherStep
  <2>1. FillRowsOf(i)' = FillRowsOf(i)
    BY <1>1 DEF OtherStep, FillRowsOf
  <2>2. CASE pc' # "down"
    <3>1. ASSUME pc # "down", Inserted(i) PROVE Inserted(i)'
      <4>1. PICK k \in DOMAIN chain : Is(chain[k], "IntentFilled", i) /\ Passed(k, "insertFill")
        BY <3>1 DEF Inserted
      <4>2. Is(chain'[k], "IntentFilled", i) /\ k \in DOMAIN chain' /\ Passed(k, "insertFill")'
        BY <1>1, <1>b, <2>2, <4>1 DEF OtherStep, Is
      <4> QED BY <4>2 DEF Inserted
    <3>2. crashes' = crashes
      BY <1>1, <2>2 DEF OtherStep
    <3>3. CASE pc # "down" /\ Inserted(i)
      BY <1>a, <2>1, <2>2, <3>1, <3>2, <3>3
    <3>4. CASE ~(pc # "down" /\ Inserted(i))
      <4>1. Cardinality(FillRowsOf(i)') <= crashes'
        BY <1>a, <2>1, <3>2, <3>4
      <4> QED BY <1>a, <3>2, <4>1, <2>1
    <3> QED BY <3>3, <3>4
  <2>3. CASE pc' = "down"
    <3>1. crashes' = IF pc # "down" THEN crashes + 1 ELSE crashes
      BY <1>1, <2>3 DEF OtherStep
    <3> QED BY <1>a, <2>1, <2>3, <3>1
  <2> QED BY <2>2, <2>3
<1>2. CASE RunQuery
  <2>a. /\ pc = "routing" /\ pc' = pc /\ todo # << >> /\ chain' = chain /\ crashes' = crashes
        /\ \A k \in DOMAIN chain : \A q \in Tasks(chain[k].name) : Passed(k, q) => Passed(k, q)'
    BY <1>2, QueryStep, RunContinues
  <2>b. Inserted(i) => Inserted(i)'
    <3> SUFFICES ASSUME Inserted(i) PROVE Inserted(i)'
      OBVIOUS
    <3>1. PICK k \in DOMAIN chain : Is(chain[k], "IntentFilled", i) /\ Passed(k, "insertFill")
      BY DEF Inserted
    <3>2. Passed(k, "insertFill")'
      BY <1>b, <2>a, <3>1 DEF Is
    <3> QED BY <2>a, <3>1, <3>2 DEF Inserted
  <2>1. CASE Do("insertFill") /\ ~QueryFails /\ chain[at].intentId = i
    <3> DEFINE row == [intentId |-> chain[at].intentId, proof |-> FALSE]
    <3>1. at \in DOMAIN chain /\ chain[at].name = "IntentFilled" /\ row \in FillRow /\ row.intentId = i
      BY <2>1, <2>a, EventAt, QueryEvent DEF Do, FillRow
    <3>2. fillRows' = Append(fillRows, row)
      BY <1>2, <2>1, FillRowsStep DEF FillRowsMove
    <3> HIDE DEF row
    <3>3. Cardinality(FillRowsOf(i)') <= Cardinality(FillRowsOf(i)) + 1 /\ Cardinality(FillRowsOf(i)') \in Nat
      <4>1. Cardinality(FillRowsOf(i)') <= Cardinality(FillRowsOf(i)) + 1
        BY <3>1, <3>2, FillRowsGrow
      <4>2. RowsOK'
        BY RowsStep
      <4>3. fillRows' \in Seq(FillRow) /\ IsFiniteSet(1..Len(fillRows'))
        <5>1. fillRows' \in Seq(FillRow)
          BY <4>2 DEF RowsOK
        <5>2. Len(fillRows') \in Int
          BY <5>1
        <5> QED BY <5>1, <5>2, FS_Interval
      <4>4. FillRowsOf(i)' \subseteq 1..Len(fillRows')
        BY <4>3 DEF FillRowsOf
      <4> QED BY <4>1, <4>3, <4>4, FS_Subset, FS_CardinalityType
    <3>4. ~Inserted(i)
      <4> SUFFICES ASSUME NEW k \in DOMAIN chain, Is(chain[k], "IntentFilled", i), Passed(k, "insertFill")
                   PROVE  FALSE
        BY DEF Inserted
      <4>1. k = at
        <5>1. EndsOnce(chain)
          BY DEF Place, ChainOK
        <5> QED BY <2>1, <3>1, <5>1 DEF EndsOnce, Ends, Is
      <4> QED BY <1>b, <2>1, <2>a, <4>1, NextIsLeft DEF Is
    <3>5. Inserted(i)'
      <4>1. PICK k \in DOMAIN chain : k = at
        BY <3>1
      <4>2. failures' = failures
        BY <1>2, <2>1, FailureCounts DEF RowsOK
      <4>3. Passed(k, "insertFill")'
        BY <1>2, <1>b, <2>1, <3>1, <4>1, <4>2, QueryStep
      <4> QED BY <2>1, <2>a, <3>1, <4>1, <4>3 DEF Inserted, Is
    <3> QED BY <1>a, <2>a, <3>3, <3>4, <3>5
  <2>2. CASE ~(Do("insertFill") /\ ~QueryFails /\ chain[at].intentId = i)
    <3>1. Cardinality(FillRowsOf(i)') = Cardinality(FillRowsOf(i))
      <4>1. CASE DOMAIN fillRows' = DOMAIN fillRows
                 /\ \A n \in DOMAIN fillRows : fillRows'[n].intentId = fillRows[n].intentId
        BY <4>1 DEF FillRowsOf
      <4>2. CASE Do("insertFill") /\ ~QueryFails
                 /\ fillRows' = Append(fillRows, [intentId |-> chain[at].intentId, proof |-> FALSE])
        <5> DEFINE row == [intentId |-> chain[at].intentId, proof |-> FALSE]
        <5>1. row.intentId # i
          BY <2>2, <4>2
        <5>2. fillRows \in Seq(FillRow) /\ row \in FillRow
          BY <2>a, EventAt DEF RowsOK, FillRow
        <5> HIDE DEF row
        <5>3. /\ fillRows'[Len(fillRows) + 1] = row
              /\ \A n \in DOMAIN fillRows : fillRows'[n] = fillRows[n] /\ n \in DOMAIN fillRows'
              /\ \A n \in DOMAIN fillRows' : n \in DOMAIN fillRows \/ n = Len(fillRows) + 1
          <6>1. fillRows' = Append(fillRows, row)
            BY <4>2 DEF row
          <6>2. /\ DOMAIN fillRows = 1..Len(fillRows) /\ Len(fillRows) \in Nat
                /\ DOMAIN Append(fillRows, row) = 1..(Len(fillRows) + 1)
                /\ Append(fillRows, row)[Len(fillRows) + 1] = row
                /\ \A n \in DOMAIN fillRows : Append(fillRows, row)[n] = fillRows[n]
            BY <5>2, Appended
          <6> QED BY <6>1, <6>2
        <5>4. FillRowsOf(i)' = FillRowsOf(i)
          BY <5>1, <5>3 DEF FillRowsOf
        <5> QED BY <5>4
      <4> QED BY <1>2, <4>1, <4>2, FillRowsStep DEF FillRowsMove
    <3> QED BY <1>a, <2>a, <2>b, <3>1
  <2> QED BY <2>1, <2>2
<1> QED BY <1>1, <1>2, Steps

\* What is owed after a query was owed before, or is the fill just inserted.
LEMMA OwedStep ==
  ASSUME Place, RowsOK, RunQuery
  PROVE  /\ Owed' => Owed \/ (Do("insertFill") /\ ~QueryFails)
         /\ Do("countFill") /\ ~QueryFails => Owed /\ ~Owed'
<1>a. /\ pc = "routing" /\ todo # << >> /\ chain' = chain
      /\ \A k \in DOMAIN chain : \A q \in Tasks(chain[k].name) : Passed(k, q) => Passed(k, q)'
  BY QueryStep, RunContinues
<1>b. \A k \in DOMAIN chain : chain[k].name = "IntentFilled" =>
        "insertFill" \in Tasks(chain[k].name) /\ "countFill" \in Tasks(chain[k].name) /\ k \in Nat
  BY FilledTasks
<1>c. ~QueryFails => failures' = failures
  BY FailureCounts DEF RowsOK
<1>1. ASSUME NEW k \in DOMAIN chain, chain[k].name = "IntentFilled",
             Passed(k, "insertFill")', ~Passed(k, "countFill")'
      PROVE  /\ ~Passed(k, "countFill")
             /\ Passed(k, "insertFill") \/ (k = at /\ Do("insertFill") /\ ~QueryFails)
  <2>1. ~Passed(k, "countFill")
    BY <1>1, <1>a, <1>b
  <2>2. CASE QueryFails
    <3>1. k # at
      BY <1>1, <1>b, <2>2, FailurePasses
    <3>2. Passed(k, "insertFill")
      BY <1>1, <1>b, <2>2, <3>1, FailurePasses
    <3> QED BY <2>1, <3>2
  <2>3. CASE ~QueryFails
    <3>1. Passed(k, "insertFill") \/ (k = at /\ Do("insertFill"))
      BY <1>1, <1>b, <1>c, <2>3, QueryStep
    <3> QED BY <2>1, <2>3, <3>1
  <2> QED BY <2>2, <2>3
<1>2. ASSUME NEW k \in DOMAIN chain, chain[k].name = "IntentFilled",
             Passed(k, "insertFill"), ~Passed(k, "countFill")
      PROVE  k = at
  BY <1>2 DEF Passed
<1>3. Owed' => Owed \/ (Do("insertFill") /\ ~QueryFails)
  BY <1>1, <1>a DEF Owed
<1>4. ASSUME Do("countFill"), ~QueryFails PROVE Owed /\ ~Owed'
  <2>1. at \in DOMAIN chain /\ chain[at].name = "IntentFilled"
    BY <1>4, <1>a, EventAt, QueryEvent DEF Do
  <2>2. PICK k \in DOMAIN chain : k = at
    BY <2>1
  <2>3. /\ k \in Nat /\ chain[k].name = "IntentFilled"
        /\ "insertFill" \in Tasks(chain[k].name) /\ "countFill" \in Tasks(chain[k].name)
    BY <1>b, <2>1, <2>2
  <2>4. Passed(k, "insertFill") /\ ~Passed(k, "countFill")
    BY <1>4, <1>a, <2>2, <2>3, NextIsLeft
  <2>5. Passed(k, "countFill")'
    BY <1>4, <1>c, <2>2, <2>3, QueryStep
  <2>6. ASSUME NEW j \in DOMAIN chain, chain[j].name = "IntentFilled",
               Passed(j, "insertFill")', ~Passed(j, "countFill")'
        PROVE  FALSE
    <3>1. ~Do("insertFill")
      BY <1>4 DEF Do
    <3>2. j = at
      BY <1>1, <1>2, <2>6, <3>1
    <3> QED BY <2>2, <2>5, <2>6, <3>2
  <2>7. ~Owed'
    BY <1>a, <2>6 DEF Owed
  <2> QED BY <2>3, <2>4, <2>7 DEF Owed
<1> QED BY <1>3, <1>4

\* Nothing is owed after another step that was not before.
LEMMA OwedRests ==
  ASSUME Place, OtherStep
  PROVE  Owed' => Owed
<1> SUFFICES ASSUME NEW k \in DOMAIN chain', chain'[k].name = "IntentFilled",
                    Passed(k, "insertFill")', ~Passed(k, "countFill")'
             PROVE  Owed
  BY DEF Owed
<1>1. k \in DOMAIN chain /\ chain[k].name = "IntentFilled"
  BY DEF OtherStep
<1>2. "insertFill" \in Tasks(chain[k].name) /\ "countFill" \in Tasks(chain[k].name)
  BY <1>1, FilledTasks
<1>3. Passed(k, "insertFill")
  BY <1>1, <1>2 DEF OtherStep
<1>4. CASE pc' = "down"
  BY <1>4, PassedAfter
<1>5. CASE pc' # "down"
  <2>1. ~Passed(k, "countFill")
    BY <1>1, <1>2, <1>5 DEF OtherStep
  <2> QED BY <1>1, <1>3, <2>1 DEF Owed
<1> QED BY <1>4, <1>5

\* What the solvers are credited with grows by one at most, when a fill is counted.
LEMMA CreditsStep ==
  ASSUME Place, RowsOK, RunQuery
  PROVE  /\ Credits \in Nat
         /\ \/ Credits' = Credits
            \/ Do("countFill") /\ ~QueryFails /\ Credits' <= Credits + 1
<1> DEFINE f == [s \in Solver |-> solverRows[s].fills]
           g == [s \in Solver |-> solverRows'[s].fills]
<1>1. IsFiniteSet(Solver)
  BY ChainAssumption
<1>2. Credits = SumOver(f, Solver) /\ Credits' = SumOver(g, Solver)
  BY DEF Credits
<1>3. \A s \in Solver : f[s] = solverRows[s].fills /\ g[s] = solverRows'[s].fills
  OBVIOUS
<1>4. SolverRowsMove
  BY SolverRowsStep
<1>5. \A s \in Solver : solverRows[s].fills \in Nat /\ solverRows'[s].fills \in Nat
  <2>1. \A s \in Solver : solverRows[s] \in SolverRow /\ solverRows'[s] \in SolverRow
    BY <1>4 DEF RowsOK, SolverRowsMove
  <2> QED BY <2>1 DEF SolverRow
<1>6. Credits \in Nat
  <2>1. \A s \in Solver : f[s] \in Nat
    BY <1>3, <1>5
  <2> HIDE DEF f
  <2> QED BY <1>1, <1>2, <2>1, SumType
<1>7. CASE solverRows' = solverRows
  <2>1. Credits' = Credits
    BY <1>7 DEF Credits
  <2> QED BY <1>6, <2>1
<1>8. CASE /\ Do("countFill") /\ ~QueryFails
           /\ \A s \in Solver : solverRows'[s].fills =
                solverRows[s].fills + (IF s \in chain[at].solver THEN 1 ELSE 0)
  <2>1. /\ at \in DOMAIN chain /\ chain[at].solver \in SUBSET Solver
        /\ \A s, t \in chain[at].solver : s = t
    <3>1. pc = "routing" /\ todo # << >>
      BY RunContinues
    <3>2. at \in DOMAIN chain /\ chain[at].solver \in SUBSET Solver
      BY <3>1, EventAt
    <3> QED BY <3>2 DEF Place, ChainOK, OneSolver
  <2>2. CASE chain[at].solver = {}
    <3>1. \A s \in Solver : f[s] = g[s]
      BY <1>3, <1>5, <1>8, <2>2
    <3> HIDE DEF f, g
    <3>2. SumOver(f, Solver) = SumOver(g, Solver)
      BY <1>1, <3>1, SumEqual
    <3> QED BY <1>2, <1>6, <3>2
  <2>3. CASE chain[at].solver # {}
    <3>1. PICK s \in Solver : s \in chain[at].solver /\ \A t \in Solver : t \in chain[at].solver => t = s
      BY <2>1, <2>3
    <3>2. g[s] = f[s] + 1 /\ f[s] \in Int /\ \A t \in Solver : f[t] \in Int /\ g[t] \in Int
      BY <1>3, <1>5, <1>8, <3>1
    <3>3. \A t \in Solver \ {s} : f[t] = g[t]
      BY <1>3, <1>5, <1>8, <3>1
    <3> HIDE DEF f, g
    <3>4. SumOver(g, Solver) = SumOver(f, Solver) - f[s] + g[s]
      BY <1>1, <3>2, <3>3, SumChange
    <3>5. Credits' = Credits + 1
      BY <1>2, <1>6, <3>2, <3>4
    <3> QED BY <1>6, <1>8, <3>5
  <2> QED BY <2>2, <2>3
<1> QED BY <1>4, <1>7, <1>8 DEF SolverRowsMove

\* A step credits nobody with a fill that has no row.
LEMMA CreditsCoveredStep ==
  ASSUME Place, RowsOK, CreditsCovered, [Next]_vars
  PROVE  CreditsCovered'
<1>a. fillRows \in Seq(FillRow) /\ Len(fillRows) \in Nat
  BY DEF RowsOK
<1>1. CASE OtherStep
  <2>1. solverRows' = solverRows /\ fillRows' = fillRows
    BY <1>1 DEF OtherStep
  <2>2. Credits' = Credits /\ (Owed' => Owed)
    BY <1>1, <2>1, OwedRests DEF Credits
  <2>3. Credits \in Nat
    <3> DEFINE f == [s \in Solver |-> solverRows[s].fills]
    <3>1. \A s \in Solver : f[s] \in Nat
      BY DEF RowsOK, SolverRow
    <3>2. Credits = SumOver(f, Solver)
      BY DEF Credits
    <3> HIDE DEF f
    <3> QED BY <3>1, <3>2, SumType, ChainAssumption
  <2>4. Credits + (IF Owed' THEN 1 ELSE 0) <= Len(fillRows)
    BY <1>a, <2>2, <2>3 DEF CreditsCovered
  <2> QED BY <2>1, <2>2, <2>4 DEF CreditsCovered
<1>2. CASE RunQuery
  <2>1. /\ Credits \in Nat
        /\ \/ Credits' = Credits
           \/ Do("countFill") /\ ~QueryFails /\ Credits' <= Credits + 1
    BY <1>2, CreditsStep
  <2>2. /\ Owed' => Owed \/ (Do("insertFill") /\ ~QueryFails)
        /\ Do("countFill") /\ ~QueryFails => Owed /\ ~Owed'
    BY <1>2, OwedStep
  <2>3. Credits' \in Nat
    <3> DEFINE f == [s \in Solver |-> solverRows'[s].fills]
    <3>1. RowsOK'
      BY RowsStep
    <3>2. \A s \in Solver : f[s] \in Nat
      BY <3>1 DEF RowsOK, SolverRow
    <3>3. Credits' = SumOver(f, Solver)
      BY DEF Credits
    <3> HIDE DEF f
    <3> QED BY <3>2, <3>3, SumType, ChainAssumption
  <2>4. CASE Do("insertFill") /\ ~QueryFails
    <3>1. Len(fillRows') = Len(fillRows) + 1
      <4>1. fillRows' = Append(fillRows, [intentId |-> chain[at].intentId, proof |-> FALSE])
        BY <1>2, <2>4, FillRowsStep DEF FillRowsMove
      <4> QED BY <1>a, <4>1
    <3>2. Credits' = Credits
      BY <2>1, <2>4 DEF Do
    <3>3. Credits <= Len(fillRows)
      BY <1>a, <2>1 DEF CreditsCovered
    <3> QED BY <1>a, <2>1, <3>1, <3>2, <3>3 DEF CreditsCovered
  <2>5. CASE ~(Do("insertFill") /\ ~QueryFails)
    <3>1. Len(fillRows') = Len(fillRows)
      <4>1. DOMAIN fillRows' = DOMAIN fillRows /\ fillRows' \in Seq(FillRow)
        BY <1>2, <2>5, FillRowsStep DEF FillRowsMove
      <4> QED BY <1>a, <4>1
    <3>2. CASE Credits' = Credits /\ (Owed' => Owed)
      <4>1. Credits + (IF Owed' THEN 1 ELSE 0) <= Len(fillRows)
        BY <1>a, <2>1, <3>2 DEF CreditsCovered
      <4> QED BY <3>1, <3>2, <4>1 DEF CreditsCovered
    <3>3. CASE Do("countFill") /\ ~QueryFails /\ Credits' <= Credits + 1
      <4>1. Owed /\ ~Owed'
        BY <2>2, <3>3
      <4>2. Credits + 1 <= Len(fillRows)
        BY <4>1 DEF CreditsCovered
      <4>3. Credits' <= Len(fillRows)
        BY <1>a, <2>1, <2>3, <3>3, <4>2
      <4> QED BY <2>3, <3>1, <4>1, <4>3 DEF CreditsCovered
    <3> QED BY <2>1, <2>2, <2>5, <3>2, <3>3
  <2> QED BY <2>4, <2>5
<1> QED BY <1>1, <1>2, Steps

\* Both counts hold from the start.
LEMMA FillsInit == Init => FillsCounted /\ CreditsCovered
<1> SUFFICES ASSUME Init PROVE FillsCounted /\ CreditsCovered
  OBVIOUS
<1>1. \A k \in DOMAIN chain : FALSE
  BY Begins
<1>2. fillRows = << >> /\ crashes = 0 /\ \A s \in Solver : solverRows[s].fills = 0
  BY DEF Init
<1>3. FillsCounted
  <2>1. \A i : FillRowsOf(i) = {}
    BY <1>2 DEF FillRowsOf
  <2>2. \A i : Cardinality(FillRowsOf(i)) = 0
    BY <2>1, FS_EmptySet
  <2>3. \A i : ~Inserted(i)
    BY <1>1 DEF Inserted
  <2> QED BY <1>2, <2>2, <2>3 DEF FillsCounted
<1>4. CreditsCovered
  <2> DEFINE f == [s \in Solver |-> solverRows[s].fills]
  <2>1. \A s \in Solver : f[s] = 0
    BY <1>2
  <2>2. Credits = SumOver(f, Solver)
    BY DEF Credits
  <2> HIDE DEF f
  <2>3. Credits = 0
    BY <2>1, <2>2, SumZero, ChainAssumption
  <2>4. ~Owed
    BY <1>1 DEF Owed
  <2> QED BY <1>2, <2>3, <2>4 DEF CreditsCovered
<1> QED BY <1>3, <1>4

\* The counts bound the fill rows of an intent and the credits of the solvers.
LEMMA FillsCover ==
  ASSUME RowsOK, FillsCounted, CreditsCovered
  PROVE  FillsBounded
<1>1. ASSUME NEW i \in IntentId PROVE Cardinality(FillRowsOf(i)) <= crashes + 1
  <2>1. [intentId |-> i, proof |-> FALSE] \in FillRow
    BY DEF FillRow
  <2>2. Cardinality(FillRowsOf(i)) \in Nat /\ crashes \in Nat
    BY <2>1, FillRowsGrow DEF RowsOK
  <2> QED BY <2>2 DEF FillsCounted
<1>2. Credits <= Len(fillRows)
  <2> DEFINE f == [s \in Solver |-> solverRows[s].fills]
  <2>1. \A s \in Solver : f[s] \in Nat
    BY DEF RowsOK, SolverRow
  <2>2. Credits = SumOver(f, Solver)
    BY DEF Credits
  <2> HIDE DEF f
  <2>3. Credits \in Nat /\ Len(fillRows) \in Nat
    BY <2>1, <2>2, SumType, ChainAssumption DEF RowsOK
  <2> QED BY <2>3 DEF CreditsCovered
<1> QED BY <1>1, <1>2 DEF FillsBounded, Credits

\* An intent has at most one fill row more than there were crashes, and a solver
\* is never credited with a fill that has no row.
THEOREM FillsAlwaysBounded == Spec => []FillsBounded
<1> DEFINE Inv == FillsCounted /\ CreditsCovered
<1>1. Init => Inv
  BY FillsInit
<1>2. Sound /\ Inv /\ [Next]_vars => Inv'
  BY FillsCountedStep, CreditsCoveredStep DEF Sound
<1>3. Sound /\ Inv => FillsBounded
  BY FillsCover DEF Sound
<1> QED BY <1>1, <1>2, <1>3, AlwaysSound, PTL DEF Spec

----------------------------------------------------------------------------
(* What the tables have of the events passed, if no query failed.          *)

\* Every receipt, bid, fill, proof and reserved metadata that was passed is in its table.
Receipted == \A k \in DOMAIN chain : Passed(k, "recordReceipt") =>
  \E n \in DOMAIN receiptEvents : receiptEvents[n] = k

BidsIn == \A k \in DOMAIN chain :
  chain[k].name = "SolverBidSubmitted" /\ Passed(k, "upsertBid") =>
    bidRows[chain[k].intentId][chain[k].bidId] # "none"

FillsIn == \A k \in DOMAIN chain :
  chain[k].name = "IntentFilled" /\ Passed(k, "insertFill") =>
    \E n \in DOMAIN fillRows : fillRows[n].intentId = chain[k].intentId

ProofsIn == \A k \in DOMAIN chain :
  chain[k].name = "IntentFillProof" /\ Passed(k, "proveFills") =>
    \A n \in DOMAIN fillRows : fillRows[n].intentId = chain[k].intentId => fillRows[n].proof

MetadataIn == \A k \in DOMAIN chain :
  /\ chain[k].name = "IntentSubmitted" /\ Passed(k, "copyMetadata")
  /\ pendingMetadata[chain[k].intentId] = "reserved"
  => intentMetadata[chain[k].intentId] # "none"

\* The event k changes the status of intent i, and its row was told.
Told(k, i) ==
  \/ Is(chain[k], "IntentSubmitted", i) /\ Passed(k, "upsertIntent")
  \/ Is(chain[k], "IntentFilled", i) /\ Passed(k, "setFilled")
  \/ Is(chain[k], "IntentCancelled", i) /\ Passed(k, "setCancelled")

\* The status in the row of intent i is of a point of the log that is no earlier
\* than the events its row was told of.
StatusOf(i, n) ==
  /\ intentRows[i].status = StatusIn(chain, n, i)
  /\ \A k \in DOMAIN chain : Told(k, i) => k <= n

StatusKept == \A i \in IntentId : \E n \in 0..UpTo(chain, head) : StatusOf(i, n)

\* A query that is newly passed was just done, and none failed.
LEMMA NewlyPassed ==
  ASSUME Place, RowsOK, RunQuery, failures = 0, failures' = 0
  PROVE  /\ ~QueryFails /\ failures' = failures /\ pc = "routing" /\ todo # << >>
         /\ chain' = chain /\ head' = head /\ pendingMetadata' = pendingMetadata
         /\ \A k \in DOMAIN chain : \A q \in Tasks(chain[k].name) :
              Passed(k, q)' => Passed(k, q) \/ (k = at /\ Do(q))
<1>1. ~QueryFails /\ failures' = failures
  BY FailureCounts DEF RowsOK
<1> QED BY <1>1, QueryStep, RunContinues

\* Some query failed if it failed before.
LEMMA FailuresStay ==
  ASSUME Place, RowsOK, [Next]_vars, failures' = 0
  PROVE  failures = 0
<1>1. CASE OtherStep
  BY <1>1 DEF OtherStep
<1>2. CASE RunQuery
  BY <1>2, FailureCounts DEF RowsOK
<1> QED BY <1>1, <1>2, Steps

\* The tasks that belong to the events the tables are made of.
LEMMA EventTasks ==
  ASSUME Place
  PROVE  \A k \in DOMAIN chain :
           /\ "recordReceipt" \in Tasks(chain[k].name)
           /\ chain[k].name = "SolverBidSubmitted" => "upsertBid" \in Tasks(chain[k].name)
           /\ chain[k].name = "SolverBidSelected" => "selectBid" \in Tasks(chain[k].name)
           /\ chain[k].name = "IntentFilled" => "insertFill" \in Tasks(chain[k].name)
           /\ chain[k].name = "IntentFilled" => "setFilled" \in Tasks(chain[k].name)
           /\ chain[k].name = "IntentFillProof" => "proveFills" \in Tasks(chain[k].name)
           /\ chain[k].name = "IntentSubmitted" => "copyMetadata" \in Tasks(chain[k].name)
           /\ chain[k].name = "IntentSubmitted" => "upsertIntent" \in Tasks(chain[k].name)
           /\ chain[k].name = "IntentCancelled" => "setCancelled" \in Tasks(chain[k].name)
           /\ k \in Nat /\ chain[k].intentId \in IntentId /\ chain[k].name \in Names
           /\ chain[k].name = "SolverBidSubmitted" => chain[k].bidId \in BidId
           /\ chain[k].name = "SolverBidSelected" => chain[k].bidId \in BidId
<1> SUFFICES ASSUME NEW k \in DOMAIN chain
             PROVE  /\ "recordReceipt" \in Tasks(chain[k].name)
                    /\ chain[k].name = "SolverBidSubmitted" => "upsertBid" \in Tasks(chain[k].name)
                    /\ chain[k].name = "SolverBidSelected" => "selectBid" \in Tasks(chain[k].name)
                    /\ chain[k].name = "IntentFilled" => "insertFill" \in Tasks(chain[k].name)
                    /\ chain[k].name = "IntentFilled" => "setFilled" \in Tasks(chain[k].name)
                    /\ chain[k].name = "IntentFillProof" => "proveFills" \in Tasks(chain[k].name)
                    /\ chain[k].name = "IntentSubmitted" => "copyMetadata" \in Tasks(chain[k].name)
                    /\ chain[k].name = "IntentSubmitted" => "upsertIntent" \in Tasks(chain[k].name)
                    /\ chain[k].name = "IntentCancelled" => "setCancelled" \in Tasks(chain[k].name)
                    /\ k \in Nat /\ chain[k].intentId \in IntentId /\ chain[k].name \in Names
                    /\ chain[k].name = "SolverBidSubmitted" => chain[k].bidId \in BidId
                    /\ chain[k].name = "SolverBidSelected" => chain[k].bidId \in BidId
  OBVIOUS
<1>1. chain \in Seq(EventType) /\ BidsNumbered(chain)
  BY DEF Place, ChainOK
<1>2. k \in Nat /\ chain[k] \in EventType
  BY <1>1
<1>3. chain[k].intentId \in IntentId /\ chain[k].name \in Names
  BY <1>2 DEF EventType
<1>4. chain[k].name \in {"SolverBidSubmitted", "SolverBidSelected"} => chain[k].bidId \in BidId
  BY <1>1 DEF BidsNumbered
<1> QED BY <1>2, <1>3, <1>4, TaskTable DEF Names, Ends

\* What another step leaves of an event passed.
LEMMA PassedBefore ==
  ASSUME Place, OtherStep
  PROVE  /\ UNCHANGED <<intentRows, bidRows, fillRows, solverRows, receiptEvents>>
         /\ \A k \in DOMAIN chain' : \A q : Passed(k, q)' =>
              /\ k \in DOMAIN chain /\ chain'[k] = chain[k]
              /\ q \in Tasks(chain[k].name) => Passed(k, q)
<1>1. \A k \in DOMAIN chain' : \A q : Passed(k, q)' => k \in DOMAIN chain
  BY DEF OtherStep
<1>2. \A k \in DOMAIN chain : chain'[k] = chain[k]
  BY DEF OtherStep
<1>3. \A k \in DOMAIN chain : \A q \in Tasks(chain[k].name) : Passed(k, q)' => Passed(k, q)
  BY DEF OtherStep
<1>4. UNCHANGED <<intentRows, bidRows, fillRows, solverRows, receiptEvents>>
  BY DEF OtherStep
<1> QED BY <1>1, <1>2, <1>3, <1>4

\* Receipts stay in.
LEMMA ReceiptedStep ==
  ASSUME Place, RowsOK, failures = 0, failures' = 0, Receipted, [Next]_vars
  PROVE  Receipted'
<1>a. \A k \in DOMAIN chain : "recordReceipt" \in Tasks(chain[k].name)
  BY EventTasks
<1>1. CASE OtherStep
  <2> QED BY <1>1, <1>a, PassedBefore DEF Receipted
<1>2. CASE RunQuery
  <2>1. /\ \A n \in DOMAIN receiptEvents : n \in DOMAIN receiptEvents' /\ receiptEvents'[n] = receiptEvents[n]
        /\ Do("recordReceipt") /\ ~QueryFails => \E n \in DOMAIN receiptEvents' : receiptEvents'[n] = at
    BY <1>2, ReceiptStep
  <2>2. /\ chain' = chain /\ ~QueryFails
        /\ \A k \in DOMAIN chain : \A q \in Tasks(chain[k].name) :
             Passed(k, q)' => Passed(k, q) \/ (k = at /\ Do(q))
    BY <1>2, NewlyPassed
  <2> QED BY <1>a, <2>1, <2>2 DEF Receipted
<1> QED BY <1>1, <1>2, Steps

\* Bids stay in.
LEMMA BidsInStep ==
  ASSUME Place, RowsOK, failures = 0, failures' = 0, BidsIn, [Next]_vars
  PROVE  BidsIn'
<1>a. \A k \in DOMAIN chain : chain[k].name = "SolverBidSubmitted" =>
        /\ "upsertBid" \in Tasks(chain[k].name)
        /\ chain[k].intentId \in IntentId /\ chain[k].bidId \in BidId
  BY EventTasks
<1>1. CASE OtherStep
  <2> QED BY <1>1, <1>a, PassedBefore DEF BidsIn
<1>2. CASE RunQuery
  <2>1. BidRowsMove
    BY <1>2, BidRowsStep
  <2>2. /\ chain' = chain /\ ~QueryFails
        /\ \A k \in DOMAIN chain : \A q \in Tasks(chain[k].name) :
             Passed(k, q)' => Passed(k, q) \/ (k = at /\ Do(q))
    BY <1>2, NewlyPassed
  <2>3. \A i \in IntentId : \A b \in BidId : bidRows[i][b] # "none" => bidRows'[i][b] # "none"
    BY <2>1 DEF BidRowsMove
  <2>4. Do("upsertBid") => \A i \in IntentId : \A b \in BidId :
          i = chain[at].intentId /\ b = chain[at].bidId => bidRows'[i][b] # "none"
    BY <2>1, <2>2 DEF BidRowsMove
  <2>5. ASSUME NEW k \in DOMAIN chain, chain[k].name = "SolverBidSubmitted", Passed(k, "upsertBid")'
        PROVE  bidRows'[chain[k].intentId][chain[k].bidId] # "none"
    <3>1. Passed(k, "upsertBid") \/ (k = at /\ Do("upsertBid"))
      BY <1>a, <2>2, <2>5
    <3>2. CASE Passed(k, "upsertBid")
      <4>1. bidRows[chain[k].intentId][chain[k].bidId] # "none"
        BY <2>5, <3>2 DEF BidsIn
      <4> QED BY <1>a, <2>3, <2>5, <4>1
    <3>3. CASE k = at /\ Do("upsertBid")
      BY <1>a, <2>4, <2>5, <3>3
    <3> QED BY <3>1, <3>2, <3>3
  <2> QED BY <2>2, <2>5 DEF BidsIn
<1> QED BY <1>1, <1>2, Steps

\* Fills stay in.
LEMMA FillsInStep ==
  ASSUME Place, RowsOK, failures = 0, failures' = 0, FillsIn, [Next]_vars
  PROVE  FillsIn'
<1>a. \A k \in DOMAIN chain : chain[k].name = "IntentFilled" =>
        "insertFill" \in Tasks(chain[k].name) /\ chain[k].intentId \in IntentId
  BY EventTasks
<1>1. CASE OtherStep
  <2> QED BY <1>1, <1>a, PassedBefore DEF FillsIn
<1>2. CASE RunQuery
  <2>1. FillRowsMove
    BY <1>2, FillRowsStep
  <2>2. /\ chain' = chain /\ ~QueryFails /\ pc = "routing" /\ todo # << >>
        /\ \A k \in DOMAIN chain : \A q \in Tasks(chain[k].name) :
             Passed(k, q)' => Passed(k, q) \/ (k = at /\ Do(q))
    BY <1>2, NewlyPassed
  <2>3. ASSUME NEW n \in DOMAIN fillRows
        PROVE  n \in DOMAIN fillRows' /\ fillRows'[n].intentId = fillRows[n].intentId
    <3>1. fillRows \in Seq(FillRow)
      BY DEF RowsOK
    <3>2. \A row : n \in DOMAIN Append(fillRows, row) /\ Append(fillRows, row)[n] = fillRows[n]
      BY <3>1
    <3> QED BY <2>1, <3>2 DEF FillRowsMove
  <2>4. Do("insertFill") =>
          \E n \in DOMAIN fillRows' : fillRows'[n].intentId = chain[at].intentId
    <3> SUFFICES ASSUME Do("insertFill")
                 PROVE  \E n \in DOMAIN fillRows' : fillRows'[n].intentId = chain[at].intentId
      OBVIOUS
    <3> DEFINE row == [intentId |-> chain[at].intentId, proof |-> FALSE]
    <3>1. fillRows' = Append(fillRows, row) /\ row.intentId = chain[at].intentId
      BY <2>1, <2>2 DEF FillRowsMove
    <3> HIDE DEF row
    <3>2. fillRows \in Seq(FillRow)
      BY DEF RowsOK
    <3>3. Len(fillRows) + 1 \in DOMAIN fillRows' /\ fillRows'[Len(fillRows) + 1] = row
      BY <3>1, <3>2
    <3> QED BY <3>1, <3>3
  <2>5. ASSUME NEW k \in DOMAIN chain, chain[k].name = "IntentFilled", Passed(k, "insertFill")'
        PROVE  \E n \in DOMAIN fillRows' : fillRows'[n].intentId = chain[k].intentId
    <3>1. Passed(k, "insertFill") \/ (k = at /\ Do("insertFill"))
      BY <1>a, <2>2, <2>5
    <3>2. CASE Passed(k, "insertFill")
      BY <2>3, <2>5, <3>2 DEF FillsIn
    <3>3. CASE k = at /\ Do("insertFill")
      BY <2>4, <3>3
    <3> QED BY <3>1, <3>2, <3>3
  <2> QED BY <2>2, <2>5 DEF FillsIn
<1> QED BY <1>1, <1>2, Steps

\* Proofs stay in: the proof of a fill comes after it, so that its row is there.
LEMMA ProofsInStep ==
  ASSUME Place, RowsOK, failures = 0, failures' = 0, ProofsIn, [Next]_vars
  PROVE  ProofsIn'
<1>a. \A k \in DOMAIN chain : chain[k].name = "IntentFillProof" =>
        "proveFills" \in Tasks(chain[k].name) /\ chain[k].intentId \in IntentId /\ k \in Nat
  BY EventTasks
<1>1. CASE OtherStep
  <2> QED BY <1>1, <1>a, PassedBefore DEF ProofsIn
<1>2. CASE RunQuery
  <2>1. FillRowsMove
    BY <1>2, FillRowsStep
  <2>2. /\ chain' = chain /\ ~QueryFails /\ pc = "routing" /\ todo # << >>
        /\ \A k \in DOMAIN chain : \A q \in Tasks(chain[k].name) :
             Passed(k, q)' => Passed(k, q) \/ (k = at /\ Do(q))
    BY <1>2, NewlyPassed
  <2>5. ASSUME NEW k \in DOMAIN chain, chain[k].name = "IntentFillProof", Passed(k, "proveFills")',
               NEW n \in DOMAIN fillRows', fillRows'[n].intentId = chain[k].intentId
        PROVE  fillRows'[n].proof
    <3>1. Passed(k, "proveFills") \/ (k = at /\ Do("proveFills"))
      BY <1>a, <2>2, <2>5
    <3>2. CASE Do("insertFill")
      <4>1. Passed(k, "proveFills")
        <5>1. ~Do("proveFills")
          BY <3>2 DEF Do
        <5> QED BY <3>1, <5>1
      <4> DEFINE row == [intentId |-> chain[at].intentId, proof |-> FALSE]
      <4>2. fillRows' = Append(fillRows, row) /\ row.intentId = chain[at].intentId
        BY <2>1, <2>2, <3>2 DEF FillRowsMove
      <4> HIDE DEF row
      <4>3. fillRows \in Seq(FillRow) /\ row \in FillRow
        <5>1. chain[at].intentId \in IntentId
          BY <2>2, EventAt
        <5> QED BY <5>1 DEF RowsOK, FillRow, row
      <4>4. n \in DOMAIN fillRows \/ fillRows'[n] = row
        <5>1. /\ \A j \in DOMAIN Append(fillRows, row) : j \in DOMAIN fillRows \/ j = Len(fillRows) + 1
              /\ Append(fillRows, row)[Len(fillRows) + 1] = row
          BY <4>3, Appended
        <5> QED BY <2>5, <4>2, <5>1
      <4>5. chain[k].intentId # chain[at].intentId
        <5> SUFFICES ASSUME chain[k].intentId = chain[at].intentId PROVE FALSE
          OBVIOUS
        <5>1. at \in DOMAIN chain /\ chain[at].name = "IntentFilled"
          BY <2>2, <3>2, EventAt, QueryEvent DEF Do
        <5>2. k - 1 \in DOMAIN chain /\ Is(chain[k - 1], "IntentFilled", chain[k].intentId)
          BY <2>5 DEF Place, ChainOK, ProofFollows
        <5>3. k - 1 = at
          BY <5>1, <5>2 DEF Place, ChainOK, EndsOnce, Ends, Is
        <5>4. k > at
          BY <1>a, <2>5, <5>3
        <5> QED BY <1>a, <2>2, <2>5, <4>1, <5>4, NextIsLeft
      <4>6. n \in DOMAIN fillRows /\ fillRows'[n] = fillRows[n]
        <5>1. n \in DOMAIN fillRows
          BY <2>5, <4>2, <4>4, <4>5
        <5> QED BY <4>2, <4>3, <5>1, Appended
      <4> QED BY <2>5, <4>1, <4>6 DEF ProofsIn
    <3>3. CASE ~Do("insertFill")
      <4>1. /\ n \in DOMAIN fillRows /\ fillRows'[n].intentId = fillRows[n].intentId
            /\ fillRows[n].proof => fillRows'[n].proof
        BY <2>1, <2>5, <3>3 DEF FillRowsMove
      <4>2. CASE Passed(k, "proveFills")
        BY <2>5, <4>1, <4>2 DEF ProofsIn
      <4>3. CASE k = at /\ Do("proveFills")
        BY <2>1, <2>2, <2>5, <4>1, <4>3 DEF FillRowsMove
      <4> QED BY <3>1, <4>2, <4>3
    <3> QED BY <3>2, <3>3
  <2> QED BY <2>2, <2>5 DEF ProofsIn
<1> QED BY <1>1, <1>2, Steps

\* Reserved metadata stays attached.
LEMMA MetadataInStep ==
  ASSUME Place, RowsOK, failures = 0, failures' = 0, MetadataIn, [Next]_vars
  PROVE  MetadataIn'
<1>a. \A k \in DOMAIN chain : chain[k].name = "IntentSubmitted" =>
        /\ "copyMetadata" \in Tasks(chain[k].name)
        /\ chain[k].intentId \in IntentId /\ k \in Nat
  BY EventTasks
<1>b. \A k \in DOMAIN chain : chain[k].name = "IntentSubmitted" =>
        Was(chain, Len(chain), "IntentSubmitted", chain[k].intentId)
  BY DEF Was, Is, Place, ChainOK
<1>c. /\ \A i \in IntentId : intentMetadata[i] # "none" => intentMetadata'[i] # "none"
      /\ \A i \in IntentId : pendingMetadata'[i] = "reserved" =>
           pendingMetadata[i] = "reserved" \/ ~Was(chain, Len(chain), "IntentSubmitted", i)
      /\ RunQuery /\ Do("copyMetadata") /\ ~QueryFails =>
           \A i \in IntentId : i = chain[at].intentId /\ pendingMetadata[i] # "none" =>
             intentMetadata'[i] # "none"
  BY MetadataStep
<1>1. CASE OtherStep
  <2> SUFFICES ASSUME NEW k \in DOMAIN chain', chain'[k].name = "IntentSubmitted",
                      Passed(k, "copyMetadata")', pendingMetadata'[chain'[k].intentId] = "reserved"
               PROVE  intentMetadata'[chain'[k].intentId] # "none"
    BY DEF MetadataIn
  <2>3. k \in DOMAIN chain /\ chain'[k] = chain[k] /\ Passed(k, "copyMetadata")
    BY <1>1, <1>a, PassedBefore
  <2>4. pendingMetadata[chain[k].intentId] = "reserved"
    BY <1>a, <1>b, <1>c, <2>3
  <2> QED BY <1>a, <1>c, <2>3, <2>4 DEF MetadataIn
<1>2. CASE RunQuery
  <2>2. /\ chain' = chain /\ ~QueryFails /\ pc = "routing" /\ todo # << >>
        /\ pendingMetadata' = pendingMetadata
        /\ \A k \in DOMAIN chain : \A q \in Tasks(chain[k].name) :
             Passed(k, q)' => Passed(k, q) \/ (k = at /\ Do(q))
    BY <1>2, NewlyPassed
  <2>3. ASSUME NEW k \in DOMAIN chain, chain[k].name = "IntentSubmitted", Passed(k, "copyMetadata")',
               pendingMetadata[chain[k].intentId] = "reserved"
        PROVE  intentMetadata'[chain[k].intentId] # "none"
    <3>1. Passed(k, "copyMetadata") \/ (k = at /\ Do("copyMetadata"))
      BY <1>a, <2>2, <2>3
    <3>2. CASE Passed(k, "copyMetadata")
      BY <1>a, <1>c, <2>3, <3>2 DEF MetadataIn
    <3>3. CASE k = at /\ Do("copyMetadata")
      <4>1. pendingMetadata[chain[k].intentId] # "none"
        BY <2>3
      <4> QED BY <1>2, <1>a, <1>c, <2>2, <2>3, <3>3, <4>1
    <3> QED BY <3>1, <3>2, <3>3
  <2> QED BY <2>2, <2>3 DEF MetadataIn
<1> QED BY <1>1, <1>2, Steps

\* What a prefix of the log says of an intent an event in it is about.
LEMMA Prefixes ==
  ASSUME NEW c, NEW h, ChainOK(c, h), NEW k \in DOMAIN c, NEW i, c[k].intentId = i
  PROVE  /\ k \in Nat
         /\ c[k].name = "IntentSubmitted" => StatusIn(c, k, i) = "OPEN"
         /\ c[k].name = "IntentSubmitted" =>
              \A n \in Nat : n < k => StatusIn(c, n, i) = "none"
         /\ \A n \in Nat : c[k].name = "IntentSubmitted" /\ k <= n => StatusIn(c, n, i) # "none"
         /\ \A n \in Nat : c[k].name = "IntentFilled" /\ k <= n => StatusIn(c, n, i) = "FILLED"
         /\ \A n \in Nat : c[k].name = "IntentCancelled" /\ k <= n /\ n <= Len(c) =>
              StatusIn(c, n, i) = "CANCELLED"
<1>1. /\ c \in Seq(EventType) /\ DOMAIN c = 1..Len(c) /\ Len(c) \in Nat
      /\ SubmittedFirst(c) /\ EndsOnce(c) /\ k \in Nat
  BY DEF ChainOK
<1>2. \A n \in Nat : k <= n => Was(c, n, c[k].name, i)
  BY <1>1 DEF Was, Is
<1>3. ASSUME c[k].name = "IntentSubmitted"
      PROVE  /\ \A n \in Nat : n < k => \A name : name \in Names => ~Was(c, n, name, i)
             /\ ~Was(c, k, "IntentFilled", i) /\ ~Was(c, k, "IntentCancelled", i)
  <2>1. ASSUME NEW j \in DOMAIN c, c[j].intentId = i PROVE k <= j
    <3>1. PICK m \in 1..j : Is(c[m], "IntentSubmitted", i)
      BY <1>1, <2>1 DEF SubmittedFirst
    <3>2. m \in DOMAIN c
      BY <1>1, <3>1
    <3>3. m = k
      BY <1>1, <1>3, <3>1, <3>2 DEF SubmittedFirst, Is
    <3> QED BY <1>1, <3>1, <3>3
  <2>2. \A n \in Nat : n < k => \A j \in 1..n : j \in DOMAIN c /\ ~(k <= j)
    BY <1>1
  <2>3. \A j \in 1..k : j \in DOMAIN c /\ (k <= j => j = k)
    BY <1>1
  <2> QED BY <1>3, <2>1, <2>2, <2>3 DEF Was, Is
<1>4. ASSUME c[k].name = "IntentCancelled", NEW n \in Nat, n <= Len(c)
      PROVE  ~Was(c, n, "IntentFilled", i)
  <2> SUFFICES ASSUME NEW j \in 1..n, Is(c[j], "IntentFilled", i) PROVE FALSE
    BY DEF Was
  <2>1. j \in DOMAIN c
    BY <1>1, <1>4
  <2> QED BY <1>1, <1>4, <2>1 DEF EndsOnce, Ends, Is
<1>5. c[k].name = "IntentSubmitted" => StatusIn(c, k, i) = "OPEN"
  BY <1>1, <1>2, <1>3 DEF StatusIn
<1>6. c[k].name = "IntentSubmitted" => \A n \in Nat : n < k => StatusIn(c, n, i) = "none"
  BY <1>3 DEF StatusIn, Names, Ends
<1>7. \A n \in Nat : c[k].name = "IntentSubmitted" /\ k <= n => StatusIn(c, n, i) # "none"
  BY <1>2 DEF StatusIn
<1>8. \A n \in Nat : c[k].name = "IntentFilled" /\ k <= n => StatusIn(c, n, i) = "FILLED"
  BY <1>2 DEF StatusIn
<1>9. \A n \in Nat : c[k].name = "IntentCancelled" /\ k <= n /\ n <= Len(c) =>
        StatusIn(c, n, i) = "CANCELLED"
  BY <1>2, <1>4 DEF StatusIn
<1> QED BY <1>1, <1>5, <1>6, <1>7, <1>8, <1>9

\* An event about an intent comes after its submission.
LEMMA Preceded ==
  ASSUME Place, NEW k \in DOMAIN chain, chain[k].name # "IntentSubmitted"
  PROVE  \E j \in DOMAIN chain : j < k /\ Is(chain[j], "IntentSubmitted", chain[k].intentId)
<1>1. /\ chain \in Seq(EventType) /\ DOMAIN chain = 1..Len(chain) /\ Len(chain) \in Nat
      /\ SubmittedFirst(chain) /\ k \in Nat
  BY DEF Place, ChainOK
<1>2. PICK j \in 1..k : Is(chain[j], "IntentSubmitted", chain[k].intentId)
  BY <1>1 DEF SubmittedFirst
<1>3. j # k
  BY <1>2 DEF Is
<1> QED BY <1>1, <1>2, <1>3

\* The query that tells the row of the intent of an event.
Tells(q) ==
  \/ q = "upsertIntent" /\ Do(q) /\ ~QueryFails
  \/ q = "setFilled" /\ Do(q) /\ ~QueryFails
  \/ q = "setCancelled" /\ Do(q) /\ ~QueryFails

\* It gives the row the status of a point no earlier than its event.
LEMMA TellStep ==
  ASSUME Place, RowsOK, RunQuery, failures = 0, failures' = 0, NEW i \in IntentId,
         i = chain[at].intentId, NEW q, Tells(q), NEW n \in 0..UpTo(chain, head), StatusOf(i, n)
  PROVE  \E m \in 0..UpTo(chain, head) :
           m >= n /\ m >= at /\ intentRows'[i].status = StatusIn(chain, m, i)
<1>a. /\ pc = "routing" /\ todo # << >> /\ ~QueryFails /\ chain' = chain
  BY NewlyPassed
<1>b. /\ at \in DOMAIN chain /\ at \in Nat /\ at <= UpTo(chain, head) /\ UpTo(chain, head) \in Nat
      /\ UpTo(chain, head) <= Len(chain) /\ at = Handled + 1 /\ Handled \in Nat
      /\ n \in Nat /\ n <= UpTo(chain, head) /\ Len(chain) \in Nat
  BY <1>a, AtHand, HandledRange DEF Place, ChainOK, ProcessOK
<1>c. intentRows[i].status = StatusIn(chain, n, i) /\ ChainOK(chain, head)
  BY DEF StatusOf, Place
<1>1. CASE q = "upsertIntent"
  <2>1. UpsertIntent /\ chain[at].name = "IntentSubmitted"
    BY <1>1, <1>a, Which, QueryEvent DEF Tells, Do
  <2>2. /\ intentRows'[i].status # "none"
        /\ intentRows'[i].status = intentRows[i].status \/ StatusMoves(i)
    BY <2>1, UpsertRow
  <2>3. CASE at <= n
    <3>1. intentRows[i].status # "none"
      BY <1>b, <1>c, <2>1, <2>3, Prefixes
    <3>2. intentRows'[i].status = intentRows[i].status
      BY <2>1, <2>2, <3>1 DEF StatusMoves
    <3> QED BY <1>b, <1>c, <2>3, <3>2
  <2>4. CASE ~(at <= n)
    <3>1. intentRows[i].status = "none" /\ StatusIn(chain, at, i) = "OPEN"
      BY <1>b, <1>c, <2>1, <2>4, Prefixes
    <3>2. intentRows'[i].status = "OPEN"
      BY <2>1, <2>2, <3>1 DEF StatusMoves
    <3>3. at \in 0..UpTo(chain, head) /\ at >= n /\ at >= at
      BY <1>b, <2>4
    <3> QED BY <3>1, <3>2, <3>3
  <2> QED BY <2>3, <2>4
<1>2. CASE q # "upsertIntent"
  <2>1. \/ SetStatus("setFilled", "FILLED") /\ chain[at].name = "IntentFilled"
        \/ SetStatus("setCancelled", "CANCELLED") /\ chain[at].name = "IntentCancelled"
    BY <1>2, <1>a, Which, QueryEvent DEF Tells, Do
  <2>2. intentRows[i].status # "none"
    <3>1. PICK j \in DOMAIN chain : j < at /\ Is(chain[j], "IntentSubmitted", i)
      BY <1>b, <2>1, Preceded
    <3>2. j \in Nat /\ "upsertIntent" \in Tasks(chain[j].name)
      BY <3>1, EventTasks DEF Is
    <3>3. Passed(j, "upsertIntent")
      BY <1>b, <3>1, <3>2 DEF Passed
    <3>4. j <= n
      BY <3>1, <3>3 DEF StatusOf, Told
    <3> QED BY <1>b, <1>c, <3>1, <3>2, <3>4, Prefixes DEF Is
  <2> DEFINE m == IF n >= at THEN n ELSE at
  <2>3. m \in 0..UpTo(chain, head) /\ m >= n /\ m >= at /\ at <= m /\ m <= Len(chain) /\ m \in Nat
    BY <1>b
  <2> HIDE DEF m
  <2>4. CASE SetStatus("setFilled", "FILLED") /\ chain[at].name = "IntentFilled"
    <3>1. intentRows'[i].status = "FILLED"
      BY <2>2, <2>4, CloseRow
    <3>2. StatusIn(chain, m, i) = "FILLED"
      BY <1>b, <1>c, <2>3, <2>4, Prefixes
    <3> QED BY <2>3, <3>1, <3>2
  <2>5. CASE SetStatus("setCancelled", "CANCELLED") /\ chain[at].name = "IntentCancelled"
    <3>1. intentRows'[i].status = "CANCELLED"
      BY <2>2, <2>5, CloseRow
    <3>2. StatusIn(chain, m, i) = "CANCELLED"
      BY <1>b, <1>c, <2>3, <2>5, Prefixes
    <3> QED BY <2>3, <3>1, <3>2
  <2> QED BY <2>1, <2>4, <2>5
<1> QED BY <1>1, <1>2

\* The rows keep the status of such a point.
LEMMA StatusKeptStep ==
  ASSUME Place, RowsOK, failures = 0, failures' = 0, StatusKept, [Next]_vars
  PROVE  StatusKept'
<1> SUFFICES ASSUME NEW i \in IntentId
             PROVE  \E n \in 0..UpTo(chain', head') :
                      /\ intentRows'[i].status = StatusIn(chain', n, i)
                      /\ \A k \in DOMAIN chain' : Told(k, i)' => k <= n
  BY DEF StatusKept, StatusOf
<1>a. PICK n \in 0..UpTo(chain, head) : StatusOf(i, n)
  BY DEF StatusKept
<1>b. /\ UpTo(chain, head) \in Nat /\ UpTo(chain, head) <= Len(chain) /\ Len(chain) \in Nat
      /\ DOMAIN chain = 1..Len(chain)
  BY HandledRange DEF Place, ChainOK
<1>c. /\ intentRows[i].status = StatusIn(chain, n, i)
      /\ \A k \in DOMAIN chain : Told(k, i) => k <= n
  BY <1>a DEF StatusOf
<1>d. \A k \in DOMAIN chain :
        /\ k \in Nat
        /\ chain[k].name = "IntentSubmitted" => "upsertIntent" \in Tasks(chain[k].name)
        /\ chain[k].name = "IntentFilled" => "setFilled" \in Tasks(chain[k].name)
        /\ chain[k].name = "IntentCancelled" => "setCancelled" \in Tasks(chain[k].name)
  BY EventTasks
<1>1. CASE OtherStep
  <2>1. /\ \A k \in DOMAIN chain : chain'[k] = chain[k]
        /\ UpTo(chain, head) <= UpTo(chain', head') /\ intentRows' = intentRows /\ Place'
    BY <1>1 DEF OtherStep
  <2>2. n \in 0..UpTo(chain', head')
    <3>1. UpTo(chain', head') \in Nat
      <4>1. ChainOK(chain', head') /\ head' \in Nat
        BY <2>1 DEF Place, ChainOK
      <4> QED BY <4>1, PrefixUpTo
    <3> QED BY <1>b, <2>1, <3>1
  <2>3. \A name : Was(chain', n, name, i) <=> Was(chain, n, name, i)
    <3>1. \A k \in 1..n : chain'[k] = chain[k]
      BY <1>b, <2>1
    <3> QED BY <3>1 DEF Was
  <2>4. StatusIn(chain', n, i) = StatusIn(chain, n, i)
    BY <2>3 DEF StatusIn
  <2>5. \A k \in DOMAIN chain' : Told(k, i)' => k \in DOMAIN chain /\ Told(k, i)
    BY <1>1, <1>d, PassedBefore DEF Told, Is
  <2> QED BY <1>c, <2>1, <2>2, <2>4, <2>5
<1>2. CASE RunQuery
  <2>a. /\ chain' = chain /\ head' = head /\ ~QueryFails /\ pc = "routing" /\ todo # << >>
        /\ \A k \in DOMAIN chain : \A q \in Tasks(chain[k].name) :
             Passed(k, q)' => Passed(k, q) \/ (k = at /\ Do(q))
    BY <1>2, NewlyPassed
  <2>1. \A k \in DOMAIN chain : Told(k, i)' =>
          Told(k, i) \/ (k = at /\ i = chain[at].intentId /\ \E q : Tells(q))
    BY <1>d, <2>a DEF Told, Tells, Is
  <2>2. CASE i = chain[at].intentId /\ \E q : Tells(q)
    <3>1. PICK m \in 0..UpTo(chain, head) :
            m >= n /\ m >= at /\ intentRows'[i].status = StatusIn(chain, m, i)
      BY <1>2, <1>a, <2>2, TellStep
    <3>2. n \in Nat /\ m \in Nat /\ at \in Nat
      BY <1>b DEF Place, ProcessOK
    <3>3. \A k \in DOMAIN chain : Told(k, i)' => k <= m
      <4> SUFFICES ASSUME NEW k \in DOMAIN chain, Told(k, i)' PROVE k <= m
        OBVIOUS
      <4>1. k \in Nat
        BY <1>d
      <4>2. k <= n \/ k = at
        BY <1>c, <2>1
      <4> QED BY <3>1, <3>2, <4>1, <4>2
    <3> QED BY <2>a, <3>1, <3>3
  <2>3. CASE ~(i = chain[at].intentId /\ \E q : Tells(q))
    <3>1. intentRows'[i].status = intentRows[i].status
      <4>1. intentRows'[i].status = intentRows[i].status \/ (i = chain[at].intentId /\ StatusMoves(i))
        BY <1>2, StatusStep
      <4>2. StatusMoves(i) => \E q : Tells(q)
        BY <2>a DEF StatusMoves, Tells
      <4> QED BY <2>3, <4>1, <4>2
    <3> QED BY <1>c, <2>a, <2>1, <2>3, <3>1
  <2> QED BY <2>2, <2>3
<1> QED BY <1>1, <1>2, Steps

\* What no query failed to do is in the tables.
Kept ==
  failures = 0 =>
    Receipted /\ BidsIn /\ FillsIn /\ ProofsIn /\ MetadataIn /\ StatusKept

\* A step keeps it in.
LEMMA KeptStep == Sound /\ Kept /\ [Next]_vars => Kept'
<1> SUFFICES ASSUME Place, RowsOK, Kept, [Next]_vars, failures' = 0
             PROVE  Receipted' /\ BidsIn' /\ FillsIn' /\ ProofsIn' /\ MetadataIn' /\ StatusKept'
  BY DEF Sound, Kept
<1>1. failures = 0
  BY FailuresStay
<1>2. Receipted /\ BidsIn /\ FillsIn /\ ProofsIn /\ MetadataIn /\ StatusKept
  BY <1>1 DEF Kept
<1> QED BY <1>1, <1>2, ReceiptedStep, BidsInStep, FillsInStep, ProofsInStep, MetadataInStep,
           StatusKeptStep

\* At the start there is nothing to keep.
LEMMA KeptInit == Init => Kept
<1> SUFFICES ASSUME Init PROVE Kept
  OBVIOUS
<1>1. (\A k \in DOMAIN chain : FALSE) /\ UpTo(chain, head) = 0 /\ chain = << >>
  BY Begins
<1>2. \A i \in IntentId : intentRows[i].status = "none"
  BY DEF Init
<1>3. Receipted /\ BidsIn /\ FillsIn /\ ProofsIn /\ MetadataIn
  BY <1>1 DEF Receipted, BidsIn, FillsIn, ProofsIn, MetadataIn
<1>4. StatusKept
  <2>1. \A i : StatusIn(chain, 0, i) = "none"
    BY DEF StatusIn, Was
  <2>2. 0 \in 0..UpTo(chain, head)
    BY <1>1
  <2> QED BY <1>1, <1>2, <2>1, <2>2 DEF StatusKept, StatusOf
<1> QED BY <1>3, <1>4 DEF Kept

\* What is kept is all that was handled.
LEMMA KeptCovers ==
  ASSUME Sound, Kept
  PROVE  NoDataLoss
<1> SUFFICES ASSUME failures = 0
             PROVE  /\ \A i \in IntentId :
                         /\ intentRows[i].status \in {StatusAfter(n, i) : n \in Handled..EventsUpTo(head)}
                         /\ Happened(Handled, "IntentFilled", i) => FillRowsOf(i) # {}
                         /\ Happened(Handled, "IntentFillProof", i) =>
                              \A k \in FillRowsOf(i) : fillRows[k].proof
                         /\ Happened(Handled, "IntentSubmitted", i) /\ pendingMetadata[i] = "reserved" =>
                              intentMetadata[i] # "none"
                         /\ \A k \in Positions(Handled, "SolverBidSubmitted", i) :
                              bidRows[i][chain[k].bidId] # "none"
                    /\ \A k \in 1..Handled : \E n \in DOMAIN receiptEvents : receiptEvents[n] = k
  BY DEF NoDataLoss
<1>a. Place /\ Receipted /\ BidsIn /\ FillsIn /\ ProofsIn /\ MetadataIn /\ StatusKept
  BY DEF Sound, Kept
<1>b. /\ Handled \in Nat /\ Handled <= UpTo(chain, head) /\ UpTo(chain, head) \in Nat
      /\ UpTo(chain, head) <= Len(chain) /\ Len(chain) \in Nat /\ DOMAIN chain = 1..Len(chain)
  BY <1>a, HandledRange DEF Place, ChainOK
<1>c. \A k \in 1..Handled : k \in DOMAIN chain /\ \A q : Passed(k, q)
  BY <1>b DEF Passed
<1>1. \A k \in 1..Handled : \E n \in DOMAIN receiptEvents : receiptEvents[n] = k
  BY <1>a, <1>c DEF Receipted
<1>2. ASSUME NEW i \in IntentId
      PROVE  intentRows[i].status \in {StatusAfter(n, i) : n \in Handled..EventsUpTo(head)}
  <2>1. PICK n \in 0..UpTo(chain, head) : StatusOf(i, n)
    BY <1>a DEF StatusKept
  <2> DEFINE m == IF n >= Handled THEN n ELSE Handled
  <2>2. m \in Handled..UpTo(chain, head)
    BY <1>b
  <2>3. StatusIn(chain, m, i) = StatusIn(chain, n, i)
    <3>1. CASE n >= Handled
      BY <3>1
    <3>2. CASE ~(n >= Handled)
      <4>1. m = Handled
        BY <3>2
      <4>2. \A k \in 1..Handled : Told(k, i) => k \in 1..n
        BY <1>b, <1>c, <2>1 DEF StatusOf
      <4>3. \A k \in 1..n : k \in 1..Handled
        BY <1>b, <3>2
      <4>4. \A k \in 1..Handled : /\ Is(chain[k], "IntentSubmitted", i) => Told(k, i)
                                  /\ Is(chain[k], "IntentFilled", i) => Told(k, i)
                                  /\ Is(chain[k], "IntentCancelled", i) => Told(k, i)
        BY <1>c DEF Told
      <4>5. /\ Was(chain, Handled, "IntentSubmitted", i) <=> Was(chain, n, "IntentSubmitted", i)
            /\ Was(chain, Handled, "IntentFilled", i) <=> Was(chain, n, "IntentFilled", i)
            /\ Was(chain, Handled, "IntentCancelled", i) <=> Was(chain, n, "IntentCancelled", i)
        BY <4>2, <4>3, <4>4 DEF Was
      <4> QED BY <4>1, <4>5 DEF StatusIn
    <3> QED BY <3>1, <3>2
  <2>4. intentRows[i].status = StatusIn(chain, m, i)
    BY <2>1, <2>3 DEF StatusOf
  <2> HIDE DEF m
  <2> QED BY <2>2, <2>4, Translation
<1>3. ASSUME NEW i \in IntentId
      PROVE  /\ Happened(Handled, "IntentFilled", i) => FillRowsOf(i) # {}
             /\ Happened(Handled, "IntentFillProof", i) => \A k \in FillRowsOf(i) : fillRows[k].proof
             /\ Happened(Handled, "IntentSubmitted", i) /\ pendingMetadata[i] = "reserved" =>
                  intentMetadata[i] # "none"
             /\ \A k \in Positions(Handled, "SolverBidSubmitted", i) :
                  bidRows[i][chain[k].bidId] # "none"
  <2>1. Happened(Handled, "IntentFilled", i) => FillRowsOf(i) # {}
    BY <1>a, <1>c DEF Happened, Positions, FillsIn, FillRowsOf
  <2>2. Happened(Handled, "IntentFillProof", i) => \A k \in FillRowsOf(i) : fillRows[k].proof
    BY <1>a, <1>c DEF Happened, Positions, ProofsIn, FillRowsOf
  <2>3. Happened(Handled, "IntentSubmitted", i) /\ pendingMetadata[i] = "reserved" =>
          intentMetadata[i] # "none"
    BY <1>a, <1>c DEF Happened, Positions, MetadataIn
  <2>4. \A k \in Positions(Handled, "SolverBidSubmitted", i) : bidRows[i][chain[k].bidId] # "none"
    BY <1>a, <1>c DEF Positions, BidsIn
  <2> QED BY <2>1, <2>2, <2>3, <2>4
<1> QED BY <1>1, <1>2, <1>3

\* As long as no query failed, no crash loses data: what the log says of the
\* events handled is in the tables.
THEOREM NoDataEverLost == Spec => []NoDataLoss
<1>1. Init => Kept
  BY KeptInit
<1>2. Sound /\ Kept /\ [Next]_vars => Kept'
  BY KeptStep
<1>3. Sound /\ Kept => NoDataLoss
  BY KeptCovers
<1> QED BY <1>1, <1>2, <1>3, AlwaysSound, PTL DEF Spec

----------------------------------------------------------------------------
(* Which bids are shown as selected.                                       *)

\* A row is shown as selected only after its bid was.
SelectedReal ==
  \A i \in IntentId : \A b \in BidId : bidRows[i][b] = "SELECTED" =>
    \E k \in DOMAIN chain :
      Is(chain[k], "SolverBidSelected", i) /\ chain[k].bidId = b /\ k <= UpTo(chain, head)

\* A bid has a row only if it was submitted, and without crashes only once it was
\* passed.
RowsReal ==
  \A i \in IntentId : \A b \in BidId : bidRows[i][b] # "none" =>
    \E k \in BidsOf(chain, i) :
      chain[k].bidId = b /\ (crashes = 0 => Passed(k, "upsertBid"))

\* Of the selections in log c of the intent of bid k, s is the first after the bid.
Decides(c, s, k) ==
  /\ Is(c[s], "SolverBidSelected", c[k].intentId) /\ k < s
  /\ \A j \in DOMAIN c : Is(c[j], "SolverBidSelected", c[k].intentId) /\ k < j => s <= j

MadeOf(c, s, k) == IF c[s].bidId = c[k].bidId THEN "SELECTED" ELSE "REJECTED"

\* No selection from before the bid k can have been replayed over it.
Fair(c, z, k) ==
  z = 0 \/ \A j \in DOMAIN c : Is(c[j], "SolverBidSelected", c[k].intentId) => k < j

RowOf(rows, c, k) == rows[c[k].intentId][c[k].bidId]

\* The row of bid k is open or what the selection that decides makes of it, which it
\* is once that selection was passed.
Decided(k) ==
  /\ \/ RowOf(bidRows, chain, k) \in {"none", "OPEN"}
     \/ \E s \in DOMAIN chain :
          /\ Decides(chain, s, k) /\ s <= UpTo(chain, head)
          /\ RowOf(bidRows, chain, k) = MadeOf(chain, s, k)
  /\ \A s \in DOMAIN chain :
       Decides(chain, s, k) /\ Passed(s, "selectBid") =>
         RowOf(bidRows, chain, k) = MadeOf(chain, s, k)

Shown ==
  failures = 0 =>
    \A k \in DOMAIN chain :
      chain[k].name = "SolverBidSubmitted" /\ Fair(chain, crashes, k) => Decided(k)

\* The bids of an intent are told apart by their numbers.
LEMMA OneBid ==
  ASSUME NEW c, NEW h, ChainOK(c, h), NEW j \in DOMAIN c, NEW k \in DOMAIN c,
         c[j].name = "SolverBidSubmitted", c[k].name = "SolverBidSubmitted",
         c[j].intentId = c[k].intentId, c[j].bidId = c[k].bidId
  PROVE  j = k
<1>1. c[k] \in EventType /\ BidsNumbered(c)
  BY DEF ChainOK
<1>2. c[k].intentId \in IntentId
  BY <1>1 DEF EventType
<1>3. j \in BidsOf(c, c[k].intentId) /\ k \in BidsOf(c, c[k].intentId)
  BY DEF BidsOf, Is
<1> QED BY <1>1, <1>2, <1>3 DEF BidsNumbered

\* No step makes up a row.
LEMMA RowsRealStep ==
  ASSUME Place, RowsOK, RowsReal, [Next]_vars
  PROVE  RowsReal'
<1> SUFFICES ASSUME NEW i \in IntentId, NEW b \in BidId, bidRows'[i][b] # "none"
             PROVE  \E k \in BidsOf(chain', i) :
                      /\ chain'[k].bidId = b
                      /\ crashes' = 0 => Passed(k, "upsertBid")'
  BY DEF RowsReal
<1>a. \A k \in DOMAIN chain :
        chain[k].name = "SolverBidSubmitted" => "upsertBid" \in Tasks(chain[k].name)
  BY EventTasks
<1>1. CASE OtherStep
  <2>1. PICK k \in BidsOf(chain, i) :
          chain[k].bidId = b /\ (crashes = 0 => Passed(k, "upsertBid"))
    BY <1>1 DEF OtherStep, RowsReal
  <2>2. /\ k \in DOMAIN chain /\ chain[k].name = "SolverBidSubmitted"
        /\ k \in DOMAIN chain' /\ chain'[k] = chain[k]
    BY <1>1, <2>1 DEF OtherStep, BidsOf, Is
  <2>3. crashes' = 0 => crashes = 0 /\ (pc' # "down" \/ pc = "down")
    BY <1>1 DEF OtherStep, RowsOK
  <2>4. crashes' = 0 => Passed(k, "upsertBid")'
    BY <1>1, <1>a, <2>1, <2>2, <2>3 DEF OtherStep
  <2> QED BY <2>1, <2>2, <2>4 DEF BidsOf
<1>2. CASE RunQuery
  <2>a. /\ chain' = chain /\ crashes' = crashes /\ pc = "routing" /\ todo # << >>
        /\ \A k \in DOMAIN chain : \A q \in Tasks(chain[k].name) : Passed(k, q) => Passed(k, q)'
        /\ failures' = failures /\ ~QueryFails =>
             \A k \in DOMAIN chain : \A q \in Tasks(chain[k].name) :
               k = at /\ Do(q) => Passed(k, q)'
    BY <1>2, QueryStep, RunContinues
  <2>b. ~QueryFails => failures' = failures
    BY <1>2, QueryStep
  <2>1. CASE bidRows[i][b] # "none"
    <3>1. PICK k \in BidsOf(chain, i) :
            chain[k].bidId = b /\ (crashes = 0 => Passed(k, "upsertBid"))
      BY <2>1 DEF RowsReal
    <3>2. k \in DOMAIN chain /\ chain[k].name = "SolverBidSubmitted"
      BY <3>1 DEF BidsOf, Is
    <3>3. crashes' = 0 => Passed(k, "upsertBid")'
      BY <1>a, <2>a, <3>1, <3>2
    <3> QED BY <2>a, <3>1, <3>3
  <2>2. CASE /\ Do("upsertBid") /\ ~QueryFails
             /\ i = chain[at].intentId /\ b = chain[at].bidId
    <3>1. at \in DOMAIN chain /\ chain[at].name = "SolverBidSubmitted"
      BY <2>2, <2>a, AtHand, QueryEvent DEF Do
    <3>2. PICK k \in DOMAIN chain : k = at
      BY <3>1
    <3>3. k \in BidsOf(chain, i) /\ chain[k].bidId = b
      BY <2>2, <3>1, <3>2 DEF BidsOf, Is
    <3>4. Passed(k, "upsertBid")'
      BY <1>a, <2>2, <2>a, <2>b, <3>1, <3>2
    <3> QED BY <2>a, <3>3, <3>4
  <2>3. \/ bidRows'[i][b] = bidRows[i][b]
        \/ Do("upsertBid") /\ ~QueryFails /\ i = chain[at].intentId /\ b = chain[at].bidId
        \/ bidRows[i][b] = "OPEN"
    BY <1>2, BidRowsStep DEF BidRowsMove
  <2> QED BY <2>1, <2>2, <2>3
<1> QED BY <1>1, <1>2, Steps

\* Selections to come do not change which one decides.
LEMMA DecidesGrown ==
  ASSUME NEW c, NEW d, NEW n \in Nat, DOMAIN c = 1..n,
         \A k \in DOMAIN c : k \in DOMAIN d /\ d[k] = c[k],
         \A k \in DOMAIN d : k \in Nat /\ (k \in DOMAIN c \/ k > n),
         NEW s \in DOMAIN c, NEW k \in DOMAIN c
  PROVE  /\ Decides(d, s, k) <=> Decides(c, s, k)
         /\ MadeOf(d, s, k) = MadeOf(c, s, k)
<1>1. d[s] = c[s] /\ d[k] = c[k] /\ s \in 1..n
  OBVIOUS
<1>2. \A j \in DOMAIN d : j \in DOMAIN c \/ s <= j
  OBVIOUS
<1> QED BY <1>1, <1>2 DEF Decides, MadeOf

\* If some selection follows a bid, one decides.
LEMMA OneDecides ==
  ASSUME NEW c, NEW n \in Nat, DOMAIN c = 1..n, NEW k \in DOMAIN c, NEW j \in DOMAIN c,
         Is(c[j], "SolverBidSelected", c[k].intentId), k < j
  PROVE  \E s \in DOMAIN c : Decides(c, s, k) /\ s <= j
<1> DEFINE S == {m \in 1..n : Is(c[m], "SolverBidSelected", c[k].intentId) /\ k < m}
<1>1. S \in SUBSET (1..n) /\ j \in S
  OBVIOUS
<1>2. \A m : m \in S <=> m \in DOMAIN c /\ Is(c[m], "SolverBidSelected", c[k].intentId) /\ k < m
  OBVIOUS
<1> HIDE DEF S
<1>3. Min(S) \in S /\ \A m \in S : Min(S) <= m
  BY <1>1, LeastIndex
<1>4. PICK s \in S : \A m \in S : s <= m
  BY <1>3
<1> QED BY <1>1, <1>2, <1>4 DEF Decides

\* The selection at hand decides over the bids of its intent that are open.
LEMMA SelectsOpen ==
  ASSUME Place, RowsReal, pc = "routing", todo # << >>, Do("selectBid"),
         NEW k \in DOMAIN chain, chain[k].name = "SolverBidSubmitted",
         chain[k].intentId = chain[at].intentId,
         Fair(chain, crashes, k), Decided(k), RowOf(bidRows, chain, k) = "OPEN"
  PROVE  Decides(chain, at, k)
<1>1. /\ at \in DOMAIN chain /\ chain[at].name = "SolverBidSelected"
      /\ at \in Nat /\ at = Handled + 1 /\ Handled \in Nat
  BY AtHand, HandledRange, QueryEvent DEF Do, Place, ProcessOK
<1>2. /\ \A j \in DOMAIN chain : j \in Nat
      /\ chain[k].intentId \in IntentId /\ chain[k].bidId \in BidId
      /\ Len(chain) \in Nat /\ DOMAIN chain = 1..Len(chain)
  BY EventTasks DEF Place, ChainOK
<1>3. Is(chain[at], "SolverBidSelected", chain[k].intentId)
  BY <1>1 DEF Is
<1>4. k < at
  <2>1. CASE crashes = 0
    <3>1. PICK j \in BidsOf(chain, chain[k].intentId) :
            chain[j].bidId = chain[k].bidId /\ Passed(j, "upsertBid")
      BY <1>2, <2>1 DEF RowsReal, RowOf
    <3>2. j = k
      BY <3>1, OneBid DEF BidsOf, Is, Place
    <3>3. ~(k > at)
      BY <1>2, <3>1, <3>2, NextIsLeft
    <3>4. k # at
      BY <1>1
    <3> QED BY <1>1, <1>2, <3>3, <3>4
  <2>2. CASE crashes # 0
    BY <1>1, <1>3, <2>2 DEF Fair
  <2> QED BY <2>1, <2>2
<1>5. ASSUME NEW j \in DOMAIN chain, Is(chain[j], "SolverBidSelected", chain[k].intentId),
             k < j, ~(at <= j)
      PROVE  FALSE
  <2>1. PICK s \in DOMAIN chain : Decides(chain, s, k) /\ s <= j
    BY <1>2, <1>5, OneDecides
  <2>2. s <= Handled
    BY <1>1, <1>2, <1>5, <2>1
  <2>3. Passed(s, "selectBid")
    BY <2>2 DEF Passed
  <2> QED BY <2>1, <2>3 DEF Decided, MadeOf
<1> QED BY <1>3, <1>4, <1>5 DEF Decides

\* Where queries stand, the selection at hand finds a row of every bid it decides over,
\* open or as it would make it.
LEMMA SelectFinds ==
  ASSUME Place, RowsOK, BidsIn, pc = "routing", todo # << >>, Do("selectBid"),
         NEW k \in DOMAIN chain, chain[k].name = "SolverBidSubmitted",
         Decided(k), Decides(chain, at, k)
  PROVE  RowOf(bidRows, chain, k) \in {"OPEN", MadeOf(chain, at, k)}
<1>1. at \in DOMAIN chain /\ at \in Nat /\ at = Handled + 1 /\ Handled \in Nat /\ k \in Nat
  BY AtHand, HandledRange, EventTasks DEF Place, ProcessOK
<1>2. k <= Handled
  BY <1>1 DEF Decides
<1>3. RowOf(bidRows, chain, k) # "none"
  <2>1. Passed(k, "upsertBid")
    BY <1>2 DEF Passed
  <2> QED BY <2>1 DEF BidsIn, RowOf
<1>4. ASSUME NEW s \in DOMAIN chain, Decides(chain, s, k)
      PROVE  s = at
  <2>1. s <= at /\ at <= s /\ s \in Nat
    BY <1>1, <1>4, EventTasks DEF Decides
  <2> QED BY <1>1, <2>1
<1> QED BY <1>3, <1>4 DEF Decided

\* No step shows a bid as selected that was not.
LEMMA SelectedRealStep ==
  ASSUME Place, RowsOK, SelectedReal, [Next]_vars
  PROVE  SelectedReal'
<1> SUFFICES ASSUME NEW i \in IntentId, NEW b \in BidId, bidRows'[i][b] = "SELECTED"
             PROVE  \E k \in DOMAIN chain' :
                      /\ Is(chain'[k], "SolverBidSelected", i) /\ chain'[k].bidId = b
                      /\ k <= UpTo(chain', head')
  BY DEF SelectedReal
<1>a. UpTo(chain, head) \in Nat /\ \A k \in DOMAIN chain : k \in Nat
  BY HandledRange, EventTasks
<1>1. CASE OtherStep
  <2>1. PICK k \in DOMAIN chain :
          Is(chain[k], "SolverBidSelected", i) /\ chain[k].bidId = b /\ k <= UpTo(chain, head)
    BY <1>1 DEF OtherStep, SelectedReal
  <2>2. k \in DOMAIN chain' /\ chain'[k] = chain[k]
    BY <1>1 DEF OtherStep
  <2>3. UpTo(chain, head) <= UpTo(chain', head') /\ UpTo(chain', head') \in Nat
    <3>1. ChainOK(chain', head') /\ head' \in Nat /\ UpTo(chain, head) <= UpTo(chain', head')
      BY <1>1 DEF OtherStep, Place, ChainOK
    <3> QED BY <3>1, PrefixUpTo
  <2>4. k <= UpTo(chain', head')
    BY <1>a, <2>1, <2>3
  <2> QED BY <2>1, <2>2, <2>4
<1>2. CASE RunQuery
  <2>a. chain' = chain /\ head' = head /\ pc = "routing" /\ todo # << >>
    BY <1>2, QueryStep, RunContinues
  <2>1. CASE bidRows[i][b] = "SELECTED"
    BY <2>1, <2>a DEF SelectedReal
  <2>2. CASE Do("selectBid") /\ i = chain[at].intentId /\ b = chain[at].bidId
    <3>1. at \in DOMAIN chain /\ chain[at].name = "SolverBidSelected" /\ at <= UpTo(chain, head)
      BY <2>2, <2>a, AtHand, QueryEvent DEF Do
    <3> QED BY <2>2, <2>a, <3>1 DEF Is
  <2>3. \/ bidRows'[i][b] = bidRows[i][b]
        \/ bidRows'[i][b] = "OPEN"
        \/ /\ Do("selectBid") /\ i = chain[at].intentId
           /\ bidRows'[i][b] = IF b = chain[at].bidId THEN "SELECTED" ELSE "REJECTED"
    BY <1>2, BidRowsStep DEF BidRowsMove
  <2> QED BY <2>1, <2>2, <2>3
<1> QED BY <1>1, <1>2, Steps

\* As long as no query failed a bid has the verdict of the selection that decides.
LEMMA ShownStep ==
  ASSUME Place, RowsOK, Kept, RowsReal, Shown, [Next]_vars
  PROVE  Shown'
<1> SUFFICES ASSUME failures' = 0, NEW k \in DOMAIN chain',
                    chain'[k].name = "SolverBidSubmitted", Fair(chain', crashes', k)
             PROVE  Decided(k)'
  BY DEF Shown
<1>a. failures = 0
  BY FailuresStay
<1>b. /\ \A j \in DOMAIN chain : j \in Nat
      /\ \A j \in DOMAIN chain : chain[j].name = "SolverBidSelected" =>
           "selectBid" \in Tasks(chain[j].name)
      /\ \A j \in DOMAIN chain : chain[j].name = "SolverBidSubmitted" =>
           chain[j].intentId \in IntentId /\ chain[j].bidId \in BidId
      /\ Len(chain) \in Nat /\ DOMAIN chain = 1..Len(chain)
  BY EventTasks DEF Place, ChainOK
<1>1. CASE OtherStep
  <2>1. /\ \A j \in DOMAIN chain : j \in DOMAIN chain' /\ chain'[j] = chain[j]
        /\ \A j \in DOMAIN chain' : j \in DOMAIN chain \/ j > Len(chain)
        /\ bidRows' = bidRows /\ ChainOK(chain', head')
        /\ crashes' = 0 => crashes = 0
    BY <1>1 DEF OtherStep, Place, RowsOK
  <2>2. \A j \in DOMAIN chain' : j \in Nat
    BY <2>1 DEF ChainOK
  <2>3. UpTo(chain, head) <= UpTo(chain', head') /\ UpTo(chain, head) \in Nat
        /\ UpTo(chain', head') \in Nat
    <3>1. head' \in Nat /\ UpTo(chain, head) <= UpTo(chain', head')
      BY <1>1, <2>1 DEF OtherStep, ChainOK
    <3> QED BY <2>1, <3>1, PrefixUpTo, HandledRange
  <2>4. \A j \in DOMAIN chain' : Passed(j, "selectBid")' =>
          /\ j \in DOMAIN chain
          /\ chain[j].name = "SolverBidSelected" => Passed(j, "selectBid")
    BY <1>1, <1>b, PassedBefore
  <2>5. CASE k \in DOMAIN chain
    <3>1. /\ \A s \in DOMAIN chain :
               /\ Decides(chain', s, k) <=> Decides(chain, s, k)
               /\ MadeOf(chain', s, k) = MadeOf(chain, s, k)
      BY <1>b, <2>1, <2>2, <2>5, DecidesGrown
    <3>2. chain[k].name = "SolverBidSubmitted" /\ Fair(chain, crashes, k)
          /\ RowOf(bidRows', chain', k) = RowOf(bidRows, chain, k)
      BY <2>1, <2>5 DEF Fair, RowOf
    <3>3. Decided(k)
      BY <1>a, <2>5, <3>2 DEF Shown
    <3>4. \/ RowOf(bidRows', chain', k) \in {"none", "OPEN"}
          \/ \E s \in DOMAIN chain' :
               /\ Decides(chain', s, k) /\ s <= UpTo(chain', head')
               /\ RowOf(bidRows', chain', k) = MadeOf(chain', s, k)
      <4>1. ASSUME NEW s \in DOMAIN chain, s <= UpTo(chain, head)
            PROVE  s \in DOMAIN chain' /\ s <= UpTo(chain', head')
        BY <1>b, <2>1, <2>3, <4>1
      <4> QED BY <3>1, <3>2, <3>3, <4>1 DEF Decided
    <3>5. ASSUME NEW s \in DOMAIN chain', Decides(chain', s, k), Passed(s, "selectBid")'
          PROVE  RowOf(bidRows', chain', k) = MadeOf(chain', s, k)
      <4>1. s \in DOMAIN chain
        BY <2>4, <3>5
      <4>2. Decides(chain, s, k)
        BY <3>1, <3>5, <4>1
      <4>3. Passed(s, "selectBid")
        BY <2>4, <3>5, <4>2 DEF Decides, Is
      <4> QED BY <3>1, <3>2, <3>3, <4>1, <4>2, <4>3 DEF Decided
    <3> QED BY <3>4, <3>5 DEF Decided
  <2>6. CASE k \notin DOMAIN chain
    <3> DEFINE i == chain'[k].intentId
               b == chain'[k].bidId
    <3>1. i \in IntentId /\ b \in BidId
      <4>1. chain'[k] \in EventType /\ BidsNumbered(chain')
        BY <2>1 DEF ChainOK
      <4> QED BY <4>1 DEF BidsNumbered, EventType
    <3>2. bidRows[i][b] = "none"
      <4> SUFFICES ASSUME bidRows[i][b] # "none" PROVE FALSE
        OBVIOUS
      <4>1. PICK j \in BidsOf(chain, i) : chain[j].bidId = b
        BY <3>1 DEF RowsReal
      <4>2. /\ j \in DOMAIN chain /\ j \in DOMAIN chain' /\ chain'[j].intentId = i
            /\ chain'[j].name = "SolverBidSubmitted" /\ chain'[j].bidId = b
        BY <2>1, <4>1 DEF BidsOf, Is
      <4>3. j = k
        BY <2>1, <4>2, OneBid
      <4> QED BY <2>6, <4>2, <4>3
    <3>3. ASSUME NEW s \in DOMAIN chain', Decides(chain', s, k), Passed(s, "selectBid")'
          PROVE  FALSE
      <4>1. s \in DOMAIN chain /\ k < s
        BY <2>4, <3>3 DEF Decides
      <4> QED BY <1>b, <2>1, <2>2, <2>6, <4>1
    <3> QED BY <2>1, <3>2, <3>3 DEF Decided, RowOf
  <2> QED BY <2>5, <2>6
<1>2. CASE RunQuery
  <2>a. /\ chain' = chain /\ head' = head /\ ~QueryFails /\ pc = "routing" /\ todo # << >>
        /\ \A j \in DOMAIN chain : \A q \in Tasks(chain[j].name) :
             Passed(j, q)' => Passed(j, q) \/ (j = at /\ Do(q))
    BY <1>2, <1>a, NewlyPassed
  <2>b. crashes' = crashes
    BY <1>2, QueryStep
  <2> DEFINE i == chain[k].intentId
             b == chain[k].bidId
  <2>1. /\ k \in DOMAIN chain /\ chain[k].name = "SolverBidSubmitted"
        /\ Fair(chain, crashes, k) /\ Decided(k) /\ i \in IntentId /\ b \in BidId /\ BidsIn
    BY <1>a, <1>b, <2>a, <2>b DEF Shown, Kept
  <2>2. \/ bidRows'[i][b] = bidRows[i][b]
        \/ bidRows[i][b] = "none" /\ bidRows'[i][b] = "OPEN"
        \/ /\ Do("selectBid") /\ i = chain[at].intentId /\ bidRows[i][b] = "OPEN"
           /\ bidRows'[i][b] = IF b = chain[at].bidId THEN "SELECTED" ELSE "REJECTED"
    BY <1>2, <2>1, BidRowsStep DEF BidRowsMove
  <2>3. Do("selectBid") /\ i = chain[at].intentId /\ bidRows[i][b] = "OPEN" =>
          bidRows'[i][b] = IF b = chain[at].bidId THEN "SELECTED" ELSE "REJECTED"
    BY <1>2, <2>1, <2>a, BidRowsStep DEF BidRowsMove
  <2>4. Do("selectBid") => at \in DOMAIN chain /\ at <= UpTo(chain, head)
    BY <2>a, AtHand
  <2>5. ASSUME Do("selectBid"), i = chain[at].intentId, bidRows[i][b] = "OPEN"
        PROVE  Decides(chain, at, k) /\ bidRows'[i][b] = MadeOf(chain, at, k)
    <3>1. Decides(chain, at, k)
      BY <2>1, <2>5, <2>a, SelectsOpen DEF RowOf
    <3> QED BY <2>3, <2>5, <3>1 DEF MadeOf
  <2>6. \/ bidRows'[i][b] \in {"none", "OPEN"}
        \/ \E s \in DOMAIN chain : /\ Decides(chain, s, k) /\ s <= UpTo(chain, head)
                                   /\ bidRows'[i][b] = MadeOf(chain, s, k)
    <3>1. CASE bidRows'[i][b] = bidRows[i][b]
      BY <2>1, <3>1 DEF Decided, RowOf
    <3>2. CASE Do("selectBid") /\ i = chain[at].intentId /\ bidRows[i][b] = "OPEN"
      BY <2>4, <2>5, <3>2
    <3> QED BY <2>2, <3>1, <3>2
  <2>7. ASSUME NEW s \in DOMAIN chain, Decides(chain, s, k), Passed(s, "selectBid")'
        PROVE  bidRows'[i][b] = MadeOf(chain, s, k)
    <3>1. Passed(s, "selectBid") \/ (s = at /\ Do("selectBid"))
      BY <1>b, <2>a, <2>7 DEF Decides, Is
    <3>2. CASE Passed(s, "selectBid")
      <4>1. bidRows[i][b] = MadeOf(chain, s, k)
        BY <2>1, <2>7, <3>2 DEF Decided, RowOf
      <4>2. bidRows[i][b] # "none" /\ bidRows[i][b] # "OPEN"
        BY <4>1 DEF MadeOf
      <4> QED BY <2>2, <4>1, <4>2
    <3>3. CASE s = at /\ Do("selectBid")
      <4>1. Decides(chain, at, k) /\ i = chain[at].intentId
        BY <2>7, <3>3 DEF Decides, Is
      <4>2. bidRows[i][b] \in {"OPEN", MadeOf(chain, at, k)}
        <5>1. RowOf(bidRows, chain, k) \in {"OPEN", MadeOf(chain, at, k)}
          BY <2>1, <2>a, <3>3, <4>1, SelectFinds
        <5> QED BY <5>1 DEF RowOf
      <4>3. CASE bidRows[i][b] = "OPEN"
        BY <2>5, <3>3, <4>1, <4>3
      <4>4. CASE bidRows[i][b] = MadeOf(chain, at, k)
        <5>1. bidRows[i][b] # "none" /\ bidRows[i][b] # "OPEN"
          BY <4>4 DEF MadeOf
        <5> QED BY <2>2, <3>3, <4>4, <5>1
      <4> QED BY <4>2, <4>3, <4>4
    <3> QED BY <3>1, <3>2, <3>3
  <2> QED BY <2>a, <2>6, <2>7 DEF Decided, RowOf
<1> QED BY <1>1, <1>2, Steps

\* What the selections of a prefix make of a bid: the one that decides, if it is there.
LEMMA VerdictIs ==
  ASSUME Place, NEW k \in DOMAIN chain, NEW n \in Nat, n <= Len(chain)
  PROVE  /\ \A s \in DOMAIN chain : Decides(chain, s, k) /\ s <= n =>
              Verdict(n, k) = MadeOf(chain, s, k)
         /\ (\A s \in DOMAIN chain : Decides(chain, s, k) => s > n) => Verdict(n, k) = "OPEN"
<1> DEFINE i == chain[k].intentId
           after == {s \in Positions(n, "SolverBidSelected", i) : k < s}
<1>1. Len(chain) \in Nat /\ DOMAIN chain = 1..Len(chain)
  BY DEF Place, ChainOK
<1>2. \A s : s \in after <=> /\ s \in DOMAIN chain /\ s <= n
                             /\ Is(chain[s], "SolverBidSelected", i) /\ k < s
  BY <1>1 DEF Positions, Is
<1>3. Verdict(n, k) = IF after = {} THEN "OPEN" ELSE MadeOf(chain, Min(after), k)
  BY DEF Verdict, MadeOf
<1>4. after \in SUBSET (1..Len(chain))
  BY <1>1, <1>2
<1> HIDE DEF after
<1>5. ASSUME NEW s \in DOMAIN chain, Decides(chain, s, k), s <= n
      PROVE  Verdict(n, k) = MadeOf(chain, s, k)
  <2>1. s \in after /\ \A j \in after : s <= j
    BY <1>2, <1>5 DEF Decides
  <2>2. Min(after) \in after /\ Min(after) <= s
    BY <1>1, <1>4, <2>1, LeastIndex
  <2>3. Min(after) = s
    <3>1. Min(after) \in Nat /\ s \in Nat /\ s <= Min(after)
      BY <1>1, <1>4, <2>1, <2>2
    <3> QED BY <2>2, <3>1
  <2> QED BY <1>3, <2>1, <2>3
<1>6. ASSUME \A s \in DOMAIN chain : Decides(chain, s, k) => s > n, after # {}
      PROVE  FALSE
  <2>1. PICK j \in after : TRUE
    BY <1>6
  <2>2. PICK s \in DOMAIN chain : Decides(chain, s, k) /\ s <= j
    BY <1>1, <1>2, <2>1, OneDecides
  <2>3. s \in Nat /\ j \in Nat /\ j <= n
    BY <1>1, <1>2, <2>1
  <2> QED BY <1>6, <2>2, <2>3
<1> QED BY <1>3, <1>5, <1>6

\* What is shown is what the property asks for.
LEMMA ShownCovers ==
  ASSUME Place, RowsOK, Kept, SelectedReal, Shown
  PROVE  SelectionsShown
<1>a. /\ UpTo(chain, head) \in Nat /\ UpTo(chain, head) <= Len(chain) /\ Len(chain) \in Nat
      /\ DOMAIN chain = 1..Len(chain) /\ EventsUpTo(head) = UpTo(chain, head)
      /\ Handled \in Nat /\ Handled <= UpTo(chain, head)
  BY HandledRange, Translation DEF Place, ChainOK
<1>1. ASSUME NEW i \in IntentId, NEW b \in BidId, bidRows[i][b] = "SELECTED"
      PROVE  \E k \in Positions(EventsUpTo(head), "SolverBidSelected", i) : chain[k].bidId = b
  <2>1. PICK k \in DOMAIN chain :
          Is(chain[k], "SolverBidSelected", i) /\ chain[k].bidId = b /\ k <= UpTo(chain, head)
    BY <1>1 DEF SelectedReal
  <2> QED BY <1>a, <2>1 DEF Positions, Is
<1>2. ASSUME failures = 0, NEW i \in IntentId,
             NEW k \in Positions(Handled, "SolverBidSubmitted", i),
             crashes = 0 \/ Positions(k, "SolverBidSelected", i) = {}
      PROVE  bidRows[i][chain[k].bidId] \in {Verdict(n, k) : n \in Handled..EventsUpTo(head)}
  <2>1. /\ k \in DOMAIN chain /\ k <= Handled /\ chain[k].name = "SolverBidSubmitted"
        /\ chain[k].intentId = i
    BY <1>a DEF Positions
  <2>2. Fair(chain, crashes, k)
    <3>1. ASSUME NEW j \in DOMAIN chain, Is(chain[j], "SolverBidSelected", i), ~(k < j)
          PROVE  j \in Positions(k, "SolverBidSelected", i)
      BY <1>a, <2>1, <3>1 DEF Positions, Is
    <3> QED BY <1>2, <2>1, <3>1 DEF Fair
  <2>3. Decided(k)
    BY <1>2, <2>1, <2>2 DEF Shown
  <2>4. RowOf(bidRows, chain, k) = bidRows[i][chain[k].bidId]
    BY <2>1 DEF RowOf
  <2>5. RowOf(bidRows, chain, k) # "none"
    <3>1. Passed(k, "upsertBid")
      BY <2>1 DEF Passed
    <3> QED BY <1>2, <2>1, <3>1 DEF Kept, BidsIn, RowOf
  <2>6. CASE RowOf(bidRows, chain, k) = "OPEN"
    <3>1. ASSUME NEW s \in DOMAIN chain, Decides(chain, s, k), ~(s > Handled)
          PROVE  FALSE
      <4>1. Passed(s, "selectBid")
        BY <1>a, <3>1 DEF Passed
      <4> QED BY <2>3, <2>6, <3>1, <4>1 DEF Decided, MadeOf
    <3>2. Verdict(Handled, k) = "OPEN"
      BY <1>a, <2>1, <3>1, VerdictIs
    <3>3. Handled \in Handled..UpTo(chain, head)
      BY <1>a
    <3> QED BY <1>a, <2>4, <2>6, <3>2, <3>3
  <2>7. CASE \E s \in DOMAIN chain : /\ Decides(chain, s, k) /\ s <= UpTo(chain, head)
                                     /\ RowOf(bidRows, chain, k) = MadeOf(chain, s, k)
    <3>1. Verdict(UpTo(chain, head), k) = RowOf(bidRows, chain, k)
      BY <1>a, <2>1, <2>7, VerdictIs
    <3>2. UpTo(chain, head) \in Handled..UpTo(chain, head)
      BY <1>a
    <3> QED BY <1>a, <2>4, <3>1, <3>2
  <2> QED BY <2>3, <2>5, <2>6, <2>7 DEF Decided
<1> QED BY <1>1, <1>2 DEF SelectionsShown

\* A bid is shown as selected only if it was, and as long as no query failed a bid is
\* shown as the first selection after it makes it, unless a crash may have replayed an
\* earlier selection over it (indexer/src/handlers/intents.ts:229-249).
THEOREM SelectionsAlwaysShown == Spec => []SelectionsShown
<1> DEFINE Inv == Kept /\ SelectedReal /\ RowsReal /\ Shown
<1>1. Init => Inv
  <2> SUFFICES ASSUME Init PROVE SelectedReal /\ RowsReal /\ Shown
    BY KeptInit
  <2>1. \A k \in DOMAIN chain : FALSE
    BY Begins
  <2>2. \A i \in IntentId : \A b \in BidId : bidRows[i][b] = "none"
    BY DEF Init
  <2> QED BY <2>1, <2>2 DEF SelectedReal, RowsReal, Shown
<1>2. Sound /\ Inv /\ [Next]_vars => Inv'
  BY KeptStep, SelectedRealStep, RowsRealStep, ShownStep DEF Sound
<1>3. Sound /\ Inv => SelectionsShown
  BY ShownCovers DEF Sound
<1> QED BY <1>1, <1>2, <1>3, AlwaysSound, PTL DEF Spec
=============================================================================
