------------------------------ MODULE Indexer -------------------------------
(***************************************************************************)
(* indexer/src: a process that polls the log, routes every event to its    *)
(* handler, which writes rows of a database, and then stores the last      *)
(* block it has processed, from where it resumes after a crash.            *)
(*                                                                         *)
(* Every query is a step of its own, as handlers await them one by one     *)
(* outside of any transaction: a query may fail, which ends its handler    *)
(* and is only logged, and the process may crash between any two.  A poll  *)
(* that cannot reach the node changes nothing and is not a step.  Modelled *)
(* are the tables of handlers/intents.ts, the fill counters of solvers and *)
(* tx_receipts, which every event goes through; event fields nothing is    *)
(* computed from are left out, as is linking a pending_intent_metadata row *)
(* to its intent, which the indexer never reads.                           *)
(***************************************************************************)
EXTENDS ChainLog, Sums

CONSTANTS
  MaxRange,     \* MAX_LOG_BLOCK_RANGE
  MaxFaults     \* bound on crashes and queries that fail for no reason of their own

ASSUME IndexerAssumption ==
  MaxRange \in Nat \ {0} /\ MaxFaults \in Nat

VARIABLES
  lastProcessedBlock,  \* EventPoller.lastProcessedBlock, lost in a crash
  pc,                  \* "down", "idle" between polls, or "routing" events
  toBlock,             \* last block of the poll under way
  at,                  \* the position of the event being handled
  todo,                \* the queries left to do for it
  storedBlock,         \* indexer_state.last_processed_block; 0 if there is no row
  intentRows,          \* table intents: status, block_number
  pendingMetadata,     \* table pending_intent_metadata; "reserved" if before the intent
  intentMetadata,      \* table intent_metadata: who wrote the row, if any
  bidRows,             \* table solver_bids: status
  fillRows,            \* table fills, in insertion order
  solverRows,          \* table solvers: fills, total_latency_blocks
  receiptEvents,       \* table tx_receipts: how often each event is listed
  crashes,             \* history: the crashes so far
  failures             \* history: the queries that failed so far

processVars == <<lastProcessedBlock, pc, toBlock, at, todo>>
tables == <<intentRows, intentMetadata, bidRows, fillRows, solverRows, receiptEvents>>
vars == <<chainVars, processVars, storedBlock, tables, pendingMetadata, crashes, failures>>

Init ==
  /\ ChainInit
  /\ pc = "down" /\ lastProcessedBlock = 0 /\ toBlock = 0 /\ at = 0 /\ todo = << >>
  /\ storedBlock = 0
  /\ intentRows = [i \in IntentId |-> [status |-> "none", block |-> 0]]
  /\ pendingMetadata = [i \in IntentId |-> "none"]
  /\ intentMetadata = [i \in IntentId |-> "none"]
  /\ bidRows = [i \in IntentId |-> [b \in BidId |-> "none"]]
  /\ fillRows = << >>
  /\ solverRows = [s \in Solver |-> [fills |-> 0, latency |-> 0]]
  /\ receiptEvents = << >>
  /\ crashes = 0
  /\ failures = 0

\* Mutant of Queries: a fill credited before its row is inserted.
MutantQueries ==
  [IntentSubmitted    |-> <<"upsertIntent", "copyMetadata">>,
   IntentFilled       |-> <<"countFill", "insertFill", "setFilled">>,
   IntentFillProof    |-> <<"proveFills">>,
   IntentCancelled    |-> <<"setCancelled">>,
   SolverBidSubmitted |-> <<"upsertBid">>,
   SolverBidSelected  |-> <<"selectBid">>]

\* The queries of each handler, in order.
Queries ==
  [IntentSubmitted    |-> <<"upsertIntent", "copyMetadata">>,
   IntentFilled       |-> <<"insertFill", "setFilled", "countFill">>,
   IntentFillProof    |-> <<"proveFills">>,
   IntentCancelled    |-> <<"setCancelled">>,
   SolverBidSubmitted |-> <<"upsertBid">>,
   SolverBidSelected  |-> <<"selectBid">>]

\* What routing the event at a position takes: its handler, then recordTxReceipt.
Routing(k) == Append(Queries[chain[k].name], "recordReceipt")

----------------------------------------------------------------------------
(* The polling loop.                                                       *)

\* Mutant of Start: begins at the current block.
MutantStart ==
  /\ pc = "down"
  /\ pc' = "idle"
  /\ lastProcessedBlock' = head
  /\ UNCHANGED <<chainVars, toBlock, at, todo, storedBlock, tables, pendingMetadata,
                 crashes, failures>>

\* main and the constructor: resume after the stored block.
Start ==
  /\ pc = "down"
  /\ pc' = "idle"
  /\ lastProcessedBlock' = storedBlock
  /\ UNCHANGED <<chainVars, toBlock, at, todo, storedBlock, tables, pendingMetadata,
                 crashes, failures>>

\* The last block of the range that is asked for.
PollEnd == Min({head, lastProcessedBlock + MaxRange})

Poll ==
  /\ pc = "idle"
  /\ lastProcessedBlock < head
  /\ pc' = "routing"
  /\ toBlock' = PollEnd
  /\ at' = EventsUpTo(lastProcessedBlock) + 1
  /\ todo' = IF at' <= EventsUpTo(PollEnd) THEN Routing(at') ELSE << >>
  /\ UNCHANGED <<chainVars, lastProcessedBlock, storedBlock, tables, pendingMetadata,
                 crashes, failures>>

\* The queries left for the event are rest; after the last the next event has its turn.
Continue(rest) ==
  /\ IF rest # << >> THEN todo' = rest /\ at' = at
     ELSE /\ at' = at + 1
          /\ todo' = IF at < EventsUpTo(toBlock) THEN Routing(at + 1) ELSE << >>
  /\ UNCHANGED <<chainVars, lastProcessedBlock, pc, toBlock, storedBlock,
                 pendingMetadata, crashes>>

\* Mutant of Finish: the block is stored and not remembered.
MutantFinish ==
  /\ pc = "routing" /\ todo = << >>
  /\ pc' = "idle"
  /\ storedBlock' \in {storedBlock, toBlock}
  /\ UNCHANGED <<chainVars, lastProcessedBlock, toBlock, at, todo, tables,
                 pendingMetadata, crashes, failures>>

\* Every event of the range was routed.  Memory is updated first, so that a
\* failure to store the block, which main only logs, does not repeat the range.
Finish ==
  /\ pc = "routing" /\ todo = << >>
  /\ pc' = "idle"
  /\ lastProcessedBlock' = toBlock
  /\ storedBlock' \in {storedBlock, toBlock}
  /\ UNCHANGED <<chainVars, toBlock, at, todo, tables, pendingMetadata, crashes, failures>>

Crash ==
  /\ pc # "down"
  /\ crashes + failures < MaxFaults
  /\ crashes' = crashes + 1
  /\ pc' = "down" /\ lastProcessedBlock' = 0 /\ toBlock' = 0 /\ at' = 0 /\ todo' = << >>
  /\ UNCHANGED <<chainVars, storedBlock, tables, pendingMetadata, failures>>

----------------------------------------------------------------------------
(* The queries.                                                            *)

Row(i) == intentRows[i].status # "none"

\* Do the next query, which names an intent, a bid or a solver of event e.
Do(query) == pc = "routing" /\ todo # << >> /\ Head(todo) = query

Current == chain[at]
Done == Continue(Tail(todo)) /\ UNCHANGED failures

\* Mutant of Upserted: a row that exists is opened again.
MutantUpserted(row, block) == [status |-> "OPEN", block |-> block]

\* ON CONFLICT updates every column but the status.
Upserted(row, block) ==
  [status |-> IF row.status = "none" THEN "OPEN" ELSE row.status, block |-> block]

UpsertIntent ==
  /\ Do("upsertIntent")
  /\ intentRows' = [intentRows EXCEPT ![Current.intentId] = Upserted(@, Current.blockNumber)]
  /\ Done
  /\ UNCHANGED <<intentMetadata, bidRows, fillRows, solverRows, receiptEvents>>

\* The pending row, if there is one, is written over any row there is.
CopyMetadata ==
  /\ Do("copyMetadata")
  /\ intentMetadata' = IF pendingMetadata[Current.intentId] # "none"
                       THEN [intentMetadata EXCEPT ![Current.intentId] = "pending"]
                       ELSE intentMetadata
  /\ Done
  /\ UNCHANGED <<intentRows, bidRows, fillRows, solverRows, receiptEvents>>

\* INSERT without a conflict clause: the table has no key but its serial id.
InsertFill ==
  /\ Do("insertFill")
  /\ Row(Current.intentId)
  /\ fillRows' = Append(fillRows, [intentId |-> Current.intentId, proof |-> FALSE])
  /\ Done
  /\ UNCHANGED <<intentRows, intentMetadata, bidRows, solverRows, receiptEvents>>

\* rows with the status and block of intent i updated, if it has a row.
Closed(rows, i, status, block) ==
  IF rows[i].status = "none" THEN rows
  ELSE [rows EXCEPT ![i] = [status |-> status, block |-> block]]

SetStatus(query, status) ==
  /\ Do(query)
  /\ intentRows' = Closed(intentRows, Current.intentId, status, Current.blockNumber)
  /\ Done
  /\ UNCHANGED <<intentMetadata, bidRows, fillRows, solverRows, receiptEvents>>

\* The latency is measured from intents.block_number.
CountFill ==
  /\ Do("countFill")
  /\ LET since == intentRows[Current.intentId].block
         latency == IF Row(Current.intentId) /\ Current.blockNumber > since
                    THEN Current.blockNumber - since ELSE 0
     IN  solverRows' = [s \in Solver |->
           IF s \notin Current.solver THEN solverRows[s]
           ELSE [fills |-> solverRows[s].fills + 1, latency |-> solverRows[s].latency + latency]]
  /\ Done
  /\ UNCHANGED <<intentRows, intentMetadata, bidRows, fillRows, receiptEvents>>

ProveFills ==
  /\ Do("proveFills")
  /\ fillRows' = [k \in DOMAIN fillRows |->
       [fillRows[k] EXCEPT !.proof = @ \/ fillRows[k].intentId = Current.intentId]]
  /\ Done
  /\ UNCHANGED <<intentRows, intentMetadata, bidRows, solverRows, receiptEvents>>

UpsertBid ==
  /\ Do("upsertBid")
  /\ Row(Current.intentId)
  /\ bidRows' = [bidRows EXCEPT ![Current.intentId][Current.bidId] =
                   IF @ = "none" THEN "OPEN" ELSE @]
  /\ Done
  /\ UNCHANGED <<intentRows, intentMetadata, fillRows, solverRows, receiptEvents>>

\* Mutant of Chosen: rows that are no longer open are touched too.
MutantChosen(status, b, chosen) ==
  IF status = "none" THEN status ELSE IF b = chosen THEN "SELECTED" ELSE "REJECTED"

\* The status of bid b once chosen was selected: only OPEN rows are touched.
Chosen(status, b, chosen) ==
  IF status # "OPEN" THEN status ELSE IF b = chosen THEN "SELECTED" ELSE "REJECTED"

SelectBidRow ==
  /\ Do("selectBid")
  /\ bidRows' = [bidRows EXCEPT ![Current.intentId] =
       [b \in BidId |-> Chosen(bidRows[Current.intentId][b], b, Current.bidId)]]
  /\ Done
  /\ UNCHANGED <<intentRows, intentMetadata, fillRows, solverRows, receiptEvents>>

\* A receipt row per transaction, to whose events the event is appended.
RecordTxReceipt ==
  /\ Do("recordReceipt")
  /\ receiptEvents' = Append(receiptEvents, at)
  /\ Done
  /\ UNCHANGED <<intentRows, intentMetadata, bidRows, fillRows, solverRows>>

\* The foreign keys of fills and solver_bids.
KeyMissing == Head(todo) \in {"insertFill", "upsertBid"} /\ ~Row(Current.intentId)

\* A query throws: routing the event goes on with its receipt, and no retry.
QueryFails ==
  /\ pc = "routing" /\ todo # << >>
  /\ KeyMissing \/ crashes + failures < MaxFaults
  /\ failures' = failures + 1
  /\ Continue(IF Head(todo) = "recordReceipt" THEN << >> ELSE <<"recordReceipt">>)
  /\ UNCHANGED tables

RunQuery ==
  \/ UpsertIntent \/ CopyMetadata \/ InsertFill \/ CountFill \/ ProveFills
  \/ SetStatus("setFilled", "FILLED") \/ SetStatus("setCancelled", "CANCELLED")
  \/ UpsertBid \/ SelectBidRow \/ RecordTxReceipt
  \/ QueryFails

----------------------------------------------------------------------------
(* The environment: the chain, and the API writing metadata.               *)

Transaction ==
  /\ ChainNext
  /\ UNCHANGED <<processVars, storedBlock, tables, pendingMetadata, crashes, failures>>

\* POST /intents/metadata, before the intent is submitted as AgentChainClient's
\* createIntent does, or after.
PostPendingMetadata(i) ==
  /\ pendingMetadata[i] = "none"
  /\ pendingMetadata' = [pendingMetadata EXCEPT ![i] =
       IF Happened(Len(chain), "IntentSubmitted", i) THEN "late" ELSE "reserved"]
  /\ UNCHANGED <<chainVars, processVars, storedBlock, tables, crashes, failures>>

\* PUT /intents/:id/metadata, for an intent that is indexed.
PutMetadata(i) ==
  /\ Row(i)
  /\ intentMetadata' = [intentMetadata EXCEPT ![i] = "put"]
  /\ UNCHANGED <<chainVars, processVars, storedBlock, intentRows, bidRows, fillRows,
                 solverRows, receiptEvents, pendingMetadata, crashes, failures>>

Next ==
  \/ Start \/ Poll \/ RunQuery \/ Finish \/ Crash
  \/ Transaction
  \/ \E i \in IntentId : PostPendingMetadata(i) \/ PutMetadata(i)

Process == Start \/ Poll \/ RunQuery \/ Finish

\* The loop never stops by itself and ECS restarts the task (infra/aws/main.tf:528);
\* that the chain goes on, or anybody posts metadata, is not assumed.
Spec == Init /\ [][Next]_vars /\ WF_vars(Process)

----------------------------------------------------------------------------
(* Properties.                                                             *)

\* The number of events this process, or if it is down its successor, is past.
Handled ==
  CASE pc = "routing" -> at - 1
    [] pc = "idle" -> EventsUpTo(lastProcessedBlock)
    [] pc = "down" -> EventsUpTo(storedBlock)

FillRowsOf(i) == {k \in DOMAIN fillRows : fillRows[k].intentId = i}

\* docs/runbooks.md:36 promises that a crash loses no data.  As long as no query
\* failed, wherever the process crashed: the status of an intent's row is one
\* the log gave it at or after the point where indexing stands; what is filled
\* has a fill row, what is proved only proved ones, what is bid a bid row, what
\* metadata was reserved before the submission is attached, and every event has
\* a receipt.
NoDataLoss ==
  failures = 0 =>
    /\ \A i \in IntentId :
         /\ intentRows[i].status \in {StatusAfter(n, i) : n \in Handled..EventsUpTo(head)}
         /\ Happened(Handled, "IntentFilled", i) => FillRowsOf(i) # {}
         /\ Happened(Handled, "IntentFillProof", i) =>
              \A k \in FillRowsOf(i) : fillRows[k].proof
         /\ Happened(Handled, "IntentSubmitted", i) /\ pendingMetadata[i] = "reserved" =>
              intentMetadata[i] # "none"
         /\ \A k \in Positions(Handled, "SolverBidSubmitted", i) :
              bidRows[i][chain[k].bidId] # "none"
    /\ \A k \in 1..Handled : \E n \in DOMAIN receiptEvents : receiptEvents[n] = k

\* Replaying a range cannot reopen an intent: its row never leaves a status
\* that is final on chain.
FinalRowsStay ==
  [][\A i \in IntentId : intentRows[i].status \in {"FILLED", "CANCELLED"} =>
       intentRows'[i].status = intentRows[i].status]_vars

\* An intent, which is filled once, has at most one fill row more than there
\* were crashes, and a solver is never credited with a fill that has no row.
FillsBounded ==
  /\ \A i \in IntentId : Cardinality(FillRowsOf(i)) <= crashes + 1
  /\ SumOver([s \in Solver |-> solverRows[s].fills], Solver) <= Len(fillRows)

\* What the selections among the first n events make of the bid submitted at k: the
\* first one after it decides.
Verdict(n, k) ==
  LET after == {s \in Positions(n, "SolverBidSelected", chain[k].intentId) : k < s}
  IN  IF after = {} THEN "OPEN"
      ELSE IF chain[Min(after)].bidId = chain[k].bidId THEN "SELECTED" ELSE "REJECTED"

\* A bid is shown as selected only if its owner did select it.  And as long as no
\* query failed, a bid has the verdict of the first selection after it, at or after
\* the point where indexing stands: unlike on chain, a later selection changes
\* nothing.  Only a bid that came after a selection is an exception, once a crash
\* may have replayed that selection over it.
SelectionsShown ==
  /\ \A i \in IntentId, b \in BidId :
       bidRows[i][b] = "SELECTED" =>
         \E k \in Positions(EventsUpTo(head), "SolverBidSelected", i) : chain[k].bidId = b
  /\ failures = 0 =>
       \A i \in IntentId : \A k \in Positions(Handled, "SolverBidSubmitted", i) :
         crashes = 0 \/ Positions(k, "SolverBidSelected", i) = {} =>
           bidRows[i][chain[k].bidId] \in {Verdict(n, k) : n \in Handled..EventsUpTo(head)}

\* Whatever is filled on chain is eventually shown as filled, unless a query
\* failed, after which nothing is promised.
EventuallyIndexed ==
  \A i \in IntentId :
    Happened(EventsUpTo(head), "IntentFilled", i)
      ~> intentRows[i].status = "FILLED" \/ failures > 0

BlockOf(name, i) == chain[Min(Positions(Len(chain), name, i))].blockNumber

\* docs/api.md:559 has the API return a solver's average latency in blocks, from
\* the counter the indexer keeps; whenever it is idle and nothing went wrong the
\* counter should be the blocks from submission to fill.
LatencyMeasured ==
  pc = "idle" /\ crashes = 0 /\ failures = 0 =>
    MapThenSumSet(LAMBDA s : solverRows[s].latency, Solver) =
      MapThenSumSet(LAMBDA i : BlockOf("IntentFilled", i) - BlockOf("IntentSubmitted", i),
                    {i \in IntentId : Happened(Handled, "IntentFilled", i)})
=============================================================================
