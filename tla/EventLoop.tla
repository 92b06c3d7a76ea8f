------------------------------ MODULE EventLoop ------------------------------
(***************************************************************************)
(* What the mirrors of the indexer have in common: the log of events a     *)
(* contract emitted, the tables, and the polling loop of                   *)
(* indexer/src/listener.ts as far as it decides which event is handled     *)
(* next.  The block the loop stores, and restarts from after a crash, lags *)
(* the event it handles.  How blocks, ranges and single queries fail is    *)
(* the subject of Indexer; here a handler fails only because the database  *)
(* refuses its row, and the loop then skips the event for good.            *)
(***************************************************************************)
EXTENDS Naturals, Sequences

CONSTANTS MaxLog, MaxCrashes   \* bounds on the events and on the crashes

ASSUME LoopAssumption == MaxLog \in Nat /\ MaxCrashes \in Nat

VARIABLES
  log,       \* the events emitted, in order
  rows,      \* the tables of the database, functions from primary key to row
  at,        \* events of log the running process handled
  stored,    \* events of log below the block number in the database
  pending,   \* what a handler keeps between its steps: one element, or none
  crashes    \* history: how often the process died

database == <<rows, at, stored, pending, crashes>>
loopVars == <<log, database>>

NoRows == << >>

LoopInit(tables) ==
  /\ log = << >>
  /\ rows = [t \in tables |-> NoRows]
  /\ at = 0
  /\ stored = 0
  /\ pending = {}
  /\ crashes = 0

\* A call that emits an event.
Emit(event) ==
  /\ Len(log) < MaxLog
  /\ log' = Append(log, event)
  /\ UNCHANGED database

Event == log[at + 1]

\* The loop has reached an event of this type and is at no other one.
Handle(type) == pending = {} /\ at < Len(log) /\ Event.type = type

Has(table, id) == id \in DOMAIN rows[table]

\* INSERT ... ON CONFLICT DO UPDATE, and UPDATE ... WHERE id = ...
Upsert(table, id, row) ==
  rows' = [rows EXCEPT ![table] = [k \in DOMAIN @ \cup {id} |-> IF k = id THEN row ELSE @[k]]]

Update(table, id, row) ==
  rows' = [rows EXCEPT ![table] = [k \in DOMAIN @ |-> IF k = id THEN row ELSE @[k]]]

\* A handler that is done, and one that has a step left to do with `kept'.
Done == at' = at + 1 /\ pending' = {}
Halfway(kept) == at' = at /\ pending' = {kept}

\* setLastProcessedBlock at the end of a poll.
Store ==
  /\ pending = {} /\ stored < at
  /\ stored' = at
  /\ UNCHANGED <<log, rows, at, pending, crashes>>

\* The process dies and resumes below the block it stored last.
Crash ==
  /\ crashes < MaxCrashes
  /\ crashes' = crashes + 1
  /\ at' = stored
  /\ pending' = {}
  /\ UNCHANGED <<log, rows, stored>>
=============================================================================
