---------------------------- MODULE SolverAgent ----------------------------
(***************************************************************************)
(* solver/src: a process that polls the log for new intents and            *)
(* selections, bids on open intents, and when its bid was selected executes*)
(* the intent's plan and fills the intent.                                 *)
(*                                                                         *)
(* What it asks of the node and of the API are steps between which the     *)
(* chain goes on; what it sends waits in the mempool, which outlives a     *)
(* crash, and lands in sending order (one account, one nonce sequence),    *)
(* each one with events closing a block; empty blocks are left out.  The   *)
(* terms of the agent's bids are the bounds the owner signed and its fills *)
(* repeat them, so a fill can only fail on the intent's status, deadline   *)
(* or selection.  A poll that throws changes nothing and is not a step.    *)
(***************************************************************************)
EXTENDS ChainLog

CONSTANTS
  Self,            \* the account of SOLVER_PRIVATE_KEY
  StartLatest,     \* START_BLOCK unset or "latest", else the first block
  Workable,        \* intents whose amounts and slippage the validator accepts
  MaxFaults        \* bound on crashes and calls that throw for no reason of their own

ASSUME AgentAssumption ==
  /\ Self \in Solver /\ StartLatest \in BOOLEAN
  /\ Workable \subseteq IntentId
  /\ MaxFaults \in Nat

VARIABLES
  nextBlock,   \* IntentListener.lastProcessedBlock + 1
  pc,          \* "down", "idle", or what is done about the head of queue
  queue,       \* the intents of the events of one poll left to process
  mempool,     \* the agent's transactions that have not landed: <<kind, intent>>
  attested,    \* the intents that require an attestation
  late,        \* the intents whose deadline has passed
  executed,    \* history: the plans executed, per intent
  planless,    \* history: intents the agent went on to fill without one
  errors,      \* history: calls that threw, or plans that reverted
  crashes      \* history: the crashes so far

agentVars == <<nextBlock, pc, queue>>
worldVars == <<attested, late>>
history == <<executed, planless, errors, crashes>>
vars == <<chainVars, agentVars, mempool, worldVars, history>>

Phase == {"check", "choose", "bid", "lookUp", "execute", "fill", "await", "awaitPlan"}

Init ==
  /\ ChainInit
  /\ nextBlock = 0 /\ pc = "down" /\ queue = << >>
  /\ mempool = << >>
  /\ attested \in SUBSET IntentId /\ late = {}
  /\ executed = [i \in IntentId |-> 0] /\ planless = {}
  /\ errors = 0 /\ crashes = 0

----------------------------------------------------------------------------
(* The polling loop.                                                       *)

\* Mutant of FirstBlock: a configured START_BLOCK ignored.
MutantFirstBlock == head

\* The block the listener of a process started now begins with.
FirstBlock == IF StartLatest THEN head ELSE 0

Start ==
  /\ pc = "down"
  /\ pc' = "idle"
  /\ nextBlock' = FirstBlock
  /\ UNCHANGED <<chainVars, queue, mempool, worldVars, history>>

\* A set of positions as a sequence, in the order of the log.
InOrder(S) ==
  CHOOSE f \in [1..Cardinality(S) -> S] : \A m, n \in DOMAIN f : m < n => f[m] < f[n]

\* The intents of the events of a name in the polled blocks, in log order.
Found(name) ==
  LET found == InOrder({k \in DOMAIN chain : /\ chain[k].name = name
                                             /\ nextBlock <= chain[k].blockNumber
                                             /\ chain[k].blockNumber <= head})
  IN  [n \in DOMAIN found |-> chain[found[n]].intentId]

\* Mutant of Polled: the selections are not asked for.
MutantPolled == Found("IntentSubmitted")

\* Mutant of Polled: the events of bids taken for news of the intent.
MutantPolledBids ==
  Found("IntentSubmitted") \o Found("SolverBidSubmitted") \o Found("SolverBidSelected")

\* Two getLogs calls over one range: submissions first, selections after.
Polled == Found("IntentSubmitted") \o Found("SolverBidSelected")

Poll ==
  /\ pc = "idle"
  /\ nextBlock <= head
  /\ queue' = Polled
  /\ nextBlock' = head + 1
  /\ pc' = IF queue' = << >> THEN "idle" ELSE "check"
  /\ UNCHANGED <<chainVars, mempool, worldVars, history>>

Crash ==
  /\ pc # "down"
  /\ errors + crashes < MaxFaults
  /\ crashes' = crashes + 1
  /\ pc' = "down" /\ queue' = << >> /\ nextBlock' = 0
  /\ UNCHANGED <<chainVars, mempool, worldVars, executed, planless, errors>>

----------------------------------------------------------------------------
(* processIntent.                                                          *)

Current == Head(queue)
At(phase) == pc = phase

\* processIntent returns: the next event has its turn.
Finished ==
  /\ queue' = Tail(queue)
  /\ pc' = IF queue' = << >> THEN "idle" ELSE "check"
  /\ UNCHANGED nextBlock

GoOn(phase) == pc' = phase /\ UNCHANGED <<nextBlock, queue>>

\* What the node answers about the latest block.
OpenNow(i) == StatusAfter(EventsUpTo(head), i) = "OPEN"
SelectionsNow(i) == {k \in Selections(i) : k <= EventsUpTo(head)}
SelectedNow(i) == IF SelectionsNow(i) = {} THEN {} ELSE chain[Max(SelectionsNow(i))].solver

\* Mutant of CheckIntent: the status is not asked for.
MutantCheckIntent ==
  /\ At("check")
  /\ IF Current \in Workable \ late THEN GoOn("choose") ELSE Finished
  /\ UNCHANGED <<chainVars, mempool, worldVars, history>>

\* The intent is open, and validateIntentConstraints accepts it.
CheckIntent ==
  /\ At("check")
  /\ IF OpenNow(Current) /\ Current \in Workable \ late THEN GoOn("choose") ELSE Finished
  /\ UNCHANGED <<chainVars, mempool, worldVars, history>>

\* What is to be done about an intent, by whose bid stands selected.
RoleFor(i) ==
  CASE SelectedNow(i) = {} -> "bid"
    [] SelectedNow(i) = {Self} -> "lookUp"
    [] OTHER -> "skip"

ChooseRole ==
  /\ At("choose")
  /\ IF RoleFor(Current) = "skip" THEN Finished ELSE GoOn(RoleFor(Current))
  /\ UNCHANGED <<chainVars, mempool, worldVars, history>>

Send(kind) == mempool' = Append(mempool, <<kind, Current>>)

\* A simulation that succeeds is followed by the transaction itself, whose
\* receipt is waited for; one that reverts throws.
SimulateAndSend(kind, succeeds, next) ==
  /\ IF succeeds THEN Send(kind) /\ GoOn(next) ELSE Finished /\ UNCHANGED mempool
  /\ UNCHANGED <<chainVars, worldVars, history>>

SendBid ==
  /\ At("bid")
  /\ SimulateAndSend("bid", OpenNow(Current) /\ Current \notin late /\ BidCount(Current) < MaxBids,
                     "await")

\* getIntentMetadata and findRequiredAttestation ask the API, which may answer
\* either way whatever is true: API_URL is unset, the indexer behind, the plan not
\* put yet or the request fails, and nobody is told.  Without the attestation the
\* agent skips the intent; without the metadata it fills without a plan.
LookUp ==
  /\ At("lookUp")
  /\ \/ Current \in attested /\ Finished /\ UNCHANGED planless
     \/ GoOn("execute") /\ UNCHANGED planless
     \/ GoOn("fill") /\ planless' = planless \cup {Current}
  /\ UNCHANGED <<chainVars, mempool, worldVars, executed, errors, crashes>>

\* The plan is sent before the fill is simulated.
ExecutePlan ==
  /\ At("execute")
  /\ SimulateAndSend("plan", TRUE, "awaitPlan")

Fillable(i) == OpenNow(i) /\ i \notin late /\ SelectedNow(i) = {Self}

SendFill ==
  /\ At("fill")
  /\ SimulateAndSend("fill", Fillable(Current), "await")

\* waitForTransactionReceipt; what the receipt of a plan says is not looked at.
Receipt ==
  /\ mempool = << >>
  /\ \/ At("await") /\ Finished
     \/ At("awaitPlan") /\ GoOn("fill")
  /\ UNCHANGED <<chainVars, mempool, worldVars, history>>

\* Any other call may throw: processIntent logs it and the event is forgotten.
Throws ==
  /\ pc \in Phase
  /\ errors + crashes < MaxFaults
  /\ errors' = errors + 1
  /\ Finished
  /\ UNCHANGED <<chainVars, mempool, worldVars, executed, planless, crashes>>

Process ==
  \/ Start \/ Poll
  \/ CheckIntent \/ ChooseRole \/ SendBid \/ LookUp \/ ExecutePlan \/ SendFill \/ Receipt

----------------------------------------------------------------------------
(* The environment: the chain, the clock and everyone else.                *)

\* The first transaction in the mempool lands, or lands and reverts.
Landed(happens, events) ==
  /\ mempool' = Tail(mempool)
  /\ chain' = IF happens THEN chain \o events ELSE chain
  /\ head' = IF Len(chain') > EventsUpTo(head) THEN head + 1 ELSE head
  /\ UNCHANGED <<agentVars, worldVars, crashes>>

Land ==
  /\ mempool # << >>
  /\ head < MaxBlock
  /\ LET kind == Head(mempool)[1]
         i == Head(mempool)[2]
     IN  \/ /\ kind = "bid"
            /\ Landed(IsOpen(i) /\ i \notin late /\ BidCount(i) < MaxBids, BidEvents(Self, i))
            /\ UNCHANGED <<executed, planless, errors>>
         \/ /\ kind = "fill"
            /\ Landed(IsOpen(i) /\ i \notin late /\ Selected(i) = {Self}, FillEvents(i))
            /\ UNCHANGED <<executed, planless, errors>>
         \/ /\ kind = "plan"
            /\ Landed(FALSE, << >>)
            /\ executed' = [executed EXCEPT ![i] = @ + 1]
            /\ UNCHANGED <<planless, errors>>

\* A plan reverts although it was simulated with success; as its receipt is not
\* looked at, the agent goes on to fill without it.
PlanReverts ==
  /\ mempool # << >>
  /\ head < MaxBlock
  /\ errors + crashes < MaxFaults
  /\ Head(mempool)[1] = "plan"
  /\ Landed(FALSE, << >>)
  /\ errors' = errors + 1
  /\ planless' = planless \cup {Head(mempool)[2]}
  /\ UNCHANGED executed

\* Everybody else's transactions.
Transaction ==
  /\ \E i \in IntentId :
       \/ SubmitIntent(i)
       \/ CancelIntent(i)
       \/ \E s \in Solver \ {Self} : i \notin late /\ SubmitBid(s, i)
       \/ \E b \in BidId : SelectBid(i, b)
       \/ Selected(i) # {Self} /\ i \notin late /\ FillIntent(i)
  /\ UNCHANGED <<agentVars, mempool, worldVars, history>>

MineBlock ==
  /\ EventsUpTo(head) < Len(chain)
  /\ Mine
  /\ UNCHANGED <<agentVars, mempool, worldVars, history>>

Expire(i) ==
  /\ IsOpen(i)
  /\ late' = late \cup {i}
  /\ UNCHANGED <<chainVars, agentVars, mempool, attested, history>>

Next ==
  \/ Process \/ Throws \/ Crash
  \/ Land \/ PlanReverts \/ Transaction \/ MineBlock
  \/ \E i \in IntentId : Expire(i)

\* The loop never stops by itself, and a solver that crashed is started again
\* (docs/runbooks.md:38); a transaction that is sent lands, and a block that was
\* begun is mined.
Spec ==
  /\ Init /\ [][Next]_vars
  /\ WF_vars(Process)
  /\ WF_vars(Land)
  /\ WF_vars(MineBlock)

----------------------------------------------------------------------------
(* Properties.                                                             *)

OwnBids(i) ==
  {k \in Positions(Len(chain), "SolverBidSubmitted", i) : chain[k].solver = {Self}}

\* The agent keeps no record of what it bid on, and every event of an intent
\* makes it look again: still it bids once on an intent in each life of the
\* process, because what brings it back is a selection.
OneBidPerLife == \A i \in IntentId : Cardinality(OwnBids(i)) <= crashes + 1

FilledBySelf(i) ==
  \E k \in Positions(Len(chain), "IntentFilled", i) : chain[k].solver = {Self}

\* The plan is executed before the fill is even simulated, so a reselection, a
\* cancellation or the deadline can leave it executed for nothing, and nothing
\* remembers that it was.  It is never executed more often than the owner
\* selected, but for one more time for each error or crash.  And whatever crashes,
\* an intent filled without its plan is one whose lookup came back empty at least
\* once, or whose plan reverted: a plan that was found has landed before the fill.
PlansBounded ==
  \A i \in IntentId :
    /\ executed[i] <= Cardinality(Selections(i)) + errors + crashes
    /\ FilledBySelf(i) /\ i \notin planless => executed[i] > 0

\* Out of the agent's hands: the intent is closed or past its deadline, and the
\* chain of the instance may be at its end.
Moot(i) == ~IsOpen(i) \/ i \in late \/ errors > 0 \/ head = MaxBlock

\* docs/runbooks.md:38 says that intents left open by a crash are picked up on
\* restart, which they are with the START_BLOCK=0 of ops/start-services.sh: an
\* intent gets a bid, unless a selection comes first or no bid fits.
OpenIntentsPickedUp ==
  \A i \in Workable :
    OpenNow(i) ~> OwnBids(i) # {} \/ Selections(i) # {} \/ BidCount(i) = MaxBids \/ Moot(i)

\* A selected bid is filled, unless another bid is selected after all.  An intent
\* that requires an attestation may be skipped: one that is indexed only after the
\* event was processed comes too late.
SelectedBidsFilled ==
  \A i \in Workable :
    SelectedNow(i) = {Self} /\ i \notin attested ~> FilledBySelf(i) \/ Selected(i) # {Self} \/ Moot(i)
=============================================================================
