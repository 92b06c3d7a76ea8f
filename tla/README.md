# A verification of Cortex Chain in TLA+

Cortex Chain lets software agents trade: owners publish signed intents that
solvers bid on and fill, merchants quote and settle paid services, and smart
accounts keep an agent's spending under limits.  Contracts hold the rules; an
indexer, an API, a solver and clients live around them.  The modules here
model the contracts and services from their source, TLC checks them on small
instances, and TLAPS proves what matters most of the contracts, the indexer and
the API for every instance.  `PROJECT.json` maps each definition to the lines it models.

## 1. The system

Paths are relative to the repository.

### Inventory

| Component | State it keeps | Operations | What is hard | What makes it correct |
|---|---|---|---|---|
| `IntentBook` (`contracts/src/IntentBook.sol`) | intents, statuses, used nonces, bids, selected bid, three counters | `submitIntent`, `cancelIntent`, `submitBid`, `selectBid`, `fillIntent` | everybody races for one intent; re-selection; time passes between any two calls; relayed signatures | one terminal outcome per intent; a fill honours what the owner signed and then selected; no replay |
| `AttestationRegistry` | attestations, index by subject | `submitAttestation`, `revokeAttestation` | revoked between selection and fill | claims are never rewritten; the book accepts only live ones |
| `CommerceRegistry` | merchants, services, facilitators (two mappings), quotes, receipts, disputes, trust signals | eleven external functions | a quote can be committed again, a facilitator registered again; settlement around expiry | a receipt per commitment; only parties act; the trail only grows |
| `PolicyModule` | per account: daily limits, allowlists, guardian, frozen flag, payment policies, payment hashes | setters, `checkTransaction`, `recordSpend`, `recordSignedPayment` | limits change under a running window; a day that straddles two windows | the books balance; spending stays bounded; a payment hash pays once |
| `PolicyAccount` | session keys, their nonces | `execute`, `executeWithSessionKey`, configuration wrappers | the target re-enters, the guardian interferes, reverts undo part of the work | nonces let one execution through; a frozen account stands still; powers stay with the signer |
| `SolverRegistry` | solvers by id, index by operator, bonds in ether | register, update, `addBond`, `withdrawBond` | `withdrawBond` calls its sender, who may call back or revert | it holds exactly the bonds |
| `SettlementAdapter` | none | `executeSettlement` | each native line runs its recipient's code while the rest of the value waits | all lines or none; nobody draws on another settlement |
| `AgentRegistry`, `AttestorRegistry` | records by id | register, update, revoke | nothing on the chain; see the indexer | the rows made of their events agree |
| Indexer (`indexer/src`) | the database, the last processed block | poll, one handler per event | crash between any two queries, replay, swallowed errors, state read later than the event | rows follow the chain, replay does no harm, it catches up |
| Solver (`solver/src`) | a block cursor in memory | poll, `processIntent` | several transactions per intent, stale reads, no retry | bids once, executes what it fills, misses nothing |
| API (`api/src`) | off-chain bids and documents; reads the indexer's tables | REST routes | reads behind the chain; requests and the indexer write bid statuses concurrently | preflight agrees with the module; one selected bid |
| SDK, MCP server, web | none | encode calls, forward requests | multi-step client sequences | they call what the contracts expose |
| Deployment, vendored code | none | scripts; OpenZeppelin, ERC-4337, forge-std | | trusted |

### How they interact

Contracts are called by transactions, which are atomic and ordered, and share
only the clock.  `IntentBook` reads `AttestationRegistry` when it fills.
`PolicyAccount` asks `PolicyModule` before it calls out, and the code it calls
may call back; so may the code `SolverRegistry` and `SettlementAdapter` pay.
Each contract emits events; the indexer polls them block range by block range
and writes rows, which the API serves.  The solver polls the same events, asks
the API for metadata and attestations, and sends transactions.  The SDK posts
metadata to the API and transactions to the chain.

## 2. The modules and the code

| Module | Models | How |
|---|---|---|
| `AttestationRegistry` | `AttestationRegistry.sol` | state and both functions; extended by the book, which reads it |
| `IntentBook` | `IntentBook.sol`, with the registry and the clock | an action per external function, guards in the order of the code's reverts |
| `IntentLifecycle` | what the book promises | publish, agree, cancel, settle: no bids, flags, nonces or registries |
| `CommerceRegistry` | `CommerceRegistry.sol` | an action per external function; a mapping filled at a counter is a sequence |
| `PolicyModule` | `PolicyModule.sol` for one account | functions as actions the account composes |
| `PolicyAccount` | `PolicyAccount.sol` composed with the module | a stack of running executions, each with the state a revert restores |
| `Ledger` | `SolverRegistry.sol` and `SettlementAdapter.sol` over one ledger of ether and a token | a stack of calls to foreign code |
| `ChainLog` | the events of `IntentBook.sol` in their blocks | every order of events the book allows |
| `Indexer` | `indexer/src` over `ChainLog`: polling and `handlers/intents.ts` | one step per database query |
| `SolverAgent` | `solver/src` over `ChainLog` | one step per call to the node or the API; a mempool |
| `EventLoop` | the polling loop as all mirrors see it | a log, the tables, a position, a stored position |
| `CommerceMirror` | `handlers/commerce.ts` over `CommerceRegistry` and `EventLoop` | one step per query |
| `Participants` | `AgentRegistry.sol`, `AttestorRegistry.sol`, the events of `SolverRegistry.sol`, and `handlers/agents.ts`, `participants.ts`, `attestations.ts` over `EventLoop` | one step per read of the chain and per query |
| `PolicyMirror` | `handlers/policies.ts` over `PolicyModule` and `EventLoop` | a row per key of the table |
| `Gateway` | `routes/preflight.ts` over `PolicyMirror`, `routes/bids.ts` | one step per query; row locks of a transaction |
| `Sums` | additions over mappings and lines, used by the policies, the ledger and the indexer | one operator |
| `SumTheorems` | | what adding, changing and splitting does to a sum |
| `ChainTheorems` | | what a log is, and that `ChainLog` keeps it one |
| `RegistryProofs`, `CommerceProofs`, `PolicyProofs`, `LedgerProofs`, `IndexerProofs`, `SolverProofs` | | the theorems: of `IntentBook` and `Participants`, of commerce and its mirror, of accounts, their mirror and `Gateway`, and of one component each |
| `MC*` | | the constants of the instances TLC explores |

**Transactions that revert** leave no trace and are not steps, with one
exception: `FillExpiredIntent`, the late `fillIntent` that stores `EXPIRED` and
reverts, is recorded in a history variable, since a document makes a claim
about it.

**Signatures** are modelled by what they authorise.  Anyone may relay an intent
of the set `Intents`, which its owner signed; anyone may present a session order
of the set `Order`.  Recovering an address from a signature is trusted.

**A quote hash** binds every term of a commitment, so quotes are keyed by the
commitment and the only state is whether it is committed and settled.

**Mappings** are total functions with the EVM's zero default.  Where a record
exists exactly if its id was handed out, they are sequences.

**Foreign code.**  An execution of `PolicyAccount`, a withdrawal of a bond and a
native line of a settlement push a frame; until the frame returns or reverts,
other calls may happen.  A revert restores the snapshot of its frame, history
variables included.  The signer and the clock wait for an empty stack.

**Queries.**  A handler of the indexer awaits its queries one by one, outside of
a transaction.  In `Indexer`, `Queries` lists them per event, `todo` holds those
left, and between any two the process may crash, a query may fail and be logged
and skipped, the API may write, the chain may go on.  In the mirrors `pending`
holds what a handler keeps between its steps; they crash anywhere too, and a
handler fails there only when the database refuses its row.  Blocks, ranges and
failing queries are looked at once, in `Indexer`, and not again in each mirror.

**The solver** reads the chain call by call while it goes on.  Transactions it
sent land in order, some time later, also after a crash.  The amounts of its
bids are the bounds the owner signed and its fills repeat them, so a fill can
fail only on status, deadline or selection.

**Selecting a bid through the API** is a READ COMMITTED transaction of two
updates.  A bid row that a transaction has changed is locked until it ends; the
second update sees the rows that existed when it began (`selections`), waits for
those that are locked and looks at them again.

**Left out as data**: token addresses, fees, metadata texts, document hashes,
slippage after its range check, result and trace hashes.  Nothing compares them
after they were stored or emitted.

## 3. What is checked

`pass` runs explore every state of their instance; each property has a mutant, a
plausible bug in one definition, under which it fails.  Deadlock is not checked
anywhere: the bounds end every behaviour, and the systems may rest.

| Run | Instance | Properties |
|---|---|---|
| `intent_book` (420 k states) | one intent with every requirement, two bids of four kinds, an attestation, times 1..4; or three signed intents of two owners that share nonces | `TypeOK`, `SelectionConsistent`, `FillsHonourAgreements`, `NonceNeverReplayed`, `OneFillPerIntent`, `TermsAreImmutable`, `ImplementsLifecycle`, `TerminalIsFrozen` |
| `commerce` (504 k) | a transfer and an x402 quote, two commitments each, two receipts, a dispute, expiry at 1 of times 1..2; or two merchants, services, facilitators and quotes that borrow a service or lack a facilitator | `TypeOK`, `FacilitatorIndexExact`, `ChainSound`, `ReceiptsCovered`, `ActorsAuthorised`, `TrailOnlyGrows` |
| `policy` (609 k) | three spends of coin and token under limits 0..2 over two days and a half; or session orders, nested executions and a guardian; or signed payments | `TypeOK`, `BooksBalance`, `SpentWithinPeak`, `AtMostTwiceADay`, `NonceHonouredOnce`, `PaymentsRecordedOnce`, `FrozenMeansStill`, `PowersStayWithSigner` |
| `ledger` (855 k) | two accounts, solvers and settlements, foreign code two deep, a settlement whose lines do not add up | `ContractsCovered`, `SettledExactly` |
| `indexer_replay` (1.1 M) | one intent, two bids, two selections, two blocks, a crash or a failing query | `NoDataLoss`, `FillsBounded`, `SelectionsShown`, `FinalRowsStay`, `EventuallyIndexed` |
| `solver_agent` (385 k) | one intent, a rival, two selections, four blocks, lookups that come back with or without a plan, a crash or an error | `OneBidPerLife`, `PlansBounded`, `OpenIntentsPickedUp`, `SelectedBidsFilled` |
| `commerce_mirror` (1.3 M) | seven events of a merchant with two services that may share an id, a crash | `RowsReal`, `MirrorExact` |
| `participants` (927 k) | five events of an agent, a solver or an attestor with its attestations, a crash | `TablesAgree`, `RevocationsStay` |
| `gateway` (1.0 M) | four settings mirrored with a crash and a spend, eight kinds of calls asked about; or four bids selected by concurrent requests and the indexer | `PoliciesShown`, `PreflightAgrees`, `OneWinner` |
| `intent_expiry` | | finding: `LateFillRecorded` |
| `policy_rolling` | | finding: `RollingDailyLimit` |
| `indexer_latency` | | finding: `LatencyMeasured` |

An instance with an "or" is one run whose constraint keeps the state space to
the union of the alternatives (`Scoped`, `Focus`, `Separate`): each of them is
explored completely, combinations of them are not.  No run with a liveness
property has a constraint.

### What the properties say

*Intents.*  `ImplementsLifecycle` is refinement: mapped so that the agreement
is the selected bid and the settlements are the fill events, every behaviour of
the book is one of `IntentLifecycle`.  `FillsHonourAgreements` is about every
fill that ever happened, so a later selection, cancellation or revocation must
not turn it into a fill on other terms.  `SelectionConsistent` relates the two
copies of a selection, `NonceNeverReplayed` the intents of one owner.

*Commerce.*  `commitQuote` writes `settled: false` over a settled quote, so a
quote can be settled twice; `ReceiptsCovered` says that each receipt costs its
merchant a commitment.  `FacilitatorIndexExact` says that the two facilitator
mappings stay inverse through re-registrations by anybody.  `ActorsAuthorised` takes
the parties a rail allows from `docs/sdk-examples.md:62` and the tests, not from
the table of `docs/contracts.md` (section 5).  Nothing is claimed of a facilitator,
merchant or service that was deactivated after the commitment: its quote settles.

*Policies.*  `BooksBalance` compares the running total of each window with the
spends that are on record, through raised, lowered and removed limits, reverts
and re-entry.  The window tumbles, so `AtMostTwiceADay` is the bound it gives to
an arbitrary stretch of a day.  `PowersStayWithSigner` needs its premise: if the
module or the account itself is an allowed target, a session key may
reconfigure.

*Ether.*  `ContractsCovered` holds at every point foreign code runs: the
registry owns the bonds and the adapter what the settlements under way have
still to pay.  It needs no guard against re-entry because the bond is debited
before the call and each settlement pays from the value it brought.
`SettledExactly` says that between transactions every account owns what the
settlements that went through say it owns: none went through in part.

*Indexer.*  `NoDataLoss` bounds what every table says between where indexing
stands and the head of the chain, at every step, through crashes and replays,
as long as no query failed.  It does not claim exactly-once: `fills` has no key,
so a replay duplicates its rows, `FillsBounded` says by how much.  After a failing
query nothing is retried, and only `FinalRowsStay` and `FillsBounded` hold.
`SelectionsShown` says exactly what the bid table shows after re-selections: a bid
has the verdict of the first selection after it, since a selection touches OPEN
rows only, whatever the owner selects later.  That is less than a mirror of the
chain (section 5).

*Mirrors.*  Once a mirror has caught up it agrees with its contract, whatever
was crashed and replayed on the way (`MirrorExact`, `TablesAgree`,
`PoliciesShown`), with the exceptions the properties spell out: a quote with a
receipt stays settled in its table when it is committed again; two services of
one merchant under one id are refused by a unique index, and what hangs on the
second is lost; an attestor's counters count a replayed attestation once more;
a payment policy is shown for one facilitator of its merchant and token only; a
guardian that was replaced keeps its row.  In the meantime `RowsReal` and
`RevocationsStay` hold: no row is made up, and no revoked agent or attestation
shows as valid again, although a registration is completed from a record read
several calls too late.

*Solver.*  It keeps no record of its bids and looks at an intent again on every
event, yet `OneBidPerLife` holds, because what brings it back is a selection.
It executes an intent's plan before it simulates the fill: `PlansBounded` says
how often it may do so, and that of what it fills it executed the plan, but for
the intents in `planless`, where it went on without one.  That needs no error: a
metadata lookup that finds nothing, or finds no API to ask, says so to nobody
(`executor.ts:186`) and the agent fills all the same, and it does not look at the
receipt of a plan.  `LookUp` therefore may answer either way at any time.
`OpenIntentsPickedUp` and `SelectedBidsFilled` are liveness.

*API.*  `PreflightAgrees` compares preflight with `checkTransaction` on the same
settings, in both directions, and names each case where they differ: preflight
does not know what was spent, takes the amount of an NFT for money, and takes
selector zero for no selector.  `OneWinner` says that of two selected bids one
was inserted only after the selection of the other had looked for rivals.

### Bounds

The clock runs until just past the last deadline or one and a half windows past
the second, so every comparison is seen below, at and above its boundary.  Two
bids are the least that compete; two intents of one owner and of another the least
that share nonces; two facilitators and merchants the least that can be mixed up;
one payment policy, as hashes are used up across all of them (several policies are
in the theorem only); a stack of two calls is re-entry, and a third would re-enter
the same way.  Two spends fill a window and a third crosses it.  Two blocks are
the least for a range that is replayed alone.  Seven events reach from a
merchant's registration to the resolution of a dispute; five from an attestor's
registration past two attestations and their revocations.  Three bids let two
transactions wait for each other; a fourth arrives late.  Two selections are a
selection and its revision.  A second crash repeats what the first did.  Crashes
and failing queries share one bound (`MaxFaults`): either happens anywhere, both
in one behaviour only in the theorems, which bound neither.  The counters have no
bound in the code but the width of their type, which no feasible number of
transactions exhausts.

The mirrors change nothing their contract reads, so in `commerce_mirror` an
action constraint makes the contract's calls come first.  In `participants` and
`gateway` they interleave: there handlers read the chain.

### Fairness

The contracts have none: nobody has to send a transaction, and only safety is
claimed of them.  The indexer has weak fairness of its own steps: its loop ends
only by a signal, and the service definition in `infra/aws/main.tf` restarts the
task.  Nothing is assumed of the chain or the API.  `EventuallyIndexed` follows
because crashes are finitely many; a process that crashes on every replay never
gets past it.

The solver has weak fairness of its own steps too, being started again after a
crash included, as `docs/runbooks.md:38` presupposes.  A transaction that was sent
lands, and a block with events in it is mined; that owners select, or that
attestations are indexed, is not assumed.  A poll asks for the logs of all blocks
since the last one in one call (`solver/src/listener.ts:37`), so the fairness
takes a node that serves a range of any length.  `SelectedBidsFilled` speaks of
intents that require no attestation: one that is indexed only after the selection
was processed comes too late, since nothing looks at the intent again.  Both
properties exclude errors (`errors > 0`): an error ends the processing of an event
for good.

## 4. What is proved

All theorems hold for every value of the constants, so for any number of
intents, bids, quotes, limits, nested executions, events, crashes and failing
queries, any parties and any clock.  They rest on the assumptions the modules
declare of their constants: `ZeroAddress` is no sender, `ZeroHash` no subject,
the registry and the adapter are no accounts of others, intents, offers, orders
and instructions are records of the right type, bounds are naturals, and there
are finitely many solvers.

| Module | Theorem | Property |
|---|---|---|
| `RegistryProofs` | `TypeCorrect` | `TypeOK` |
| | `IdsAlwaysExact` | `IdsExact` |
| | `TerminalStaysFrozen` | `TerminalIsFrozen` |
| | `TermsStayImmutable` | `TermsAreImmutable` |
| | `NonceSafe` | `NonceNeverReplayed` |
| | `SelectionSafe` | `SelectionConsistent` |
| | `FilledOnce` | `OneFillPerIntent` |
| | `FillsSafe` | `FillsHonourAgreements` |
| | `BidsAlwaysSound` | |
| | `BookImplementsLifecycle` | `ImplementsLifecycle` |
|  | `AlwaysInOrder` | |
| | `TablesAlwaysAgree` | `TablesAgree` |
| | `RevocationsAlwaysStay` | `RevocationsStay` |
| `CommerceProofs` | `TypeCorrect` | `TypeOK` |
| | `FacilitatorIndexAlwaysExact` | `FacilitatorIndexExact` |
| | `ChainAlwaysSound` | `ChainSound` |
| | `ReceiptsAlwaysCovered` | `ReceiptsCovered` |
| | `ActorsAlwaysAuthorised` | `ActorsAuthorised` |
| | `TrailAlwaysGrows` | `TrailOnlyGrows` |
| | `MirrorIsPassive` | |
| | `RowsAlwaysReal` | `RowsReal` |
| | `MirrorAlwaysExact` | `MirrorExact` |
| `PolicyProofs` | `TypeCorrect` | `TypeOK` |
| | `BooksAlwaysBalance` | `BooksBalance` |
| | `SpentAlwaysWithinPeak` | `SpentWithinPeak` |
| | `AlwaysAtMostTwiceADay` | `AtMostTwiceADay` |
| | `NonceAlwaysHonouredOnce` | `NonceHonouredOnce` |
| | `PaymentsAlwaysRecordedOnce` | `PaymentsRecordedOnce` |
| | `FrozenStaysStill` | `FrozenMeansStill` |
| | `PowersAlwaysStay` | `PowersStayWithSigner` |
|  | `AlwaysPoliciesShown` | `PoliciesShown` |
| | `PreflightAlwaysAgrees` | `PreflightAgrees` |
| | `AlwaysOneWinner` | `OneWinner` |
| `LedgerProofs` | `AlwaysExact` | |
| | `ContractsAlwaysCovered` | `ContractsCovered` |
| | `AlwaysSettledExactly` | `SettledExactly` |
| `IndexerProofs` | `AlwaysSound` | |
| | `NoDataEverLost` | `NoDataLoss` |
| | `FillsAlwaysBounded` | `FillsBounded` |
| | `SelectionsAlwaysShown` | `SelectionsShown` |
| | `FinalRowsAlwaysStay` | `FinalRowsStay` |
| `SolverProofs` | `AgentInvAlways` | |
| | `AlwaysOneBidPerLife` | `OneBidPerLife` |
| | `PlansAlwaysBounded` | `PlansBounded` |

*Sums.*  The library's induction theorems take a predicate as a parameter, which
the provers cannot instantiate.  `SumTheorems` therefore derives, from the
library's well-founded relations, an induction over sets of naturals
(`Induction`): a set without a least counterexample has none.  With it the sums
of `Sums`, which are folds, are shown not to depend on the order of addition, to
change by what one summand changes, and to split over disjoint sets.

*Intents.*  The inductive core is `TypeOK /\ IdsExact`.  `IdsExact` says that
exactly the ids below a counter hold records; without it a fresh id might
overwrite an intent, a bid or an attestation, and none of the properties about
the past is inductive.  With it, four lemmas about one step (`FrozenStep`,
`IntentStep`, `BidStep`, `AttestationStep`) say what a step cannot touch; the
action properties are those lemmas under a box, and `FillsSafe` combines them: a
new fill honours the agreement by the guards of `fillIntent` (`FillHonours`), and
an old one keeps doing so because a filled intent is frozen and its terms are
immutable (`HonoursStep`).

*The refinement.*  `BidsAlwaysSound` adds that every bid was made by a solver
and within the terms of its intent, which is what `Agree` demands of an
agreement.  Then one lemma per function: `SubmitPublishes`, `CancelCancels`,
`SelectAgrees`, `FillSettles`, and `OthersStutter` for the rest.  The delicate part
is that the mapping reads the selected bid of the present: a settlement keeps
its terms because its intent is frozen (`SettlementsKeep`), and an agreement
because a selection lowers and raises flags only (`AgreementKeeps`).

*Commerce.*  `TypeOK` and `FacilitatorIndexExact` are inductive together: a
registration updates two mappings at the id one of them names.  `ChainSound`
and `ActorsAuthorised` follow step by step, as records only ever change in the
columns these do not speak of.  `ReceiptsCovered` counts: a receipt adds one
to the cardinality of its quote's receipts and takes the one the open quote
stood for.

*The mirror of commerce.*  `MirrorIsPassive` first, so that what is proved of
the contract holds of the composition.  The invariant `MirrorInv` then says of
each table two things.  Every row stems from an event (`...Real`).  And a record of
whose kind and id no event is left to handle, at the position indexing is at, is
shown as the contract has it (`...Fresh`, `Quiet`): a step that emits an event makes
its record unquiet, the handler of the last such event makes it right, a crash
rewinds the position and so only makes records unquiet.  Caught up, everything
is quiet.

*Policies.*  A revert brings back an earlier state, so no property of the
present state alone is inductive: the invariant `IInv` says the same of the
present state and of the snapshots saved in `calls` (`Saved`).  `FrozenMeansStill`
also needs that snapshots are ordered (`OrderInv`): a revert may bring back only
records as short as those of the present.  `BooksBalance` is kept in the same
way, per window: a spend appends one record and adds its amount to one sum.
`AtMostTwiceADay` follows from it and `SpentWithinPeak`: the spends of a
stretch of a day fall into at most two windows, and each of the two sums is
within the peak.

*Ether.*  `IInv` of `LedgerProofs` says of the present state, and of the state
saved in each frame together with the frames below it, that the registry owns
the bonds, the adapter the lines still to be paid in those frames, and every
account its endowment, less its bond, plus the settlements that went through and
what those under way have done so far (`Exact`).  A call pushes a frame whose
snapshot satisfies `Exact` without it, so a revert restores the invariant; a line
that is paid moves its amount from one sum to another.

*The mirror of policies and preflight.*  `TableInv` says that for every setting
the last event of the log about it carries the value the contract has
(`LastIsCurrent`), and that a row shows it once no event of its key is left.  The
guards of preflight are then compared one by one with those of
`checkTransaction`, over the rows a caught-up mirror has.

*Selected bids.*  A transaction in progress selects a bid that is still open
(`SelectionsInv`), and a committed selection has left no open bid among the rows
it saw (`SweptInv`).  So a bid that is about to win is in the sweep of no winner,
and of two winners the later one was not seen by the earlier.

*The log.*  `ChainOK`, in `ChainTheorems`: events come in blocks, an intent's
submission before its other events, one end only, the proof right behind the
fill, the bids of an intent numbered as they come.  Every transaction of
`ChainLog` keeps it, and so does every component that reads the log.

*The indexer.*  The invariant has three layers.  `ChainOK` is the first.  `Place`:
the running process is at an event of the range it polled, with the queries of
that event it has still to do, and the stored block is behind it.  With these,
`Passed` says that a query of an event is behind the process, in this life or
below the stored block, and `Kept` says of every table what a passed query left
there: receipts, bids, fills, proofs, metadata; a status is that of a prefix of
the log that is no shorter than the events the row was told of (`StatusKept`),
which is why an older event replayed over a newer row is harmless.  A crash makes
fewer queries passed and touches no table, so it keeps all of this.
`FillsBounded` counts instead: an intent has a row per crash, and one more only if
this life already inserted it (`FillsCounted`), and a credit follows its row
(`CreditsCovered`). `SelectionsShown` holds because a bid has a row only once it
was passed (`RowsReal`), so that the first selection to find the row is the one
that decides (`Decides`): until it is passed the row is open or has its verdict,
from then on it has the verdict (`Decided`), and no later selection touches a row
that is not open.  After a crash this is claimed only of bids no selection came
before (`Fair`), over which none can be replayed.

*Participants.*  The first half of the invariant, `ContractInv`, speaks of the
contracts alone: the log tells what the registries hold.  A record was opened by
one event, an operator by one per registry, and the last event that sets a column
says the value the column has.  The second half says what the handlers made of
that log: a record has a row once its first event is handled, and a column of the
row is right as soon as no event still to come sets it (`Settled`).  A crash only
puts events back among those to come.  Handlers that read the contract read the
present, not the state of their event; what they read is then newer than the
event, and the invariant says of the record read but not yet written
(`PendingRight`) the same as of a row.  A row never shows a revocation before
there was one, and `RevocationsStay` needs that a revocation on record is what
every later read returns.  The counters of the attestors are counted: what is due
among the events handled in this life or an earlier one is at most the counter,
and each crash lets it exceed that by one per event at most (`Counted`).

*The solver agent.*  It keeps no record of what it did, so neither of its
properties is inductive, and what it may still do has to be counted with what it
did.  `AgentInv` keeps two accounts, per intent.  `BidsAccount`: its bids in the
log, its bids in the mempool and the bid that may yet come in this life
(`MayBid`: the submission is not polled yet, or is queued or in hand and no
selection is seen) are at most `crashes + 1` together.  That takes `Queued`: an
intent is queued twice only if a selection can be seen, so what brings the agent
back to an intent is what keeps it from bidding.  `PlansAccount`: the plans
executed, those in the mempool, the one it is committed to (`Committed`, between
the choice of its role and the plan) and the one that may come for the selection
that stands (`MayExecute`) are at most the selections seen, plus errors and
crashes.  A selection pays for one chance, an error or a crash for the repetition
of what it cut short; a landed transaction moves from the mempool to what is
done.  `FillsAfterPlans` follows the agent from the plan to the fill: of an intent
that is not in `planless` the fill is simulated, sent and lands only after the plan
was executed.

Model-checked only: liveness (`EventuallyIndexed`, `OpenIntentsPickedUp`,
`SelectedBidsFilled`), which is out of the prover's reach.  Every invariant and
every action property of the passing runs is a theorem.  The three findings are
counterexamples and stay with TLC.

## 5. Where documents and code part

- `docs/decisions.md:43`: an expired intent "appear[s] OPEN until someone attempts
  to fill" it.  The attempt reverts and takes the `EXPIRED` status back.
- `docs/contracts.md:157`: a "24-hour rolling window".  The window tumbles: twice
  the maximum fits into one day.
- `docs/api.md:559`: "average latency blocks".  The indexer overwrites the block
  the latency is measured from before it measures it: the average is always 0.

Seen while modelling, and not a run:

- `docs/contracts.md:294` says of `resolveDispute` "Resolve or reject an open
  dispute".  A resolved one can be resolved again, with another outcome;
  `TrailOnlyGrows` claims only that it is not reopened.
- `docs/runbooks.md:38` has a restarted solver pick up open intents.  That takes
  `START_BLOCK=0`, as in `ops/start-services.sh`, and so in `solver_agent`; with
  the default of `solver/src/config.ts`, `latest`, it does not (the mutant of
  `OpenIntentsPickedUp`).
- `SettlementAdapter` keeps no state: the same instruction can be executed by its
  payer again until its deadline.  An ERC-20 line may name the adapter as its
  recipient, and nothing gets the tokens out again.
- `docs/contracts.md:289` has `commitQuote` require an active facilitator and
  `:290` lets the quote's facilitator alone record its receipt.  The code, its
  tests and `docs/sdk-examples.md:62` do so for the facilitator and x402 rails; on
  the direct rails a quote needs no facilitator, and its merchant or agent
  records the receipt.
- `docs/api.md:499` has the API mirror the bid events.  When an owner selects
  another bid, the row of the first stays SELECTED and the row of the second
  stays REJECTED (`handlers/intents.ts:239`): the table shows the first selection,
  the chain the last.
- A solver that cannot get at the metadata of an intent fills it without executing
  its plan, silently (`solver/src/executor.ts:186`).  No document says what it
  should do then; `PlansBounded` names these intents.
- A bid posted after the API selected another one stays OPEN and can be selected
  as well; `OneWinner` is worded accordingly.
- The reset in `docs/runbooks.md` truncates `intents` without the tables that
  refer to it, which PostgreSQL refuses, and does not list `solvers`, whose fill
  counters a full re-index would add to again.

## 6. Not modelled

- *SDK, MCP server, web*: they keep no state of the protocol.  The one sequence
  the SDK has, `createIntent`, is what `Indexer` means by metadata reserved
  before the submission.  It puts the metadata again once the intent is indexed,
  for which it waits thirty seconds at most; neither model relies on that wait.
- *The rest of the API*: the routes for quotes, fulfillment, catalogs and
  attestation schemas overwrite a row keyed by the hash of its own content; the
  others are queries, or normalise an x402 header.
- *Chain reorganisations*: logs are append-only, as on the single-sequencer
  chains the deployment scripts target.
- *Deployment scripts* run once.  *Vendored libraries* (ECDSA, ERC-20 transfers,
  the ERC-4337 account) are trusted and external.
- *Arithmetic overflow*: the contracts are compiled with checked arithmetic, and a
  call that overflows reverts, which is not a step.

What a next step would add:

- A proof that the events of `IntentBook` are a `ChainLog`.
- Reorganisations, once the indexer has to deal with them.
