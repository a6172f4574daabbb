# Metacrdt: a TLA+ development

TLA+ specifications of the replicated event store in this repository and of the
workflow, rule and timer machinery on top of it, the TLC configurations that
model-check them, and theorems about them that TLAPS proves.
Run a configuration with `tlc -workers 2 -config <cfg> <module>`, the proofs with
`tlapm <module>`.

## The system

A replica keeps a grow-only log of immutable events (assert, retract, tombstone,
untombstone). Every value an application sees is a fold of the log at a
transaction time and a valid time; conflicts are resolved by a total order of
events. Replicas exchange events; there is no coordinator.

| Part | Source (`src/packages/`) | State | Operations |
|---|---|---|---|
| Clock | `core/src/hlc.ts` | pure | tick, receive, compare |
| Log, order, fold | `core/src/{log,order,fold}.ts`, `runtime/src/projection.ts` | the log | add, merge; visible, value, rows |
| Operations | `runtime/src/operations.ts` | none of its own | applyOperation: tick, number, append, publish; mergeFrom: append each, receive |
| Synchronous services | `runtime/src/{local,memory}.ts` | clock, sequencer, store, each in memory and in storage | tick, receive, next, append, merge |
| Asynchronous services | `local/src/async.ts`, `node/src/index.ts`, `cloudflare/src/durableObject*.ts` | the same, with an await between memory and storage | the same |
| Peer transport | `runtime/src/{p2p,sync}.ts` | connected channels | connect, close, announce, publish, handle, gossip |
| Other transports | `runtime/src/broadcast.ts`, `cloudflare/src/relay.ts`, `node/src/index.ts` (HTTP) | channel, sockets, none | the same messages on one bus, through a hub, by pull and push |
| Durable Object | `cloudflare/src/{durableObjectSqlite,sqliteCurrent,sqliteAlarm,sqliteLive}.ts` | SQL tables: events, rows, collections, timers, runs, subscriptions | append and reconcile, issue and submit, schedule and fire, arm and drain, subscribe and publish |
| Convex component | `convex/src/component` | tables in serializable transactions | append, rebuild |
| Facts and rules of the application | `apps/convex-demo/convex/{facts,rebuild,materialize}.ts`, `convex/src/reconcile.ts` | tables facts, currentFacts, derivedFacts, ruleInvalidations; scheduled functions | assert, retract, tombstone, correct, rebuild; process a change, recompute |
| Flows and collections of the application | `apps/convex-demo/convex/{flows,forms}.ts`, `workflow/src`, `collect/src` | tables flowDefs, flowRuns; status facts; scheduled functions | define, start, advance, park, resume, submit, cancel, tick |
| Query, schema, clients, views, dashboard, Forma | the remaining packages | none of the protocol | |

How the parts interact: an application calls `applyOperation`; it draws a
timestamp from the clock and a number from the sequencer, appends to the store,
and hands the event to the transport. A transport that receives events calls
`mergeFrom`, which appends them and lets the clock observe the largest of their
timestamps. When a channel opens, peers send version vectors (the largest number
held of each replica) and answer with what is above. Readers fold what the
store holds. In the application a write schedules `processFactChange`, which
schedules recomputations of rules and resumptions of flows; a flow that parks
schedules its own wake, action or expiry. In a Durable Object the host calls the
surface and `arm`; the one alarm starts a drain that fires the ticks that are due.

What is hard: every `await` lets other calls run; storage can refuse a write
after memory has changed; a process can stop between any two awaits; channels
close with messages in them; events arrive in any order and along several paths;
scheduled functions run late, in any order, and are never cancelled; one alarm
stands for many ticks. What makes each part correct:

* clock and sequencer: no two events share a stamp or a number, and what a
  replica stamps lies above its own events and above what it had merged,
  whatever fails in between;
* store and transport: nothing is invented, nothing is forgotten, what leaves a
  replica is durable there, replicas converge, and messages stop;
* fold: a function of the set of events, equal to the specification's, stable in
  the past;
* rules: whatever of their output is wrong has its repair due, and once writing
  stops it is right;
* flows: a run is interpreted once, is left behind by nothing but its interpreter's
  own limits, and stays ended;
* ticks: each settles once, and the alarm never comes after one that is pending.

## Modules

| Module | Models | Checked by | Proved in |
|---|---|---|---|
| `Hlc` | clock operators | `Replica`, `Fold` | `Orders` |
| `Replica` | one replica's calls, storage, crashes | `MCReplica` | `ReplicaProofs` |
| `EventLog` | abstract: what a replicated log promises | `PeerSync` | `EventLogProofs` |
| `PeerSync` | peer sessions over a network; implements `EventLog` | `MCPeerSync` | `PeerSyncProofs` |
| `Fold` | log, order, visibility, value, rows | `MCFold` | `FoldProofs` |
| `FlowRuns` | flows and collections of the application | `MCFlowRuns` | `FlowRunsProofs` |
| `FactRows` | its facts and their current rows | in `Materialize` | `MaterializeProofs` |
| `Materialize` | its rules and closure; extends `FactRows` | `MCMaterialize` | `MaterializeProofs` |
| `Operations` | a Durable Object's collections, runs, ticks and alarm | `MCOperations` | `OperationsProofs` |
| `Orders` | no code: the order of timestamps, least and largest numbers, induction over numbers, used by the proofs | | itself |

### Replica

Each step of a call up to its next await is an action. `pc[o]` says how far
operation `o` is, `mergePc[d]` how far merge `d` is; `clock`/`diskClock`,
`seq`/`diskSeq`, `events`/`disk` are memory and storage. `Async` chooses the
services. The synchronous ones (`LocalClock.tick` and the like) change memory,
write and return in one turn: `TickSync`, `NumberSync`, `ReceiveSync`, each with
an outcome where the write throws and memory keeps the change. The asynchronous
ones (`NodeSqliteClock.tick` and the like) are two actions, call and return, with
the write queued between; the return reads the field again, as the code does.
`AppendEvent` and `MergeOne` append one event (`Stored`), or fail (`NotStored`):
`LocalEventStore` then keeps the event in memory, a row store does not, and an
event already held is not written. A row store's append looks for the row, awaits,
and inserts it: it is one step, at the insertion, which fails if the same event came
in between. `Crash` ends every call and reloads memory
from storage. The variables `shown`, `received` and `observed` are history, read by
properties only.

Abstractions: the content of an event is the operation that made it; its id, a
hash, is the event itself; events without a number (a legacy format) are left
out, and with them the upgrade of such an event in `append`. The body of an
operation is not interpreted. The storage answers writes in order.
`AsyncLocalClock` and `AsyncLocalSequencer` are of the asynchronous family;
`AsyncLocalEventStore`, which shows an event in memory before it awaits the write of
the whole map, is of neither, and is not modelled.

### EventLog and PeerSync

`EventLog` has two actions: a replica authors a fresh event, or learns events some
replica holds. `PeerSync` is `PeerDataChannelTransport` on every replica of a
network. A link is a pair that may hold a channel. `Open` is `connect` and its
`onOpen`, with the hello of each end that announces; `HandleHello` and
`HandleEvents` are `#handle`; `tasks[r]` holds the sends computed before an await
and done after it (`Send`, `Recipients`: `#send`); `merges[r]` holds the merges in
the middle of their loop (`MergeOne`, whose last turn makes the gossip due).
`MergeFails` is a merge that throws, in an append or in the `clock.receive` after the
last one: the rest of the batch and its gossip are dropped and the channel stays
open, so that only a channel opened anew brings them. The history variable `failed`
remembers which open channels that concerns.
`Close` empties the channel both ways, `Restart` also ends the replica's own work
and keeps its store and sequencer. Closings, restarts and failing merges are the
losses that `MaxLoss` bounds.

Abstractions: an event is the pair of its origin and number, which theorem
`StampsUnique` of `ReplicaProofs` justifies for the synchronous services;
`Author` is a whole `applyOperation` that succeeds, one at a time per replica, since
`Replica` has its inside; a store holds what is durable, as the row stores do (the
event that `LocalEventStore` keeps when its write fails is in `Replica` only; that it
may leave in a hello's answer is listed below); both ends notice a close at once;
identical sends or merges due
at the same time are kept once, as merging is idempotent; the wire format and
`from`/`to` addresses are left out, since a channel has two ends only.
`Announces` holds the replicas whose option `announceOnConnect` is set.

Fairness (`FairSpec`): the event loop of every replica runs its turns
(`Work`), an open channel delivers (`Deliver`), and a link that may open does
(`Open`: the application reconnects). Authoring, closing and restarting are not
forced. Each of these is what a running process and a reliable ordered channel
give; without the last, peers that never meet again need not converge.

### Fold

The log is the sequence of arrivals, the order in which a `Map` iterates; `Next`
adds any event of the system in any order, also a correction before its target.
`Visible`, `Value` and `Rows` follow the code's own passes over that sequence; each
pass is a fold (`Passing` is `Array.filter`), so that the proofs can unfold it.
The cardinality of an attribute is a fact of the same log: `CardinalityOne` reads the
attribute `cardinality` of the entity that describes it (`AttrId`), at the coordinate
asked about, as `cardinalityFromLog` does, and falls back on the built-in ones
(`BuiltInOne`). An arriving declaration can therefore change rows of every entity
that has the attribute. The properties compare all this with definitions on sets,
written from `specs/reference/protocol.md` 5.2, 5.3 and 5.4.

### FlowRuns

Every Convex mutation is one action, as Convex runs mutations as serializable
transactions. `runs` is the table flowRuns, `defs` the definitions, `mirror` the
values of the fact flow.run.status, `queue` the scheduled functions that are due:
`AdvanceFlow`, `ExpireTick`, `Wake`, `ResumeAction` (runActionStep with the
mutation it calls), and the two hops of the event path, `ProcessSubmission` and
`ResumeOnSubmission`. They run in any order and however late; a scheduled action
may be lost (`LoseAction`). `TokenInvalidReason` is the predicate of
`packages/collect`, `DefineFlow` may redefine a flow under its runs.

`Walk` is the loop of `advanceFlow`: calls of `stepFlow` up to the step that parks or
ends, a new call after each branch. Three things end it early. `stepFlow` throws after
`maxSteps` steps (50), and at an assert step whose value comes from the context when
the context lacks it (`requireValue`): Convex then undoes the whole `advanceFlow`. And
`advanceFlow` returns after 50 calls of `stepFlow` (`flows.ts:568`), keeping what was
asserted. The run is left running with nothing scheduled; `stranded` is history and
marks it. Values in a context are of two kinds: the context that `startFlow` was given
has what the definition reads, the answers by which a submission replaces it do not.

A collection has a target: the answers become facts of the application ("host") or go
to the log of the Convex component ("component"), whose submissions resume none of the
application's runs. `startCollect` reuses a live run of either target,
`issueActionCollectRun` one of its own target only, so that one link of each may be live.

A definition's steps are a function from identifiers out of `StepId`. Abstractions: all
runs are of one subject; a branch asks whether an attribute is
asserted; scopes are "given" or empty; reminder and escalation ticks, which change
a label only, are left out. Fairness: scheduled mutations run, and time passes
(`TokenLapses`); actions, submissions and cancellations are not forced.

### FactRows and Materialize

`FactRows` is the write path: `asserted`, `retracted`, `tombstoned` and
`corrections` are the columns of the table facts, `current` the facts with a row
in currentFacts, `changes` the calls of `processFactChange` that are due.
`AssertInTx` includes the reconciliation of cardinality one, whose winner is the
last in the order of events, not of transactions. `Materialize` adds the rules:
`ProcessFactChange` marks rows stale and schedules; `RecomputeRule`,
`RecomputeRuleForEntities`, `RecomputeTransitiveClosure` and
`IncrementalClosureAdd` are the recomputations, each a transaction of its own. In
`Init` the rules' rows are what the recomputation that `defineRule` schedules leaves
before the first fact. Which changes concern a rule is what `defineRule` was given
(`DependsOnAttributes`), which the code compares with nothing; that it names every
attribute the rule reads is the assumption `DependencyAssumption`.

Abstractions: a Datalog rule is its set of ground bindings; its support counts and
the provenance of closure pairs are left out; rules do not read the output of
rules; rules with materialization "manual", which are marked and never recomputed, are
left out; facts are valid for ever; the cardinality of an attribute (`OneAttr`) is
declared before its first fact and stays, where the code reads its current value at
every write. Fairness: scheduled functions run.

### Operations

One call of the surface is one step: SQL calls return at once, and the awaits
between them are on promises already settled, so no other call comes in. There is
no transaction around a call, so one that throws keeps what it did:
`ExecuteWaitStep` writes the run before the timeline event that may clash.
`RecordDagRun` and `ResumeDagRun` write whatever status and step the caller names,
"waiting" at a wait step too, and schedule no tick. The history variable `untimed`
holds the runs parked in either way, until a tick of their step is scheduled. A drain
awaits between ticks, so
`StartDrain`, `DrainNext` and `EndDrain` are steps of their own, and `AbortDrain` is
a storage failure or an eviction in between, after which the platform delivers
the alarm again. `owed` says that the host has scheduled a tick and not yet called
`arm`. Fairness: time passes, the host arms what it scheduled, alarms are
delivered and drains run.

## What the runs check

| Run | Bounds | Shows |
|---|---|---|
| `replica_sync` | 2 operations, 1 merge of up to 2 remote events, wall clock 0 or 1 (and stepping back), any write may fail, 1 crash | `UniqueStamps`, `StampAboveObserved`, `PublishedDurable`, `NoGapWithoutFailure` |
| `replica_async` | the same, asynchronous, no crash | `PublishedDurable` |
| `replica_async_unique` | as above | `DistinctStamps` fails |
| `peer_pair` | 2 peers, 2 events, 2 losses (a channel, a process, a merge that throws) | `SentIsHeld`, `AuthoredAndKept`, `ImplementsLog`, `VectorsConverge`, `ConvergeWithoutLoss` |
| `peer_triangle` | 3 peers all linked, 1 event, two of them announce | `Quiescence`, `VectorsConverge` |
| `peer_hole` | as `peer_pair` | `EventualConvergence` fails |
| `fold` | 7 events, one of them the declaration of a cardinality, every order of arrival, 3 transaction and 2 valid times | `VisibleAsSpecified`, `ValueIgnoresArrival`, `RowsAreValues`, `HistoryStable`, `ChangesAreLocal` |
| `flow_runs` | a run of a definition or of a collection and one of a collection, both targets, definitions with every kind of step, 2 steps in one call and 2 calls, 1 submission without a link | `RunningIsScheduled`, `MirrorIsStatus`, `OneLiveCollect`, `EndedStaysEnded`, `Settles`, `SubmissionResumes`, `ExpiryEnds` |
| `flow_action` | one run of a definition, 2 submissions without a link | `ActionResultRecorded` fails |
| `materialize` | 5 facts, 3 mutations, a local, a scoped and a constant rule, a closure | `CurrentIsVisible`, `OneValue`, `NoLostUpdate`, `UnfoundedIsStale`, `ClosureComplete`, `RulesCatchUp` |
| `operations` | 1 collection with a tick, 1 run with two wait ticks, recorded and resumed with every status, batches of 1, 2 times, 1 drain that ends early | `AlarmCovers`, `WaitTimed`, `SettledForGood`, `TicksSettle` |
| `rule_superseded` | an attribute of cardinality one asserted twice, a rule of another entity that needs its first value | `RulesCatchUp` fails |

Each passing run but `replica_async` and `peer_triangle` also checks its module's
`TypeOK`. `CHECK_DEADLOCK FALSE` is set where the system may come to rest: all
operations done, all events everywhere, all bounds used up.

Why the bounds are enough to be interesting. Two operations and a merge give every
pair of calls that can overlap; the remote timestamps lie ahead of the wall
clock, so ticks and receives meet equal and unequal milliseconds and every branch
of `receive`; the crash may fall between any two awaits. Two events and one loss
are the least that leave a hole, and two losses the least of which one can hit the
recovery from the other; a third peer is the least for gossip past a
neighbour, and a triangle the least with a cycle (its
peers also reach each other directly: that gossip alone carries an event across a
line of peers is not checked). Fold's events are two asserts of one attribute with
one timestamp, a retract of one of them, and the declaration of that attribute's
cardinality with two tombstones and an untombstone, between them and in the
millisecond of the second; so cardinality comes and goes while there are two values
to choose from. Two runs are the least that compete for
one link; a second submission is the least that is one too many. Two steps and two
calls are the least with which the definitions meet each way of being stranded, and
each definition also has paths that stay within them. Three mutations
are the least that make, break and make again what a rule or a pair rests on,
with recomputations of each change still to come. Two wait ticks are the least of
which one can be late for a run that has moved on, and three ticks with batches of
one leave ticks for later drains.

### What the code does otherwise than documented

Four runs end in a counterexample.

* `replica_async_unique`: the services that await between changing a field and
  returning it give two overlapping operations one timestamp and one number: first
  both tick while the other awaits, then both number. Version vectors rely on numbers
  being unique.
* `peer_hole`: a restart loses one of two live events while the other is being merged,
  and leaves the later event without the earlier one; the vector names the later, and
  no exchange fills the hole. `VectorsConverge` and `ConvergeWithoutLoss` are what does
  hold: vectors agree in the end whatever is lost, once channels open anew on which a
  merge failed, and stores do when nothing was lost.
* `flow_action`: a run keeps the form of its last collect step, so a second
  submission for it takes the run past the action step it waits at, without the
  action's result. `SubmissionResumes` and `EndedStaysEnded` hold nonetheless.
* `rule_superseded`: a value of cardinality one that is superseded is retracted
  without a notification; a rule of another entity that rests on it keeps its row,
  not marked stale, for ever. In the run `materialize` the
  rules over such an attribute are a local and a constant one, and `RulesCatchUp`
  holds.

Met while modelling, by reading; no run shows them.

* `runtime/src/operations.ts:231`: between the appends of a merge and
  `clock.receive` an operation may be stamped below events its reader already sees.
  `StampAboveObserved` speaks of merges that had completed.
* `runtime/src/local.ts:192`: an append that failed to persist stays in memory, and
  its retry reports success without writing. Peers may be sent the event in the answer
  to a hello, though `publish` never runs.
* `runtime/src/p2p.ts`: after a merge that threw nothing says hello on the channel
  again, so what it dropped is missing until the channel opens anew.
* `cloudflare/src/sqliteCurrent.ts:3432`: without `currentCoord` the coordinate of
  the reconciliation is read before the append ticks the clock, so the row of the
  event just appended is missing until a later append to its key or a rebuild.
* `cloudflare/src/sqliteCurrent.ts:1420-1474`: a submission whose assertion fails
  leaves its token submitted. `fireTick` does not ask whether a tick is due. A late
  wait tick wakes a run that waits at another step (`sqliteCurrent.ts:2710`). A run
  recorded as waiting at a wait step, or parked by a call that failed after writing the
  row, has no tick unless the host schedules one.
* `convex-demo/convex/forms.ts:235`: the consumed flag of a token is not cleared
  when a later collect step of the run sets a new one, whose link then answers
  "already submitted". A submission replaces the run's context (`forms.ts:234`), so
  a later scope taken from it is empty. The expired branch (`forms.ts:168-175`) sets
  the row and not the status fact, also of a run that had ended.
* `convex-demo/convex/flows.ts`: wakes, ticks and action callbacks do not name
  their step; a submission processed before its run parks is lost; an action that
  is lost leaves its run waiting; a run whose step a new definition lacks completes.
  Of a run that the interpreter strands (above) nothing tells, and no call takes it up.
* `convex-demo/convex/materialize.ts:433`: an addition to the closure that runs after
  its edge was retracted puts the pairs back unmarked and ignores the maximal depth.
  Its comment (`materialize.ts:370-371`) names the only new pairs; with the option
  `reflexive` it leaves out the pair of `u` with itself, which the full recomputation
  adds (`materialize.ts:583`), unless the edge closes a cycle. With
  `Reflexive = TRUE` in `materialize.cfg`, `ClosureComplete` fails at the first
  addition; `PathsNeverMissing` is what holds for both. A recomputation clears invalidations of
  changes it has not seen. Rules that read the output of rules are not notified
  (`materialize.ts:742`).
* `convex-demo/convex/facts.ts:268`: of two equal triples only one has a row, and
  retracting that one hides the other until a rebuild. A correction of an
  attribute of cardinality one can leave two visible facts (`OneValue` makes the
  exception).

## What is proved

For every value of the constants (any number of replicas, operations, deliveries,
events, links, losses and crashes), from the assumptions named in the modules:

* `Orders`: timestamps are strictly totally ordered; tick and receive go
  strictly up, whatever the wall clock reads.
* `ReplicaProofs`: `TypeCorrect` for both families. For the synchronous one:
  `StampsUnique`, `StampsAboveObserved` (above what had been shown or whose merge had
  completed; with `NumberAboveOwn`: numbers go up, too) and
  `HolesComeFromFailures`. None of these is inductive:
  that a stamp is new says nothing of the durable clock a restart goes back to.
  The inductive `SyncInv` adds that the durable clock and number are at or above
  everything handed out or received (`ClockCovers`, `NumberCovers`), that a place
  in the code determines what an operation has been given (`Progress`), that no
  write is ever under way (`NoWrites`), and that shown events are exactly those of
  operations that drew both values (`ShownIsAuthored`). One lemma per conjunct
  shows that every step preserves it. `PublishedIsDurable` holds of both families; for
  the asynchronous one `AsyncInv` says that memory and storage hold the same events.
* `EventLogProofs`: logs only grow, hold only events of the system, and whoever
  holds an event, its author does.
* `PeerSyncProofs`: `PeersImplementLog`: every behaviour of the sessions, with
  losses, restarts and failing merges anywhere, is one of `EventLog`. The mapping is the store
  itself; the work is that whatever is being merged is held by some replica,
  `SentIsHeld`, which needs that pending sends, messages in flight and half-merged
  batches are each covered by a store and that no step takes an event out of one.
  `PeerTypeCorrect`, `PeerSentIsHeld` and `PeerAuthoredAndKept` are theorems too.
* `FoldProofs`: every property of the run `fold`. `PrecedesOrder` (the order of events
  is strict and total, equal timestamps and actors included) and from it `OneWinner`;
  `FoldTypeCorrect`; `FoldVisibleAsSpecified`: the code looks at the latest tombstone
  only, the protocol at each one, and the two agree for every set of events because
  an untombstone above the maximum of a bounded set of times is above each of them
  (`LatestTombstone`); `PastIsSettled`: events later than a transaction time change
  nothing visible at it. The passes are shown to compute sets: for each of the three
  (`maxByOrder`, the filter, the reduction of a group) the results of the prefixes
  exist as a function of the position (`FoldExists`, `BetterPass`, `VisiblePass`,
  `KeepPass`), and induction over the position gives `MaxByOrderIsBest`,
  `VisibleAssertsAre` and `KeepIsBest`. Hence `ValueIsOfTheSet` (the value does not
  depend on the order of arrival), `RowsAreTheValues` (two different algorithms, one
  result), `HistoryIsStable`, and `ArrivalIsLocal`: an arrival touches the
  visibility of one assert at most, itself or its target (`ArrivalTouchesOne`), so it
  changes rows of that assert's entity and attribute only, or, when the assert is a
  declaration, of the attribute it declares, in every entity.
* `OperationsProofs`: `TypeCorrect` (the target of a tick exists), and with it as
  the only strengthening: `AlarmNeverLate`, for every batch size and any number of
  drains that end early, because the first of the pending ticks in the order of
  candidates is the earliest (`Earliest`, `FirstCovers`), firing only ever settles
  ticks, and whoever schedules one owes an `arm`; `WaitsTimed`, of the runs outside
  `untimed`, because a tick of the
  run at hand fires only by taking it out of its wait; `NothingUnsettled`.
* `FlowRunsProofs`: every safety property of the run `flow_runs`: `FlowTypeCorrect`,
  `RunningScheduled`, `MirrorFollowsStatus`, `OneLinkPerTarget` and `EndIsFinal`, none
  with a hypothesis on the definitions. `RunningScheduled` speaks of the runs that the
  interpreter has not stranded; `ShortNeverStrand` says when there are no others: if
  every definition has fewer steps than one call of `stepFlow` executes and
  `advanceFlow` makes calls, and none asserts a value of the context
  (`ShortDefinitions`). The inductive
  `FlowInv` says of each run, apart from the others, what may be due for it (`Due`:
  the interpreter at most once, and only for a run that is running or whose link
  expired under it), that only definitions give it a wake, an action or the interpreter
  (`Owned`, `Standalone`), and what its status fact is (`Mirrored`), besides that stored
  definitions were validated. Each mutation changes one run or the runs of one form, so
  one lemma (`KeptInv`) disposes of all others.
* `MaterializeProofs`: every safety property of the run `materialize`.
  * Facts: `RowsAreVisible` and `OneVisibleValue`. The second is not inductive: the
    reconciliation looks at rows, not at visible facts, so the invariant adds that a
    visible fact of a never corrected key of cardinality one has a row
    (`VisibleHasRow`). The winner is one of the competitors because the stamps given so
    far are bounded (`KeptCompetes`). `MaterializeTypeCorrect` adds one row of a rule
    for an output.
  * Rules: `NoUpdateIsLost` and `UnfoundedRowsAreStale`, from `RulesInv`: a row is
    stale with its recomputation due, or hit by a negation whose change is due, or
    founded on facts that are visible or whose removal is due (`RowHeld`); a binding
    that holds has its row or something due that gives it one (`BindingMet`). The
    hypothesis `ScopedOverMany`, no rule over other entities reads an attribute of
    cardinality one, is what the run `rule_superseded` shows to be necessary; local
    and constant rules may read any. Both rest on `DependencyAssumption`.
  * Closure: `PathsNeverMissing`, by induction over the rounds of
    `computeClosureSupports` (`ReachGrows`, and `ReachByOneEdge`: one more edge joins
    what reaches its start to what its end reaches), and `ClosureNeverShort`, its
    form for a closure that is not reflexive. Additions ignore the maximal depth, so
    the pairs may be more than a recomputation would give, never fewer.

Every invariant and every action property of the passing runs is thus a theorem.
Only model-checked: the liveness properties (`Quiescence`, `VectorsConverge`,
`ConvergeWithoutLoss`, `Settles`, `SubmissionResumes`, `ExpiryEnds`, `RulesCatchUp`,
`TicksSettle`), since TLAPS proves no liveness under fairness, and that the four
counterexamples exist.

## Not modelled

* Hashing and encoding (pure; ids are taken to identify content), the query
  engines' evaluation, schema, clients, views, dashboard, testkit, demos and the
  Forma language: none keeps state of a protocol, and their size is most of the
  repository's.
* `AsyncLocalEventStore`: an event is in memory, where `scan` shows it, before the
  write of the whole map is awaited, and its first calls load the map concurrently. And
  two tabs on one storage key: each is a writer that overwrites the other, and the code
  does nothing about it.
* HTTP `syncFrom`, the broadcast channel and the relay: variants of the exchange
  `PeerSync` has, without gossip, through a hub, or by pull and push. The relay
  rebroadcasts what it has seen, so that `Quiescence` would not hold of two relays
  joined to each other.
* The Durable Object's key-value store, its projection rows and live queries, and
  the Convex component's projection: writers of rows next to the log. What the rows
  should be is `Fold`'s `Rows`; the divergences met are listed above and under the
  hazards of `PROJECT.json`.
* Untombstoning, valid time, access rules, manual rules and changes of an attribute's
  cardinality in the application (in `Fold` cardinality does change); `executeDagStep`
  of kind assert, `submitAndLower` and the standalone run store of the Durable Object.
