# Verification of the DynReAct platform

TLA+ modules that model the concurrent core of the DynReAct platform (short-term
planning, lot creation, the services and pages around them), TLC runs that check
them on small instances, and TLAPS proofs of the properties that matter most.
Every definition is translated from the code; `PROJECT.json` maps it to its lines.

## 1. The system

DynReAct plans the production of a steel plant on three horizons.  The table names
its parts, what each keeps and does, what makes it hard, and the modules about it.

| component | state and operations | hard behaviour | correct when | modules |
|---|---|---|---|---|
| Short-term auction agents (`ShortTermPlanning/.../agents`) | rounds, bids, the bid an equipment waits on, assignments, the LOG's record; handlers of the messages of an auction, timers | every interleaving of readers with offsets of their own, late or dead containers, no timeout on a confirmation, addressing by regular expression | an order goes to one line; questions are answered; results are complete before they are final; the auction ends | `Auction`, `AuctionProperties`, `Assignment`, and two modules of proofs |
| Short-term client (`short_term_planning.py`, `gui_stp`) | pages that create, start, refresh and end auctions and wait for answers; selection of materials, normalised results | answers to others' questions, polls that time out, one consumer group | a page learns of its own auction; starting comes to an end | `AuctionClient`, `ClientAndContainers`, `AuctionSelection` |
| Container placement (`handler.py`, `remote_pool.py`) | Docker daemons; launch, reap, clean | launch against reap, unreachable workers, retries | no replica runs twice; none outlives its auction for ever | `Containers`, `ClientAndContainers` |
| Lot creator (`lots_optimization.py`) | current thread and listener; start, stop, continue, poll | a stopped thread runs on | no run is lost; the best solution is shown and stored | `LotCreation`, `LotCreator`, `LotCreation_proofs` |
| Tabu search (`LotsOptimizerImpl.py`) | current and best solution, plan, tabu list; step, shuffle | interruption and continuation; forced orders | plans are sound; no way back while a move is tabu | `LotCreation` (values), `LotMoves` (plans) |
| Lot sequencing (`globaltsp`) | ensemble of branch-and-bound searches | stale bounds between searches | the best route is found unless time is out | `Sequencing` |
| Batch job (`batch.py`) | daily time, trigger, statistics | shares the creator with the users, lost triggers | its searches do not overlap; it ends when told | `BatchJob` |
| Snapshot state (`state.py`, `SnapshotUpdate.py`) | caches, locks, updated snapshots | double-checked locking, eviction, transfers during loads | readers see the transfers before them; an order is in one lot per process | `SnapshotStore`, `LotTransfer` |
| Pages of the GUI (`gui/pages`, `gui_utils.py`, `dash_app.py`) | stores of the browser, callbacks | callbacks and clicks in any order | what is started is what is shown | `LotCreationPage`, `LotPlanningPage`, `LongTermPage`, `SnapshotSelection`, `LotBacklogPage` |
| Base model and implementations (`DynReActBase`) | files and caches; restrictions, results, availabilities, aggregated production, snapshots, eligible orders, targets | crashes between writes, caches behind writers, concurrent users | what was stored is read; sums count everything once | `Restrictions`, `Conditions`, `LongTermResults`, `Availability`, `ProductionAggregation`, `SnapshotFiles`, `EligibleOrders`, `PlanningTargets` |
| Long-term planning (`LongTermPlanning`) | flows, shifts, storages of one run | corrections of shifts, frozen lots | storages neither run empty nor gain material | `LongTermAllocation` |
| Sample use case (`SampleUseCase`) | cost provider | incremental costs | increments add up to the whole | `StartSolutions` |
| REST service, authentication, command line, deployment, dev container | – | – | – | – |

`PROJECT.json` lists the components with their status, and under "hazards" what is
hard to test in them, each at its line, with the property that guards it.

## 2. The plan

1. The auction, its refinement and proofs. **Done.**
2. Lot creation, its refinement and proofs. **Done.**
3. `BatchJob` over the abstract `LotCreator`; `SnapshotStore` and `LotTransfer`;
   `AuctionClient`; `Containers`. **Done.**
4. Persistence, restrictions, aggregation, availability, allocation, the planning
   algorithms, the pages. **Done.**
5. Proofs about these modules.  Done for the batch job, the snapshots, and the pages and
   containers of the short term planning, and of the parts of section 8 for the
   restrictions, the long term results, the moves of the search, the page that
   transfers lots and the snapshot they go into (9.4).  Left: the parts that count and select, and the other pages (9.5).

## 3. The auction

### 3.1 From the code to the model

`Auction.tla` is one auction.  Each agent is a process with a Kafka consumer group
of its own that reads the auction's topic from its earliest offset
(`agent.py`), so that all agents see the same messages in the same order, each at
its own pace.  `inbox[a]` is what `a` has still to read.  Messages that can never
concern `a` (they are addressed to another class of agents and their text
cannot match its name) are not put into its inbox; the rest are, and an
equipment checks the address when it *reads* a message, against the name, round
included, that it has by then (`AddressedTo`, `EquipmentIgnores`).

| variable | field |
|---|---|
| `stage` | life of the container: absent, running, (a material) between CONFIRM and ASSIGNED, ended |
| `round`, `bidding`, `bids`, `pending`, `tons` | `Equipment.round_number`, `last_bid_time is not None`, `bids`, `bid_to_confirm`, `accumulated_tons` |
| `assigned` | `Material.assigned_equipment`, a name with its round |
| `checked`, `present`, `started`, `finished`, `completed`, `endRequested`, `results` | the fields of the LOG of the same names (`checked`: `total_num_agents` is set; `started`: `auction_start`) |
| `failed`, `served` | history: a RECIEVEERROR was handled; the last RESULTS sent |
| `exiting` | callers of `end_auction` that sleep before EXIT goes to the LOG |

Each handler is one action and takes in everything the handler does: an
`EquipmentConfirm`, for example, takes the tonnage, and then either announces the
end and leaves, or renames itself, drops its bids and bids again.  Two handlers
are split, where other processes can see the middle: a material publishes
CONFIRM before ASSIGNED (`MaterialAskConfirm`, `MaterialAnnounce`), and
`end_auction` sleeps between its two EXITs (`ExitLog`).

What is abstracted: prices and costs (an equipment may prefer any of its bids; a
cost service may reject any counterbid), time (a wait *may* be over), the
log traffic, and the texts of names: `NameCovers[m]` says which material names
contain the name of `m`, and `RoundMatches` what a search for a round number finds.
The topic delivers everything once and in order, as a single partition with one
producer per agent does; containers may die (`Crash`) and are not restarted.

### 3.2 Properties and runs

| run | instance | what it shows |
|---|---|---|
| `auction_core` | 2 equipments, 2 orders, one for both and one for e2 alone; nobody ends the auction | `TypeOK`, `OrderHasOneOwner`, `OnlyTheAskedConfirms`, `AskIsAnswered`, `CompletedIsComplete`, `NobodyMissesTheStart`, `AuctionCompletes` (liveness), `ImplementsAssignment` (refinement) |
| `auction_results` | 2 equipments, 2 orders both want, two requests for results, one container dies at any step | `ServedIsComplete`, `FinalResults` |
| `auction_end` | 1 equipment, 2 orders, of which the id of one begins that of the other; the UX ends the auction at any time, one request, one container dies | `EndReachesAll` (liveness) |
| `auction_rounds` | 2 × 3, m1 and m2 only fit e1; round numbers in base 2 | violation: `AssignedLeavesNoBid` |

Bounds.  Two equipments are what a conflict needs; with two orders there is an
equipment that is refused and one that reaches its target, and a second round in
which messages of the first are unread.  Properties proved for all instances
(3.4) need no more.  `MaxAsks` = 2 gives a request before and one after completion.
One crash is enough to cut every handshake.  `Radix` is 10 in the code; a round 10
takes ten orders, so the run about round numbers writes them in base 2, where
round 2 (`10`) plays its part.  All other runs keep base 10, in which no round
number of theirs contains another.

Deadlock is not checked: an auction ends, and then nothing moves.

Fairness.  Each agent runs a loop that polls for ever, so its reading step is
weakly fair; so are the timer step of an equipment (`COUNTERBID_WAIT` runs
out) and the second half of `end_auction` (a sleep).  Containers that were
launched come up.  Nothing is assumed of crashes, of results requests or of the
user's wish to end the auction; for completion the UX is assumed to send CHECK.

### 3.3 The abstract specification

`Assignment` has three variables, the owner of each order, the load of each line and
which lines are closed, and two steps.  An order is given once, to a line it is allowed on, while
the line is below its target (the first order is taken whatever the target).
`ImplementsAssignment` maps the commitment of a material to `Assign` and the end
of an equipment to `Close`; every other step of the auction stutters, and the
fairness of the agents gives that of `Close`.  The load is what the
equipment has counted and, between the commitment and the reading of the confirmation,
the weight that is on its way to it (`OnItsWay`): a confirmation counted
twice, or not at all, would be a step of the load that is no `Assign`.

### 3.4 Proofs

Two modules, one on top of the other.  `Auction_proofs` holds for every
finite set of equipments and materials, every tonnage and target, every
clash of names and any number of crashes; it rests on the named assumptions of
`Auction.tla` alone.

- `TypeCorrect`: `Spec => []TypeOK`.  `TypeOK` alone is not inductive: a material
  that announces its equipment must have one.  `TypeInv` adds `Announcers`.
- `NoOrderTwice`: `Spec => []OrderHasOneOwner`.  The results say nothing of
  confirmations the LOG has still to read, so the inductive invariant `Ledger`
  speaks of the results and the unread part of the topic together: a confirmation
  of `m`, read or unread, exists only if `m` is committed, to that equipment and
  round, and there is one of each.  A material that has committed never reads
  another question, for its container has ended or is announcing.
- `EveryoneIsThere`: `Spec => []NobodyMissesTheStart`.  The LOG counts answers to
  its ping, so `StartInv` says of every unread message what it proves: an answer that
  its sender came up, a bid or a question that the start was given; whom the LOG holds
  for present came up, and at the start all of `Agent` are present (`CountAgents`:
  the number the LOG waits for is that of the agents).

`AuctionProtocol_proofs` has one more hypothesis, `DistinctNames`: the name of no
material contains that of another.  Without it a question reaches a material that was not
asked, and the theorems are false; the code does not enforce it, and the names
the users give decide.  Nothing is assumed of round numbers, nor of crashes.  The inductive invariant
`ProtocolInv` has nine named parts about the unread messages, each of which TLC has
checked on the instances above:
a confirmation is true (`Told`), a commitment comes when nothing is left undecided
(`CommitsLast`), an equipment has at most one question out, for the round it is in
(`Questions`), and one reply (`Replies`); on the LOG's side an equipment that says
farewell has no question out (`Farewells`), its confirmations come before its
farewell (`ConfirmsFirst`), and what is committed is recorded or still to be read
(`Recording`), which at completion leaves nothing unread (`Completion`, `Serving`).

- `OnlyAskedIsConfirmed`, `ResultsAreComplete`, `NoOrderUnserved`: the invariants
  `OnlyTheAskedConfirms`, `CompletedIsComplete`, `ServedIsComplete`.
- `ResultsAreFinal`: `[]` of the action property `FinalResults`.
- `NothingFails`: no message is ever taken for an error (`failed` stays false).

The same module shows that no equipment waits for an order in vain:
`EveryQuestionIsAnswered`, `[]AskIsAnswered`.  It has three hypotheses.

- `DistinctNames`, as above.
- `RoundsDiffer`: no round number up to the number of orders is found in another's
  digits, which is so when there are fewer orders than `Radix`: fewer than 10
  in the code, whose equipments compare rounds by regular expressions.  It is a hypothesis
  of its own because the prover knows nothing of powers, with which the model says it.
- `MaxCrashes = 0`: an order whose container has died answers nobody.

The difficulty is that an order's container ends with questions it has not read.  Whoever
asked must then have the order's announcement or an exit ahead of it, and must be in
a round in which it takes that announcement for an answer.  `AnswerInv` has two halves.

- `OfferInv`, about offers.  The START is read once (`StartsOnce`), so no equipment begins its first
  round again; no message names a round its equipment has not reached, and an equipment
  keeps bids of its own round only (`Behind`); a round is over only when an
  order committed in it, so by the pigeonhole principle rounds do not exceed the number of
  orders (`RoundsTaken`), which is where `RoundsDiffer` applies; a pair of equipment and
  order has one message or entry of the round at most: bid, counterbid, kept
  bid or question (`OneOffer`); and an order's counterbids precede its
  announcement on the topic (`InTurn`), so reading the announcement
  drops a bid that nobody will answer and no later one arrives.
- `WaitInv`, about answers.  An exit of the LOG reaches every equipment that still
  listens if it reaches an order (`ExitsForAll`).  An equipment that has an offer of an order will
  hear of the order's commitment, or the order is still undecided, or everything ends
  (`PromisesTo`); of an order it waits for it has the answer unread, or the order has
  the question unread, or the same alternatives hold (`Awaits`).  `PromisesTo` is needed
  because a bid becomes a question steps after the order may have committed.

Every part was checked by TLC on small instances before it was proved.

Last, the refinement of 3.3, step by step: `AuctionIsAssignment`, which gives `Abstract!Steps`, the
initial states and the steps of `Assignment`, under `Undisturbed`: `DistinctNames`,
`MaxCrashes = 0` and `UXEnds = FALSE`.  A line that has died or exits may leave a question behind that
is still confirmed, so neither of the last two can be dropped.  The invariant `TurnInv`
says what the guard of `Assign` needs when an order commits.

- The line may process the order: only such an order offers itself, what is bid is what was
  offered, and what is asked is what was bid (`EachFits`, `BidsAllowed`).
- The line is still there: it does not end while an order that may commit has
  its question (`AskersStay`), and an exit reaches it only after completion (also `EachFits`),
  when it has ended.
- The line is below its target unless the order is its first: it gets one order a
  round, the one it waits for (`OneARound`), so whoever has one already is in a later
  round, and a line goes on to a later round only below its target
  (`StillWants`).  Nothing is on its way to it then, so what it has counted is all it has been given.

Left to TLC: the fairness of `ImplementsAssignment`, because it is about ENABLED, and the
liveness properties.

## 4. Lot creation

### 4.1 From the code to the model

The service has one `LotCreator`.  A user of the GUI starts an optimization: a new
optimizer and a new `FrontendOptimizationListener`, which a new
`KillableOptimizationThread` runs.  The user polls it, stops it and continues it;
continuing takes the same optimizer and listener into another thread.

| variable | field |
|---|---|
| `thread`, `listener` | `LotCreator._lot_creation_thread`, `_lot_creation_listener` |
| `killed` | `KillableOptimizationThread._kill` |
| `active`, `storing`, `front` | `_active`, `_store_results`, `_state` of a listener |
| `id`, `object` | `_id` of a listener, and which `LotsOptimizationState` object its `_state` is |
| `stored`, `cached` | what the results persistence has under an id, and the object its `lru_cache` hands out for it |
| `cur`, `best`, `ready` | the optimizer's current and best objective values, `TabuSearch._initialized` |
| `pc`, `opt`, `continued`, `left` | where a thread is in `TabuSearch.run`, its optimizer, its mode, its iterations |
| `vbest`, `gbest`, `minima`, `since`, `wait` | `target_vbest`, `target_vbest_global`, `MinCount`, `iterations_without_shuffle`, `max_iterations_without_shuffle` |
| `given` | history: the best value an optimization was created with |

The operations of the creator hold its lock and are one action each: `Poll`, which
forgets a thread that has died, `Stop`, `Continue` and the starts, `StartNew` from an
initial solution, `StartFromOld` and `StartFrom` from a stored result.  The main loop is
`Resume` or `Begin` (continued or from the start), then `Improve`, `Climb` or
`Shuffle` per iteration, until `Optimal`, `NoNextStep`, the listener's refusal or
the last iteration leads to `Close`.  An iteration is one action: a run that is alone with its
optimizer has nobody who reads the optimizer's state in the middle of it, for users see the
listener's, which the last call of the iteration sets.  Two runs on one optimizer
could cross within an iteration; what is proved of best values therefore assumes
`PatientUsers`, which allow none, and speaks of the states between iterations.  `Fail` is an exception out of the loop.

What is abstracted.  A solution is its objective value.  The best neighbour and the
outcome of a shuffle are any value, so that every property holds for whatever
the cost model says; `lots_remember` is thus a behaviour of some cost model.
Forced orders, performance models and the tabu list are left out, and the results
persistence is taken to store what it is given.  `Timed` optimizations have a
listener with a timeout, which may run out before any update but need not, so that a run in
which all are timed has the behaviours of untimed ones, too.  The KILL flag of a
thread is set but nothing in the search reads it: what ends a run is its listener.

Results.  A listener stores under its id: that of the result the
optimization starts from, or else one made of the process and the minute, which two starts
within a minute share.  `FileResultsPersistence.load` caches the object it
returns, and a listener changes the one it was given: the next start from the result finds what
the listener was told since, stored or not (`object`, `Told`), until
`store` clears the cache or the cache drops the entry.  An id is named after the first
optimization that has it.

`PatientUsers` says that an optimization is continued only once its thread has
ended, and one is started under an id only once no run that stores under it is alive:
nobody goes on within the iteration in which a run was stopped.  The code does
not enforce it, for `is_running` is false at once after a stop.
Properties that need it are violated without it, and the runs show both.

### 4.2 Properties and runs

| run | instance | what it shows |
|---|---|---|
| `lots_patient` | 2 optimizations, 2 threads, 2 iterations, values 0..2, both with timeouts, searches may fail | `LotTypeOK`, `NoRunIsLost`, `FrontKeepsBest`, `StoredIsShown`, `BestOnlyImproves`, `StopEndsTheRun`, `ImplementsLotCreator` |
| `lots_impatient` | 1 optimization, 2 threads, impatient users | violation: `BestOnlyImproves` |
| `lots_remember` | 1 optimization, 1 thread, 16 iterations, the shuffling parameters of the code | violation: `RemembersBest` |

Bounds.  Two threads are what a stop followed by a start or a continuation needs, and
two optimizations tell the new one from the old.  With `NMinUntilShuffle` = 0 a
thread can climb once and be shuffled in its second iteration.  Three
values are the optimum, a best and a worse one.  `lots_remember` needs more
iterations than the five minima of the real parameter, twice.  Deadlock is
checked: a user can always poll.  Symmetry is sound because optimizations and
threads appear in no constant but `Timed`, which holds all optimizations or none.
No fairness is assumed, and no liveness is claimed: a search may take for ever.

### 4.3 The abstract specification

`LotCreator` is what the GUI and the batch job may rely on without looking into a
search: nothing starts while the known run is alive, no other run is forgotten
than one told to stop or dead, and solutions reach a listener only from runs of its own
optimization.  `ImplementsLotCreator` maps `opt` to the work of a run (`Die`
clears it), `killed` to `stopped`, and what has been started and shown to sets.  An
iteration is a `Report`, `Close` and `Fail` are `End`, `Resume` and the steps that only
leave the loop stutter.

### 4.4 Proofs

`LotCreation_proofs.tla` proves for every set of optimizations and threads, all
objective values and all parameters:

- `LotTypeCorrect`.  The invariant is `LotTypeInv`: a run alive works on an optimization
  that was started, and only what was started has values or anything to show;
  without that the values the loop compares have no type.
- `NoRunEscapes`: `[]NoRunIsLost`, inductive with the types: `stop` marks the run
  it drops, `is_running` drops only the dead.
- `StoreFollowsFront`, assuming `PatientUsers`: `[]StoredIsShown`.  `StoreInv` adds that
  listeners which share a state object share its id, and that nobody else who is alive stores
  under the id of the current listener.  Besides a start from a result
  the case that matters is a listener that is told to store when a search is continued.
- `FrontShowsBest`, assuming `PatientUsers`: `[]FrontKeepsBest`.  `FrontInv` adds
  what `Close` and `Optimal` need, since they set the best to the loop's own best without telling a
  listener: that value, and the current one of an optimizer that is ready, was
  shown before.
- `StopIsFinal`, assuming `PatientUsers`.  `StopInv`: a stopped run that is alive has a
  listener that is off.
- `BestImproves`, assuming `PatientUsers`.  `BestInv`: at most one run of an
  optimization is alive, and its `gbest` is the optimizer's best, or at its
  end the better `vbest`.
- `LotCreatorIsImplemented`: `Spec => ImplementsLotCreator`, with
  `DeadWorksOnNothing` for the mapping of `work`.

They rest on the named assumptions of `LotCreation.tla`: `None` is no value, values
are integers of which `Optimum` is the least, and the counters are natural.  The
violated properties have no theorem; nothing temporal is claimed beyond steps.

## 5. The batch job

`BatchJob` is the thread of `batch.py` beside the users of the GUI.  Both use one
lot creator, for which the module instantiates the abstract `LotCreator` (4.3): what
holds here holds for every search.

| variable | field |
|---|---|
| `pc` | where `BatchLotCreation.run` is: at the top of its loop, before and in its wait, asleep without a snapshot, loading, at a process, started, joining, exited, or dead of an exception |
| `jobStopped`, `interrupted`, `byUser` | `_stopped`, `_user_interrupted`, `is_user_interrupted` |
| `due` | `next_planned_invocation <= now`; `TimePasses` makes it true |
| `waits`, `runs`, `active` | `wait_cnt`, `_runs`, `_stats.is_active` |
| `proc`, `joined`, `stat`, `kept` | the process at hand, the thread waited for, its statistics, the results kept for the page |

Whether a process needs lots and has orders for them is a free choice (`Skip`), and
waiting for a search may end at any time, since `max_duration` is.  The run `batch`
has 2 invocations of 1 process, one search of a user, no waits for a snapshot and
no older result kept: a second invocation meets what the first has left running.
`OneSearchUnlessStopped`, `NewestAreKept` and `StopEndsTheJob` are checked, the
last under the fairness of the job's thread and of the clock.  That an accepted
trigger leads to a run does not hold: one that comes between the clearing of its flag
and the wait is lost, and one that meets no recent snapshot is given up.

## 6. Snapshots

`SnapshotStore` has the threads of requests, the threads of transfers, and what they
share in `state.py` and `SnapshotUpdate.py`.  None of the dictionaries is guarded: a
test, a count, a listing of the keys, a lookup, an insertion and a removal are each a
step, and any thread runs between two of them.  So two threads may insert a lock for
the same time and go on with different ones, find the same room in a cache, or drop
what another one has just found.

| variable | field |
|---|---|
| `cache`, `updates` | `_snapshots_cache`, `SnapshotUpdate._refs` |
| `table`, `held` | `_snapshot_locks` in their order, and which locks are taken |
| `pc`, `request`, `exact`, `lock`, `keys`, `result` | the locals of `get_snapshot` and `_get_snapshot_lock` in each thread |
| `current`, `transfer`, `sink` | `lottransfer_thread`, the locals of each `LotTransferThread`, what the sink has |
| `owed`, `crossed` | observed: the lots of the updated snapshots when a request began, less what was dropped or replaced since; whether another thread has dropped an entry since |

The run `snapshots` has 2 users, 2 lots, 2 snapshots and a time without one, a cache of
1, no update and no lock kept (in the code 3, 4 and 10, of which 2 and 4 are dropped at
a time, here 1), and transfers every lot once (`Again`): with them the second snapshot
evicts the first, the second update drops one, and a lock goes that may be held.
`ReadsSeeTransfers` says that a request answers with the lots that were in the snapshot
when it began, unless the update was dropped or replaced: two transfers that start from
the same snapshot lose one another's lot, for the second replaces what the first has
set.  `FailsOnlyCrossed` says that a request raises (a `KeyError` or an `IndexError`, or
a lock that is `None`) only after another thread has dropped something; such failures
are reachable, as is a second thread that loads the same snapshot.  `NoLockIsLost` says
that a lock is taken only by a thread that goes on with it.  The bounds in
`SnapshotTypeOK` are the limits and one more for every thread that has found the same
room; at this instance the number of snapshots is as small as the bounds, and it is the
theorem `SnapshotsTyped` that shows them.  Users and lots are symmetric.

`LotTransfer` is `update_snapshot` itself: lots of all equipments of the process lose
the transferred orders, lots without orders go, orders and material are told where
they are.  `OrdersKnowTheirLots`, a part of `TransfersAreSound`, is checked for two transfers of any lots on three
equipments of two processes (run `service`).  `Order.lot_positions` of an order that
stays in its lot becomes a number although `base/model.py:261` declares a mapping.

## 7. Client and containers

`AuctionClient` has pages that share one callback topic and one consumer group,
`Containers` the parents that launch replicas on workers.  They share no state;
`ClientAndContainers` composes them, its initial state chooses which, and the run `client` checks both.

Pages: a page is what its fields and stores say; an operation waits for answers by
polls that count silence and repeated answers.  Their limits come from the environment
(`STARTUP_SILENT_CHECKS`, `STARTUP_STABLE_CHECKS`, 3 unless they are set), so they are a
variable that never changes, `limits`.  `LearnsOfItsAuction`: what a page shows of an auction
comes from that auction; `StartEnds`: a start comes to an end, under weak fairness of
the work of a page.  Two pages, two names.  The initial state chooses limits together with
the bound on the clicks of all pages, since every poll that goes unread lengthens the LOG's
inbox: 3 silent polls or 1 unchanged, and 2 silent or 3 unchanged, with the two clicks that
create and start an auction; 2 and 2 with a third click (another page's, or an end), where a
start asks again after silence and hears the answer to an earlier poll in a later one, and
silent and unchanged polls alternate; 1 and 1 with four, so that two pages create and start
an auction each and one reads what was meant for the other.  Limits of 3 for both (millions
of states) are left to the proof, which holds for all.  The names are alike, so the field of
one page is fixed at first (`FirstField`).

Containers: launching goes through listing, checking limits, choosing a worker and
creating and starting, each with a daemon that may not answer; sweeping lists topics and ends what
has no topic, is too old or has exited.  A container whose start fails stays `created`: it
counts against the limit of its worker and of its parent, and no rule of the reaper names it.  A
create that its caller has given up and that takes effect only later is not
modelled: a call to a daemon creates the container before it is given up, or never.
`OneContainerPerReplica`, and, of containers that have started, `LonelyReplicasEnd` (under weak fairness of launching, sweeping and the passing of time,
strong fairness of the listing of topics, which fails while Kafka is away).  Two
workers with room for one, three requests, two outages.

## 8. Parts of the service

Several modules describe parts that share no state, and each is small.  Two runs
check them: the initial state chooses the part, the variables of the other parts stay
`None`, and each property of the run is that of the part.  `MCService` has what runs in the
service and its libraries, `MCPages` the pages but one.  Five of the parts are composed by `ServiceParts`, for
any constants, which `MCService` extends with the rest and `ServiceParts_proofs` is about.

| property of `service` | part | what it says |
|---|---|---|
| `CrashKeepsRules` | `Restrictions` | whenever the service crashes between two writes, one of the two files holds the rules of the last change or of the one under way, unless the last copy onto the active file has failed; 2 users, a rule of each kind, any number of changes, failures and restarts |
| `StoredIsListed` | `LongTermResults` | a stored solution is listed by both caches, also after a restart; 2 sessions, 2 runs |
| `MovesAreSound` | `LotMoves` | plans have each order once, where it may be, in lots numbered in order; forced orders stay; a tabu move is not repeated; 3 orders, 2 equipments, 3 steps |
| `TransfersAreSound` | `LotPlanningPage`, `LotTransfer` | the orders transferred are those chosen in the dialog, if the solution was not stored anew in between; answers reach the page that asked; 2 users; orders are in one lot of a process at most and know it (section 6) |
| `PlansAreSound` | `Sequencing`, `StartSolutions`, `EligibleOrders`, `AuctionSelection` | searches that take turns and pass their bounds return a route of least costs (all routes of 4 orders, costs of two widths); plans to start from respect targets, and costs by increments are the whole; lots of eligible orders can start as planned and all who ask about restrictions agree; an auction reports of an order the latest assignment, one per equipment, and withholds none |
| `ProductionAddsUp` | `ProductionAggregation`, `LongTermAllocation`, `Availability`, `PlanningTargets` | the production on disk is that of each step between snapshots, counted once, but for the one step per level a crash costs; allocated shifts keep storages above zero; hours saved are hours planned; targets, orders and storages add up |

| property of `pages` | part | what it says |
|---|---|---|
| `PagesAreSound` | `LotCreationPage` | what is started is a run of the process shown with targets at its equipments; once no callback is left the stores agree; 2 processes, 4 clicks, one before the callbacks are through |
| | `LongTermPage` | period, previous solution, levels and capacity agree once all callbacks are through; remaining targets are what is missing |
| | `SnapshotSelection` | a tab shows the snapshot chosen last; the buttons leave none out; the list keeps its files (`SnapshotFiles`) |
| | `LotBacklogPage` | the table is that of the selected equipment, lot and snapshot; what is available can start |

A callback of Dash runs once an input of it was written and no callback that writes
another of its inputs is left to run; what it merely reads (its State) does not hold it
up.  This rule (`Feeding`, `Ready`) is external; which callback has which
inputs is from the code.  A page's clicks are bounded (`MaxClicks`), and so are
those that do not wait for the page (`MaxHasty`).

What is abstracted in these modules is said in the comment each begins with.  Bounds
are named in the comment before each `INSTANCE` of the MC modules; they are the least with
which each guarded case arises and a plausible bug of it is found: every property has
such a mutant in `PROJECT.json`.  Deadlock is not checked: all of them are bounded and stop.

## 9. Proofs about the other modules

### 9.1 Snapshots

`Snapshot_proofs` holds for every finite set of threads and lots, every set of
snapshots and requests, and all sizes of the tables.  Its inductive invariant:

- `TypeInv`: the types, and what a thread or a transfer knows at each of its places;
- `LockInv`: who is inside the `with` holds its lock, no two the same.  `NewLockLemma`
  shows that a new lock has a name nobody uses: each thread uses one at most, and the
  table has one more for the same time;
- `RoomInv`: whoever has found room may still use it, so entries and those who have
  found room are counted together: a cache outgrows its limit by less than the number of
  threads, the table of locks by as many, the updates by the number of transfers;
- `CrossInv`: what a thread has found is still there (`Sure`), or another thread has
  dropped something since its request began;
- `ReadInv`: what a thread is owed is in the updates, and a thread that goes on to the
  cache or a lock is owed nothing of the snapshot it asks for;
- `SinkInv`: what a snapshot, a reader or a transfer has of lots is in the sink.

Each conjunct is kept by a thread's step, of which `Moves` says that it leaves the other
threads alone and knows what it must at its new place, by a transfer's step and by
`Collect`.  Theorems: `SnapshotsTyped`, `LocksAreReturned`, `FailuresAreCrossed`,
`TransfersAreRead` (the four invariants of the run), which do not depend on the locks
being one per time, and `TransfersAreSunk`, which no run checks.

### 9.2 The batch job

`Batch_proofs` holds for every number of processes, invocations, results kept and
searches of users.  `KnownInv`: a search at work that was not stopped is the one the lot creator
knows; `SearchesFollowOneAnother` follows.  `KeptInv`: what is kept is one row of
invocations up to the newest; `NewestKept` follows.  `TypeInv` needs to know where the
job is (`JobPlaces`) and that an invocation is left when one may begin (`BeginInv`);
`BatchTyped` follows.

### 9.3 Pages and containers

`ClientAndContainers_proofs` holds for any number of pages, names, agents, parents,
workers and replicas.

- `PagesLearnTheirOwn`: `[]LearnsOfItsAuction`.  The invariant says that a name is used
  once (`UsedOnce`), so that no LOG comes up in the place of one that has given its start,
  that what lies on the shared topic or was heard by a page about a start is
  true, and that what was heard is from the auction of the page's field (`Honest`).
- `NoReplicaTwice`: `[]OneContainerPerReplica`.  `NotHeld`: while a parent is
  about to run a replica on a fleet no worker holds it, since the last look, at the
  placement, found every worker reachable and empty of it, and only the parent of a replica
  launches it (`OwnReplicas`).  A local daemon is a fleet of one (`LocalFleet`).
- `ClientAndContainersTyped`: types, and that the counters of a start stay below its limits,
  whatever these are (`Within`, proved on top of the types in `WithinStep`).

### 9.4 Restrictions, long term results, moves and transfers from a page

`ServiceParts_proofs` proves four properties of the run `service` in `ServiceParts`, the
generic composition of `Restrictions`, `LongTermResults`, `LotTransfer`, `LotMoves` and `LotPlanningPage`, for
all their constants.  Each part has an inductive invariant of its own; a step of another part
leaves its variables alone.

`RulesSurviveCrashes`, `[]CrashKeepsRules`.  `RulesInv` says that one thread at a time is between its
change and the end of its writing (`OneChanges`), and what the files have at each of its places
(`FilesFollow`): the active file has what was completed last, unless it is
being replaced, and then the backup has what is in memory.  The exception is a copy onto the active
file that fails (twice, `_backup_file_to_active`; at a start the failure is passed over).  It
leaves the active file corrupt, or with the change that is reported as failed and taken
back in memory; the backup has that change too, so that a restart brings it back.  The
next change begins by overwriting the backup: if the service crashes then, neither file can be read, and it
does not start again.  From the start of the next copy on the claim holds again.

`StoredStaysListed`, `[]StoredIsListed`, and `ListedIsStored`, its converse.  `ResultInv`: the
caches know every file that is settled, that is, told and not raced (`CachesKnow`); a callback that fills a
cache has found all of them (`CallbackOK`); and a run that will store in a file began after
somebody had filled the cache of its month or there was nothing to find (`Looked`, `ThreadOK`).  The last is why
`TellCaches`, which begins a cache that does not exist, hides nothing: the
code relies on the page having looked for the new id, without saying so.

`MovesStaySound`, `[]MovesAreSound`, has two invariants.  `PlanInv`: each equipment's row has every order once and
is cut into lots as `check_solution` wants them (`RowOK`), rows and open orders are disjoint, an order is where
it may be, and forced orders stay.  Insertion, removal and the solver's routes all go through `Numbered`, so
the lemmas `InsertedRow`, `RemovedRow` and `SequencedRow` rest on one, `NumberedLots`.  `TabuInv`: a move of the last
`Expiration` ones is tabu for the steps it has left (`LastMoves`), and so is its way back before the first
shuffle (`BothWays`).  After a shuffle that fails: an order taken off has an entry of the shorter expiration
after a shuffle, and a later move whose way back this is does not renew it, since adding to a set keeps
the entry that is there.  Only the way back of the latest move is always tabu, because no entry is
added with less than one step; `NoWayBack` claims no more.  The set of orders is
assumed finite (`MovesAssumption`), since rows are sequences.

`TransfersStaySound`, `[]TransfersAreSound`, has two invariants of the pages and one of the snapshot.  `ChosenInv` follows the orders through the stores
of a page: the table, the selected row and the dialog each show a lot of a solution as it was stored at some time
(`SeenIn`), and remember which; a start begins with orders chosen, and finds the lot anew.  If that is the version
the dialog has seen, the orders chosen are among those found, and `Carried`, which compares only how many there
are, takes the right ones because a finite set has no other subset of its size (`CarriedWhole`).  `AnswerInv` is about the outcome: no
two pages have the same transfer, so that the answer a page takes from the list is its own (`OthersStay`); a page that is
still to be told polls, or is about to run the callback, or begins a transfer, and the number it waits for is that of the
thread, in the list of answers, or among those that were overwritten or dropped (`Awaited`, `Collecting`).  The
property excuses exactly these losses; that a page still waiting polls is not assumed but shown.

`LotInv` is about the snapshot that lots are transferred into: an order has one place at most in the lots of a process,
and names that lot, or none if it has no place (`Knows`); and the material of an order has distinct positions in
a process, all of it or none (`Apart`).  That all of it has them is more than is claimed, and needed:
material without a position is numbered from 1 on, whatever numbers the rest has, so that material numbered in part
would end with two of the same number.  A transferred order is in the new lot and no other (`TransferredAreThere`).
The others stay (`TheOthersStay`), at places that may have moved, since orders and whole lots before them have
gone: what is kept of a sequence is written as its values at a set of places (`AtPlaces`), of which the k-th is the one
with rank k (`Ranked`).  The theorem says nothing of `Order.lot_positions`, which the code leaves in two forms (section 6).

### 9.5 What is only checked

Proved are all invariants of the runs of sections 3 to 7, their action properties,
the two refinements but for the fairness of `ImplementsAssignment`, and of the run `service` the properties of 9.4.  Left to TLC are

- liveness under fairness (`AuctionCompletes`, `EndReachesAll`, `StopEndsTheJob`, `StartEnds`,
  `LonelyReplicasEnd`, the fairness of `ImplementsAssignment`) and ENABLED, which the prover does not have;
- `ProductionAddsUp` and the costs and tonnages of `PlansAreSound`, which are
  about sums over sets or sequences, and its best route of all (`Sequencing`): induction over data;
- what filters sequences with `SelectSeq`, which the prover takes for an unknown operator
  (`AuctionSelection`, the planned lots of `EligibleOrders`), or uses the recursive
  operators of `Conditions`;
- `PagesAreSound`, the other pages: their stores agree only once no callback is left, so that an invariant has
  to say of each set of callbacks still to run which stores they will write, and these proofs were not attempted;
- `ServiceTypeOK` and `PagesTypeOK`, the types of all parts of a run; what the proofs need of them is in their
  invariants.

`NumberLemmas` has the facts on numbers the proofs share.

## 10. Disagreements between code and documents

Found by runs (`PROJECT.json`, "findings"):

- `handle_assigned_action` "removes the material from the list of bids"
  (`equipment.py:472`), but pops from the list it enumerates and skips a neighbour
  (`auction_rounds`).
- An optimizer "remembers current best solution" (`LotsOptimizer.py:109`).  If it is
  continued while its stopped thread is alive, two threads share it, each compares
  with the best it has seen itself, and a worse one wins (`lots_impatient`).
- The same line, with a single thread: a solution that a shuffle leads to is not
  compared with the best.  A better one is shown to the listener and dropped by
  the optimizer at the next shuffle (`lots_remember`).

Met while modelling, and modelled as the code has them:

- Names: a CONFIRM reaches every agent whose id the address matches, so an id that
  begins another makes an equipment fail; the completed results of the LOG can then change.
- `LotCreator.stop` forgets a thread that runs to the end of its iteration; a start then
  makes two, though the class promises one.
- A stopped run that is still in its iteration overwrites what an optimization started from
  its result has stored since, for both have the result's id (`lot_creation2.py:2230`).  Ids
  of new results have the resolution of a minute.
- `FileResultsPersistence.load` hands the same mutable state to every listener: what a search
  shows that does not store is where the next start from that result begins.
- The rollback of `FileBasedTemporaryRestrictionsProvider` restores a shallow copy; after
  a failed `add` the rules are a list (`broken`) and nothing can be changed.
- `ListCondition` ignores `not_in`, `RangeCondition` strict bounds; rules with
  `allowed=True` never forbid in `eligible_orders2` but do, inverted, in the backlog.
- Frozen lots are looked up by the page of the long-term planning but not passed on; with
  them the corrections of `ShiftAllocator` would let storages run empty, though its
  comment says that they do not.
- The calendar of availabilities shows the first entry that covers a day, the planning takes
  the last; without any it shows 0 h and the planning assumes 24 h.
- A transfer loads the solution anew: a lot with the same number of orders is
  transferred with orders the user has not seen.
- Aggregated production: the `finally` of a run marks all levels as processed, whichever failed.
- The snapshot to compare with after a restart is passed to `load` by position
  (`AggregationProviderImpl.py:212`), which takes its time by name only and loads the newest: the first step
  within an interval is lost for its sum, or counted from a later snapshot back to this one.
- `delete` of the temporary restrictions works on, and goes back to, the rules read before the lock:
  what another user has changed in between is undone (`_delete_or_deactivate`, :252 and :278).
- A copy onto the active file of the restrictions that fails leaves files whose rules, after a
  crash, are those of the change reported as failed; a crash in the next change then leaves none.
- A container that is created and whose start fails stays `created`: `RemoteDockerPool.run` counts
  it (`remote_pool.py:72`), no branch of `DockerManager.reap` removes it (`handler.py:491`), and in a
  fleet it keeps its replica from being launched again (`handler.py:231`).
- The page of the short term planning offers "materials/orders assigned to non-targeted
  resources" (`agentsPage.py:383`); of orders it adds those wholly at the targeted one.
- After a shuffle the way back of a move may be tabu for fewer steps than the move (9.4).
- The shuffle of the tabu search refills a gap without looking at forbidden assignments.
- The snapshot provider lists its folder once; the newest file is remembered for ever.

## 11. Not modelled

The REST endpoints only call what is modelled; authentication, configuration, the
command line, layout and downloads keep no state of their own.  `model.py` and the
interfaces are data.  Numeric cost models, the energy back ends, the solver of
the long-term planning and plotting are computations without control.  Lot and batch
results, the metrics thread, downtimes and the page of long-term results are left
out for want of room in the runs, not because they could not be modelled.  Deployment,
containers of the development environment and the pipeline are tooling.
