# Toa in TLA+

TLA+ models of the Toa runtime, the TLC configurations that check them on small
instances, and TLAPS proofs of what matters most for every value of the
parameters. Paths below are relative to the repository.

Toa runs components as processes that scale, crash and are replaced. What makes it
correct is therefore not in any one function: it is what is left of a promise ("an
event is published at least once", "a call declared `once` changes state once", "all
regions end with the same record", "a delayed call is not lost", "nothing is closed
under what uses it", "an event reaches every open stream of its key") after a process ended between two awaits, a claim moved to
another replica, a message arrived twice, or two handlers read the same version. The
modules are about those promises.

1. [The system](#the-system)
2. [Modules](#modules)
3. [Runs](#runs)
4. [Proofs](#proofs)
5. [Where code and documentation disagree](#where-code-and-documentation-disagree)
6. [What is not modelled](#what-is-not-modelled)
7. [Plan](#plan)

`PROJECT.json` holds the same in a form for tools: components, runs, the lines each
definition stands for, the mutations each property is tested against, the hazards and
the theorems.

## The system

| Component | State | Operations | Talks to |
|---|---|---|---|
| **Outbox** `runtime/core/source/outbox.ts`, `connectors/storages.mongodb/src/outbox.js` | rows in a collection (what each still owes to whom), publications in flight, ids sent and not yet marked, one running cycle | row, publish, tick, pending, settle, close | committed by *transitions*; lanes from *atomicity*; publishes to the *AMQP binding*, *convergence*, *chronicles* |
| **Transitions, assignments, inbox** `runtime/core/source/{transition,assignment,operation,state}.ts`, `storages.mongodb/src/{storage,inbox}.js` | the record with its VERSION, the inbox of calls made, what each invocation has read | recall, acquire, run, store (compare and swap), assign, retry | storage; rows of the *outbox* in the same transaction |
| **Convergence** `extensions/convergence`, `storage.js` `converge` | one record per region, records on their way | write, publish, converge | the *outbox*, a broker between regions |
| **Cadence** `extensions/cadence` | rows of delayed and scheduled calls; per process: timers, calls on their way, what was called and not settled, one scan | delay, schedule, cancel, scan, arm, dispatch, settle, pause | lanes from *atomicity*; calls through the *AMQP binding*; stopped by *halt* |
| **Connector** `runtime/core/source/connector.ts` | the tree of a process, what is connecting, connected and disconnecting | depends, connect, disconnect, discard | everything with a lifetime |
| **Halt** `extensions/introspection/source/Halt.ts`, `boot/src/workload.js`, `core/source/gate.ts` | signal, stop, each process's decision, the gates | signal, quiesce, decide, stop, resume | all gates; *cadence*; the map of *introspection* |
| **Atomicity** `connectors/atomicity` | a claim (i of n) per process, locks, meters | slots, onassigned, lock, meter | *outbox*, *cadence*, *exposition* quotas |
| **AMQP binding** `connectors/bindings.amqp`, `core/source/{receiver,deliveries}.ts` | consumers, deliveries in flight | transmit, consume, stop, settle | operations, events, tasks |
| **Storage** `storages.mongodb/src` | sets, get-or-create, streams, migrations, shared clients | massStore, ensure, migrate, claim | entities |
| **Continuity** `extensions/continuity` | the journal of a run | step, keep, resume | calls of an operation |
| **Trail** `core/source/trail.ts` | the chain of hops a call carries | hop, identify | every call |
| **Realtime** `extensions/exposition/source/{directives/,}realtime` | a Redis stream and channel per key, subscriptions of each gateway, the cursor of each reader | route, open, replay, broadcast, recover, leave | fed by the *outbox*; read over HTTP |
| **Exposition** `extensions/exposition` | tree of routes, quotas, identity entities | HTTP requests | remote calls |
| **Chronicles, introspection, configuration, stash, state, storages (BLOB), fetch, telemetry** | caches, counters and clients | aspects of a component | external services |
| **Norm, boot, CLI, operations** | none at run time | compile manifests, build trees, deploy | |

How they interact: an operation's invocation arrives (at least once) through a binding,
is recalled from the inbox, acquires the state, runs the algorithm and commits the
record, the inbox entry and an outbox row in one transaction. The pump of whichever
replica owns the row's lane publishes it to every destination until each has confirmed.
A destination may be a broker exchange (events, streams), the streams clients read in
real time, or another region, which converges the record by the same storage. Cadence hands its rows to a component of the
runtime's own and makes the calls from replicas that own their lanes. All of it lives in
connectors, which are taken down in the order of their dependence, all of a deployment at
once where it is halted. Before a component serves, its storage applies the migrations it
declares; and an operation that continues keeps the answer of each of its calls, so that it
may be run again from the top.

### What is hard here

- **Interleaving.** Every `await` is a point where another handler, timer, callback or
  replica runs. Two handlers read one version; a page of rows is read before an await and
  used after; several dependants of one connector close at once.
- **Crashes.** Between commit and publication, publication and confirmation, confirmation
  and marking, call and settle; with timers set and writes on their way.
- **Delivery.** At least once, in no order, between processes and between regions.
- **Claims.** The lanes a process owns come, go and overlap; nothing is fenced by them, so
  two replicas may do the same work and correctness must not depend on who does it.
- **Limits.** Batches, caps on what is in flight and on what is remembered: full pages must
  not starve what is behind them, nor be taken for the whole truth.
- **Ends.** Closing, pausing and failing while all that is still running.

`PROJECT.json` lists forty such hazards at the lines where they bite, each with the properties that would
catch it going wrong, and says where they leave a case out, or why there is none.

### What makes each component correct

- *Outbox*: a row is written off for a destination only after it landed there and is kept
  until it landed everywhere; nothing lands that was not committed; memory is bounded; a
  destination that is down holds up no other; what was left by a crash is recovered.
- *Transitions*: no committed write is lost; rows are exactly the committed writes, each with images of its own call;
  `once` is once; a reply tells the truth; conditions in the query hold at the write.
- *Convergence*: what a region stores is decided by the set of records that reached it; there
  are no ties; when all has arrived all regions agree.
- *Cadence*: an occurrence is left only once it is disposed of or cancelled; an entry in hand is
  a timer or a call; what is not owed is given up; what is due is eventually disposed of.
- *Connector*: nothing is closed while a dependant uses it; in the end everything is closed that a close which
  fails or hangs does not hold open.
- *Halt*: no process goes down alone; it goes down once for however many stops it hears; nothing is
  left paused in a process that works; one that went quiet comes back.
- *AMQP binding*: a delivery that runs waits on nothing its own process has stopped consuming; a
  teardown ends; what is queued is taken up by a process that serves again.
- *Migrations*: a migration begins, and a component serves, only after every earlier one was applied to
  its last step; of replicas that did not stall one at most runs it; everyone serves in the end.
- *Continuity*: all copies of a run go on with the same answer of a step; a step whose answer was kept is
  not made again; a step made again carries the identity it had.
- *Realtime*: a token covers nothing its reader was not given; events come in order and none twice; every
  stream opens, or is refused, and catches up.

## Modules

| Module | Models | Composes |
|---|---|---|
| `Outbox` | the pump of every replica, the collection, the claim on lanes | refines `AtLeastOnce` |
| `AtLeastOnce` | the promise of an outbox, abstractly | |
| `Transition` | handlers of calls that write one record, with the inbox and the rows | |
| `Convergence` | writes in regions, publication, the rule that decides | writes as `Transition` shows them, delivery as `Outbox` shows it |
| `Cadence` | rows of the metronome, the callers of `schedule`, a dispatcher per replica | |
| `Connector` | connect and disconnect of a tree, with connectors taken on while it runs | |
| `Halt` | the signals and the decision of every process, its walks, its cycle | the pause of `Cadence` is one of its parts |
| `Deliveries` | producers and receivers of a process, and what their deliveries call | |
| `Migrations` | replicas that apply a list of migrations before they serve | |
| `Journal` | attempts of one run, its journal, writes on their way | |
| `Realtime` | the stream and channel of a key, gateways, readers and their tokens | fed by a destination of `Outbox` |
| `OutboxProofs`, `TransitionProofs`, `ConvergenceProofs`, `CadenceProofs`, `JournalProofs` | theorems | extend the module they name |
| `MCOutbox`, `MCTransition`, `MCConvergence`, `MCCadence`, `MCDeliveries` | values of the constants for TLC | extend the above |
| `MCWrites`, `MCProcess`, `MCWork`, `MCRegions` | several components in one run | `Transition` and `Outbox`; `Connector` and `Halt`; `Deliveries`, `Migrations` and `Journal`; `Convergence` and `Realtime` |
| `ProcessProofs`, `WorkProofs`, `RealtimeProofs` | theorems | extend `MCProcess`; `MCWork` and `JournalProofs`; `MCRegions` and `ConvergenceProofs` |

The modules of several components put them side by side that share no state: a variable `part`, chosen at the
start and never changed, says which of them takes its steps. A behaviour of such a run is one of
one component, with the others at their initial state, so every property means what it means of
that component alone. Fairness is a list of `WF(a step of the one, or a step of the other)`: as
only one of the two is ever enabled, each is the weak fairness the component's own module states.

Conventions: a process is single-threaded, so **everything between two awaits is one
action**; an `await` is a value of a program counter (`cycle[p].pc`, `scan[p].pc`,
`serving[h].pc`, `opening[n][k]`, `replica[p].at`, `attempt[c].at`, `reader[c].at`). A failure is an action of its own, or a disjunct where the
code leaves the outcome open (a commit whose answer was lost may or may not have been made).
An operator with a comment that says how it differs from the one after it is a plausible
slip in that piece of code; each property is shown to fail when one of them takes the place of
the original.

### Outbox

*Code to state.* `status`, `lane`, `outstanding`, `published`, `due` are the fields of a row;
`publishing[p]` is the set of `(row, destination)` in flight (`#sending`), `sent[p]` is
`#published`, `cycle[p]` the one cycle `#tick` lets run, with the page it has read,
`marks[p]` what the `#mark` of `close` has still to write. `assignment[p]` is what `n-and-i`
gave the atom. `named`, `landed` and `confirmed` are history.

*Code to actions.* `Row`, `Commit`, `Refuse`, `Publish` are an operation's path. `Land`, `Confirm`,
`Fail` are what becomes of an `emit`. `Tick`, `Read`, `ReadFailed`, `Exhausted`, `Recover`,
`Awaited`, `Settle`, `SettleFailed` are `#tick`, `#pump`, `#read`, `#awaited` and `#mark`. `Close`,
`Drained`, `CloseSettle` are `close`; `Start`, `Discover` are `open` and the atom's callback; `Crash`
takes all memory. `Elapse` and `Reap` are the collection's clock and TTL index. Time is left
out: an elapsed interval, a passed drain limit and a time-out are all "at any moment".

### Transition

`serving[h]` is one invocation: its step, the call, the version and value it read, the attempt
of `retry` and of the storage. The value of a record is **the sequence of calls it reflects**,
so that a lost update, a wrong image in a row or a write over the wrong version is visible as
data. `Recall`/`RecallMade` are `Operation#recall` before and after; `Acquire` is `state.object` with
the algorithm's run; `Store` is the transaction with the inbox insert first, then the swap, then
the row; `Assign` the transaction of an assignment, whose update comes first. The driver may roll a
transaction back and run its function again (`client.js:160`): `Rerun` is a run that filled the row in and
was rolled back, and `images` of an invocation is what it left in the row, which `storage.js:460` keeps over the images of
the run that commits; `again` is history, the writes this happened to. Assignments may remove (`terminate` of the
prototype is one) and match tombstones whether they do or not. `Refused` is the storage's own retry on a refused
connection *with the same entity*, `Raise` every other error, `Die` and `Expire` the end of a process and the
TTL of the inbox. Both retry limits are those of the code, as constants.

### Convergence

A write is atomic (this is what `Transition` establishes: one version after what is stored).
`Transition`, `Assignment`, `MassStore` stamp VERSION and REGION as `entities/entity.ts`,
`entities/changeset.ts` and `storage.js` do; `Send` is the outbox's publication to every other region, which is
repeated until it is settled; `Accept` is `converge` and what follows it, with the acknowledgement or without;
`Park` is the end of a delivery whose attempts ran out, with its record converged by one of them or by none. What a
person does with what was parked is left out.

### Cadence

`rows` is the metronome's collection; `armed`, `called`, `ended`, `quiesced`/`closing` (in `status`)
are the dispatcher's fields, `timers[p]` the timers set and the calls on their way, each with a
handle, since `armed` names one of them and several may exist. `scan[p]` and `settling[p][w]` are the
scan and the settles under way, the second because a settle that failed for its caller **may still
land** (`strays`). `Observe`, `Ensure`, `Resume` are `Scheduler.schedule` with the awaits between
its read and its writes. `Tick`, `Read`, `Arm`, `Fire`, `Taken`/`Refused`/`Failed`, `Land`, `Settled` are the
dispatcher's scan, timers, calls and settle; `Adopt` is what it does with the lanes it is told of; `Open`, `Assign`, `Pause`, `Unpause`, `Close`, `Exit` the
process. Time is one clock that all read and that stops at `Horizon`; a recurring row's occurrences
are a set of moments.

### Connector

`opening[n][k]` is the k-th connection of `n`, `closing[n][j]` its j-th disconnection: an async
function has as many activations as calls, and which of them `#connecting` and `#disconnecting` name
is what the code's joins and guards depend on. `Connect`, `Dependable`, `Opened`, `OpenFailed`,
`Consider`, `Closed`, `CloseFailed`, `Walk`, `Dispose`, `WaitFailed` are the stretches between awaits.
A close may raise (`CloseFailed`, and `WaitFailed` of those that waited for it) or never end, in `MayStick`; any
open may never end. The workload takes on what it runs inside its own `open` (`workload.js:120`); here it is built
with it. `TakeOn`, `Seek` and `Hold` are connectors found while the process runs, in the two orders the callers
use (`Local.ts` takes on and connects; `context.js` connects and takes on).

### Halt

`pending`, `timer`, `deciding` are the fields of `Halt.ts`; `quiesced`, `halting`, `cycle` those of
`workload.js`; `stopped[p]` and `walks[p]` are the parts of one path of the tree that are halted and the
walks under way over it, of which a quiesce, a cycle and a cancel may each have one. `Post`, `Begin`,
`Obey`, `Lands` are the signals, delivered in any order and, to those in `Again`, twice; `Deciding`
and `Give` the decision taken from the map, the write of a stop, its answer and the end of the grace;
`Walking` the walks; `Cycling` the drain, the teardown, the wait and the rebuild; `Shutdown` and `Exit` a
shutdown and the end of a process at any step. What the map says is a choice. `stray` is history: the processes
that obeyed a stop while they were being built again and a decision of theirs was waiting, until they next go down.
That calls a process made have ended when it is built again is a bound the model keeps: `CHECK_TIMEOUT` is less than the least
duration. It leaves out a decision taken up late in a teardown that outran its window, which `workload.js:192` follows
by a rebuild at once; such a decision may still stop the process again, for a halt whose stop it wrote. Boot, with
the gate of `Halt` up and the workload not yet connected, is left out too: it quiesces and stops nothing then.

### Deliveries

A message is a request, a task or an event; `message[m]` says where it is (queued, here, in the loop of
its own process, there in another, unserved, parked, over) and what it calls. `consumer[c]` and `comm[c]`
are how far the consumers of a component are in closing, and the communication its producer and
receivers share. `Take`, `Calls`, `Ends`, `SendAgain` are what becomes of a delivery; `Teardown`, `Seals`,
`Sealed`, `Drains`, `Rebuild`, `Reopens` the process that is taken down and built again. `late` remembers
that a delivery came between the count at zero and the broker's confirmation.

### Migrations

`rows[m]` is the row of a migration, `age[m]` the time since its heartbeat; `replica[p]` where a replica is
in `run`, and `current[p]` whether the heartbeat it read is still the row's, which is what `#steal`
compares. `Claim`, `Read`, `Steal`, `ApplyStep`, `MarkDone`, `Beat` are its steps, `CrashStarting` a crash or a
failed step at any of them, `Tick` time; a replica that takes no step while time passes has stalled.
`applied` and `lapsed` are history. The age of a heartbeat is the same to all: the code compares it with
the clock of whoever reads it (`migrations.js:83`), so a clock ahead by more than the lease takes a claim that is
fresh. What follows from that is what follows from a stall, and the model has stalls; but `OneRunner`, which leaves
out owners that stalled, says nothing of clocks.

### Journal

`journal` is what is kept, by key; `memory[c]` and `writing[c]` what the attempt at `c` knows and has not
settled, `sent` the writes on their way, which outlive the attempt that made them. A key is what was asked,
what with, and how many times exactly that was asked before. `Recall` reads a page, `GiveBack`, `Value`,
`Make`, `Record` answer what is asked next, `Reaches` and `Landed` are a write that arrives and its answer,
`Raises` and `Finish` the ends of an attempt. `made` remembers each step that was made, by its place in the
operation and the key it was made under; `held[c]` what was kept when the attempt at `c` began. The order in
which the journal answers, `Place`, is any order of the keys. Records expire with the window of their run
(`Run.ts:139`) and are not reaped in the model: everything said of a run is within its window, as the readme of
continuity has it; after it a run starts from the beginning.

### Realtime

One key. `kept` is the stream in Redis, with markers and events, `routed` tells the two apart; `link[g]` the
subscribing connection of a gateway with what is asked of it and what it brings, in order; `entry[g]` the
gateway's entry of the key, `recovery[g]` the recoveries it began; `reader[c]` a `Stream`, with what it was
sent, `client[c]` what the client took of that and the token it kept. `Route` is `APPEND`; `Enter`, `Mark`,
`Marked`, `Replay`, `Replayed` are `open` between its awaits, with Redis taking up a command and its answer
coming back as two steps; `Hear` is a message of the channel or an answer; `Lose`, `Return`, `RecoverFrom`,
`RecoverRead`, `Recovered` are `ready` and `recover`; `Leave` and `End` close a stream and a gateway, with the
client wherever it is in taking what it was sent; `Expire` is Redis. `Found` is what `read` gives, the events of
the stream after an id in order; `Writes` the loops of `ready` and of `deliver`; `Took` what a client has of the
first of what it was sent. What was asked of a connection that was lost and not heard of (`Unheard`) is asked
again, as ioredis does, and the channel may or may not be subscribed again by it, or it is refused, which ioredis
does once its retries of a request run out (`Refuse`): a first subscription that is refused ends the streams that wait
for it and leaves the key dead at that gateway (`dead`, `Hub.ts:158` keeps the rejected promise) until the gateway
ends, and a recovery goes on without its subscription. A recovery whose read is refused is not tried again (`Miss`);
`missed` has the readers of that. The stream may expire under a reader, where its renewals fail. Left out: a marker
or a replay that is refused while a stream opens. The one assumption beside the bounds is that there is a gateway.

## Runs

Every run finishes within minutes with two workers. Deadlock is not checked: each instance
really stops once its bounded inputs are used up.

| Run | Checks | Bounds |
|---|---|---|
| `outbox_replica` | `NothingDropped`, `MemoryBounded`, refinement of `AtLeastOnce` | one replica, two rows, two destinations, batch and both caps 1: every limit is reached, pages are cut short, and crash and close fall at every step |
| `writes` | `NoLostUpdate`, `EventImages`, `OnceExact`, `ReplyIsTrue`, `Permitted`, `Ends` (liveness) | two handlers; a retried transition and an assignment that removes, both `once` and arriving twice, and a transition that revives the version it names; one expiry each; one retry each; any number of transactions run again |
| | `Recovery` (liveness) with a dead destination, `NeverResent` | one row, two destinations, one of which never answers |
| `write_images` | `OwnImages`, **violated** | two handlers, an assignment and two transitions |
| `regions` | `OrderFree`, `Decided`, `Converged`, `Converges` (liveness) | two regions, three writes of all three kinds, any number of failed deliveries, parked or not |
| | `NoneSkipped`, `CatchesUp` (liveness) | one gateway, two clients, two streams opened, two events, one connection lost or gateway ended, a stream of three entries that may expire; subscriptions and reads that are refused |
| `convergence_assignment` | `ConvergedWhateverMade`, **violated** | as above without transitions over sets |
| `realtime_every` | `EveryOpenStream`, **violated** | one gateway, one client, two events |
| `cadence_replica` | types, `InHand`, `NothingSkipped` | one dispatcher, one schedule, two moments, two handles, one stray settle; pause, close and exit at every step |
| `cadence_disposal` | `Disposal` (liveness), `HeldWhileOwed` | two delayed calls, batch 1 |
| `cadence_twice` | `NothingSkipped`, **violated** | two callers of `schedule` for one row |
| `process` | types, `LastOut`, `TornDown` (liveness) | five connectors: a root over two that share one, and a remote that is looked up late; opens that fail and opens that never end, a close that fails or never ends; shutdown at every step |
| | `NotAlone`, `OneCycle`, `NothingLeftPaused`, `ComesBack` (liveness) | two processes, one halt, trees of two parts; one process may shut down or exit, the other has a signal delivered again |
| `halt_paused` | `CancelUndoes`, **violated** | one process, three halts, trees of two parts, nobody leaves |
| `work` | types, `NotWaitingOnSealed`, `TeardownEnds`, `TakenUp` (liveness) | two components, one with receivers and served elsewhere by a release that serves more; two messages, each of which may call; one resend, one return to the queue, one rebuild |
| | `AfterTheOneBefore`, `OneRunner`, `EveryoneServes` (liveness) | two replicas, two migrations of two steps, a lease of one tick, one crash |
| | `CopiesAgree`, `NotAskedAgain`, `OneIdentity` | two copies, two attempts, a value and two steps each asked with the one before, two answers, pages of one record |

Why the bounds are enough to be interesting:

- *Outbox.* With batch and caps at 1 and two rows, the second row is always one the limit cuts
  off. Two destinations make a marking have several groups. That the result does not depend on
  there being one replica, two rows or small caps is what the proofs add: they cover any number
  of replicas with overlapping claims, and any caps of at least one, which the code's 1000 and 10 000 are.
- *Writes.* Two handlers let a call interleave with its duplicate or with another; three calls, two of
  them twice, let a record be made, removed and revived with a duplicate in between. One retry and one storage attempt are enough for
  each counter to pass its limit and be reset.
- *Convergence.* Ties need two regions, and a third write breaks or prolongs one, or is made on a record
  a region was given. Any number of regions and writes is proved.
- *Cadence.* `Horizon` 2 leaves an occurrence made on time, one past its bound, and one past the end of
  the schedule; `Handles` 2 lets a row have a timer beside a call on its way (an action that would need
  a third is not taken); `Strays` bounds the writes nobody waits for. Two replicas with the lanes
  between them are covered by the proof and not by a run.
- *Connector.* `Connects` 2 never binds: the shared connector may be connected a second time, by a remote that
  is found after it went down, and with a larger bound TLC reaches no third connection and no fourth
  disconnection. Any number is proved, but for `LastOut` (see *Proofs*). The remote depends on the shared connector from the start,
  which only adds to what keeps that one from closing.
- *Halt.* Two processes are one that decides and one that is decided for; two parts are the least in which
  one walk can be ahead of another. Any number of both is proved, and so is any number of halts. `halt_paused`
  needs a third halt: one to be rebuilt from, one to leave, and one that the grace of the second cancels.
- *Deliveries.* Two messages are a delivery and the call it makes, within the process, to another one, or to
  a release that does not serve it. One rebuild shows what a sealed communication does to the next.
- *Migrations.* A lease of one tick is overrun by a stall of two. Any list and lease is proved.
- *Journal.* Pages of one record make every read one a write may come between; the order of ids is none of
  the order of writing. Any operation, page and number of attempts is proved, for what the proof covers.
- *Realtime.* Two events are one that is missed and one that is not, or one that is replayed and one that is
  held. Two streams opened are two readers of one entry, or one that comes back with its token. Gateways
  share the Redis stream and nothing else, so a reader that comes back to another one finds what it would
  find at one that has forgotten it. Any number of each is proved for `NoneSkipped`.

### Fairness

- *Outbox*: the timer and the steps of a cycle are weakly fair (nothing in the process can stop
  them while it runs); reading and settling are strongly fair (the collection may fail any
  number of times and not always), and so are landing and confirming **for the destinations in
  `Reliable`** only. Nothing is assumed of restarts, of claims or of other destinations:
  `Recovery` has "a replica stays open and keeps the lane" as its premise.
- *Transition*: `WF(Step(h))`: an invocation that runs goes on to its next await.
- *Convergence*: publication until settled, which is `Recovery` of the outbox, and that a delivery ends: it is
  acknowledged, or its attempts run out and it is parked. Not assumed: that it is ever accepted. `Converges` therefore
  has "nothing was parked that did not converge" beside `Stamped` as its premise.
- *Cadence*: the clock advances, intervals and due timers fire (weak); the store and the broker
  answer some of the calls made of them (strong). `Disposal` has "a replica stays open and keeps
  the lanes" as its premise.
- *Connector*: every `close` that began ends, but the ones in `MayStick`, and settled promises are read. Not
  assumed: that a lookup or an `open` ends. `TornDown` leaves out the connector whose close raised or hangs and what
  it is over, and one that was looked up and never opened, and nothing else: what is beside them, and all
  that is over them, goes down.
- *Halt*: timers go off, walks and calls end, a process told to leave exits. Not assumed: that a signal is
  ever delivered, or that a stop that was given up on is written.
- *Deliveries*: what a process consumes is handed to it, handlers end, pauses pass. Not assumed: that
  another process takes anything.
- *Migrations*: a replica that runs goes on, and time passes. Not assumed: that a heartbeat is set.
- *Realtime*: Redis takes up what it is asked, a connection that was lost is made again (ioredis reconnects
  for ever), and a gateway handles what comes. Not assumed: that anyone opens, leaves or routes, or that what was
  asked of a lost connection is not refused. `CatchesUp` has a stream open, unless its gateway was refused the
  channel, and catch up, unless a recovery it was open for was refused its read.

## Proofs

`tlapm` checks all of them to the last leaf. The only assumptions are the named `ASSUME`s of the
modules, on constants (limits are positive, sets are of the right kind, ranks are distinct); TLC evaluates them in the runs.

- **`OutboxProofs`**, for any replicas, rows, destinations and limits: `Typed`; `NothingIsDropped`;
  `NoPhantoms`; `KeepsPromise`, that every step of the outbox is a step of `AtLeastOnce` or stutters. The
  inductive invariant adds to the properties what each copy in memory is worth: rows on an
  operation's path were made by that replica (`Handed`), what is sent or about to be marked has
  landed (`Held`), a page is a stale copy that owes no more than the row named (`PageKnown`), and
  published rows owe nothing (`Debt`). `NothingDropped` alone is not inductive: it says nothing of
  the marks a process is about to write. `Bounded` proves `MemoryBounded` from the caps on what is in flight
  and on what is held together (`Capped`), each of them at least one: with a cap of zero the "less one" of the
  bound would be false. `SentOnce` proves `NeverResent`, an action property, from where a confirmation is to be
  found for as long as its process is open (`Known`): the pair is still held as sent, or the row does not owe it,
  in the collection and in the page the process has read of it. A page read before the row was settled is the
  hard case, so the invariant (`TrailInv`) says both of the row and of its stale copy, and of which pages there
  are (`Paged`); `Early` is the one exception the property names, of a row the pump came to before its operation
  handed it over.
- **`TransitionProofs`**, for any calls, handlers, arrivals, retries and expiries: `UpdatesAreKept`,
  `RowsAreWrites`, `OnceIsOnce`, `RepliesAreTrue`, `ConditionsHold`. The invariant adds `Fresh`
  (an invocation about to store holds the current value *whenever its version is current*, read
  under the conditions of its call), `Recorded` (an inbox entry names a write of its call) and
  `Tombstone`. `RowsAreWrites` says of a row whose transaction was run once that its images are of its own write,
  and of any other that they are of its own call over a state the record had; `write_images` shows that more does not hold.
- **`ConvergenceProofs`**, for any regions, writes, orders and repetitions, and operations of all kinds:
  `OrderIsImmaterial`, `TiesAreDecided`, `RegionsConverge`, of every state before which each write was
  published as its region made it (`Stamped`: with the region's rank and the version it stored). The
  invariant is therefore conditional, `TypeOK /\ (Stamped => IInv)`, and `Stamped` never becomes true
  again. `IInv` adds that what a region wrote it knows (`OwnKnown`), and that a written record is known
  to a region, on its way there or still in a row of another (`Spread`), from which quiet regions know the
  same set, whose greatest element is unique. A parked record counts as arrived where it was converged before
  (`NoneMissing`).
- **`CadenceProofs`**, for any replicas, rows, lanes, claims, moments and limits: `Typed`; `KeptWaiting`;
  `LeftByResume`; `NeverOrphaned`; `GivenUp`. `NothingSkipped` says nothing of memory, so the invariant (`Memory`,
  proved as `Remains`) says that what any process remembers, or has on its way, is true: a timer or
  a page of a delayed call holds the moment that call still has (`HeldTrue`, `PageTrue`), what is
  remembered as called is disposed of (`MemoryTrue`), and so is what a settle on its way says, of
  this process or of one that has ended since (`SettleTrue`). Those facts last because a delayed call
  never changes its moment, and what was made, refused or is past its bound stays so.
  `KeptWaiting` assumes that schedules are handed over by one caller at a time; `cadence_twice` shows that the assumption is needed, and `LeftByResume`, which does
  without it, that a `resume` of the row itself is the only exception.
  `GivenUp` proves `HeldWhileOwed` where no row recurs: a scan can clear only the timer that `armed` names, so
  the invariant (`InReach`) is that a timer that is not due is the one named, and its row not called. The end of
  an earlier call lets go of whatever entry the row has; it does no harm because a call went out when it was due,
  and a delayed call has one moment (`HeldTrue`), so no other timer of its row is still ahead. Of a schedule
  this does not hold (see below), and the theorem leaves schedules out.
- **`ProcessProofs`**, of `Connector`, for every tree, and whatever is looked up while it runs, fails to open or
  fails to close: `ConnectorTyped`, `LastToLeave`. The guard of `disconnect` asks whether a dependant is
  *connected*; that none is in use follows only if what closes is still connected, so the invariant (`Standing`)
  is that a connector that closes is connected, under the disconnection `#disconnecting` names, and that one
  asked to disconnect is connected or leaving until it considers it. It is lost when a connector is connected
  again, as `connect` forgets `#disconnecting`: the theorem has the condition, `[]ConnectedOnce`, which is what
  `connector.ts:20` says of it ("What is disposed of is never connected again"). Nothing is assumed of the tree,
  not even that it has no cycles.
- **`ProcessProofs`**, of `Halt`, for any processes, halts and depths, and whichever of them leave: `NoneAlone`,
  `OneAtATime`, `HaltTyped`, `AllStarted`. The invariant adds that a stop to be heard, or acknowledged, is written
  (`HeardOf`, `Acknowledged`), and that a cycle is in one stage, with one walk in the stage of walking (`Single`).
  `AllStarted` proves `NothingLeftPaused` by a second invariant relative to the first (`PausesInv`): a timer and a
  decision are of the halt that is pending, one of them at a time (`Decisive`), so nothing calls a halt off
  while its quiesce is walking (`Quiescing`); what is paused in a process that works is ahead of a walk that
  starts parts again (`Covered`); and what is built again begins with nothing of what it replaces (`Fresh`). The
  attempt to prove it without `stray` is what showed that `Decisive` fails for a process that obeys a stop while
  it is being built, which `halt_paused` turns into a trace.
- **`WorkProofs`**, of `Deliveries`, for any components, operations, messages, releases and rebuilds: `DeliveriesTyped`,
  `NoneWaits`, `StaysIdle`. `NotWaitingOnSealed` says nothing of how a communication came to be sealed: the
  invariant adds that one is sealed only after a consumer saw the count at zero (`SealedSeen`), that the count
  stays there unless a delivery is taken late (`SeenStill`), and that what the loop brought is called by a
  handler of the same process, sent before it (`Called`, `InTurn`): with nothing in hand the loop is empty too,
  as the earliest message in it would have a caller earlier still.
- **`WorkProofs`**, of `Migrations`, for any replicas, migrations, steps, leases and crashes: `MigrationsTyped`,
  `InOrder`, `OneRuns`.
  That a component serves only after everything was applied does not follow from the rows being marked
  done, since a mark names no owner: the invariant adds that what is marked was applied (`Marked`), that
  one that runs has applied the steps it has counted (`Underway`), whoever's claim it is by then, and what
  a heartbeat is worth: the claim of one that runs is fresh unless it lapsed, and one about to take over a
  claim it read unchanged takes a stale one (`Heard`).
- **`JournalProofs`**, for any operation whose members are of one kind, any copies, answers, pages and number
  of attempts: `Agreement`, `Settled`, `AskedOnce`, `SameStep`. The invariant adds that a value an attempt holds is kept or being
  written, and nothing is being written while a step is made (`Noted`); that what is being written is on
  its way or was overtaken by something kept (`OnItsWay`); and that attempts under way have numbers of
  their own (`Numbered`), by which a write that outlives its attempt is not taken for another's. `AskedOnce`
  proves `NotAskedAgain` by ranks: a record that was there when the attempt began is held, or its place among
  all that is kept is at or past the page to be read (`RecallInv`). Records are only added, so a rank only
  grows, and one that is written between two pages may be read twice and pushes none back. `SameStep` proves
  `OneIdentity`: what was given to an attempt that made a step is kept, each answer under the key that the
  answers before it determine (`Reached`), and two such sequences of one length agree, by the first place at
  which they would differ. Where nothing overlaps and no write strays, what an attempt holds and what is kept
  never differ (`Own`), which is what keeps `Reached` true.
- **`RealtimeProofs`**, for any gateways, clients, trimming, and numbers of events, streams opened and faults:
  `RealtimeInvariance`, `NothingIsSkipped`. `NoneSkipped` is about what a client took; why it lasts is in what is
  still ahead of a reader. The invariant follows an event of the stream that a reader is *behind* (neither given
  nor held, `Behind`): while the subscribing connection is up and no recovery is yet to read, the event is in that
  connection or in what a recovery found (`Carried`); a recovery that reads begins before it, and one that has
  read brings everything before it first (`RecoveryFit`); and the gateway has delivered nothing past it
  (`PastLast`), so the next recovery finds it too. That needs the channel to be carried whenever no recovery owes
  a read, which needs what is asked of a connection, and asked again after it was lost, to be told apart: no
  recovery subscribes twice, nor is the key unsubscribed once it was asked for (`AllApart`, `Linked`). On the
  reader's side a token comes after every event up to it (`Covered`), what is held leaves nothing out after the
  marker, and what was replayed nothing out between the token and it (`Gapless`, `ReaderFit`). An event that
  is heard during a recovery goes past what was missed, in the gateway (`PastLast`) and in each reader (`Given`):
  that is the counterexample of `realtime_every`, and why the property is of those it did not happen to. That a sequence is the numbers of a
  set in order (`InOrder`), and that a loop leaves what each of its steps leaves (`Writes`), are
  inductions; they are proved by the least number at which they would fail (`LeastOf`).
- **Together.** A behaviour of `ProcessSpec` is one of `ConnectorSpec` and of `HaltSpec` (`EachAlone`), and one of
  `WorkSpec` is one of each of its three (`EachApart`), so what is proved of a component holds in the
  composition: `ProcessTyped`, `WorkTyped`. The same goes for `RegionsSpec` (`EitherAlone`): `RegionsAndReaders`.

Only model-checked, and why:

- Liveness (`Recovery`, `Ends`, `Converges`, `Disposal`, `TornDown`, `ComesBack`, `TeardownEnds`, `TakenUp`,
  `EveryoneServes`, `CatchesUp`) is out of the prover's reach.
- `LastOut` where a connector is connected a second time holds for the tree of the instance; for deeper ones it
  does not (see what was seen while modelling, below).

## Where code and documentation disagree

Five runs are expected to fail; each contradicts a sentence of the repository.

- `write_images`. `row.event = { origin, state, ...row.event }` (`storage.js:460`) lets what an earlier run of the
  transaction function filled in win over the images of the run that commits. Where another write was committed in
  between, the event of an assignment carries a state the record never had, and an origin that is not what the
  write was made over. `client.js:161` says that a rolled back attempt leaves nothing behind, and `storage.js:435` that
  the images of an assignment's event are the write's own.

- `convergence_assignment`. `Changeset.set` (`runtime/core/source/entities/changeset.ts:29`) stamps the
  time and not the region. An assignment over a record another region wrote carries that region's rank;
  if the other region writes the same version the two tie, neither replaces the other, and the regions
  differ until the next write. `extensions/convergence/readme.md:93` says every region ends with the same record.
- `cadence_twice`. `Scheduler.ts:13` says handing a schedule over twice is harmless. Two hand-overs that
  both read a tombstone both `resume`, and the one that read first and writes last moves a live row
  back to an occurrence before the one it waits for.
- `halt_paused`. `decide` looks at `pending` after it has read the map and not after `call` (`Halt.ts:169`). A
  stop that is obeyed meanwhile, in a process that is being built again, empties `pending` and stops nothing;
  the grace is then set for a halt the process has left, and goes off in the next one: `give` cancels it while
  its quiesce still walks, the two walks pass each other, and parts stay paused in a process that works.
  `workload.js:93` says that `cancel` undoes a quiesce.
- `realtime_every`. `recover` reads what was written while the subscriber was away, after it has subscribed
  again (`Hub.ts:279`). An event that comes by the channel before that read is back moves the position to
  read from and the cursor of every reader past what was missed, and no reader is given it;
  `documentation/realtime.md:268` says an event reaches every open stream of its key. Where several keys are
  recovered in turn the window of the later ones is as long as the reads of the earlier.

Seen while modelling, not runs of their own:

- A cycle that was reading when `close` began publishes its page after the drain
  (`outbox.ts:184`); nothing is lost by it.
- A duplicate of a conditional call, or of a removal, that read the inbox before the first arrival
  committed is refused, where `documentation/inbox.md:58` says it is answered.
- `massStore` revives a tombstone at the version after it, and publishes the record at version 1
  (`storage.js:310`), which other regions discard.
- A scan whose read is under way when `pause` runs arms what it read, and the timer calls while the
  process is quiet, against the comment at `Dispatcher.ts:118`.
- `dispatch` deletes the entry of `armed` by id (`Dispatcher.ts:428`), so the end of a call may take the
  entry of a timer set since, which then cannot be cleared.
- `expires` is read when a timer is set and not when it fires (`Dispatcher.ts:335`), where
  `manifest.toa.yaml:18` of the metronome says that after it the call is not made at all.
- A receiver does not call `stopping.begin()` (`receiver.js:61`), and the producers of a component with receivers
  close after them (`boot/src/composition.js:80`): where every component has receivers, a call is still paused
  and sent again after the teardown began, against `stopping.js:4`.
- A delivery may be taken between the count at zero and the broker's confirmation that nothing more is handed
  over (`producer.js:98`); it may then call what its own process has sealed. And nothing stops consuming until
  the count is seen at zero, which a load that never leaves the process idle puts off for good.
- A migration's owner that stalled past its lease wakes and goes on with its steps, after those of a later
  migration (`migrations.js:172`); marks and heartbeats name the row and not the owner.
- The write of a value by an attempt that raised may land after the next attempt has taken another
  (`Run.ts:108`): the step made with it is made under two identities.
- `connect` does not refuse a connector that was disposed of; that none is connected again (`connector.ts:20`) is
  left to whoever keeps one. Where one is, by a dependant that is found late, `connect` forgets `#disconnecting`,
  and a disconnect of it asked for before finds it neither disconnecting nor linked and closes it while it
  connects. Over a deeper tree than the instance's TLC then refutes `LastOut`, in a model that lets any time pass
  at the first await of `disconnect`, where the code waits for a promise that has settled.
- A shutdown while the gates are going down clears no timer, as none is set yet (`workload.js:211`).
- A process obeys a stop while the walk of its quiesce may still wait for the `pause` of a component. The walk
  of the cycle finds that component halted and goes past it (`connector.ts:238`), and the gates go down while
  the pause runs, where `workload.js:172` has it that a component gets its `pause` while it is still whole.
- A stream that finds nothing to replay sends the token of its marker *after* what it held, which may be newer
  (`Hub.ts:131`): a reader that keeps the last token is sent those events again when it comes back.
- A subscription that is refused leaves the key's entry with a rejected promise (`Hub.ts:158`): every later
  stream of that key at that gateway fails, as no reader of it ever leaves. A recovery that fails (`Hub.ts:282`) is
  not tried again, and its readers go on without what they missed. The model has both.

## What is not modelled

- *Inside the modelled components.* Payloads, formats, logging and metrics. Outbox: the inline path of a
  storage that cannot commit a row. Transitions over a set, get-or-create, streams. Convergence: what
  regional destinations write beside a record; a write is atomic there. Cadence: `Pulse` and `Schedule`, the
  retention of tombstones. Connector: `reconnect`, which nothing calls. Deliveries: publishing, addressed calls
  and streams, which keep no state. Realtime: events that clients push, which are stored nowhere and may be
  dropped; a marker or a replay that is refused while a stream opens. Further limits are said with each module.
- *External.* The claim protocol `n-and-i`, MongoDB's transactions and TTL, the broker: taken as what the
  code relies on and no more (claims change at any moment and may overlap; a transaction is atomic and its
  answer may be lost; delivery is at least once and unordered).
- *Whole components.* Manifests, boot's construction of the tree, CLI, deployment: compilers, with no
  behaviour in time. Exposition's request handling and identity components, and the aspects over external
  services: translations of one request. Introspection's reporter: lossy by design. The conveyor: nothing in the
  repository uses it.

## Plan

Done: the survey, `Outbox` with its abstract specification, `Transition`, `Convergence`, `Cadence`, `Connector`,
`Halt`, `Deliveries`, `Migrations`, `Journal`, `Realtime`, and the proofs above.

Next, in this order:

1. Proofs: for schedules, what does hold in place of `HeldWhileOwed` (a timer that cannot be cleared fires once);
   that `OneIdentity` needs each of its two conditions; the abstract order of `Convergence` as a specification of
   its own, which the regions refine.
2. An abstract specification of `Realtime` (a log, and readers that are a prefix of it) for the recovery that reads
   before it lets the channel through, should the code come to do so.
3. `massStore` and `ensure` in `Transition`; `Quotas` (GCRA with a shared debt and clock skew); `Trail` (identities of
   retried calls, cycles); the shared clients; the gateway's tree rebuilt by announcements.
