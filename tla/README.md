# Verification of the interchain communication simulator

TLA+ models of the simulator under `src/`, checked with TLC on small
instances and proved with TLAPS for every value of the constants.  The program
is a C++20 process of some fifteen threads: chains with nodes, relayers between
them, a simulated network under both, and a controller that starts the whole,
feeds it traffic and takes it down again.

1. [The system](#1-the-system)
2. [The modules](#2-the-modules)
3. [The runs](#3-the-runs)
4. [Bounds and fairness](#4-bounds-and-fairness)
5. [The proofs](#5-the-proofs)
6. [Where code and documents disagree](#6-where-code-and-documents-disagree)
7. [What is not modelled](#7-what-is-not-modelled)
8. [Plan](#8-plan)

Paths below are relative to `src/src/`.

## 1. The system

| Component | State | Operations | What is hard | What makes it correct |
|---|---|---|---|---|
| Transport (`net/Transport.cpp`) | endpoints, a priority queue of delivery tasks, two counters, `running_`, four worker threads | `registerEndpoint`, `send`, `unregisterEndpoint`, `waitForPendingDeliveries`, `shutdown`, `setParams` | one condition variable for queue, timers, drain and shutdown; counters changed in other critical sections than the queue; handlers called outside the lock | each accepted message delivered once, not early, not to a destroyed node; the drain waits for all of them and ends; the shutdown ends |
| ConcurrentQueue (`util/ConcurrentQueue.h`) | items, `closed_` | `push`, `tryPop`, `waitPop`, `close` | lost and stolen wake-ups, closing with blocked consumers | FIFO, no lost wake-up, nothing left behind |
| IBC channel (`ibc/IBCChannel.cpp`) | `Init`/`Open`/`Closed`, one counter | `open`, `makePacket`, `acceptPacket`, `close` | one counter numbers both directions | packets accepted once, in order |
| IBC router (`ibc/IBCRouter.cpp`) | the set of bound ends | `bind`, `unbind`, `isBound` | not consulted on reception | only bound ends receive |
| Blockchain (`core/Blockchain.cpp`) | channels, router, head block | `openChannel`, `closeChannel`, `sendIBC`, `onIBCPacket`, `onIBCAck`, `appendBlock` | several threads, one static mutex, held while subscribers run | order and acks survive competing relayers |
| Event bus (`core/EventBus.cpp`) | handlers per kind, each with a token | `subscribe`, `publish`, `unsubscribe` | calls the handlers, which capture `this` of a relayer, one by one under its own mutex and the chains' | all relayers hear one order; no handler outlives its relayer |
| Relayer (`ibc/Relayer.cpp`) | pending packets, pending acks, `routeDrop_`, a thread | `start`, `stop`, `runLoop`, `relayPacket`, `relayAck`, `setDropOnRoute` | drops, failures that are counted and forgotten, copies of every packet | copies never duplicate a packet |
| Packet codec (`ibc/IBCTypes.cpp`, `core/Node.cpp`) | none | escape, split, unescape, wrap, unwrap | two writers and readers with different rules | what was sent is what is read |
| Node (`core/Node.cpp`) | inbox, `running_`, a thread | `start`, `stop`, `submitTransaction`, `onBytes`, `runLoop`, `snapshotState` | a thread blocked in `waitPop()` must be stopped | a stop that returns, nothing handled after it |
| Mempool (`core/Mempool.cpp`) | a vector | `add`, `verify`, `drain` | no mutex, several threads | what was added is there |
| Consensus engines (`consensus/*.cpp`) | votes or mined ids, finalized ids | `propose`, `onRemoteBlock`, `isFinal` | own proposal and remote blocks in any order; ids that omit part of the block | final means a quorum, or work |
| Simulation controller (`sim/SimulationController.cpp`, `main.cpp`) | every other object, the traffic thread, `g_stop`, `runThread` | `init`, `start`, `openIBC`, `injectTraffic`, `run`, `stop` | the order in which threads are joined; a stop while everything is busy | nothing alive, nothing under way when `stop()` returns |
| Configuration (`config/*.h`), common types (`core/Types.h`, `util/Error.h`) | plain data | | | the options do what they say |
| Logs and metrics (`util/DetailedLogger.cpp`, `util/Metrics.cpp`) | a file and a mutex per stream, counters | `logIBCEvent`, `logTransactionEvent`, `logRelayerState`, `logNodeState`, `incCounter` | every thread writes; the timestamp is taken outside the stream's lock, the line after the effect it tells of | the files tell what happened, in an order a reader can use |
| Log viewer (`../visualize.py`) | none | reads the files after a run | relies on what the lines promise | what it relies on holds |
| Topology, text log | | | | not modelled, see section 7 |

How they interact.  `main()` builds the controller, whose `init()` makes for
each chain its nodes (the first is the chain's *mailbox*) and connects every
relayer to every mailbox.  A packet is numbered by `Blockchain::sendIBC()` and
published on the event bus; every relayer's handler queues it; each relayer's
thread serializes it and calls `Transport::send()`; a thread of the pool calls
the mailbox node's `onBytes()`, which pushes it to the inbox; the node's thread
calls `Blockchain::onIBCPacket()`, which accepts or refuses it and, if it
accepts, publishes an ack that takes the same way back.  A transaction is added
to the mempool and sent by the node to itself, whose thread adds it again.
Each of these steps also writes a line to one of the log files and counts
itself in the metrics.
Shared state is guarded by a mutex per object (one static one for all chains, one for the bus),
except the mempool, the transport's random generator and `params_`.

PROJECT.json lists the hazards, each at the line where it bites, with the
properties that watch it.

## 2. The modules

```
MessageNetwork  <--implements--  Transport                           TransportProofs
                                 ConcurrentQueue                     ConcurrentQueueProofs
PacketService   <--implements--  IBCNetwork       MCIBCNetwork       IBCNetworkProofs
                                   extends IBCChannel
                                 Lifecycle                           LifecycleProofs
PacketTrail     <--implements--  EventLog         MCEventLog         EventLogProofs
                                   extends EventBus, IBCChannel        EventLogFilesProofs
                                 PacketCodec                         PacketCodecProofs
                                 Consensus        MCConsensus        ConsensusProofs
                                 Mempool
```

An MC module defines the constants that a `.cfg` cannot write; the other modules
are checked directly.  The same part of the program appears in several modules
at different grain: the transport is a pool of threads in `Transport`, a queue
of which one of the `Window` oldest messages is delivered next in `IBCNetwork`,
and a set in `Lifecycle` and `EventLog`; a chain's method is one step in
`IBCNetwork` and as many as it has visible effects in `EventLog`.  Each module
models what its questions need of it and names what it leaves to another.

**Transport** models `net/Transport.cpp` at the grain of its critical sections.
`wpc[w]` says where a worker is: `loop` (the test of `running_`), `wait` (about
to evaluate the predicate), `blocking` (predicate false, mutex in hand, not
blocked yet), `asleep`, `timedBlocking` and `timed` (the same for `wait_for`),
`popped` (task taken, counters not yet changed), `lookup`, `deliver`, `finish`.
`blocking` is a place of its own because `shutdown()` clears `running_` and
notifies without the mutex.  Senders are `idle`, at `push` or at `notify`;
the controller's thread walks from `setup` over `drain` and `shutdown` to
`destroy`.  The random drop is the draw the code makes, from the range of one
value its distribution has.  **MessageNetwork** is what its users may rely on.

**ConcurrentQueue** models the header: each method is one step, a consumer is
`ready`, `waiting`, `woken` or `done`, and condition variables wake spuriously.

**IBCChannel** has the channel's operations as functions from a channel to a
status and a channel.  **IBCNetwork** composes chains, routers, event bus,
relayers, transport and inboxes.  A chain's methods are one step each because
they hold the static mutex while the event handlers run.  `turn[r]` is the half
of the relayer's loop that comes next.  A packet is its route and its number: names
and payloads travel with it and are the matter of `PacketCodec`.  History
variables (`sent`, `received`, `rejected`, `acksReceived`) serve the properties.
**PacketService** is what the chains see of it all.

**Lifecycle** models `main()`, `start()` and `stop()` of the controller, and the
threads they create and join, with messages told apart by what they set off: a
transaction sets off nothing, a packet an ack at each relayer.  `mpc` is where
`main()` is; `stopping` is the node or relayer whose `stop()` it is in, between
clearing `running_`, closing the queues and the join.  `stop()` ends in the drain
and in `Transport::shutdown()`, whose `join()` hangs if a worker missed the notify
(run `transport_shutdown`): `Shutdown` and `ShutdownHangs` are the two outcomes,
and `mpc = "hung"` is a place `main()` never leaves.  A relayer's failures
(`ibc/Relayer.cpp:65`, `70`, `105`, `118`) have no branch, because with every
mailbox connected, the transport's draw and `routeDrop_` 0 none can happen; the
drop of a relayer is in `IBCNetwork` and `EventLog`.

**EventBus** has the bus's operations as functions of the bus.  **EventLog**
opens up what `IBCNetwork` takes as one step: a sender or a node's thread
takes the mutex of all chains and that of the bus, calls the handler of one
relayer after the other (`CallHandler`, over the copy `publish()` made, in
`todo`), leaves the bus, counts and stamps the event (`Stamp`), writes its line
(`Write`), and after `packet_received` goes round again for `ack_generated`.  Meanwhile the
relayers relay what they were just told and write lines of their own, other
threads make and log transactions, and the controller constructs, stops and
destroys the relayers.  `pc[t]` and `job[t]` say where each thread is and what
it is about to log; the files are variables (`ibc_events`, `transactions`,
`relayer_state`, `node_state`), `metrics` counts, and `clock_` is the system's
clock in milliseconds: from one look at it to the next it may stand still, and
nobody sets it back.  A push to a closed queue is a counted "deserialization error", as
the code's `catch` makes it.  **PacketTrail** is what a reader of
`ibc_events.jsonl` may rely on: the chains' lines in the order of their
timestamps, the ends' numbers 1, 2, 3, ..., each event once and after its cause.
It promises nothing about a relayer's line for a packet, which may stand before
the line that says the packet was created, because `publish()` comes before
the logging; only `ack_relayed` always follows `packet_received`.

**PacketCodec** takes strings as sequences of characters because escaping is
about characters; a packet passes both serializations and the wrapping on its
way from a chain to a node, and the module follows it there.  A loop over a
string is a function from what the loop has so far and the next character to
what it has then, and `Scan` runs it.  Numbers are read as `stoi()` reads them, after any white space, which the newline
stands for.  `Line` is the packet's line in the log with
the escaping of `escapeJsonString()`, and `ReadLine` a JSON reader.

**Consensus** models the three engines, one of which `Init` chooses as the factory
does from a chain's configuration.  PBFT and PoS differ in `quorum()` alone
(PBFT's prepare votes are always its commit votes); PoW has the hash as a
parameter, the number of leading zeros of each block.  `Foreign` are blocks that
reach a node and come from no engine of its chain.  No part of the program calls
the engines yet; the module calls them as `consensus/Consensus.h` describes.

**Mempool** models the unsynchronised `push_back()` in its mildest outcome.

Definitions called *Mutant* stand beside the definitions they alter: each is a
plausible slip in that code (a dropped guard, a forgotten notify), and for
every property of a passing run PROJECT.json names one that breaks it.

## 3. The runs

Passing runs:

| Run | Instance | Shows |
|---|---|---|
| `transport` | 2 workers, a sender, 3 messages, latency 1 | the counters the drain tests are exact at every instant (`CountersExact`); the drain returns only with everything delivered (`DrainMeansDelivered`); no handler of an unregistered endpoint runs (`SafeDelivery`); a message overtakes at most one per other worker and other sender (`FewOvertaken`); no task and no end of a drain is slept through (`NoLostWakeup`); nothing is early (`NoEarlyDelivery`); the pool implements `MessageNetwork`; `waitForPendingDeliveries()` returns (`DrainTerminates`) and everything accepted is delivered (`DeliversEverything`) |
| `queue` | 3 consumers, a poller, 4 items | `NoLostWakeup`, `FIFO`, `DrainedBeforeDone`; every consumer leaves a closed queue, no item stays |
| `ibc` | 2 chains, 2 competing relayers of which one drops, 2 packets, a message may overtake four, the receiving end bound and unbound at any moment | `AcceptedInOrder`, `AcksBounded` and `ImplementsService` under reordering, duplication and loss; a packet that was not accepted before is refused only because an earlier one of its source is missing or another source's packet took its number (`RefusedForCause`); nothing a reliable relayer was given is lost (`NothingLost`); every packet is decided, and what is accepted is acknowledged through every reliable relayer (`RoundTrip`) |
| `lifecycle` | 2 nodes, a relayer, 2 messages, a stop at any moment | `QuietAfterDrain`, `RefusedInOrder`, `NothingVanishes`; a stop comes to the end of the program, unless the transport's shutdown hangs: the joins of traffic, relayers, nodes and the run thread and the drain all return (`StopTerminates`); without one, every message comes to rest with its copies and acks (`SentIsHandled`) |
| `trail` | 2 relayers, one of them dropping, main() and the traffic thread, a packet and a transaction, the stop at any moment | `ibc_events.jsonl` is a trail (`ImplementsTrail`); the counters (`CountsAgree`), the relayers' files (`RelayerStatesTrue`) and `transactions.jsonl` (`TxOrdered`) agree with it; all relayers hear one order, one call apart at most, and the file tells of what they heard in that order (`SameOrder`); no handler of a destroyed relayer is called (`HandlersLive`); in the end all that was told to a relayer is logged and no thread is stuck in a chain (`Recorded`) |
| `codec` | all strings of up to 2 of the separators, escapes, quotes, control characters, digits and a letter in any one name and in the payload | packets arrive as sent; so do transactions without a pipe; a line of the log reads back as what was logged (`LineReadsBack`) |
| `consensus` | 3 nodes, a block proposed by each, 2 heights, 2 state roots, 3 nonces; PoS with 2 validators, PBFT with `f = 1`, PoW | a vote is final exactly with a quorum (`FinalIffQuorum`), with a quorum of two only when both sides proposed (`FinalNeedsBothSides`), with more never (`NothingFinalAboveTwo`); no id without work gets in (`EveryIdWorked`); what was mined or accepted is final (`MinedIsFinal`) |

Runs that are expected to find a violation check one sentence of a document or
a comment each; section 6 has them.

## 4. Bounds and fairness

Bounds, each a CONSTANT, and why they are enough to be worth checking.  (Where
section 5 has a proof, the bound matters to nothing that is proved.)

- `Transport`: one worker holds or waits for a task while the other steals, sleeps
  or waits for a later one, and three messages are one that overtakes, one it may
  overtake and one it may not; `MaxTime = 2` with latency 1 lets tasks of different
  due times compete.  Each message is sent once; the code has no state per message
  beyond its task.  Larger instances were checked once without error: three
  workers with two messages, and, without the liveness properties, two senders,
  who stamp in one order and push in the other, with four messages.
- `IBCNetwork`: two packets over two relayers are four copies, in every order,
  and a packet is overtaken by the other one's copy and by its own.  The pool
  takes tasks in the order of their due times, and latency is the same for all, so
  a message is only overtaken when its thread stalls: a worker between the queue
  and the handler, or a caller of `send()` between the stamp and the queue.  That
  is one message per worker and per caller, less the one that delivers and the
  one that sent what it delivers (`FewOvertaken`, which is proved).  Four workers
  and two relayers make it four, hence `Window = 5`.  The run that must not need
  any reordering, `ibc_shared_channel`, has `Window = 1`.
- `Lifecycle`: two messages give a packet and its ack, or two packets, at each
  moment of the stop; the parts interact by messages only through `accepted`.
- `EventLog`: one packet and one transaction with two senders are enough for a
  chain at work in every step of the other threads, for a relayer that is ahead
  of the log, for an event that reaches a closed relayer, and for every order of
  stop and traffic.  `MaxTime = 1` is a clock with two values: lines are compared
  in pairs, so what matters is whether it moved between two looks.  Larger instances, too slow for a run kept with the project,
  were checked once without error: one sender, two packets, no transaction (2.85
  million states), and routes in both directions (2.9 million).  All invariants
  and the refinement are proved for any number.
- `PacketCodec`: two characters make every pair of separator, escape, digit and
  letter adjacent, at the start and the end of a field, and an empty field.
  `n` and `u` mean something after a backslash in JSON; other letters behave
  alike, and the run has one.  Numbers are single digits.
- `Consensus`: three nodes with one block each (`MaxProposals = 1`) let a node hear
  two others before or after its own proposal, with the same or another state
  root and on the genesis or on one another.  Ids of different heights never
  compare equal, so more than two heights add nothing.
- `Mempool` adds each transaction twice, as `submitTransaction()` and the node's
  own thread do.

Fairness, and what in the code justifies it:

- A thread that can run is scheduled (weak fairness of its steps); a thread that
  competes for `tasksMtx_` gets it in the end (strong fairness in `Transport`,
  where the mutex can be free and taken again and again).
- In `EventLog` a thread that is at something, and is not blocked, goes on with
  it.  Weak fairness is enough although the chains' mutex is contended: traffic
  is bounded, so the mutex is free for good in the end.
- Time passes, and `runFor` elapses.
- The pool delivers its oldest message in the end; in `Lifecycle`, any message.
  This is what `DeliversEverything` shows of the pool.
- Nothing obliges anybody to send, to press Ctrl-C, to open or close a channel,
  or a condition variable to wake without a notify.

## 5. The proofs

Every theorem is about all values of the constants that satisfy the module's
assumption.  Most proof modules start with their
inductive invariant `IInv`; those on the log (`TInv`, `TrailInv`, `LogInv`,
`BusInv`), on the order and the wake-ups of the pool (`OrderInv`, `WakeInv`) and on
the relayers (`QueuesAlike`, `CopyInv`) build theirs part by part.

- **TransportProofs**: `TypeOK`, `CountersExact`, `SafeDelivery`,
  `DrainMeansDelivered`, `NoEarlyDelivery`, `FewOvertaken`, `NoLostWakeup` and
  `ImplementsNetwork` (the safety part).
  The counters are exact only if no task is in two places, and a drained network has
  delivered everything only if every accepted message has a carrier.  So `IInv`
  says: a message is carried by at most one of a sender, the queue and a worker
  (`Unique`), an accepted one that is not delivered by exactly one
  (`NothingLost`), and what is carried is stamped and addressed to a registered
  endpoint (`CarriedSound`).
  `FewOvertaken`: the queue gives out its earliest task, and one latency holds for
  all, so whatever was stamped before it and is still undelivered is with another
  worker or with a sender, one message each, and never with all senders: one of
  them has stamped nothing earlier (`Stamped`).  This is so when the task is popped,
  and from then on the overtaken messages only become fewer (`Few`).
  `NoLostWakeup` has two parts.  `NoOversleep`: a worker blocks only after it saw
  an empty queue or a task that is not due, and the mutex it holds until it sleeps
  keeps both true (`BlocksRightly`).  A `notify_one` may go to a worker that
  waits for another task; then that one looks at the queue again, so it is
  enough that after each push somebody is awake or sleeps no longer than the
  earliest task (`Watched`).  `NoMissedDrain` needs that the drain's predicate and
  the change of the counters are under one mutex.  The pool is assumed to have
  at least one worker.
- **ConcurrentQueueProofs**: `TypeOK`, `FIFO`, `NoLostWakeup`,
  `DrainedBeforeDone`; the last two need that a woken consumer stands for each
  item while somebody waits.
- **IBCNetworkProofs**: `TypeOK`, `AcceptedInOrder`, `ImplementsService`,
  `RelayersAgree`, `AcksBounded`, `NothingLost` (`PacketsKept` and `AcksKept`), and
  `RefusedForCause`.  Relayers and transport only
  move copies of what was sent or accepted (`QueuesSound`), and an end that
  receives expects one more than it accepted (`Expecting`); order and the absence
  of duplicates follow from these two.  `NetworkAssumption` says that no end is
  both a source and a destination, as every route of the program leaves from
  `channel-A` and arrives at `channel-B`: with one counter for both directions the
  theorem is false without it.
  `RefusedForCause` holds for sources that share an end too, as with three chains
  two of them send to the third's `channel-B`: the end counts every packet it
  accepted (`Expecting`), and every number below a sender's counter was sent
  (`AllSent`).  A number above the end's counter therefore has one of its own
  source's before it that was not accepted, and one below it is on an accepted
  packet, the packet itself or another source's.  That the program refuses
  packets that are neither early nor duplicates is `ibc_shared_channel`'s matter.
  `RelayersAgree` is inductive once it is said by positions: of any two queues one
  ends with the other, and both adding at the back and taking at the front keep
  that.  For `AcksBounded` and `AcksKept`, `CopiesOfAck` counts a packet's ack at
  relayers, in the transport, in the inbox and among those counted; it is zero
  before the packet is accepted and jumps to the number of relayers then.  It
  never grows again (`OneCopyEach`), and it falls only with a relayer that drops:
  those that still have the ack count like those that drop nothing (`KeptEach`), so
  at least the number of reliable relayers stays.  `PacketsKept` needs no
  count: whatever takes a packet from one place puts it in the next, and the
  number of an accepted or refused packet stays decided.
- **PacketCodecProofs**: `PacketArrives`, `PlainTransactionArrives` and
  `LineReadsBack`, with names and payloads of any length over any alphabet that
  has the characters with a meaning.  Each writer is shown to be undone by its
  reader, from `UnescapeEscape` over the fields of a packet (`PacketReadsBack`) and
  the envelope (`EnvelopeReadsBack`) to the JSON line (`LogLineReadsBack`); the
  invariant `Underway` says which form packet or transaction has on each leg of
  its way.
  The inductions over the length of a string are made by the well-foundedness
  of the order on numbers, as a statement about a set of lengths: the
  library's induction theorems take an operator, which no installed prover can
  instantiate.
- **EventLogProofs**: `TypeOK`, `HandlersLive`, `ImplementsTrail`.  One thread at
  most holds the chains' mutex and only that thread is at a chain's event, so
  at most one event is between its effect and its line.  The trail with that
  event added is in order (`InOrder`), each event of it has its cause before it
  (`Grounded`), and whatever queues and messages hold stands in it or is that
  event (`CopiesTrue`).
- **EventLogFilesProofs**: `SameOrder`, `TxOrdered`, `RelayerStatesTrue`,
  `CountsAgree`.  For the order: every relayer is subscribed once per kind, with
  tokens that ascend with the relayers, and has heard the finished events, and the
  one under way exactly if it is not in `todo` any more.  For the order of the
  file (`OrderInv`): while a thread is at an event, all that was heard before it
  stands in the file, because the mutex of the chains covers the publish and the
  line.  For transactions: an id
  is with one thread or message at a time, and the lines of its earlier phases
  are there.  For the relayers' files: a relayer relays a packet once, so its lines,
  which are a set, are as many as its counts.  For the counters: they differ from
  the file by the event under way and the handlers it has still to call.
- **LifecycleProofs**: `TypeOK`, `QuietAfterDrain`, `RefusedInOrder`, and
  `NothingVanishes` with at least one relayer (without one, a published packet
  has no subscriber and is gone).  The invariant says which threads and
  queues each phase of `stop()` has ended; the last theorem rests on a second
  one, that a message is in one place and that one which is made is nowhere yet.
- **ConsensusProofs**: `TypeOK`, `FinalIffQuorum`, `NothingFinalAboveTwo`,
  `FinalNeedsBothSides`, `EveryIdWorked`, `MinedIsFinal`, for any engine and any
  hash.  The invariant records that a voting engine knows two voters, itself and
  `"remote"`, and what their votes stand for.

With these every safety property of the passing runs is proved.  `TypeOK` and
`RelayersAgree` are proved and no run asks for them any more.

Only model-checked: liveness, which needs ENABLED, and that the prover does not
have (`DrainTerminates`, `DeliversEverything`, `ConsumersLeave`, `ItemsLeave`,
`RoundTrip`, `StopTerminates`, `SentIsHandled`, `Recorded`, and the fairness
`MessageNetwork` states); and everything that is expected to be violated.  What is
safety in the liveness of pool and relayers is proved: a task is not slept
through, a drain's end not missed, a packet or ack of a reliable relayer not lost.

## 6. Where code and documents disagree

Each line is a run that TLC finds violated, with the sentence it checks.

| Run | The sentence | What the code does |
|---|---|---|
| `transport_shutdown` | "Wait for a task or shutdown", `net/Transport.cpp:163` | `running_` and `notify_all()` are not under the mutex of the wait: a worker between predicate and block misses both, and `join()` hangs |
| `ibc_reordered` | "Send -> Recv -> Ack", `README.md:18` | threads that stall between the queue and the handler reorder, the channel refuses the early packet, nobody sends it again |
| `ibc_shared_channel` | "ordering/dup checks", `ibc/IBCChannel.h:29` | two sources number for one receiving counter; packets that are neither early nor duplicates are refused for ever |
| `lifecycle_budget` | "Wait for user interrupt or run completion", `main.cpp:96` | the loop looks at the signal flag alone |
| `mempool_race` | "Add to local mempool", `core/Node.cpp:94` | a data race on a `std::vector` loses the transaction |

Seen in the code while modelling it, without a run of its own:

- "opaque app/IBC payload" (`core/Transaction.h:38`): the fields of a transaction
  are not escaped; a pipe in one shifts the others, and `stoi()` (`core/Node.cpp:170`)
  throws in a thread that catches nothing.  In `PacketCodec` transactions
  without a pipe are shown to arrive.
- `../visualize.py:30` joins the events of a packet by `tx_id`, which no line of
  `ibc_events.jsonl` has, and `../visualize.py:46` looks for transactions
  `included_in_block`, which nothing logs.
- An ack published to a stopped relayer is counted as
  `relayer_deserialization_errors` (`ibc/Relayer.cpp:305`).  `CountsAgree` says so.
- "Probabilistic packet dropping" (`README.md:15`): the draw in
  `net/Transport.cpp:22` comes from `[1.0, 1.0)`, so no rate up to 1.0 drops
  anything.  `Transport` has this draw.
- "to bound channels/ports" (`ibc/IBCRouter.h:2`): `onIBCPacket()` creates and
  opens the destination of any packet; `isBound()` has no caller.  In `IBCNetwork`
  the binding of an end has no effect on what it receives.
- "use round-robin assignment" (`config/SimulationConfig.h:27`): nothing reads the
  option; every relayer gets every packet.
- "early shutdown via SIGINT" (`main.cpp:91`): after a complete stop `main()` joins
  the thread that sleeps for the rest of the time budget.
- "Simplified PBFT-style finality" (`consensus/PBFT.h:2`): all remote votes are one
  voter's, two votes at most against a quorum of three.  `NothingFinalAboveTwo`
  is the theorem.
- "whether a given block is finalized" (`consensus/Consensus.h:33`), "Accept remote
  block if PoW is valid" (`consensus/PoW.cpp:61`): ids omit the state root, so
  another block at the same place, even one without work, is final too.
- A transaction is added to the mempool twice, when it is submitted and when its
  node receives it from itself; no document says otherwise.
- A node that is started again after `stop()` answers Ok and does nothing, because
  its inbox stays closed; no caller does it.

## 7. What is not modelled

- `net/Topology.cpp`: nothing constructs it.
- `util/Logger` (the text log), the gauges and histograms of `util/Metrics`,
  `network_drops.jsonl`, and the plots and pages of `../visualize.py` and
  `../index.html`: nothing depends on them.  The locks of logs and metrics are
  leaves: no other lock is taken inside, so a line or a count is one step.
- `EventLog` keeps the relayers' lines as a set, because nothing can be said of
  where they stand; it has no lines' wording, which is in `PacketCodec`, and one
  run of the program: the files are opened for appending, and what a second
  run adds to them is not modelled.
- Operations without a caller: `Transport::setParams()`, `Blockchain::appendBlock()`,
  `IBCChannel::close()`, `IBCRouter::isBound()`, `Mempool::drain()`.  Two more have
  none and are modelled all the same: `Blockchain::closeChannel()`, `IBCNetwork`'s
  `Close`, and `Relayer::setDropOnRoute()`, whose value is the CONSTANT `RouteDrop`.
- Signs before a number, bytes above 0x7f, and a clock that is set back.
- The rest of the undefined behaviour of the mempool's race (a reallocation
  under a writer), and the race on the transport's generator, whose draw has one
  outcome.
- The random choices of the traffic are nondeterministic, wall-clock waits are
  steps that may happen at any time.
- In `Transport` each message is given to `send()` successfully once, and the
  errors of `send()` (no endpoint, dropped) change nothing and are stutters.

## 8. Plan

The order in which the modules were written, most important behaviour first:
`Transport` with `MessageNetwork` (everything rests on it), `ConcurrentQueue`,
`IBCChannel` and `IBCNetwork` with `PacketService`, `Lifecycle`, `PacketCodec`,
`Consensus`, `Mempool`, `EventBus` and `EventLog` with `PacketTrail`; each with its
proof modules where it has them.

Left, in this order:

1. `Lifecycle` over the pool of `Transport` in place of a set: `MessageNetwork`
   as the interface, so that the composition rests on the refinement.
2. Three chains on the routes of the program's traffic with all ends shared, and
   what a wedged end does to the acks.
3. A second run of the program that appends to the files of the first.
