------------------------------ MODULE Transport ------------------------------
(***************************************************************************)
(* The simulated network, src/src/net/Transport.cpp: senders queue delivery *)
(* tasks, a pool of worker threads waits on one condition variable, sleeps   *)
(* until the earliest task is due and hands it to the destination's handler, *)
(* and the controller's thread drains and stops the pool.                    *)
(*                                                                          *)
(* A step is the code between two points where another thread can get in.   *)
(* tasksMtx_ is held across steps in one place only: by a worker that has    *)
(* evaluated its predicate and has not blocked on the condition variable     *)
(* yet, because running_ and notify_all() do not take that mutex.            *)
(***************************************************************************)
EXTENDS Integers, FiniteSets

CONSTANTS
  Workers,    \* the threads of the pool (4 in the code)
  Senders,    \* the threads that call send(): traffic, nodes, relayers
  Messages,   \* the payloads; each is accepted at most once
  Addresses,  \* the endpoint addresses in use
  Latency,    \* params_.latency, in ticks
  DropRate,   \* params_.dropRate, in percent
  MaxTime,    \* bound: the clock stops here and no task is due later
  NoTask      \* a thread's task variable before it is assigned

ASSUME TransportAssumption ==
  /\ Latency \in Nat
  /\ DropRate \in Nat
  /\ MaxTime \in Nat
  /\ IsFiniteSet(Messages)
  /\ IsFiniteSet(Workers) /\ Workers # {}
  /\ IsFiniteSet(Senders)

VARIABLES
  endpoints,      \* the addresses in endpoints_
  running,        \* running_
  tasks,          \* tasks_, a priority queue: only the earliest is looked at
  pendingCount,   \* pendingCount_
  inflightCount,  \* inflightCount_
  now,            \* steady_clock::now(), in ticks
  wpc, wtask,     \* where each worker is, and its local task
  spc, stask,     \* where each sender is, and its local task
  mpc,            \* where the controller's thread is
  sentAt,         \* history: when each message was stamped by send(), or -1
  deliveries      \* history: how many times each message was handed over

queueVars  == <<tasks, pendingCount, inflightCount>>
senderVars == <<spc, stask, sentAt>>
vars == <<endpoints, running, tasks, pendingCount, inflightCount, now, wpc,
          wtask, spc, stask, mpc, sentAt, deliveries>>

Tasks == [msg : Messages, to : Addresses, deliverAt : 0..MaxTime]

WorkerPCs == {"loop", "wait", "blocking", "asleep", "timedBlocking", "timed",
              "popped", "lookup", "deliver", "finish", "exited"}

\* The places where a worker holds a task it has taken from the queue, those
\* where inflightCount_ counts it, and the controller past the drain.
InFlight == {"lookup", "deliver", "finish"}
Holding == {"popped"} \union InFlight
Drained == mpc \in {"shutdown", "notifyAll", "join", "destroy"}

Init ==
  /\ endpoints = {}
  /\ running = TRUE
  /\ tasks = {}
  /\ pendingCount = 0
  /\ inflightCount = 0
  /\ now = 0
  /\ wpc = [w \in Workers |-> "loop"]
  /\ wtask = [w \in Workers |-> NoTask]
  /\ spc = [s \in Senders |-> "idle"]
  /\ stask = [s \in Senders |-> NoTask]
  /\ mpc = "setup"
  /\ sentAt = [m \in Messages |-> -1]
  /\ deliveries = [m \in Messages |-> 0]

-----------------------------------------------------------------------------
(* Senders *)

\* Mutant: wait() tests its predicate before it has the mutex.
TasksMtxUnheld == \A w \in Workers : wpc[w] # "timedBlocking"

TasksMtxFree == \A w \in Workers : wpc[w] \notin {"blocking", "timedBlocking"}

\* dist(1.0, 1.0) draws from a range of a single value
Draws == 100..100
ShouldDrop(rate) == \E draw \in Draws : draw < rate

\* send() up to the stamp: a missing endpoint or a drop returns an error and
\* changes nothing.
Stamp(s, m, a) ==
  /\ mpc = "run"
  /\ spc[s] = "idle"
  /\ a \in endpoints
  /\ ~ShouldDrop(DropRate)
  /\ sentAt[m] = -1
  /\ now + Latency <= MaxTime
  /\ stask' = [stask EXCEPT ![s] = [msg |-> m, to |-> a, deliverAt |-> now + Latency]]
  /\ spc' = [spc EXCEPT ![s] = "push"]
  /\ sentAt' = [sentAt EXCEPT ![m] = now]
  /\ UNCHANGED <<endpoints, running, queueVars, now, wpc, wtask, mpc, deliveries>>

Push(s) ==
  /\ spc[s] = "push"
  /\ TasksMtxFree
  /\ tasks' = tasks \union {stask[s]}
  /\ pendingCount' = pendingCount + 1
  /\ spc' = [spc EXCEPT ![s] = "notify"]
  /\ UNCHANGED <<endpoints, running, inflightCount, now, wpc, wtask, stask,
                 mpc, sentAt, deliveries>>

\* The workers blocked on tasksCV_, and where each resumes when it is woken:
\* wait() evaluates its predicate again, wait_for() continues the outer loop.
Blocked == {w \in Workers : wpc[w] \in {"asleep", "timed"}}
Resume(w) == IF wpc[w] = "asleep" THEN "wait" ELSE "loop"

\* Mutant: nobody is told of the new task.
NotifyOneForgotten(s) ==
  /\ spc[s] = "notify"
  /\ spc' = [spc EXCEPT ![s] = "idle"]
  /\ stask' = [stask EXCEPT ![s] = NoTask]
  /\ UNCHANGED <<endpoints, running, queueVars, now, wpc, wtask, mpc, sentAt, deliveries>>

NotifyOne(s) ==
  /\ spc[s] = "notify"
  /\ \/ /\ Blocked = {}
        /\ UNCHANGED wpc
     \/ \E w \in Blocked : wpc' = [wpc EXCEPT ![w] = Resume(w)]
  /\ spc' = [spc EXCEPT ![s] = "idle"]
  /\ stask' = [stask EXCEPT ![s] = NoTask]
  /\ UNCHANGED <<endpoints, running, queueVars, now, wtask, mpc, sentAt, deliveries>>

-----------------------------------------------------------------------------
(* Workers *)

\* while (running_)
Loop(w) ==
  /\ wpc[w] = "loop"
  /\ wpc' = [wpc EXCEPT ![w] = IF running THEN "wait" ELSE "exited"]
  /\ wtask' = [wtask EXCEPT ![w] = NoTask]
  /\ UNCHANGED <<endpoints, running, queueVars, now, senderVars, mpc, deliveries>>

\* The predicate is false: the worker is about to block, tasksMtx_ in hand.
FindNothing(w) ==
  /\ wpc[w] = "wait"
  /\ TasksMtxFree
  /\ running
  /\ tasks = {}
  /\ wpc' = [wpc EXCEPT ![w] = "blocking"]
  /\ UNCHANGED <<endpoints, running, queueVars, now, wtask, senderVars, mpc, deliveries>>

\* The predicate holds because of the shutdown alone: break.
FindShutdown(w) ==
  /\ wpc[w] = "wait"
  /\ TasksMtxFree
  /\ ~running
  /\ tasks = {}
  /\ wpc' = [wpc EXCEPT ![w] = "exited"]
  /\ UNCHANGED <<endpoints, running, queueVars, now, wtask, senderVars, mpc, deliveries>>

\* Mutant: without the comparator the task with the largest deliverAt is on top.
Latest(t) == t \in tasks /\ \A u \in tasks : u.deliverAt <= t.deliverAt

\* tasks_.top() is any of the tasks with the smallest deliverAt.
Earliest(t) == t \in tasks /\ \A u \in tasks : t.deliverAt <= u.deliverAt

\* Mutants: the due time is not tested; the task is read but not popped.
PopTaskEarly(w, t) ==
  /\ wpc[w] = "wait" /\ TasksMtxFree /\ Earliest(t)
  /\ tasks' = tasks \ {t}
  /\ wtask' = [wtask EXCEPT ![w] = t]
  /\ wpc' = [wpc EXCEPT ![w] = "popped"]
  /\ UNCHANGED <<endpoints, running, pendingCount, inflightCount, now,
                 senderVars, mpc, deliveries>>

PopTaskKept(w, t) ==
  /\ wpc[w] = "wait" /\ TasksMtxFree /\ Earliest(t) /\ t.deliverAt <= now
  /\ wtask' = [wtask EXCEPT ![w] = t]
  /\ wpc' = [wpc EXCEPT ![w] = "popped"]
  /\ UNCHANGED <<endpoints, running, queueVars, now, senderVars, mpc, deliveries>>

PopTask(w, t) ==
  /\ wpc[w] = "wait"
  /\ TasksMtxFree
  /\ Earliest(t)
  /\ t.deliverAt <= now
  /\ tasks' = tasks \ {t}
  /\ wtask' = [wtask EXCEPT ![w] = t]
  /\ wpc' = [wpc EXCEPT ![w] = "popped"]
  /\ UNCHANGED <<endpoints, running, pendingCount, inflightCount, now,
                 senderVars, mpc, deliveries>>

\* The earliest task is not due: wait_for the time that is left.
FindEarly(w, t) ==
  /\ wpc[w] = "wait"
  /\ TasksMtxFree
  /\ Earliest(t)
  /\ t.deliverAt > now
  /\ wtask' = [wtask EXCEPT ![w] = t]
  /\ wpc' = [wpc EXCEPT ![w] = "timedBlocking"]
  /\ UNCHANGED <<endpoints, running, queueVars, now, senderVars, mpc, deliveries>>

Block(w) ==
  /\ wpc[w] \in {"blocking", "timedBlocking"}
  /\ wpc' = [wpc EXCEPT ![w] = IF @ = "blocking" THEN "asleep" ELSE "timed"]
  /\ UNCHANGED <<endpoints, running, queueVars, now, wtask, senderVars, mpc, deliveries>>

Timeout(w) ==
  /\ wpc[w] = "timed"
  /\ now >= wtask[w].deliverAt
  /\ wpc' = [wpc EXCEPT ![w] = "loop"]
  /\ UNCHANGED <<endpoints, running, queueVars, now, wtask, senderVars, mpc, deliveries>>

\* A condition variable may wake for no reason.
SpuriousWake(w) ==
  /\ w \in Blocked
  /\ wpc' = [wpc EXCEPT ![w] = Resume(w)]
  /\ UNCHANGED <<endpoints, running, queueVars, now, wtask, senderVars, mpc, deliveries>>

\* Mutant: the task leaves the pending count without entering the other.
CountInflightLost(w) ==
  /\ wpc[w] = "popped" /\ TasksMtxFree
  /\ pendingCount' = pendingCount - 1
  /\ wpc' = [wpc EXCEPT ![w] = "lookup"]
  /\ UNCHANGED <<endpoints, running, tasks, inflightCount, now, wtask,
                 senderVars, mpc, deliveries>>

\* The counters are updated in a critical section of their own.
CountInflight(w) ==
  /\ wpc[w] = "popped"
  /\ TasksMtxFree
  /\ pendingCount' = pendingCount - 1
  /\ inflightCount' = inflightCount + 1
  /\ wpc' = [wpc EXCEPT ![w] = "lookup"]
  /\ UNCHANGED <<endpoints, running, tasks, now, wtask, senderVars, mpc, deliveries>>

\* The handler is copied under endpointsMtx_ and called after its release.
Lookup(w) ==
  /\ wpc[w] = "lookup"
  /\ wpc' = [wpc EXCEPT ![w] = IF wtask[w].to \in endpoints THEN "deliver" ELSE "finish"]
  /\ UNCHANGED <<endpoints, running, queueVars, now, wtask, senderVars, mpc, deliveries>>

Deliver(w) ==
  /\ wpc[w] = "deliver"
  /\ deliveries' = [deliveries EXCEPT ![wtask[w].msg] = @ + 1]
  /\ wpc' = [wpc EXCEPT ![w] = "finish"]
  /\ UNCHANGED <<endpoints, running, queueVars, now, wtask, senderVars, mpc>>

\* Mutant: the thread that waits for the drain is not notified.
FinishSilent(w) ==
  /\ wpc[w] = "finish" /\ TasksMtxFree
  /\ inflightCount' = inflightCount - 1
  /\ wpc' = [wpc EXCEPT ![w] = "loop"]
  /\ wtask' = [wtask EXCEPT ![w] = NoTask]
  /\ UNCHANGED <<endpoints, running, tasks, pendingCount, now, senderVars, mpc, deliveries>>

Finish(w) ==
  /\ wpc[w] = "finish"
  /\ TasksMtxFree
  /\ inflightCount' = inflightCount - 1
  /\ wpc' = [wpc EXCEPT ![w] = "loop"]
  /\ wtask' = [wtask EXCEPT ![w] = NoTask]
  /\ mpc' = IF mpc = "drainAsleep" /\ pendingCount = 0 /\ inflightCount = 1
            THEN "drain" ELSE mpc
  /\ UNCHANGED <<endpoints, running, tasks, pendingCount, now, senderVars, deliveries>>

-----------------------------------------------------------------------------
(* The controller's thread *)

\* registerEndpoint() by the constructors of the nodes, before start()
Register(a) ==
  /\ mpc = "setup"
  /\ a \notin endpoints
  /\ endpoints' = endpoints \union {a}
  /\ UNCHANGED <<running, queueVars, now, wpc, wtask, senderVars, mpc, deliveries>>

MainStep(from, to) ==
  /\ mpc = from
  /\ mpc' = to
  /\ UNCHANGED <<endpoints, queueVars, now, wtask, senderVars, deliveries>>

StartTraffic == MainStep("setup", "run") /\ UNCHANGED <<running, wpc>>

\* stop() has joined the traffic, relayer and node threads: no send is left.
StopTraffic ==
  /\ \A s \in Senders : spc[s] = "idle"
  /\ MainStep("run", "drain")
  /\ UNCHANGED <<running, wpc>>

\* Mutant: only the queue is waited for, not the deliveries in progress.
DrainCheckQueue ==
  /\ TasksMtxFree
  /\ MainStep("drain", IF pendingCount = 0 THEN "shutdown" ELSE "drainAsleep")
  /\ UNCHANGED <<running, wpc>>

\* waitForPendingDeliveries(): the predicate and the block are one step, as
\* the counters change under tasksMtx_ only.
DrainCheck ==
  /\ TasksMtxFree
  /\ MainStep("drain", IF pendingCount = 0 /\ inflightCount = 0
                       THEN "shutdown" ELSE "drainAsleep")
  /\ UNCHANGED <<running, wpc>>

\* shutdown(): running_.exchange(false), then notify_all(), neither of them
\* under tasksMtx_; then join.
ClearRunning ==
  /\ MainStep("shutdown", "notifyAll")
  /\ running' = FALSE
  /\ UNCHANGED wpc

NotifyAll ==
  /\ MainStep("notifyAll", "join")
  /\ wpc' = [w \in Workers |-> IF w \in Blocked THEN Resume(w) ELSE wpc[w]]
  /\ UNCHANGED running

JoinWorkers ==
  /\ \A w \in Workers : wpc[w] = "exited"
  /\ MainStep("join", "destroy")
  /\ UNCHANGED <<running, wpc>>

\* Mutant: the nodes go while the pool is being drained.
UnregisterEarly(a) ==
  /\ mpc \notin {"setup", "run"}
  /\ a \in endpoints
  /\ endpoints' = endpoints \ {a}
  /\ UNCHANGED <<running, queueVars, now, wpc, wtask, senderVars, mpc, deliveries>>

\* unregisterEndpoint() by the destructors of the nodes
Unregister(a) ==
  /\ mpc = "destroy"
  /\ a \in endpoints
  /\ endpoints' = endpoints \ {a}
  /\ UNCHANGED <<running, queueVars, now, wpc, wtask, senderVars, mpc, deliveries>>

-----------------------------------------------------------------------------

Tick ==
  /\ now < MaxTime
  /\ now' = now + 1
  /\ UNCHANGED <<endpoints, running, queueVars, wpc, wtask, senderVars, mpc, deliveries>>

Terminated == mpc = "destroy" /\ endpoints = {} /\ UNCHANGED vars

SenderStep(s) == Push(s) \/ NotifyOne(s)

WorkerStep(w) ==
  \/ Loop(w) \/ FindNothing(w) \/ FindShutdown(w) \/ Block(w) \/ Timeout(w)
  \/ CountInflight(w) \/ Lookup(w) \/ Deliver(w) \/ Finish(w)
  \/ \E t \in tasks : PopTask(w, t) \/ FindEarly(w, t)

StopStep == DrainCheck \/ ClearRunning \/ NotifyAll \/ JoinWorkers

Next ==
  \/ \E s \in Senders : SenderStep(s)
  \/ \E s \in Senders, m \in Messages, a \in Addresses : Stamp(s, m, a)
  \/ \E w \in Workers : WorkerStep(w) \/ SpuriousWake(w)
  \/ \E a \in Addresses : Register(a) \/ Unregister(a)
  \/ StartTraffic \/ StopTraffic \/ StopStep
  \/ Tick \/ Terminated

Spec == Init /\ [][Next]_vars

\* Every thread that can run is scheduled, every thread that competes for
\* tasksMtx_ gets it in the end, and time passes.  Nothing obliges the traffic
\* to start or to stop, or a condition variable to wake without a notify.
Fairness ==
  /\ \A s \in Senders : SF_vars(SenderStep(s))
  /\ \A w \in Workers : SF_vars(WorkerStep(w))
  /\ SF_vars(StopStep)
  /\ WF_vars(Tick)

FairSpec == Spec /\ Fairness

-----------------------------------------------------------------------------
(* Properties *)

\* Every variable stays in its type; a worker holds a task exactly at the
\* places where the code uses it.
TypeOK ==
  /\ endpoints \subseteq Addresses
  /\ running \in BOOLEAN
  /\ tasks \subseteq Tasks
  /\ pendingCount \in Int
  /\ inflightCount \in Int
  /\ now \in 0..MaxTime
  /\ wpc \in [Workers -> WorkerPCs]
  /\ wtask \in [Workers -> Tasks \union {NoTask}]
  /\ \A w \in Workers :
       wpc[w] \in {"timedBlocking", "timed"} \union Holding => wtask[w] \in Tasks
  /\ spc \in [Senders -> {"idle", "push", "notify"}]
  /\ stask \in [Senders -> Tasks \union {NoTask}]
  /\ \A s \in Senders : spc[s] # "idle" => stask[s] \in Tasks
  /\ mpc \in {"setup", "run", "drain", "drainAsleep", "shutdown", "notifyAll",
              "join", "destroy"}
  /\ sentAt \in [Messages -> -1..MaxTime]
  /\ deliveries \in [Messages -> Nat]

\* The two counters waitForPendingDeliveries() tests are exact at every
\* instant, although they change in other critical sections than the queue:
\* a popped task is counted as pending until it is counted as in flight.
CountersExact ==
  /\ pendingCount = Cardinality(tasks) + Cardinality({w \in Workers : wpc[w] = "popped"})
  /\ inflightCount = Cardinality({w \in Workers : wpc[w] \in InFlight})

\* Once waitForPendingDeliveries() has returned, no task is queued or in a
\* worker's hands and every message send() accepted has reached its handler.
DrainMeansDelivered ==
  Drained =>
    /\ tasks = {}
    /\ \A w \in Workers : wpc[w] \notin Holding
    /\ \A m \in Messages : sentAt[m] # -1 => deliveries[m] = 1

\* A worker never calls the handler of an endpoint that has been unregistered:
\* it calls its copy of the handler outside endpointsMtx_, so this rests on the
\* drain and the join that stop() performs before the nodes are destroyed.
SafeDelivery ==
  \A w \in Workers : wpc[w] = "deliver" => wtask[w].to \in endpoints

\* No message reaches its handler before the link latency has passed since
\* send() stamped it, however often the worker's timed wait is cut short.
NoEarlyDelivery ==
  [][\A m \in Messages : deliveries'[m] # deliveries[m] => now >= sentAt[m] + Latency]_vars

\* The messages stamped before m that have not reached their handler
Overtaken(m) ==
  {k \in Messages : sentAt[k] # -1 /\ deliveries[k] = 0 /\ sentAt[k] < sentAt[m]}

\* A message overtakes at most one other message per remaining thread when it
\* reaches its handler: one that another worker of the pool has popped, or one
\* that another sender has stamped and not pushed, as send() stamps a task
\* before it takes tasksMtx_.  Nothing in the queue itself is overtaken.
FewOvertaken ==
  \A w \in Workers : wpc[w] = "deliver" =>
    Cardinality(Overtaken(wtask[w].msg)) <= Cardinality(Workers) + Cardinality(Senders) - 2

\* A queued task is never slept through: unless notify_one() is still to come,
\* one of the workers is awake or waits no longer than until the earliest task
\* is due, whatever task it waits for and whichever worker a notify has woken.
NoOversleep ==
  tasks # {} /\ (\A s \in Senders : spc[s] # "notify") /\ Blocked = Workers =>
    \E w \in Workers : wpc[w] = "timed" /\ \A t \in tasks : wtask[w].deliverAt <= t.deliverAt

\* The thread in waitForPendingDeliveries() sleeps only while there is a
\* delivery left that wakes it when it ends.
NoMissedDrain == mpc = "drainAsleep" => pendingCount # 0 \/ inflightCount # 0

\* No thread sleeps past what it waits for, though notify_one() comes after the
\* mutex is released and may wake a worker that waits for something else.
NoLostWakeup == NoOversleep /\ NoMissedDrain

\* The pool implements the network its users see: at most one delivery of each
\* accepted message, nothing accepted after the drain, a drain that waits for
\* every message, and (fairly scheduled) the delivery of each of them.
Network == INSTANCE MessageNetwork WITH
  accepted <- {m \in Messages : sentAt[m] # -1},
  drained <- Drained

ImplementsNetwork == Network!Spec
DeliversEverything == Network!FairSpec

\* waitForPendingDeliveries() returns: no delivery is stuck behind workers that
\* sleep, and the last one wakes the thread that waits for the drain.
DrainTerminates == mpc = "drain" ~> mpc = "shutdown"

\* shutdown() returns: "Wait for a task or shutdown" (Transport.cpp:163) says
\* that a waiting worker notices the shutdown, and join() waits for all of them.
ShutdownTerminates == mpc = "shutdown" ~> mpc = "destroy"
=============================================================================
