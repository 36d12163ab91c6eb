--------------------------- MODULE TransportProofs ---------------------------
(***************************************************************************)
(* Proofs about the network of src/src/net/Transport.cpp for any number of  *)
(* workers, senders, messages and addresses and any latency.                *)
(*                                                                          *)
(* The counters are exact only if no task is queued twice, and a drained     *)
(* network has delivered everything only if every accepted message is        *)
(* carried by someone until it is delivered.  Hence the invariant below: a   *)
(* message is carried by at most one of a sender, the queue and a worker,    *)
(* and an accepted message that is not delivered yet by exactly one.         *)
(***************************************************************************)
EXTENDS Transport, TLAPS, FiniteSetTheorems

\* The workers and senders that carry a task not handed over yet
Undelivered == {"popped", "lookup", "deliver"}

Carried(m) ==
  \/ \E t \in tasks : t.msg = m
  \/ \E w \in Workers : wpc[w] \in Undelivered /\ wtask[w].msg = m
  \/ \E s \in Senders : spc[s] = "push" /\ stask[s].msg = m

\* Nobody carries the same message as another.
Unique ==
  /\ \A t, u \in tasks : t.msg = u.msg => t = u
  /\ \A w, v \in Workers :
       wpc[w] \in Holding /\ wpc[v] \in Holding /\ wtask[w].msg = wtask[v].msg => w = v
  /\ \A r, s \in Senders :
       spc[r] = "push" /\ spc[s] = "push" /\ stask[r].msg = stask[s].msg => r = s
  /\ \A t \in tasks, w \in Workers : wpc[w] \in Holding => t.msg # wtask[w].msg
  /\ \A t \in tasks, s \in Senders : spc[s] = "push" => t.msg # stask[s].msg
  /\ \A w \in Workers, s \in Senders :
       wpc[w] \in Holding /\ spc[s] = "push" => wtask[w].msg # stask[s].msg

\* A task whose message was stamped Latency before it is due and whose
\* destination was registered
Sound(t) ==
  /\ sentAt[t.msg] # -1
  /\ t.deliverAt = sentAt[t.msg] + Latency
  /\ mpc # "destroy" => t.to \in endpoints

\* What is carried was accepted and is not delivered.
CarriedSound ==
  /\ \A t \in tasks : Sound(t) /\ deliveries[t.msg] = 0
  /\ \A w \in Workers : wpc[w] \in Holding =>
       /\ Sound(wtask[w])
       /\ wpc[w] # "finish" => deliveries[wtask[w].msg] = 0
       /\ now >= wtask[w].deliverAt
  /\ \A s \in Senders : spc[s] = "push" =>
       Sound(stask[s]) /\ deliveries[stask[s].msg] = 0

\* What is accepted is carried until it is delivered, once.
NothingLost ==
  \A m \in Messages :
    /\ deliveries[m] \in {0, 1}
    /\ deliveries[m] = 1 => sentAt[m] # -1
    /\ sentAt[m] # -1 /\ deliveries[m] = 0 => Carried(m)

Stopped ==
  /\ mpc \notin {"setup", "run"} => \A s \in Senders : spc[s] = "idle"
  /\ Drained => tasks = {} /\ \A w \in Workers : wpc[w] \notin Holding

CarrierInv == IsFiniteSet(tasks) /\ Unique /\ CarriedSound /\ NothingLost

IInv == TypeOK /\ CarrierInv /\ CountersExact /\ Stopped /\ SafeDelivery
-----------------------------------------------------------------------------
(* Type correctness *)

LEMMA TypeInit == Init => TypeOK
  BY TransportAssumption DEF Init, TypeOK, WorkerPCs, Holding, InFlight

\* Every step of a sender, a worker, the controller or the clock keeps the types.
LEMMA TypeStep == TypeOK /\ [Next]_vars => TypeOK'
<1> SUFFICES ASSUME TypeOK, [Next]_vars PROVE TypeOK'
  OBVIOUS
<1> USE TransportAssumption DEF TypeOK, queueVars, senderVars, Holding, InFlight
<1>1. ASSUME NEW s \in Senders, NEW m \in Messages, NEW a \in Addresses, Stamp(s, m, a)
      PROVE  TypeOK'
  <2>1. [msg |-> m, to |-> a, deliverAt |-> now + Latency] \in Tasks
    BY <1>1 DEF Stamp, Tasks
  <2> QED BY <1>1, <2>1 DEF Stamp
<1>2. ASSUME NEW s \in Senders, Push(s) PROVE TypeOK'
  BY <1>2 DEF Push
<1>3. ASSUME NEW s \in Senders, NotifyOne(s) PROVE TypeOK'
  BY <1>3 DEF NotifyOne, Blocked, Resume, WorkerPCs
<1>4. ASSUME NEW w \in Workers, Loop(w) PROVE TypeOK'
  BY <1>4 DEF Loop, WorkerPCs
<1>5. ASSUME NEW w \in Workers, FindNothing(w) \/ FindShutdown(w) \/ Block(w) \/ Timeout(w)
      PROVE  TypeOK'
  BY <1>5 DEF FindNothing, FindShutdown, Block, Timeout, WorkerPCs
<1>6. ASSUME NEW w \in Workers, NEW t \in tasks, PopTask(w, t) \/ FindEarly(w, t)
      PROVE  TypeOK'
  BY <1>6 DEF PopTask, FindEarly, WorkerPCs
<1>7. ASSUME NEW w \in Workers, SpuriousWake(w) PROVE TypeOK'
  BY <1>7 DEF SpuriousWake, Blocked, Resume, WorkerPCs
<1>8. ASSUME NEW w \in Workers, CountInflight(w) \/ Lookup(w) PROVE TypeOK'
  BY <1>8 DEF CountInflight, Lookup, WorkerPCs
<1>9. ASSUME NEW w \in Workers, Deliver(w) PROVE TypeOK'
  <2>1. wtask[w].msg \in Messages
    BY <1>9 DEF Deliver, Tasks
  <2> QED BY <1>9, <2>1 DEF Deliver, WorkerPCs
<1>10. ASSUME NEW w \in Workers, Finish(w) PROVE TypeOK'
  BY <1>10 DEF Finish, WorkerPCs
<1>11. ASSUME NEW a \in Addresses, Register(a) \/ Unregister(a) PROVE TypeOK'
  BY <1>11 DEF Register, Unregister
<1>12. CASE StartTraffic \/ StopTraffic \/ DrainCheck \/ ClearRunning \/ JoinWorkers
  BY <1>12 DEF StartTraffic, StopTraffic, DrainCheck, ClearRunning, JoinWorkers, MainStep
<1>13. CASE NotifyAll
  BY <1>13 DEF NotifyAll, MainStep, Blocked, Resume, WorkerPCs
<1>14. CASE Tick
  BY <1>14 DEF Tick
<1>15. CASE UNCHANGED vars
  BY <1>15 DEF vars
<1> QED
  BY <1>1, <1>2, <1>3, <1>4, <1>5, <1>6, <1>7, <1>8, <1>9, <1>10, <1>11, <1>12,
     <1>13, <1>14, <1>15
  DEF Next, SenderStep, WorkerStep, StopStep, Terminated

\* Every variable keeps its type, and a worker has a task wherever it uses one.
THEOREM TypeCorrect == Spec => []TypeOK
  BY TypeInit, TypeStep, PTL DEF Spec

-----------------------------------------------------------------------------
(* The carriers of messages *)

LEMMA CarrierInit == Init => CarrierInv /\ Stopped
  BY FS_EmptySet
  DEF Init, CarrierInv, Unique, CarriedSound, NothingLost, Stopped, Drained,
      Holding, InFlight

\* A step that moves no task and no message: the carriers stay as they are.
LEMMA CarrierIdle ==
  ASSUME TypeOK, CarrierInv,
         UNCHANGED <<tasks, sentAt, deliveries>>,
         now <= now',
         mpc = "destroy" => mpc' = "destroy",
         mpc # "destroy" /\ mpc' # "destroy" => endpoints \subseteq endpoints',
         \A w \in Workers : wpc'[w] \in Holding => wpc[w] = wpc'[w] /\ wtask'[w] = wtask[w],
         \A w \in Workers : wpc[w] \in Undelivered => wpc[w] = wpc'[w],
         \A s \in Senders : spc'[s] = "push" <=> spc[s] = "push",
         \A s \in Senders : spc[s] = "push" => stask'[s] = stask[s],
         now \in Int, now' \in Int
  PROVE  CarrierInv'
  BY SMTT(30) DEF TypeOK, CarrierInv, Unique, CarriedSound, NothingLost, Carried,
     Sound, Undelivered, Holding, InFlight, Tasks

\* send() makes its caller the only carrier of a message nobody had accepted.
LEMMA CarrierStamp ==
  ASSUME TypeOK, CarrierInv, NEW s \in Senders, NEW m \in Messages,
         NEW a \in Addresses, Stamp(s, m, a)
  PROVE  CarrierInv'
<1> USE TransportAssumption DEF Stamp, queueVars
<1> DEFINE new == [msg |-> m, to |-> a, deliverAt |-> now + Latency]
<1>1. /\ stask' = [stask EXCEPT ![s] = new]
      /\ spc' = [spc EXCEPT ![s] = "push"]
      /\ sentAt' = [sentAt EXCEPT ![m] = now]
  OBVIOUS
<1>2. new \in Tasks /\ new.msg = m
  BY DEF TypeOK, Tasks
<1>3. /\ deliveries[m] = 0
      /\ \A t \in tasks : t.msg # m
      /\ \A w \in Workers : wpc[w] \in Holding => wtask[w].msg # m
      /\ \A r \in Senders : spc[r] = "push" => stask[r].msg # m
  BY DEF TypeOK, CarrierInv, NothingLost, CarriedSound, Sound
<1>4. Unique'
  BY <1>1, <1>2, <1>3 DEF TypeOK, CarrierInv, Unique
<1>5. CarriedSound'
  BY <1>1, <1>2, <1>3 DEF TypeOK, CarrierInv, CarriedSound, Sound, Tasks, Holding, InFlight
<1>6. NothingLost'
  BY <1>1, <1>2, <1>3 DEF TypeOK, CarrierInv, NothingLost, Carried
<1> QED BY <1>4, <1>5, <1>6 DEF CarrierInv

\* A task moves from its sender to the queue.
LEMMA CarrierPush ==
  ASSUME TypeOK, CarrierInv, NEW s \in Senders, Push(s)
  PROVE  CarrierInv'
<1> USE DEF Push
<1>1. stask[s] \in Tasks
  BY DEF TypeOK
<1>2. IsFiniteSet(tasks')
  BY FS_AddElement DEF CarrierInv
<1>3. Unique'
  BY DEF TypeOK, CarrierInv, Unique
<1>4. CarriedSound'
  BY <1>1 DEF TypeOK, CarrierInv, CarriedSound, Sound, Tasks, Holding, InFlight
<1>5. NothingLost'
  BY <1>1 DEF TypeOK, CarrierInv, NothingLost, Carried
<1> QED BY <1>2, <1>3, <1>4, <1>5 DEF CarrierInv

\* A task moves from the queue to the worker that pops it.
LEMMA CarrierPop ==
  ASSUME TypeOK, CarrierInv, NEW w \in Workers, NEW t \in tasks, PopTask(w, t)
  PROVE  CarrierInv'
<1> USE DEF PopTask, senderVars
<1>1. t \in Tasks /\ t.deliverAt <= now
  BY DEF TypeOK
<1>2. IsFiniteSet(tasks')
  BY FS_RemoveElement DEF CarrierInv
<1>3. Unique'
  BY DEF TypeOK, CarrierInv, Unique
<1>4. CarriedSound'
  BY <1>1 DEF TypeOK, CarrierInv, CarriedSound, Sound, Tasks, Holding, InFlight
<1>5. NothingLost'
  BY <1>1 DEF TypeOK, CarrierInv, NothingLost, Carried, Undelivered
<1> QED BY <1>2, <1>3, <1>4, <1>5 DEF CarrierInv

\* The worker hands its task over; what others carry is another message.
LEMMA CarrierDeliver ==
  ASSUME TypeOK, CarrierInv, NEW w \in Workers, Deliver(w)
  PROVE  CarrierInv'
<1> USE DEF Deliver, senderVars, queueVars
<1>1. wtask[w] \in Tasks /\ wtask[w].msg \in Messages /\ wpc[w] \in Holding
  BY DEF TypeOK, Tasks, Holding, InFlight
<1>2. Unique'
  BY <1>1 DEF TypeOK, CarrierInv, Unique
<1>3. CarriedSound'
  BY <1>1 DEF TypeOK, CarrierInv, CarriedSound, Unique, Sound, Tasks, Holding, InFlight
<1>4. NothingLost'
  BY <1>1 DEF TypeOK, CarrierInv, CarriedSound, Sound, NothingLost, Carried,
     Undelivered, Holding, InFlight
<1> QED BY <1>2, <1>3, <1>4 DEF CarrierInv

\* While a worker holds a task its destination is registered: the lookup finds it.
LEMMA CarrierLookup ==
  ASSUME TypeOK, CarrierInv, Stopped, NEW w \in Workers, Lookup(w)
  PROVE  CarrierInv' /\ wpc' = [wpc EXCEPT ![w] = "deliver"]
<1>1. wtask[w].to \in endpoints
  BY DEF Lookup, CarrierInv, CarriedSound, Sound, Stopped, Drained, Holding, InFlight
<1>2. wpc' = [wpc EXCEPT ![w] = "deliver"] /\ wpc[w] = "lookup"
  BY <1>1 DEF Lookup
<1>3. CarrierInv'
  BY <1>2 DEF Lookup, TypeOK, CarrierInv, Unique, CarriedSound, NothingLost, Carried, Sound,
     Undelivered, Holding, InFlight, senderVars, queueVars
<1> QED BY <1>2, <1>3

LEMMA CarrierStep == TypeOK /\ CarrierInv /\ Stopped /\ [Next]_vars => CarrierInv'
<1> SUFFICES ASSUME TypeOK, CarrierInv, Stopped, [Next]_vars PROVE CarrierInv'
  OBVIOUS
<1>1. ASSUME NEW s \in Senders, NEW m \in Messages, NEW a \in Addresses, Stamp(s, m, a)
      PROVE  CarrierInv'
  BY <1>1, CarrierStamp
<1>2. ASSUME NEW s \in Senders, Push(s) PROVE CarrierInv'
  BY <1>2, CarrierPush
<1>3. ASSUME NEW w \in Workers, NEW t \in tasks, PopTask(w, t) PROVE CarrierInv'
  BY <1>3, CarrierPop
<1>4. ASSUME NEW w \in Workers, Deliver(w) PROVE CarrierInv'
  BY <1>4, CarrierDeliver
<1>5. ASSUME NEW w \in Workers, Lookup(w) PROVE CarrierInv'
  BY <1>5, CarrierLookup
<1> USE DEF senderVars, queueVars
<1>6. ASSUME NEW s \in Senders, NotifyOne(s) PROVE CarrierInv'
  <2>1. UNCHANGED <<tasks, sentAt, deliveries, endpoints, now, mpc, wtask>>
    BY <1>6 DEF NotifyOne
  <2>2. \A w \in Workers :
             wpc'[w] # wpc[w] => wpc[w] \in {"asleep", "timed"} /\ wpc'[w] \in {"wait", "loop"}
    BY <1>6 DEF NotifyOne, TypeOK, Blocked, Resume
  <2>3. \A r \in Senders : /\ spc'[r] = "push" <=> spc[r] = "push"
                           /\ spc[r] = "push" => stask'[r] = stask[r]
    BY <1>6 DEF NotifyOne, TypeOK
  <2> QED BY <2>1, <2>2, <2>3, CarrierIdle DEF TypeOK, Holding, InFlight, Undelivered
<1>7. ASSUME NEW w \in Workers,
             \/ Loop(w) \/ FindNothing(w) \/ FindShutdown(w) \/ Block(w) \/ Timeout(w)
             \/ SpuriousWake(w) \/ \E t \in tasks : FindEarly(w, t)
      PROVE  CarrierInv'
  <2>1. /\ UNCHANGED <<tasks, sentAt, deliveries, endpoints, now, mpc, spc, stask>>
        /\ wpc[w] \notin Holding /\ wpc'[w] \notin Holding
        /\ \A v \in Workers \ {w} : wpc'[v] = wpc[v] /\ wtask'[v] = wtask[v]
    BY <1>7 DEF TypeOK, Loop, FindNothing, FindShutdown, Block, Timeout, SpuriousWake,
       FindEarly, Blocked, Resume, Holding, InFlight
  <2> QED BY <2>1, CarrierIdle DEF TypeOK, Holding, InFlight, Undelivered
<1>8. ASSUME NEW w \in Workers, CountInflight(w) PROVE CarrierInv'
  BY <1>8 DEF CountInflight, TypeOK, CarrierInv, Unique, CarriedSound, NothingLost,
     Carried, Sound, Undelivered, Holding, InFlight
<1>9. ASSUME NEW w \in Workers, Finish(w) PROVE CarrierInv'
  <2>1. /\ UNCHANGED <<tasks, sentAt, deliveries, endpoints, now, spc, stask>>
        /\ mpc = "destroy" <=> mpc' = "destroy"
        /\ wpc[w] = "finish" /\ wpc'[w] = "loop"
        /\ \A v \in Workers \ {w} : wpc'[v] = wpc[v] /\ wtask'[v] = wtask[v]
    BY <1>9 DEF Finish, TypeOK
  <2> QED BY <2>1, CarrierIdle DEF TypeOK, Holding, InFlight, Undelivered
<1>10. ASSUME NEW a \in Addresses, Register(a) \/ Unregister(a) PROVE CarrierInv'
  <2>1. /\ UNCHANGED <<tasks, sentAt, deliveries, now, mpc, wpc, wtask, spc, stask>>
        /\ mpc # "destroy" => endpoints \subseteq endpoints'
    BY <1>10 DEF Register, Unregister
  <2> QED BY <2>1, CarrierIdle DEF TypeOK
<1>11. CASE StartTraffic \/ StopTraffic \/ DrainCheck \/ ClearRunning \/ JoinWorkers
  <2>1. /\ UNCHANGED <<tasks, sentAt, deliveries, now, endpoints, wpc, wtask, spc, stask>>
        /\ mpc # "destroy"
    BY <1>11 DEF StartTraffic, StopTraffic, DrainCheck, ClearRunning, JoinWorkers, MainStep
  <2> QED BY <2>1, CarrierIdle DEF TypeOK
<1>12. CASE NotifyAll
  <2>1. /\ UNCHANGED <<tasks, sentAt, deliveries, now, endpoints, wtask, spc, stask>>
        /\ mpc # "destroy"
        /\ \A w \in Workers :
             wpc'[w] # wpc[w] => wpc[w] \in {"asleep", "timed"} /\ wpc'[w] \in {"wait", "loop"}
    BY <1>12 DEF NotifyAll, MainStep, TypeOK, Blocked, Resume
  <2> QED BY <2>1, CarrierIdle DEF TypeOK, Holding, InFlight, Undelivered
<1>13. CASE Tick
  BY <1>13, CarrierIdle DEF Tick, TypeOK
<1>14. CASE UNCHANGED vars
  BY <1>14, CarrierIdle DEF vars, TypeOK
<1> QED
  BY <1>1, <1>2, <1>3, <1>4, <1>5, <1>6, <1>7, <1>8, <1>9, <1>10, <1>11, <1>12, <1>13, <1>14
  DEF Next, SenderStep, WorkerStep, StopStep, Terminated

-----------------------------------------------------------------------------
(* The counters *)

Popped == {w \in Workers : wpc[w] = "popped"}
Flying == {w \in Workers : wpc[w] \in InFlight}

\* A step after which the queue and both sets of workers are what they were
LEMMA CountersIdle ==
  ASSUME TypeOK, CountersExact, UNCHANGED <<tasks, pendingCount, inflightCount>>,
         \A w \in Workers : wpc'[w] = "popped" <=> wpc[w] = "popped",
         \A w \in Workers : wpc'[w] \in InFlight <=> wpc[w] \in InFlight
  PROVE  CountersExact'
  BY DEF CountersExact

LEMMA WorkersFinite == IsFiniteSet(Popped) /\ IsFiniteSet(Flying)
  BY TransportAssumption, FS_Subset DEF Popped, Flying

LEMMA CountersStep ==
  TypeOK /\ CarrierInv /\ Stopped /\ CountersExact /\ [Next]_vars => CountersExact'
<1> SUFFICES ASSUME TypeOK, CarrierInv, Stopped, CountersExact, [Next]_vars
             PROVE  CountersExact'
  OBVIOUS
<1> USE DEF senderVars, queueVars
<1>0. /\ IsFiniteSet(tasks) /\ IsFiniteSet(Popped) /\ IsFiniteSet(Flying)
      /\ pendingCount = Cardinality(tasks) + Cardinality(Popped)
      /\ inflightCount = Cardinality(Flying)
      /\ Cardinality(tasks) \in Nat /\ Cardinality(Popped) \in Nat
  BY WorkersFinite, FS_CardinalityType DEF CarrierInv, CountersExact, Popped, Flying
<1>1. ASSUME NEW s \in Senders, Push(s) PROVE CountersExact'
  <2>1. stask[s] \notin tasks
    BY <1>1 DEF Push, CarrierInv, Unique
  <2>2. Cardinality(tasks') = Cardinality(tasks) + 1
    BY <1>0, <1>1, <2>1, FS_AddElement DEF Push
  <2> QED BY <1>0, <1>1, <2>2 DEF Push, CountersExact, Popped, Flying
<1>2. ASSUME NEW w \in Workers, NEW t \in tasks, PopTask(w, t) PROVE CountersExact'
  <2>1. Popped' = Popped \union {w} /\ w \notin Popped /\ Flying' = Flying
    BY <1>2 DEF PopTask, Popped, Flying, TypeOK, InFlight
  <2>2. Cardinality(tasks') = Cardinality(tasks) - 1
    BY <1>0, <1>2, FS_RemoveElement DEF PopTask
  <2>3. Cardinality(Popped') = Cardinality(Popped) + 1
    BY <1>0, <2>1, FS_AddElement
  <2> QED BY <1>0, <1>2, <2>1, <2>2, <2>3 DEF PopTask, CountersExact, Popped, Flying
<1>3. ASSUME NEW w \in Workers, CountInflight(w) PROVE CountersExact'
  <2>1. /\ Popped' = Popped \ {w} /\ w \in Popped
        /\ Flying' = Flying \union {w} /\ w \notin Flying
    BY <1>3 DEF CountInflight, Popped, Flying, TypeOK, InFlight
  <2>2. /\ Cardinality(Popped') = Cardinality(Popped) - 1
        /\ Cardinality(Flying') = Cardinality(Flying) + 1
    BY <1>0, <2>1, FS_AddElement, FS_RemoveElement
  <2> QED BY <1>0, <1>3, <2>2 DEF CountInflight, CountersExact, Popped, Flying
<1>4. ASSUME NEW w \in Workers, Finish(w) PROVE CountersExact'
  <2>1. Flying' = Flying \ {w} /\ w \in Flying /\ Popped' = Popped
    BY <1>4 DEF Finish, Popped, Flying, TypeOK, InFlight
  <2>2. Cardinality(Flying') = Cardinality(Flying) - 1
    BY <1>0, <2>1, FS_RemoveElement
  <2> QED BY <1>0, <1>4, <2>1, <2>2 DEF Finish, CountersExact, Popped, Flying
<1>5. ASSUME NEW w \in Workers, Lookup(w) PROVE CountersExact'
  BY <1>5, CountersIdle DEF Lookup, TypeOK, InFlight
<1>6. ASSUME NEW w \in Workers,
             \/ Loop(w) \/ FindNothing(w) \/ FindShutdown(w) \/ Block(w) \/ Timeout(w)
             \/ SpuriousWake(w) \/ Deliver(w) \/ \E t \in tasks : FindEarly(w, t)
      PROVE  CountersExact'
  BY <1>6, CountersIdle
  DEF TypeOK, Loop, FindNothing, FindShutdown, Block, Timeout, SpuriousWake, Deliver,
      FindEarly, Blocked, Resume, InFlight
<1>7. ASSUME NEW s \in Senders, NotifyOne(s) PROVE CountersExact'
  BY <1>7, CountersIdle DEF NotifyOne, Blocked, Resume, TypeOK, InFlight
<1>8. CASE NotifyAll
  BY <1>8, CountersIdle DEF NotifyAll, MainStep, Blocked, Resume, TypeOK, InFlight
<1>9. ASSUME NEW s \in Senders, NEW m \in Messages, NEW a \in Addresses, Stamp(s, m, a)
      PROVE  CountersExact'
  BY <1>9, CountersIdle DEF Stamp
<1>10. ASSUME NEW a \in Addresses, Register(a) \/ Unregister(a) PROVE CountersExact'
  BY <1>10, CountersIdle DEF Register, Unregister
<1>11. CASE StartTraffic \/ StopTraffic \/ DrainCheck \/ ClearRunning \/ JoinWorkers
  BY <1>11, CountersIdle
  DEF StartTraffic, StopTraffic, DrainCheck, ClearRunning, JoinWorkers, MainStep
<1>12. CASE Tick \/ UNCHANGED vars
  BY <1>12, CountersIdle DEF Tick, vars
<1> QED
  BY <1>1, <1>2, <1>3, <1>4, <1>5, <1>6, <1>7, <1>8, <1>9, <1>10, <1>11, <1>12
  DEF Next, SenderStep, WorkerStep, StopStep, Terminated

-----------------------------------------------------------------------------
(* The order of the stop *)

\* Past the drain nothing is queued or held: exact counters that are both zero
\* mean an empty queue and idle workers, and no sender is left to refill it.
LEMMA StoppedStep ==
  TypeOK /\ CarrierInv /\ Stopped /\ CountersExact /\ [Next]_vars => Stopped'
<1> SUFFICES ASSUME TypeOK, CarrierInv, Stopped, CountersExact, [Next]_vars PROVE Stopped'
  OBVIOUS
<1> USE DEF senderVars, queueVars, Stopped, Drained
<1>1. CASE DrainCheck
  <2>1. CASE pendingCount = 0 /\ inflightCount = 0
    <3>1. /\ IsFiniteSet(tasks) /\ IsFiniteSet(Popped) /\ IsFiniteSet(Flying)
          /\ pendingCount = Cardinality(tasks) + Cardinality(Popped)
          /\ inflightCount = Cardinality(Flying)
      BY WorkersFinite DEF CarrierInv, CountersExact, Popped, Flying
    <3>2. Cardinality(tasks) = 0 /\ Cardinality(Popped) = 0 /\ Cardinality(Flying) = 0
      BY <2>1, <3>1, FS_CardinalityType
    <3>3. tasks = {} /\ Popped = {} /\ Flying = {}
      BY <3>1, <3>2, FS_EmptySet
    <3>4. \A w \in Workers : wpc[w] \notin Holding
      BY <3>3 DEF Popped, Flying, Holding
    <3> QED BY <1>1, <3>3, <3>4 DEF DrainCheck, MainStep
  <2>2. CASE ~(pendingCount = 0 /\ inflightCount = 0)
    BY <1>1, <2>2 DEF DrainCheck, MainStep
  <2> QED BY <2>1, <2>2
<1>2. CASE StartTraffic \/ StopTraffic \/ ClearRunning \/ JoinWorkers
  BY <1>2 DEF StartTraffic, StopTraffic, ClearRunning, JoinWorkers, MainStep
<1>3. CASE NotifyAll
  BY <1>3 DEF NotifyAll, MainStep, Blocked, Resume, TypeOK, Holding, InFlight
<1>4. ASSUME NEW s \in Senders, NEW m \in Messages, NEW a \in Addresses,
             Stamp(s, m, a) \/ Push(s) \/ NotifyOne(s)
      PROVE  Stopped'
  BY <1>4 DEF Stamp, Push, NotifyOne, Blocked, Resume, TypeOK, Holding, InFlight
<1>5. ASSUME NEW s \in Senders, Push(s) \/ NotifyOne(s) PROVE Stopped'
  BY <1>5 DEF Push, NotifyOne, Blocked, Resume, TypeOK, Holding, InFlight
<1>6. ASSUME NEW w \in Workers, WorkerStep(w) \/ SpuriousWake(w) PROVE Stopped'
  BY <1>6
  DEF WorkerStep, Loop, FindNothing, FindShutdown, Block, Timeout, CountInflight, Lookup,
      Deliver, Finish, PopTask, FindEarly, SpuriousWake, Earliest, Blocked, Resume, TypeOK,
      Holding, InFlight
<1>7. ASSUME NEW a \in Addresses, Register(a) \/ Unregister(a) PROVE Stopped'
  BY <1>7 DEF Register, Unregister
<1>8. CASE Tick \/ UNCHANGED vars
  BY <1>8 DEF Tick, vars
<1> QED
  BY <1>1, <1>2, <1>3, <1>4, <1>5, <1>6, <1>7, <1>8
  DEF Next, SenderStep, StopStep, Terminated

LEMMA SafeDeliveryFromInv == CarrierInv /\ Stopped => SafeDelivery
  BY DEF CarrierInv, CarriedSound, Sound, Stopped, Drained, SafeDelivery, Holding, InFlight

LEMMA InvariantInit == Init => IInv
<1> SUFFICES ASSUME Init PROVE IInv
  OBVIOUS
<1>1. CountersExact
  <2>1. Popped = {} /\ Flying = {} /\ tasks = {}
    BY DEF Init, Popped, Flying, InFlight
  <2>2. Cardinality({}) = 0
    BY FS_EmptySet
  <2>3. /\ Cardinality(tasks) = 0
        /\ Cardinality({w \in Workers : wpc[w] = "popped"}) = 0
        /\ Cardinality({w \in Workers : wpc[w] \in InFlight}) = 0
    BY <2>1, <2>2 DEF Popped, Flying
  <2> QED BY <2>3 DEF Init, CountersExact
<1> QED BY <1>1, TypeInit, CarrierInit, SafeDeliveryFromInv DEF IInv

\* The inductive invariant: types, carriers, exact counters and the stop order.
THEOREM Invariant == Spec => []IInv
<1>1. Init => IInv
  BY InvariantInit
<1>2. ASSUME IInv, [Next]_vars PROVE IInv'
  <2>1. TypeOK' /\ CarrierInv' /\ CountersExact' /\ Stopped'
    BY <1>2, TypeStep, CarrierStep, CountersStep, StoppedStep DEF IInv
  <2>2. SafeDelivery'
    BY <2>1 DEF CarrierInv, CarriedSound, Sound, Stopped, Drained, SafeDelivery, Holding, InFlight
  <2> QED BY <2>1, <2>2 DEF IInv
<1> QED BY <1>1, <1>2, PTL DEF Spec

\* pendingCount_ and inflightCount_ are exact between any two steps of any threads.
THEOREM CountersAreExact == Spec => []CountersExact
  BY Invariant, PTL DEF IInv

\* No worker calls the handler of a node that has been destroyed.
THEOREM DeliveryIsSafe == Spec => []SafeDelivery
  BY Invariant, PTL DEF IInv

LEMMA DrainedFromInv == IInv => DrainMeansDelivered
  BY DEF IInv, DrainMeansDelivered, Stopped, Drained, CarrierInv, NothingLost, Carried,
     Undelivered, Holding, InFlight

\* When waitForPendingDeliveries() has returned, every accepted message was delivered.
THEOREM DrainDelivers == Spec => []DrainMeansDelivered
  BY Invariant, DrainedFromInv, PTL

-----------------------------------------------------------------------------
(* How far the pool reorders *)

\* A message was stamped in the past, and the sender of one that has been
\* pushed is about to push none that was stamped before it.
Stamped ==
  \A m \in Messages : sentAt[m] # -1 =>
    /\ sentAt[m] <= now
    /\ \E s \in Senders : spc[s] = "push" => sentAt[m] <= sentAt[stask[s].msg]

\* The bound holds from the moment a worker pops a task: from then on the
\* messages stamped before it can only be delivered.
Few ==
  \A w \in Workers : wpc[w] \in Undelivered =>
    Cardinality(Overtaken(wtask[w].msg)) <= Cardinality(Workers) + Cardinality(Senders) - 2

OrderInv == Stamped /\ Few

LEMMA OvertakenFinite ==
  ASSUME NEW m
  PROVE  IsFiniteSet(Overtaken(m)) /\ Cardinality(Overtaken(m)) \in Nat
  BY TransportAssumption, FS_Subset, FS_CardinalityType DEF Overtaken

\* Threads that carry a message each carry at most as many messages.
LEMMA OneEach ==
  ASSUME NEW S, IsFiniteSet(S), NEW f, NEW T, T = {f[x] : x \in S}
  PROVE  IsFiniteSet(T) /\ Cardinality(T) <= Cardinality(S)
<1> DEFINE g == [x \in S |-> f[x]]
<1>1. g \in Surjection(S, T)
  BY DEF Surjection
<1> QED BY <1>1, FS_Surjection

\* What a worker overtakes with the earliest task is in the hands of the other
\* threads of the pool, and of the senders but the one that sent the task.
LEMMA PopOvertakes ==
  ASSUME IInv, Stamped, NEW w \in Workers, NEW t \in tasks, PopTask(w, t)
  PROVE  Cardinality(Overtaken(t.msg)) <= Cardinality(Workers) + Cardinality(Senders) - 2
<1>1. t \in Tasks /\ t.msg \in Messages
  BY DEF IInv, TypeOK, Tasks
<1>2. Sound(t) /\ sentAt[t.msg] \in Int
  BY <1>1, TransportAssumption DEF IInv, CarrierInv, CarriedSound, TypeOK
<1>3. PICK r \in Senders : spc[r] = "push" => sentAt[t.msg] <= sentAt[stask[r].msg]
  BY <1>1, <1>2 DEF Stamped, Sound
<1> DEFINE others == Workers \ {w}
           callers == Senders \ {r}
           inHand == [v \in Workers |-> wtask[v].msg]
           inCall == [s \in Senders |-> stask[s].msg]
           held == {inHand[v] : v \in others}
           called == {inCall[s] : s \in callers}
<1>4. Overtaken(t.msg) \subseteq held \union called
  <2> SUFFICES ASSUME NEW k \in Overtaken(t.msg) PROVE k \in held \union called
    OBVIOUS
  <2>1. k \in Messages /\ sentAt[k] # -1 /\ deliveries[k] = 0 /\ sentAt[k] < sentAt[t.msg]
    BY DEF Overtaken
  <2>2. Carried(k)
    BY <2>1 DEF IInv, CarrierInv, NothingLost
  <2>3. \A u \in tasks : u.msg # k
    <3> SUFFICES ASSUME NEW u \in tasks, u.msg = k PROVE FALSE
      OBVIOUS
    <3>1. t.deliverAt <= u.deliverAt
      BY DEF PopTask, Earliest
    <3>2. Sound(u)
      BY DEF IInv, CarrierInv, CarriedSound
    <3>3. sentAt[k] \in Int
      BY <2>1, TransportAssumption DEF IInv, TypeOK
    <3> QED BY <1>2, <2>1, <3>1, <3>2, <3>3, TransportAssumption DEF Sound
  <2>4. CASE \E v \in Workers : wpc[v] \in Undelivered /\ wtask[v].msg = k
    <3>1. PICK v \in Workers : wpc[v] \in Undelivered /\ wtask[v].msg = k
      BY <2>4
    <3>2. v \in others /\ inHand[v] = k
      BY <3>1 DEF PopTask, Undelivered
    <3> QED BY <3>2
  <2>5. CASE \E s \in Senders : spc[s] = "push" /\ stask[s].msg = k
    <3>1. PICK s \in Senders : spc[s] = "push" /\ stask[s].msg = k
      BY <2>5
    <3>2. sentAt[k] \in Int
      BY <2>1, TransportAssumption DEF IInv, TypeOK
    <3>3. s \in callers /\ inCall[s] = k
      BY <1>2, <1>3, <2>1, <3>1, <3>2
    <3> QED BY <3>3
  <2> QED BY <2>2, <2>3, <2>4, <2>5 DEF Carried
<1>5. /\ IsFiniteSet(others) /\ Cardinality(others) = Cardinality(Workers) - 1
      /\ IsFiniteSet(callers) /\ Cardinality(callers) = Cardinality(Senders) - 1
  BY TransportAssumption, FS_RemoveElement
<1>6. /\ Cardinality(others) \in Nat /\ Cardinality(callers) \in Nat
      /\ Cardinality(Workers) \in Nat /\ Cardinality(Senders) \in Nat
  BY <1>5, TransportAssumption, FS_CardinalityType
<1>7. IsFiniteSet(held) /\ Cardinality(held) <= Cardinality(others)
  BY <1>5, OneEach
<1>8. IsFiniteSet(called) /\ Cardinality(called) <= Cardinality(callers)
  BY <1>5, OneEach
<1> HIDE DEF held, called, others, callers
<1>9. /\ IsFiniteSet(held \union called)
      /\ Cardinality(held \union called) <= Cardinality(held) + Cardinality(called)
  <2>1. /\ IsFiniteSet(held \union called)
        /\ Cardinality(held \union called)
             = Cardinality(held) + Cardinality(called) - Cardinality(held \intersect called)
    BY <1>7, <1>8, FS_Union
  <2>2. IsFiniteSet(held \intersect called)
    BY <1>7, FS_Subset
  <2>3. /\ Cardinality(held) \in Nat /\ Cardinality(called) \in Nat
        /\ Cardinality(held \intersect called) \in Nat
    BY <1>7, <1>8, <2>2, FS_CardinalityType
  <2> QED BY <2>1, <2>3
<1>10. Cardinality(Overtaken(t.msg)) <= Cardinality(held \union called)
  BY <1>4, <1>9, FS_Subset
<1>11. /\ Cardinality(held) \in Nat /\ Cardinality(called) \in Nat
       /\ Cardinality(held \union called) \in Nat /\ Cardinality(Overtaken(t.msg)) \in Nat
  BY <1>7, <1>8, <1>9, FS_CardinalityType, OvertakenFinite
<1> QED BY <1>5, <1>6, <1>7, <1>8, <1>9, <1>10, <1>11

\* A step after which no message that was stamped before another one is new
LEMMA FewShrinks ==
  ASSUME IInv, Few, NEW w \in Workers, wpc[w] \in Undelivered, wtask'[w] = wtask[w],
         Overtaken(wtask[w].msg)' \subseteq Overtaken(wtask[w].msg)
  PROVE  Cardinality(Overtaken(wtask[w].msg)')
           <= Cardinality(Workers) + Cardinality(Senders) - 2
<1> DEFINE before == Overtaken(wtask[w].msg)
           after == Overtaken(wtask[w].msg)'
<1>1. IsFiniteSet(before) /\ Cardinality(before) \in Nat
  BY OvertakenFinite
<1>2. Cardinality(before) <= Cardinality(Workers) + Cardinality(Senders) - 2
  BY DEF Few
<1>3. Cardinality(Workers) \in Nat /\ Cardinality(Senders) \in Nat
  BY TransportAssumption, FS_CardinalityType
<1>4. after \subseteq before
  OBVIOUS
<1> HIDE DEF before, after
<1>5. IsFiniteSet(after) /\ Cardinality(after) <= Cardinality(before)
  BY <1>1, <1>4, FS_Subset
<1>6. Cardinality(after) \in Nat
  BY <1>5, FS_CardinalityType
<1>7. Cardinality(after) <= Cardinality(Workers) + Cardinality(Senders) - 2
  BY <1>1, <1>2, <1>3, <1>5, <1>6
<1> QED BY <1>7 DEF after

\* A step of no sender and no delivery
LEMMA FewIdle ==
  ASSUME IInv, Few, UNCHANGED <<sentAt, deliveries>>,
         \A w \in Workers : wpc'[w] \in Undelivered =>
           wpc[w] \in Undelivered /\ wtask'[w] = wtask[w]
  PROVE  Few'
<1> SUFFICES ASSUME NEW w \in Workers, wpc'[w] \in Undelivered
             PROVE  Cardinality(Overtaken(wtask[w].msg)')
                      <= Cardinality(Workers) + Cardinality(Senders) - 2
  BY DEF Few
<1>1. wpc[w] \in Undelivered /\ wtask'[w] = wtask[w]
  OBVIOUS
<1>2. Overtaken(wtask[w].msg)' \subseteq Overtaken(wtask[w].msg)
  BY <1>1 DEF Overtaken
<1> QED BY <1>1, <1>2, FewShrinks

\* A new stamp is later than that of every message a worker holds.
LEMMA OrderStamp ==
  ASSUME IInv, OrderInv, NEW s \in Senders, NEW m \in Messages, NEW a \in Addresses,
         Stamp(s, m, a)
  PROVE  OrderInv'
<1> USE TransportAssumption DEF OrderInv
<1>1. /\ sentAt \in [Messages -> -1..MaxTime] /\ now \in 0..MaxTime
      /\ stask \in [Senders -> Tasks \union {NoTask}]
      /\ spc \in [Senders -> {"idle", "push", "notify"}]
  BY DEF IInv, TypeOK
<1>2. /\ sentAt' = [sentAt EXCEPT ![m] = now] /\ sentAt[m] = -1
      /\ spc' = [spc EXCEPT ![s] = "push"] /\ stask'[s].msg = m
      /\ UNCHANGED <<now, wpc, wtask, deliveries>>
  BY <1>1 DEF Stamp
<1>3. Stamped'
  <2> SUFFICES ASSUME NEW k \in Messages, sentAt'[k] # -1
               PROVE  sentAt'[k] <= now' /\ sentAt'[k] <= sentAt'[stask'[s].msg]
    BY DEF Stamped
  <2>1. sentAt'[k] <= now
    BY <1>1, <1>2 DEF Stamped
  <2> QED BY <1>1, <1>2, <2>1
<1>4. ASSUME NEW w \in Workers, wpc'[w] \in Undelivered
      PROVE  Cardinality(Overtaken(wtask[w].msg)')
               <= Cardinality(Workers) + Cardinality(Senders) - 2
  <2>1. wpc[w] \in Undelivered /\ wtask'[w] = wtask[w] /\ wpc[w] \in Holding
    BY <1>2, <1>4 DEF Undelivered, Holding, InFlight
  <2>2. wtask[w].msg \in Messages /\ sentAt[wtask[w].msg] # -1
    BY <2>1 DEF IInv, TypeOK, CarrierInv, CarriedSound, Sound, Tasks
  <2>3. sentAt'[wtask[w].msg] = sentAt[wtask[w].msg] /\ sentAt[wtask[w].msg] <= now
    BY <1>1, <1>2, <2>2 DEF Stamped
  <2>4. \A k \in Messages : sentAt'[k] = IF k = m THEN now ELSE sentAt[k]
    BY <1>1, <1>2
  <2>5. Overtaken(wtask[w].msg)' \subseteq Overtaken(wtask[w].msg)
    BY <1>1, <1>2, <2>1, <2>2, <2>3, <2>4 DEF Overtaken
  <2> QED BY <2>1, <2>5, FewShrinks
<1>5. Few'
  BY <1>4 DEF Few
<1> QED BY <1>3, <1>5

LEMMA OrderPop ==
  ASSUME IInv, OrderInv, NEW w \in Workers, NEW t \in tasks, PopTask(w, t)
  PROVE  Few'
<1>1. /\ UNCHANGED <<sentAt, deliveries>> /\ wtask'[w] = t
      /\ \A v \in Workers \ {w} : wpc'[v] = wpc[v] /\ wtask'[v] = wtask[v]
  BY DEF PopTask, senderVars, IInv, TypeOK
<1>2. Cardinality(Overtaken(t.msg)) <= Cardinality(Workers) + Cardinality(Senders) - 2
  BY PopOvertakes DEF OrderInv
<1> SUFFICES ASSUME NEW v \in Workers, wpc'[v] \in Undelivered
             PROVE  Cardinality(Overtaken(wtask[v].msg)')
                      <= Cardinality(Workers) + Cardinality(Senders) - 2
  BY DEF Few
<1>3. CASE v = w
  <2>1. Overtaken(wtask[v].msg)' = Overtaken(t.msg)
    BY <1>1, <1>3 DEF Overtaken
  <2> QED BY <1>2, <2>1
<1>4. CASE v # w
  <2>1. wpc[v] \in Undelivered /\ wtask'[v] = wtask[v]
    BY <1>1, <1>4
  <2>2. Overtaken(wtask[v].msg)' \subseteq Overtaken(wtask[v].msg)
    BY <1>1, <2>1 DEF Overtaken
  <2> QED BY <2>1, <2>2, FewShrinks DEF OrderInv
<1> QED BY <1>3, <1>4

LEMMA OrderDeliver ==
  ASSUME IInv, OrderInv, NEW w \in Workers, Deliver(w)
  PROVE  Few'
<1>1. /\ UNCHANGED <<sentAt, wtask>> /\ wpc'[w] = "finish"
      /\ \A v \in Workers \ {w} : wpc'[v] = wpc[v]
      /\ \A m \in Messages : deliveries'[m] = 0 => deliveries[m] = 0
  BY DEF Deliver, senderVars, IInv, TypeOK
<1> SUFFICES ASSUME NEW v \in Workers, wpc'[v] \in Undelivered
             PROVE  Cardinality(Overtaken(wtask[v].msg)')
                      <= Cardinality(Workers) + Cardinality(Senders) - 2
  BY DEF Few
<1>2. wpc[v] \in Undelivered /\ wtask'[v] = wtask[v]
  BY <1>1 DEF Undelivered
<1>3. Overtaken(wtask[v].msg)' \subseteq Overtaken(wtask[v].msg)
  BY <1>1 DEF Overtaken
<1> QED BY <1>2, <1>3, FewShrinks DEF OrderInv

\* Every step but a new stamp keeps the stamps and brings no sender back to its push.
LEMMA StampedStep ==
  ASSUME IInv, Stamped, UNCHANGED sentAt, now <= now', now' \in Int,
         \A s \in Senders : spc'[s] = "push" => spc[s] = "push" /\ stask'[s] = stask[s]
  PROVE  Stamped'
<1> SUFFICES ASSUME NEW m \in Messages, sentAt[m] # -1
             PROVE  /\ sentAt[m] <= now'
                    /\ \E s \in Senders : spc'[s] = "push" => sentAt[m] <= sentAt[stask'[s].msg]
  BY DEF Stamped
<1>1. sentAt[m] \in Int /\ now \in Int
  BY TransportAssumption DEF IInv, TypeOK
<1>2. /\ sentAt[m] <= now
      /\ \E s \in Senders : spc[s] = "push" => sentAt[m] <= sentAt[stask[s].msg]
  BY DEF Stamped
<1>3. PICK s \in Senders : spc[s] = "push" => sentAt[m] <= sentAt[stask[s].msg]
  BY <1>2
<1> QED BY <1>1, <1>2, <1>3

LEMMA OrderStep == IInv /\ OrderInv /\ [Next]_vars => OrderInv'
<1> SUFFICES ASSUME IInv, OrderInv, [Next]_vars PROVE OrderInv'
  OBVIOUS
<1>0. /\ now \in 0..MaxTime
      /\ spc \in [Senders -> {"idle", "push", "notify"}]
      /\ stask \in [Senders -> Tasks \union {NoTask}]
      /\ wpc \in [Workers -> WorkerPCs]
      /\ wtask \in [Workers -> Tasks \union {NoTask}]
  BY DEF IInv, TypeOK
<1> USE DEF senderVars, queueVars
<1>1. ASSUME NEW s \in Senders, NEW m \in Messages, NEW a \in Addresses, Stamp(s, m, a)
      PROVE  OrderInv'
  BY <1>1, OrderStamp
<1>2. ASSUME NEW w \in Workers, NEW t \in tasks, PopTask(w, t) PROVE OrderInv'
  <2>1. UNCHANGED <<sentAt, now, spc, stask>>
    BY <1>2 DEF PopTask
  <2> QED BY <1>0, <1>2, <2>1, OrderPop, StampedStep DEF OrderInv
<1>3. ASSUME NEW w \in Workers, Deliver(w) PROVE OrderInv'
  <2>1. UNCHANGED <<sentAt, now, spc, stask>>
    BY <1>3 DEF Deliver
  <2> QED BY <1>0, <1>3, <2>1, OrderDeliver, StampedStep DEF OrderInv
<1>4. ASSUME NEW s \in Senders, Push(s) \/ NotifyOne(s) PROVE OrderInv'
  <2>1. /\ UNCHANGED <<sentAt, now, deliveries, wtask>>
        /\ \A r \in Senders : spc'[r] = "push" => spc[r] = "push" /\ stask'[r] = stask[r]
    BY <1>0, <1>4 DEF Push, NotifyOne
  <2>2. \A w \in Workers : wpc'[w] \in Undelivered => wpc[w] \in Undelivered
    BY <1>0, <1>4 DEF Push, NotifyOne, Blocked, Resume, Undelivered
  <2> QED BY <1>0, <2>1, <2>2, FewIdle, StampedStep DEF OrderInv
<1>5. ASSUME NEW w \in Workers,
             \/ Loop(w) \/ FindNothing(w) \/ FindShutdown(w) \/ Block(w) \/ Timeout(w)
             \/ SpuriousWake(w) \/ CountInflight(w) \/ Lookup(w) \/ Finish(w)
             \/ \E t \in tasks : FindEarly(w, t)
      PROVE  OrderInv'
  <2>1. UNCHANGED <<sentAt, now, deliveries, spc, stask>>
    BY <1>5 DEF Loop, FindNothing, FindShutdown, Block, Timeout, SpuriousWake,
       CountInflight, Lookup, Finish, FindEarly
  <2>2. \A v \in Workers : wpc'[v] \in Undelivered =>
          wpc[v] \in Undelivered /\ wtask'[v] = wtask[v]
    BY <1>0, <1>5 DEF Loop, FindNothing, FindShutdown, Block, Timeout, SpuriousWake,
       CountInflight, Lookup, Finish, FindEarly, Blocked, Resume, Undelivered
  <2> QED BY <1>0, <2>1, <2>2, FewIdle, StampedStep DEF OrderInv
<1>6. ASSUME NEW a \in Addresses, Register(a) \/ Unregister(a) PROVE OrderInv'
  BY <1>0, <1>6, FewIdle, StampedStep DEF Register, Unregister, OrderInv
<1>7. CASE StartTraffic \/ StopTraffic \/ StopStep
  <2>1. UNCHANGED <<sentAt, now, deliveries, spc, stask, wtask>>
    BY <1>7 DEF StartTraffic, StopTraffic, StopStep, DrainCheck, ClearRunning, NotifyAll,
       JoinWorkers, MainStep
  <2>2. \A w \in Workers : wpc'[w] \in Undelivered => wpc[w] \in Undelivered
    BY <1>0, <1>7 DEF StartTraffic, StopTraffic, StopStep, DrainCheck, ClearRunning,
       NotifyAll, JoinWorkers, Blocked, Resume, Undelivered
  <2> QED BY <1>0, <2>1, <2>2, FewIdle, StampedStep DEF OrderInv
<1>8. CASE Tick \/ UNCHANGED vars
  <2>1. UNCHANGED <<sentAt, deliveries, spc, stask, wpc, wtask>> /\ now <= now' /\ now' \in Int
    BY <1>0, <1>8, TransportAssumption DEF Tick, vars
  <2> QED BY <2>1, FewIdle, StampedStep DEF OrderInv
<1> QED
  BY <1>1, <1>2, <1>3, <1>4, <1>5, <1>6, <1>7, <1>8
  DEF Next, SenderStep, WorkerStep, Terminated

LEMMA OrderInit == Init => OrderInv
  BY DEF Init, OrderInv, Stamped, Few, Undelivered

\* A delivered message has overtaken at most one message per other thread of
\* the pool and per other sender, however many are under way.
THEOREM OvertakingIsBounded == Spec => []FewOvertaken
<1>1. OrderInv => FewOvertaken
  BY DEF OrderInv, Few, FewOvertaken, Undelivered
<1> QED BY <1>1, Invariant, OrderInit, OrderStep, PTL DEF Spec

-----------------------------------------------------------------------------
(* Nobody sleeps through a task or the end of the drain *)

Awake == {"loop", "wait"} \union Holding

\* The worker waits no longer than until the earliest task is due.
InTime(w) == \A t \in tasks : wtask[w].deliverAt <= t.deliverAt

\* A worker that blocks still has the mutex: nothing was queued since it looked.
BlocksRightly ==
  \A w \in Workers :
    /\ wpc[w] = "blocking" => tasks = {}
    /\ wpc[w] = "timedBlocking" => InTime(w)

\* Workers leave, and running_ is cleared, past the drain only.
LeavesRightly ==
  /\ ~running => Drained
  /\ \A w \in Workers : wpc[w] = "exited" => ~running

\* Somebody looks, or will look, at the queue before its earliest task is due.
Watched ==
  \/ tasks = {}
  \/ \E s \in Senders : spc[s] = "notify"
  \/ \E w \in Workers : wpc[w] \in Awake
  \/ \E w \in Workers : wpc[w] \in {"timedBlocking", "timed"} /\ InTime(w)

WakeInv == BlocksRightly /\ LeavesRightly /\ Watched /\ NoMissedDrain

\* A step of one worker; what becomes of the others' reasons to look does not matter
\* if this one looks, sleeps in time or finds nothing queued.
LEMMA WatchedByOne ==
  ASSUME NEW w \in Workers,
         \/ wpc'[w] \in Awake
         \/ wpc'[w] \in {"timedBlocking", "timed"} /\ InTime(w)'
         \/ tasks' = {}
  PROVE  Watched'
  BY DEF Watched

\* notify_one() wakes somebody, or finds nobody blocked: then one is awake, has just
\* looked, or has left.
LEMMA WakeNotify ==
  ASSUME IInv, WakeInv, NEW s \in Senders, NotifyOne(s)
  PROVE  BlocksRightly' /\ LeavesRightly' /\ Watched'
<1>1. /\ UNCHANGED <<tasks, wtask, running, mpc>> /\ wpc \in [Workers -> WorkerPCs]
      /\ \A w \in Workers : wpc'[w] = wpc[w] \/ (w \in Blocked /\ wpc'[w] \in {"wait", "loop"})
  BY DEF NotifyOne, queueVars, IInv, TypeOK, Blocked, Resume
<1>2. BlocksRightly'
  BY <1>1 DEF WakeInv, BlocksRightly, InTime
<1>3. LeavesRightly'
  BY <1>1 DEF WakeInv, LeavesRightly, Drained
<1>4. Watched'
  <2>1. CASE Blocked = {}
    <3>1. PICK w \in Workers : TRUE
      BY TransportAssumption
    <3>2. wpc'[w] = wpc[w] /\ wpc[w] \notin {"asleep", "timed"} /\ wpc[w] \in WorkerPCs
      BY <1>1, <2>1 DEF Blocked
    <3>3. CASE wpc[w] \in Awake
      BY <3>2, <3>3, WatchedByOne
    <3>4. CASE wpc[w] = "timedBlocking"
      <4>1. InTime(w)'
        BY <1>1, <3>4 DEF WakeInv, BlocksRightly, InTime
      <4> QED BY <3>2, <3>4, <4>1, WatchedByOne
    <3>5. CASE wpc[w] \in {"blocking", "exited"}
      <4>1. tasks = {}
        BY <3>5 DEF WakeInv, BlocksRightly, LeavesRightly, IInv, Stopped
      <4> QED BY <1>1, <4>1 DEF Watched
    <3> QED BY <3>2, <3>3, <3>4, <3>5 DEF WorkerPCs, Awake, Holding, InFlight
  <2>2. CASE Blocked # {}
    <3>1. PICK w \in Blocked : wpc' = [wpc EXCEPT ![w] = Resume(w)]
      BY <2>2 DEF NotifyOne
    <3>2. w \in Workers /\ wpc'[w] \in Awake
      BY <1>1, <3>1 DEF Blocked, Resume, Awake
    <3> QED BY <3>2, WatchedByOne
  <2> QED BY <2>1, <2>2
<1> QED BY <1>2, <1>3, <1>4

\* A step that queues nothing and in which only w moves
LEMMA WakeWorker ==
  ASSUME IInv, WakeInv, NEW w \in Workers, WorkerStep(w) \/ SpuriousWake(w)
  PROVE  BlocksRightly' /\ LeavesRightly' /\ Watched'
<1>1. wpc \in [Workers -> WorkerPCs] /\ wtask \in [Workers -> Tasks \union {NoTask}]
  BY DEF IInv, TypeOK
<1> USE DEF senderVars, queueVars
<1>2. /\ running' = running /\ spc' = spc /\ tasks' \subseteq tasks
      /\ \A v \in Workers \ {w} : wpc'[v] = wpc[v] /\ wtask'[v] = wtask[v]
      /\ Drained' = Drained
  BY <1>1 DEF WorkerStep, Loop, FindNothing, FindShutdown, Block, Timeout, CountInflight,
     Lookup, Deliver, Finish, PopTask, FindEarly, SpuriousWake, Drained
<1>3. \/ wpc'[w] \in Awake
      \/ wpc'[w] = "exited" /\ ~running
      \/ wpc'[w] \in {"blocking", "asleep"} /\ tasks = {}
      \/ wpc'[w] \in {"timedBlocking", "timed"} /\ InTime(w)'
  <2>1. CASE Loop(w) \/ Timeout(w) \/ CountInflight(w) \/ Lookup(w) \/ Deliver(w) \/ Finish(w)
             \/ SpuriousWake(w)
    BY <1>1, <2>1 DEF Loop, Timeout, CountInflight, Lookup, Deliver, Finish, SpuriousWake,
       Blocked, Resume, Awake, Holding, InFlight
  <2>2. CASE FindNothing(w) \/ FindShutdown(w)
    BY <1>1, <2>2 DEF FindNothing, FindShutdown
  <2>3. CASE Block(w)
    BY <1>1, <2>3 DEF Block, WakeInv, BlocksRightly, InTime
  <2>4. ASSUME NEW t \in tasks, PopTask(w, t) PROVE wpc'[w] \in Awake
    BY <1>1, <2>4 DEF PopTask, Awake, Holding
  <2>5. ASSUME NEW t \in tasks, FindEarly(w, t)
        PROVE  wpc'[w] = "timedBlocking" /\ InTime(w)'
    BY <1>1, <2>5 DEF FindEarly, Earliest, InTime
  <2> QED BY <2>1, <2>2, <2>3, <2>4, <2>5 DEF WorkerStep
<1>4. ~running => tasks = {}
  BY DEF WakeInv, LeavesRightly, IInv, Stopped
<1>5. BlocksRightly'
  <2> SUFFICES ASSUME NEW v \in Workers
               PROVE  /\ wpc'[v] = "blocking" => tasks' = {}
                      /\ wpc'[v] = "timedBlocking" => InTime(v)'
    BY DEF BlocksRightly
  <2>1. CASE v = w
    BY <1>2, <1>3, <2>1 DEF Awake, Holding, InFlight
  <2>2. CASE v # w
    BY <1>2, <2>2 DEF WakeInv, BlocksRightly, InTime
  <2> QED BY <2>1, <2>2
<1>6. LeavesRightly'
  <2> SUFFICES ASSUME NEW v \in Workers, wpc'[v] = "exited" PROVE ~running
    BY <1>2 DEF WakeInv, LeavesRightly
  <2> QED BY <1>2, <1>3 DEF WakeInv, LeavesRightly, Awake, Holding, InFlight
<1>7. Watched'
  BY <1>2, <1>3, <1>4, WatchedByOne
<1> QED BY <1>5, <1>6, <1>7

\* The last delivery in progress wakes the thread that waits for the drain.
LEMMA DrainNoticed ==
  ASSUME IInv, NoMissedDrain, [Next]_vars
  PROVE  NoMissedDrain'
<1>1. /\ pendingCount \in Nat /\ inflightCount \in Nat
  <2>1. /\ Cardinality(tasks) \in Nat /\ Cardinality(Popped) \in Nat /\ Cardinality(Flying) \in Nat
    BY WorkersFinite, FS_CardinalityType DEF IInv, CarrierInv
  <2> QED BY <2>1 DEF IInv, CountersExact, Popped, Flying
<1> USE DEF NoMissedDrain, senderVars, queueVars
<1>2. ASSUME NEW s \in Senders, NEW m \in Messages, NEW a \in Addresses, Stamp(s, m, a)
      PROVE  NoMissedDrain'
  BY <1>2 DEF Stamp
<1>3. ASSUME NEW s \in Senders, SenderStep(s) PROVE NoMissedDrain'
  BY <1>1, <1>3 DEF SenderStep, Push, NotifyOne
<1>4. ASSUME NEW w \in Workers, CountInflight(w) PROVE NoMissedDrain'
  BY <1>1, <1>4 DEF CountInflight
<1>5. ASSUME NEW w \in Workers, Finish(w) PROVE NoMissedDrain'
  BY <1>1, <1>5 DEF Finish
<1>6. ASSUME NEW w \in Workers,
             \/ Loop(w) \/ FindNothing(w) \/ FindShutdown(w) \/ Block(w) \/ Timeout(w)
             \/ SpuriousWake(w) \/ Lookup(w) \/ Deliver(w)
             \/ \E t \in tasks : PopTask(w, t) \/ FindEarly(w, t)
      PROVE  NoMissedDrain'
  BY <1>6 DEF Loop, FindNothing, FindShutdown, Block, Timeout, SpuriousWake, Lookup, Deliver,
     PopTask, FindEarly
<1>7. ASSUME NEW a \in Addresses, Register(a) \/ Unregister(a) PROVE NoMissedDrain'
  BY <1>7 DEF Register, Unregister
<1>8. CASE StartTraffic \/ StopTraffic \/ StopStep
  BY <1>8 DEF StartTraffic, StopTraffic, StopStep, DrainCheck, ClearRunning, NotifyAll,
     JoinWorkers, MainStep
<1>9. CASE Tick \/ UNCHANGED vars
  BY <1>9 DEF Tick, vars
<1> QED
  BY <1>2, <1>3, <1>4, <1>5, <1>6, <1>7, <1>8, <1>9
  DEF Next, WorkerStep, Terminated

LEMMA WakeStep == IInv /\ WakeInv /\ [Next]_vars => WakeInv'
<1> SUFFICES ASSUME IInv, WakeInv, [Next]_vars
             PROVE  BlocksRightly' /\ LeavesRightly' /\ Watched'
  BY DrainNoticed DEF WakeInv
<1> USE DEF senderVars, queueVars
<1>1. ASSUME NEW s \in Senders, NEW m \in Messages, NEW a \in Addresses, Stamp(s, m, a)
      PROVE  BlocksRightly' /\ LeavesRightly' /\ Watched'
  <2>1. /\ UNCHANGED <<tasks, wtask, wpc, running, mpc>>
        /\ \A r \in Senders : spc[r] = "notify" => spc'[r] = "notify"
    BY <1>1 DEF Stamp, IInv, TypeOK
  <2> QED BY <2>1 DEF WakeInv, BlocksRightly, LeavesRightly, Watched, InTime, Drained
<1>2. ASSUME NEW s \in Senders, Push(s)
      PROVE  BlocksRightly' /\ LeavesRightly' /\ Watched'
  <2>1. /\ UNCHANGED <<wtask, wpc, running, mpc>> /\ TasksMtxFree /\ spc'[s] = "notify"
    BY <1>2 DEF Push, IInv, TypeOK
  <2> QED BY <2>1 DEF WakeInv, BlocksRightly, LeavesRightly, Watched, Drained, TasksMtxFree
<1>3. ASSUME NEW s \in Senders, NotifyOne(s)
      PROVE  BlocksRightly' /\ LeavesRightly' /\ Watched'
  BY <1>3, WakeNotify
<1>4. ASSUME NEW w \in Workers, WorkerStep(w) \/ SpuriousWake(w)
      PROVE  BlocksRightly' /\ LeavesRightly' /\ Watched'
  BY <1>4, WakeWorker
<1>5. CASE NotifyAll
  <2>1. /\ tasks = {} /\ UNCHANGED <<tasks, running>> /\ Drained /\ Drained'
        /\ \A w \in Workers : wpc'[w] = wpc[w] \/ wpc'[w] \in {"wait", "loop"}
    BY <1>5 DEF NotifyAll, MainStep, Drained, IInv, Stopped, TypeOK, Blocked, Resume
  <2> QED BY <2>1 DEF WakeInv, BlocksRightly, LeavesRightly, Watched, InTime
<1>6. CASE StartTraffic \/ StopTraffic \/ DrainCheck \/ ClearRunning \/ JoinWorkers
  <2>1. /\ UNCHANGED <<tasks, wtask, wpc, spc>> /\ (Drained => Drained')
        /\ running' = running \/ (~running' /\ Drained')
    BY <1>6 DEF StartTraffic, StopTraffic, DrainCheck, ClearRunning, JoinWorkers, MainStep,
       Drained
  <2> QED BY <2>1 DEF WakeInv, BlocksRightly, LeavesRightly, Watched, InTime
<1>7. ASSUME NEW a \in Addresses, Register(a) \/ Unregister(a)
      PROVE  BlocksRightly' /\ LeavesRightly' /\ Watched'
  BY <1>7 DEF Register, Unregister, WakeInv, BlocksRightly, LeavesRightly, Watched, InTime,
     Drained
<1>8. CASE Tick \/ UNCHANGED vars
  BY <1>8 DEF Tick, vars, WakeInv, BlocksRightly, LeavesRightly, Watched, InTime, Drained
<1> QED
  BY <1>1, <1>2, <1>3, <1>4, <1>5, <1>6, <1>7, <1>8
  DEF Next, SenderStep, StopStep, Terminated

LEMMA WakeInit == Init => WakeInv
  BY DEF Init, WakeInv, BlocksRightly, LeavesRightly, Watched, NoMissedDrain

LEMMA WakeInvariant == Spec => []WakeInv
  BY Invariant, WakeInit, WakeStep, PTL DEF Spec

\* As long as a task is queued a worker looks at it in time, or a notify is on
\* its way; and the thread that waits for the drain has a delivery to wake it.
THEOREM NobodyOversleeps == Spec => []NoLostWakeup
<1>1. WakeInv => NoOversleep
  BY DEF WakeInv, Watched, NoOversleep, Blocked, InTime, Awake, Holding, InFlight
<1>2. WakeInv => NoMissedDrain
  BY DEF WakeInv
<1> QED BY <1>1, <1>2, WakeInvariant, PTL DEF NoLostWakeup

-----------------------------------------------------------------------------
(* Latency, and the network that the users of Transport see *)

\* The only step that hands a message over finds it due.
LEMMA DeliveryStep ==
  ASSUME IInv, [Next]_vars, deliveries' # deliveries
  PROVE  \E w \in Workers :
           /\ Deliver(w)
           /\ deliveries' = [deliveries EXCEPT ![wtask[w].msg] = 1]
           /\ wtask[w].msg \in Messages
           /\ deliveries[wtask[w].msg] = 0
           /\ sentAt[wtask[w].msg] # -1
           /\ now >= sentAt[wtask[w].msg] + Latency
<1> USE DEF senderVars, queueVars
<1>1. PICK w \in Workers : Deliver(w)
  BY DEF Next, SenderStep, WorkerStep, StopStep, Terminated, Stamp, Push, NotifyOne, Loop,
     FindNothing, FindShutdown, Block, Timeout, CountInflight, Lookup, Finish, PopTask,
     FindEarly, SpuriousWake, Register, Unregister, StartTraffic, StopTraffic, DrainCheck,
     ClearRunning, NotifyAll, JoinWorkers, MainStep, Tick, vars
<1>2. wpc[w] = "deliver" /\ wpc[w] \in Holding
  BY <1>1 DEF Deliver, Holding, InFlight
<1>3. wtask[w] \in Tasks
  BY <1>2 DEF IInv, TypeOK
<1>4. /\ Sound(wtask[w]) /\ deliveries[wtask[w].msg] = 0
      /\ now >= wtask[w].deliverAt
  BY <1>2 DEF IInv, CarrierInv, CarriedSound
<1>5. wtask[w].msg \in Messages /\ deliveries' = [deliveries EXCEPT ![wtask[w].msg] = 1]
  BY <1>1, <1>3, <1>4 DEF Deliver, Tasks, IInv, TypeOK
<1>6. sentAt[wtask[w].msg] # -1 /\ now >= sentAt[wtask[w].msg] + Latency
  BY <1>4 DEF Sound
<1> QED BY <1>1, <1>4, <1>5, <1>6

LEMMA LatencyStep ==
  IInv /\ [Next]_vars =>
    [\A m \in Messages : deliveries'[m] # deliveries[m] => now >= sentAt[m] + Latency]_vars
  BY DeliveryStep DEF IInv, TypeOK

\* No worker hands a message over before the link latency has passed.
THEOREM LatencyHolds == Spec => NoEarlyDelivery
  BY Invariant, LatencyStep, PTL DEF Spec, NoEarlyDelivery

LEMMA NetworkInit == Init => Network!Init
  BY DEF Init, Network!Init, Drained

LEMMA NetworkStep == IInv /\ [Next]_vars => [Network!Next]_(Network!vars)
<1> SUFFICES ASSUME IInv, [Next]_vars PROVE [Network!Next]_(Network!vars)
  OBVIOUS
<1> DEFINE acc == {m \in Messages : sentAt[m] # -1}
<1> USE DEF senderVars, queueVars
<1>1. CASE deliveries' # deliveries
  <2>1. PICK w \in Workers : /\ Deliver(w)
                             /\ deliveries' = [deliveries EXCEPT ![wtask[w].msg] = 1]
                             /\ wtask[w].msg \in acc
                             /\ deliveries[wtask[w].msg] = 0
    BY <1>1, DeliveryStep
  <2>2. acc' = acc /\ Drained' = Drained
    BY <2>1 DEF Deliver, Drained
  <2>3. Network!Deliver(wtask[w].msg)
    BY <2>1, <2>2 DEF Network!Deliver
  <2> QED BY <2>1, <2>3 DEF Network!Next
<1>2. ASSUME NEW s \in Senders, NEW m \in Messages, NEW a \in Addresses, Stamp(s, m, a)
      PROVE  Network!Accept(m)
  <2>1. acc' = acc \union {m} /\ m \notin acc
    <3>1. sentAt \in [Messages -> -1..MaxTime] /\ now # -1
      BY TransportAssumption DEF IInv, TypeOK
    <3>2. sentAt[m] = -1 /\ sentAt' = [sentAt EXCEPT ![m] = now]
      BY <1>2 DEF Stamp
    <3> QED BY <3>1, <3>2
  <2>2. ~Drained /\ Drained' = Drained /\ deliveries' = deliveries
    BY <1>2 DEF Stamp, Drained
  <2> QED BY <2>1, <2>2 DEF Network!Accept
<1>3. CASE DrainCheck
  <2>1. acc' = acc /\ deliveries' = deliveries /\ ~Drained
    BY <1>3 DEF DrainCheck, MainStep, Drained
  <2>2. CASE Drained'
    <3>1. IInv'
      BY TypeStep, CarrierStep, CountersStep, StoppedStep, <1>3
      DEF IInv, SafeDelivery, DrainCheck, MainStep
    <3>2. \A m \in acc' : deliveries'[m] = 1
      BY <3>1, <2>2 DEF IInv, Stopped, Drained, CarrierInv, NothingLost, Carried,
         Undelivered, Holding, InFlight
    <3> QED BY <2>1, <2>2, <3>2 DEF Network!Next, Network!Drain
  <2>3. CASE ~Drained'
    BY <2>1, <2>3 DEF Network!vars, Drained
  <2> QED BY <2>2, <2>3
<1>4. CASE UNCHANGED vars \/ Tick \/ StartTraffic \/ StopTraffic \/ ClearRunning \/ NotifyAll
           \/ JoinWorkers
  BY <1>4
  DEF vars, Tick, StartTraffic, StopTraffic, ClearRunning, NotifyAll, JoinWorkers, MainStep,
      Drained, Network!vars
<1>5. ASSUME NEW s \in Senders, Push(s) \/ NotifyOne(s) PROVE UNCHANGED Network!vars
  BY <1>5 DEF Push, NotifyOne, Drained, Network!vars
<1>6. ASSUME NEW w \in Workers, WorkerStep(w) \/ SpuriousWake(w), deliveries' = deliveries
      PROVE  UNCHANGED Network!vars
  BY <1>6
  DEF WorkerStep, Loop, FindNothing, FindShutdown, Block, Timeout, CountInflight, Lookup,
      Deliver, Finish, PopTask, FindEarly, SpuriousWake, Drained, Network!vars
<1>7. ASSUME NEW a \in Addresses, Register(a) \/ Unregister(a) PROVE UNCHANGED Network!vars
  BY <1>7 DEF Register, Unregister, Drained, Network!vars
<1> QED
  BY <1>1, <1>2, <1>3, <1>4, <1>5, <1>6, <1>7
  DEF Next, SenderStep, StopStep, Terminated, Network!Next

\* The worker pool implements the network that its users see: it delivers each
\* accepted message at most once and drains only when all have been delivered.
THEOREM Refinement == Spec => ImplementsNetwork
  BY Invariant, NetworkInit, NetworkStep, PTL DEF Spec, ImplementsNetwork, Network!Spec
=============================================================================
