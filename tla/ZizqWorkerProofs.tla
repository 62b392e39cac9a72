-------------------------- MODULE ZizqWorkerProofs ---------------------------
(* Theorems about ZizqWorker, for every value of its constants. *)
EXTENDS ZizqWorkerInvariants, FiniteSetTheorems, TLAPS

-----------------------------------------------------------------------------
(* A function keeps its type when updated, within its domain or out of it. *)
LEMMA ExceptType ==
  ASSUME NEW S, NEW T, NEW f \in [S -> T], NEW x, NEW v \in T
  PROVE  [f EXCEPT ![x] = v] \in [S -> T]
  OBVIOUS

(* The task table keeps its type whatever phase a task moves to. *)
LEMMA SetPhaseType ==
  ASSUME task \in [Deliveries -> Tasks],
         NEW d \in Deliveries, NEW p \in Phases, SetPhase(d, p)
  PROVE  task' \in [Deliveries -> Tasks]
  BY DEF SetPhase, Tasks

LEMMA JudgedType ==
  ASSUME task \in [Deliveries -> Tasks],
         NEW d \in Deliveries, NEW p \in Phases, NEW o \in Outcomes, Judged(d, p, o)
  PROVE  task' \in [Deliveries -> Tasks]
  BY DEF Judged, Tasks

LEMMA WireLostType ==
  ASSUME task \in [Deliveries -> Tasks]
  PROVE  WireLost \in [Deliveries -> Tasks]
  BY DEF WireLost, Tasks, Phases, HeldPhases, LivePhases

LEMMA SettleType ==
  ASSUME status \in [Jobs -> JobStatus], lease \in [Jobs -> 0 .. MaxDeliveries],
         NEW js, NEW s \in JobStatus, Settle(js, s)
  PROVE  status' \in [Jobs -> JobStatus] /\ lease' \in [Jobs -> 0 .. MaxDeliveries]
  BY BoundsAssumption DEF Settle

LEMMA StrayType ==
  ASSUME stray \subseteq Requests, NEW k \in {"ack", "nack"}, NEW ds \in SUBSET Deliveries,
         MayStray(k, ds)
  PROVE  stray' \subseteq Requests
  BY DEF MayStray, Requests

LEMMA FaultType ==
  ASSUME faults \in 0 .. MaxFaults, NEW k, Fault(k)
  PROVE  faults' \in 0 .. MaxFaults
  BY BoundsAssumption DEF Fault

(* An empty ack channel is within its capacity, and so is one with room    *)
(* once a task has sent to it.                                             *)
LEMMA EmptyChannel == Cardinality({}) <= 2 * Prefetch
  BY FS_EmptySet, WorkerAssumption

LEMMA SendFits ==
  ASSUME ackq \subseteq Deliveries, Cardinality(ackq) < 2 * Prefetch, NEW d \in Deliveries
  PROVE  Cardinality(ackq \cup {d}) <= 2 * Prefetch
<1>1. IsFiniteSet(ackq)
  <2>1. IsFiniteSet(Deliveries)
    BY FS_Interval, BoundsAssumption DEF Deliveries
  <2> QED BY <2>1, FS_Subset
<1>2. /\ Cardinality(ackq) \in Nat
      /\ Cardinality(ackq \cup {d}) = IF d \in ackq THEN Cardinality(ackq) ELSE Cardinality(ackq) + 1
  BY <1>1, FS_CardinalityType, FS_AddElement
<1> QED BY <1>2, WorkerAssumption

LEMMA KillTasksType ==
  ASSUME TypeOK, KillTasks
  PROVE  /\ task' \in [Deliveries -> Tasks]
         /\ ackq' = {} /\ batch' = {} /\ stream' = "none"
         /\ stray' \subseteq Requests
<1>1. task' \in [Deliveries -> Tasks]
  BY WireLostType DEF TypeOK, KillTasks, Tasks, Phases, HeldPhases, LivePhases
<1>2. stray' \subseteq Requests
  BY DEF TypeOK, KillTasks, InPhase, Requests
<1> QED BY <1>1, <1>2 DEF KillTasks

-----------------------------------------------------------------------------
LEMMA TypeInit == Init => TypeOK
<1> SUFFICES ASSUME Init PROVE TypeOK
  OBVIOUS
<1>1. task \in [Deliveries -> Tasks]
  BY DEF Init, Tasks, Phases, Outcomes
<1>2. status \in [Jobs -> JobStatus] /\ lease \in [Jobs -> 0 .. MaxDeliveries]
  BY BoundsAssumption DEF Init, JobStatus
<1>3. stray \subseteq Requests /\ ackq \subseteq Deliveries /\ batch \subseteq Deliveries
      /\ settled \subseteq Deliveries /\ rejected \subseteq Deliveries
  BY Zenon DEF Init
<1>4. /\ faults \in 0 .. MaxFaults /\ next \in 0 .. MaxDeliveries
      /\ connId \in Nat /\ late \in Nat
  BY BoundsAssumption DEF Init
<1>5. /\ pc \in LoopPCs /\ stream \in {"none", "open", "closing"} /\ ackpc \in AckPCs
      /\ shutdown \in BOOLEAN /\ timedOut \in BOOLEAN
  BY DEF Init, LoopPCs, AckPCs
<1>6. Cardinality(ackq) <= 2 * Prefetch
  BY EmptyChannel DEF Init
<1> QED BY <1>1, <1>2, <1>3, <1>4, <1>5, <1>6 DEF TypeOK

LEMMA TypeServer == TypeOK /\ Server => TypeOK'
<1> SUFFICES ASSUME TypeOK, Server PROVE TypeOK'
  OBVIOUS
<1> USE BoundsAssumption DEF TypeOK, historyVars, loopVars, ackVars, deliveryVars, serverVars
<1>1. ASSUME NEW j \in Jobs, ServerSend(j) PROVE TypeOK'
  <2>1. next + 1 \in Deliveries
    BY <1>1 DEF ServerSend, Deliveries
  <2>2. task' \in [Deliveries -> Tasks]
    BY <1>1, <2>1 DEF ServerSend, Tasks, Phases, HeldPhases, LivePhases, Outcomes
  <2>3. lease' \in [Jobs -> 0 .. MaxDeliveries] /\ next' \in 0 .. MaxDeliveries
    BY <1>1, <2>1 DEF ServerSend, Deliveries
  <2>4. status' \in [Jobs -> JobStatus]
    BY <1>1 DEF ServerSend, JobStatus
  <2> QED BY <1>1, <2>2, <2>3, <2>4 DEF ServerSend
<1>2. ASSUME NEW j \in Jobs, ServerTakeBack(j) PROVE TypeOK'
  BY <1>2 DEF ServerTakeBack, Requeued, JobStatus
<1>3. ASSUME NEW j \in Jobs, ServerExpire(j) PROVE TypeOK'
  BY <1>3 DEF ServerExpire, Requeued, JobStatus, Fault
<1>4. ASSUME NEW j \in Jobs, ServerRetry(j) PROVE TypeOK'
  BY <1>4 DEF ServerRetry, Requeued, JobStatus, Fault
<1>5. ASSUME NEW m \in stray, StrayArrives(m) PROVE TypeOK'
  <2>1. stray' \subseteq Requests BY <1>5 DEF StrayArrives
  <2>2. status' \in [Jobs -> JobStatus] /\ lease' \in [Jobs -> 0 .. MaxDeliveries]
    BY <1>5, SettleType DEF StrayArrives, JobStatus
  <2> QED BY <1>5, <2>1, <2>2 DEF StrayArrives
<1>6. ASSUME StreamCut PROVE TypeOK'
  <2>1. task' \in [Deliveries -> Tasks]
    BY <1>6, WireLostType DEF StreamCut
  <2> QED BY <1>6, <2>1 DEF StreamCut, Fault
<1> QED BY <1>1, <1>2, <1>3, <1>4, <1>5, <1>6 DEF Server

LEMMA TypeDispatch == TypeOK /\ Dispatch => TypeOK'
<1> SUFFICES ASSUME TypeOK, Dispatch PROVE TypeOK'
  OBVIOUS
<1> USE BoundsAssumption DEF TypeOK, historyVars, loopVars, ackVars, deliveryVars, serverVars,
        LoopPCs
<1>1. CASE ConnectOk BY <1>1 DEF ConnectOk
<1>2. CASE ConnectFails BY <1>2 DEF ConnectFails, Fault, SleepOrLeave
<1>3. CASE ConnectRefused BY <1>3 DEF ConnectRefused, Fault
<1>4. CASE Wake BY <1>4 DEF Wake
<1>5. CASE SelectShutdown BY <1>5 DEF SelectShutdown
<1>6. CASE PollStream BY <1>6 DEF PollStream
<1>7. CASE SessionEnds BY <1>7 DEF SessionEnds, SleepOrLeave
<1>8. ASSUME NEW d \in Deliveries, Reap(d) PROVE TypeOK'
  BY <1>8, SetPhaseType DEF Reap, Phases, HeldPhases
<1>9. ASSUME NEW d \in Deliveries, Spawn(d) PROVE TypeOK'
  BY <1>9, SetPhaseType DEF Spawn, Phases, HeldPhases, LivePhases
<1> QED BY <1>1, <1>2, <1>3, <1>4, <1>5, <1>6, <1>7, <1>8, <1>9 DEF Dispatch

LEMMA TypeHandleJob ==
  ASSUME TypeOK, NEW d \in Deliveries, HandleJob(d)
  PROVE  TypeOK'
<1> USE BoundsAssumption DEF TypeOK, historyVars, loopVars, ackVars, deliveryVars, serverVars,
        Phases, HeldPhases, LivePhases
<1>1. CASE HandlerOk(d)     BY <1>1, JudgedType DEF HandlerOk, Outcomes
<1>2. CASE HandlerErr(d)    BY <1>2, JudgedType DEF HandlerErr, Outcomes
<1>3. CASE HandlerPanics(d) BY <1>3, JudgedType DEF HandlerPanics, Outcomes, Fault
<1>4. CASE SendAck(d)
  <2>1. Cardinality(ackq') <= 2 * Prefetch
    BY <1>4, SendFits DEF SendAck
  <2> QED BY <1>4, <2>1, SetPhaseType DEF SendAck
<1>5. CASE ServerFails(d)
  <2>1. status' \in [Jobs -> JobStatus] /\ lease' \in [Jobs -> 0 .. MaxDeliveries]
    <3>1. "failed" \in JobStatus /\ 0 \in 0 .. MaxDeliveries
      BY BoundsAssumption DEF JobStatus
    <3> QED BY <1>5, <3>1, ExceptType, Zenon DEF ServerFails
  <2>2. task' \in [Deliveries -> Tasks]
    BY <1>5, SetPhaseType DEF ServerFails
  <2>3. UNCHANGED <<stray, faults, next, loopVars, ackVars, historyVars>>
    BY <1>5 DEF ServerFails
  <2> QED BY <2>1, <2>2, <2>3
<1>6. CASE NackConfirmed(d) BY <1>6, SetPhaseType DEF NackConfirmed
<1>7. CASE NackDropped(d)   BY <1>7, SetPhaseType DEF NackDropped, Fault
<1>8. CASE NackLost(d)
  <2>1. task' \in [Deliveries -> Tasks] BY <1>8, SetPhaseType DEF NackLost
  <2>2. stray' \subseteq Requests
    BY <1>8, StrayType DEF NackLost
  <2> QED BY <1>8, <2>1, <2>2, FaultType DEF NackLost
<1>9. CASE NackRetry(d)     BY <1>9, SetPhaseType DEF NackRetry
<1> QED BY <1>1, <1>2, <1>3, <1>4, <1>5, <1>6, <1>7, <1>8, <1>9 DEF HandleJob

LEMMA TypeAckProcessor == TypeOK /\ AckProcessor => TypeOK'
<1> SUFFICES ASSUME TypeOK, AckProcessor PROVE TypeOK'
  OBVIOUS
<1> USE BoundsAssumption DEF TypeOK, historyVars, loopVars, ackVars, deliveryVars, serverVars,
        AckPCs
<1>1. CASE AckRecv      BY <1>1, EmptyChannel DEF AckRecv
<1>2. CASE AckCollect   BY <1>2, EmptyChannel DEF AckCollect
<1>3. CASE ServerAcks   BY <1>3, SettleType DEF ServerAcks, JobStatus
<1>4. CASE AckConfirmed BY <1>4 DEF AckConfirmed
<1>5. CASE AckDropped   BY <1>5 DEF AckDropped, Fault
<1>6. CASE AckLost
  <2>1. stray' \subseteq Requests
    BY <1>6, StrayType DEF AckLost
  <2> QED BY <1>6, <2>1 DEF AckLost, Fault
<1>7. CASE AckRetry     BY <1>7 DEF AckRetry
<1>8. CASE AckDone      BY <1>8 DEF AckDone
<1> QED BY <1>1, <1>2, <1>3, <1>4, <1>5, <1>6, <1>7, <1>8 DEF AckProcessor

LEMMA TypeDrain == TypeOK /\ Drain => TypeOK'
<1> SUFFICES ASSUME TypeOK, Drain PROVE TypeOK'
  OBVIOUS
<1> USE BoundsAssumption DEF TypeOK, historyVars, loopVars, ackVars, deliveryVars, serverVars,
        LoopPCs
<1>1. CASE DrainJoined   BY <1>1 DEF DrainJoined
<1>2. CASE Drained       BY <1>2, WireLostType DEF Drained, DropStream
<1>3. CASE DrainTimesOut BY <1>3, WireLostType DEF DrainTimesOut, DropStream
<1>4. ASSUME NEW d \in Deliveries, DrainReap(d) PROVE TypeOK'
  BY <1>4, SetPhaseType DEF DrainReap, Phases
<1>5. ASSUME NEW d \in Deliveries, TaskCancelled(d) PROVE TypeOK'
  <2>1. task' \in [Deliveries -> Tasks] BY <1>5, SetPhaseType DEF TaskCancelled, Phases
  <2>2. stray' \subseteq Requests
    BY <1>5, StrayType DEF TaskCancelled
  <2> QED BY <1>5, <2>1, <2>2 DEF TaskCancelled
<1> QED BY <1>1, <1>2, <1>3, <1>4, <1>5 DEF Drain

LEMMA TypeStep == TypeOK /\ [Next]_vars => TypeOK'
<1> SUFFICES ASSUME TypeOK, [Next]_vars PROVE TypeOK'
  OBVIOUS
<1> USE DEF TypeOK, historyVars, loopVars, ackVars, deliveryVars, serverVars
<1>1. CASE Server BY <1>1, TypeServer
<1>2. CASE Dispatch BY <1>2, TypeDispatch
<1>3. CASE AckProcessor BY <1>3, TypeAckProcessor
<1>4. CASE Drain BY <1>4, TypeDrain
<1>5. ASSUME NEW d \in Deliveries, HandleJob(d) PROVE TypeOK'
  BY <1>5, TypeHandleJob
<1>6. CASE ShutdownResolves BY <1>6 DEF ShutdownResolves
<1>7. CASE Crash
  BY <1>7, KillTasksType, EmptyChannel, FaultType DEF Crash, LoopPCs, AckPCs
<1>8. CASE ProcessExits BY <1>8, KillTasksType, EmptyChannel DEF ProcessExits, LoopPCs, AckPCs
<1>9. CASE UNCHANGED vars BY <1>9 DEF vars
<1> QED BY <1>1, <1>2, <1>3, <1>4, <1>5, <1>6, <1>7, <1>8, <1>9 DEF Next, Exited

(* Every variable of the worker and of its server keeps to its type in     *)
(* every reachable state, whichever of run, dispatch_loop, handle_job and  *)
(* ack_processor takes the step.                                           *)
THEOREM TypeCorrect == Spec => []TypeOK
  BY TypeInit, TypeStep, PTL DEF Spec

-----------------------------------------------------------------------------
(* What each way of changing the task table does to one delivery. *)
LEMMA SetPhaseAt ==
  ASSUME TypeOK, NEW d \in Deliveries, NEW p \in Phases, SetPhase(d, p)
  PROVE  \A e \in Deliveries :
           /\ task'[e].job = task[e].job
           /\ task'[e].conn = task[e].conn
           /\ task'[e].outcome = task[e].outcome
           /\ task'[e].phase = IF e = d THEN p ELSE task[e].phase
  BY DEF TypeOK, SetPhase, Tasks

LEMMA JudgedAt ==
  ASSUME TypeOK, NEW d \in Deliveries, NEW p \in Phases, NEW o \in Outcomes, Judged(d, p, o)
  PROVE  \A e \in Deliveries :
           /\ task'[e].job = task[e].job
           /\ task'[e].conn = task[e].conn
           /\ task'[e].outcome = IF e = d THEN o ELSE task[e].outcome
           /\ task'[e].phase = IF e = d THEN p ELSE task[e].phase
  BY DEF TypeOK, Judged, Tasks

LEMMA WireLostAt ==
  ASSUME TypeOK
  PROVE  \A e \in Deliveries :
           /\ WireLost[e].job = task[e].job
           /\ WireLost[e].conn = task[e].conn
           /\ WireLost[e].outcome = task[e].outcome
           /\ WireLost[e].phase = IF task[e].phase = "wire" THEN "lost" ELSE task[e].phase
  BY DEF TypeOK, WireLost, Tasks

LEMMA StreamCutAt ==
  ASSUME TypeOK, StreamCut
  PROVE  \A e \in Deliveries :
           /\ task'[e].job = task[e].job
           /\ task'[e].conn = task[e].conn
           /\ task'[e].outcome = task[e].outcome
           /\ \/ task'[e].phase = task[e].phase
              \/ task[e].phase = "wire" /\ task'[e].phase = "lost"
<1> PICK n \in 0 .. next :
      task' = [d \in Deliveries |-> IF d > n THEN WireLost[d] ELSE task[d]]
  BY DEF StreamCut
<1> QED BY WireLostAt

LEMMA KillTasksAt ==
  ASSUME TypeOK, KillTasks
  PROVE  \A e \in Deliveries :
           /\ task'[e].job = task[e].job
           /\ task'[e].conn = task[e].conn
           /\ task'[e].outcome = task[e].outcome
           /\ task'[e].phase =
                IF task[e].phase \in HeldPhases \/ e \in ackq \cup batch THEN "aborted"
                ELSE IF task[e].phase = "wire" THEN "lost" ELSE task[e].phase
<1>1. ASSUME NEW e \in Deliveries, task[e].phase \in HeldPhases \/ e \in ackq \cup batch
      PROVE  task'[e] = [task[e] EXCEPT !.phase = "aborted"]
  BY <1>1 DEF KillTasks
<1>2. ASSUME NEW e \in Deliveries, ~(task[e].phase \in HeldPhases \/ e \in ackq \cup batch)
      PROVE  task'[e] = WireLost[e]
  BY <1>2 DEF KillTasks
<1>3. \A e \in Deliveries : task[e] \in Tasks
  BY DEF TypeOK
<1> QED BY <1>1, <1>2, <1>3, WireLostAt DEF Tasks

LEMMA ServerSendAt ==
  ASSUME TypeOK, NEW j \in Jobs, ServerSend(j)
  PROVE  /\ next + 1 \in Deliveries
         /\ \A e \in Deliveries : e # next + 1 => task'[e] = task[e]
         /\ task'[next + 1].job = j
         /\ task'[next + 1].conn = connId
         /\ task'[next + 1].phase = "wire"
         /\ task'[next + 1].outcome = "none"
  BY BoundsAssumption DEF TypeOK, ServerSend, Deliveries

(* The steps that touch the task table, and all the others. *)
LEMMA TaskSteps ==
  ASSUME [Next]_vars
  PROVE  \/ UNCHANGED deliveryVars
         \/ \E j \in Jobs : ServerSend(j)
         \/ StreamCut \/ Drained \/ DrainTimesOut \/ Crash \/ ProcessExits
         \/ \E d \in Deliveries :
              Reap(d) \/ Spawn(d) \/ HandleJob(d) \/ DrainReap(d) \/ TaskCancelled(d)
<1> USE DEF deliveryVars
<1>1. CASE UNCHANGED vars
  BY <1>1 DEF vars
<1>2. CASE Server
  BY <1>2 DEF Server, ServerTakeBack, ServerExpire, ServerRetry, StrayArrives
<1>3. CASE Dispatch
  BY <1>3 DEF Dispatch, ConnectOk, ConnectFails, ConnectRefused, Wake, SelectShutdown,
     PollStream, SessionEnds
<1>4. CASE AckProcessor
  BY <1>4 DEF AckProcessor, AckRecv, AckCollect, ServerAcks, AckConfirmed, AckDropped,
     AckLost, AckRetry, AckDone
<1>5. CASE Drain
  BY <1>5 DEF Drain, DrainJoined
<1>6. CASE ShutdownResolves
  BY <1>6 DEF ShutdownResolves
<1> QED BY <1>1, <1>2, <1>3, <1>4, <1>5, <1>6 DEF Next, Exited

-----------------------------------------------------------------------------
LEMMA DeliveryStep ==
  ASSUME TypeOK, DeliveryInv, ProvenanceInv, [Next]_vars
  PROVE  DeliveryInv'
<1> USE DEF Phases, HeldPhases, LivePhases, Outcomes
<1>1. CASE UNCHANGED deliveryVars
  BY <1>1 DEF DeliveryInv, deliveryVars
<1>2. ASSUME NEW j \in Jobs, ServerSend(j) PROVE DeliveryInv'
  <2>1. next' = next + 1 /\ next \in Nat
    BY <1>2, BoundsAssumption DEF ServerSend, TypeOK
  <2> QED BY <1>2, <2>1, ServerSendAt DEF DeliveryInv, Deliveries
<1>3. CASE StreamCut
  <2>1. next' = next
    BY <1>3 DEF StreamCut
  <2> QED BY <1>3, <2>1, StreamCutAt DEF DeliveryInv
<1>4. CASE Drained \/ DrainTimesOut
  <2>1. next' = next /\ task' = WireLost
    BY <1>4 DEF Drained, DrainTimesOut, DropStream
  <2> QED BY <2>1, WireLostAt DEF DeliveryInv
<1>5. CASE Crash \/ ProcessExits
  <2>1. next' = next /\ KillTasks
    BY <1>5 DEF Crash, ProcessExits
  <2>2. \A e \in Deliveries :
          e \in ackq \cup batch \/ task[e].phase \in HeldPhases => task[e].phase # "unsent"
    BY DEF ProvenanceInv, DeliveryInv
  <2> QED BY <2>1, <2>2, KillTasksAt DEF DeliveryInv
<1>6. ASSUME NEW d \in Deliveries,
             Reap(d) \/ Spawn(d) \/ HandleJob(d) \/ DrainReap(d) \/ TaskCancelled(d)
      PROVE  DeliveryInv'
  <2>1. CASE HandlerOk(d)     BY <2>1, JudgedAt DEF HandlerOk, DeliveryInv
  <2>2. CASE HandlerErr(d)    BY <2>2, JudgedAt DEF HandlerErr, DeliveryInv
  <2>3. CASE HandlerPanics(d) BY <2>3, JudgedAt DEF HandlerPanics, DeliveryInv
  <2>4. CASE Spawn(d)         BY <2>4, SetPhaseAt DEF Spawn, OnWire, InPhase, DeliveryInv
  <2>5. ASSUME NEW p \in {"finished", "nacked", "backoff", "nacking", "reaped", "aborted"},
               task[d].phase \in HeldPhases, SetPhase(d, p), next' = next
        PROVE  DeliveryInv'
    BY <2>5, SetPhaseAt DEF DeliveryInv
  <2> QED
    BY <1>6, <2>1, <2>2, <2>3, <2>4, <2>5
       DEF HandleJob, Reap, SendAck, ServerFails, NackConfirmed, NackDropped, NackLost,
           NackRetry, DrainReap, TaskCancelled
<1> QED BY <1>1, <1>2, <1>3, <1>4, <1>5, <1>6, TaskSteps

-----------------------------------------------------------------------------
(* The stray requests are those that were there, and those of tasks and of *)
(* a batch that are now given up on.                                       *)
LEMMA StraySteps ==
  ASSUME TypeOK, [Next]_vars, NEW m \in stray'
  PROVE  \/ m \in stray
         \/ m.kind = "nack" /\ m.delivery \in InPhase({"nacking"})
         \/ m.kind = "ack" /\ m.delivery \in batch
<1> DEFINE New(ds, bs) == [kind : {"nack"}, delivery : ds] \cup [kind : {"ack"}, delivery : bs]
<1> SUFFICES ASSUME m \notin stray
             PROVE  \/ m \in New(InPhase({"nacking"}), {})
                    \/ m \in New({}, batch)
  OBVIOUS
<1> USE DEF serverVars
<1>1. CASE Crash \/ ProcessExits
  BY <1>1 DEF Crash, ProcessExits, KillTasks
<1>2. ASSUME NEW d \in Deliveries, NackLost(d) \/ TaskCancelled(d)
      PROVE  m \in New(InPhase({"nacking"}), {})
  BY <1>2 DEF NackLost, TaskCancelled, MayStray, InPhase
<1>3. CASE AckLost
  BY <1>3 DEF AckLost, MayStray
<1>4. CASE Server
  BY <1>4 DEF Server, ServerSend, ServerTakeBack, ServerExpire, ServerRetry, StrayArrives,
     StreamCut
<1>5. CASE Dispatch
  BY <1>5 DEF Dispatch, ConnectOk, ConnectFails, ConnectRefused, Wake, SelectShutdown,
     PollStream, SessionEnds, Reap, Spawn
<1>6. ASSUME NEW d \in Deliveries, HandleJob(d), ~NackLost(d) PROVE FALSE
  BY <1>6 DEF HandleJob, HandlerOk, HandlerErr, HandlerPanics, SendAck, ServerFails,
     NackConfirmed, NackDropped, NackRetry
<1>7. CASE AckProcessor
  BY <1>3, <1>7 DEF AckProcessor, AckRecv, AckCollect, ServerAcks, AckConfirmed, AckDropped,
     AckRetry, AckDone
<1>8. CASE Drain
  BY <1>2, <1>8 DEF Drain, DrainJoined, Drained, DrainTimesOut, DrainReap
<1>9. CASE ShutdownResolves \/ UNCHANGED vars
  BY <1>9 DEF ShutdownResolves, vars
<1> QED BY <1>1, <1>2, <1>4, <1>5, <1>6, <1>7, <1>8, <1>9 DEF Next, Exited

(* A verdict, once reached, stands, and so does the job it is about.       *)
LEMMA VerdictStands ==
  ASSUME TypeOK, DeliveryInv, [Next]_vars, NEW e \in Deliveries, task[e].outcome # "none"
  PROVE  task'[e].outcome = task[e].outcome /\ task'[e].job = task[e].job
<1> USE DEF Phases, HeldPhases, LivePhases, Outcomes
<1>1. CASE UNCHANGED deliveryVars
  BY <1>1 DEF deliveryVars
<1>2. ASSUME NEW j \in Jobs, ServerSend(j)
      PROVE  task'[e].outcome = task[e].outcome /\ task'[e].job = task[e].job
  <2>1. e # next + 1
    BY BoundsAssumption DEF DeliveryInv, TypeOK
  <2> QED BY <1>2, <2>1, ServerSendAt
<1>3. CASE StreamCut
  BY <1>3, StreamCutAt
<1>4. CASE Drained \/ DrainTimesOut
  BY <1>4, WireLostAt DEF Drained, DrainTimesOut, DropStream
<1>5. CASE Crash \/ ProcessExits
  BY <1>5, KillTasksAt DEF Crash, ProcessExits
<1>6. ASSUME NEW d \in Deliveries,
             Reap(d) \/ Spawn(d) \/ HandleJob(d) \/ DrainReap(d) \/ TaskCancelled(d)
      PROVE  task'[e].outcome = task[e].outcome /\ task'[e].job = task[e].job
  <2>1. CASE HandlerOk(d)     BY <2>1, JudgedAt DEF HandlerOk, DeliveryInv
  <2>2. CASE HandlerErr(d)    BY <2>2, JudgedAt DEF HandlerErr, DeliveryInv
  <2>3. CASE HandlerPanics(d) BY <2>3, JudgedAt DEF HandlerPanics, DeliveryInv
  <2>4. ASSUME NEW p \in Phases, SetPhase(d, p)
        PROVE  task'[e].outcome = task[e].outcome /\ task'[e].job = task[e].job
    BY <2>4, SetPhaseAt
  <2> QED
    BY <1>6, <2>1, <2>2, <2>3, <2>4
       DEF HandleJob, Reap, Spawn, SendAck, ServerFails, NackConfirmed, NackDropped, NackLost,
           NackRetry, DrainReap, TaskCancelled
<1> QED BY <1>1, <1>2, <1>3, <1>4, <1>5, <1>6, TaskSteps

-----------------------------------------------------------------------------
(* What the ack channel and the batch hold comes from a task in the phase  *)
(* "sending", and a task in a phase that leads to a report had a verdict.  *)
LEMMA AckSteps ==
  ASSUME TypeOK, [Next]_vars, NEW e \in ackq' \cup batch'
  PROVE  e \in ackq \cup batch \/ (e \in Deliveries /\ task[e].phase = "sending")
<1> USE DEF ackVars
<1>1. CASE Server
  BY <1>1 DEF Server, ServerSend, ServerTakeBack, ServerExpire, ServerRetry, StrayArrives,
     StreamCut
<1>2. CASE Dispatch
  BY <1>2 DEF Dispatch, ConnectOk, ConnectFails, ConnectRefused, Wake, SelectShutdown,
     PollStream, SessionEnds, Reap, Spawn
<1>3. ASSUME NEW d \in Deliveries, HandleJob(d)
      PROVE  e \in ackq \cup batch \/ (e \in Deliveries /\ task[e].phase = "sending")
  BY <1>3 DEF HandleJob, HandlerOk, HandlerErr, HandlerPanics, SendAck, ServerFails,
     NackConfirmed, NackDropped, NackLost, NackRetry
<1>4. CASE AckProcessor
  BY <1>4 DEF AckProcessor, AckRecv, AckCollect, ServerAcks, AckConfirmed, AckDropped, AckLost,
     AckRetry, AckDone
<1>5. CASE Drain
  BY <1>5 DEF Drain, DrainJoined, Drained, DrainTimesOut, DrainReap, TaskCancelled
<1>6. CASE Crash \/ ProcessExits
  BY <1>6 DEF Crash, ProcessExits, KillTasks
<1>7. CASE ShutdownResolves \/ UNCHANGED vars
  BY <1>7 DEF ShutdownResolves, vars
<1> QED BY <1>1, <1>2, <1>3, <1>4, <1>5, <1>6, <1>7 DEF Next, Exited

LEMMA ReportSteps ==
  ASSUME TypeOK, DeliveryInv, [Next]_vars, NEW e \in Deliveries
  PROVE  /\ task'[e].phase = "sending" =>
              task[e].phase = "sending" \/ (task[e].phase = "running" /\ task'[e].outcome = "ok")
         /\ task'[e].phase \in {"nacking", "nacked", "backoff"} =>
              \/ task[e].phase \in {"nacking", "nacked", "backoff"}
              \/ task[e].phase = "running" /\ task'[e].outcome = "err"
<1> DEFINE Goal ==
      /\ task'[e].phase = "sending" =>
           task[e].phase = "sending" \/ (task[e].phase = "running" /\ task'[e].outcome = "ok")
      /\ task'[e].phase \in {"nacking", "nacked", "backoff"} =>
           \/ task[e].phase \in {"nacking", "nacked", "backoff"}
           \/ task[e].phase = "running" /\ task'[e].outcome = "err"
<1> USE DEF Phases, HeldPhases, LivePhases, Outcomes
<1>1. CASE UNCHANGED deliveryVars
  BY <1>1 DEF deliveryVars
<1>2. ASSUME NEW j \in Jobs, ServerSend(j) PROVE Goal
  BY <1>2, ServerSendAt
<1>3. CASE StreamCut
  BY <1>3, StreamCutAt
<1>4. CASE Drained \/ DrainTimesOut
  BY <1>4, WireLostAt DEF Drained, DrainTimesOut, DropStream
<1>5. CASE Crash \/ ProcessExits
  BY <1>5, KillTasksAt DEF Crash, ProcessExits
<1>6. ASSUME NEW d \in Deliveries,
             Reap(d) \/ Spawn(d) \/ HandleJob(d) \/ DrainReap(d) \/ TaskCancelled(d)
      PROVE  Goal
  <2>1. CASE HandlerOk(d)     BY <2>1, JudgedAt DEF HandlerOk
  <2>2. CASE HandlerErr(d)    BY <2>2, JudgedAt DEF HandlerErr
  <2>3. CASE HandlerPanics(d) BY <2>3, JudgedAt DEF HandlerPanics
  <2>4. ASSUME NEW p \in Phases \ {"sending", "nacking", "nacked", "backoff"}, SetPhase(d, p)
        PROVE  Goal
    BY <2>4, SetPhaseAt
  <2>5. ASSUME NEW p \in {"nacked", "backoff", "nacking"}, SetPhase(d, p),
               task[d].phase \in {"nacking", "nacked", "backoff"}
        PROVE  Goal
    BY <2>5, SetPhaseAt
  <2> QED
    BY <1>6, <2>1, <2>2, <2>3, <2>4, <2>5
       DEF HandleJob, Reap, Spawn, SendAck, ServerFails, NackConfirmed, NackDropped, NackLost,
           NackRetry, DrainReap, TaskCancelled
<1> QED BY <1>1, <1>2, <1>3, <1>4, <1>5, <1>6, TaskSteps

LEMMA ProvenanceStep ==
  ASSUME TypeOK, DeliveryInv, ProvenanceInv, [Next]_vars
  PROVE  ProvenanceInv'
<1>0. ackq' \cup batch' \subseteq Deliveries
  BY TypeStep DEF TypeOK
<1>1. ASSUME NEW d \in Deliveries, task'[d].phase = "sending" \/ d \in ackq' \cup batch'
      PROVE  task'[d].outcome = "ok"
  <2>1. CASE task[d].phase = "sending" \/ d \in ackq \cup batch
    BY <2>1, VerdictStands DEF ProvenanceInv
  <2> QED BY <1>1, <2>1, AckSteps, ReportSteps
<1>2. ASSUME NEW d \in Deliveries, task'[d].phase \in {"nacking", "nacked", "backoff"}
      PROVE  task'[d].outcome = "err"
  <2>1. CASE task[d].phase \in {"nacking", "nacked", "backoff"}
    BY <2>1, VerdictStands DEF ProvenanceInv
  <2> QED BY <1>2, <2>1, ReportSteps
<1>3. ASSUME NEW m \in stray'
      PROVE  task'[m.delivery].outcome = IF m.kind = "ack" THEN "ok" ELSE "err"
  <2>1. m.delivery \in Deliveries
    BY TypeStep DEF TypeOK, Requests
  <2>2. task[m.delivery].outcome = IF m.kind = "ack" THEN "ok" ELSE "err"
    BY StraySteps DEF ProvenanceInv, InPhase, TypeOK
  <2> QED BY <2>1, <2>2, VerdictStands
<1> QED BY <1>1, <1>2, <1>3 DEF ProvenanceInv

-----------------------------------------------------------------------------
(* The steps that touch the server's books, and all the others.            *)
LEMMA ServerSteps ==
  ASSUME [Next]_vars
  PROVE  \/ UNCHANGED <<status, lease, next>>
         \/ \E j \in Jobs : ServerSend(j)
         \/ \E j \in Jobs : ServerTakeBack(j) \/ ServerExpire(j) \/ ServerRetry(j)
         \/ \E m \in stray : StrayArrives(m)
         \/ \E d \in Deliveries : ServerFails(d)
         \/ ServerAcks
<1> USE DEF deliveryVars, serverVars
<1>1. CASE UNCHANGED vars
  BY <1>1 DEF vars
<1>2. CASE Server
  BY <1>2 DEF Server, StreamCut
<1>3. CASE Dispatch
  BY <1>3 DEF Dispatch, ConnectOk, ConnectFails, ConnectRefused, Wake, SelectShutdown,
     PollStream, SessionEnds, Reap, Spawn
<1>4. CASE AckProcessor
  BY <1>4 DEF AckProcessor, AckRecv, AckCollect, AckConfirmed, AckDropped,
     AckLost, AckRetry, AckDone
<1>5. CASE Drain
  BY <1>5 DEF Drain, DrainJoined, Drained, DrainTimesOut, DrainReap, TaskCancelled
<1>6. CASE ShutdownResolves \/ Crash \/ ProcessExits
  BY <1>6 DEF ShutdownResolves, Crash, ProcessExits
<1>7. ASSUME NEW d \in Deliveries, HandleJob(d)
      PROVE  UNCHANGED <<status, lease, next>> \/ ServerFails(d)
  BY <1>7 DEF HandleJob, HandlerOk, HandlerErr, HandlerPanics, SendAck, NackConfirmed,
     NackDropped, NackLost, NackRetry
<1> QED BY <1>1, <1>2, <1>3, <1>4, <1>5, <1>6, <1>7 DEF Next, Exited

LEMMA SettleAt ==
  ASSUME NEW js, NEW s, Settle(js, s)
  PROVE  \A j \in Jobs :
           \/ status'[j] = status[j] /\ lease'[j] = lease[j]
              /\ ~(j \in js /\ status[j] = "leased")
           \/ status'[j] = s /\ lease'[j] = 0 /\ j \in js /\ status[j] # "done"
  BY DEF Settle

LEMMA RequeuedAt ==
  ASSUME TypeOK, NEW j \in Jobs, Requeued(j)
  PROVE  /\ status'[j] = "ready" /\ lease'[j] = 0
         /\ \A k \in Jobs : k # j => status'[k] = status[k] /\ lease'[k] = lease[k]
  BY DEF TypeOK, Requeued

LEMMA ServerFailsAt ==
  ASSUME TypeOK, NEW d \in Deliveries, ServerFails(d)
  PROVE  \A k \in Jobs :
           IF k = task[d].job
           THEN status'[k] = "failed" /\ lease'[k] = 0
           ELSE status'[k] = status[k] /\ lease'[k] = lease[k]
  BY DEF TypeOK, ServerFails

LEMMA LeaseStep ==
  ASSUME TypeOK, LeaseInv, [Next]_vars
  PROVE  LeaseInv'
<1> USE DEF LeaseInv
<1>1. CASE UNCHANGED <<status, lease, next>>
  BY <1>1
<1>2. ASSUME NEW j \in Jobs, ServerSend(j) PROVE LeaseInv'
  <2>1. /\ next' = next + 1 /\ next \in Nat
        /\ status'[j] = "leased" /\ lease'[j] = next + 1
        /\ \A k \in Jobs : k # j => status'[k] = status[k] /\ lease'[k] = lease[k]
        /\ \A k \in Jobs : lease[k] \in Nat
    BY <1>2, BoundsAssumption DEF ServerSend, TypeOK
  <2> QED BY <2>1
<1>3. ASSUME NEW j \in Jobs, Requeued(j), next' = next PROVE LeaseInv'
  BY <1>3, RequeuedAt
<1>4. ASSUME NEW js, NEW s, Settle(js, s), next' = next PROVE LeaseInv'
  BY <1>4, SettleAt
<1>5. ASSUME NEW d \in Deliveries, ServerFails(d) PROVE LeaseInv'
  <2>1. next' = next
    BY <1>5 DEF ServerFails
  <2> QED BY <1>5, <2>1, ServerFailsAt
<1> QED
  BY <1>1, <1>2, <1>3, <1>4, <1>5, ServerSteps
     DEF ServerTakeBack, ServerExpire, ServerRetry, StrayArrives, ServerAcks, deliveryVars

-----------------------------------------------------------------------------
(* The worker and the server implement AtLeastOnce.                        *)

(* Only a handler that returns makes a verdict of "ok" or "err".           *)
LEMMA VerdictMade ==
  ASSUME TypeOK, DeliveryInv, [Next]_vars, NEW e \in Deliveries,
         task[e].outcome = "none", task'[e].outcome \in {"ok", "err"}
  PROVE  HandlerOk(e) \/ HandlerErr(e)
<1> SUFFICES ASSUME ~HandlerOk(e), ~HandlerErr(e) PROVE FALSE
  OBVIOUS
<1> USE DEF Phases, HeldPhases, LivePhases, Outcomes
<1>1. CASE UNCHANGED deliveryVars
  BY <1>1 DEF deliveryVars
<1>2. ASSUME NEW j \in Jobs, ServerSend(j) PROVE FALSE
  BY <1>2, ServerSendAt
<1>3. CASE StreamCut
  BY <1>3, StreamCutAt
<1>4. CASE Drained \/ DrainTimesOut
  BY <1>4, WireLostAt DEF Drained, DrainTimesOut, DropStream
<1>5. CASE Crash \/ ProcessExits
  BY <1>5, KillTasksAt DEF Crash, ProcessExits
<1>6. ASSUME NEW d \in Deliveries,
             Reap(d) \/ Spawn(d) \/ HandleJob(d) \/ DrainReap(d) \/ TaskCancelled(d)
      PROVE  FALSE
  <2>1. CASE HandlerOk(d)     BY <2>1, JudgedAt DEF HandlerOk
  <2>2. CASE HandlerErr(d)    BY <2>2, JudgedAt DEF HandlerErr
  <2>3. CASE HandlerPanics(d) BY <2>3, JudgedAt DEF HandlerPanics
  <2>4. ASSUME NEW p \in Phases, SetPhase(d, p) PROVE FALSE
    BY <2>4, SetPhaseAt
  <2> QED
    BY <1>6, <2>1, <2>2, <2>3, <2>4
       DEF HandleJob, Reap, Spawn, SendAck, ServerFails, NackConfirmed, NackDropped, NackLost,
           NackRetry, DrainReap, TaskCancelled
<1> QED BY <1>1, <1>2, <1>3, <1>4, <1>5, <1>6, TaskSteps

(* Two verdicts of different handlers are not made in one step.            *)
LEMMA HandlerJudges ==
  ASSUME TypeOK, DeliveryInv, NEW d \in Deliveries,
         NEW o \in {"ok", "err"},
         \/ o = "ok" /\ HandlerOk(d)
         \/ o = "err" /\ HandlerErr(d)
  PROVE  /\ task[d].job \in Jobs
         /\ task[d].outcome = "none"
         /\ UNCHANGED status
         /\ \A e \in Deliveries :
              /\ task'[e].job = task[e].job
              /\ task'[e].outcome = IF e = d THEN o ELSE task[e].outcome
<1> USE DEF Phases, HeldPhases, LivePhases, Outcomes
<1>1. task[d].phase = "running"
  BY DEF HandlerOk, HandlerErr
<1>2. task[d].job \in Jobs
  BY <1>1, BoundsAssumption DEF DeliveryInv, TypeOK, Deliveries
<1>3. task[d].outcome = "none"
  BY <1>1 DEF DeliveryInv
<1>4. UNCHANGED status
  BY DEF HandlerOk, HandlerErr, serverVars
<1>5. \A e \in Deliveries :
        /\ task'[e].job = task[e].job
        /\ task'[e].outcome = IF e = d THEN o ELSE task[e].outcome
  BY JudgedAt DEF HandlerOk, HandlerErr
<1> QED BY <1>2, <1>3, <1>4, <1>5

LEMMA VerdictsKept ==
  ASSUME TypeOK, DeliveryInv, [Next]_vars,
         \A d \in Deliveries : ~HandlerOk(d) /\ ~HandlerErr(d)
  PROVE  Verdicts' = Verdicts
<1>1. ASSUME NEW e \in Deliveries, NEW o \in {"ok", "err"}, NEW j \in Jobs
      PROVE  (task'[e].job = j /\ task'[e].outcome = o)
               <=> (task[e].job = j /\ task[e].outcome = o)
  <2>1. CASE task[e].outcome = "none"
    BY <2>1, VerdictMade
  <2>2. CASE task[e].outcome # "none"
    BY <2>2, VerdictStands
  <2> QED BY <2>1, <2>2
<1>2. ASSUME NEW j \in Jobs
      PROVE  {o \in {"ok", "err"} :
                \E d \in Deliveries : task'[d].job = j /\ task'[d].outcome = o}
           = {o \in {"ok", "err"} :
                \E d \in Deliveries : task[d].job = j /\ task[d].outcome = o}
  BY <1>1
<1> QED BY <1>2, Zenon DEF Verdicts

LEMMA VerdictsExtended ==
  ASSUME TypeOK, DeliveryInv, NEW d \in Deliveries,
         NEW o \in {"ok", "err"},
         \/ o = "ok" /\ HandlerOk(d)
         \/ o = "err" /\ HandlerErr(d)
  PROVE  Abstract!Judge(task[d].job, o)
<1> DEFINE V(j) == {v \in {"ok", "err"} :
                      \E e \in Deliveries : task[e].job = j /\ task[e].outcome = v}
           W(j) == {v \in {"ok", "err"} :
                      \E e \in Deliveries : task'[e].job = j /\ task'[e].outcome = v}
<1>1. ASSUME NEW j \in Jobs PROVE W(j) = IF j = task[d].job THEN V(j) \cup {o} ELSE V(j)
  BY HandlerJudges
<1>2. Verdicts = [j \in Jobs |-> V(j)] /\ Verdicts' = [j \in Jobs |-> W(j)]
  BY DEF Verdicts
<1> HIDE DEF V, W
<1>3. Verdicts' = [Verdicts EXCEPT ![task[d].job] = @ \cup {o}]
  BY <1>1, <1>2, HandlerJudges
<1> QED BY <1>3, HandlerJudges DEF Abstract!Judge

LEMMA VerdictKnown ==
  ASSUME TypeOK, DeliveryInv, NEW d \in Deliveries, task[d].outcome \in {"ok", "err"}
  PROVE  task[d].job \in Jobs /\ task[d].outcome \in Verdicts[task[d].job]
<1>1. task[d].job \in Jobs
  BY BoundsAssumption DEF DeliveryInv, TypeOK, Deliveries
<1> QED BY <1>1 DEF Verdicts

LEMMA SettleCompletes ==
  ASSUME TypeOK, NEW js \in SUBSET Jobs, Settle(js, "done"),
         \A j \in js : "ok" \in Verdicts[j], Verdicts' = Verdicts
  PROVE  \E hs \in SUBSET Jobs : Abstract!Complete(hs)
<1> PICK more \in SUBSET {j \in js : status[j] \in {"ready", "failed"}} :
      status' = [j \in Jobs |-> IF j \in more \cup {k \in js : status[k] = "leased"}
                                THEN "done" ELSE status[j]]
  BY DEF Settle
<1> DEFINE hs == more \cup {k \in js : status[k] = "leased"}
<1>1. hs \in SUBSET Jobs /\ \A j \in hs : j \in js /\ status[j] # "done"
  OBVIOUS
<1> HIDE DEF hs
<1>2. status' = [j \in Jobs |-> IF j \in hs THEN "done" ELSE status[j]]
  BY DEF hs
<1>3. Abstract!Complete(hs)
  BY <1>1, <1>2 DEF Abstract!Complete
<1> QED BY <1>1, <1>3

LEMMA SettleFails ==
  ASSUME TypeOK, NEW j \in Jobs, Settle({j}, "failed"),
         "err" \in Verdicts[j], Verdicts' = Verdicts
  PROVE  Abstract!Fail(j) \/ status' = status
<1> PICK more \in SUBSET {k \in {j} : status[k] \in {"ready", "failed"}} :
      status' = [k \in Jobs |-> IF k \in more \cup {i \in {j} : status[i] = "leased"}
                                THEN "failed" ELSE status[k]]
  BY DEF Settle
<1> QED BY DEF Abstract!Fail, TypeOK

LEMMA RefinementInit == Init => Abstract!AbsInit
<1> SUFFICES ASSUME Init PROVE Abstract!AbsInit
  OBVIOUS
<1>1. \A d \in Deliveries : task[d].outcome = "none"
  BY DEF Init
<1>2. Verdicts = [j \in Jobs |-> {}]
  BY <1>1 DEF Verdicts
<1> QED BY <1>2 DEF Init, Abstract!AbsInit

LEMMA RefinementStep ==
  ASSUME TypeOK, DeliveryInv, ProvenanceInv, LeaseInv, [Next]_vars
  PROVE  Abstract!AbsNext \/ UNCHANGED <<status, Verdicts>>
<1>1. ASSUME NEW d \in Deliveries, HandlerOk(d) \/ HandlerErr(d) PROVE Abstract!AbsNext
  <2>1. Abstract!Judge(task[d].job, "ok") \/ Abstract!Judge(task[d].job, "err")
    BY <1>1, VerdictsExtended
  <2> QED BY <1>1, <2>1, HandlerJudges DEF Abstract!AbsNext, Abstract!Verdict
<1>2. ASSUME \A d \in Deliveries : ~HandlerOk(d) /\ ~HandlerErr(d)
      PROVE  Abstract!AbsNext \/ UNCHANGED <<status, Verdicts>>
  <2>0. Verdicts' = Verdicts
    BY <1>2, VerdictsKept
  <2>1. CASE UNCHANGED <<status, lease, next>>
    BY <2>0, <2>1
  <2>2. ASSUME NEW j \in Jobs, ServerSend(j) PROVE Abstract!Deliver(j)
    BY <2>0, <2>2 DEF ServerSend, Abstract!Deliver
  <2>3. ASSUME NEW j \in Jobs, ServerTakeBack(j) \/ ServerExpire(j) \/ ServerRetry(j)
        PROVE  Abstract!Return(j)
    BY <2>0, <2>3 DEF LeaseInv, ServerTakeBack, ServerExpire, ServerRetry, Requeued,
       Abstract!Return
  <2>4. ASSUME NEW m \in stray, StrayArrives(m)
        PROVE  \/ \E hs \in SUBSET Jobs : Abstract!Complete(hs)
               \/ \E j \in Jobs : Abstract!Fail(j)
               \/ status' = status
    <3>1. m.delivery \in Deliveries
      BY DEF TypeOK, Requests
    <3>2. CASE m.kind = "ack"
      <4>1. task[m.delivery].outcome = "ok"
        BY <3>2 DEF ProvenanceInv
      <4>2. Settle({task[m.delivery].job}, "done")
        BY <2>4, <3>2 DEF StrayArrives
      <4> QED BY <2>0, <3>1, <4>1, <4>2, VerdictKnown, SettleCompletes
    <3>3. CASE m.kind # "ack"
      <4>1. task[m.delivery].outcome = "err"
        BY <3>3 DEF ProvenanceInv
      <4>2. Settle({task[m.delivery].job}, "failed")
        BY <2>4, <3>3 DEF StrayArrives
      <4> QED BY <2>0, <3>1, <4>1, <4>2, VerdictKnown, SettleFails
    <3> QED BY <3>2, <3>3
  <2>5. ASSUME NEW d \in Deliveries, ServerFails(d) PROVE \E j \in Jobs : Abstract!Fail(j)
    <3>1. task[d].outcome = "err"
      BY <2>5 DEF ServerFails, ProvenanceInv
    <3>2. task[d].job \in Jobs /\ "err" \in Verdicts[task[d].job]
      BY <3>1, VerdictKnown
    <3> QED BY <2>0, <2>5, <3>2 DEF ServerFails, Abstract!Fail
  <2>6. ASSUME ServerAcks PROVE \E hs \in SUBSET Jobs : Abstract!Complete(hs)
    <3>1. \A d \in batch : task[d].job \in Jobs /\ "ok" \in Verdicts[task[d].job]
      BY VerdictKnown DEF ProvenanceInv, TypeOK
    <3>2. JobsOf(batch) \in SUBSET Jobs /\ \A j \in JobsOf(batch) : "ok" \in Verdicts[j]
      BY <3>1 DEF JobsOf
    <3>3. Settle(JobsOf(batch), "done")
      BY <2>6 DEF ServerAcks
    <3> QED BY <2>0, <3>2, <3>3, SettleCompletes
  <2> QED BY <2>0, <2>1, <2>2, <2>3, <2>4, <2>5, <2>6, ServerSteps DEF Abstract!AbsNext
<1> QED BY <1>1, <1>2

(* The invariants the refinement rests on hold initially.                  *)
LEMMA InitialInvariants == Init => DeliveryInv /\ ProvenanceInv /\ LeaseInv
<1> SUFFICES ASSUME Init PROVE DeliveryInv /\ ProvenanceInv /\ LeaseInv
  OBVIOUS
<1>1. \A d \in Deliveries : task[d].phase = "unsent" /\ task[d].outcome = "none"
  BY DEF Init
<1>2. DeliveryInv
  BY <1>1 DEF Init, DeliveryInv, Deliveries
<1>3. ProvenanceInv
  BY <1>1 DEF Init, ProvenanceInv
<1>4. LeaseInv
  BY DEF Init, LeaseInv
<1> QED BY <1>2, <1>3, <1>4

(* The worker and the server together are an at-least-once queue: a job is *)
(* completed, or failed, only on the word of a handler of that job that    *)
(* returned Ok, or Err (handle_job, ack_processor), whatever is lost,      *)
(* repeated or delayed on the way, and however often the worker restarts.  *)
THEOREM Refinement == Spec => ImplementsAtLeastOnce
<1> DEFINE RInv == TypeOK /\ DeliveryInv /\ ProvenanceInv /\ LeaseInv
<1>1. Init => RInv
  BY TypeInit, InitialInvariants
<1>2. RInv /\ [Next]_vars => RInv'
  BY TypeStep, DeliveryStep, ProvenanceStep, LeaseStep
<1>3. RInv /\ [Next]_vars => [Abstract!AbsNext]_(Abstract!absVars)
  BY RefinementStep DEF Abstract!absVars
<1> QED
  BY <1>1, <1>2, <1>3, RefinementInit, PTL DEF Spec, ImplementsAtLeastOnce, Abstract!AbsSpec

-----------------------------------------------------------------------------
(* No verdict is forgotten.                                                *)

LEMMA BatchStep ==
  ASSUME BatchInv, [Next]_vars
  PROVE  BatchInv'
<1> USE DEF BatchInv, ackVars
<1>1. CASE Server
  BY <1>1 DEF Server, ServerSend, ServerTakeBack, ServerExpire, ServerRetry, StrayArrives,
     StreamCut
<1>2. CASE Dispatch
  BY <1>2 DEF Dispatch, ConnectOk, ConnectFails, ConnectRefused, Wake, SelectShutdown,
     PollStream, SessionEnds, Reap, Spawn
<1>3. ASSUME NEW d \in Deliveries, HandleJob(d) PROVE BatchInv'
  BY <1>3 DEF HandleJob, HandlerOk, HandlerErr, HandlerPanics, SendAck, ServerFails,
     NackConfirmed, NackDropped, NackLost, NackRetry
<1>4. CASE AckProcessor
  BY <1>4 DEF AckProcessor, AckRecv, AckCollect, ServerAcks, AckConfirmed, AckDropped, AckLost,
     AckRetry, AckDone
<1>5. CASE Drain
  BY <1>5 DEF Drain, DrainJoined, Drained, DrainTimesOut, DrainReap, TaskCancelled
<1>6. CASE Crash \/ ProcessExits
  BY <1>6 DEF Crash, ProcessExits, KillTasks
<1>7. CASE ShutdownResolves \/ UNCHANGED vars
  BY <1>7 DEF ShutdownResolves, vars
<1> QED BY <1>1, <1>2, <1>3, <1>4, <1>5, <1>6, <1>7 DEF Next, Exited

(* What the channel or the batch holds stays there until the server has    *)
(* answered for it, or the process dies; and what the server has answered  *)
(* for stays answered for.                                                 *)
LEMMA AckHeld ==
  ASSUME TypeOK, BatchInv, [Next]_vars, NEW e \in Deliveries
  PROVE  /\ e \in settled \cup rejected => e \in settled' \cup rejected'
         /\ e \in ackq \cup batch =>
              \/ e \in ackq' \cup batch'
              \/ e \in settled' \cup rejected'
              \/ task'[e].phase = "aborted"
<1> DEFINE Goal ==
      /\ e \in settled \cup rejected => e \in settled' \cup rejected'
      /\ e \in ackq \cup batch =>
           \/ e \in ackq' \cup batch'
           \/ e \in settled' \cup rejected'
           \/ task'[e].phase = "aborted"
<1> USE DEF ackVars, historyVars
<1>1. CASE Server
  BY <1>1 DEF Server, ServerSend, ServerTakeBack, ServerExpire, ServerRetry, StrayArrives,
     StreamCut
<1>2. CASE Dispatch
  BY <1>2 DEF Dispatch, ConnectOk, ConnectFails, ConnectRefused, Wake, SelectShutdown,
     PollStream, SessionEnds, Reap, Spawn
<1>3. ASSUME NEW d \in Deliveries, HandleJob(d) PROVE Goal
  BY <1>3 DEF HandleJob, HandlerOk, HandlerErr, HandlerPanics, SendAck, ServerFails,
     NackConfirmed, NackDropped, NackLost, NackRetry
<1>4. CASE AckProcessor
  BY <1>4 DEF AckProcessor, AckRecv, AckCollect, ServerAcks, AckConfirmed, AckDropped, AckLost,
     AckRetry, AckDone, BatchInv
<1>5. CASE Drain
  BY <1>5 DEF Drain, DrainJoined, Drained, DrainTimesOut, DrainReap, TaskCancelled
<1>6. CASE Crash \/ ProcessExits
  <2>1. e \in settled \cup rejected => e \in settled' \cup rejected'
    BY <1>6 DEF Crash, ProcessExits
  <2>2. e \in ackq \cup batch => task'[e].phase = "aborted"
    BY <1>6, KillTasksAt DEF Crash, ProcessExits
  <2> QED BY <2>1, <2>2
<1>7. CASE ShutdownResolves \/ UNCHANGED vars
  BY <1>7 DEF ShutdownResolves, vars
<1> QED BY <1>1, <1>2, <1>3, <1>4, <1>5, <1>6, <1>7 DEF Next, Exited

(* A task that holds a verdict holds it until it is reported.              *)
LEMMA TaskHeld ==
  ASSUME TypeOK, DeliveryInv, [Next]_vars, NEW e \in Deliveries
  PROVE  /\ task[e].phase = "aborted" => task'[e].phase = "aborted"
         /\ task[e].phase = "sending" =>
              task'[e].phase \in {"sending", "aborted"} \/ e \in ackq'
         /\ task[e].phase \in {"nacking", "nacked", "backoff"} =>
              \/ task'[e].phase \in {"nacking", "nacked", "backoff", "aborted"}
              \/ e \in settled' \cup rejected'
<1> DEFINE Goal ==
         /\ task[e].phase = "aborted" => task'[e].phase = "aborted"
         /\ task[e].phase = "sending" =>
              task'[e].phase \in {"sending", "aborted"} \/ e \in ackq'
         /\ task[e].phase \in {"nacking", "nacked", "backoff"} =>
              \/ task'[e].phase \in {"nacking", "nacked", "backoff", "aborted"}
              \/ e \in settled' \cup rejected'
<1> USE DEF Phases, HeldPhases, LivePhases, Outcomes
<1>1. CASE UNCHANGED deliveryVars
  BY <1>1 DEF deliveryVars
<1>2. ASSUME NEW j \in Jobs, ServerSend(j) PROVE Goal
  <2>1. e = next + 1 => task[e].phase = "unsent"
    BY BoundsAssumption DEF DeliveryInv, TypeOK
  <2> QED BY <1>2, <2>1, ServerSendAt
<1>3. CASE StreamCut
  BY <1>3, StreamCutAt
<1>4. CASE Drained \/ DrainTimesOut
  BY <1>4, WireLostAt DEF Drained, DrainTimesOut, DropStream
<1>5. CASE Crash \/ ProcessExits
  BY <1>5, KillTasksAt DEF Crash, ProcessExits
<1>6. ASSUME NEW d \in Deliveries,
             Reap(d) \/ Spawn(d) \/ HandleJob(d) \/ DrainReap(d) \/ TaskCancelled(d)
      PROVE  Goal
  <2>1. CASE HandlerOk(d)     BY <2>1, JudgedAt DEF HandlerOk
  <2>2. CASE HandlerErr(d)    BY <2>2, JudgedAt DEF HandlerErr
  <2>3. CASE HandlerPanics(d) BY <2>3, JudgedAt DEF HandlerPanics
  <2>4. CASE Spawn(d)         BY <2>4, SetPhaseAt DEF Spawn, OnWire, InPhase
  <2>5. CASE SendAck(d)       BY <2>5, SetPhaseAt DEF SendAck
  <2>6. CASE NackConfirmed(d) BY <2>6, SetPhaseAt DEF NackConfirmed
  <2>7. CASE NackDropped(d)   BY <2>7, SetPhaseAt DEF NackDropped
  <2>8. CASE TaskCancelled(d) BY <2>8, SetPhaseAt DEF TaskCancelled
  <2>9. CASE Reap(d) \/ DrainReap(d)
    BY <2>9, SetPhaseAt DEF Reap, DrainReap
  <2>10. CASE ServerFails(d) \/ NackLost(d) \/ NackRetry(d)
    BY <2>10, SetPhaseAt DEF ServerFails, NackLost, NackRetry
  <2> QED
    BY <1>6, <2>1, <2>2, <2>3, <2>4, <2>5, <2>6, <2>7, <2>8, <2>9, <2>10 DEF HandleJob
<1> QED BY <1>1, <1>2, <1>3, <1>4, <1>5, <1>6, TaskSteps

LEMMA NoVerdictForgottenStep ==
  ASSUME TypeOK, DeliveryInv, BatchInv, NoVerdictForgotten, [Next]_vars
  PROVE  NoVerdictForgotten'
<1> SUFFICES ASSUME NEW d \in Deliveries,
                    task'[d].phase # "aborted", d \notin settled' \cup rejected'
             PROVE  /\ task'[d].outcome = "ok" =>
                         task'[d].phase = "sending" \/ d \in ackq' \cup batch'
                    /\ task'[d].outcome = "err" =>
                         task'[d].phase \in {"nacking", "nacked", "backoff"}
  BY DEF NoVerdictForgotten
<1>1. task[d].phase # "aborted" /\ d \notin settled \cup rejected
  BY TaskHeld, AckHeld
<1>2. CASE task[d].outcome # "none"
  <2>1. task'[d].outcome = task[d].outcome
    BY <1>2, VerdictStands
  <2>2. CASE task[d].outcome = "ok"
    <3>1. task[d].phase = "sending" \/ d \in ackq \cup batch
      BY <1>1, <2>2 DEF NoVerdictForgotten
    <3> QED BY <2>1, <2>2, <3>1, TaskHeld, AckHeld
  <2>3. CASE task[d].outcome = "err"
    <3>1. task[d].phase \in {"nacking", "nacked", "backoff"}
      BY <1>1, <2>3 DEF NoVerdictForgotten
    <3> QED BY <2>1, <2>3, <3>1, TaskHeld
  <2> QED BY <2>1, <2>2, <2>3
<1>3. CASE task[d].outcome = "none"
  <2> USE DEF Phases, HeldPhases, LivePhases, Outcomes
  <2>1. CASE HandlerOk(d)  BY <2>1, JudgedAt DEF HandlerOk
  <2>2. CASE HandlerErr(d) BY <2>2, JudgedAt DEF HandlerErr
  <2> QED BY <1>3, <2>1, <2>2, VerdictMade
<1> QED BY <1>2, <1>3

-----------------------------------------------------------------------------
(* A drain that ends in time leaves nothing behind.                        *)

LEMMA LeaseSteps ==
  ASSUME TypeOK, [Next]_vars, NEW j \in Jobs
  PROVE  lease'[j] = lease[j] \/ lease'[j] = 0 \/ (lease'[j] = next + 1 /\ next + 1 \in Deliveries)
<1>1. ASSUME NEW k \in Jobs, ServerSend(k)
      PROVE  lease'[j] = lease[j] \/ (lease'[j] = next + 1 /\ next + 1 \in Deliveries)
  BY <1>1, ServerSendAt DEF ServerSend, TypeOK
<1>2. ASSUME NEW k \in Jobs, Requeued(k) PROVE lease'[j] = lease[j] \/ lease'[j] = 0
  BY <1>2, RequeuedAt
<1>3. ASSUME NEW js, NEW s, Settle(js, s) PROVE lease'[j] = lease[j] \/ lease'[j] = 0
  BY <1>3, SettleAt
<1>4. ASSUME NEW d \in Deliveries, ServerFails(d)
      PROVE  lease'[j] = lease[j] \/ lease'[j] = 0
  BY <1>4, ServerFailsAt
<1> QED
  BY <1>1, <1>2, <1>3, <1>4, ServerSteps
     DEF ServerTakeBack, ServerExpire, ServerRetry, StrayArrives, ServerAcks

(* An answer is an answer to the batch or to a task's report.              *)
LEMMA NackedSteps ==
  ASSUME TypeOK, [Next]_vars, NEW e \in Deliveries, task'[e].phase = "nacked"
  PROVE  task[e].phase = "nacked" \/ ServerFails(e)
<1> SUFFICES ASSUME task[e].phase # "nacked", ~ServerFails(e) PROVE FALSE
  OBVIOUS
<1> USE DEF Phases, HeldPhases, LivePhases, Outcomes
<1>1. CASE UNCHANGED deliveryVars
  BY <1>1 DEF deliveryVars
<1>2. ASSUME NEW j \in Jobs, ServerSend(j) PROVE FALSE
  BY <1>2, ServerSendAt
<1>3. CASE StreamCut
  BY <1>3, StreamCutAt
<1>4. CASE Drained \/ DrainTimesOut
  BY <1>4, WireLostAt DEF Drained, DrainTimesOut, DropStream
<1>5. CASE Crash \/ ProcessExits
  BY <1>5, KillTasksAt DEF Crash, ProcessExits
<1>6. ASSUME NEW d \in Deliveries,
             Reap(d) \/ Spawn(d) \/ HandleJob(d) \/ DrainReap(d) \/ TaskCancelled(d)
      PROVE  FALSE
  <2>1. CASE HandlerOk(d)     BY <2>1, JudgedAt DEF HandlerOk
  <2>2. CASE HandlerErr(d)    BY <2>2, JudgedAt DEF HandlerErr
  <2>3. CASE HandlerPanics(d) BY <2>3, JudgedAt DEF HandlerPanics
  <2>4. ASSUME NEW p \in Phases \ {"nacked"}, SetPhase(d, p) PROVE FALSE
    BY <2>4, SetPhaseAt
  <2>5. CASE ServerFails(d)
    BY <2>5, SetPhaseAt DEF ServerFails
  <2> QED
    BY <1>6, <2>1, <2>2, <2>3, <2>4, <2>5
       DEF HandleJob, Reap, Spawn, SendAck, NackConfirmed, NackDropped, NackLost,
           NackRetry, DrainReap, TaskCancelled
<1> QED BY <1>1, <1>2, <1>3, <1>4, <1>5, <1>6, TaskSteps

LEMMA AnsweredSteps ==
  ASSUME TypeOK, [Next]_vars, NEW e \in Deliveries, Answered(e)'
  PROVE  Answered(e) \/ ServerFails(e) \/ (ServerAcks /\ e \in batch)
<1> SUFFICES ASSUME \/ e \in settled'
                    \/ ackpc' = "answered" /\ e \in batch'
             PROVE  Answered(e) \/ (ServerAcks /\ e \in batch)
  BY NackedSteps DEF Answered
<1> USE DEF ackVars, historyVars, Answered
<1>1. CASE Server
  BY <1>1 DEF Server, ServerSend, ServerTakeBack, ServerExpire, ServerRetry, StrayArrives,
     StreamCut
<1>2. CASE Dispatch
  BY <1>2 DEF Dispatch, ConnectOk, ConnectFails, ConnectRefused, Wake, SelectShutdown,
     PollStream, SessionEnds, Reap, Spawn
<1>3. ASSUME NEW d \in Deliveries, HandleJob(d) PROVE Answered(e)
  BY <1>3 DEF HandleJob, HandlerOk, HandlerErr, HandlerPanics, SendAck, ServerFails,
     NackConfirmed, NackDropped, NackLost, NackRetry
<1>4. CASE AckProcessor
  BY <1>4 DEF AckProcessor, AckRecv, AckCollect, ServerAcks, AckConfirmed, AckDropped, AckLost,
     AckRetry, AckDone
<1>5. CASE Drain
  BY <1>5 DEF Drain, DrainJoined, Drained, DrainTimesOut, DrainReap, TaskCancelled
<1>6. CASE Crash \/ ProcessExits
  BY <1>6 DEF Crash, ProcessExits
<1>7. CASE ShutdownResolves \/ UNCHANGED vars
  BY <1>7 DEF ShutdownResolves, vars
<1> QED BY <1>1, <1>2, <1>3, <1>4, <1>5, <1>6, <1>7 DEF Next, Exited

LEMMA AnsweredStep ==
  ASSUME TypeOK, DeliveryInv, ProvenanceInv, LeaseInv, AnsweredInv, [Next]_vars
  PROVE  AnsweredInv'
<1> SUFFICES ASSUME NEW d \in Deliveries, Answered(d)'
             PROVE  task'[d].outcome # "none" /\ lease'[task'[d].job] # d
  BY DEF AnsweredInv
<1>1. Answered(d) \/ ServerFails(d) \/ (ServerAcks /\ d \in batch)
  BY AnsweredSteps
<1>2. task[d].outcome # "none" \/ Answered(d)
  BY <1>1 DEF ServerFails, ProvenanceInv
<1>3. task[d].outcome # "none"
  BY <1>2 DEF AnsweredInv
<1>4. task'[d].outcome = task[d].outcome /\ task'[d].job = task[d].job
  BY <1>3, VerdictStands
<1>5. task[d].job \in Jobs
  BY <1>3, BoundsAssumption DEF DeliveryInv, TypeOK, Deliveries
<1>6. d # 0
  BY DEF Deliveries
<1>7. lease'[task[d].job] # d
  <2>1. CASE Answered(d)
    <3>1. lease[task[d].job] # d
      BY <2>1 DEF AnsweredInv
    <3>2. d # next + 1
      BY <1>3, BoundsAssumption DEF DeliveryInv, TypeOK
    <3> QED BY <1>5, <1>6, <3>1, <3>2, LeaseSteps
  <2>2. CASE ServerFails(d)
    BY <1>5, <1>6, <2>2, ServerFailsAt
  <2>3. CASE ServerAcks /\ d \in batch
    <3>1. Settle(JobsOf(batch), "done") /\ task[d].job \in JobsOf(batch)
      BY <2>3 DEF ServerAcks, JobsOf
    <3>2. lease'[task[d].job] = 0
      BY <1>5, <3>1, SettleAt DEF LeaseInv
    <3> QED BY <1>6, <3>2
  <2> QED BY <1>1, <2>1, <2>2, <2>3
<1> QED BY <1>3, <1>4, <1>7

(* Only Spawn puts a task into the JoinSet, and no task comes back to life. *)
LEMMA HeldSteps ==
  ASSUME TypeOK, [Next]_vars, NEW e \in Deliveries
  PROVE  /\ task'[e].phase \in HeldPhases => task[e].phase \in HeldPhases \/ Spawn(e)
         /\ task'[e].phase \in LivePhases => task[e].phase \in LivePhases \/ Spawn(e)
<1> DEFINE Goal ==
         /\ task'[e].phase \in HeldPhases => task[e].phase \in HeldPhases \/ Spawn(e)
         /\ task'[e].phase \in LivePhases => task[e].phase \in LivePhases \/ Spawn(e)
<1> USE DEF Phases, HeldPhases, LivePhases, Outcomes
<1>1. CASE UNCHANGED deliveryVars
  BY <1>1 DEF deliveryVars
<1>2. ASSUME NEW j \in Jobs, ServerSend(j) PROVE Goal
  BY <1>2, ServerSendAt
<1>3. CASE StreamCut
  BY <1>3, StreamCutAt
<1>4. CASE Drained \/ DrainTimesOut
  BY <1>4, WireLostAt DEF Drained, DrainTimesOut, DropStream
<1>5. CASE Crash \/ ProcessExits
  BY <1>5, KillTasksAt DEF Crash, ProcessExits
<1>6. ASSUME NEW d \in Deliveries,
             Reap(d) \/ Spawn(d) \/ HandleJob(d) \/ DrainReap(d) \/ TaskCancelled(d)
      PROVE  Goal
  <2>1. CASE HandlerOk(d)     BY <2>1, JudgedAt DEF HandlerOk
  <2>2. CASE HandlerErr(d)    BY <2>2, JudgedAt DEF HandlerErr
  <2>3. CASE HandlerPanics(d) BY <2>3, JudgedAt DEF HandlerPanics
  <2>4. ASSUME NEW p \in {"finished", "reaped", "aborted"},
               task[d].phase \in HeldPhases, SetPhase(d, p)
        PROVE  Goal
    BY <2>4, SetPhaseAt
  <2>5. ASSUME NEW p \in {"nacked", "backoff", "nacking"},
               task[d].phase \in LivePhases, SetPhase(d, p)
        PROVE  Goal
    BY <2>5, SetPhaseAt
  <2>6. CASE Spawn(d)
    BY <2>6, SetPhaseAt DEF Spawn
  <2> QED
    BY <1>6, <2>1, <2>2, <2>3, <2>4, <2>5, <2>6
       DEF HandleJob, Reap, SendAck, ServerFails, NackConfirmed, NackDropped, NackLost,
           NackRetry, DrainReap, TaskCancelled
<1> QED BY <1>1, <1>2, <1>3, <1>4, <1>5, <1>6, TaskSteps

(* How run() and the ack processor move towards their ends.                *)
LEMMA EndSteps ==
  ASSUME TypeOK, [Next]_vars
  PROVE  /\ timedOut => timedOut'
         /\ pc' = "flush" => pc = "flush" \/ DrainJoined
         /\ pc' \in {"returned", "exited"} =>
              \/ pc \in {"returned", "exited"}
              \/ Drained
              \/ timedOut'
         /\ pc \in {"flush", "returned", "exited"} =>
              pc' \in {"flush", "returned", "exited"} \/ Crash
         /\ ackpc' = "done" => ackpc = "done" \/ AckDone \/ ProcessExits
         /\ ackpc = "done" => ackpc' = "done" \/ Crash
         /\ ackpc = "done" => ackq' \subseteq ackq \/ \E d \in Deliveries : SendAck(d)
<1> DEFINE Goal ==
         /\ timedOut => timedOut'
         /\ pc' = "flush" => pc = "flush" \/ DrainJoined
         /\ pc' \in {"returned", "exited"} =>
              pc \in {"returned", "exited"} \/ Drained \/ timedOut'
         /\ pc \in {"flush", "returned", "exited"} =>
              pc' \in {"flush", "returned", "exited"} \/ Crash
         /\ ackpc' = "done" => ackpc = "done" \/ AckDone \/ ProcessExits
         /\ ackpc = "done" => ackpc' = "done" \/ Crash
         /\ ackpc = "done" => ackq' \subseteq ackq \/ \E d \in Deliveries : SendAck(d)
<1> USE DEF ackVars, loopVars
<1>1. CASE Server
  <2>1. UNCHANGED <<pc, timedOut, ackpc, ackq>>
    BY <1>1 DEF Server, ServerSend, ServerTakeBack, ServerExpire, ServerRetry, StrayArrives,
       StreamCut
  <2> QED BY <2>1
<1>2. CASE Dispatch
  BY <1>2 DEF Dispatch, ConnectOk, ConnectFails, ConnectRefused, Wake, SelectShutdown,
     PollStream, SessionEnds, Reap, Spawn, SleepOrLeave
<1>3. ASSUME NEW d \in Deliveries, HandleJob(d) PROVE Goal
  <2>1. CASE SendAck(d)
    BY <2>1 DEF SendAck
  <2> QED
    BY <1>3, <2>1 DEF HandleJob, HandlerOk, HandlerErr, HandlerPanics, ServerFails,
       NackConfirmed, NackDropped, NackLost, NackRetry
<1>4. CASE AckProcessor
  BY <1>4 DEF AckProcessor, AckRecv, AckCollect, ServerAcks, AckConfirmed, AckDropped, AckLost,
     AckRetry, AckDone
<1>5. CASE Drain
  <2>1. CASE DrainTimesOut
    BY <2>1 DEF DrainTimesOut, DropStream
  <2>2. CASE DrainJoined
    BY <2>2 DEF DrainJoined
  <2>3. CASE Drained
    BY <2>3 DEF Drained, DropStream
  <2>4. ASSUME NEW d \in Deliveries, DrainReap(d) \/ TaskCancelled(d) PROVE Goal
    <3>1. UNCHANGED <<pc, timedOut, ackpc, ackq>>
      BY <2>4 DEF DrainReap, TaskCancelled
    <3> QED BY <3>1
  <2> QED BY <1>5, <2>1, <2>2, <2>3, <2>4 DEF Drain
<1>6. CASE Crash
  BY <1>6 DEF Crash, KillTasks
<1>7. CASE ProcessExits
  BY <1>7 DEF ProcessExits, KillTasks
<1>8. CASE ShutdownResolves \/ UNCHANGED vars
  BY <1>8 DEF ShutdownResolves, vars
<1> QED BY <1>1, <1>2, <1>3, <1>4, <1>5, <1>6, <1>7, <1>8 DEF Next, Exited

LEMMA DrainStep ==
  ASSUME TypeOK, DrainInv, [Next]_vars
  PROVE  DrainInv'
<1> USE DEF DrainInv
<1>1. pc \notin {"polled", "connect"} => \A d \in Deliveries : ~Spawn(d)
  BY DEF Spawn
<1>2. ASSUME pc' = "flush", NEW d \in Deliveries PROVE task'[d].phase \notin HeldPhases
  <2>1. CASE pc = "flush"
    BY <1>1, <2>1, HeldSteps
  <2>2. CASE DrainJoined
    <3>1. task[d].phase \notin HeldPhases
      BY <2>2 DEF DrainJoined, Inflight, InPhase
    <3>2. pc = "drain"
      BY <2>2 DEF DrainJoined
    <3> QED BY <1>1, <3>1, <3>2, HeldSteps
  <2> QED BY <1>2, <2>1, <2>2, EndSteps
<1>3. ASSUME ackpc' = "done"
      PROVE  /\ pc' \in {"flush", "returned", "exited"}
             /\ ackq' = {}
             /\ \A d \in Deliveries : task'[d].phase \notin LivePhases
  <2>1. CASE ackpc = "done"
    <3>1. ~Crash
      BY <1>3 DEF Crash
    <3>2. pc' \in {"flush", "returned", "exited"}
      BY <2>1, <3>1, EndSteps
    <3>3. \A d \in Deliveries : task'[d].phase \notin LivePhases
      BY <1>1, <2>1, HeldSteps
    <3>4. \A d \in Deliveries : ~SendAck(d)
      BY <2>1 DEF SendAck, LivePhases
    <3>5. ackq' = {}
      BY <2>1, <3>4, EndSteps
    <3> QED BY <3>2, <3>3, <3>5
  <2>2. CASE AckDone
    <3>1. /\ pc' \in {"flush", "returned", "exited"} /\ ackq' = {} /\ task' = task
          /\ InPhase(LivePhases) = {}
      BY <2>2 DEF AckDone, SendersAlive, loopVars, deliveryVars
    <3> QED BY <3>1 DEF InPhase
  <2>3. CASE ProcessExits
    <3>1. pc' = "exited" /\ ackq' = {} /\ KillTasks
      BY <2>3 DEF ProcessExits, KillTasks
    <3>2. \A d \in Deliveries : task'[d].phase \notin LivePhases
      BY <3>1, KillTasksAt DEF HeldPhases, LivePhases
    <3> QED BY <3>1, <3>2
  <2> QED BY <1>3, <2>1, <2>2, <2>3, EndSteps
<1>4. ASSUME pc' \in {"returned", "exited"}, ~timedOut' PROVE ackpc' = "done"
  <2>1. ~Crash
    BY <1>4 DEF Crash
  <2>2. ackpc = "done"
    BY <1>4, EndSteps DEF Drained
  <2> QED BY <2>1, <2>2, EndSteps
<1> QED BY <1>2, <1>3, <1>4

LEMMA CleanShutdownHolds ==
  ASSUME TypeOK, NoVerdictForgotten, BatchInv, AnsweredInv, DrainInv
  PROVE  CleanShutdown
<1> SUFFICES ASSUME pc \in {"returned", "exited"}, ~timedOut, NEW d \in Deliveries,
                    task[d].outcome \in {"ok", "err"}, task[d].phase # "aborted"
             PROVE  /\ d \in settled \cup rejected
                    /\ d \in settled => lease[task[d].job] # d
  BY DEF CleanShutdown
<1>1. ackq \cup batch = {} /\ task[d].phase \notin LivePhases
  BY DEF DrainInv, BatchInv
<1>2. d \in settled \cup rejected
  BY <1>1 DEF NoVerdictForgotten, LivePhases
<1>3. d \in settled => lease[task[d].job] # d
  BY DEF AnsweredInv, Answered
<1> QED BY <1>2, <1>3

-----------------------------------------------------------------------------
(* Shutdown stops the intake.                                              *)

LEMMA LateStep ==
  ASSUME TypeOK, LateInv, [Next]_vars
  PROVE  LateInv'
<1> USE DEF LateInv, loopVars, historyVars
<1>1. CASE UNCHANGED <<pc, shutdown, late>>
  BY <1>1
<1>2. CASE Dispatch
  <2>1. ASSUME NEW d \in Deliveries, Spawn(d) PROVE LateInv'
    <3>1. late = 0 /\ pc' = "select" /\ shutdown' = shutdown
      BY <2>1 DEF Spawn
    <3>2. late' = IF shutdown THEN 1 ELSE 0
      BY <2>1, <3>1 DEF Spawn
    <3> QED BY <3>1, <3>2
  <2>2. CASE ConnectOk \/ ConnectFails \/ ConnectRefused
    BY <2>2 DEF ConnectOk, ConnectFails, ConnectRefused, SleepOrLeave
  <2>3. CASE Wake \/ SelectShutdown \/ PollStream \/ SessionEnds
    BY <2>3 DEF Wake, SelectShutdown, PollStream, SessionEnds, SleepOrLeave
  <2>4. ASSUME NEW d \in Deliveries, Reap(d) PROVE LateInv'
    BY <2>4 DEF Reap
  <2> QED BY <1>2, <2>1, <2>2, <2>3, <2>4 DEF Dispatch
<1>3. CASE Server
  BY <1>1, <1>3 DEF Server, ServerSend, ServerTakeBack, ServerExpire, ServerRetry, StrayArrives,
     StreamCut
<1>4. ASSUME NEW d \in Deliveries, HandleJob(d) PROVE UNCHANGED <<pc, shutdown, late>>
  BY <1>4 DEF HandleJob, HandlerOk, HandlerErr, HandlerPanics, SendAck, ServerFails,
     NackConfirmed, NackDropped, NackLost, NackRetry
<1>5. CASE AckProcessor
  BY <1>1, <1>5 DEF AckProcessor, AckRecv, AckCollect, ServerAcks, AckConfirmed, AckDropped,
     AckLost, AckRetry, AckDone
<1>6. CASE Drain
  BY <1>6 DEF Drain, DrainJoined, Drained, DrainTimesOut, DrainReap, TaskCancelled, DropStream
<1>7. CASE ShutdownResolves \/ Crash \/ ProcessExits
  BY <1>7 DEF ShutdownResolves, Crash, ProcessExits
<1>8. CASE UNCHANGED vars
  BY <1>8 DEF vars
<1> QED BY <1>1, <1>2, <1>3, <1>4, <1>5, <1>6, <1>7, <1>8 DEF Next, Exited

-----------------------------------------------------------------------------
(* The concurrency limit spans sessions.                                   *)

LEMMA InflightFinite ==
  ASSUME TypeOK
  PROVE  IsFiniteSet(Inflight) /\ Cardinality(Inflight) \in Nat
<1>1. IsFiniteSet(Deliveries)
  BY FS_Interval, BoundsAssumption DEF Deliveries
<1>2. Inflight \subseteq Deliveries
  BY DEF Inflight, InPhase
<1> QED BY <1>1, <1>2, FS_Subset, FS_CardinalityType

LEMMA PolledSteps ==
  ASSUME [Next]_vars, pc' = "polled"
  PROVE  pc = "polled" \/ PollStream
<1> USE DEF loopVars
<1>1. CASE Dispatch
  BY <1>1 DEF Dispatch, ConnectOk, ConnectFails, ConnectRefused, Wake, SelectShutdown,
     SessionEnds, Reap, Spawn, SleepOrLeave
<1>2. CASE Server
  BY <1>2 DEF Server, ServerSend, ServerTakeBack, ServerExpire, ServerRetry, StrayArrives,
     StreamCut
<1>3. ASSUME NEW d \in Deliveries, HandleJob(d) PROVE UNCHANGED pc
  BY <1>3 DEF HandleJob, HandlerOk, HandlerErr, HandlerPanics, SendAck, ServerFails,
     NackConfirmed, NackDropped, NackLost, NackRetry
<1>4. CASE AckProcessor
  BY <1>4 DEF AckProcessor, AckRecv, AckCollect, ServerAcks, AckConfirmed, AckDropped,
     AckLost, AckRetry, AckDone
<1>5. CASE Drain
  BY <1>5 DEF Drain, DrainJoined, Drained, DrainTimesOut, DrainReap, TaskCancelled, DropStream
<1>6. CASE ShutdownResolves \/ Crash \/ ProcessExits
  BY <1>6 DEF ShutdownResolves, Crash, ProcessExits
<1>7. CASE UNCHANGED vars
  BY <1>7 DEF vars
<1> QED BY <1>1, <1>2, <1>3, <1>4, <1>5, <1>6, <1>7 DEF Next, Exited

LEMMA CapacityStep ==
  ASSUME TypeOK, CapacityInv, [Next]_vars
  PROVE  CapacityInv'
<1>1. Inflight' = {e \in Deliveries : task'[e].phase \in HeldPhases}
  BY DEF Inflight, InPhase
<1>2. ASSUME \A d \in Deliveries : ~Spawn(d)
      PROVE  /\ Cardinality(Inflight') \in Nat
             /\ Cardinality(Inflight') <= Cardinality(Inflight)
  <2>1. Inflight' \subseteq Inflight
    BY <1>1, <1>2, HeldSteps DEF Inflight, InPhase
  <2> QED BY <2>1, InflightFinite, FS_Subset, FS_CardinalityType
<1>3. ASSUME NEW d \in Deliveries, Spawn(d) PROVE CapacityInv'
  <2>1. pc = "polled" /\ pc' = "select"
    BY <1>3 DEF Spawn
  <2>2. Cardinality(Inflight) < Concurrency
    BY <2>1, InflightFinite, WorkerAssumption DEF CapacityInv, AtCapacity
  <2>3. Inflight' \subseteq Inflight \cup {d}
    BY <1>1, <1>3, SetPhaseAt DEF Spawn, Inflight, InPhase, Phases, HeldPhases, LivePhases
  <2>4. /\ IsFiniteSet(Inflight \cup {d})
        /\ Cardinality(Inflight \cup {d}) <= Cardinality(Inflight) + 1
    BY InflightFinite, FS_AddElement
  <2>5. Cardinality(Inflight') <= Cardinality(Inflight) + 1
    <3>1. Cardinality(Inflight') <= Cardinality(Inflight \cup {d})
      BY <2>3, <2>4, FS_Subset
    <3>2. /\ Cardinality(Inflight') \in Nat
          /\ Cardinality(Inflight \cup {d}) \in Nat
      BY <2>3, <2>4, FS_Subset, FS_CardinalityType
    <3> QED BY <2>4, <3>1, <3>2, InflightFinite
  <2>6. Cardinality(Inflight') \in Nat
    BY <2>3, <2>4, FS_Subset, FS_CardinalityType
  <2> QED
    BY <2>1, <2>2, <2>5, <2>6, InflightFinite, WorkerAssumption DEF CapacityInv
<1>4. ASSUME \A d \in Deliveries : ~Spawn(d), pc' = "polled"
      PROVE  ~AtCapacity
  <2>1. pc = "polled" \/ PollStream
    BY <1>4, PolledSteps
  <2> QED BY <2>1 DEF CapacityInv, PollStream
<1>5. ASSUME \A d \in Deliveries : ~Spawn(d) PROVE CapacityInv'
  <2>1. Cardinality(Inflight') \in Nat
    BY <1>2, <1>5
  <2>2. Cardinality(Inflight') <= Concurrency
    BY <1>2, <1>5, <2>1, InflightFinite, WorkerAssumption DEF CapacityInv
  <2>3. ASSUME pc' = "polled" PROVE ~(Cardinality(Inflight') >= Concurrency)
    <3>1. ~(Cardinality(Inflight) >= Concurrency)
      BY <1>4, <1>5, <2>3 DEF AtCapacity
    <3>2. Cardinality(Inflight') <= Cardinality(Inflight)
      BY <1>2, <1>5
    <3> QED BY <2>1, <3>1, <3>2, InflightFinite, WorkerAssumption
  <2> QED BY <2>2, <2>3 DEF CapacityInv, AtCapacity
<1> QED BY <1>3, <1>5

-----------------------------------------------------------------------------
(* The invariant is inductive, and each of the safety properties follows.  *)

LEMMA IInvInit == Init => IInv
<1> SUFFICES ASSUME Init PROVE IInv
  OBVIOUS
<1>1. BatchInv /\ NoVerdictForgotten /\ AnsweredInv /\ DrainInv /\ LateInv
  BY DEF Init, BatchInv, NoVerdictForgotten, AnsweredInv, Answered, DrainInv, LateInv
<1>2. CapacityInv
  <2>1. Inflight = {}
    BY DEF Init, Inflight, InPhase, HeldPhases, LivePhases
  <2>2. Cardinality(Inflight) = 0
    BY <2>1, FS_EmptySet
  <2> QED BY <2>2, WorkerAssumption DEF CapacityInv, Init
<1> QED BY <1>1, <1>2, TypeInit, InitialInvariants DEF IInv

LEMMA IInvStep == IInv /\ [Next]_vars => IInv'
  BY TypeStep, DeliveryStep, ProvenanceStep, LeaseStep, AnsweredStep, BatchStep,
     NoVerdictForgottenStep, DrainStep, LateStep, CapacityStep DEF IInv

(* What the worker's tasks, channel and batch hold, what the server leases *)
(* and what is still on the wire agree with what the handlers have said,   *)
(* in every reachable state (run, dispatch_session, handle_job,            *)
(* ack_processor).                                                         *)
THEOREM Inductive == Spec => []IInv
  BY IInvInit, IInvStep, PTL DEF Spec

(* Until the server has answered for it, every verdict is held by its      *)
(* task, by the ack channel or by the batch being retried: neither the     *)
(* retry loops of handle_job and ack_processor, nor a full channel, nor a  *)
(* reconnect loses one.                                                    *)
THEOREM VerdictsHeld == Spec => []NoVerdictForgotten
<1>1. IInv => NoVerdictForgotten
  BY DEF IInv
<1> QED BY <1>1, Inductive, PTL

(* run() drops the stream only once the acknowledgements are in: when a    *)
(* shutdown drains before its deadline, the server has answered for every  *)
(* verdict reached and leases none of those jobs to this worker any more,  *)
(* so the disconnect gives none of them back to be run twice.              *)
THEOREM CleanlyShutDown == Spec => []CleanShutdown
<1>1. IInv => CleanShutdown
  BY CleanShutdownHolds DEF IInv
<1> QED BY <1>1, Inductive, PTL

(* Once the shutdown future has resolved, dispatch_session starts at most  *)
(* the one handler whose job it was already polling the stream for: its    *)
(* biased selects look at the shutdown before every other poll.            *)
THEOREM IntakeStops == Spec => []AtMostOneLateStart
<1>1. IInv => AtMostOneLateStart
  BY DEF IInv, LateInv, AtMostOneLateStart
<1> QED BY <1>1, Inductive, PTL

(* dispatch_session lets no more than `concurrency` tasks into the JoinSet *)
(* that run() keeps across all its sessions, for every concurrency.        *)
THEOREM ConcurrencyBounded == Spec => []BoundedConcurrency
<1>1. IInv => BoundedConcurrency
  BY DEF IInv, CapacityInv, BoundedConcurrency
<1> QED BY <1>1, Inductive, PTL
=============================================================================
