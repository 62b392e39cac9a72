----------------------------- MODULE ZizqWorker ------------------------------
(***************************************************************************)
(* The Worker of zizq/src/worker.rs: run, dispatch_loop, dispatch_session, *)
(* handle_job and ack_processor, running against a Zizq server reached     *)
(* through an HTTP stream (/jobs/take) and unreliable request/response     *)
(* calls (/jobs/success, /jobs/{id}/failure).                              *)
(*                                                                         *)
(* The server, the network and the jobs' handlers are outside the          *)
(* repository: they are modelled from what the client code relies on, and  *)
(* are as nondeterministic as that leaves them.                            *)
(*                                                                         *)
(* A DELIVERY is one job sent once on one connection; a job the server     *)
(* takes back is sent again as a new delivery.  task[d] follows delivery d *)
(* from the wire through its handle_job task.  Deliveries are numbered in  *)
(* the order in which they are sent.                                       *)
(***************************************************************************)
EXTENDS Naturals, FiniteSets

CONSTANTS
  Jobs,            \* the jobs enqueued at the server
  NoJob,           \* the job of a delivery not made yet
  MaxDeliveries,   \* bound: deliveries over the whole run
  Concurrency,     \* WorkerBuilder::concurrency
  Prefetch,        \* WorkerBuilder::prefetch
  Reconnect,       \* WorkerBuilder::reconnect
  MaxFaults,       \* bound: faults over the whole run
  FaultKinds       \* which faults may happen

AllFaultKinds ==
  {"connect",      \* take.await fails with anything but a 4xx
   "refused",      \* take.await fails with a 4xx
   "cut",          \* the stream ends or breaks
   "rpc",          \* a request, or its answer, is lost, or answered with a 5xx
   "reject",       \* a request is answered with a 4xx
   "panic",        \* a handler panics
   "expire",       \* the server gives up on a lease of a live connection
   "retry",        \* the server makes a failed job ready for its next attempt
   "crash"}        \* the worker's process dies and is started again

ASSUME BoundsAssumption ==
  /\ MaxDeliveries \in Nat
  /\ MaxFaults \in Nat
  /\ FaultKinds \subseteq AllFaultKinds

(* build() yields concurrency >= 1; mpsc::channel panics on prefetch = 0. *)
ASSUME WorkerAssumption ==
  /\ Concurrency \in Nat \ {0}
  /\ Prefetch \in Nat \ {0}
  /\ Reconnect \in BOOLEAN
  /\ NoJob \notin Jobs

VARIABLES
  \* The server and the network
  status,      \* each job's status at the server
  lease,       \* the delivery under which a job is leased, 0 if none
  stray,       \* requests whose caller has given up on them but which may arrive
  faults,      \* faults so far
  \* The deliveries
  next,        \* deliveries made so far
  task,        \* where each delivery stands
  \* run and the dispatch loop
  pc,          \* the await point run() is at
  stream,      \* the take stream this worker holds
  connId,      \* connections opened so far; the current one if the stream is held
  shutdown,    \* has the caller's shutdown future resolved?
  timedOut,    \* did the drain run into the shutdown timeout?
  \* The ack processor
  ackpc,       \* the await point it is at
  ackq,        \* the deliveries in the mpsc channel
  batch,       \* the deliveries it is acknowledging
  \* History
  settled,     \* deliveries whose ack or nack the server has answered with success
  rejected,    \* deliveries whose ack or nack was dropped on a 4xx
  late         \* handlers started after the shutdown future resolved

serverVars   == <<status, lease, stray>>
deliveryVars == <<next, task>>
loopVars     == <<pc, stream, connId, shutdown, timedOut>>
ackVars      == <<ackpc, ackq, batch>>
historyVars  == <<settled, rejected, late>>
vars == <<serverVars, faults, deliveryVars, loopVars, ackVars, historyVars>>

-----------------------------------------------------------------------------
Deliveries == 1 .. MaxDeliveries

JobStatus == {"ready", "leased", "done", "failed"}

(* The phases of a delivery whose handle_job task sits in the JoinSet:     *)
(* a completed task keeps its place until join_next reaps it.              *)
LivePhases == {"running", "sending", "nacking", "nacked", "backoff"}
HeldPhases == LivePhases \cup {"finished"}
Phases     == HeldPhases \cup {"unsent", "wire", "lost", "reaped", "aborted"}

Outcomes == {"none", "ok", "err", "panic"}

Tasks == [job : Jobs \cup {NoJob}, conn : Nat, phase : Phases, outcome : Outcomes]

Requests == [kind : {"ack", "nack"}, delivery : Deliveries]

LoopPCs == {"connect", "select", "polled", "sleep", "drain", "flush", "returned", "exited"}
AckPCs  == {"recv", "collect", "posted", "answered", "backoff", "done"}

InPhase(ps) == {d \in Deliveries : task[d].phase \in ps}
OnWire      == InPhase({"wire"})
Inflight    == InPhase(HeldPhases)        \* JoinSet `inflight`
(* Definitions named M_... are faulty variants of the definition that      *)
(* follows them; no specification here uses them.                          *)
M_CapacityPerSession == Cardinality({d \in Inflight : task[d].conn = connId}) >= Concurrency
M_CapacityOffByOne   == Cardinality(Inflight) + 1 >= Concurrency

AtCapacity  == Cardinality(Inflight) >= Concurrency

(* Some Sender clone of the ack channel still exists. *)
SendersAlive == pc \notin {"flush", "returned", "exited"} \/ InPhase(LivePhases) # {}

SetPhase(d, p) == task' = [task EXCEPT ![d].phase = p]
Judged(d, p, o) == task' = [task EXCEPT ![d].phase = p, ![d].outcome = o]

(* The task table once the stream is dropped: what it still buffered is lost. *)
WireLost == [d \in Deliveries |->
              IF task[d].phase = "wire" THEN [task[d] EXCEPT !.phase = "lost"] ELSE task[d]]

Fault(kind) ==
  /\ kind \in FaultKinds
  /\ faults < MaxFaults
  /\ faults' = faults + 1

-----------------------------------------------------------------------------
Init ==
  /\ status = [j \in Jobs |-> "ready"]
  /\ lease  = [j \in Jobs |-> 0]
  /\ stray = {}
  /\ faults = 0
  /\ next = 0
  /\ task = [d \in Deliveries |->
               [job |-> NoJob, conn |-> 0, phase |-> "unsent", outcome |-> "none"]]
  /\ pc = "connect"
  /\ stream = "none"
  /\ connId = 0
  /\ shutdown = FALSE
  /\ timedOut = FALSE
  /\ ackpc = "recv"
  /\ ackq = {}
  /\ batch = {}
  /\ settled = {}
  /\ rejected = {}
  /\ late = 0

-----------------------------------------------------------------------------
(* The server. *)

(* It sends ready jobs while fewer than Prefetch of the connection's jobs  *)
(* are unacknowledged.                                                     *)
Unacked == {j \in Jobs : lease[j] # 0 /\ task[lease[j]].conn = connId}

ServerSend(j) ==
  /\ stream = "open"
  /\ status[j] = "ready"
  /\ Cardinality(Unacked) < Prefetch
  /\ next < MaxDeliveries
  /\ next' = next + 1
  /\ task' = [task EXCEPT ![next + 1] =
                [job |-> j, conn |-> connId, phase |-> "wire", outcome |-> "none"]]
  /\ status' = [status EXCEPT ![j] = "leased"]
  /\ lease' = [lease EXCEPT ![j] = next + 1]
  /\ UNCHANGED <<stray, faults, loopVars, ackVars, historyVars>>

Requeued(j) ==
  /\ status' = [status EXCEPT ![j] = "ready"]
  /\ lease' = [lease EXCEPT ![j] = 0]

(* The server notices that the connection of a lease is gone. *)
ServerTakeBack(j) ==
  /\ lease[j] # 0
  /\ task[lease[j]].conn # connId \/ stream # "open"
  /\ Requeued(j)
  /\ UNCHANGED <<stray, faults, deliveryVars, loopVars, ackVars, historyVars>>

ServerExpire(j) ==
  /\ lease[j] # 0
  /\ Fault("expire")
  /\ Requeued(j)
  /\ UNCHANGED <<stray, deliveryVars, loopVars, ackVars, historyVars>>

ServerRetry(j) ==
  /\ status[j] = "failed"
  /\ Fault("retry")
  /\ Requeued(j)
  /\ UNCHANGED <<stray, deliveryVars, loopVars, ackVars, historyVars>>

(* A request names a job, not a lease: a late one can hit a newer lease of *)
(* the job.  A leased job is settled; one that is back in the queue is     *)
(* settled or not found, which the client code does not tell us.           *)
JobsOf(ds) == {task[d].job : d \in ds}

Settle(js, s) ==
  \E more \in SUBSET {j \in js : status[j] \in {"ready", "failed"}} :
    LET hit == more \cup {j \in js : status[j] = "leased"} IN
    /\ status' = [j \in Jobs |-> IF j \in hit THEN s ELSE status[j]]
    /\ lease'  = [j \in Jobs |-> IF j \in hit THEN 0 ELSE lease[j]]

(* A request its caller gave up on arrives after all. *)
StrayArrives(m) ==
  /\ m \in stray
  /\ stray' = stray \ {m}
  /\ Settle({task[m.delivery].job}, IF m.kind = "ack" THEN "done" ELSE "failed")
  /\ UNCHANGED <<faults, deliveryVars, loopVars, ackVars, historyVars>>

MayStray(kind, ds) ==
  stray' \in {stray, stray \cup [kind : {kind}, delivery : ds]}

(* The stream ends or breaks; of what was sent, a prefix still arrives. *)
StreamCut ==
  /\ stream = "open"
  /\ Fault("cut")
  /\ stream' = "closing"
  /\ \E n \in 0 .. next :
       task' = [d \in Deliveries |-> IF d > n THEN WireLost[d] ELSE task[d]]
  /\ UNCHANGED <<serverVars, next, pc, connId, shutdown, timedOut, ackVars, historyVars>>

-----------------------------------------------------------------------------
(* dispatch_loop: connecting, and sleeping between two connections. *)

ConnectOk ==
  /\ pc = "connect"
  /\ pc' = "select"
  /\ stream' = "open"
  /\ connId' = connId + 1
  /\ UNCHANGED <<serverVars, faults, deliveryVars, shutdown, timedOut, ackVars, historyVars>>

M_AlwaysSleep == pc' = "sleep"

(* A session or an attempt to connect is over: sleep, or leave the loop. *)
SleepOrLeave == pc' = IF Reconnect THEN "sleep" ELSE "drain"

ConnectFails ==
  /\ pc = "connect"
  /\ Fault("connect")
  /\ SleepOrLeave
  /\ UNCHANGED <<serverVars, deliveryVars, stream, connId, shutdown, timedOut,
                 ackVars, historyVars>>

ConnectRefused ==
  /\ pc = "connect"
  /\ Fault("refused")
  /\ pc' = "drain"
  /\ UNCHANGED <<serverVars, deliveryVars, stream, connId, shutdown, timedOut,
                 ackVars, historyVars>>

(* sleep_or_shutdown is biased towards shutdown. *)
Wake ==
  /\ pc = "sleep"
  /\ pc' = IF shutdown THEN "drain" ELSE "connect"
  /\ UNCHANGED <<serverVars, faults, deliveryVars, stream, connId, shutdown, timedOut,
                 ackVars, historyVars>>

ShutdownResolves ==
  /\ pc \notin {"returned", "exited"}
  /\ ~shutdown
  /\ shutdown' = TRUE
  /\ UNCHANGED <<serverVars, faults, deliveryVars, pc, stream, connId, timedOut,
                 ackVars, historyVars>>

-----------------------------------------------------------------------------
(* dispatch_session: both selects poll shutdown first. *)

M_SelectShutdown ==
  /\ pc = "select"
  /\ shutdown
  /\ AtCapacity
  /\ pc' = "drain"
  /\ UNCHANGED <<serverVars, faults, deliveryVars, stream, connId, shutdown, timedOut,
                 ackVars, historyVars>>

SelectShutdown ==
  /\ pc = "select"
  /\ shutdown
  /\ pc' = "drain"
  /\ UNCHANGED <<serverVars, faults, deliveryVars, stream, connId, shutdown, timedOut,
                 ackVars, historyVars>>

(* Tasks are reaped only at capacity. *)
Reap(d) ==
  /\ pc = "select"
  /\ ~shutdown
  /\ AtCapacity
  /\ task[d].phase = "finished"
  /\ SetPhase(d, "reaped")
  /\ UNCHANGED <<serverVars, faults, next, loopVars, ackVars, historyVars>>

M_PollUnbiased ==
  /\ pc = "select"
  /\ ~AtCapacity
  /\ OnWire # {} \/ stream = "closing"
  /\ pc' = "polled"
  /\ UNCHANGED <<serverVars, faults, deliveryVars, stream, connId, shutdown, timedOut,
                 ackVars, historyVars>>

(* The second select has found shutdown pending and goes on to poll a      *)
(* stream that has something to yield; shutdown may resolve in between.    *)
PollStream ==
  /\ pc = "select"
  /\ ~shutdown
  /\ ~AtCapacity
  /\ OnWire # {} \/ stream = "closing"
  /\ pc' = "polled"
  /\ UNCHANGED <<serverVars, faults, deliveryVars, stream, connId, shutdown, timedOut,
                 ackVars, historyVars>>

M_AckOnReceipt(d) ==
  /\ pc = "polled"
  /\ d \in OnWire
  /\ \A e \in OnWire : d <= e
  /\ SetPhase(d, "running")
  /\ pc' = "select"
  /\ ackq' = ackq \cup {d}
  /\ UNCHANGED <<serverVars, faults, next, stream, connId, shutdown, timedOut,
                 ackpc, batch, historyVars>>

Spawn(d) ==
  /\ pc = "polled"
  /\ d \in OnWire
  /\ \A e \in OnWire : d <= e
  /\ SetPhase(d, "running")
  /\ pc' = "select"
  /\ late' = IF shutdown THEN late + 1 ELSE late
  /\ UNCHANGED <<serverVars, faults, next, stream, connId, shutdown, timedOut,
                 ackVars, settled, rejected>>

(* What had arrived before a break is yielded first, then the break. *)
SessionEnds ==
  /\ pc = "polled"
  /\ OnWire = {}
  /\ stream = "closing"
  /\ stream' = "none"
  /\ SleepOrLeave
  /\ UNCHANGED <<serverVars, faults, deliveryVars, connId, shutdown, timedOut,
                 ackVars, historyVars>>

-----------------------------------------------------------------------------
(* handle_job.  abort_all cancels a task at its next await, so one that is *)
(* being polled still reaches that await after run() has returned, and no  *)
(* further: it takes no answer and starts no retry.                        *)
TaskScheduled == pc \notin {"returned", "exited"}

HandlerOk(d) ==
  /\ task[d].phase = "running"
  /\ Judged(d, "sending", "ok")
  /\ UNCHANGED <<serverVars, faults, next, loopVars, ackVars, historyVars>>

M_ErrIsAcked(d) ==
  /\ task[d].phase = "running"
  /\ Judged(d, "sending", "err")
  /\ UNCHANGED <<serverVars, faults, next, loopVars, ackVars, historyVars>>

HandlerErr(d) ==
  /\ task[d].phase = "running"
  /\ Judged(d, "nacking", "err")
  /\ UNCHANGED <<serverVars, faults, next, loopVars, ackVars, historyVars>>

(* join_next swallows the JoinError: neither ack nor nack. *)
HandlerPanics(d) ==
  /\ task[d].phase = "running"
  /\ Fault("panic")
  /\ Judged(d, "finished", "panic")
  /\ UNCHANGED <<serverVars, next, loopVars, ackVars, historyVars>>

M_SendAtOnce(d) ==
  /\ task[d].phase = "sending"
  /\ ackq' = ackq \cup {d}
  /\ SetPhase(d, "finished")
  /\ UNCHANGED <<serverVars, faults, next, loopVars, ackpc, batch, historyVars>>

(* ack_tx.send waits for room in mpsc::channel(prefetch * 2). *)
SendAck(d) ==
  /\ task[d].phase = "sending"
  /\ Cardinality(ackq) < 2 * Prefetch
  /\ ackq' = ackq \cup {d}
  /\ SetPhase(d, "finished")
  /\ UNCHANGED <<serverVars, faults, next, loopVars, ackpc, batch, historyVars>>

ServerFails(d) ==
  /\ task[d].phase = "nacking"
  /\ status[task[d].job] # "done"
  /\ status' = [status EXCEPT ![task[d].job] = "failed"]
  /\ lease'  = [lease EXCEPT ![task[d].job] = 0]
  /\ SetPhase(d, "nacked")
  /\ UNCHANGED <<stray, faults, next, loopVars, ackVars, historyVars>>

NackConfirmed(d) ==
  /\ TaskScheduled
  /\ task[d].phase = "nacked"
  /\ SetPhase(d, "finished")
  /\ settled' = settled \cup {d}
  /\ UNCHANGED <<serverVars, faults, next, loopVars, ackVars, rejected, late>>

(* A 4xx drops the report.  The server answers so of itself when the job is *)
(* not in flight, which a retry of a report that took effect runs into.     *)
NackDropped(d) ==
  /\ TaskScheduled
  /\ task[d].phase = "nacking"
  /\ \/ status[task[d].job] # "leased" /\ UNCHANGED faults
     \/ Fault("reject")
  /\ SetPhase(d, "finished")
  /\ rejected' = rejected \cup {d}
  /\ UNCHANGED <<serverVars, next, loopVars, ackVars, settled, late>>

NackLost(d) ==
  /\ TaskScheduled
  /\ task[d].phase \in {"nacking", "nacked"}
  /\ Fault("rpc")
  /\ IF task[d].phase = "nacking" THEN MayStray("nack", {d}) ELSE UNCHANGED stray
  /\ SetPhase(d, "backoff")
  /\ UNCHANGED <<status, lease, next, loopVars, ackVars, historyVars>>

NackRetry(d) ==
  /\ TaskScheduled
  /\ task[d].phase = "backoff"
  /\ SetPhase(d, "nacking")
  /\ UNCHANGED <<serverVars, faults, next, loopVars, ackVars, historyVars>>

-----------------------------------------------------------------------------
(* ack_processor.  It outlives run() when the drain times out: dropping    *)
(* its JoinHandle detaches it.                                             *)

M_RecvFullOnly ==
  /\ ackpc = "recv"
  /\ Cardinality(ackq) = 2 * Prefetch
  /\ ackpc' = "collect"
  /\ batch' = ackq
  /\ ackq' = {}
  /\ UNCHANGED <<serverVars, faults, deliveryVars, loopVars, historyVars>>

AckRecv ==
  /\ ackpc = "recv"
  /\ ackq # {}
  /\ ackpc' = "collect"
  /\ batch' = ackq
  /\ ackq' = {}
  /\ UNCHANGED <<serverVars, faults, deliveryVars, loopVars, historyVars>>

(* try_recv makes room for senders that are waiting, and takes theirs too. *)
AckCollect ==
  /\ ackpc = "collect"
  /\ ackpc' = IF ackq = {} THEN "posted" ELSE "collect"
  /\ batch' = batch \cup ackq
  /\ ackq' = {}
  /\ UNCHANGED <<serverVars, faults, deliveryVars, loopVars, historyVars>>

ServerAcks ==
  /\ ackpc = "posted"
  /\ Settle(JobsOf(batch), "done")
  /\ ackpc' = "answered"
  /\ UNCHANGED <<stray, faults, deliveryVars, loopVars, ackq, batch, historyVars>>

(* 204, or 422 when some of the ids were not found. *)
AckConfirmed ==
  /\ ackpc = "answered"
  /\ ackpc' = "recv"
  /\ settled' = settled \cup batch
  /\ batch' = {}
  /\ UNCHANGED <<serverVars, faults, deliveryVars, loopVars, ackq, rejected, late>>

AckDropped ==
  /\ ackpc = "posted"
  /\ Fault("reject")
  /\ ackpc' = "recv"
  /\ rejected' = rejected \cup batch
  /\ batch' = {}
  /\ UNCHANGED <<serverVars, deliveryVars, loopVars, ackq, settled, late>>

AckLost ==
  /\ ackpc \in {"posted", "answered"}
  /\ Fault("rpc")
  /\ IF ackpc = "posted" THEN MayStray("ack", batch) ELSE UNCHANGED stray
  /\ ackpc' = "backoff"
  /\ UNCHANGED <<status, lease, deliveryVars, loopVars, ackq, batch, historyVars>>

M_RetryNextBatch ==
  /\ ackpc = "backoff"
  /\ ackpc' = "recv"
  /\ batch' = {}
  /\ UNCHANGED <<serverVars, faults, deliveryVars, loopVars, ackq, historyVars>>

AckRetry ==
  /\ ackpc = "backoff"
  /\ ackpc' = "posted"
  /\ UNCHANGED <<serverVars, faults, deliveryVars, loopVars, ackq, batch, historyVars>>

(* recv() returns None: every Sender is gone and the channel is empty. *)
AckDone ==
  /\ ackpc = "recv"
  /\ ackq = {}
  /\ ~SendersAlive
  /\ ackpc' = "done"
  /\ UNCHANGED <<serverVars, faults, deliveryVars, loopVars, ackq, batch, historyVars>>

-----------------------------------------------------------------------------
(* run: the bounded drain. *)

DrainReap(d) ==
  /\ pc = "drain"
  /\ task[d].phase = "finished"
  /\ SetPhase(d, "reaped")
  /\ UNCHANGED <<serverVars, faults, next, loopVars, ackVars, historyVars>>

(* join_next returned None: drop(ack_tx). *)
DrainJoined ==
  /\ pc = "drain"
  /\ Inflight = {}
  /\ pc' = "flush"
  /\ UNCHANGED <<serverVars, faults, deliveryVars, stream, connId, shutdown, timedOut,
                 ackVars, historyVars>>

DropStream ==
  /\ stream' = "none"
  /\ task' = WireLost
  /\ pc' = "returned"

M_DropBeforeFlush ==
  /\ pc = "flush"
  /\ DropStream
  /\ UNCHANGED <<serverVars, faults, next, connId, shutdown, timedOut, ackVars, historyVars>>

Drained ==
  /\ pc = "flush"
  /\ ackpc = "done"
  /\ DropStream
  /\ UNCHANGED <<serverVars, faults, next, connId, shutdown, timedOut, ackVars, historyVars>>

M_TimeoutOnFlushOnly ==
  /\ pc = "flush"
  /\ timedOut' = TRUE
  /\ DropStream
  /\ UNCHANGED <<serverVars, faults, next, connId, shutdown, ackVars, historyVars>>

(* The shutdown timeout: abort_all, which takes effect in TaskCancelled. *)
DrainTimesOut ==
  /\ pc \in {"drain", "flush"}
  /\ timedOut' = TRUE
  /\ DropStream
  /\ UNCHANGED <<serverVars, faults, next, connId, shutdown, ackVars, historyVars>>

TaskCancelled(d) ==
  /\ pc = "returned"
  /\ task[d].phase \in LivePhases
  /\ SetPhase(d, "aborted")
  /\ IF task[d].phase = "nacking" THEN MayStray("nack", {d}) ELSE UNCHANGED stray
  /\ UNCHANGED <<status, lease, faults, next, loopVars, ackVars, historyVars>>

-----------------------------------------------------------------------------
(* The process ends, taking every task and the ack processor with it;      *)
(* requests already sent may still arrive.                                 *)
KillTasks ==
  /\ task' = [d \in Deliveries |->
                IF task[d].phase \in HeldPhases \/ d \in ackq \cup batch
                THEN [task[d] EXCEPT !.phase = "aborted"] ELSE WireLost[d]]
  /\ ackq' = {}
  /\ batch' = {}
  /\ stream' = "none"
  /\ \E ds \in SUBSET InPhase({"nacking"}), bs \in {{}, IF ackpc = "posted" THEN batch ELSE {}} :
       stray' = stray \cup [kind : {"nack"}, delivery : ds] \cup [kind : {"ack"}, delivery : bs]

Crash ==
  /\ pc \notin {"returned", "exited"}
  /\ Fault("crash")
  /\ KillTasks
  /\ pc' = "connect"
  /\ ackpc' = "recv"
  /\ shutdown' = FALSE
  /\ late' = 0
  /\ UNCHANGED <<status, lease, next, connId, timedOut, settled, rejected>>

ProcessExits ==
  /\ pc = "returned"
  /\ KillTasks
  /\ pc' = "exited"
  /\ ackpc' = "done"
  /\ UNCHANGED <<status, lease, faults, next, connId, shutdown, timedOut, historyVars>>

Exited ==
  /\ pc = "exited"
  /\ UNCHANGED vars

-----------------------------------------------------------------------------
Server ==
  \/ \E j \in Jobs : ServerSend(j) \/ ServerTakeBack(j) \/ ServerExpire(j) \/ ServerRetry(j)
  \/ \E m \in stray : StrayArrives(m)
  \/ StreamCut

Dispatch ==
  \/ ConnectOk \/ ConnectFails \/ ConnectRefused \/ Wake
  \/ SelectShutdown \/ PollStream \/ SessionEnds
  \/ \E d \in Deliveries : Reap(d) \/ Spawn(d)

HandleJob(d) ==
  \/ HandlerOk(d) \/ HandlerErr(d) \/ HandlerPanics(d) \/ SendAck(d)
  \/ ServerFails(d) \/ NackConfirmed(d) \/ NackDropped(d) \/ NackLost(d) \/ NackRetry(d)

AckProcessor ==
  \/ AckRecv \/ AckCollect \/ ServerAcks \/ AckConfirmed
  \/ AckDropped \/ AckLost \/ AckRetry \/ AckDone

Drain ==
  \/ DrainJoined \/ Drained \/ DrainTimesOut
  \/ \E d \in Deliveries : DrainReap(d) \/ TaskCancelled(d)

Next ==
  \/ Server \/ Dispatch \/ AckProcessor \/ Drain
  \/ \E d \in Deliveries : HandleJob(d)
  \/ ShutdownResolves \/ Crash \/ ProcessExits \/ Exited

Spec == Init /\ [][Next]_vars

-----------------------------------------------------------------------------
(* Fairness.  Tokio polls every task that can make progress, timers fire,  *)
(* reqwest's timeouts end every call, and the faults are finitely many: no *)
(* fairness is asked of the faults, the shutdown future, or the end of the *)
(* process.  tokio's mpsc hands its permits out in FIFO order, hence SF on *)
(* SendAck.  Handlers are fair only where FairHandlers says so.            *)
LoopStep ==
  \/ ConnectOk \/ Wake \/ SelectShutdown \/ PollStream \/ SessionEnds
  \/ \E d \in Deliveries : Reap(d) \/ Spawn(d)

TaskStep(d) == ServerFails(d) \/ NackConfirmed(d) \/ NackDropped(d) \/ NackRetry(d)

AckStep == AckRecv \/ AckCollect \/ ServerAcks \/ AckConfirmed \/ AckRetry \/ AckDone

Fairness ==
  /\ WF_vars(LoopStep)
  /\ WF_vars(AckStep)
  /\ \A d \in Deliveries : WF_vars(TaskStep(d)) /\ SF_vars(SendAck(d))
  /\ WF_vars(\E d \in Deliveries : DrainReap(d)) /\ WF_vars(DrainJoined \/ Drained)
  /\ WF_vars(DrainTimesOut)
  /\ \A j \in Jobs : WF_vars(ServerSend(j)) /\ WF_vars(ServerTakeBack(j))

FairHandlers == \A d \in Deliveries : WF_vars(HandlerOk(d) \/ HandlerErr(d))

FairSpec == Spec /\ Fairness
FairHandlerSpec == FairSpec /\ FairHandlers

-----------------------------------------------------------------------------
(* Every variable keeps to its type, and the ack channel to its capacity.  *)
TypeOK ==
  /\ status \in [Jobs -> JobStatus]
  /\ lease \in [Jobs -> 0 .. MaxDeliveries]
  /\ stray \subseteq Requests
  /\ faults \in 0 .. MaxFaults
  /\ next \in 0 .. MaxDeliveries
  /\ task \in [Deliveries -> Tasks]
  /\ pc \in LoopPCs
  /\ stream \in {"none", "open", "closing"}
  /\ connId \in Nat
  /\ shutdown \in BOOLEAN
  /\ timedOut \in BOOLEAN
  /\ ackpc \in AckPCs
  /\ ackq \subseteq Deliveries
  /\ Cardinality(ackq) <= 2 * Prefetch
  /\ batch \subseteq Deliveries
  /\ settled \subseteq Deliveries
  /\ rejected \subseteq Deliveries
  /\ late \in Nat

(* However often the worker reconnects, the tasks of all its sessions      *)
(* together, those retrying a failure report or waiting for room in the    *)
(* ack channel included, stay within WorkerBuilder::concurrency.           *)
BoundedConcurrency == Cardinality(Inflight) <= Concurrency

(* A verdict a handler has reached is never forgotten inside the worker:   *)
(* until the server has answered for it, it is held by its task, by the    *)
(* ack channel or by the batch being retried, unless it went down with     *)
(* the process or with the shutdown timeout.                               *)
NoVerdictForgotten ==
  \A d \in Deliveries :
    task[d].phase # "aborted" /\ d \notin settled \cup rejected =>
      /\ task[d].outcome = "ok" => task[d].phase = "sending" \/ d \in ackq \cup batch
      /\ task[d].outcome = "err" => task[d].phase \in {"nacking", "nacked", "backoff"}

(* A shutdown that drains in time loses no completed work: once run() has  *)
(* returned, the server has answered for every verdict reached, and holds  *)
(* no lease of such a delivery that the disconnect would give back.        *)
CleanShutdown ==
  pc \in {"returned", "exited"} /\ ~timedOut =>
    \A d \in Deliveries :
      task[d].outcome \in {"ok", "err"} /\ task[d].phase # "aborted" =>
        /\ d \in settled \cup rejected
        /\ d \in settled => lease[task[d].job] # d

(* Once the shutdown future has resolved, at most the one job the session  *)
(* was already polling the stream for is still started.                    *)
AtMostOneLateStart == late <= 1

(* The worker and the server together are an at-least-once queue: a job is *)
(* completed, or failed, only on the word of a handler that returned Ok,   *)
(* or Err, for that job.                                                   *)
Verdicts == [j \in Jobs |->
  {o \in {"ok", "err"} : \E d \in Deliveries : task[d].job = j /\ task[d].outcome = o}]

Abstract == INSTANCE AtLeastOnce WITH verdicts <- Verdicts

ImplementsAtLeastOnce == Abstract!AbsSpec

(* run() returns once the shutdown future has resolved, whatever handlers, *)
(* server and network do, a handler that never returns included.           *)
ShutdownReturns == shutdown ~> (pc \in {"returned", "exited"} \/ ~shutdown)

(* A verdict gets through to the server, or is rejected by it, however the *)
(* calls fail on the way, unless the shutdown timeout or the death of the  *)
(* process ends its task first.                                            *)
VerdictReported ==
  \A d \in Deliveries :
    task[d].outcome \in {"ok", "err"} ~>
      (d \in settled \cup rejected \/ pc \in {"returned", "exited"} \/ task[d].phase = "aborted")

(* With reconnect(false), the end of the stream is the end of run(),       *)
(* unless a handler hangs.                                                 *)
StreamEndReturns ==
  ~Reconnect =>
    \/ stream = "closing" ~> pc \in {"returned", "exited"}
    \/ \E d \in Deliveries : <>[](task[d].phase = "running")

(* The documentation of WorkerBuilder::shutdown_timeout: when the deadline *)
(* fires, "pending acks not yet sent are dropped".                         *)
PendingAcksDropped ==
  [][timedOut /\ ackpc' = "posted" => ackpc = "posted"]_vars

(* As long as the worker is not told to stop, every job reaches a verdict  *)
(* at the server.                                                          *)
JobsSettle == \A j \in Jobs : <>(status[j] \in {"done", "failed"} \/ shutdown)
=============================================================================
