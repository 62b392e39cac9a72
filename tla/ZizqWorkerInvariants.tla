------------------------ MODULE ZizqWorkerInvariants -------------------------
(***************************************************************************)
(* The inductive invariant behind the theorems of ZizqWorkerProofs.  None  *)
(* of the safety properties of ZizqWorker is inductive: a verdict reaches  *)
(* the server through a task, a channel, a batch and possibly a request    *)
(* whose caller has long given up, and each of them must be known to hold  *)
(* only what a handler has said.                                           *)
(***************************************************************************)
EXTENDS ZizqWorker

(* Deliveries are made in order, and have no verdict before a handler runs. *)
DeliveryInv ==
  \A d \in Deliveries :
    /\ d > next => task[d].phase = "unsent"
    /\ d <= next => task[d].job \in Jobs
    /\ task[d].phase \in {"unsent", "wire", "lost", "running"} => task[d].outcome = "none"

(* Whatever is on its way to the server as an ack (a nack) was Ok (Err).   *)
ProvenanceInv ==
  /\ \A d \in Deliveries :
       /\ task[d].phase = "sending" \/ d \in ackq \cup batch => task[d].outcome = "ok"
       /\ task[d].phase \in {"nacking", "nacked", "backoff"} => task[d].outcome = "err"
  /\ \A m \in stray : task[m.delivery].outcome = IF m.kind = "ack" THEN "ok" ELSE "err"

LeaseInv ==
  \A j \in Jobs : lease[j] # 0 => status[j] = "leased" /\ lease[j] <= next

(* The server holds no lease of a delivery it has answered for.            *)
Answered(d) ==
  d \in settled \/ (ackpc = "answered" /\ d \in batch) \/ task[d].phase = "nacked"

AnsweredInv ==
  \A d \in Deliveries :
    Answered(d) => task[d].outcome # "none" /\ lease[task[d].job] # d

BatchInv == ackpc \in {"recv", "done"} => batch = {}

(* run() leaves the drain in time only with nothing left to do.            *)
DrainInv ==
  /\ pc = "flush" => \A d \in Deliveries : task[d].phase \notin HeldPhases
  /\ ackpc = "done" =>
       /\ pc \in {"flush", "returned", "exited"}
       /\ ackq = {}
       /\ \A d \in Deliveries : task[d].phase \notin LivePhases
  /\ pc \in {"returned", "exited"} /\ ~timedOut => ackpc = "done"

LateInv == late # 0 => late = 1 /\ shutdown /\ pc \notin {"connect", "polled", "sleep"}

CapacityInv ==
  /\ Cardinality(Inflight) <= Concurrency
  /\ pc = "polled" => ~AtCapacity

IInv ==
  /\ TypeOK /\ DeliveryInv /\ ProvenanceInv /\ LeaseInv /\ AnsweredInv /\ BatchInv
  /\ NoVerdictForgotten /\ DrainInv /\ LateInv /\ CapacityInv
=============================================================================
