----------------------------- MODULE AtLeastOnce -----------------------------
(***************************************************************************)
(* What a Zizq worker and its server promise together, with no worker in   *)
(* sight: every job is handed out at least once, it may be handed out      *)
(* again whenever the server takes a lease back, and a job is completed    *)
(* (or failed) only on the word of a handler that returned Ok (or Err) for *)
(* it.  ZizqWorker is shown to implement this specification.               *)
(***************************************************************************)
CONSTANT Jobs

VARIABLES
  status,     \* where each job stands at the server
  verdicts    \* the verdicts handlers have reached on each job so far

absVars == <<status, verdicts>>

JobStatus == {"ready", "leased", "done", "failed"}
Verdict   == {"ok", "err"}

AbsTypeOK ==
  /\ status   \in [Jobs -> JobStatus]
  /\ verdicts \in [Jobs -> SUBSET Verdict]

AbsInit ==
  /\ status   = [j \in Jobs |-> "ready"]
  /\ verdicts = [j \in Jobs |-> {}]

Deliver(j) ==
  /\ status[j] = "ready"
  /\ status' = [status EXCEPT ![j] = "leased"]
  /\ UNCHANGED verdicts

(* A lease is lost, or a failed job is due for its next attempt. *)
Return(j) ==
  /\ status[j] \in {"leased", "failed"}
  /\ status' = [status EXCEPT ![j] = "ready"]
  /\ UNCHANGED verdicts

Judge(j, v) ==
  /\ verdicts' = [verdicts EXCEPT ![j] = @ \cup {v}]
  /\ UNCHANGED status

(* One bulk acknowledgement completes a set of jobs at once. *)
Complete(js) ==
  /\ \A j \in js : status[j] # "done" /\ "ok" \in verdicts[j]
  /\ status' = [j \in Jobs |-> IF j \in js THEN "done" ELSE status[j]]
  /\ UNCHANGED verdicts

Fail(j) ==
  /\ status[j] # "done"
  /\ "err" \in verdicts[j]
  /\ status' = [status EXCEPT ![j] = "failed"]
  /\ UNCHANGED verdicts

AbsNext ==
  \/ \E j \in Jobs : Deliver(j) \/ Return(j) \/ Fail(j)
  \/ \E j \in Jobs, v \in Verdict : Judge(j, v)
  \/ \E js \in SUBSET Jobs : Complete(js)

AbsSpec == AbsInit /\ [][AbsNext]_absVars
=============================================================================
