----------------------------- MODULE RetryLoops ------------------------------
(***************************************************************************)
(* The three loops of zizq/src/worker.rs that call the server until it     *)
(* answers: dispatch_loop ("take"), the failure report of handle_job       *)
(* ("nack") and the bulk acknowledgement of ack_processor ("ack").         *)
(* ZizqWorker abstracts from what they differ in: which answer is an       *)
(* error, which error ends the loop, and how long the others put it off.   *)
(***************************************************************************)
EXTENDS ClientCalls

CONSTANTS
  InitialBackoff,   \* INITIAL_BACKOFF
  MaxBackoff,       \* MAX_BACKOFF
  Reconnect         \* WorkerBuilder::reconnect

ASSUME BackoffAssumption ==
  /\ InitialBackoff \in Nat \ {0}
  /\ MaxBackoff \in Nat
  /\ InitialBackoff <= MaxBackoff
  /\ Reconnect \in BOOLEAN

VARIABLES
  loop,        \* which of the three loops this is
  pc,          \* where it is
  backoff,     \* its local variable
  shutdown,    \* has the caller's shutdown future resolved?
  up,          \* is the server there and healthy?
  slept,       \* history: the last sleep
  failing,     \* history: has it failed since it began, or since it last connected?
  result       \* history: what the last call, or the stream, came to

vars == <<loop, pc, backoff, shutdown, up, slept, failing, result>>

Loops == {"take", "nack", "ack"}

Call(a) ==
  CASE loop = "take" -> Take(a)
    [] loop = "nack" -> ReportFailure(a)
    [] loop = "ack"  -> ReportSuccessBulk(a)

(* What a healthy server answers: yes, or no. *)
HealthyAnswers ==
  {a \in Answers : a.body = "good" /\ (Call(a) = OkResult \/ a.status \in 400 .. 499)}

M_NextBackoff(b) == b * 2

NextBackoff(b) == IF b * 2 <= MaxBackoff THEN b * 2 ELSE MaxBackoff

-----------------------------------------------------------------------------
Init ==
  /\ loop \in Loops
  /\ pc = "call"
  /\ backoff = InitialBackoff
  /\ shutdown = FALSE
  /\ up \in BOOLEAN
  /\ slept = 0
  /\ failing = FALSE
  /\ result = OkResult

Leave(r) ==
  /\ pc' = "left"
  /\ result' = r
  /\ UNCHANGED <<backoff, slept, failing>>

(* Sleep for the current backoff. *)
SleepAfter(r) ==
  /\ pc' = "sleep"
  /\ result' = r
  /\ slept' = backoff
  /\ failing' = TRUE
  /\ UNCHANGED backoff

M_Succeeds(r) ==
  /\ r = OkResult
  /\ IF loop = "take"
     THEN /\ pc' = "session"
          /\ failing' = FALSE
          /\ result' = r
          /\ UNCHANGED <<backoff, slept>>
     ELSE Leave(r)

Succeeds(r) ==
  /\ r = OkResult
  /\ IF loop = "take"
     THEN /\ pc' = "session"
          /\ backoff' = InitialBackoff
          /\ failing' = FALSE
          /\ result' = r
          /\ UNCHANGED slept
     ELSE Leave(r)

Rejected(r) ==
  /\ IsClientError(r)
  /\ Leave(r)

Fails(r) ==
  /\ r # OkResult
  /\ ~IsClientError(r)
  /\ IF loop = "take" /\ ~Reconnect THEN Leave(r) ELSE SleepAfter(r)

CallServer(a) ==
  /\ pc = "call"
  /\ up => a \in HealthyAnswers
  /\ LET r == Call(a) IN Succeeds(r) \/ Rejected(r) \/ Fails(r)
  /\ UNCHANGED <<loop, shutdown, up>>

M_Wake ==
  /\ pc = "sleep"
  /\ pc' = "call"
  /\ backoff' = NextBackoff(backoff)
  /\ UNCHANGED <<loop, shutdown, up, slept, failing, result>>

(* Only dispatch_loop sleeps with an eye on the shutdown. *)
Wake ==
  /\ pc = "sleep"
  /\ IF loop = "take" /\ shutdown
     THEN Leave(OkResult)
     ELSE /\ pc' = "call"
          /\ backoff' = NextBackoff(backoff)
          /\ UNCHANGED <<slept, failing, result>>
  /\ UNCHANGED <<loop, shutdown, up>>

(* dispatch_session returns: StreamEnded, TransportError or Shutdown. *)
SessionBreaks(r) ==
  /\ pc = "session"
  /\ IF Reconnect THEN SleepAfter(r) ELSE Leave(r)
  /\ UNCHANGED <<loop, shutdown, up>>

SessionShutdown ==
  /\ pc = "session"
  /\ shutdown
  /\ Leave(OkResult)
  /\ UNCHANGED <<loop, shutdown, up>>

ShutdownResolves ==
  /\ ~shutdown
  /\ shutdown' = TRUE
  /\ UNCHANGED <<loop, pc, backoff, up, slept, failing, result>>

ServerChanges ==
  /\ up' = ~up
  /\ UNCHANGED <<loop, pc, backoff, shutdown, slept, failing, result>>

-----------------------------------------------------------------------------
Next ==
  \/ \E a \in Answers : CallServer(a)
  \/ Wake \/ SessionShutdown \/ ShutdownResolves \/ ServerChanges
  \/ \E r \in {OkResult, Transport, Decode} : SessionBreaks(r)

Spec == Init /\ [][Next]_vars

(* Calls and sleeps end, and a session that can see the shutdown does.     *)
Fairness == WF_vars((\E a \in Answers : CallServer(a)) \/ Wake \/ SessionShutdown)

FairSpec == Spec /\ Fairness

-----------------------------------------------------------------------------
TypeOK ==
  /\ loop \in Loops
  /\ pc \in {"call", "sleep", "session", "left"}
  /\ backoff \in InitialBackoff .. MaxBackoff
  /\ shutdown \in BOOLEAN
  /\ up \in BOOLEAN
  /\ slept \in 0 .. MaxBackoff
  /\ failing \in BOOLEAN
  /\ result \in Results

(* The first sleep after a success is INITIAL_BACKOFF, and each later one  *)
(* is twice as long as the one before, up to MAX_BACKOFF.                  *)
BackoffDoubles ==
  [][pc # "sleep" /\ pc' = "sleep" =>
       IF ~failing THEN slept' = InitialBackoff
       ELSE IF 2 * slept <= MaxBackoff THEN slept' = 2 * slept
       ELSE slept' = MaxBackoff]_vars

(* No report is given up, and no worker that may reconnect gives up, on an *)
(* error that ZizqError::is_retryable calls transient.                     *)
TransientNeverFatal ==
  pc = "left" /\ IsRetryable(result) => loop = "take" /\ ~Reconnect

(* Once the server is back for good, a report ends, accepted or rejected,  *)
(* and whatever the server does, dispatch_loop ends after a shutdown.      *)
ReportEnds == <>[]up => (loop \in {"nack", "ack"} ~> pc = "left")

ShutdownLeaves == (shutdown /\ loop = "take") ~> pc = "left"

(* The policy stated beside is_retryable (error.rs): "transient means      *)
(* transport or 5xx, and nothing else"; nothing else delays a report.      *)
RetriesOnlyTransient ==
  loop \in {"nack", "ack"} /\ pc = "sleep" => IsRetryable(result)
=============================================================================
