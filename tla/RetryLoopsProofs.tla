-------------------------- MODULE RetryLoopsProofs ---------------------------
(* Theorems about RetryLoops, for every value of its constants. *)
EXTENDS RetryLoops, TLAPS

(* What the loop's variables say of one another. *)
LoopInv ==
  /\ pc = "session" => loop = "take" /\ ~failing
  /\ pc = "sleep" => failing /\ slept = backoff
  /\ pc = "call" => backoff = IF failing THEN NextBackoff(slept) ELSE InitialBackoff
  /\ ~failing => backoff = InitialBackoff
  /\ slept # 0 => slept >= InitialBackoff

IInv == TypeOK /\ LoopInv /\ TransientNeverFatal

(* The results of a call are results, whatever is answered. *)
LEMMA CallType ==
  ASSUME NEW a \in Answers, loop \in Loops
  PROVE  Call(a) \in Results
  BY DEF Answers, Loops, Call, Take, ReportFailure, ReportSuccessBulk, Decoded, DecodeBody,
     Expected, Refusal, Results, Errors

(* No error is both permanent and transient. *)
LEMMA ClassesDisjoint ==
  ASSUME NEW r \in Results, IsRetryable(r)
  PROVE  ~IsClientError(r) /\ r # OkResult
  BY StatusesAssumption DEF Results, Errors, IsRetryable, IsTransport, IsServerError,
     IsClientError, OkResult, Transport, Decode, Response

LEMMA NextBackoffType ==
  ASSUME NEW b \in InitialBackoff .. MaxBackoff
  PROVE  NextBackoff(b) \in InitialBackoff .. MaxBackoff
  BY BackoffAssumption DEF NextBackoff

LEMMA NamedResults ==
  /\ OkResult \in Results /\ Transport \in Results /\ Decode \in Results
  /\ ~IsRetryable(OkResult)
<1>1. OkResult \in Results /\ Transport \in Results /\ Decode \in Results
  BY DEF Results, Errors
<1> QED BY <1>1, ClassesDisjoint

LEMMA InitInv == Init => IInv
<1> SUFFICES ASSUME Init PROVE IInv
  OBVIOUS
<1>1. backoff \in InitialBackoff .. MaxBackoff /\ slept \in 0 .. MaxBackoff
  BY BackoffAssumption DEF Init
<1>2. TypeOK
  BY <1>1, NamedResults DEF Init, TypeOK
<1>3. LoopInv /\ TransientNeverFatal
  BY DEF Init, LoopInv, TransientNeverFatal
<1> QED BY <1>2, <1>3 DEF IInv

(* Leaving with r, and sleeping after r, keep the invariant. *)
LEMMA LeaveInv ==
  ASSUME IInv, NEW r \in Results, Leave(r), UNCHANGED <<loop, up>>, shutdown' \in BOOLEAN,
         IsRetryable(r) => loop = "take" /\ ~Reconnect
  PROVE  IInv'
<1>1. TypeOK'
  BY DEF IInv, TypeOK, Leave
<1>2. LoopInv'
  BY DEF IInv, LoopInv, Leave
<1>3. TransientNeverFatal'
  BY DEF TransientNeverFatal, Leave
<1> QED BY <1>1, <1>2, <1>3 DEF IInv

LEMMA SleepInv ==
  ASSUME IInv, NEW r \in Results, SleepAfter(r), UNCHANGED <<loop, up, shutdown>>
  PROVE  IInv'
<1>1. TypeOK'
  BY BackoffAssumption DEF IInv, TypeOK, SleepAfter
<1>2. LoopInv'
  BY BackoffAssumption DEF IInv, TypeOK, LoopInv, SleepAfter
<1>3. TransientNeverFatal'
  BY DEF TransientNeverFatal, SleepAfter
<1> QED BY <1>1, <1>2, <1>3 DEF IInv

LEMMA CallInv ==
  ASSUME IInv, NEW a \in Answers, CallServer(a)
  PROVE  IInv'
<1> DEFINE r == Call(a)
<1>1. r \in Results
  BY CallType DEF IInv, TypeOK
<1>2. /\ Succeeds(r) \/ Rejected(r) \/ Fails(r)
      /\ pc = "call"
      /\ UNCHANGED <<loop, shutdown, up>>
      /\ shutdown' \in BOOLEAN
  BY DEF CallServer, IInv, TypeOK
<1> HIDE DEF r
<1>3. CASE Succeeds(r)
  <2>1. CASE loop = "take"
    <3>0. /\ backoff' = InitialBackoff /\ InitialBackoff \in InitialBackoff .. MaxBackoff
          /\ result' \in Results
      BY <1>1, <1>3, <2>1, BackoffAssumption DEF Succeeds
    <3>1. TypeOK'
      BY <1>2, <1>3, <2>1, <3>0 DEF IInv, TypeOK, Succeeds
    <3>2. LoopInv'
      BY <1>2, <1>3, <2>1, BackoffAssumption DEF IInv, LoopInv, Succeeds
    <3>3. TransientNeverFatal'
      BY <1>3, <2>1 DEF TransientNeverFatal, Succeeds
    <3> QED BY <3>1, <3>2, <3>3 DEF IInv
  <2>2. CASE loop # "take"
    BY <1>1, <1>2, <1>3, <2>2, NamedResults, LeaveInv DEF Succeeds
  <2> QED BY <2>1, <2>2
<1>4. CASE Rejected(r)
  BY <1>1, <1>2, <1>4, ClassesDisjoint, LeaveInv DEF Rejected
<1>5. CASE Fails(r)
  BY <1>1, <1>2, <1>5, LeaveInv, SleepInv DEF Fails
<1> QED BY <1>2, <1>3, <1>4, <1>5

LEMMA WakeInv ==
  ASSUME IInv, Wake
  PROVE  IInv'
<1>0. shutdown' \in BOOLEAN /\ UNCHANGED <<loop, shutdown, up>> /\ pc = "sleep"
  BY DEF Wake, IInv, TypeOK
<1>1. CASE loop = "take" /\ shutdown
  BY <1>0, <1>1, NamedResults, LeaveInv DEF Wake
<1>2. CASE ~(loop = "take" /\ shutdown)
  <2>1. TypeOK'
    BY <1>0, <1>2, NextBackoffType DEF IInv, TypeOK, Wake
  <2>2. LoopInv'
    BY <1>0, <1>2 DEF IInv, LoopInv, Wake, NextBackoff
  <2>3. TransientNeverFatal'
    BY <1>2 DEF TransientNeverFatal, Wake
  <2> QED BY <2>1, <2>2, <2>3 DEF IInv
<1> QED BY <1>1, <1>2

LEMMA StepInv == IInv /\ [Next]_vars => IInv'
<1> SUFFICES ASSUME IInv, [Next]_vars PROVE IInv'
  OBVIOUS
<1>0. shutdown \in BOOLEAN
  BY DEF IInv, TypeOK
<1>1. ASSUME NEW a \in Answers, CallServer(a) PROVE IInv'
  BY <1>1, CallInv
<1>2. CASE Wake
  BY <1>2, WakeInv
<1>3. ASSUME NEW r \in {OkResult, Transport, Decode}, SessionBreaks(r) PROVE IInv'
  <2>1. r \in Results /\ UNCHANGED <<loop, up, shutdown>> /\ shutdown' \in BOOLEAN
    BY <1>0, <1>3, NamedResults DEF SessionBreaks
  <2>2. CASE Reconnect
    BY <1>3, <2>1, <2>2, SleepInv DEF SessionBreaks
  <2>3. CASE ~Reconnect
    BY <1>3, <2>1, <2>3, LeaveInv DEF SessionBreaks, IInv, LoopInv
  <2> QED BY <2>2, <2>3
<1>4. CASE SessionShutdown
  BY <1>0, <1>4, NamedResults, LeaveInv DEF SessionShutdown
<1>5. CASE ShutdownResolves
  BY <1>5 DEF ShutdownResolves, IInv, TypeOK, LoopInv, NextBackoff, TransientNeverFatal
<1>6. CASE ServerChanges
  BY <1>6 DEF ServerChanges, IInv, TypeOK, LoopInv, NextBackoff, TransientNeverFatal
<1>7. CASE UNCHANGED vars
  BY <1>7 DEF vars, IInv, TypeOK, LoopInv, NextBackoff, TransientNeverFatal
<1> QED BY <1>1, <1>2, <1>3, <1>4, <1>5, <1>6, <1>7 DEF Next

(* The loops' variables keep to their types: whatever the server answers,  *)
(* the backoff stays between INITIAL_BACKOFF and MAX_BACKOFF.              *)
THEOREM TypeCorrect == Spec => []TypeOK
<1>1. IInv => TypeOK
  BY DEF IInv
<1> QED BY <1>1, InitInv, StepInv, PTL DEF Spec

(* handle_job and ack_processor give no report up, and a worker that may   *)
(* reconnect does not leave dispatch_loop, on an error that is_retryable   *)
(* calls transient: for every set of statuses a server may answer with.    *)
THEOREM TransientsRetried == Spec => []TransientNeverFatal
<1>1. IInv => TransientNeverFatal
  BY DEF IInv
<1> QED BY <1>1, InitInv, StepInv, PTL DEF Spec

(* The sleeps of the three loops follow the documented curve: they start   *)
(* at INITIAL_BACKOFF after each success and double up to MAX_BACKOFF.     *)
THEOREM SleepsDouble == Spec => BackoffDoubles
<1> DEFINE Doubles ==
      pc # "sleep" /\ pc' = "sleep" =>
        IF ~failing THEN slept' = InitialBackoff
        ELSE IF 2 * slept <= MaxBackoff THEN slept' = 2 * slept
        ELSE slept' = MaxBackoff
<1>1. IInv /\ [Next]_vars => [Doubles]_vars
  <2> SUFFICES ASSUME IInv, Next, pc # "sleep", pc' = "sleep" PROVE Doubles
    OBVIOUS
  <2> USE BackoffAssumption DEF IInv, TypeOK, LoopInv
  <2>1. ASSUME NEW a \in Answers, CallServer(a) PROVE Doubles
    BY <2>1 DEF CallServer, Succeeds, Rejected, Fails, Leave, SleepAfter, NextBackoff
  <2>2. ASSUME NEW r \in {OkResult, Transport, Decode}, SessionBreaks(r) PROVE Doubles
    BY <2>2 DEF SessionBreaks, Leave, SleepAfter
  <2>3. CASE Wake \/ SessionShutdown \/ ShutdownResolves \/ ServerChanges
    BY <2>3 DEF Wake, SessionShutdown, ShutdownResolves, ServerChanges, Leave
  <2> QED BY <2>1, <2>2, <2>3 DEF Next
<1> QED BY <1>1, InitInv, StepInv, PTL DEF Spec, BackoffDoubles
=============================================================================
