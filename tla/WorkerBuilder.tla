---------------------------- MODULE WorkerBuilder ----------------------------
(***************************************************************************)
(* WorkerBuilder of zizq/src/worker.rs: setters called in any order, any   *)
(* number of times, and the worker that build() makes of them.             *)
(***************************************************************************)
EXTENDS Naturals

CONSTANTS
  Sizes,    \* the numbers callers pass to concurrency() and prefetch()
  Unset     \* Option::None

ASSUME SizesAssumption == Sizes \subseteq Nat /\ Unset \notin Nat

VARIABLES
  client, handler,   \* are they set?
  concurrency,
  prefetch,
  reconnect,
  built,             \* what build() returned, once called
  explicit           \* history: the last argument of prefetch()

vars == <<client, handler, concurrency, prefetch, reconnect, built, explicit>>

NotBuilt == [is |-> "NotBuilt"]

Worker(c, p, r) == [is |-> "Worker", concurrency |-> c, prefetch |-> p, reconnect |-> r]

-----------------------------------------------------------------------------
Init ==
  /\ client = FALSE
  /\ handler = FALSE
  /\ concurrency = 1
  /\ prefetch = Unset
  /\ reconnect = TRUE
  /\ built = NotBuilt
  /\ explicit = Unset

SetClient ==
  /\ client' = TRUE
  /\ UNCHANGED <<handler, concurrency, prefetch, reconnect, built, explicit>>

SetHandler ==
  /\ handler' = TRUE
  /\ UNCHANGED <<client, concurrency, prefetch, reconnect, built, explicit>>

M_SetConcurrencyAlways(n) ==
  /\ concurrency' = IF n = 0 THEN 1 ELSE n
  /\ prefetch' = concurrency'
  /\ UNCHANGED <<client, handler, reconnect, built, explicit>>

M_SetConcurrencyUnclamped(n) ==
  /\ concurrency' = n
  /\ prefetch' = IF prefetch = Unset THEN n ELSE prefetch
  /\ UNCHANGED <<client, handler, reconnect, built, explicit>>

(* It sets the prefetch too, the first time. *)
SetConcurrency(n) ==
  /\ concurrency' = IF n = 0 THEN 1 ELSE n
  /\ prefetch' = IF prefetch = Unset THEN concurrency' ELSE prefetch
  /\ UNCHANGED <<client, handler, reconnect, built, explicit>>

SetPrefetch(n) ==
  /\ prefetch' = n
  /\ explicit' = n
  /\ UNCHANGED <<client, handler, concurrency, reconnect, built>>

SetReconnect(enabled) ==
  /\ reconnect' = enabled
  /\ UNCHANGED <<client, handler, concurrency, prefetch, built, explicit>>

M_Build ==
  /\ built' = CASE ~client -> [is |-> "MissingClient"]
                [] client /\ ~handler -> [is |-> "MissingHandler"]
                [] OTHER -> Worker(IF prefetch = Unset THEN concurrency ELSE prefetch, concurrency,
                                   reconnect)
  /\ UNCHANGED <<client, handler, concurrency, prefetch, reconnect, explicit>>

Build ==
  /\ built' = CASE ~client -> [is |-> "MissingClient"]
                [] client /\ ~handler -> [is |-> "MissingHandler"]
                [] OTHER -> Worker(concurrency, IF prefetch = Unset THEN concurrency ELSE prefetch,
                                   reconnect)
  /\ UNCHANGED <<client, handler, concurrency, prefetch, reconnect, explicit>>

-----------------------------------------------------------------------------
(* build() consumes the builder. *)
Next ==
  /\ built = NotBuilt
  /\ \/ SetClient \/ SetHandler \/ Build
     \/ \E n \in Sizes : SetConcurrency(n) \/ SetPrefetch(n)
     \/ \E enabled \in BOOLEAN : SetReconnect(enabled)

Spec == Init /\ [][Next]_vars

-----------------------------------------------------------------------------
IsBuilt == built.is = "Worker"

TypeOK ==
  /\ client \in BOOLEAN
  /\ handler \in BOOLEAN
  /\ concurrency \in Sizes \cup {1}
  /\ prefetch \in Sizes \cup {1, Unset}
  /\ reconnect \in BOOLEAN
  /\ explicit \in Sizes \cup {Unset}
  /\ IsBuilt => built = Worker(concurrency, built.prefetch, reconnect)

(* A worker that was built meets what ZizqWorker assumes of one, unless    *)
(* its caller asked for a prefetch of 0.                                   *)
FitToRun ==
  IsBuilt /\ explicit # 0 => built.concurrency \in Nat \ {0} /\ built.prefetch \in Nat \ {0}

(* The caller's prefetch is the worker's, whenever concurrency() is called.*)
ExplicitPrefetchKept == IsBuilt /\ explicit # Unset => built.prefetch = explicit

(* The documentation of prefetch(): it "Defaults to the configured         *)
(* concurrency if not set explicitly".                                     *)
PrefetchFollowsConcurrency == IsBuilt /\ explicit = Unset => built.prefetch = built.concurrency
=============================================================================
