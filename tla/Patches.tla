------------------------------- MODULE Patches -------------------------------
(***************************************************************************)
(* Merge patches built setter by setter and sent: JobPatch and             *)
(* RetentionPatch of job_patch.rs, with patch_job, and BudgetPatch of      *)
(* budget.rs, with update_budget.  A field is kept, cleared or set.        *)
(***************************************************************************)
EXTENDS Integers, JobFilters

CONSTANTS
  PatchValues,    \* the values callers give to the fields
  MaxPatchCalls   \* bound: the setters called on one patch

ASSUME PatchAssumption == MaxPatchCalls \in Nat /\ "default" \notin PatchValues

VARIABLES
  patching,    \* "none", or what the patch under construction is for
  patch,       \* the JobPatch or BudgetPatch, its nested patches apart
  nested,      \* its field retention or strategy
  meant,       \* history: what the last call about each field said
  patchCalls,  \* the setters called so far
  settings,    \* what the server has
  outcome      \* of the last patch sent: "none", "ok", "refused" or "failed"

patchVars == <<patching, patch, nested, meant, patchCalls, settings, outcome>>

(* Field<T> *)
Keep  == [is |-> "Keep"]
Clear == [is |-> "Clear"]
Put(v) == [is |-> "Set", value |-> v]

FieldOf(S) == {Keep, Clear} \cup {Put(v) : v \in S}

(* What a setting nobody has set is at the server. *)
Default == "default"

JobFields == {"queue", "priority", "ready_at", "retry_limit", "backoff"}
RetentionFields == {"completed_ms", "dead_ms"}
StrategyFields == {"type", "duration_ms", "burst"}

Outer == [none |-> {}, job |-> JobFields, budget |-> {"allocation"}]
Inner == [none |-> {}, job |-> RetentionFields, budget |-> StrategyFields]

Fields(kind) == Outer[kind] \cup Inner[kind]

Untouched(fields) == [f \in fields |-> Keep]

Touch(said, changes) ==
  [f \in DOMAIN said |-> IF f \in DOMAIN changes THEN changes[f] ELSE said[f]]

-----------------------------------------------------------------------------
(* Serialisation leaves a kept field out and writes a cleared one as null, *)
(* and the server merges: what is left out stays, null resets.             *)
Wire(fields) ==
  [f \in {x \in DOMAIN fields : fields[x] # Keep} |->
     IF fields[f] = Clear THEN None ELSE Some(fields[f].value)]

Merged(record, wire) ==
  [f \in DOMAIN record |->
     IF f \notin DOMAIN wire THEN record[f]
     ELSE IF wire[f] = None THEN Default ELSE wire[f][1]]

NestedWire ==
  CASE nested = Keep  -> <<>>
    [] nested = Clear -> [f \in Inner[patching] |-> None]
    [] OTHER          -> Wire(nested.value)

(* A budget that counts the jobs in flight has no period and no burst: the *)
(* server drops the stored ones, and refuses a patch that sets one.        *)
TimedFields == {"duration_ms", "burst"}

Dropped(record) ==
  [f \in DOMAIN record |->
     IF f \in TimedFields /\ record.type = "while_in_flight" THEN Default ELSE record[f]]

AllMerged == Merged(Merged(settings, Wire(patch)), NestedWire)

Refused ==
  /\ patching = "budget" /\ AllMerged.type = "while_in_flight"
  /\ \E f \in TimedFields \cap DOMAIN NestedWire : NestedWire[f] # None

Patched == IF Refused THEN settings ELSE Dropped(AllMerged)

-----------------------------------------------------------------------------
PatchInit ==
  /\ patching = "none"
  /\ patch = <<>>
  /\ nested = Keep
  /\ meant = <<>>
  /\ patchCalls = 0
  /\ settings = <<>>
  /\ outcome = "none"

StrategyTypes == {"time_based", "while_in_flight", "sliding"}

(* The records that the server may have. *)
Stored(kind) ==
  LET values == PatchValues \cup {Default}
  IN IF kind = "job" THEN {[f \in Fields("job") |-> v] : v \in values}
     ELSE {Dropped([allocation |-> v, type |-> t, duration_ms |-> v, burst |-> v]) :
             v \in values, t \in StrategyTypes}

(* JobPatch::new or BudgetPatch::new, for a record the server has. *)
NewPatch(kind) ==
  /\ patching = "none"
  /\ patching' = kind
  /\ patch' = Untouched(Outer[kind])
  /\ nested' = Keep
  /\ meant' = Untouched(Fields(kind))
  /\ patchCalls' = 0
  /\ settings' \in Stored(kind)
  /\ outcome' = "none"

Calls(kind) ==
  /\ patching = kind
  /\ patchCalls < MaxPatchCalls
  /\ patchCalls' = patchCalls + 1
  /\ UNCHANGED <<patching, settings, outcome>>

(* The set, clear_ and keep_ methods of one field.  queue and priority     *)
(* have no clear_, allocation only the setter.                             *)
HasMethod(f, field) ==
  /\ f \in {"queue", "priority", "allocation"} => field # Clear
  /\ f = "allocation" => field # Keep

SetField(kind, f, field) ==
  /\ Calls(kind)
  /\ HasMethod(f, field)
  /\ patch' = [patch EXCEPT ![f] = field]
  /\ meant' = [meant EXCEPT ![f] = field]
  /\ UNCHANGED nested

(* retention, with a RetentionPatch of its own setters; clear_retention;   *)
(* keep_retention.                                                         *)
SetRetention(retention) ==
  /\ Calls("job")
  /\ nested' = retention
  /\ meant' = Touch(meant, IF retention.is = "Set" THEN retention.value
                           ELSE [f \in RetentionFields |-> retention])
  /\ UNCHANGED patch

RetentionPatches == [RetentionFields -> FieldOf(PatchValues)]

(* BudgetPatch::strategy replaces what duration, burst and clear_burst     *)
(* said before.                                                            *)
StrategyPatch(strategy) ==
  IF strategy.type = "time_based"
  THEN [type |-> Put("time_based"), duration_ms |-> Put(strategy.duration_ms),
        burst |-> IF strategy.burst = None THEN Clear ELSE Put(strategy.burst[1])]
  ELSE [type |-> Put(strategy.type), duration_ms |-> Keep, burst |-> Keep]

Strategies ==
  [type : {"time_based"}, duration_ms : PatchValues, burst : OptionOf(PatchValues)]
    \cup [type : {"while_in_flight", "sliding"}]

(* The strategy given is what is meant, with nothing of the one before:    *)
(* one that counts the jobs in flight has no period and no burst.          *)
Meaning(strategy) ==
  IF strategy.type = "while_in_flight"
  THEN [type |-> Put(strategy.type), duration_ms |-> Clear, burst |-> Clear]
  ELSE StrategyPatch(strategy)

SetStrategy(strategy) ==
  /\ Calls("budget")
  /\ nested' = Put(StrategyPatch(strategy))
  /\ meant' = Touch(meant, Meaning(strategy))
  /\ UNCHANGED patch

M_StrategyMut == Untouched(StrategyFields)

(* strategy_mut: the patch to write duration or burst into. *)
StrategyMut == IF nested = Keep THEN Untouched(StrategyFields) ELSE nested.value

SetInStrategy(f, field) ==
  /\ Calls("budget")
  /\ f = "duration_ms" => field.is = "Set"
  /\ nested' = Put([StrategyMut EXCEPT ![f] = field])
  /\ meant' = [meant EXCEPT ![f] = field]
  /\ UNCHANGED patch

(* PATCH /jobs/{id} or /budgets/{key} *)
Send ==
  /\ patching # "none"
  /\ patching' = "none"
  /\ UNCHANGED <<patch, nested, meant, patchCalls>>

SendPatch ==
  /\ Send
  /\ settings' = Patched
  /\ outcome' = IF Refused THEN "refused" ELSE "ok"

(* The connection fails, or the answer does not decode. *)
SendFails ==
  /\ Send
  /\ settings' \in {settings, Patched}
  /\ outcome' = "failed"

PatchNext ==
  \/ \E kind \in {"job", "budget"} :
       \/ NewPatch(kind)
       \/ \E f \in Outer[kind], v \in FieldOf(PatchValues) : SetField(kind, f, v)
  \/ \E r \in {Keep, Clear} \cup {Put(p) : p \in RetentionPatches} : SetRetention(r)
  \/ \E s \in Strategies : SetStrategy(s)
  \/ \E f \in {"duration_ms", "burst"}, v \in FieldOf(PatchValues) \ {Keep} : SetInStrategy(f, v)
  \/ SendPatch \/ SendFails

PatchSpec == PatchInit /\ [][PatchNext]_patchVars

-----------------------------------------------------------------------------
Wanted ==
  [f \in DOMAIN settings |->
     CASE meant[f] = Keep  -> settings[f]
       [] meant[f] = Clear -> Default
       [] OTHER            -> meant[f].value]

WantsTimed ==
  /\ patching = "budget" /\ Wanted.type = "while_in_flight"
  /\ \E f \in TimedFields : meant[f].is = "Set"

(* Whatever order the setters of a patch and of the patches nested in it   *)
(* are called in, the server changes the settings they touched last, as    *)
(* they said, and no other; a strategy leaves nothing of the one before.   *)
(* The patch is refused, and changes nothing, exactly if it asks for a     *)
(* period or a burst of a budget that counts the jobs in flight.  A call   *)
(* that fails has done all of it or nothing.                               *)
PatchDoesAsMeant ==
  [][patching # "none" /\ patching' = "none" =>
       IF WantsTimed
       THEN settings' = settings /\ outcome' \in {"refused", "failed"}
       ELSE \/ settings' = Wanted /\ outcome' \in {"ok", "failed"}
            \/ settings' = settings /\ outcome' = "failed"]_patchVars

(* StrategyPatch is built through the setters "so that the combinations    *)
(* the server rejects cannot be assembled" (budget.rs): none of them is a  *)
(* switch to while_in_flight with a period or a burst.                     *)
RejectedNotAssembled ==
  patching = "budget" /\ nested.is = "Set" =>
    ~ (nested.value.type = Put("while_in_flight") /\ \E f \in TimedFields : nested.value[f].is = "Set")
=============================================================================
