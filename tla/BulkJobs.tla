------------------------------- MODULE BulkJobs -------------------------------
(***************************************************************************)
(* The operations on every job a filter selects: count, list, delete,      *)
(* patch and the five of budget_jobs.rs.  A builder collects filters; what *)
(* it sends, and whether it sends anything, is decided when it is awaited. *)
(***************************************************************************)
EXTENDS Integers, FiniteSets, JobFilters

CONSTANTS
  BulkTable,      \* the jobs the server has: id -> row
  ListChoices,    \* [ListAxes -> sets of lists that callers give, as sets]
  RangeChoices,   \* [RangeAxes -> sets of ranges]
  JqChoices,      \* sets of ids, each for an expression true of those
  MaxFilters      \* bound: the axes one builder filters on

BulkOps ==
  {"count", "list", "delete", "patch", "bind", "rebind", "set_cost", "unbind", "clear"}

BudgetOps == {"bind", "rebind", "set_cost", "unbind", "clear"}

Axes == ListAxes \cup RangeAxes \cup {"jq"}

Ids == DOMAIN BulkTable

(* The ranges are ones callers can write; those of ready_at are of         *)
(* instants, in nanoseconds since 1970.                                    *)
Ends(axis) == IF axis = "ready_at" THEN 0 .. (MsLimit * NanosPerMs) - 1 ELSE Int

ASSUME BulkAssumption ==
  /\ BulkTable = [id \in Ids |-> BulkTable[id]]
  /\ \A id \in Ids, axis \in RangeAxes : BulkTable[id].values[axis] \in Int
  /\ \A axis \in RangeAxes : \A range \in RangeChoices[axis] :
       LET ends == {range[k] : k \in DOMAIN range \ {"is"}}
       IN ends \subseteq Ends(axis) /\ range \in Ranges(ends)

VARIABLES
  bulkOp,     \* the builder's operation, or "none" before and after
  filters,    \* its JobFilter
  hasPatch,   \* PatchJobsBuilder::patch is set
  named,      \* history: [Axes -> the ids the caller's last filter on it means]
  table,      \* the server's jobs
  reply       \* what awaiting the builder returned

bulkVars == <<bulkOp, filters, hasPatch, named, table, reply>>

(* A row has the values filters look at, the costs of its budgets by their *)
(* keys, and whether a patch has been applied to it.                       *)
Value(id, axis) ==
  IF axis = "budgets.key" THEN DOMAIN table[id].costs ELSE table[id].values[axis]

View(id) == [axis \in ListAxes \cup RangeAxes |-> Value(id, axis)]

(* The budget and the cost that the five operations on budgets are about.  *)
Key == "emails"
Cost == 2

-----------------------------------------------------------------------------
(* What the server makes of a request on the jobs it selects: the bindings *)
(* of queued jobs may change, and a patch may change all that have not yet *)
(* ended.                                                                  *)
Is(row, statuses) == row.values["status"] \cap statuses # {}

Queued == {"scheduled", "ready"}

MayChange(op, row) ==
  CASE op = "patch"      -> Is(row, Queued \cup {"in_flight"})
    [] op \in BudgetOps -> Is(row, Queued)
    [] OTHER             -> TRUE

Bound(row, cost) ==
  [row EXCEPT !.costs = [k \in DOMAIN @ \cup {Key} |-> IF k = Key THEN cost ELSE @[k]]]

Effect(op, row) ==
  CASE op = "patch"  -> [row EXCEPT !.patched = TRUE]
    [] op = "rebind" \/ (op = "bind" /\ Key \notin DOMAIN row.costs)
         \/ (op = "set_cost" /\ Key \in DOMAIN row.costs) -> Bound(row, Cost)
    [] op = "unbind" -> [row EXCEPT !.costs = [k \in DOMAIN @ \ {Key} |-> @[k]]]
    [] op = "clear"  -> [row EXCEPT !.costs = <<>>]
    [] OTHER         -> row

After(op, ids) ==
  [id \in IF op = "delete" THEN Ids \ ids ELSE Ids |->
     IF id \in ids /\ MayChange(op, table[id]) THEN Effect(op, table[id]) ELSE table[id]]

(* The jobs there is something to change in, of which those in flight are  *)
(* reported as blocked.  A job that a bind finds bound is in neither.      *)
Wanting(op, ids) == {id \in ids : Effect(op, table[id]) # table[id]}

Changed(op, ids) == {id \in Wanting(op, ids) : MayChange(op, table[id])}
Blocked(op, ids) == {id \in Wanting(op, ids) : Is(table[id], {"in_flight"})}

(* deleted, patched, count; the ids of a page; changed and blocked. *)
Answer(op, ids) ==
  CASE op = "list"       -> [is |-> "page", ids |-> ids]
    [] op \in BudgetOps -> [is |-> "change", changed |-> Cardinality(Changed(op, ids)),
                             blocked |-> Blocked(op, ids)]
    [] op = "patch"      -> [is |-> "number", of |-> Cardinality(Changed(op, ids))]
    [] OTHER             -> [is |-> "number", of |-> Cardinality(ids)]

-----------------------------------------------------------------------------
BulkInit ==
  /\ bulkOp = "none"
  /\ filters = NoFilter
  /\ hasPatch = FALSE
  /\ named = [a \in Axes |-> Ids]
  /\ table = BulkTable
  /\ reply = None

NewBuilder(op) ==
  /\ bulkOp = "none" /\ reply = None
  /\ bulkOp' = op
  /\ UNCHANGED <<filters, hasPatch, named, table, reply>>

Building == bulkOp # "none"

(* Bound: the axes filtered on.  A filter may be replaced all the same. *)
MayFilter(axis) ==
  /\ Building
  /\ Cardinality({a \in Axes : named[a] # Ids} \cup {axis}) <= MaxFilters

Means(axis, ids) ==
  /\ named' = [named EXCEPT ![axis] = ids]
  /\ UNCHANGED <<bulkOp, hasPatch, table, reply>>

JobsWith(axis, values) == {id \in Ids : Value(id, axis) \cap values # {}}

FilterByList(axis, values) ==
  /\ MayFilter(axis)
  /\ filters' = SetList(filters, axis, values)
  /\ Means(axis, JobsWith(axis, values))

(* The server keeps a ready_at in milliseconds: a job with v of them is    *)
(* meant by the instants of that millisecond.                              *)
NotBefore(axis, v, from) == IF axis = "ready_at" THEN from < (v + 1) * NanosPerMs ELSE from <= v
NotAfter(axis, v, to) == IF axis = "ready_at" THEN v * NanosPerMs <= to ELSE v <= to

Within(axis, v, range) ==
  /\ "from" \in DOMAIN range => NotBefore(axis, v, range.from)
  /\ "to" \in DOMAIN range => NotAfter(axis, v, range.to)

JobsWithin(axis, range) == {id \in Ids : Within(axis, Value(id, axis), range)}

FilterByRange(axis, range) ==
  /\ MayFilter(axis)
  /\ filters' = SetRange(filters, axis, range)
  /\ Means(axis, JobsWithin(axis, range))

FilterByJq(ids) ==
  /\ MayFilter("jq")
  /\ filters' = SetJq(filters, ids)
  /\ Means("jq", Ids \cap ids)

GivePatch ==
  /\ bulkOp = "patch"
  /\ hasPatch' = TRUE
  /\ UNCHANGED <<bulkOp, filters, named, table, reply>>

-----------------------------------------------------------------------------
Selected == {id \in Ids : Selects(Query(filters), id, View(id))}

Finish == bulkOp' = "none" /\ UNCHANGED <<filters, hasPatch, named>>

(* A missing patch is an error before anything else. *)
MissingPatch ==
  /\ bulkOp = "patch" /\ ~hasPatch
  /\ reply' = Some([is |-> "MissingPatch"])
  /\ UNCHANGED table
  /\ Finish

Complete == Building /\ ~(bulkOp = "patch" /\ ~hasPatch)

(* The answer to an operation on no job, without asking the server. *)
ShortCircuit ==
  /\ Complete
  /\ MatchesNothing(filters)
  /\ reply' = Some(CASE bulkOp = "list"      -> [is |-> "page", ids |-> {}]
                     [] bulkOp \in BudgetOps -> [is |-> "change", changed |-> 0, blocked |-> {}]
                     [] OTHER                -> [is |-> "number", of |-> 0])
  /\ UNCHANGED table
  /\ Finish

Request ==
  /\ Complete
  /\ ~MatchesNothing(filters)
  /\ reply' = Some(Answer(bulkOp, Selected))
  /\ table' = After(bulkOp, Selected)
  /\ Finish

Failed == [is |-> "Failed"]

(* The connection fails, the server refuses or its answer does not decode: *)
(* what was asked for has been done or it has not.                         *)
FailedRequest ==
  /\ Complete
  /\ ~MatchesNothing(filters)
  /\ reply' = Some(Failed)
  /\ table' \in {table, After(bulkOp, Selected)}
  /\ Finish

BulkNext ==
  \/ \E op \in BulkOps : NewBuilder(op)
  \/ \E axis \in ListAxes : \E values \in ListChoices[axis] : FilterByList(axis, values)
  \/ \E axis \in RangeAxes : \E range \in RangeChoices[axis] : FilterByRange(axis, range)
  \/ \E ids \in JqChoices : FilterByJq(ids)
  \/ GivePatch \/ MissingPatch \/ ShortCircuit \/ Request \/ FailedRequest

BulkSpec == BulkInit /\ [][BulkNext]_bulkVars

-----------------------------------------------------------------------------
(* The ids that the caller's filters, taken together, mean. *)
Meant == {id \in Ids : \A a \in Axes : id \in named[a]}

EmptyListGiven == \E axis \in ListAxes : filters.lists[axis] = Some({})

(* Awaiting a builder asks for its operation on exactly the jobs that      *)
(* every filter set on it means, whatever was set before: none if a list   *)
(* was empty, all if there was no filter.  Those of them that the          *)
(* operation may change are changed, and the answer is for them.  A call   *)
(* that fails has done all of that or nothing, and none fails that was     *)
(* about no job.  Without a patch, patch_all_jobs changes nothing.         *)
OnlyMeantJobs ==
  [][reply' # reply =>
       IF bulkOp = "patch" /\ ~hasPatch
       THEN table' = table /\ reply' = Some([is |-> "MissingPatch"])
       ELSE IF reply' = Some(Failed)
       THEN ~EmptyListGiven /\ table' \in {table, After(bulkOp, Meant)}
       ELSE table' = After(bulkOp, Meant) /\ reply' = Some(Answer(bulkOp, Meant))]_bulkVars
=============================================================================
