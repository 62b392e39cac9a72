----------------------------- MODULE JobFilters -----------------------------
(***************************************************************************)
(* The filters of job_filter.rs and range_filter.rs, which every operation *)
(* on many jobs shares: what the caller sets, the query it becomes, and    *)
(* the jobs the server selects by that query.                              *)
(***************************************************************************)
EXTENDS Integers

CONSTANT MsLimit    \* timestamps are of this many milliseconds: 2^64 in the code

ASSUME MsAssumption == MsLimit \in Nat \ {0}

(* Option<T>, as a sequence of at most one element. *)
None == <<>>
Some(v) == <<v>>

OptionOf(S) == {None} \cup {Some(v) : v \in S}

ListAxes == {"status", "queue", "type", "id", "budgets.key"}
RangeAxes == {"priority", "ready_at", "attempts"}

NoFilter ==
  [lists |-> [a \in ListAxes |-> None], ranges |-> [a \in RangeAxes |-> None], jq |-> None]

(* The setters: a list, a range or an expression replaces the one before. *)
SetList(f, axis, values) == [f EXCEPT !.lists[axis] = Some(values)]
SetRange(f, axis, range) == [f EXCEPT !.ranges[axis] = Some(range)]
SetJq(f, jobs) == [f EXCEPT !.jq = Some(jobs)]

-----------------------------------------------------------------------------
(* Ranges, and what the server reads from their encoding: a number alone   *)
(* is both ends, and an end left out is no bound.                          *)
Exact(v)      == [is |-> "Exact", from |-> v, to |-> v]
Bounded(a, b) == [is |-> "Bounded", from |-> a, to |-> b]
AtLeast(a)    == [is |-> "AtLeast", from |-> a]
AtMost(b)     == [is |-> "AtMost", to |-> b]
Unbounded     == [is |-> "Unbounded"]

Ranges(S) ==
  {Exact(v) : v \in S} \cup {Bounded(a, b) : a, b \in S}
    \cup {AtLeast(a) : a \in S} \cup {AtMost(b) : b \in S} \cup {Unbounded}

(* to_ms_epoch: the integer division truncates towards zero, and the cast  *)
(* wraps an instant before 1970.                                           *)
NanosPerMs == 1000000

ToMsEpoch(nanos) ==
  (IF nanos >= 0 THEN nanos \div NanosPerMs ELSE -((-nanos) \div NanosPerMs)) % MsLimit

Written(axis, v) == IF axis = "ready_at" THEN ToMsEpoch(v) ELSE v

(* RangeFilter::encode *)
Encode(axis, range) ==
  [from |-> IF "from" \in DOMAIN range THEN Some(Written(axis, range.from)) ELSE None,
   to   |-> IF "to" \in DOMAIN range THEN Some(Written(axis, range.to)) ELSE None]

InRange(v, encoded) ==
  /\ encoded.from # None => v >= encoded.from[1]
  /\ encoded.to # None => v <= encoded.to[1]

-----------------------------------------------------------------------------
M_MatchesNothing(f) == \A a \in ListAxes : f.lists[a] \in {None, Some({})}

(* The server reads a missing parameter as no filter, so that a list given *)
(* and empty cannot be sent.                                               *)
MatchesNothing(f) == \E a \in ListAxes : f.lists[a] = Some({})

IsPresent(list) == list \notin {None, Some({})}

(* has_params looks at what append_to will append. *)
HasParams(f) ==
  \/ \E a \in ListAxes : IsPresent(f.lists[a])
  \/ \E a \in RangeAxes : f.ranges[a] # None
  \/ f.jq # None

NoQuery == [lists |-> <<>>, ranges |-> <<>>, jq |-> None]

AppendTo(f) ==
  [lists  |-> [a \in {x \in ListAxes : IsPresent(f.lists[x])} |-> f.lists[a][1]],
   ranges |-> [a \in {x \in RangeAxes : f.ranges[x] # None} |-> Encode(a, f.ranges[a][1])],
   jq     |-> f.jq]

Query(f) == IF HasParams(f) THEN AppendTo(f) ELSE NoQuery

(* The jobs, each a function from the axes to its values, that the server  *)
(* selects.  An expression stands for the ids it is true of.               *)
Selects(query, id, job) ==
  /\ \A a \in DOMAIN query.lists : job[a] \cap query.lists[a] # {}
  /\ \A a \in DOMAIN query.ranges : InRange(job[a], query.ranges[a])
  /\ query.jq # None => id \in query.jq[1]
=============================================================================
