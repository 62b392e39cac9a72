------------------------------- MODULE Router -------------------------------
(***************************************************************************)
(* From a typed payload to a typed handler: how enqueue.rs writes the      *)
(* payload of a JobKind, the table of router.rs that finds the handler and *)
(* reads the payload back, and the failure that is reported when it cannot *)
(* be handled (worker.rs, failure.rs).                                     *)
(***************************************************************************)
EXTENDS Integers, Sequences, JobFilters

CONSTANTS
  PayloadKinds,   \* the kinds: [name, outer, leaf]
  Texts,          \* the data a payload with data can hold
  MaxRoutes,      \* bound: calls of route()
  MaxTyped        \* bound: jobs

(* A payload type is a unit struct, an empty tuple struct, an empty struct *)
(* or holds data; by itself, as the one field of a newtype, or of a struct *)
(* with named fields.  Only with data has it a size.                       *)
Leaves == {"unit", "tuple", "empty", "data"}
Outers == {"bare", "newtype", "field"}

ASSUME PayloadKindsAssumption == \A k \in PayloadKinds : k.outer \in Outers /\ k.leaf \in Leaves

VARIABLES
  routes,       \* Router::routes
  routed,       \* history: every registration, in order
  routerState,  \* Router::state: Some(state), or () of Router::new
  handling,     \* the router is built and the worker runs
  typed,        \* the server's jobs, with what was enqueued
  handled       \* what became of the jobs handled so far, by job

routerVars == <<routes, routed, routerState, handling, typed, handled>>

-----------------------------------------------------------------------------
(* JSON, as far as these types tell it apart. *)
Nil == [json |-> "null"]
NoItems == [json |-> "array"]
NoMembers == [json |-> "object"]
Text(v) == [json |-> "text", text |-> v]
Member(value) == [json |-> "member", of |-> value]

Unit == "()"
ValuesOf(kind) == IF kind.leaf = "data" THEN Texts ELSE {Unit}

(* serde_json writes a unit struct as null, rmp_serde as an empty array,   *)
(* unless ZstFixupSerializer intercepts it: it does so for the payload     *)
(* itself, never for what is inside.                                       *)
WriteUnit(format, fixup) == IF format = "Json" \/ fixup THEN Nil ELSE NoItems

WriteLeaf(kind, value, format, fixup) ==
  CASE kind.leaf = "unit"  -> WriteUnit(format, fixup)
    [] kind.leaf = "tuple" -> NoItems
    [] kind.leaf = "empty" -> NoMembers
    [] kind.leaf = "data"  -> Text(value)

M_WritePayload(kind, value, format) ==
  LET leaf == WriteLeaf(kind, value, format, FALSE)
  IN IF kind.outer = "field" THEN Member(leaf) ELSE leaf

WritePayload(kind, value, format) ==
  LET leaf == WriteLeaf(kind, value, format, kind.outer = "bare")
  IN IF kind.outer = "field" THEN Member(leaf) ELSE leaf

(* serde_json::from_value: the values of the type the payload reads as, at *)
(* most one.  A struct reads an array as well, and skips other members.    *)
ReadLeaf(leaf, payload) ==
  CASE leaf = "unit"  -> {Unit : p \in {payload} \cap {Nil}}
    [] leaf = "tuple" -> {Unit : p \in {payload} \cap {NoItems}}
    [] leaf = "empty" -> {Unit : p \in {q \in {payload} : q.json \in {"object", "member", "array"}}}
    [] leaf = "data"  -> {p.text : p \in {q \in {payload} : q.json = "text"}}

FromValue(kind, payload) ==
  IF kind.outer # "field" THEN ReadLeaf(kind.leaf, payload)
  ELSE IF payload.json = "member" THEN ReadLeaf(kind.leaf, payload.of)
  ELSE {}

(* Job::payload: a null is no payload. *)
Payload(json) == IF json = Nil THEN None ELSE Some(json)

-----------------------------------------------------------------------------
RouterInit ==
  /\ routes = <<>>
  /\ routed = <<>>
  /\ routerState \in OptionOf({"app"})
  /\ handling = FALSE
  /\ typed = <<>>
  /\ handled = <<>>

(* route(): a handler with or without the state, in place of any other for *)
(* a kind of this name.                                                    *)
Route(kind, stateful) ==
  LET handler == [kind |-> kind, stateful |-> stateful, nth |-> Len(routed) + 1]
  IN /\ ~handling /\ Len(routed) < MaxRoutes
     /\ routes' = [name \in DOMAIN routes \cup {kind.name} |->
                     IF name = kind.name THEN handler ELSE routes[name]]
     /\ routed' = Append(routed, handler)
     /\ UNCHANGED <<routerState, handling, typed, handled>>

RunRouter ==
  /\ ~handling
  /\ handling' = TRUE
  /\ UNCHANGED <<routes, routed, routerState, typed, handled>>

EnqueueTyped(kind, value, format) ==
  /\ handling /\ Len(typed) < MaxTyped
  /\ typed' = Append(typed, [type |-> kind.name, payload |-> Payload(WritePayload(kind, value, format)),
                             kind |-> Some(kind), value |-> value, format |-> format])
  /\ UNCHANGED <<routes, routed, routerState, handling, handled>>

(* A producer in another language. *)
EnqueueForeign(type, json) ==
  /\ handling /\ Len(typed) < MaxTyped
  /\ typed' = Append(typed, [type |-> type, payload |-> Payload(json), kind |-> None,
                             value |-> Unit, format |-> "Json"])
  /\ UNCHANGED <<routes, routed, routerState, handling, handled>>

-----------------------------------------------------------------------------
(* FailureBuilder: the last of retry_at and retry_in counts, kill stays.   *)
NewFailure == [error_type |-> None, retry_at |-> None, kill |-> FALSE]

FailureCalls ==
  [is : {"error_type", "retry_at"}, value : {"1", "2"}] \cup [is : {"kill"}]

FailureWith(failure, call) ==
  IF call.is = "kill" THEN [failure EXCEPT !.kill = TRUE] ELSE [failure EXCEPT ![call.is] = Some(call.value)]

Ran(handler, value) ==
  [handler |-> handler.nth, state |-> IF handler.stateful THEN routerState ELSE None, value |-> value]

(* The worker reports what the handler returned, or the router's error,    *)
(* with the name of the error's type.                                      *)
Becomes(i, called, failure, said) ==
  /\ handled' = [j \in DOMAIN handled \cup {i} |->
                   IF j = i THEN [called |-> called, failure |-> failure, said |-> said] ELSE handled[j]]
  /\ UNCHANGED <<routes, routed, routerState, handling, typed>>

Pending(i) == i \in DOMAIN typed /\ i \notin DOMAIN handled

Failing(type) == Some(FailureWith(NewFailure, [is |-> "error_type", value |-> type]))

(* handle: no route; a payload the route cannot read; a call, which        *)
(* succeeds or returns an error of the handler's own.                      *)
Handle(i) ==
  /\ Pending(i)
  /\ LET job == typed[i]
         payload == IF job.payload = None THEN Nil ELSE job.payload[1]
     IN IF job.type \notin DOMAIN routes THEN Becomes(i, None, Failing("NoRouteError"), <<>>)
        ELSE LET handler == routes[job.type]
                 read == FromValue(handler.kind, payload)
             IN IF read = {} THEN Becomes(i, None, Failing("PayloadDeserializeError"), <<>>)
                ELSE \E v \in read, failure \in {None, Failing("HandlerError")} :
                       Becomes(i, Some(Ran(handler, v)), failure, <<>>)

(* A consumer without a router reports what it likes. *)
ReportByHand(i, first, second) ==
  /\ Pending(i) /\ routed = <<>>
  /\ Becomes(i, None, Some(FailureWith(FailureWith(NewFailure, first), second)), <<first, second>>)

RouterNext ==
  \/ \E kind \in PayloadKinds, stateful \in BOOLEAN :
       (stateful => routerState # None) /\ Route(kind, stateful)
  \/ RunRouter
  \/ \E kind \in PayloadKinds, format \in {"Json", "MessagePack"} :
       \E value \in ValuesOf(kind) : EnqueueTyped(kind, value, format)
  \/ \E kind \in PayloadKinds, json \in {Nil, NoItems, NoMembers, Text("?"), Member(Nil)} :
       EnqueueForeign(kind.name, json)
  \/ \E i \in 1 .. MaxTyped :
       Handle(i) \/ \E first, second \in FailureCalls : ReportByHand(i, first, second)

RouterSpec == RouterInit /\ [][RouterNext]_routerVars

-----------------------------------------------------------------------------
(* A unit struct inside another type is not what the fixup reaches. *)
UnitInside(job) == job.format = "MessagePack" /\ job.kind[1].outer # "bare" /\ job.kind[1].leaf = "unit"

Matching(job) == {n \in DOMAIN routed : routed[n].kind.name = job.type}

LastMatch(job) == CHOOSE n \in Matching(job) : \A m \in Matching(job) : m <= n

FailedWith(failure) == IF failure = None THEN None ELSE failure[1].error_type

LastSaid(said, what) ==
  IF \E c \in DOMAIN said : said[c].is = what
  THEN Some(said[IF said[2].is = what THEN 2 ELSE 1].value)
  ELSE None

RightHandler(job, called) ==
  LET last == LastMatch(job)
  IN /\ called.handler = last
     /\ called.state = IF routed[last].stateful THEN routerState ELSE None
     /\ job.kind = Some(routed[last].kind) => called.value = job.value

RightlyRefused(job) ==
  LET kind == routed[LastMatch(job)].kind
  IN /\ Matching(job) # {}
     /\ job.kind = Some(kind) => UnitInside(job)
     /\ \A v \in ValuesOf(kind) : Payload(WritePayload(kind, v, "Json")) # job.payload

Outcome(job, called, failure, said) ==
  /\ called # None => RightHandler(job, called[1])
  /\ FailedWith(failure) = Some("NoRouteError") => Matching(job) = {}
  /\ FailedWith(failure) = Some("PayloadDeserializeError") => RightlyRefused(job)
  /\ said # <<>> =>
       failure[1] = [error_type |-> LastSaid(said, "error_type"), retry_at |-> LastSaid(said, "retry_at"),
                     kill |-> \E c \in DOMAIN said : said[c].is = "kill"]

(* A worker hands a job to the handler registered last for its type, with  *)
(* the router's state if it takes one and the very value that was enqueued *)
(* (whether as JSON or MessagePack, and however little it holds, but for a *)
(* unit struct inside another type), and reports NoRouteError only if      *)
(* there is no handler.  A payload is refused only if no value of the      *)
(* handler's type is written so.  A failure reported by hand says what the *)
(* last call about each thing said, and kills if any did.                  *)
HandlerGetsPayload ==
  [][\A i \in DOMAIN handled' \ DOMAIN handled :
       Outcome(typed[i], handled'[i].called, handled'[i].failure, handled'[i].said)]_routerVars
=============================================================================
