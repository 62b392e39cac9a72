------------------------------- MODULE MCClient -------------------------------
(***************************************************************************)
(* The parts of the client that build requests and read what comes back,   *)
(* checked together: a program uses one of them at a time.                 *)
(***************************************************************************)
EXTENDS WorkerBuilder, Patches, BulkJobs, BatchFolds, Endpoints, KindDerive, EnqueueRequests, Router

VARIABLE part    \* the part in use

Parts == {"worker", "patch", "bulk", "unique", "batch", "endpoint", "derive", "enqueue", "router"}

ClientInit ==
  /\ part \in Parts
  /\ Init /\ PatchInit /\ BulkInit /\ KeyInit /\ BatchInit /\ DeriveInit
  /\ IF part = "endpoint" THEN EndpointInit
     ELSE base = <<>> /\ world = <<>> /\ asked = <<>> /\ told = OkResult /\ calls = 0
  /\ EnqueueInit /\ (part # "enqueue" => cron = None)
  /\ RouterInit /\ (part # "router" => routerState = None)

ClientNext ==
  /\ UNCHANGED part
  /\ \/ /\ part = "worker" /\ Next
        /\ UNCHANGED <<patchVars, bulkVars, keyVars, batchVars, endpointVars, deriveVars, enqueueVars, routerVars>>
     \/ /\ part = "patch" /\ PatchNext
        /\ UNCHANGED <<vars, bulkVars, keyVars, batchVars, endpointVars, deriveVars, enqueueVars, routerVars>>
     \/ /\ part = "bulk" /\ BulkNext
        /\ UNCHANGED <<vars, patchVars, keyVars, batchVars, endpointVars, deriveVars, enqueueVars, routerVars>>
     \/ /\ part = "unique" /\ KeyNext
        /\ UNCHANGED <<vars, patchVars, bulkVars, batchVars, endpointVars, deriveVars, enqueueVars, routerVars>>
     \/ /\ part = "batch" /\ BatchNext
        /\ UNCHANGED <<vars, patchVars, bulkVars, keyVars, endpointVars, deriveVars, enqueueVars, routerVars>>
     \/ /\ part = "endpoint" /\ EndpointNext
        /\ UNCHANGED <<vars, patchVars, bulkVars, keyVars, batchVars, deriveVars, enqueueVars, routerVars>>
     \/ /\ part = "derive" /\ DeriveNext
        /\ UNCHANGED <<vars, patchVars, bulkVars, keyVars, batchVars, endpointVars, enqueueVars, routerVars>>
     \/ /\ part = "enqueue" /\ EnqueueNext
        /\ UNCHANGED <<vars, patchVars, bulkVars, keyVars, batchVars, endpointVars, deriveVars, routerVars>>
     \/ /\ part = "router" /\ RouterNext
        /\ UNCHANGED <<vars, patchVars, bulkVars, keyVars, batchVars, endpointVars, deriveVars, enqueueVars>>

clientVars == <<part, vars, patchVars, bulkVars, keyVars, batchVars, endpointVars, deriveVars,
                enqueueVars, routerVars>>

ClientSpec == ClientInit /\ [][ClientNext]_clientVars

-----------------------------------------------------------------------------
(* Jobs: one that every filter selects, and for every axis one that only a *)
(* filter on it leaves out.                                                *)
Typical ==
  [status |-> {"ready"}, queue |-> {"q"}, type |-> {"t"}, id |-> {"typical"},
   priority |-> 1, ready_at |-> 1, attempts |-> 1]

Row(values, key) == [values |-> values, costs |-> [k \in {key} |-> 1], patched |-> FALSE]

Differing == {"queue", "type", "priority", "ready_at", "attempts"}

MCBulkTable ==
  [j \in Differing |-> Row([Typical EXCEPT !.id = {j}, ![j] = IF j \in ListAxes THEN {"x"} ELSE 2], "emails")]
    @@ [s \in {"scheduled", "in_flight", "completed", "dead"} |->
          Row([Typical EXCEPT !.id = {s}, !.status = {s}], IF s = "dead" THEN "other" ELSE "emails")]
    @@ [typical |-> Row(Typical, "emails"), key |-> Row([Typical EXCEPT !.id = {"key"}], "other"),
        taken |-> Row([Typical EXCEPT !.id = {"taken"}, !.status = {"in_flight"}], "other")]

MCListChoices ==
  [status |-> {{}, {"ready"}, {"in_flight", "dead"}}, queue |-> {{}, {"q"}}, type |-> {{}, {"t"}},
   id |-> {{}, {"typical"}, {"typical", "queue"}}]
    @@ [a \in {"budgets.key"} |-> {{}, {"emails"}}]

(* Instants at both ends of a millisecond and inside it.                   *)
MCRangeChoices ==
  [a \in {"priority", "attempts"} |-> {Exact(1), AtLeast(2), AtMost(1), Bounded(1, 2), Unbounded}]
    @@ [ready_at |-> {Exact(1500000), AtLeast(1999999), AtMost(999999), Bounded(1500000, 2000000), Unbounded}]

-----------------------------------------------------------------------------
(* Payloads whose fields are in either order and of every shape, and keys  *)
(* with paths that are missing, nested, in an array or past its end.       *)
f1 == Field(1)
f2 == Field(2)
S0 == Scalar(0)
S1 == Scalar(1)

Inside ==
  {S0, S1, Null, Array(<<>>), Array(<<S0>>), Array(<<S0, S1>>), Array(<<S1, S0>>), Object(<<1>>, <<S0>>),
   Object(<<1>>, <<S1>>), Array(<<S1, Object(<<1>>, <<S0>>)>>)}

MCPayloads ==
  {Object(<<1>>, <<a>>) : a \in Inside} \cup {Object(<<1, 2>>, <<a, S0>>) : a \in Inside}
    \cup {Object(<<2, 1>>, <<S0, a>>) : a \in {S0, Array(<<S0, S1>>)}}
    \cup {Object(<<>>, <<>>), Null, Array(<<S0>>)}

Select1(selects, paths, prefix, scope) ==
  [selects |-> selects, paths |-> paths, prefix |-> prefix, scope |-> scope]

MCKeySpecs ==
  {Select1("all", <<>>, TRUE, None), Select1("all", <<>>, FALSE, Some("active")),
   Select1("only", <<<<f1>>>>, TRUE, Some("exists")), Select1("only", <<<<f1, Index(1)>>, <<f2>>>>, TRUE, None),
   Select1("only", <<<<f1, Index(1), f1>>, <<f1, Index(0)>>>>, TRUE, Some("queued")),
   Select1("only", <<<<f1, f1>>, <<f1>>>>, TRUE, None), Select1("only", <<<<f2>>, <<>>>>, TRUE, None),
   Select1("except", <<<<f1>>>>, TRUE, None), Select1("except", <<<<f1, Index(1)>>, <<f1, Index(0)>>>>, TRUE, None),
   Select1("except", <<<<f1, Index(0)>>, <<f2>>>>, FALSE, None),
   Select1("except", <<<<f2>>, <<f1, f1>>>>, TRUE, None), Select1("except", <<<<>>>>, TRUE, None),
   Select1("except", <<<<f1, Index(0)>>, <<f1, Index(1)>>>>, TRUE, None)}

BatchOf(path, limit, calls_, key) == [path |-> path, limit |-> limit, calls |-> calls_, key |-> key]

MCBatchSpecs ==
  {BatchOf(<<f1>>, 3, <<>>, Select1("all", <<>>, TRUE, None)),
   BatchOf(<<f1>>, 3, <<"dedup", "sorted">>, Select1("all", <<>>, FALSE, None)),
   BatchOf(<<f1>>, 2, <<"sorted">>, Select1("except", <<<<f2>>>>, TRUE, None)),
   BatchOf(<<f1>>, 4, <<"sorted", "dedup">>, Select1("only", <<<<f2>>>>, TRUE, None)),
   BatchOf(<<f1>>, 3, <<"sorted">>, Select1("only", <<<<>>>>, TRUE, None)),
   BatchOf(<<>>, 3, <<>>, Select1("all", <<>>, TRUE, None))}

MCBatchPayloads ==
  {Object(<<1, 2>>, <<Array(a), c>>) : a \in {<<S0>>, <<S1, S0>>}, c \in {S0, S1}}
    \cup {Object(<<2, 1>>, <<S1, Array(<<S1>>)>>), Object(<<2>>, <<S0>>), Object(<<1, 2>>, <<Null, S0>>),
               Object(<<1, 2>>, <<Array(<<Object(<<2>>, <<S0>>)>>), S0>>), Array(<<S0>>), Array(<<S1, S0>>)}

-----------------------------------------------------------------------------
(* Names: one with a "/", which must not lead to another object, and one   *)
(* that is a word of other paths; bases with and without a path and a      *)
(* slash at the end.                                                       *)
MCNames == {<<"a">>, <<"success">>, <<"a", "entries", "success">>}
MCBaseUrls == {<<<<"">>>>, <<<<"zizq">>, <<"">>>>, <<<<"zizq">>>>}

-----------------------------------------------------------------------------
(* Attributes of every key, right and wrong in the ways that one can be.   *)
A(k, v) == [key |-> k, value |-> v]
P1 == <<[is |-> "Field", name |-> 1]>>
P2 == <<[is |-> "Field", name |-> 2]>>

AtMost2(choices) == UNION {[1 .. m -> choices] : m \in 0 .. 2}

Backoffs ==
  {<<A(x, "1"), A(y, "2"), A(z, "3")>> : x, y, z \in BackoffFields}
    \cup {Bare, <<Nothing>>, <<A("base_ms", "1")>>, <<A("base_ms", "1"), A("exponent", "1"), A("jitter_ms", "1"), A("max", "1")>>}

Retentions == AtMost2({A("completed_ms", "1"), A("dead_ms", "1"), A("ms", "1")}) \cup {<<Nothing>>}

Uniques ==
  AtMost2({A("only", <<P1>>), A("except", <<P1, P2>>), A("except", <<<<Malformed>>>>), A("scope", "active"),
           A("scope", "never"), A("prefix", FALSE)})
    \cup {<<Nothing>>, <<A("scope", "queued"), A("prefix", TRUE), A("only", <<>>)>>,
          <<A("except", <<P2>>), A("scope", "exists"), A("prefix", FALSE)>>}

Batchings ==
  {<<A("limit", "1"), A("path", P1)>> \o s :
     s \in AtMost2({A("path", P2), A("dedup", Bare), A("sorted", Bare), A("key", Bare),
                    A("key", <<A("except", <<P2>>), A("prefix", FALSE)>>),
                    A("key", <<A("only", <<P1>>), A("except", <<P2>>)>>), A("key", <<A("scope", "active")>>)})}
    \cup {<<A("limit", "1"), A("path", P1), f>> :
             f \in {A("key", <<Nothing>>), A("key", <<A("prefix", TRUE)>>), A("dedup", <<A("x", Bare)>>),
                    A("sorted", <<Nothing>>)}}
    \cup {<<A("path", <<Malformed>>), A("limit", "1")>>, <<A("path", P1)>>, <<A("limit", "2"), A("sorted", Bare)>>}

Policies ==
  LET timed == A("time_based", <<A("duration_ms", "1")>>)
      counted == A("while_in_flight", Bare)
  IN {<<A("allocation", "1"), counted>>, <<timed, A("allocation", "1")>>,
      <<A("allocation", "1"), A("time_based", <<A("burst", "1"), A("duration_ms", "1")>>)>>,
      <<A("allocation", "1"), A("time_based", <<A("burst", "1")>>)>>, <<A("allocation", "1")>>, <<counted>>,
      <<A("allocation", "1"), counted, timed>>, <<A("allocation", "1"), A("while_in_flight", <<A("burst", "1")>>)>>,
      <<A("allocation", "1"), A("while_in_flight", <<Nothing>>)>>, <<A("allocation", "1"), A("time_based", <<Nothing>>)>>}

BudgetsWritten ==
  {<<A("key", "1")>>, <<A("key", "2")>>, <<A("cost", "1"), A("key", "2")>>, <<A("cost", "1")>>,
   <<A("key", "1"), A("key", "2")>>, Bare, <<Nothing>>} \cup {<<A("key", "1"), A("create_with", p)>> : p \in Policies}

MCAttributes ==
  {A(k, v) : k \in {"name", "priority"}, v \in {"1", "2"}}
    \cup {A("queue", "1"), A("retry_limit", "1"), A("color", "1")}
    \cup {A("backoff", v) : v \in Backoffs} \cup {A("retention", v) : v \in Retentions}
    \cup {A("unique", v) : v \in Uniques} \cup {A("batch", v) : v \in Batchings}
    \cup {A("budget", v) : v \in BudgetsWritten}

-----------------------------------------------------------------------------
(* Kinds without defaults, with all of them, and with a payload that does  *)
(* not encode.                                                             *)
NoDefaults == [f \in Settable |-> None]

MCJobKinds ==
  {[name |-> "plain", encodes |-> TRUE, defaults |-> [NoDefaults EXCEPT !.queue = Some("default")], budgets |-> <<>>],
   [name |-> "full", encodes |-> TRUE, budgets |-> <<"own">>,
    defaults |-> [f \in Settable |-> IF f = "ready_at" THEN None ELSE Some("own")]],
   [name |-> "broken", encodes |-> FALSE, defaults |-> NoDefaults, budgets |-> <<>>]}

MCFieldChoices ==
  [f \in Settable |-> IF f \in {"queue", "priority", "ready_at", "unique"} THEN {"1"} ELSE {}]

(* Payload types of every form, several of one name.                       *)
PK(name, outer, leaf) == [name |-> name, outer |-> outer, leaf |-> leaf]

MCPayloadKinds ==
  {PK("ping", "bare", "unit"), PK("ping", "newtype", "unit"), PK("ping", "field", "unit"),
   PK("ping", "bare", "tuple"), PK("mail", "bare", "empty"), PK("mail", "field", "data"),
   PK("mail", "newtype", "data"), PK("mail", "field", "empty")}
=============================================================================
