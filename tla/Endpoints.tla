------------------------------ MODULE Endpoints ------------------------------
(***************************************************************************)
(* The requests of client.rs that name what they are about: the method and *)
(* path each one becomes, the URL built on the configured base, what the   *)
(* server does at that path, and what the caller is told.                  *)
(***************************************************************************)
EXTENDS Integers, Sequences, SequencesExt, ClientCalls

CONSTANTS
  BaseUrls,           \* the path segments of the URLs a client is built with
  Names,              \* ids, names and keys: their parts, with a "/" between
  MaxEndpointCalls    \* bound

(* The url crate drops a segment "." or "..", and gives a URL with a host a *)
(* path of at least one segment.                                           *)
ASSUME NamesAssumption == \A n \in Names : n \notin {<<".">>, <<"..">>}
ASSUME BasesAssumption == \A url \in BaseUrls : url \in Seq({url[i] : i \in DOMAIN url}) /\ url # <<>>

VARIABLES
  base,    \* the path segments of Inner::base_url
  world,   \* what the server has, and what was done to it last
  asked,   \* the last call: operation and arguments
  told,    \* its result
  calls    \* counter

endpointVars == <<base, world, asked, told, calls>>

-----------------------------------------------------------------------------
(* A request, and the statuses its result is Ok for, if not any success    *)
(* with a body that decodes.                                               *)
Asks(method, path) == [method |-> method, path |-> path, ok |-> {}]
AsksBare(method, path, oks) == [method |-> method, path |-> path, ok |-> oks]

L(word) == <<word>>    \* a segment of the path that is not an argument

ReportRequests(n) ==
  [report_success      |-> AsksBare("POST", <<L("jobs"), n, L("success")>>, {204}),
   report_success_bulk |-> AsksBare("POST", <<L("jobs"), L("success")>>, {204, 422}),
   report_failure      |-> Asks("POST", <<L("jobs"), n, L("failure")>>)]

ServerRequests ==
  [health         |-> AsksBare("GET", <<L("health")>>, {200}),
   server_version |-> Asks("GET", <<L("version")>>),
   list_queues    |-> Asks("GET", <<L("queues")>>),
   reset          |-> AsksBare("POST", <<L("reset")>>, {204})]

(* pause_ and resume_ send patch_paused. *)
CronRequests(n) ==
  [list_crons       |-> Asks("GET", <<L("crons")>>),
   get_cron         |-> Asks("GET", <<L("crons"), n>>),
   replace_cron     |-> Asks("PUT", <<L("crons"), n>>),
   delete_cron      |-> AsksBare("DELETE", <<L("crons"), n>>, {204}),
   delete_all_crons |-> Asks("DELETE", <<L("crons")>>),
   pause_cron       |-> AsksBare("PATCH", <<L("crons"), n>>, {200}),
   resume_cron      |-> AsksBare("PATCH", <<L("crons"), n>>, {200})]

EntryRequests(n, k) ==
  LET entry == <<L("crons"), n, L("entries"), k>>
  IN [add_cron_entry    |-> Asks("POST", <<L("crons"), n, L("entries")>>),
      get_cron_entry    |-> Asks("GET", entry),
      put_cron_entry    |-> Asks("PUT", entry),
      delete_cron_entry |-> AsksBare("DELETE", entry, {204}),
      pause_cron_entry  |-> AsksBare("PATCH", entry, {200}),
      resume_cron_entry |-> AsksBare("PATCH", entry, {200})]

JobRequests(n) ==
  [get_job     |-> Asks("GET", <<L("jobs"), n>>),
   delete_job  |-> AsksBare("DELETE", <<L("jobs"), n>>, {204}),
   patch_job   |-> Asks("PATCH", <<L("jobs"), n>>),
   get_error   |-> Asks("GET", <<L("jobs"), n, L("errors"), L("1")>>),
   list_errors |-> Asks("GET", <<L("jobs"), n, L("errors")>>)]

BudgetRequests(n) ==
  [list_budgets  |-> Asks("GET", <<L("budgets")>>),
   get_budget    |-> Asks("GET", <<L("budgets"), n>>),
   create_budget |-> Asks("POST", <<L("budgets"), n>>),
   put_budget    |-> Asks("PUT", <<L("budgets"), n>>),
   update_budget |-> Asks("PATCH", <<L("budgets"), n>>),
   delete_budget |-> AsksBare("DELETE", <<L("budgets"), n>>, {204})]

BindingRequests(n, k) ==
  LET bindings == <<L("jobs"), n, L("budgets")>>
      binding == <<L("jobs"), n, L("budgets"), k>>
  IN [bind_budget        |-> Asks("POST", binding),
      rebind_budget      |-> Asks("PUT", binding),
      set_budget_cost    |-> Asks("PATCH", binding),
      unbind_budget      |-> Asks("DELETE", binding),
      unbind_all_budgets |-> Asks("DELETE", bindings),
      replace_budgets    |-> Asks("PUT", bindings)]

RequestOf(op, n, k) ==
  IF op \in DOMAIN ReportRequests(n) THEN ReportRequests(n)[op]
  ELSE IF op \in DOMAIN ServerRequests THEN ServerRequests[op]
  ELSE IF op \in DOMAIN CronRequests(n) THEN CronRequests(n)[op]
  ELSE IF op \in DOMAIN EntryRequests(n, k) THEN EntryRequests(n, k)[op]
  ELSE IF op \in DOMAIN JobRequests(n) THEN JobRequests(n)[op]
  ELSE IF op \in DOMAIN BudgetRequests(n) THEN BudgetRequests(n)[op]
  ELSE BindingRequests(n, k)[op]

(* The operations, which are the same whatever the arguments. *)
Ops ==
  UNION {DOMAIN ReportRequests(<<>>), DOMAIN ServerRequests, DOMAIN CronRequests(<<>>),
         DOMAIN EntryRequests(<<>>, <<>>), DOMAIN JobRequests(<<>>), DOMAIN BudgetRequests(<<>>),
         DOMAIN BindingRequests(<<>>, <<>>)}

-----------------------------------------------------------------------------
(* pop_if_empty *)
Prefix(url) == IF Last(url) = <<"">> THEN Front(url) ELSE url

M_Url(url, segments) == Prefix(url) \o [i \in DOMAIN FlattenSeq(segments) |-> <<FlattenSeq(segments)[i]>>]

(* extend escapes what is not a segment's: a name stays one, "/" or not. *)
Url(url, segments) == Prefix(url) \o segments

-----------------------------------------------------------------------------
(* The server keeps jobs with their bindings to budgets, groups of entries *)
(* and budgets: <<jobs, id>>, <<jobs, id, key>>, <<crons, name>>, and so   *)
(* on.  A path leads to one of them if its length is even, and else to all *)
(* that is directly below one.                                             *)
Target(p) ==
  CASE Len(p) = 3 -> <<p[1], p[2]>>
    [] Len(p) = 4 -> <<p[1], p[2], p[4]>>
    [] OTHER -> p

Beneath(o, k) == <<o[1], o[2], k>>

(* What a PUT or a POST is to make. *)
Made(p, k) == IF Len(p) % 2 = 0 THEN Target(p) ELSE Beneath(Target(p), k)

Below(o) == {x \in DOMAIN world : IsStrictPrefix(o, x)}

Removing(objects) == [x \in DOMAIN world \ objects |-> world[x]]
With(kept, objects, done) ==
  [x \in DOMAIN kept \cup objects |-> IF x \in objects THEN done ELSE kept[x]]

(* A report names one job in its path, or several in its body. *)
ReportsMany(method, p) == method = "POST" /\ p = <<L("jobs"), L("success")>>

Reports(p) == p[1] = L("jobs") /\ Len(p) < 4 /\ Last(p) \in {L("success"), L("failure")}

(* The last argument, or what the body names: an entry, a set of bindings. *)
Posted(p, k) ==
  IF p = <<L("reset")>> THEN <<>>
  ELSE IF Reports(p)
  THEN With(world, {IF Len(p) = 2 THEN <<p[1], k>> ELSE Target(p)} \cap DOMAIN world, "reported")
  ELSE With(world, {Made(p, k)}, "created")

Served(method, p, k) ==
  LET o == Target(p)
      item == Len(p) % 2 = 0
  IN CASE method = "DELETE" -> Removing(Below(o) \cup IF item THEN {o} ELSE {})
       [] method = "PUT" -> With(Removing(Below(o)), {Made(p, k)}, "replaced")
       [] method = "POST" -> Posted(p, k)
       [] method = "PATCH" -> With(world, {o} \cap DOMAIN world, "changed")
       [] OTHER -> world

Pages == {<<L(word)>> : word \in {"health", "version", "queues", "crons", "budgets", "reset"}}

(* What must be there for a request to be served, and what must not. *)
Found(method, p) ==
  \/ p \in Pages \/ ReportsMany(method, p)
  \/ /\ Len(p) > 1
     /\ LET o == Target(p)
            made == method \in {"PUT", "POST"} /\ Len(p) % 2 = 0
        IN IF made THEN Len(o) = 2 \/ Front(o) \in DOMAIN world ELSE o \in DOMAIN world

Clashes(method, p, k) ==
  /\ method = "POST"
  /\ LET o == Target(p)
     IN \/ Len(p) % 2 = 0 /\ p[1] # L("jobs") /\ o \in DOMAIN world
        \/ Len(p) = 4 /\ o \in DOMAIN world
        \/ Last(p) = L("entries") /\ Beneath(o, k) \in DOMAIN world

Status(request, k) ==
  IF ~Found(request.method, request.path) THEN 404
  ELSE IF Clashes(request.method, request.path, k) THEN 409
  ELSE IF ReportsMany(request.method, request.path) /\ <<L("jobs"), k>> \notin DOMAIN world THEN 422
  ELSE IF request.ok = {} THEN 200
  ELSE CHOOSE s \in request.ok : s < 300

Result(request, answer) ==
  IF request.ok = {} THEN Decoded(answer) ELSE Expected(answer, request.ok)

-----------------------------------------------------------------------------
InitialWorld(n, m, k) ==
  [o \in {<<L("jobs"), n>>, <<L("jobs"), m>>, <<L("jobs"), n, k>>, <<L("crons"), n>>, <<L("crons"), m>>,
          <<L("crons"), n, k>>, <<L("crons"), n, m>>, <<L("budgets"), k>>, <<L("budgets"), m>>} |-> "there"]

EndpointInit ==
  /\ base \in BaseUrls
  /\ \E n, m, k \in Names : n # m /\ m # k /\ n # k /\ world = InitialWorld(n, m, k)
  /\ asked = <<>>
  /\ told = OkResult
  /\ calls = 0

(* The server may fail before it acts, and what it answers may be lost.    *)
Call(op, n, k) ==
  /\ calls < MaxEndpointCalls
  /\ calls' = calls + 1
  /\ asked' = <<op, n, k>>
  /\ LET request == RequestOf(op, n, k)
         path == SubSeq(Url(base, request.path), Len(Prefix(base)) + 1, Len(Url(base, request.path)))
         status == Status([request EXCEPT !.path = path], k)
     IN \/ /\ world' = IF status \in {404, 409} THEN world ELSE Served(request.method, path, k)
           /\ told' \in {Result(request, [status |-> s, body |-> "good"]) : s \in {status, 0}}
        \/ /\ UNCHANGED world
           /\ told' \in {Result(request, [status |-> s, body |-> "good"]) : s \in {503, 0}}
  /\ UNCHANGED base

EndpointNext == \E op \in Ops, n, k \in Names : Call(op, n, k)

EndpointSpec == EndpointInit /\ [][EndpointNext]_endpointVars

-----------------------------------------------------------------------------
(* What the documentation of each method says it does. *)
AsDocumented(op, n, k) ==
  LET job == <<L("jobs"), n>>
      binding == <<L("jobs"), n, k>>
      group == <<L("crons"), n>>
      entry == <<L("crons"), n, k>>
      budget == <<L("budgets"), n>>
      Replaced(o) == With(Removing(Below(o)), {o}, "replaced")
      Change(o) == With(world, {o} \cap DOMAIN world, "changed")
  IN CASE op \in {"report_success", "report_failure"} -> With(world, {job} \cap DOMAIN world, "reported")
       [] op = "report_success_bulk" -> With(world, {<<L("jobs"), k>>} \cap DOMAIN world, "reported")
       [] op = "delete_job"         -> Removing({job} \cup Below(job))
       [] op = "unbind_budget"      -> Removing({binding})
       [] op = "unbind_all_budgets" -> Removing(Below(job))
       [] op = "delete_cron"        -> Removing({group} \cup Below(group))
       [] op = "delete_cron_entry"  -> Removing({entry})
       [] op = "delete_all_crons"   -> Removing({o \in DOMAIN world : o[1] = L("crons")})
       [] op = "delete_budget"      -> Removing({budget})
       [] op = "reset"              -> <<>>
       [] op = "replace_budgets"    -> With(Removing(Below(job)), {binding}, "replaced")
       [] op = "replace_cron"       -> Replaced(group)
       [] op = "put_cron_entry"     -> Replaced(entry)
       [] op = "put_budget"         -> Replaced(budget)
       [] op = "rebind_budget"      -> Replaced(binding)
       [] op = "bind_budget"        -> With(world, {binding}, "created")
       [] op = "add_cron_entry"     -> With(world, {entry}, "created")
       [] op = "create_budget"      -> With(world, {budget}, "created")
       [] op = "set_budget_cost"    -> Change(binding)
       [] op = "patch_job"          -> Change(job)
       [] op = "update_budget"      -> Change(budget)
       [] op \in {"pause_cron", "resume_cron"} -> Change(group)
       [] op \in {"pause_cron_entry", "resume_cron_entry"} -> Change(entry)
       [] OTHER -> world

(* Whatever the base URL and the names, a call does to the server's state  *)
(* what it says, to the object it names and no other, or nothing; it is Ok *)
(* only if it did, and refused only if it did nothing.                     *)
OnlyNamedObject ==
  [][calls' # calls =>
       LET meant == AsDocumented(asked'[1], asked'[2], asked'[3])
       IN /\ world' \in {world, meant}
          /\ told' = OkResult => world' = meant
          /\ told'.variant = "Response" => world' = world]_endpointVars
=============================================================================
