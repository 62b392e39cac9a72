--------------------------- MODULE EndpointsProofs ---------------------------
(***************************************************************************)
(* The proof that every request acts on the object its caller names and on *)
(* no other, for any base URL and any names.                               *)
(***************************************************************************)
EXTENDS Endpoints, SequenceTheorems, TLAPS

Words ==
  {"jobs", "crons", "budgets", "entries", "errors", "1", "success", "failure", "health", "version",
   "queues", "reset"}

Segment ==
  Names \cup {L(word) : word \in Words} \cup UNION {{url[i] : i \in DOMAIN url} : url \in BaseUrls}

(* What the server may keep: jobs, groups and budgets, and below the first *)
(* two, bindings and entries.                                              *)
IsObject(x) ==
  /\ x \in Seq(Segment) /\ Len(x) \in {2, 3}
  /\ Len(x) = 3 => x[1] \in {L("jobs"), L("crons")}

Keeps(objects) == \A x \in DOMAIN objects : IsObject(x)

EndpointIInv ==
  /\ base \in BaseUrls
  /\ Keeps(world)

(* Paths by their length, and what a call can do to an object. *)
P1(a) == <<a>>
P2(a, b) == <<a, b>>
P3(a, b, c) == <<a, b, c>>
P4(a, b, c, d) == <<a, b, c, d>>

Emptied(o) == Removing(Below(o))
Removed(o) == Removing(Below(o) \cup {o})
EmptiedFor(o, x) == With(Removing(Below(o)), {x}, "replaced")
Replaced(o) == EmptiedFor(o, o)
Changed(o) == With(world, {o} \cap DOMAIN world, "changed")
Reported(o) == With(world, {o} \cap DOMAIN world, "reported")
Created(o) == With(world, {o}, "created")

-----------------------------------------------------------------------------
(* The object that a path leads to. *)
LEMMA Targets ==
  /\ \A a : Target(P1(a)) = P1(a)
  /\ \A a, b : Target(P2(a, b)) = P2(a, b)
  /\ \A a, b, c : Target(P3(a, b, c)) = P2(a, b)
  /\ \A a, b, c, d : Target(P4(a, b, c, d)) = P3(a, b, d)
<1>1. ASSUME NEW a PROVE Target(P1(a)) = P1(a)
  BY DEF Target, P1
<1>2. ASSUME NEW a, NEW b PROVE Target(P2(a, b)) = P2(a, b)
  BY DEF Target, P2
<1>3. ASSUME NEW a, NEW b, NEW c PROVE Target(P3(a, b, c)) = P2(a, b)
  BY DEF Target, P2, P3
<1>4. ASSUME NEW a, NEW b, NEW c, NEW d PROVE Target(P4(a, b, c, d)) = P3(a, b, d)
  BY DEF Target, P3, P4
<1> QED BY <1>1, <1>2, <1>3, <1>4

LEMMA Lengths ==
  /\ \A a : Len(P1(a)) = 1 /\ Len(P1(a)) % 2 = 1
  /\ \A a, b : Len(P2(a, b)) = 2 /\ Len(P2(a, b)) % 2 = 0
  /\ \A a, b, c : Len(P3(a, b, c)) = 3 /\ Len(P3(a, b, c)) % 2 = 1
  /\ \A a, b, c, d : Len(P4(a, b, c, d)) = 4 /\ Len(P4(a, b, c, d)) % 2 = 0
  BY DEF P1, P2, P3, P4

LEMMA Firsts ==
  /\ \A a : P1(a)[1] = a
  /\ \A a, b : P2(a, b)[1] = a
  /\ \A a, b, c : P3(a, b, c)[1] = a
  /\ \A a, b, c, d : P4(a, b, c, d)[1] = a
  BY DEF P1, P2, P3, P4

LEMMA Lasts ==
  /\ \A a : Last(P1(a)) = a
  /\ \A a, b : Last(P2(a, b)) = b
  /\ \A a, b, c : Last(P3(a, b, c)) = c
  BY DEF P1, P2, P3, Last

LEMMA Distinct ==
  /\ L("jobs") # L("crons") /\ L("jobs") # L("budgets") /\ L("crons") # L("budgets")
  /\ L("jobs") # L("reset") /\ L("success") # L("reset") /\ L("entries") # L("success")
  /\ L("entries") # L("failure") /\ L("crons") # L("reset") /\ L("budgets") # L("reset")
  BY DEF L

LEMMA Segments ==
  /\ L("jobs") \in Segment /\ L("crons") \in Segment /\ L("budgets") \in Segment
  /\ L("entries") \in Segment /\ L("errors") \in Segment /\ L("1") \in Segment
  /\ L("success") \in Segment /\ L("failure") \in Segment /\ L("health") \in Segment
  /\ L("version") \in Segment /\ L("queues") \in Segment /\ L("reset") \in Segment
  /\ Names \subseteq Segment
  /\ \A url \in BaseUrls : url \in Seq(Segment) /\ url # <<>>
<1>1. \A word \in Words : L(word) \in Segment
  BY DEF Segment
<1>2. ASSUME NEW url \in BaseUrls PROVE url \in Seq(Segment) /\ url # <<>>
  <2>1. url \in Seq({url[i] : i \in DOMAIN url}) /\ url # <<>>
    BY BasesAssumption
  <2>2. \A i \in DOMAIN url : url[i] \in Segment
    BY DEF Segment
  <2> QED BY <2>1, <2>2
<1> QED BY <1>1, <1>2 DEF Words, Segment

LEMMA Paths ==
  /\ \A a \in Segment : P1(a) \in Seq(Segment)
  /\ \A a, b \in Segment : P2(a, b) \in Seq(Segment)
  /\ \A a, b, c \in Segment : P3(a, b, c) \in Seq(Segment)
  /\ \A a, b, c, d \in Segment : P4(a, b, c, d) \in Seq(Segment)
<1>1. \A a \in Segment : P1(a) \in Seq(Segment)
  BY DEF P1
<1>2. \A a, b \in Segment : P2(a, b) \in Seq(Segment)
  BY DEF P2
<1>3. \A a, b, c \in Segment : P3(a, b, c) \in Seq(Segment)
  BY DEF P3
<1>4. \A a, b, c, d \in Segment : P4(a, b, c, d) \in Seq(Segment)
  BY DEF P4
<1> QED BY <1>1, <1>2, <1>3, <1>4

(* The request of each operation. *)
LEMMA Operations ==
  ASSUME NEW n, NEW k
  PROVE  /\ DOMAIN ReportRequests(n) = {"report_success", "report_success_bulk", "report_failure"}
         /\ DOMAIN ServerRequests = {"health", "server_version", "list_queues", "reset"}
         /\ DOMAIN CronRequests(n) =
              {"list_crons", "get_cron", "replace_cron", "delete_cron", "delete_all_crons", "pause_cron",
               "resume_cron"}
         /\ DOMAIN EntryRequests(n, k) =
              {"add_cron_entry", "get_cron_entry", "put_cron_entry", "delete_cron_entry", "pause_cron_entry",
               "resume_cron_entry"}
         /\ DOMAIN JobRequests(n) = {"get_job", "delete_job", "patch_job", "get_error", "list_errors"}
         /\ DOMAIN BudgetRequests(n) =
              {"list_budgets", "get_budget", "create_budget", "put_budget", "update_budget", "delete_budget"}
         /\ DOMAIN BindingRequests(n, k) =
              {"bind_budget", "rebind_budget", "set_budget_cost", "unbind_budget", "unbind_all_budgets",
               "replace_budgets"}
  BY DEF ReportRequests, ServerRequests, CronRequests, EntryRequests, JobRequests, BudgetRequests, BindingRequests

LEMMA ReportCalls ==
  ASSUME NEW n, NEW k
  PROVE  /\ RequestOf("report_success", n, k) = AsksBare("POST", P3(L("jobs"), n, L("success")), {204})
         /\ RequestOf("report_success_bulk", n, k) = AsksBare("POST", P2(L("jobs"), L("success")), {204, 422})
         /\ RequestOf("report_failure", n, k) = Asks("POST", P3(L("jobs"), n, L("failure")))
  BY Operations DEF RequestOf, ReportRequests, P1, P2, P3, P4

LEMMA ServerCalls ==
  ASSUME NEW n, NEW k
  PROVE  /\ RequestOf("health", n, k) = AsksBare("GET", P1(L("health")), {200})
         /\ RequestOf("server_version", n, k) = Asks("GET", P1(L("version")))
         /\ RequestOf("list_queues", n, k) = Asks("GET", P1(L("queues")))
         /\ RequestOf("reset", n, k) = AsksBare("POST", P1(L("reset")), {204})
  BY Operations DEF RequestOf, ServerRequests, P1, P2, P3, P4

LEMMA CronCalls ==
  ASSUME NEW n, NEW k
  PROVE  /\ RequestOf("list_crons", n, k) = Asks("GET", P1(L("crons")))
         /\ RequestOf("get_cron", n, k) = Asks("GET", P2(L("crons"), n))
         /\ RequestOf("replace_cron", n, k) = Asks("PUT", P2(L("crons"), n))
         /\ RequestOf("delete_cron", n, k) = AsksBare("DELETE", P2(L("crons"), n), {204})
         /\ RequestOf("delete_all_crons", n, k) = Asks("DELETE", P1(L("crons")))
         /\ RequestOf("pause_cron", n, k) = AsksBare("PATCH", P2(L("crons"), n), {200})
         /\ RequestOf("resume_cron", n, k) = AsksBare("PATCH", P2(L("crons"), n), {200})
  BY Operations DEF RequestOf, CronRequests, P1, P2, P3, P4

LEMMA EntryCalls ==
  ASSUME NEW n, NEW k
  PROVE  /\ RequestOf("add_cron_entry", n, k) = Asks("POST", P3(L("crons"), n, L("entries")))
         /\ RequestOf("get_cron_entry", n, k) = Asks("GET", P4(L("crons"), n, L("entries"), k))
         /\ RequestOf("put_cron_entry", n, k) = Asks("PUT", P4(L("crons"), n, L("entries"), k))
         /\ RequestOf("delete_cron_entry", n, k) = AsksBare("DELETE", P4(L("crons"), n, L("entries"), k), {204})
         /\ RequestOf("pause_cron_entry", n, k) = AsksBare("PATCH", P4(L("crons"), n, L("entries"), k), {200})
         /\ RequestOf("resume_cron_entry", n, k) = AsksBare("PATCH", P4(L("crons"), n, L("entries"), k), {200})
  BY Operations DEF RequestOf, EntryRequests, P1, P2, P3, P4

LEMMA JobCalls ==
  ASSUME NEW n, NEW k
  PROVE  /\ RequestOf("get_job", n, k) = Asks("GET", P2(L("jobs"), n))
         /\ RequestOf("delete_job", n, k) = AsksBare("DELETE", P2(L("jobs"), n), {204})
         /\ RequestOf("patch_job", n, k) = Asks("PATCH", P2(L("jobs"), n))
         /\ RequestOf("get_error", n, k) = Asks("GET", P4(L("jobs"), n, L("errors"), L("1")))
         /\ RequestOf("list_errors", n, k) = Asks("GET", P3(L("jobs"), n, L("errors")))
  BY Operations DEF RequestOf, JobRequests, P1, P2, P3, P4

LEMMA BudgetCalls ==
  ASSUME NEW n, NEW k
  PROVE  /\ RequestOf("list_budgets", n, k) = Asks("GET", P1(L("budgets")))
         /\ RequestOf("get_budget", n, k) = Asks("GET", P2(L("budgets"), n))
         /\ RequestOf("create_budget", n, k) = Asks("POST", P2(L("budgets"), n))
         /\ RequestOf("put_budget", n, k) = Asks("PUT", P2(L("budgets"), n))
         /\ RequestOf("update_budget", n, k) = Asks("PATCH", P2(L("budgets"), n))
         /\ RequestOf("delete_budget", n, k) = AsksBare("DELETE", P2(L("budgets"), n), {204})
  BY Operations DEF RequestOf, BudgetRequests, P1, P2, P3, P4

LEMMA BindingCalls ==
  ASSUME NEW n, NEW k
  PROVE  /\ RequestOf("bind_budget", n, k) = Asks("POST", P4(L("jobs"), n, L("budgets"), k))
         /\ RequestOf("rebind_budget", n, k) = Asks("PUT", P4(L("jobs"), n, L("budgets"), k))
         /\ RequestOf("set_budget_cost", n, k) = Asks("PATCH", P4(L("jobs"), n, L("budgets"), k))
         /\ RequestOf("unbind_budget", n, k) = Asks("DELETE", P4(L("jobs"), n, L("budgets"), k))
         /\ RequestOf("unbind_all_budgets", n, k) = Asks("DELETE", P3(L("jobs"), n, L("budgets")))
         /\ RequestOf("replace_budgets", n, k) = Asks("PUT", P3(L("jobs"), n, L("budgets")))
  BY Operations DEF RequestOf, BindingRequests, P1, P2, P3, P4

-----------------------------------------------------------------------------
(* There is nothing below a budget, a binding or an entry. *)
LEMMA NothingBelow ==
  ASSUME EndpointIInv
  PROVE  /\ \A a, b, c : Below(P3(a, b, c)) = {}
         /\ \A b : Below(P2(L("budgets"), b)) = {}
<1>1. ASSUME NEW a, NEW b, NEW c, NEW x \in DOMAIN world, IsStrictPrefix(<<a, b, c>>, x) PROVE FALSE
  <2>1. x \in Seq(Segment) /\ Len(x) \in {2, 3}
    BY DEF EndpointIInv, Keeps, IsObject
  <2>2. Len(x) = 3 /\ <<a, b, c>> = SubSeq(x, 1, 3)
    BY <1>1, <2>1 DEF IsStrictPrefix, IsPrefix
  <2>3. x = SubSeq(x, 1, 3)
    BY <2>1, <2>2
  <2> QED BY <1>1, <2>2, <2>3 DEF IsStrictPrefix
<1>2. ASSUME NEW b, NEW x \in DOMAIN world, IsStrictPrefix(<<L("budgets"), b>>, x) PROVE FALSE
  <2>1. x \in Seq(Segment) /\ Len(x) \in {2, 3} /\ (Len(x) = 3 => x[1] \in {L("jobs"), L("crons")})
    BY DEF EndpointIInv, Keeps, IsObject
  <2>2. <<L("budgets"), b>> = SubSeq(x, 1, 2)
    BY <1>2, <2>1 DEF IsStrictPrefix, IsPrefix
  <2>3. x[1] = L("budgets")
    BY <2>1, <2>2
  <2>4. Len(x) = 2
    BY <2>1, <2>3, Distinct
  <2>5. x = SubSeq(x, 1, 2)
    BY <2>1, <2>4
  <2> QED BY <1>2, <2>2, <2>5 DEF IsStrictPrefix
<1> QED BY <1>1, <1>2 DEF Below, P2, P3

(* Below "crons" are all groups and their entries. *)
LEMMA BelowCrons ==
  ASSUME EndpointIInv
  PROVE  Below(P1(L("crons"))) = {x \in DOMAIN world : x[1] = L("crons")}
<1>1. ASSUME NEW x \in DOMAIN world PROVE IsStrictPrefix(<<L("crons")>>, x) <=> x[1] = L("crons")
  <2>1. x \in Seq(Segment) /\ Len(x) \in {2, 3}
    BY DEF EndpointIInv, Keeps, IsObject
  <2> DEFINE c == <<L("crons")>>
             s == SubSeq(x, 1, 1)
  <2>2. c \in Seq(Segment) /\ Len(c) = 1 /\ c[1] = L("crons")
    BY Segments
  <2>3. s \in Seq(Segment) /\ Len(s) = 1 /\ s[1] = x[1]
    BY <2>1
  <2> HIDE DEF c, s
  <2>4. c = s <=> x[1] = L("crons")
    BY <2>2, <2>3
  <2>5. SubSeq(c, 1, 1) = c
    BY <2>2
  <2>6. IsStrictPrefix(c, x) <=> c = s
    BY <2>1, <2>2, <2>5 DEF IsStrictPrefix, IsPrefix, s
  <2> QED BY <2>4, <2>6 DEF c
<1> QED BY <1>1 DEF Below, P1

(* What each method does at a path of one to four segments. *)
LEMMA ServedGet == \A p, k : Served("GET", p, k) = world
  BY DEF Served

LEMMA ServedDelete ==
  /\ \A a, k : Served("DELETE", P1(a), k) = Emptied(P1(a))
  /\ \A a, b, k : Served("DELETE", P2(a, b), k) = Removed(P2(a, b))
  /\ \A a, b, c, k : Served("DELETE", P3(a, b, c), k) = Emptied(P2(a, b))
  /\ \A a, b, c, d, k : Served("DELETE", P4(a, b, c, d), k) = Removed(P3(a, b, d))
<1>1. ASSUME NEW p, NEW o, NEW k, Target(p) = o, Len(p) % 2 = 0 PROVE Served("DELETE", p, k) = Removed(o)
  BY <1>1 DEF Served, Removed
<1>2. ASSUME NEW p, NEW o, NEW k, Target(p) = o, Len(p) % 2 = 1 PROVE Served("DELETE", p, k) = Emptied(o)
  <2> DEFINE gone == Below(o) \cup IF Len(p) % 2 = 0 THEN {o} ELSE {}
  <2>1. Served("DELETE", p, k) = Removing(gone)
    BY <1>2 DEF Served
  <2>2. gone = Below(o)
    BY <1>2
  <2> HIDE DEF gone
  <2> QED BY <2>1, <2>2 DEF Emptied
<1> QED BY <1>1, <1>2, Targets, Lengths

(* What a PUT or a POST there makes. *)
LEMMA MadeAt ==
  /\ \A a, b, k : Made(P2(a, b), k) = P2(a, b)
  /\ \A a, b, c, k : Made(P3(a, b, c), k) = P3(a, b, k)
  /\ \A a, b, c, d, k : Made(P4(a, b, c, d), k) = P3(a, b, d)
<1>1. \A a, b, k : Beneath(P2(a, b), k) = P3(a, b, k)
  BY DEF Beneath, P2, P3
<1> QED BY <1>1, Targets, Lengths DEF Made

LEMMA ServedPut ==
  /\ \A a, b, k : Served("PUT", P2(a, b), k) = Replaced(P2(a, b))
  /\ \A a, b, c, k : Served("PUT", P3(a, b, c), k) = EmptiedFor(P2(a, b), P3(a, b, k))
  /\ \A a, b, c, d, k : Served("PUT", P4(a, b, c, d), k) = Replaced(P3(a, b, d))
<1>1. ASSUME NEW p, NEW k PROVE Served("PUT", p, k) = EmptiedFor(Target(p), Made(p, k))
  BY DEF Served, EmptiedFor
<1> QED BY <1>1, Targets, MadeAt DEF Replaced

LEMMA ServedPatch ==
  /\ \A a, b, k : Served("PATCH", P2(a, b), k) = Changed(P2(a, b))
  /\ \A a, b, c, d, k : Served("PATCH", P4(a, b, c, d), k) = Changed(P3(a, b, d))
<1>1. \A p, k : Served("PATCH", p, k) = Changed(Target(p))
  BY DEF Served, Changed
<1> QED BY <1>1, Targets

LEMMA ServedReport ==
  ASSUME NEW n, NEW k
  PROVE  /\ Served("POST", P3(L("jobs"), n, L("success")), k) = Reported(P2(L("jobs"), n))
         /\ Served("POST", P3(L("jobs"), n, L("failure")), k) = Reported(P2(L("jobs"), n))
         /\ Served("POST", P2(L("jobs"), L("success")), k) = Reported(P2(L("jobs"), k))
<1>1. ASSUME NEW p PROVE Served("POST", p, k) = Posted(p, k)
  BY DEF Served
<1>2. ASSUME NEW p, p # <<L("reset")>>, Reports(p), Len(p) = 3 PROVE Posted(p, k) = Reported(Target(p))
  BY <1>2 DEF Posted, Reported
<1>3. ASSUME NEW p, p # <<L("reset")>>, Reports(p), Len(p) = 2
      PROVE  Posted(p, k) = With(world, {<<p[1], k>>} \cap DOMAIN world, "reported")
  BY <1>3 DEF Posted
<1>4. ASSUME NEW word \in {L("success"), L("failure")}
      PROVE  Posted(P3(L("jobs"), n, word), k) = Reported(P2(L("jobs"), n))
  <2> DEFINE p == P3(L("jobs"), n, word)
  <2>1. Len(p) = 3 /\ p[1] = L("jobs") /\ Last(p) = word /\ Target(p) = P2(L("jobs"), n)
    BY Lengths, Firsts, Lasts, Targets
  <2>2. p # <<L("reset")>>
    BY DEF P3
  <2> HIDE DEF p
  <2>3. Reports(p)
    BY <2>1 DEF Reports
  <2>4. Posted(p, k) = Reported(Target(p))
    BY <1>2, <2>1, <2>2, <2>3
  <2> QED BY <2>1, <2>4 DEF p
<1>5. Posted(P2(L("jobs"), L("success")), k) = Reported(P2(L("jobs"), k))
  <2> DEFINE p == P2(L("jobs"), L("success"))
  <2>1. Len(p) = 2 /\ p[1] = L("jobs") /\ Last(p) = L("success")
    BY Lengths, Firsts, Lasts
  <2>2. p # <<L("reset")>>
    BY DEF P2
  <2> HIDE DEF p
  <2>3. Reports(p)
    BY <2>1 DEF Reports
  <2>4. Posted(p, k) = With(world, {<<p[1], k>>} \cap DOMAIN world, "reported")
    BY <1>3, <2>1, <2>2, <2>3
  <2> QED BY <2>1, <2>4 DEF p, Reported, P2
<1> QED BY <1>1, <1>4, <1>5

LEMMA ServedPost ==
  ASSUME NEW n, NEW k
  PROVE  /\ Served("POST", P1(L("reset")), k) = <<>>
         /\ Served("POST", P4(L("jobs"), n, L("budgets"), k), k) = Created(P3(L("jobs"), n, k))
         /\ Served("POST", P3(L("crons"), n, L("entries")), k) = Created(P3(L("crons"), n, k))
         /\ Served("POST", P2(L("budgets"), n), k) = Created(P2(L("budgets"), n))
<1>1. ASSUME NEW p PROVE Served("POST", p, k) = Posted(p, k)
  BY DEF Served
<1>2. Posted(P1(L("reset")), k) = <<>>
  BY DEF Posted, P1
<1>3. ASSUME NEW p, p # <<L("reset")>>, ~Reports(p) PROVE Posted(p, k) = Created(Made(p, k))
  BY <1>3 DEF Posted, Created
<1>4. ~Reports(P4(L("jobs"), n, L("budgets"), k))
  <2>1. Len(P4(L("jobs"), n, L("budgets"), k)) = 4
    BY Lengths
  <2> QED BY <2>1 DEF Reports
<1>5. ~Reports(P3(L("crons"), n, L("entries"))) /\ ~Reports(P2(L("budgets"), n))
  BY Firsts, Distinct DEF Reports
<1>6. /\ P4(L("jobs"), n, L("budgets"), k) # <<L("reset")>>
      /\ P3(L("crons"), n, L("entries")) # <<L("reset")>> /\ P2(L("budgets"), n) # <<L("reset")>>
  BY DEF P2, P3, P4
<1>7. Posted(P4(L("jobs"), n, L("budgets"), k), k) = Created(P3(L("jobs"), n, k))
  BY <1>3, <1>4, <1>6, MadeAt
<1>8. Posted(P3(L("crons"), n, L("entries")), k) = Created(P3(L("crons"), n, k))
  BY <1>3, <1>5, <1>6, MadeAt
<1>9. Posted(P2(L("budgets"), n), k) = Created(P2(L("budgets"), n))
  BY <1>3, <1>5, <1>6, MadeAt
<1> QED BY <1>1, <1>2, <1>7, <1>8, <1>9

-----------------------------------------------------------------------------
(* What the documentation promises of each call. *)
LEMMA ReportDocumented ==
  ASSUME NEW n, NEW k
  PROVE  /\ AsDocumented("report_success", n, k) = Reported(P2(L("jobs"), n))
         /\ AsDocumented("report_success_bulk", n, k) = Reported(P2(L("jobs"), k))
         /\ AsDocumented("report_failure", n, k) = Reported(P2(L("jobs"), n))
<1>1. AsDocumented("report_success", n, k) = Reported(P2(L("jobs"), n))
  BY DEF AsDocumented, Reported, P2
<1>2. AsDocumented("report_success_bulk", n, k) = Reported(P2(L("jobs"), k))
  BY DEF AsDocumented, Reported, P2
<1>3. AsDocumented("report_failure", n, k) = Reported(P2(L("jobs"), n))
  BY DEF AsDocumented, Reported, P2
<1> QED BY <1>1, <1>2, <1>3

LEMMA ServerDocumented ==
  ASSUME NEW n, NEW k
  PROVE  /\ AsDocumented("health", n, k) = world
         /\ AsDocumented("server_version", n, k) = world
         /\ AsDocumented("list_queues", n, k) = world
         /\ AsDocumented("reset", n, k) = <<>>
<1>1. AsDocumented("health", n, k) = world
  BY DEF AsDocumented
<1>2. AsDocumented("server_version", n, k) = world
  BY DEF AsDocumented
<1>3. AsDocumented("list_queues", n, k) = world
  BY DEF AsDocumented
<1>4. AsDocumented("reset", n, k) = <<>>
  BY DEF AsDocumented
<1> QED BY <1>1, <1>2, <1>3, <1>4

LEMMA CronDocumented ==
  ASSUME EndpointIInv, NEW n, NEW k
  PROVE  /\ AsDocumented("list_crons", n, k) = world
         /\ AsDocumented("get_cron", n, k) = world
         /\ AsDocumented("replace_cron", n, k) = Replaced(P2(L("crons"), n))
         /\ AsDocumented("delete_cron", n, k) = Removed(P2(L("crons"), n))
         /\ AsDocumented("delete_all_crons", n, k) = Emptied(P1(L("crons")))
         /\ AsDocumented("pause_cron", n, k) = Changed(P2(L("crons"), n))
         /\ AsDocumented("resume_cron", n, k) = Changed(P2(L("crons"), n))
<1>1. AsDocumented("list_crons", n, k) = world
  BY DEF AsDocumented
<1>2. AsDocumented("get_cron", n, k) = world
  BY DEF AsDocumented
<1>3. AsDocumented("replace_cron", n, k) = Replaced(P2(L("crons"), n))
  BY DEF AsDocumented, EmptiedFor, Replaced, P2
<1>4. AsDocumented("delete_cron", n, k) = Removed(P2(L("crons"), n))
  <2>1. AsDocumented("delete_cron", n, k) = Removing({P2(L("crons"), n)} \cup Below(P2(L("crons"), n)))
    BY DEF AsDocumented, P2
  <2>2. {P2(L("crons"), n)} \cup Below(P2(L("crons"), n)) = Below(P2(L("crons"), n)) \cup {P2(L("crons"), n)}
    OBVIOUS
  <2> QED BY <2>1, <2>2 DEF Removed
<1>5. AsDocumented("delete_all_crons", n, k) = Emptied(P1(L("crons")))
  <2>1. AsDocumented("delete_all_crons", n, k) = Removing({o \in DOMAIN world : o[1] = L("crons")})
    BY DEF AsDocumented
  <2> QED BY <2>1, BelowCrons DEF Emptied
<1>6. AsDocumented("pause_cron", n, k) = Changed(P2(L("crons"), n))
  BY DEF AsDocumented, Changed, P2
<1>7. AsDocumented("resume_cron", n, k) = Changed(P2(L("crons"), n))
  BY DEF AsDocumented, Changed, P2
<1> QED BY <1>1, <1>2, <1>3, <1>4, <1>5, <1>6, <1>7

LEMMA EntryDocumented ==
  ASSUME EndpointIInv, NEW n, NEW k
  PROVE  /\ AsDocumented("add_cron_entry", n, k) = Created(P3(L("crons"), n, k))
         /\ AsDocumented("get_cron_entry", n, k) = world
         /\ AsDocumented("put_cron_entry", n, k) = Replaced(P3(L("crons"), n, k))
         /\ AsDocumented("delete_cron_entry", n, k) = Removed(P3(L("crons"), n, k))
         /\ AsDocumented("pause_cron_entry", n, k) = Changed(P3(L("crons"), n, k))
         /\ AsDocumented("resume_cron_entry", n, k) = Changed(P3(L("crons"), n, k))
<1>1. AsDocumented("add_cron_entry", n, k) = Created(P3(L("crons"), n, k))
  BY DEF AsDocumented, Created, P3
<1>2. AsDocumented("get_cron_entry", n, k) = world
  BY DEF AsDocumented
<1>3. AsDocumented("put_cron_entry", n, k) = Replaced(P3(L("crons"), n, k))
  BY DEF AsDocumented, EmptiedFor, Replaced, P3
<1>4. AsDocumented("delete_cron_entry", n, k) = Removed(P3(L("crons"), n, k))
  <2>1. AsDocumented("delete_cron_entry", n, k) = Removing({P3(L("crons"), n, k)})
    BY DEF AsDocumented, P3
  <2>2. Below(P3(L("crons"), n, k)) \cup {P3(L("crons"), n, k)} = {P3(L("crons"), n, k)}
    BY NothingBelow
  <2> QED BY <2>1, <2>2 DEF Removed
<1>5. AsDocumented("pause_cron_entry", n, k) = Changed(P3(L("crons"), n, k))
  BY DEF AsDocumented, Changed, P3
<1>6. AsDocumented("resume_cron_entry", n, k) = Changed(P3(L("crons"), n, k))
  BY DEF AsDocumented, Changed, P3
<1> QED BY <1>1, <1>2, <1>3, <1>4, <1>5, <1>6

LEMMA JobDocumented ==
  ASSUME NEW n, NEW k
  PROVE  /\ AsDocumented("get_job", n, k) = world
         /\ AsDocumented("delete_job", n, k) = Removed(P2(L("jobs"), n))
         /\ AsDocumented("patch_job", n, k) = Changed(P2(L("jobs"), n))
         /\ AsDocumented("get_error", n, k) = world
         /\ AsDocumented("list_errors", n, k) = world
<1>1. AsDocumented("get_job", n, k) = world
  BY DEF AsDocumented
<1>2. AsDocumented("delete_job", n, k) = Removed(P2(L("jobs"), n))
  <2>1. AsDocumented("delete_job", n, k) = Removing({P2(L("jobs"), n)} \cup Below(P2(L("jobs"), n)))
    BY DEF AsDocumented, P2
  <2>2. {P2(L("jobs"), n)} \cup Below(P2(L("jobs"), n)) = Below(P2(L("jobs"), n)) \cup {P2(L("jobs"), n)}
    OBVIOUS
  <2> QED BY <2>1, <2>2 DEF Removed
<1>3. AsDocumented("patch_job", n, k) = Changed(P2(L("jobs"), n))
  BY DEF AsDocumented, Changed, P2
<1>4. AsDocumented("get_error", n, k) = world
  BY DEF AsDocumented
<1>5. AsDocumented("list_errors", n, k) = world
  BY DEF AsDocumented
<1> QED BY <1>1, <1>2, <1>3, <1>4, <1>5

LEMMA BudgetDocumented ==
  ASSUME EndpointIInv, NEW n, NEW k
  PROVE  /\ AsDocumented("list_budgets", n, k) = world
         /\ AsDocumented("get_budget", n, k) = world
         /\ AsDocumented("create_budget", n, k) = Created(P2(L("budgets"), n))
         /\ AsDocumented("put_budget", n, k) = Replaced(P2(L("budgets"), n))
         /\ AsDocumented("update_budget", n, k) = Changed(P2(L("budgets"), n))
         /\ AsDocumented("delete_budget", n, k) = Removed(P2(L("budgets"), n))
<1>1. AsDocumented("list_budgets", n, k) = world
  BY DEF AsDocumented
<1>2. AsDocumented("get_budget", n, k) = world
  BY DEF AsDocumented
<1>3. AsDocumented("create_budget", n, k) = Created(P2(L("budgets"), n))
  BY DEF AsDocumented, Created, P2
<1>4. AsDocumented("put_budget", n, k) = Replaced(P2(L("budgets"), n))
  BY DEF AsDocumented, EmptiedFor, Replaced, P2
<1>5. AsDocumented("update_budget", n, k) = Changed(P2(L("budgets"), n))
  BY DEF AsDocumented, Changed, P2
<1>6. AsDocumented("delete_budget", n, k) = Removed(P2(L("budgets"), n))
  <2>1. AsDocumented("delete_budget", n, k) = Removing({P2(L("budgets"), n)})
    BY DEF AsDocumented, P2
  <2>2. Below(P2(L("budgets"), n)) \cup {P2(L("budgets"), n)} = {P2(L("budgets"), n)}
    BY NothingBelow
  <2> QED BY <2>1, <2>2 DEF Removed
<1> QED BY <1>1, <1>2, <1>3, <1>4, <1>5, <1>6

LEMMA BindingDocumented ==
  ASSUME EndpointIInv, NEW n, NEW k
  PROVE  /\ AsDocumented("bind_budget", n, k) = Created(P3(L("jobs"), n, k))
         /\ AsDocumented("rebind_budget", n, k) = Replaced(P3(L("jobs"), n, k))
         /\ AsDocumented("set_budget_cost", n, k) = Changed(P3(L("jobs"), n, k))
         /\ AsDocumented("unbind_budget", n, k) = Removed(P3(L("jobs"), n, k))
         /\ AsDocumented("unbind_all_budgets", n, k) = Emptied(P2(L("jobs"), n))
         /\ AsDocumented("replace_budgets", n, k) = EmptiedFor(P2(L("jobs"), n), P3(L("jobs"), n, k))
<1>1. AsDocumented("bind_budget", n, k) = Created(P3(L("jobs"), n, k))
  BY DEF AsDocumented, Created, P3
<1>2. AsDocumented("rebind_budget", n, k) = Replaced(P3(L("jobs"), n, k))
  BY DEF AsDocumented, EmptiedFor, Replaced, P3
<1>3. AsDocumented("set_budget_cost", n, k) = Changed(P3(L("jobs"), n, k))
  BY DEF AsDocumented, Changed, P3
<1>4. AsDocumented("unbind_budget", n, k) = Removed(P3(L("jobs"), n, k))
  <2>1. AsDocumented("unbind_budget", n, k) = Removing({P3(L("jobs"), n, k)})
    BY DEF AsDocumented, P3
  <2>2. Below(P3(L("jobs"), n, k)) \cup {P3(L("jobs"), n, k)} = {P3(L("jobs"), n, k)}
    BY NothingBelow
  <2> QED BY <2>1, <2>2 DEF Removed
<1>5. AsDocumented("unbind_all_budgets", n, k) = Emptied(P2(L("jobs"), n))
  BY DEF AsDocumented, Emptied, P2
<1>6. AsDocumented("replace_budgets", n, k) = EmptiedFor(P2(L("jobs"), n), P3(L("jobs"), n, k))
  BY DEF AsDocumented, EmptiedFor, P2, P3
<1> QED BY <1>1, <1>2, <1>3, <1>4, <1>5, <1>6

-----------------------------------------------------------------------------
(* What the server does at each path is what the call is documented to do. *)
Means(op, n, k) ==
  LET request == RequestOf(op, n, k)
  IN /\ request = [method |-> request.method, path |-> request.path, ok |-> request.ok]
     /\ request.path \in Seq(Segment)
     /\ request.ok \in {{}, {200}, {204}, {204, 422}}
     /\ ReportsMany(request.method, request.path) => request.ok = {204, 422}
     /\ Served(request.method, request.path, k) = AsDocumented(op, n, k)
     /\ Keeps(AsDocumented(op, n, k))

(* Every effect leaves the server with objects of these forms. *)
LEMMA Objects ==
  ASSUME NEW n \in Names, NEW k \in Names
  PROVE  /\ IsObject(P2(L("jobs"), n)) /\ IsObject(P3(L("jobs"), n, k)) /\ IsObject(P2(L("crons"), n))
         /\ IsObject(P3(L("crons"), n, k)) /\ IsObject(P2(L("budgets"), n))
<1>1. ASSUME NEW a \in Segment, NEW b \in Segment PROVE IsObject(P2(a, b))
  <2>1. P2(a, b) \in Seq(Segment) /\ Len(P2(a, b)) = 2
    BY Paths, Lengths
  <2> QED BY <2>1 DEF IsObject
<1>2. ASSUME NEW a \in {L("jobs"), L("crons")}, a \in Segment, NEW b \in Segment, NEW c \in Segment
      PROVE  IsObject(P3(a, b, c))
  <2>1. P3(a, b, c) \in Seq(Segment) /\ Len(P3(a, b, c)) = 3 /\ P3(a, b, c)[1] = a
    BY <1>2, Paths, Lengths, Firsts
  <2> QED BY <2>1 DEF IsObject
<1>3. /\ L("jobs") \in Segment /\ L("crons") \in Segment /\ L("budgets") \in Segment
      /\ n \in Segment /\ k \in Segment
  BY Segments
<1> QED BY <1>1, <1>2, <1>3

LEMMA EffectsKeep ==
  ASSUME EndpointIInv
  PROVE  /\ Keeps(world) /\ Keeps(<<>>)
         /\ \A o : Keeps(Emptied(o)) /\ Keeps(Removed(o)) /\ Keeps(Changed(o)) /\ Keeps(Reported(o))
         /\ \A o, x : IsObject(x) => Keeps(EmptiedFor(o, x)) /\ Keeps(Replaced(x)) /\ Keeps(Created(x))
<1>1. Keeps(world) /\ Keeps(<<>>)
  BY DEF EndpointIInv, Keeps
<1>2. ASSUME NEW gone PROVE Keeps(Removing(gone))
  BY <1>1 DEF Keeps, Removing
<1>3. ASSUME NEW kept, NEW objects, NEW done, Keeps(kept), \A x \in objects : IsObject(x)
      PROVE  Keeps(With(kept, objects, done))
  BY <1>3 DEF Keeps, With
<1>4. ASSUME NEW o PROVE Keeps(Emptied(o)) /\ Keeps(Removed(o))
  BY <1>2 DEF Emptied, Removed
<1>5. ASSUME NEW o PROVE Keeps(Changed(o)) /\ Keeps(Reported(o))
  <2>1. \A x \in {o} \cap DOMAIN world : IsObject(x)
    BY <1>1 DEF Keeps
  <2> QED BY <1>1, <1>3, <2>1 DEF Changed, Reported
<1>6. ASSUME NEW o, NEW x, IsObject(x) PROVE Keeps(EmptiedFor(o, x)) /\ Keeps(Replaced(x)) /\ Keeps(Created(x))
  <2>1. \A y \in {x} : IsObject(y)
    BY <1>6
  <2> QED BY <1>1, <1>2, <1>3, <2>1 DEF EmptiedFor, Replaced, Created
<1> QED BY <1>1, <1>4, <1>5, <1>6

LEMMA MeansIf ==
  ASSUME NEW op, NEW n, NEW k, NEW method, NEW path \in Seq(Segment), NEW ok \in {{}, {200}, {204}, {204, 422}},
         NEW effect, RequestOf(op, n, k) = AsksBare(method, path, ok),
         method # "POST" \/ ~ReportsMany(method, path) \/ ok = {204, 422},
         AsDocumented(op, n, k) = effect, Served(method, path, k) = effect, Keeps(effect)
  PROVE  Means(op, n, k)
<1>1. RequestOf(op, n, k) = [method |-> method, path |-> path, ok |-> ok]
  BY DEF AsksBare
<1>2. ReportsMany(method, path) => ok = {204, 422}
  BY DEF ReportsMany
<1> QED BY <1>1, <1>2 DEF Means

LEMMA Bare == \A method, path : Asks(method, path) = AsksBare(method, path, {})
  BY DEF Asks, AsksBare

LEMMA NotMany ==
  /\ \A a : ~ReportsMany("POST", P1(a))
  /\ \A a, b, c : ~ReportsMany("POST", P3(a, b, c))
  /\ \A a, b, c, d : ~ReportsMany("POST", P4(a, b, c, d))
  /\ \A b : ~ReportsMany("POST", P2(L("budgets"), b))
<1>1. \A a : ~ReportsMany("POST", P1(a))
  BY DEF ReportsMany, P1
<1>2. \A a, b, c : ~ReportsMany("POST", P3(a, b, c))
  BY DEF ReportsMany, P3
<1>3. \A a, b, c, d : ~ReportsMany("POST", P4(a, b, c, d))
  BY DEF ReportsMany, P4
<1>4. \A b : ~ReportsMany("POST", P2(L("budgets"), b))
  BY Distinct DEF ReportsMany, P2
<1> QED BY <1>1, <1>2, <1>3, <1>4

LEMMA ReportMeans ==
  ASSUME EndpointIInv, NEW n \in Names, NEW k \in Names
  PROVE  /\ Means("report_success", n, k)
         /\ Means("report_success_bulk", n, k)
         /\ Means("report_failure", n, k)
<1>0. /\ Keeps(world) /\ Keeps(<<>>)
      /\ \A o : Keeps(Emptied(o)) /\ Keeps(Removed(o)) /\ Keeps(Changed(o)) /\ Keeps(Reported(o))
      /\ \A o, x : IsObject(x) => Keeps(EmptiedFor(o, x)) /\ Keeps(Replaced(x)) /\ Keeps(Created(x))
      /\ IsObject(P2(L("jobs"), n)) /\ IsObject(P3(L("jobs"), n, k)) /\ IsObject(P2(L("crons"), n))
      /\ IsObject(P3(L("crons"), n, k)) /\ IsObject(P2(L("budgets"), n))
  BY EffectsKeep, Objects
<1>1. Means("report_success", n, k)
  <2>1. RequestOf("report_success", n, k) = AsksBare("POST", P3(L("jobs"), n, L("success")), {204})
    BY ReportCalls
  <2>2. P3(L("jobs"), n, L("success")) \in Seq(Segment)
    BY Segments, Paths
  <2>3. AsDocumented("report_success", n, k) = Reported(P2(L("jobs"), n))
    BY ReportDocumented
  <2>4. Served("POST", P3(L("jobs"), n, L("success")), k) = Reported(P2(L("jobs"), n))
    BY ServedReport
  <2> QED BY <2>1, <2>2, <2>3, <2>4, <1>0, MeansIf, NotMany
<1>2. Means("report_success_bulk", n, k)
  <2>1. RequestOf("report_success_bulk", n, k) = AsksBare("POST", P2(L("jobs"), L("success")), {204, 422})
    BY ReportCalls
  <2>2. P2(L("jobs"), L("success")) \in Seq(Segment)
    BY Segments, Paths
  <2>3. AsDocumented("report_success_bulk", n, k) = Reported(P2(L("jobs"), k))
    BY ReportDocumented
  <2>4. Served("POST", P2(L("jobs"), L("success")), k) = Reported(P2(L("jobs"), k))
    BY ServedReport
  <2> QED BY <2>1, <2>2, <2>3, <2>4, <1>0, MeansIf
<1>3. Means("report_failure", n, k)
  <2>1. RequestOf("report_failure", n, k) = AsksBare("POST", P3(L("jobs"), n, L("failure")), {})
    BY ReportCalls, Bare
  <2>2. P3(L("jobs"), n, L("failure")) \in Seq(Segment)
    BY Segments, Paths
  <2>3. AsDocumented("report_failure", n, k) = Reported(P2(L("jobs"), n))
    BY ReportDocumented
  <2>4. Served("POST", P3(L("jobs"), n, L("failure")), k) = Reported(P2(L("jobs"), n))
    BY ServedReport
  <2> QED BY <2>1, <2>2, <2>3, <2>4, <1>0, MeansIf, NotMany
<1> QED BY <1>1, <1>2, <1>3

LEMMA ServerMeans ==
  ASSUME EndpointIInv, NEW n \in Names, NEW k \in Names
  PROVE  /\ Means("health", n, k)
         /\ Means("server_version", n, k)
         /\ Means("list_queues", n, k)
         /\ Means("reset", n, k)
<1>0. /\ Keeps(world) /\ Keeps(<<>>)
      /\ \A o : Keeps(Emptied(o)) /\ Keeps(Removed(o)) /\ Keeps(Changed(o)) /\ Keeps(Reported(o))
      /\ \A o, x : IsObject(x) => Keeps(EmptiedFor(o, x)) /\ Keeps(Replaced(x)) /\ Keeps(Created(x))
      /\ IsObject(P2(L("jobs"), n)) /\ IsObject(P3(L("jobs"), n, k)) /\ IsObject(P2(L("crons"), n))
      /\ IsObject(P3(L("crons"), n, k)) /\ IsObject(P2(L("budgets"), n))
  BY EffectsKeep, Objects
<1>1. Means("health", n, k)
  <2>1. RequestOf("health", n, k) = AsksBare("GET", P1(L("health")), {200})
    BY ServerCalls
  <2>2. P1(L("health")) \in Seq(Segment)
    BY Segments, Paths
  <2>3. AsDocumented("health", n, k) = world
    BY ServerDocumented
  <2>4. Served("GET", P1(L("health")), k) = world
    BY ServedGet
  <2> QED BY <2>1, <2>2, <2>3, <2>4, <1>0, MeansIf
<1>2. Means("server_version", n, k)
  <2>1. RequestOf("server_version", n, k) = AsksBare("GET", P1(L("version")), {})
    BY ServerCalls, Bare
  <2>2. P1(L("version")) \in Seq(Segment)
    BY Segments, Paths
  <2>3. AsDocumented("server_version", n, k) = world
    BY ServerDocumented
  <2>4. Served("GET", P1(L("version")), k) = world
    BY ServedGet
  <2> QED BY <2>1, <2>2, <2>3, <2>4, <1>0, MeansIf
<1>3. Means("list_queues", n, k)
  <2>1. RequestOf("list_queues", n, k) = AsksBare("GET", P1(L("queues")), {})
    BY ServerCalls, Bare
  <2>2. P1(L("queues")) \in Seq(Segment)
    BY Segments, Paths
  <2>3. AsDocumented("list_queues", n, k) = world
    BY ServerDocumented
  <2>4. Served("GET", P1(L("queues")), k) = world
    BY ServedGet
  <2> QED BY <2>1, <2>2, <2>3, <2>4, <1>0, MeansIf
<1>4. Means("reset", n, k)
  <2>1. RequestOf("reset", n, k) = AsksBare("POST", P1(L("reset")), {204})
    BY ServerCalls
  <2>2. P1(L("reset")) \in Seq(Segment)
    BY Segments, Paths
  <2>3. AsDocumented("reset", n, k) = <<>>
    BY ServerDocumented
  <2>4. Served("POST", P1(L("reset")), k) = <<>>
    BY ServedPost
  <2> QED BY <2>1, <2>2, <2>3, <2>4, <1>0, MeansIf, NotMany
<1> QED BY <1>1, <1>2, <1>3, <1>4

LEMMA CronMeans ==
  ASSUME EndpointIInv, NEW n \in Names, NEW k \in Names
  PROVE  /\ Means("list_crons", n, k)
         /\ Means("get_cron", n, k)
         /\ Means("replace_cron", n, k)
         /\ Means("delete_cron", n, k)
         /\ Means("delete_all_crons", n, k)
         /\ Means("pause_cron", n, k)
         /\ Means("resume_cron", n, k)
<1>0. /\ Keeps(world) /\ Keeps(<<>>)
      /\ \A o : Keeps(Emptied(o)) /\ Keeps(Removed(o)) /\ Keeps(Changed(o)) /\ Keeps(Reported(o))
      /\ \A o, x : IsObject(x) => Keeps(EmptiedFor(o, x)) /\ Keeps(Replaced(x)) /\ Keeps(Created(x))
      /\ IsObject(P2(L("jobs"), n)) /\ IsObject(P3(L("jobs"), n, k)) /\ IsObject(P2(L("crons"), n))
      /\ IsObject(P3(L("crons"), n, k)) /\ IsObject(P2(L("budgets"), n))
  BY EffectsKeep, Objects
<1>1. Means("list_crons", n, k)
  <2>1. RequestOf("list_crons", n, k) = AsksBare("GET", P1(L("crons")), {})
    BY CronCalls, Bare
  <2>2. P1(L("crons")) \in Seq(Segment)
    BY Segments, Paths
  <2>3. AsDocumented("list_crons", n, k) = world
    BY CronDocumented
  <2>4. Served("GET", P1(L("crons")), k) = world
    BY ServedGet
  <2> QED BY <2>1, <2>2, <2>3, <2>4, <1>0, MeansIf
<1>2. Means("get_cron", n, k)
  <2>1. RequestOf("get_cron", n, k) = AsksBare("GET", P2(L("crons"), n), {})
    BY CronCalls, Bare
  <2>2. P2(L("crons"), n) \in Seq(Segment)
    BY Segments, Paths
  <2>3. AsDocumented("get_cron", n, k) = world
    BY CronDocumented
  <2>4. Served("GET", P2(L("crons"), n), k) = world
    BY ServedGet
  <2> QED BY <2>1, <2>2, <2>3, <2>4, <1>0, MeansIf
<1>3. Means("replace_cron", n, k)
  <2>1. RequestOf("replace_cron", n, k) = AsksBare("PUT", P2(L("crons"), n), {})
    BY CronCalls, Bare
  <2>2. P2(L("crons"), n) \in Seq(Segment)
    BY Segments, Paths
  <2>3. AsDocumented("replace_cron", n, k) = Replaced(P2(L("crons"), n))
    BY CronDocumented
  <2>4. Served("PUT", P2(L("crons"), n), k) = Replaced(P2(L("crons"), n))
    BY ServedPut
  <2> QED BY <2>1, <2>2, <2>3, <2>4, <1>0, MeansIf
<1>4. Means("delete_cron", n, k)
  <2>1. RequestOf("delete_cron", n, k) = AsksBare("DELETE", P2(L("crons"), n), {204})
    BY CronCalls
  <2>2. P2(L("crons"), n) \in Seq(Segment)
    BY Segments, Paths
  <2>3. AsDocumented("delete_cron", n, k) = Removed(P2(L("crons"), n))
    BY CronDocumented
  <2>4. Served("DELETE", P2(L("crons"), n), k) = Removed(P2(L("crons"), n))
    BY ServedDelete
  <2> QED BY <2>1, <2>2, <2>3, <2>4, <1>0, MeansIf
<1>5. Means("delete_all_crons", n, k)
  <2>1. RequestOf("delete_all_crons", n, k) = AsksBare("DELETE", P1(L("crons")), {})
    BY CronCalls, Bare
  <2>2. P1(L("crons")) \in Seq(Segment)
    BY Segments, Paths
  <2>3. AsDocumented("delete_all_crons", n, k) = Emptied(P1(L("crons")))
    BY CronDocumented
  <2>4. Served("DELETE", P1(L("crons")), k) = Emptied(P1(L("crons")))
    BY ServedDelete
  <2> QED BY <2>1, <2>2, <2>3, <2>4, <1>0, MeansIf
<1>6. Means("pause_cron", n, k)
  <2>1. RequestOf("pause_cron", n, k) = AsksBare("PATCH", P2(L("crons"), n), {200})
    BY CronCalls
  <2>2. P2(L("crons"), n) \in Seq(Segment)
    BY Segments, Paths
  <2>3. AsDocumented("pause_cron", n, k) = Changed(P2(L("crons"), n))
    BY CronDocumented
  <2>4. Served("PATCH", P2(L("crons"), n), k) = Changed(P2(L("crons"), n))
    BY ServedPatch
  <2> QED BY <2>1, <2>2, <2>3, <2>4, <1>0, MeansIf
<1>7. Means("resume_cron", n, k)
  <2>1. RequestOf("resume_cron", n, k) = AsksBare("PATCH", P2(L("crons"), n), {200})
    BY CronCalls
  <2>2. P2(L("crons"), n) \in Seq(Segment)
    BY Segments, Paths
  <2>3. AsDocumented("resume_cron", n, k) = Changed(P2(L("crons"), n))
    BY CronDocumented
  <2>4. Served("PATCH", P2(L("crons"), n), k) = Changed(P2(L("crons"), n))
    BY ServedPatch
  <2> QED BY <2>1, <2>2, <2>3, <2>4, <1>0, MeansIf
<1> QED BY <1>1, <1>2, <1>3, <1>4, <1>5, <1>6, <1>7

LEMMA EntryMeans ==
  ASSUME EndpointIInv, NEW n \in Names, NEW k \in Names
  PROVE  /\ Means("add_cron_entry", n, k)
         /\ Means("get_cron_entry", n, k)
         /\ Means("put_cron_entry", n, k)
         /\ Means("delete_cron_entry", n, k)
         /\ Means("pause_cron_entry", n, k)
         /\ Means("resume_cron_entry", n, k)
<1>0. /\ Keeps(world) /\ Keeps(<<>>)
      /\ \A o : Keeps(Emptied(o)) /\ Keeps(Removed(o)) /\ Keeps(Changed(o)) /\ Keeps(Reported(o))
      /\ \A o, x : IsObject(x) => Keeps(EmptiedFor(o, x)) /\ Keeps(Replaced(x)) /\ Keeps(Created(x))
      /\ IsObject(P2(L("jobs"), n)) /\ IsObject(P3(L("jobs"), n, k)) /\ IsObject(P2(L("crons"), n))
      /\ IsObject(P3(L("crons"), n, k)) /\ IsObject(P2(L("budgets"), n))
  BY EffectsKeep, Objects
<1>1. Means("add_cron_entry", n, k)
  <2>1. RequestOf("add_cron_entry", n, k) = AsksBare("POST", P3(L("crons"), n, L("entries")), {})
    BY EntryCalls, Bare
  <2>2. P3(L("crons"), n, L("entries")) \in Seq(Segment)
    BY Segments, Paths
  <2>3. AsDocumented("add_cron_entry", n, k) = Created(P3(L("crons"), n, k))
    BY EntryDocumented
  <2>4. Served("POST", P3(L("crons"), n, L("entries")), k) = Created(P3(L("crons"), n, k))
    BY ServedPost
  <2> QED BY <2>1, <2>2, <2>3, <2>4, <1>0, MeansIf, NotMany
<1>2. Means("get_cron_entry", n, k)
  <2>1. RequestOf("get_cron_entry", n, k) = AsksBare("GET", P4(L("crons"), n, L("entries"), k), {})
    BY EntryCalls, Bare
  <2>2. P4(L("crons"), n, L("entries"), k) \in Seq(Segment)
    BY Segments, Paths
  <2>3. AsDocumented("get_cron_entry", n, k) = world
    BY EntryDocumented
  <2>4. Served("GET", P4(L("crons"), n, L("entries"), k), k) = world
    BY ServedGet
  <2> QED BY <2>1, <2>2, <2>3, <2>4, <1>0, MeansIf
<1>3. Means("put_cron_entry", n, k)
  <2>1. RequestOf("put_cron_entry", n, k) = AsksBare("PUT", P4(L("crons"), n, L("entries"), k), {})
    BY EntryCalls, Bare
  <2>2. P4(L("crons"), n, L("entries"), k) \in Seq(Segment)
    BY Segments, Paths
  <2>3. AsDocumented("put_cron_entry", n, k) = Replaced(P3(L("crons"), n, k))
    BY EntryDocumented
  <2>4. Served("PUT", P4(L("crons"), n, L("entries"), k), k) = Replaced(P3(L("crons"), n, k))
    BY ServedPut
  <2> QED BY <2>1, <2>2, <2>3, <2>4, <1>0, MeansIf
<1>4. Means("delete_cron_entry", n, k)
  <2>1. RequestOf("delete_cron_entry", n, k) = AsksBare("DELETE", P4(L("crons"), n, L("entries"), k), {204})
    BY EntryCalls
  <2>2. P4(L("crons"), n, L("entries"), k) \in Seq(Segment)
    BY Segments, Paths
  <2>3. AsDocumented("delete_cron_entry", n, k) = Removed(P3(L("crons"), n, k))
    BY EntryDocumented
  <2>4. Served("DELETE", P4(L("crons"), n, L("entries"), k), k) = Removed(P3(L("crons"), n, k))
    BY ServedDelete
  <2> QED BY <2>1, <2>2, <2>3, <2>4, <1>0, MeansIf
<1>5. Means("pause_cron_entry", n, k)
  <2>1. RequestOf("pause_cron_entry", n, k) = AsksBare("PATCH", P4(L("crons"), n, L("entries"), k), {200})
    BY EntryCalls
  <2>2. P4(L("crons"), n, L("entries"), k) \in Seq(Segment)
    BY Segments, Paths
  <2>3. AsDocumented("pause_cron_entry", n, k) = Changed(P3(L("crons"), n, k))
    BY EntryDocumented
  <2>4. Served("PATCH", P4(L("crons"), n, L("entries"), k), k) = Changed(P3(L("crons"), n, k))
    BY ServedPatch
  <2> QED BY <2>1, <2>2, <2>3, <2>4, <1>0, MeansIf
<1>6. Means("resume_cron_entry", n, k)
  <2>1. RequestOf("resume_cron_entry", n, k) = AsksBare("PATCH", P4(L("crons"), n, L("entries"), k), {200})
    BY EntryCalls
  <2>2. P4(L("crons"), n, L("entries"), k) \in Seq(Segment)
    BY Segments, Paths
  <2>3. AsDocumented("resume_cron_entry", n, k) = Changed(P3(L("crons"), n, k))
    BY EntryDocumented
  <2>4. Served("PATCH", P4(L("crons"), n, L("entries"), k), k) = Changed(P3(L("crons"), n, k))
    BY ServedPatch
  <2> QED BY <2>1, <2>2, <2>3, <2>4, <1>0, MeansIf
<1> QED BY <1>1, <1>2, <1>3, <1>4, <1>5, <1>6

LEMMA JobMeans ==
  ASSUME EndpointIInv, NEW n \in Names, NEW k \in Names
  PROVE  /\ Means("get_job", n, k)
         /\ Means("delete_job", n, k)
         /\ Means("patch_job", n, k)
         /\ Means("get_error", n, k)
         /\ Means("list_errors", n, k)
<1>0. /\ Keeps(world) /\ Keeps(<<>>)
      /\ \A o : Keeps(Emptied(o)) /\ Keeps(Removed(o)) /\ Keeps(Changed(o)) /\ Keeps(Reported(o))
      /\ \A o, x : IsObject(x) => Keeps(EmptiedFor(o, x)) /\ Keeps(Replaced(x)) /\ Keeps(Created(x))
      /\ IsObject(P2(L("jobs"), n)) /\ IsObject(P3(L("jobs"), n, k)) /\ IsObject(P2(L("crons"), n))
      /\ IsObject(P3(L("crons"), n, k)) /\ IsObject(P2(L("budgets"), n))
  BY EffectsKeep, Objects
<1>1. Means("get_job", n, k)
  <2>1. RequestOf("get_job", n, k) = AsksBare("GET", P2(L("jobs"), n), {})
    BY JobCalls, Bare
  <2>2. P2(L("jobs"), n) \in Seq(Segment)
    BY Segments, Paths
  <2>3. AsDocumented("get_job", n, k) = world
    BY JobDocumented
  <2>4. Served("GET", P2(L("jobs"), n), k) = world
    BY ServedGet
  <2> QED BY <2>1, <2>2, <2>3, <2>4, <1>0, MeansIf
<1>2. Means("delete_job", n, k)
  <2>1. RequestOf("delete_job", n, k) = AsksBare("DELETE", P2(L("jobs"), n), {204})
    BY JobCalls
  <2>2. P2(L("jobs"), n) \in Seq(Segment)
    BY Segments, Paths
  <2>3. AsDocumented("delete_job", n, k) = Removed(P2(L("jobs"), n))
    BY JobDocumented
  <2>4. Served("DELETE", P2(L("jobs"), n), k) = Removed(P2(L("jobs"), n))
    BY ServedDelete
  <2> QED BY <2>1, <2>2, <2>3, <2>4, <1>0, MeansIf
<1>3. Means("patch_job", n, k)
  <2>1. RequestOf("patch_job", n, k) = AsksBare("PATCH", P2(L("jobs"), n), {})
    BY JobCalls, Bare
  <2>2. P2(L("jobs"), n) \in Seq(Segment)
    BY Segments, Paths
  <2>3. AsDocumented("patch_job", n, k) = Changed(P2(L("jobs"), n))
    BY JobDocumented
  <2>4. Served("PATCH", P2(L("jobs"), n), k) = Changed(P2(L("jobs"), n))
    BY ServedPatch
  <2> QED BY <2>1, <2>2, <2>3, <2>4, <1>0, MeansIf
<1>4. Means("get_error", n, k)
  <2>1. RequestOf("get_error", n, k) = AsksBare("GET", P4(L("jobs"), n, L("errors"), L("1")), {})
    BY JobCalls, Bare
  <2>2. P4(L("jobs"), n, L("errors"), L("1")) \in Seq(Segment)
    BY Segments, Paths
  <2>3. AsDocumented("get_error", n, k) = world
    BY JobDocumented
  <2>4. Served("GET", P4(L("jobs"), n, L("errors"), L("1")), k) = world
    BY ServedGet
  <2> QED BY <2>1, <2>2, <2>3, <2>4, <1>0, MeansIf
<1>5. Means("list_errors", n, k)
  <2>1. RequestOf("list_errors", n, k) = AsksBare("GET", P3(L("jobs"), n, L("errors")), {})
    BY JobCalls, Bare
  <2>2. P3(L("jobs"), n, L("errors")) \in Seq(Segment)
    BY Segments, Paths
  <2>3. AsDocumented("list_errors", n, k) = world
    BY JobDocumented
  <2>4. Served("GET", P3(L("jobs"), n, L("errors")), k) = world
    BY ServedGet
  <2> QED BY <2>1, <2>2, <2>3, <2>4, <1>0, MeansIf
<1> QED BY <1>1, <1>2, <1>3, <1>4, <1>5

LEMMA BudgetMeans ==
  ASSUME EndpointIInv, NEW n \in Names, NEW k \in Names
  PROVE  /\ Means("list_budgets", n, k)
         /\ Means("get_budget", n, k)
         /\ Means("create_budget", n, k)
         /\ Means("put_budget", n, k)
         /\ Means("update_budget", n, k)
         /\ Means("delete_budget", n, k)
<1>0. /\ Keeps(world) /\ Keeps(<<>>)
      /\ \A o : Keeps(Emptied(o)) /\ Keeps(Removed(o)) /\ Keeps(Changed(o)) /\ Keeps(Reported(o))
      /\ \A o, x : IsObject(x) => Keeps(EmptiedFor(o, x)) /\ Keeps(Replaced(x)) /\ Keeps(Created(x))
      /\ IsObject(P2(L("jobs"), n)) /\ IsObject(P3(L("jobs"), n, k)) /\ IsObject(P2(L("crons"), n))
      /\ IsObject(P3(L("crons"), n, k)) /\ IsObject(P2(L("budgets"), n))
  BY EffectsKeep, Objects
<1>1. Means("list_budgets", n, k)
  <2>1. RequestOf("list_budgets", n, k) = AsksBare("GET", P1(L("budgets")), {})
    BY BudgetCalls, Bare
  <2>2. P1(L("budgets")) \in Seq(Segment)
    BY Segments, Paths
  <2>3. AsDocumented("list_budgets", n, k) = world
    BY BudgetDocumented
  <2>4. Served("GET", P1(L("budgets")), k) = world
    BY ServedGet
  <2> QED BY <2>1, <2>2, <2>3, <2>4, <1>0, MeansIf
<1>2. Means("get_budget", n, k)
  <2>1. RequestOf("get_budget", n, k) = AsksBare("GET", P2(L("budgets"), n), {})
    BY BudgetCalls, Bare
  <2>2. P2(L("budgets"), n) \in Seq(Segment)
    BY Segments, Paths
  <2>3. AsDocumented("get_budget", n, k) = world
    BY BudgetDocumented
  <2>4. Served("GET", P2(L("budgets"), n), k) = world
    BY ServedGet
  <2> QED BY <2>1, <2>2, <2>3, <2>4, <1>0, MeansIf
<1>3. Means("create_budget", n, k)
  <2>1. RequestOf("create_budget", n, k) = AsksBare("POST", P2(L("budgets"), n), {})
    BY BudgetCalls, Bare
  <2>2. P2(L("budgets"), n) \in Seq(Segment)
    BY Segments, Paths
  <2>3. AsDocumented("create_budget", n, k) = Created(P2(L("budgets"), n))
    BY BudgetDocumented
  <2>4. Served("POST", P2(L("budgets"), n), k) = Created(P2(L("budgets"), n))
    BY ServedPost
  <2> QED BY <2>1, <2>2, <2>3, <2>4, <1>0, MeansIf, NotMany
<1>4. Means("put_budget", n, k)
  <2>1. RequestOf("put_budget", n, k) = AsksBare("PUT", P2(L("budgets"), n), {})
    BY BudgetCalls, Bare
  <2>2. P2(L("budgets"), n) \in Seq(Segment)
    BY Segments, Paths
  <2>3. AsDocumented("put_budget", n, k) = Replaced(P2(L("budgets"), n))
    BY BudgetDocumented
  <2>4. Served("PUT", P2(L("budgets"), n), k) = Replaced(P2(L("budgets"), n))
    BY ServedPut
  <2> QED BY <2>1, <2>2, <2>3, <2>4, <1>0, MeansIf
<1>5. Means("update_budget", n, k)
  <2>1. RequestOf("update_budget", n, k) = AsksBare("PATCH", P2(L("budgets"), n), {})
    BY BudgetCalls, Bare
  <2>2. P2(L("budgets"), n) \in Seq(Segment)
    BY Segments, Paths
  <2>3. AsDocumented("update_budget", n, k) = Changed(P2(L("budgets"), n))
    BY BudgetDocumented
  <2>4. Served("PATCH", P2(L("budgets"), n), k) = Changed(P2(L("budgets"), n))
    BY ServedPatch
  <2> QED BY <2>1, <2>2, <2>3, <2>4, <1>0, MeansIf
<1>6. Means("delete_budget", n, k)
  <2>1. RequestOf("delete_budget", n, k) = AsksBare("DELETE", P2(L("budgets"), n), {204})
    BY BudgetCalls
  <2>2. P2(L("budgets"), n) \in Seq(Segment)
    BY Segments, Paths
  <2>3. AsDocumented("delete_budget", n, k) = Removed(P2(L("budgets"), n))
    BY BudgetDocumented
  <2>4. Served("DELETE", P2(L("budgets"), n), k) = Removed(P2(L("budgets"), n))
    BY ServedDelete
  <2> QED BY <2>1, <2>2, <2>3, <2>4, <1>0, MeansIf
<1> QED BY <1>1, <1>2, <1>3, <1>4, <1>5, <1>6

LEMMA BindingMeans ==
  ASSUME EndpointIInv, NEW n \in Names, NEW k \in Names
  PROVE  /\ Means("bind_budget", n, k)
         /\ Means("rebind_budget", n, k)
         /\ Means("set_budget_cost", n, k)
         /\ Means("unbind_budget", n, k)
         /\ Means("unbind_all_budgets", n, k)
         /\ Means("replace_budgets", n, k)
<1>0. /\ Keeps(world) /\ Keeps(<<>>)
      /\ \A o : Keeps(Emptied(o)) /\ Keeps(Removed(o)) /\ Keeps(Changed(o)) /\ Keeps(Reported(o))
      /\ \A o, x : IsObject(x) => Keeps(EmptiedFor(o, x)) /\ Keeps(Replaced(x)) /\ Keeps(Created(x))
      /\ IsObject(P2(L("jobs"), n)) /\ IsObject(P3(L("jobs"), n, k)) /\ IsObject(P2(L("crons"), n))
      /\ IsObject(P3(L("crons"), n, k)) /\ IsObject(P2(L("budgets"), n))
  BY EffectsKeep, Objects
<1>1. Means("bind_budget", n, k)
  <2>1. RequestOf("bind_budget", n, k) = AsksBare("POST", P4(L("jobs"), n, L("budgets"), k), {})
    BY BindingCalls, Bare
  <2>2. P4(L("jobs"), n, L("budgets"), k) \in Seq(Segment)
    BY Segments, Paths
  <2>3. AsDocumented("bind_budget", n, k) = Created(P3(L("jobs"), n, k))
    BY BindingDocumented
  <2>4. Served("POST", P4(L("jobs"), n, L("budgets"), k), k) = Created(P3(L("jobs"), n, k))
    BY ServedPost
  <2> QED BY <2>1, <2>2, <2>3, <2>4, <1>0, MeansIf, NotMany
<1>2. Means("rebind_budget", n, k)
  <2>1. RequestOf("rebind_budget", n, k) = AsksBare("PUT", P4(L("jobs"), n, L("budgets"), k), {})
    BY BindingCalls, Bare
  <2>2. P4(L("jobs"), n, L("budgets"), k) \in Seq(Segment)
    BY Segments, Paths
  <2>3. AsDocumented("rebind_budget", n, k) = Replaced(P3(L("jobs"), n, k))
    BY BindingDocumented
  <2>4. Served("PUT", P4(L("jobs"), n, L("budgets"), k), k) = Replaced(P3(L("jobs"), n, k))
    BY ServedPut
  <2> QED BY <2>1, <2>2, <2>3, <2>4, <1>0, MeansIf
<1>3. Means("set_budget_cost", n, k)
  <2>1. RequestOf("set_budget_cost", n, k) = AsksBare("PATCH", P4(L("jobs"), n, L("budgets"), k), {})
    BY BindingCalls, Bare
  <2>2. P4(L("jobs"), n, L("budgets"), k) \in Seq(Segment)
    BY Segments, Paths
  <2>3. AsDocumented("set_budget_cost", n, k) = Changed(P3(L("jobs"), n, k))
    BY BindingDocumented
  <2>4. Served("PATCH", P4(L("jobs"), n, L("budgets"), k), k) = Changed(P3(L("jobs"), n, k))
    BY ServedPatch
  <2> QED BY <2>1, <2>2, <2>3, <2>4, <1>0, MeansIf
<1>4. Means("unbind_budget", n, k)
  <2>1. RequestOf("unbind_budget", n, k) = AsksBare("DELETE", P4(L("jobs"), n, L("budgets"), k), {})
    BY BindingCalls, Bare
  <2>2. P4(L("jobs"), n, L("budgets"), k) \in Seq(Segment)
    BY Segments, Paths
  <2>3. AsDocumented("unbind_budget", n, k) = Removed(P3(L("jobs"), n, k))
    BY BindingDocumented
  <2>4. Served("DELETE", P4(L("jobs"), n, L("budgets"), k), k) = Removed(P3(L("jobs"), n, k))
    BY ServedDelete
  <2> QED BY <2>1, <2>2, <2>3, <2>4, <1>0, MeansIf
<1>5. Means("unbind_all_budgets", n, k)
  <2>1. RequestOf("unbind_all_budgets", n, k) = AsksBare("DELETE", P3(L("jobs"), n, L("budgets")), {})
    BY BindingCalls, Bare
  <2>2. P3(L("jobs"), n, L("budgets")) \in Seq(Segment)
    BY Segments, Paths
  <2>3. AsDocumented("unbind_all_budgets", n, k) = Emptied(P2(L("jobs"), n))
    BY BindingDocumented
  <2>4. Served("DELETE", P3(L("jobs"), n, L("budgets")), k) = Emptied(P2(L("jobs"), n))
    BY ServedDelete
  <2> QED BY <2>1, <2>2, <2>3, <2>4, <1>0, MeansIf
<1>6. Means("replace_budgets", n, k)
  <2>1. RequestOf("replace_budgets", n, k) = AsksBare("PUT", P3(L("jobs"), n, L("budgets")), {})
    BY BindingCalls, Bare
  <2>2. P3(L("jobs"), n, L("budgets")) \in Seq(Segment)
    BY Segments, Paths
  <2>3. AsDocumented("replace_budgets", n, k) = EmptiedFor(P2(L("jobs"), n), P3(L("jobs"), n, k))
    BY BindingDocumented
  <2>4. Served("PUT", P3(L("jobs"), n, L("budgets")), k) = EmptiedFor(P2(L("jobs"), n), P3(L("jobs"), n, k))
    BY ServedPut
  <2> QED BY <2>1, <2>2, <2>3, <2>4, <1>0, MeansIf
<1> QED BY <1>1, <1>2, <1>3, <1>4, <1>5, <1>6

-----------------------------------------------------------------------------
LEMMA EveryCallMeans ==
  ASSUME EndpointIInv, NEW op \in Ops, NEW n \in Names, NEW k \in Names
  PROVE  Means(op, n, k)
<1>1. \/ op \in {"report_success", "report_success_bulk", "report_failure"}
      \/ op \in {"health", "server_version", "list_queues", "reset"}
      \/ op \in {"list_crons", "get_cron", "replace_cron", "delete_cron", "delete_all_crons", "pause_cron",
                 "resume_cron"}
      \/ op \in {"add_cron_entry", "get_cron_entry", "put_cron_entry", "delete_cron_entry", "pause_cron_entry",
                 "resume_cron_entry"}
      \/ op \in {"get_job", "delete_job", "patch_job", "get_error", "list_errors"}
      \/ op \in {"list_budgets", "get_budget", "create_budget", "put_budget", "update_budget", "delete_budget"}
      \/ op \in {"bind_budget", "rebind_budget", "set_budget_cost", "unbind_budget", "unbind_all_budgets",
                 "replace_budgets"}
  BY Operations DEF Ops
<1>2. CASE op \in {"report_success", "report_success_bulk", "report_failure"}
  BY <1>2, ReportMeans
<1>3. CASE op \in {"health", "server_version", "list_queues", "reset"}
  BY <1>3, ServerMeans
<1>4. CASE op \in {"list_crons", "get_cron", "replace_cron", "delete_cron", "delete_all_crons", "pause_cron",
                  "resume_cron"}
  BY <1>4, CronMeans
<1>5. CASE op \in {"add_cron_entry", "get_cron_entry", "put_cron_entry", "delete_cron_entry",
                  "pause_cron_entry", "resume_cron_entry"}
  BY <1>5, EntryMeans
<1>6. CASE op \in {"get_job", "delete_job", "patch_job", "get_error", "list_errors"}
  BY <1>6, JobMeans
<1>7. CASE op \in {"list_budgets", "get_budget", "create_budget", "put_budget", "update_budget", "delete_budget"}
  BY <1>7, BudgetMeans
<1>8. CASE op \in {"bind_budget", "rebind_budget", "set_budget_cost", "unbind_budget", "unbind_all_budgets",
                  "replace_budgets"}
  BY <1>8, BindingMeans
<1> QED BY <1>1, <1>2, <1>3, <1>4, <1>5, <1>6, <1>7, <1>8

(* The server is asked for the path that the request names: below the path *)
(* of the base URL, whether that ends with a "/" or not.                   *)
LEMMA PathKept ==
  ASSUME NEW url \in BaseUrls, NEW path \in Seq(Segment)
  PROVE  SubSeq(Url(url, path), Len(Prefix(url)) + 1, Len(Url(url, path))) = path
<1> DEFINE prefix == Prefix(url)
<1>1. url \in Seq(Segment) /\ url # <<>>
  BY Segments
<1>2. Front(url) \in Seq(Segment)
  BY <1>1, SubSeqProperties DEF Front
<1>3. prefix \in Seq(Segment)
  BY <1>1, <1>2 DEF Prefix
<1>4. Url(url, path) = prefix \o path
  BY DEF Url
<1> HIDE DEF prefix
<1>5. /\ prefix \o path \in Seq(Segment) /\ Len(prefix \o path) = Len(prefix) + Len(path)
      /\ \A i \in 1 .. Len(path) : (prefix \o path)[Len(prefix) + i] = path[i]
  BY <1>3
<1> DEFINE tail == SubSeq(prefix \o path, Len(prefix) + 1, Len(prefix \o path))
<1>6. /\ tail \in Seq(Segment) /\ Len(tail) = Len(path)
      /\ \A i \in 1 .. Len(path) : tail[i] = path[i]
  BY <1>3, <1>5
<1>7. tail = path
  <2> HIDE DEF tail
  <2> QED BY <1>6
<1> QED BY <1>4, <1>7 DEF prefix, tail

(* What the server answers, and what the caller makes of it. *)
LEMMA Answered ==
  ASSUME NEW request, request.ok \in {{}, {200}, {204}, {204, 422}}, NEW k,
         ReportsMany(request.method, request.path) => request.ok = {204, 422},
         NEW s, s = Status(request, k)
  PROVE  s \in {404, 409} \/ s \in request.ok \/ (request.ok = {} /\ s = 200)
<1>1. /\ (CHOOSE t \in {200} : t < 300) = 200
      /\ (CHOOSE t \in {204} : t < 300) = 204
      /\ (CHOOSE t \in {204, 422} : t < 300) = 204
  OBVIOUS
<1> QED BY <1>1 DEF Status

LEMMA Told ==
  ASSUME NEW request, request.ok \in {{}, {200}, {204}, {204, 422}}, NEW s,
         NEW result, result = Result(request, [status |-> s, body |-> "good"])
  PROVE  /\ s = 0 => result = Transport
         /\ s \in {404, 409, 503} => result = Response(s)
         /\ s \in request.ok \/ (request.ok = {} /\ s = 200) => result = OkResult
<1> DEFINE answer == [status |-> s, body |-> "good"]
<1>1. answer.status = s /\ answer.body = "good"
  OBVIOUS
<1> HIDE DEF answer
<1>2. CASE request.ok = {}
  <2>1. result = Decoded(answer)
    BY <1>2 DEF Result, answer
  <2> QED BY <1>1, <1>2, <2>1 DEF Decoded, DecodeBody, Refusal, IsSuccess
<1>3. CASE request.ok # {}
  <2>1. result = Expected(answer, request.ok)
    BY <1>3 DEF Result, answer
  <2>2. 0 \notin request.ok /\ request.ok \cap {404, 409, 503} = {}
    OBVIOUS
  <2> QED BY <1>1, <1>3, <2>1, <2>2 DEF Expected, Refusal
<1> QED BY <1>2, <1>3

LEMMA Outcomes == Transport # OkResult /\ Transport.variant # "Response" /\ OkResult.variant # "Response"
                  /\ \A s : Response(s) # OkResult
  BY DEF Transport, OkResult, Response

LEMMA CallDoes ==
  ASSUME EndpointIInv, NEW op \in Ops, NEW n \in Names, NEW k \in Names, Call(op, n, k)
  PROVE  /\ asked' = <<op, n, k>> /\ base' = base
         /\ world' \in {world, AsDocumented(op, n, k)}
         /\ told' = OkResult => world' = AsDocumented(op, n, k)
         /\ told'.variant = "Response" => world' = world
<1> DEFINE request == RequestOf(op, n, k)
           path == SubSeq(Url(base, request.path), Len(Prefix(base)) + 1, Len(Url(base, request.path)))
           status == Status(request, k)
           meant == AsDocumented(op, n, k)
<1>1. /\ request = [method |-> request.method, path |-> request.path, ok |-> request.ok]
      /\ request.path \in Seq(Segment)
      /\ request.ok \in {{}, {200}, {204}, {204, 422}}
      /\ ReportsMany(request.method, request.path) => request.ok = {204, 422}
      /\ Served(request.method, request.path, k) = meant
  <2>1. Means(op, n, k)
    BY EveryCallMeans
  <2> QED BY <2>1, Zenon DEF Means
<1>2. path = request.path
  BY <1>1, PathKept DEF EndpointIInv
<1>3. [request EXCEPT !.path = path] = request
  BY <1>1, <1>2
<1>4. /\ asked' = <<op, n, k>> /\ base' = base
      /\ \/ /\ world' = IF status \in {404, 409} THEN world ELSE meant
            /\ told' \in {Result(request, [status |-> s, body |-> "good"]) : s \in {status, 0}}
         \/ /\ UNCHANGED world
            /\ told' \in {Result(request, [status |-> s, body |-> "good"]) : s \in {503, 0}}
  <2> DEFINE served == [request EXCEPT !.path = path]
  <2>1. /\ asked' = <<op, n, k>> /\ base' = base
        /\ \/ /\ world' = IF Status(served, k) \in {404, 409} THEN world ELSE Served(request.method, path, k)
              /\ told' \in {Result(request, [status |-> s, body |-> "good"]) : s \in {Status(served, k), 0}}
           \/ /\ UNCHANGED world
              /\ told' \in {Result(request, [status |-> s, body |-> "good"]) : s \in {503, 0}}
    BY Zenon DEF Call
  <2>2. served = request /\ Served(request.method, path, k) = meant
    BY <1>1, <1>2, <1>3
  <2> HIDE DEF served, request, path, meant
  <2> QED BY <2>1, <2>2
<1>5. status \in {404, 409} \/ status \in request.ok \/ (request.ok = {} /\ status = 200)
  <2> HIDE DEF request
  <2> QED BY <1>1, Answered
<1> HIDE DEF request, path, status, meant
<1>6. CASE /\ world' = IF status \in {404, 409} THEN world ELSE meant
           /\ told' \in {Result(request, [status |-> s, body |-> "good"]) : s \in {status, 0}}
  <2>1. CASE told' = Result(request, [status |-> 0, body |-> "good"])
    BY <1>1, <1>4, <1>6, <2>1, Told, Outcomes DEF meant
  <2>2. CASE told' = Result(request, [status |-> status, body |-> "good"])
    <3>1. CASE status \in {404, 409}
      BY <1>1, <1>4, <1>6, <2>2, <3>1, Told, Outcomes DEF meant
    <3>2. CASE status \in request.ok \/ (request.ok = {} /\ status = 200)
      <4>1. told' = OkResult /\ status \notin {404, 409}
        BY <1>1, <2>2, <3>2, Told
      <4> QED BY <1>4, <1>6, <4>1, Outcomes DEF meant
    <3> QED BY <1>5, <3>1, <3>2
  <2> QED BY <1>6, <2>1, <2>2
<1>7. CASE /\ UNCHANGED world
           /\ told' \in {Result(request, [status |-> s, body |-> "good"]) : s \in {503, 0}}
  <2>1. told' = Transport \/ told' = Response(503)
    BY <1>1, <1>7, Told
  <2> QED BY <1>4, <1>7, <2>1, Outcomes
<1> QED BY <1>4, <1>6, <1>7

LEMMA Started == EndpointInit => EndpointIInv
<1>1. ASSUME NEW n \in Names, NEW m \in Names, NEW k \in Names, NEW x \in DOMAIN InitialWorld(n, m, k)
      PROVE  IsObject(x)
  BY Objects DEF InitialWorld, P2, P3
<1> QED BY <1>1 DEF EndpointInit, EndpointIInv, Keeps

LEMMA Kept == EndpointIInv /\ [EndpointNext]_endpointVars => EndpointIInv'
<1>1. ASSUME EndpointIInv, NEW op \in Ops, NEW n \in Names, NEW k \in Names, Call(op, n, k)
      PROVE  EndpointIInv'
  <2>1. base' = base /\ world' \in {world, AsDocumented(op, n, k)}
    BY <1>1, CallDoes
  <2>2. Keeps(AsDocumented(op, n, k))
    BY <1>1, EveryCallMeans DEF Means
  <2>3. Keeps(world')
    BY <1>1, <2>1, <2>2 DEF EndpointIInv
  <2> QED BY <1>1, <2>1, <2>3 DEF EndpointIInv, Keeps
<1>2. ASSUME EndpointIInv, UNCHANGED endpointVars PROVE EndpointIInv'
  BY <1>2 DEF EndpointIInv, Keeps, endpointVars
<1> QED BY <1>1, <1>2 DEF EndpointNext

(* Whatever the base URL, with a path or none, with a "/" at its end or    *)
(* not, and whatever the names, even those that are words of a path, a     *)
(* request of client.rs does what its method is documented to do, to the   *)
(* object it names, or nothing: it is Ok only if it did, and answered with *)
(* an error of the server's only if it did nothing.                        *)
THEOREM CallsReachTheirObject == EndpointSpec => OnlyNamedObject
<1> DEFINE A == calls' # calls =>
                  LET meant == AsDocumented(asked'[1], asked'[2], asked'[3])
                  IN /\ world' \in {world, meant}
                     /\ told' = OkResult => world' = meant
                     /\ told'.variant = "Response" => world' = world
<1>1. EndpointIInv /\ [EndpointNext]_endpointVars => [A]_endpointVars
  <2> SUFFICES ASSUME EndpointIInv, NEW op \in Ops, NEW n \in Names, NEW k \in Names, Call(op, n, k)
               PROVE  A
    BY DEF EndpointNext
  <2>1. /\ asked' = <<op, n, k>>
        /\ world' \in {world, AsDocumented(op, n, k)}
        /\ told' = OkResult => world' = AsDocumented(op, n, k)
        /\ told'.variant = "Response" => world' = world
    BY CallDoes
  <2>2. asked'[1] = op /\ asked'[2] = n /\ asked'[3] = k
    BY <2>1
  <2> QED BY <2>1, <2>2
<1> QED BY <1>1, Started, Kept, PTL DEF EndpointSpec, OnlyNamedObject
=============================================================================
