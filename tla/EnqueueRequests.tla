--------------------------- MODULE EnqueueRequests ---------------------------
(***************************************************************************)
(* Jobs on their way to the server: EnqueueBuilder over the defaults of a  *)
(* JobKind (enqueue.rs, job.rs), the bulk builder, and the cron groups     *)
(* whose entries hold such a request as their template (cron.rs).          *)
(***************************************************************************)
EXTENDS Integers, Sequences, SequencesExt, JobFilters

CONSTANTS
  JobKinds,          \* the kinds: their defaults, and whether a payload encodes
  FieldChoices,      \* [Settable -> values given to the setters]
  BudgetChoices,     \* the bindings given to budget() and budgets()
  MaxEnqueueCalls    \* bound: setters, options and pauses of one program

(* ready_at is also set by delay and run_at. *)
Settable ==
  {"queue", "priority", "ready_at", "retry_limit", "backoff", "retention", "unique", "batch"}

(* A JobKind's defaults are each an Option. *)
ASSUME DefaultsAssumption ==
  \A kind \in JobKinds, f \in Settable :
    kind.defaults[f] # None => kind.defaults[f] = Some(kind.defaults[f][1])

VARIABLES
  way,         \* how the jobs are sent: "single", "bulk", "cron" or not yet chosen
  building,    \* the EnqueueBuilder in hand, if any
  said,        \* history: the setters called on it, in order
  collected,   \* the requests in the BulkEnqueueBuilder or the entries of a group
  meantJobs,   \* history: what the caller meant each of those to be
  group,       \* ReplaceCronBuilder's paused and timezone
  cron,        \* the server's group, if any
  created,     \* the server's jobs, and what each was meant to be
  sent,        \* what the last send returned, if any
  spent        \* the calls made, of MaxEnqueueCalls

enqueueVars == <<way, building, said, collected, meantJobs, group, cron, created, sent, spent>>

NoGroup == [paused |-> None, timezone |-> None]

-----------------------------------------------------------------------------
(* Option::or *)
Else(option, default) == IF option = None THEN default ELSE option

NewEnqueue(kind) == [kind |-> kind, fields |-> [f \in Settable |-> None], budgets |-> None]

(* A setter of a field replaces it; the first budget() starts a list. *)
SetBudget(b, binding) == [b EXCEPT !.budgets = Some(Append(Else(@, Some(<<>>))[1], binding))]

SetBudgets(b, bindings) == [b EXCEPT !.budgets = Some(bindings)]

Setters ==
  [is : {"field"}, name : Settable, value : UNION {FieldChoices[f] : f \in Settable}]
    \cup [is : {"budget"}, binding : BudgetChoices]
    \cup [is : {"budgets"}, bindings : {<<>>} \cup {<<b>> : b \in BudgetChoices}]

Set(b, call) ==
  CASE call.is = "field"   -> [b EXCEPT !.fields[call.name] = Some(call.value)]
    [] call.is = "budget"  -> SetBudget(b, call.binding)
    [] OTHER -> SetBudgets(b, call.bindings)

(* into_request.  A kind has no default ready_at. *)
IntoRequest(b) ==
  [type |-> b.kind.name, encodes |-> b.kind.encodes,
   fields |-> [f \in Settable |-> Else(b.fields[f], b.kind.defaults[f])],
   budgets |-> Else(b.budgets, Some(b.kind.budgets))[1]]

(* The body leaves out what is None, and no budgets. *)
Body(request) ==
  [x \in {"type", "budgets"} \cup {f \in Settable : request.fields[f] # None} |->
     IF x \in Settable THEN request.fields[x][1] ELSE request[x]]

(* The server gives what is left out its own default. *)
JobOf(body) ==
  [type |-> body.type, budgets |-> body.budgets,
   fields |-> [f \in Settable |-> IF f \in DOMAIN body THEN Some(body[f]) ELSE None]]

-----------------------------------------------------------------------------
(* What the calls about each thing mean, put together: the last one counts,*)
(* but for budget() after the last budgets() or clear_budgets().           *)
About(name) == {i \in DOMAIN said : said[i].is = "field" /\ said[i].name = name}

Replacing == {i \in DOMAIN said : said[i].is = "budgets"}
Adding == {i \in DOMAIN said : said[i].is = "budget" /\ \A j \in Replacing : j < i}

LastOf(places) == CHOOSE i \in places : \A j \in places : j <= i

MeantFields(kind) ==
  [f \in Settable |-> IF About(f) = {} THEN kind.defaults[f] ELSE Some(said[LastOf(About(f))].value)]

MeantBudgets(kind) ==
  IF Replacing \cup Adding = {} THEN kind.budgets
  ELSE (IF Replacing = {} THEN <<>> ELSE said[LastOf(Replacing)].bindings)
         \o [n \in 1 .. Cardinality(Adding) |->
               LET place == CHOOSE i \in Adding : Cardinality({j \in Adding : j <= i}) = n
               IN said[place].binding]

MeantJob(kind) == [type |-> kind.name, fields |-> MeantFields(kind), budgets |-> MeantBudgets(kind)]

-----------------------------------------------------------------------------
EnqueueInit ==
  /\ way = "none"
  /\ building = None
  /\ said = <<>>
  /\ collected = <<>>
  /\ meantJobs = <<>>
  /\ group = NoGroup
  /\ cron \in {None, Some([paused |-> TRUE, timezone |-> Some("Berlin"), entries |-> <<>>])}
  /\ created = <<>>
  /\ sent = None
  /\ spent = 0

Spend(calls) == spent + calls <= MaxEnqueueCalls /\ spent' = spent + calls

(* enqueue(), for a program of its own or within one of many jobs. *)
StartEnqueue(how, kind) ==
  /\ way \in {"none", how} /\ building = None /\ sent = None
  /\ how = "single" => way = "none"
  /\ way' = how
  /\ building' = Some(NewEnqueue(kind))
  /\ said' = <<>>
  /\ UNCHANGED <<collected, meantJobs, group, cron, created, sent, spent>>

CallSetter(call) ==
  /\ building # None /\ Spend(1)
  /\ call.is = "field" => call.value \in FieldChoices[call.name]
  /\ building' = Some(Set(building[1], call))
  /\ said' = Append(said, call)
  /\ UNCHANGED <<way, collected, meantJobs, group, cron, created, sent>>

(* push and add of the bulk builder; CronEntry::new, with its own timezone *)
(* and paused, and ReplaceCronBuilder::entry.                              *)
AddToBatch(timezone, paused) ==
  /\ building # None /\ way \in {"bulk", "cron"} /\ Len(collected) < 2
  /\ Spend(Len(timezone) + Len(paused))
  /\ way = "bulk" => timezone = None /\ paused = None
  /\ collected' = Append(collected, [job |-> IntoRequest(building[1]), timezone |-> timezone, paused |-> paused])
  /\ meantJobs' = Append(meantJobs, MeantJob(building[1].kind))
  /\ building' = None
  /\ said' = <<>>
  /\ UNCHANGED <<way, group, cron, created, sent>>

SetGroup(field, value) ==
  /\ way = "cron" /\ sent = None /\ building = None /\ group[field] = None /\ Spend(1)
  /\ group' = [group EXCEPT ![field] = Some(value)]
  /\ UNCHANGED <<way, building, said, collected, meantJobs, cron, created, sent>>

(* The request of one job, and of many.  A payload that does not encode    *)
(* fails in encode_body, before anything is sent.                          *)
Enqueues(requests, meant) ==
  /\ IF \A i \in DOMAIN requests : requests[i].encodes
     THEN /\ created' = created \o [i \in DOMAIN requests |->
                                      [job |-> JobOf(Body(requests[i])), meant |-> meant[i]]]
          /\ sent' = Some("Ok")
     ELSE /\ sent' = Some("Encode")
          /\ UNCHANGED created

SendSingle ==
  /\ way = "single" /\ building # None
  /\ Enqueues(<<IntoRequest(building[1])>>, <<MeantJob(building[1].kind)>>)
  /\ building' = None
  /\ UNCHANGED <<way, said, collected, meantJobs, group, cron, spent>>

M_SendBulk ==
  /\ way = "bulk" /\ building = None /\ sent = None
  /\ Enqueues(SelectSeq([i \in DOMAIN collected |-> collected[i].job], LAMBDA r : r.encodes), meantJobs)
  /\ UNCHANGED <<way, building, said, collected, meantJobs, group, cron, spent>>

SendBulk ==
  /\ way = "bulk" /\ building = None /\ sent = None
  /\ Enqueues([i \in DOMAIN collected |-> collected[i].job], meantJobs)
  /\ UNCHANGED <<way, building, said, collected, meantJobs, group, cron, spent>>

(* PUT /crons/{name} replaces the group: a timezone left out is cleared, a *)
(* paused left out is kept.  A template with a ready_at is refused.        *)
ReplaceCron ==
  LET jobs == [i \in DOMAIN collected |-> collected[i].job]
      old == IF cron = None THEN FALSE ELSE cron[1].paused
  IN /\ way = "cron" /\ building = None /\ sent = None
     /\ IF \E i \in DOMAIN jobs : ~jobs[i].encodes
        THEN sent' = Some("Encode") /\ UNCHANGED cron
        ELSE IF \E i \in DOMAIN jobs : "ready_at" \in DOMAIN Body(jobs[i])
        THEN sent' = Some("Refused") /\ UNCHANGED cron
        ELSE /\ sent' = Some("Ok")
             /\ cron' = Some([paused |-> Else(group.paused, Some(old))[1], timezone |-> group.timezone,
                              entries |-> [i \in DOMAIN jobs |->
                                [body |-> Body(jobs[i]), timezone |-> collected[i].timezone,
                                 paused |-> Else(collected[i].paused, Some(FALSE))[1], meant |-> meantJobs[i]]]])
     /\ UNCHANGED <<way, building, said, collected, meantJobs, group, created, spent>>

(* pause_cron, resume_cron and those of an entry. *)
PatchPaused(i, paused) ==
  /\ cron # None /\ created = <<>> /\ Spend(1)
  /\ IF i = 0 THEN cron' = [cron EXCEPT ![1].paused = paused]
     ELSE i \in DOMAIN cron[1].entries /\ cron' = [cron EXCEPT ![1].entries[i].paused = paused]
  /\ UNCHANGED <<way, building, said, collected, meantJobs, group, created, sent>>

(* The server enqueues what an entry holds. *)
Tick(i) ==
  /\ cron # None /\ created = <<>>
  /\ i \in DOMAIN cron[1].entries
  /\ ~cron[1].paused /\ ~cron[1].entries[i].paused
  /\ created' = <<[job |-> JobOf(cron[1].entries[i].body), meant |-> cron[1].entries[i].meant]>>
  /\ UNCHANGED <<way, building, said, collected, meantJobs, group, cron, sent, spent>>

EnqueueNext ==
  \/ \E how \in {"single", "bulk", "cron"}, kind \in JobKinds : StartEnqueue(how, kind)
  \/ \E call \in Setters : CallSetter(call)
  \/ \E timezone \in OptionOf({"Berlin"}), paused \in OptionOf(BOOLEAN) : AddToBatch(timezone, paused)
  \/ SetGroup("timezone", "Melbourne") \/ \E p \in BOOLEAN : SetGroup("paused", p)
  \/ SendSingle \/ SendBulk \/ ReplaceCron
  \/ \E i \in 0 .. 2, paused \in BOOLEAN : PatchPaused(i, paused)
  \/ \E i \in 1 .. 2 : Tick(i)

EnqueueSpec == EnqueueInit /\ [][EnqueueNext]_enqueueVars

-----------------------------------------------------------------------------
(* Every job the server creates, at once or on a tick of a cron entry, is  *)
(* what its builder's calls and its kind's defaults mean, whatever order   *)
(* they were made in; and a send creates every job collected, in order, or *)
(* none if one does not encode.                                            *)
EnqueuedAsAsked ==
  /\ \A i \in DOMAIN created : created[i].job = created[i].meant
  /\ way = "bulk" /\ sent # None =>
       IF sent = Some("Ok") THEN [i \in DOMAIN created |-> created[i].meant] = meantJobs
       ELSE created = <<>>
=============================================================================
