----------------------------- MODULE PageStream ------------------------------
(***************************************************************************)
(* ListJobsBuilder::stream and ListErrorsBuilder::stream of zizq/src:      *)
(* every matching record, one page at a time, while jobs come, go and      *)
(* change at the server between one page and the next.                     *)
(***************************************************************************)
EXTENDS Naturals, FiniteSets

CONSTANTS
  Ids,          \* the ids records may have: numbers, in the order of their ids
  Limit,        \* the most records the server puts on a page
  Descending    \* ListJobsBuilder::order

ASSUME PageAssumption ==
  /\ Ids \subseteq Nat
  /\ IsFiniteSet(Ids)
  /\ Limit \in Nat \ {0}
  /\ Descending \in BOOLEAN

VARIABLES
  filter,    \* the filters of the builder: "none", "some" or "empty" (one is an empty list)
  jobs,      \* the records at the server
  matching,  \* those of them the filters select
  cursor,    \* JobStreamState::cursor
  buffer,    \* JobStreamState::buffer
  yielded,   \* what the caller has got
  ended,     \* "no", "none" (the caller got None) or "error" (it got an Err)
  always,    \* history: what the caller has wanted ever since it called stream()
  ever       \* history: what it has wanted at some time since

server == <<jobs, matching>>
vars == <<filter, jobs, matching, cursor, buffer, yielded, ended, always, ever>>

Before(i, j) == IF Descending THEN i > j ELSE i < j

(* What the caller asked for, and what the server lists: it reads an empty *)
(* list as no filter.                                                      *)
Wanted(f, all, some) ==
  CASE f = "none" -> all
    [] f = "some" -> some
    [] f = "empty" -> {}

Listed == IF filter = "some" THEN matching ELSE jobs

(* Where the next page comes from: the builder's URL, a path of the        *)
(* server's, or nowhere; and the ids such a request is about.              *)
Done == [page |-> "done", ahead |-> {}]

Cursors == [page : {"first", "next", "done"}, ahead : SUBSET Ids]

M_StartCursor(base) == [page |-> "first", ahead |-> base]

StartCursor(base) ==
  IF filter = "empty" THEN Done ELSE [page |-> "first", ahead |-> base]

(* Everything, or what comes after the cursor the caller set. *)
Bases == {Ids} \cup {{i \in Ids : Before(f, i)} : f \in Ids}

-----------------------------------------------------------------------------
Init ==
  /\ filter \in {"none", "some", "empty"}
  /\ jobs \in SUBSET Ids
  /\ matching \in SUBSET jobs
  /\ \E base \in Bases :
       /\ cursor = StartCursor(base)
       /\ always = Wanted(filter, jobs, matching) \cap base
       /\ ever = Wanted(filter, jobs, matching)
  /\ buffer = {}
  /\ yielded = {}
  /\ ended = "no"

M_Yield ==
  /\ ended = "no"
  /\ \E i \in buffer :
       /\ \A j \in buffer : ~Before(i, j)
       /\ buffer' = buffer \ {i}
       /\ yielded' = yielded \cup {i}
  /\ UNCHANGED <<filter, server, cursor, ended, always, ever>>

(* The buffered records first, in the order the server listed them. *)
Yield ==
  /\ ended = "no"
  /\ \E i \in buffer :
       /\ \A j \in buffer : ~Before(j, i)
       /\ buffer' = buffer \ {i}
       /\ yielded' = yielded \cup {i}
  /\ UNCHANGED <<filter, server, cursor, ended, always, ever>>

M_NextCursor(ahead, scanned, linked) ==
  IF linked /\ scanned \cap Listed # {} THEN [page |-> "next", ahead |-> ahead \ scanned] ELSE Done

M_NextCursorKept(ahead, scanned, linked) ==
  IF linked THEN [page |-> "next", ahead |-> ahead] ELSE Done

NextCursor(ahead, scanned, linked) ==
  IF linked THEN [page |-> "next", ahead |-> ahead \ scanned] ELSE Done

(* The server scans some way along the listing and puts what it finds on   *)
(* the page, which links to the rest if there is more, and may if not.     *)
Page(ahead, scanned, linked) ==
  /\ \A i \in scanned, j \in ahead : Before(j, i) => j \in scanned
  /\ Cardinality(scanned \cap Listed) <= Limit
  /\ ~linked => (ahead \ scanned) \cap Listed = {}
  /\ linked => scanned # {}

M_FetchPage ==
  /\ ended = "no"
  /\ cursor.page # "done"
  /\ \E scanned \in SUBSET cursor.ahead, linked \in BOOLEAN :
       /\ Page(cursor.ahead, scanned, linked)
       /\ buffer' = buffer \cup (scanned \cap Listed)
       /\ cursor' = NextCursor(cursor.ahead, scanned, linked)
  /\ UNCHANGED <<filter, server, yielded, ended, always, ever>>

FetchPage ==
  /\ ended = "no"
  /\ buffer = {}
  /\ cursor.page # "done"
  /\ \E scanned \in SUBSET cursor.ahead, linked \in BOOLEAN :
       /\ Page(cursor.ahead, scanned, linked)
       /\ buffer' = scanned \cap Listed
       /\ cursor' = NextCursor(cursor.ahead, scanned, linked)
  /\ UNCHANGED <<filter, server, yielded, ended, always, ever>>

(* A transport error, an error response, a body that does not decode, or a *)
(* path that leads to another host.                                        *)
FetchFails ==
  /\ ended = "no"
  /\ buffer = {}
  /\ cursor.page # "done"
  /\ ended' = "error"
  /\ cursor' = Done
  /\ UNCHANGED <<filter, server, buffer, yielded, always, ever>>

Finish ==
  /\ ended = "no"
  /\ buffer = {}
  /\ cursor.page = "done"
  /\ ended' = "none"
  /\ UNCHANGED <<filter, server, cursor, buffer, yielded, always, ever>>

(* Records come, go, and start or stop to match. *)
ServerChanges ==
  /\ ended = "no"
  /\ \E i \in Ids :
       \/ /\ jobs' = jobs \cup {i}
          /\ matching' \in {matching, matching \cup {i}}
       \/ /\ jobs' = jobs \ {i}
          /\ matching' = matching \ {i}
       \/ /\ i \in jobs
          /\ jobs' = jobs
          /\ matching' \in {matching \cup {i}, matching \ {i}}
  /\ server' # server
  /\ always' = always \cap Wanted(filter, jobs', matching')
  /\ ever' = ever \cup Wanted(filter, jobs', matching')
  /\ UNCHANGED <<filter, cursor, buffer, yielded, ended>>

-----------------------------------------------------------------------------
PollNext == Yield \/ FetchPage \/ FetchFails \/ Finish

Next == PollNext \/ ServerChanges

Spec == Init /\ [][Next]_vars

(* A caller that asks for item after item. *)
FairSpec == Spec /\ WF_vars(PollNext)

-----------------------------------------------------------------------------
(* Types; and only one page is held in memory at a time. *)
TypeOK ==
  /\ filter \in {"none", "some", "empty"}
  /\ jobs \in SUBSET Ids
  /\ matching \in SUBSET jobs
  /\ cursor \in Cursors
  /\ buffer \in SUBSET Ids
  /\ Cardinality(buffer) <= Limit
  /\ yielded \in SUBSET Ids
  /\ ended \in {"no", "none", "error"}
  /\ always \in SUBSET Ids
  /\ ever \in SUBSET Ids

(* Whatever changes between two pages, a record is yielded at most once,   *)
(* and the records come in the order that was asked for.                   *)
InOrderOnce ==
  [][\A i \in buffer \ buffer' : i \notin yielded /\ \A j \in yielded : Before(j, i)]_vars

(* A stream that ends with None has yielded every record that matched from *)
(* the call of stream() on.                                                *)
NoneMissed == ended = "none" => always \subseteq yielded

(* It yields only what the caller wanted at some time since: nothing at    *)
(* all for a filter that is an empty list.                                 *)
OnlyWanted == yielded \subseteq ever

(* A caller that goes on polling gets to the end, however often records    *)
(* come and go, as long as no new ids keep coming: there are finitely many *)
(* of them here.                                                           *)
StreamEnds == <>(ended # "no")
=============================================================================
