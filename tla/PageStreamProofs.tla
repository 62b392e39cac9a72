-------------------------- MODULE PageStreamProofs ---------------------------
(* Theorems about PageStream: any ids, any page size, either order. *)
EXTENDS PageStream, FiniteSetTheorems, TLAPS

(* The listing is cut in three: what was yielded, the rest of the page,    *)
(* and what the cursor still leads to.                                     *)
InOrder ==
  /\ \A y \in yielded, b \in buffer : Before(y, b)
  /\ \A y \in yielded \cup buffer, a \in cursor.ahead : Before(y, a)

DoneLeadsNowhere == cursor.page = "done" => cursor.ahead = {}

(* What the caller always wanted is in one of the three, unless the stream *)
(* broke off.                                                              *)
Covered == ended # "error" => always \subseteq yielded \cup buffer \cup cursor.ahead

FinishedEmpty == ended = "none" => buffer = {} /\ cursor.page = "done"

(* Only what was wanted is always wanted, and nobody asks the server for   *)
(* an empty list.                                                          *)
AsWanted ==
  /\ always \subseteq Wanted(filter, jobs, matching)
  /\ Wanted(filter, jobs, matching) \subseteq ever
  /\ yielded \cup buffer \subseteq ever
  /\ filter = "empty" => cursor.page = "done"

IInv ==
  /\ TypeOK
  /\ InOrder
  /\ DoneLeadsNowhere
  /\ Covered
  /\ FinishedEmpty
  /\ AsWanted

-----------------------------------------------------------------------------
LEMMA BeforeOrder ==
  ASSUME NEW i \in Ids, NEW j \in Ids, NEW k \in Ids
  PROVE  /\ ~Before(i, i)
         /\ Before(i, j) /\ Before(j, k) => Before(i, k)
         /\ i = j \/ Before(i, j) \/ Before(j, i)
  BY PageAssumption DEF Before

LEMMA WantedListed ==
  ASSUME TypeOK
  PROVE  /\ filter # "empty" => Wanted(filter, jobs, matching) = Listed
         /\ Wanted(filter, jobs, matching) \subseteq Ids
         /\ Listed \subseteq Ids
<1>1. CASE filter = "none"
  BY <1>1 DEF TypeOK, Wanted, Listed
<1>2. CASE filter = "some"
  BY <1>2 DEF TypeOK, Wanted, Listed
<1>3. CASE filter = "empty"
  BY <1>3 DEF TypeOK, Wanted, Listed
<1> QED BY <1>1, <1>2, <1>3 DEF TypeOK

LEMMA InitInv == Init => IInv
<1> SUFFICES ASSUME Init PROVE IInv
  OBVIOUS
<1> PICK base \in Bases :
      /\ cursor = StartCursor(base)
      /\ always = Wanted(filter, jobs, matching) \cap base
      /\ ever = Wanted(filter, jobs, matching)
  BY DEF Init
<1>0. base \in SUBSET Ids
  BY DEF Bases
<1>1. Cardinality({}) = 0
  BY FS_EmptySet
<1>2. Wanted(filter, jobs, matching) \subseteq Ids
  BY DEF Init, Wanted
<1>3. /\ cursor \in Cursors
      /\ DoneLeadsNowhere
      /\ filter = "empty" => cursor.page = "done" /\ Wanted(filter, jobs, matching) = {}
      /\ filter # "empty" => cursor.ahead = base
  BY <1>0 DEF Init, StartCursor, Done, Cursors, DoneLeadsNowhere, Wanted
<1>4. TypeOK
  BY <1>0, <1>1, <1>2, <1>3, PageAssumption DEF Init, TypeOK
<1> QED BY <1>3, <1>4 DEF Init, IInv, InOrder, Covered, FinishedEmpty, AsWanted

-----------------------------------------------------------------------------
LEMMA YieldInv ==
  ASSUME IInv, Yield
  PROVE  IInv' /\ \A i \in buffer \ buffer' : i \notin yielded /\ \A j \in yielded : Before(j, i)
<1> USE DEF IInv
<1> PICK i \in buffer :
      /\ \A j \in buffer : ~Before(j, i)
      /\ buffer' = buffer \ {i}
      /\ yielded' = yielded \cup {i}
  BY DEF Yield
<1>0. UNCHANGED <<filter, jobs, matching, cursor, ended, always, ever>> /\ ended = "no"
  BY DEF Yield, server
<1>1. \A j \in buffer \ {i} : Before(i, j)
  BY BeforeOrder DEF TypeOK
<1>2. TypeOK'
  <2>1. IsFiniteSet(buffer)
    BY PageAssumption, FS_Subset DEF TypeOK
  <2>2. Cardinality(buffer \ {i}) = Cardinality(buffer) - 1 /\ Cardinality(buffer) \in Nat
    BY <2>1, FS_RemoveElement, FS_CardinalityType
  <2>3. Cardinality(buffer') <= Limit
    BY <2>2, PageAssumption DEF TypeOK
  <2> QED BY <1>0, <2>3 DEF TypeOK
<1>3. InOrder'
  BY <1>0, <1>1 DEF InOrder
<1>4. Covered' /\ DoneLeadsNowhere' /\ FinishedEmpty' /\ AsWanted'
  BY <1>0 DEF Covered, DoneLeadsNowhere, FinishedEmpty, AsWanted
<1>5. \A j \in yielded : Before(j, i)
  BY DEF InOrder
<1>6. i \notin yielded
  BY <1>5, BeforeOrder DEF TypeOK
<1> QED BY <1>2, <1>3, <1>4, <1>5, <1>6

LEMMA FetchInv ==
  ASSUME IInv, FetchPage
  PROVE  IInv' /\ buffer = {}
<1> USE DEF IInv
<1> PICK scanned \in SUBSET cursor.ahead, linked \in BOOLEAN :
      /\ Page(cursor.ahead, scanned, linked)
      /\ buffer' = scanned \cap Listed
      /\ cursor' = NextCursor(cursor.ahead, scanned, linked)
  BY DEF FetchPage
<1>0. /\ UNCHANGED <<filter, jobs, matching, yielded, ended, always, ever>>
      /\ ended = "no" /\ buffer = {} /\ cursor.page # "done"
  BY DEF FetchPage, server
<1>1. /\ cursor.ahead \subseteq Ids
      /\ Listed \subseteq Ids
      /\ Wanted(filter, jobs, matching) = Listed
  BY <1>0, WantedListed DEF TypeOK, Cursors, AsWanted
<1>2. /\ cursor' \in Cursors
      /\ cursor'.ahead \subseteq cursor.ahead \ scanned
      /\ (cursor.ahead \ scanned) \cap Listed \subseteq cursor'.ahead
      /\ DoneLeadsNowhere'
  BY <1>1 DEF NextCursor, Done, Cursors, Page, DoneLeadsNowhere
<1>3. TypeOK'
  BY <1>0, <1>1, <1>2 DEF TypeOK, Page
<1>4. \A b \in scanned, a \in cursor.ahead \ scanned : Before(b, a)
  BY <1>1, BeforeOrder DEF Page
<1>5. InOrder'
  BY <1>0, <1>2, <1>4 DEF InOrder
<1>6. Covered'
  BY <1>0, <1>1, <1>2 DEF Covered, AsWanted
<1>7. FinishedEmpty' /\ AsWanted'
  BY <1>0, <1>1 DEF FinishedEmpty, AsWanted
<1> QED BY <1>0, <1>2, <1>3, <1>5, <1>6, <1>7

LEMMA EndInv ==
  ASSUME IInv, FetchFails \/ Finish
  PROVE  IInv' /\ buffer = {}
<1> USE DEF IInv
<1>0. /\ UNCHANGED <<filter, jobs, matching, buffer, yielded, always, ever>>
      /\ buffer = {}
      /\ cursor' \in {Done, cursor}
      /\ \/ ended' = "error" /\ cursor' = Done
         \/ ended' = "none" /\ cursor' = cursor /\ cursor.page = "done" /\ ended = "no"
  BY DEF FetchFails, Finish, server
<1>1. Done \in Cursors /\ Done.page = "done" /\ Done.ahead = {}
  BY DEF Done, Cursors
<1> HIDE DEF Done
<1>2. TypeOK'
  BY <1>0, <1>1 DEF TypeOK
<1>3. InOrder' /\ DoneLeadsNowhere' /\ FinishedEmpty' /\ AsWanted'
  BY <1>0, <1>1 DEF InOrder, DoneLeadsNowhere, FinishedEmpty, AsWanted
<1>4. Covered'
  BY <1>0, <1>1 DEF Covered
<1> QED BY <1>0, <1>2, <1>3, <1>4

LEMMA ChangeInv ==
  ASSUME IInv, ServerChanges
  PROVE  IInv' /\ buffer' = buffer
<1> USE DEF IInv
<1>0. /\ UNCHANGED <<filter, cursor, buffer, yielded, ended>>
      /\ always' = always \cap Wanted(filter, jobs', matching')
      /\ ever' = ever \cup Wanted(filter, jobs', matching')
      /\ jobs' \in SUBSET Ids
      /\ matching' \in SUBSET jobs'
  BY DEF ServerChanges, TypeOK
<1>1. Wanted(filter, jobs', matching') \subseteq Ids
  BY <1>0 DEF Wanted, TypeOK
<1>2. TypeOK'
  BY <1>0, <1>1 DEF TypeOK
<1>3. InOrder' /\ DoneLeadsNowhere' /\ Covered' /\ FinishedEmpty'
  BY <1>0 DEF InOrder, DoneLeadsNowhere, Covered, FinishedEmpty
<1>4. Wanted(filter, jobs, matching)' = Wanted(filter, jobs', matching')
  BY <1>0 DEF Wanted
<1>5. AsWanted'
  BY <1>0, <1>4 DEF AsWanted
<1> QED BY <1>0, <1>2, <1>3, <1>5

LEMMA StepInv == IInv /\ [Next]_vars => IInv'
<1> SUFFICES ASSUME IInv, [Next]_vars PROVE IInv'
  OBVIOUS
<1>1. CASE UNCHANGED vars
  <2>1. UNCHANGED <<filter, jobs, matching, cursor, buffer, yielded, ended, always, ever>>
    BY <1>1 DEF vars
  <2> QED BY <2>1 DEF IInv, TypeOK, InOrder, DoneLeadsNowhere, Covered, FinishedEmpty,
        AsWanted, Wanted
<1> QED BY <1>1, YieldInv, FetchInv, EndInv, ChangeInv DEF Next, PollNext

-----------------------------------------------------------------------------
(* The variables of a stream keep to their types, and it holds at most one *)
(* page, for any ids, page size and order.                                 *)
THEOREM TypeCorrect == Spec => []TypeOK
<1>1. IInv => TypeOK
  BY DEF IInv
<1> QED BY <1>1, InitInv, StepInv, PTL DEF Spec

(* Completeness: a stream that ends with None has missed no record that    *)
(* matched throughout, whatever came, went or changed meanwhile.           *)
THEOREM Complete == Spec => []NoneMissed
<1>1. IInv => NoneMissed
  BY DEF IInv, NoneMissed, Covered, FinishedEmpty, DoneLeadsNowhere
<1> QED BY <1>1, InitInv, StepInv, PTL DEF Spec

(* Soundness: it yields only records that matched at some time since the   *)
(* call; none for a filter that is an empty list.                          *)
THEOREM Sound == Spec => []OnlyWanted
<1>1. IInv => OnlyWanted
  BY DEF IInv, OnlyWanted, AsWanted
<1> QED BY <1>1, InitInv, StepInv, PTL DEF Spec

(* No record is yielded twice, and each comes after those before it in the *)
(* order that was asked for.                                               *)
THEOREM Ordered == Spec => InOrderOnce
<1> DEFINE Step == \A i \in buffer \ buffer' : i \notin yielded /\ \A j \in yielded : Before(j, i)
<1>1. IInv /\ [Next]_vars => [Step]_vars
  BY YieldInv, FetchInv, EndInv, ChangeInv DEF Next, PollNext
<1> QED BY <1>1, InitInv, StepInv, PTL DEF Spec, InOrderOnce
=============================================================================
