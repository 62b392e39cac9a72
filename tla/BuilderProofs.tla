---------------------------- MODULE BuilderProofs -----------------------------
(***************************************************************************)
(* Theorems about the builders: of a worker (WorkerBuilder), of the jobs   *)
(* sent to the server (EnqueueRequests), of the patches of a job or a      *)
(* budget (Patches), of a job kind (KindDerive), of a router's table       *)
(* (Router) and of a change to many jobs (BulkJobs), whatever is set in    *)
(* whatever order.                                                         *)
(***************************************************************************)
EXTENDS WorkerBuilder, EnqueueRequests, Patches, KindDerive, Router, BulkJobs, FiniteSetTheorems,
        SequenceTheorems, TLAPS

-----------------------------------------------------------------------------
(* What the setters keep true of each other's fields. *)
WorkerInv ==
  /\ TypeOK
  /\ concurrency # 0
  /\ explicit # Unset => prefetch = explicit
  /\ explicit = Unset => prefetch # 0
  /\ IsBuilt => built.prefetch = IF prefetch = Unset THEN concurrency ELSE prefetch

LEMMA WorkerStep == WorkerInv /\ [Next]_vars => WorkerInv'
<1> SUFFICES ASSUME WorkerInv, [Next]_vars PROVE WorkerInv'
  OBVIOUS
<1> USE SizesAssumption DEF WorkerInv, TypeOK, IsBuilt
<1>0. CASE UNCHANGED vars
  BY <1>0 DEF vars
<1>1. CASE SetClient /\ built = NotBuilt
  BY <1>1 DEF SetClient, NotBuilt
<1>2. CASE SetHandler /\ built = NotBuilt
  BY <1>2 DEF SetHandler, NotBuilt
<1>3. ASSUME NEW n \in Sizes, SetConcurrency(n), built = NotBuilt PROVE WorkerInv'
  BY <1>3 DEF SetConcurrency, NotBuilt
<1>4. ASSUME NEW n \in Sizes, SetPrefetch(n), built = NotBuilt PROVE WorkerInv'
  BY <1>4 DEF SetPrefetch, NotBuilt
<1>5. ASSUME NEW enabled \in BOOLEAN, SetReconnect(enabled), built = NotBuilt PROVE WorkerInv'
  BY <1>5 DEF SetReconnect, NotBuilt
<1>6. CASE Build
  <2>1. UNCHANGED <<client, handler, concurrency, prefetch, reconnect, explicit>>
    BY <1>6 DEF Build
  <2>2. CASE client /\ handler
    <3>1. built' = Worker(concurrency, IF prefetch = Unset THEN concurrency ELSE prefetch, reconnect)
      BY <1>6, <2>2 DEF Build
    <3> QED BY <2>1, <3>1 DEF Worker
  <2>3. CASE ~(client /\ handler)
    <3>1. built'.is \in {"MissingClient", "MissingHandler"}
      BY <1>6, <2>3 DEF Build
    <3> QED BY <2>1, <3>1
  <2> QED BY <2>2, <2>3
<1> QED BY <1>0, <1>1, <1>2, <1>3, <1>4, <1>5, <1>6 DEF Next

LEMMA WorkerInit == Init => WorkerInv
<1> SUFFICES ASSUME Init PROVE WorkerInv
  OBVIOUS
<1>1. ~IsBuilt
  BY DEF Init, IsBuilt, NotBuilt
<1>2. TypeOK
  BY <1>1 DEF Init, TypeOK
<1>3. Unset # 0 /\ Unset # 1
  BY SizesAssumption
<1> QED BY <1>1, <1>2, <1>3 DEF Init, WorkerInv

(* The fields of a builder keep their types, and a built worker has its    *)
(* concurrency and reconnect, whatever setters were called in what order.  *)
THEOREM BuilderTypes == Spec => []TypeOK
<1>1. WorkerInv => TypeOK
  BY DEF WorkerInv
<1> QED BY <1>1, WorkerInit, WorkerStep, PTL DEF Spec

(* Whatever the setters were given and in whatever order, a built worker   *)
(* has room for a task, and for a prefetch its caller did not set to 0.    *)
THEOREM BuiltFitToRun == Spec => []FitToRun
<1>1. WorkerInv => FitToRun
  BY SizesAssumption DEF WorkerInv, TypeOK, FitToRun, IsBuilt, Worker
<1> QED BY <1>1, WorkerInit, WorkerStep, PTL DEF Spec

(* concurrency() never overrides a prefetch() of the caller's, called      *)
(* before it or after.                                                     *)
THEOREM ExplicitWins == Spec => []ExplicitPrefetchKept
<1>1. WorkerInv => ExplicitPrefetchKept
  BY SizesAssumption DEF WorkerInv, TypeOK, ExplicitPrefetchKept, IsBuilt
<1> QED BY <1>1, WorkerInit, WorkerStep, PTL DEF Spec

-----------------------------------------------------------------------------
(* The jobs.  What a builder holds is what its calls mean, with nothing    *)
(* where none was made.                                                    *)
Said(f) == IF About(f) = {} THEN None ELSE Some(said[LastOf(About(f))].value)

NthOf(places, n) == CHOOSE i \in places : Cardinality({j \in places : j <= i}) = n

Replaced == IF Replacing = {} THEN <<>> ELSE said[LastOf(Replacing)].bindings
Added == [n \in 1 .. Cardinality(Adding) |-> said[NthOf(Adding, n)].binding]

BuilderOf(kind) ==
  [kind |-> kind, fields |-> [f \in Settable |-> Said(f)],
   budgets |-> IF Replacing \cup Adding = {} THEN None ELSE Some(Replaced \o Added)]

(* The last call about a thing is one of them, and so is the nth budget(). *)
HasLast(places) == places # {} => LastOf(places) \in places

PlacesFound ==
  /\ \A f \in Settable : HasLast(About(f))
  /\ HasLast(Replacing)
  /\ \A n \in 1 .. Cardinality(Adding) :
       \E i \in Adding : Cardinality({j \in Adding : j <= i}) = n

(* The requests that the calls and the kinds can make, and what they mean. *)
FieldValues ==
  OptionOf(UNION {FieldChoices[f] : f \in Settable}) \cup {kind.defaults[f] : kind \in JobKinds, f \in Settable}

BudgetLists == Seq(BudgetChoices) \cup {kind.budgets : kind \in JobKinds}

Meanings ==
  [type : {kind.name : kind \in JobKinds}, fields : [Settable -> FieldValues], budgets : BudgetLists]

EnqueueRequest ==
  [type : {kind.name : kind \in JobKinds}, encodes : {kind.encodes : kind \in JobKinds},
   fields : [Settable -> FieldValues], budgets : BudgetLists]

Collectable == [job : EnqueueRequest, timezone : OptionOf({"Berlin"}), paused : OptionOf(BOOLEAN)]

BuildingAsMeant ==
  /\ said \in Seq(Setters)
  /\ PlacesFound
  /\ building # None => \E kind \in JobKinds : building = Some(BuilderOf(kind))

CollectedAsMeant ==
  /\ collected \in Seq(Collectable)
  /\ meantJobs \in Seq(Meanings)
  /\ Len(collected) = Len(meantJobs)
  /\ \A i \in DOMAIN collected : JobOf(Body(collected[i].job)) = meantJobs[i]

TemplatesAsMeant ==
  cron # None =>
    /\ 1 \in DOMAIN cron /\ {"paused", "entries"} \subseteq DOMAIN cron[1]
    /\ \A i \in DOMAIN cron[1].entries :
         LET entry == cron[1].entries[i]
         IN {"body", "meant"} \subseteq DOMAIN entry /\ JobOf(entry.body) = entry.meant

(* Nothing is created before a send, but by a cron group, which only a     *)
(* program about it fills; and a send ends the program's building.         *)
SentOnce ==
  /\ sent # None => building = None
  /\ sent = None /\ way # "cron" => created = <<>>
  /\ way # "cron" /\ cron # None => DOMAIN cron[1].entries = {}
  /\ way \in {"none", "single", "bulk", "cron"}

EnqueueIInv ==
  BuildingAsMeant /\ CollectedAsMeant /\ TemplatesAsMeant /\ SentOnce /\ EnqueuedAsAsked

-----------------------------------------------------------------------------
(* The places of calls in the history, when one more is added.             *)
LEMMA LastAdded ==
  ASSUME NEW n \in Nat, NEW S \in SUBSET (1 .. n)
  PROVE  LastOf(S \cup {n + 1}) = n + 1
<1> DEFINE T == S \cup {n + 1}
<1>1. n + 1 \in T /\ \A j \in T : j <= n + 1
  OBVIOUS
<1>2. LastOf(T) \in T /\ \A j \in T : j <= LastOf(T)
  BY <1>1 DEF LastOf
<1> HIDE DEF T
<1>3. LastOf(T) \in Int /\ n + 1 <= LastOf(T) /\ LastOf(T) <= n + 1
  <2>1. \A j \in T : j \in Int
    BY DEF T
  <2> QED BY <1>1, <1>2, <2>1
<1>4. LastOf(T) = n + 1
  BY <1>3
<1> QED BY <1>4 DEF T

LEMMA NthIs ==
  ASSUME NEW S \in SUBSET Nat, IsFiniteSet(S), NEW i \in S
  PROVE  NthOf(S, Cardinality({j \in S : j <= i})) = i
<1> DEFINE Upto(k) == {j \in S : j <= k}
           n == Cardinality(Upto(i))
           m == NthOf(S, n)
<1>1. m \in S /\ Cardinality(Upto(m)) = n
  BY DEF NthOf
<1>2. ASSUME NEW a \in S, NEW b \in S, a < b PROVE Cardinality(Upto(a)) # Cardinality(Upto(b))
  <2>1. Upto(a) \in SUBSET Upto(b) /\ b \in Upto(b) /\ b \notin Upto(a)
    <3>1. \A j \in S : j \in Nat
      OBVIOUS
    <3>2. \A j \in S : j <= a => j <= b
      BY <1>2, <3>1
    <3>3. b <= b /\ ~(b <= a)
      BY <1>2, <3>1
    <3> QED BY <3>2, <3>3
  <2>2. IsFiniteSet(Upto(b))
    <3>1. Upto(b) \in SUBSET S
      OBVIOUS
    <3> QED BY <3>1, FS_Subset
  <2> HIDE DEF Upto
  <2> QED BY <2>1, <2>2, FS_Subset
<1> HIDE DEF Upto, m
<1>3. m = i
  BY <1>1, <1>2 DEF n
<1> QED BY <1>3 DEF m, n, Upto

LEMMA NthAdded ==
  ASSUME NEW len \in Nat, NEW S \in SUBSET (1 .. len),
         \A n \in 1 .. Cardinality(S) : \E i \in S : Cardinality({j \in S : j <= i}) = n
  PROVE  LET T == S \cup {len + 1}
         IN /\ Cardinality(S) \in Nat /\ Cardinality(T) = Cardinality(S) + 1
            /\ \A n \in 1 .. Cardinality(S) : NthOf(S, n) \in S /\ NthOf(T, n) = NthOf(S, n)
            /\ NthOf(T, Cardinality(S) + 1) = len + 1
            /\ \A n \in 1 .. Cardinality(T) : \E i \in T : Cardinality({j \in T : j <= i}) = n
<1> DEFINE T == S \cup {len + 1}
<1>1. IsFiniteSet(S) /\ Cardinality(S) \in Nat
  <2>1. IsFiniteSet(1 .. len)
    BY FS_Interval
  <2> QED BY <2>1, FS_Subset, FS_CardinalityType
<1>2. IsFiniteSet(T) /\ Cardinality(T) = Cardinality(S) + 1
  BY <1>1, FS_AddElement
<1>3. \A i \in S : {j \in T : j <= i} = {j \in S : j <= i}
  OBVIOUS
<1>4. {j \in T : j <= len + 1} = T
  <2>1. \A j \in S : j <= len + 1
    OBVIOUS
  <2>2. len + 1 <= len + 1
    OBVIOUS
  <2> QED BY <2>1, <2>2
<1>5. S \in SUBSET Nat /\ T \in SUBSET Nat
  OBVIOUS
<1>6. ASSUME NEW n \in 1 .. Cardinality(S)
      PROVE  /\ NthOf(S, n) \in S /\ NthOf(T, n) = NthOf(S, n)
             /\ \E i \in T : Cardinality({j \in T : j <= i}) = n
  <2>1. PICK i \in S : Cardinality({j \in S : j <= i}) = n
    OBVIOUS
  <2>2. NthOf(S, n) = i
    BY <1>1, <1>5, <2>1, NthIs
  <2>3. i \in T /\ Cardinality({j \in T : j <= i}) = n
    BY <1>3, <2>1
  <2>4. NthOf(T, n) = i
    <3> HIDE DEF T
    <3> QED BY <1>2, <1>5, <2>3, NthIs
  <2> QED BY <2>2, <2>3, <2>4
<1>7. len + 1 \in T
  OBVIOUS
<1> HIDE DEF T
<1>8. NthOf(T, Cardinality(S) + 1) = len + 1
  BY <1>2, <1>4, <1>5, <1>7, NthIs
<1>9. \A n \in 1 .. Cardinality(T) : \E i \in T : Cardinality({j \in T : j <= i}) = n
  <2> TAKE n \in 1 .. Cardinality(T)
  <2>1. CASE n \in 1 .. Cardinality(S)
    BY <1>6, <2>1
  <2>2. CASE n = Cardinality(S) + 1
    BY <1>2, <1>4, <1>7, <2>2
  <2> QED BY <1>1, <1>2, <2>1, <2>2
<1> QED BY <1>1, <1>2, <1>6, <1>8, <1>9 DEF T

(* The three forms of a call. *)
LEMMA SetterForms ==
  ASSUME NEW call \in Setters
  PROVE  \/ call.is = "field" /\ call.name \in Settable
         \/ call.is = "budget" /\ call.binding \in BudgetChoices
         \/ call.is = "budgets" /\ call.bindings \in Seq(BudgetChoices)
<1>1. CASE call \in [is : {"field"}, name : Settable, value : UNION {FieldChoices[f] : f \in Settable}]
  BY <1>1
<1>2. CASE call \in [is : {"budget"}, binding : BudgetChoices]
  BY <1>2
<1>3. CASE call \in [is : {"budgets"}, bindings : {<<>>} \cup {<<b>> : b \in BudgetChoices}]
  <2>1. call.is = "budgets" /\ call.bindings \in {<<>>} \cup {<<b>> : b \in BudgetChoices}
    BY <1>3
  <2>2. \A b \in BudgetChoices : <<b>> \in Seq(BudgetChoices)
    OBVIOUS
  <2>3. <<>> \in Seq(BudgetChoices)
    OBVIOUS
  <2> QED BY <2>1, <2>2, <2>3
<1> QED BY <1>1, <1>2, <1>3 DEF Setters

(* What one more call does to the places. *)
LEMMA OneMoreCall ==
  ASSUME said \in Seq(Setters), NEW call \in Setters, said' = Append(said, call)
  PROVE  /\ said' \in Seq(Setters) /\ Len(said) \in Nat
         /\ DOMAIN said = 1 .. Len(said) /\ DOMAIN said' = 1 .. Len(said) + 1
         /\ said'[Len(said) + 1] = call
         /\ \A i \in 1 .. Len(said) : said'[i] = said[i]
  OBVIOUS

LEMMA PlacesAfter ==
  ASSUME said \in Seq(Setters), NEW call \in Setters, said' = Append(said, call)
  PROVE  LET last == Len(said) + 1
         IN /\ \A f \in Settable :
                 /\ About(f) \in SUBSET (1 .. Len(said))
                 /\ About(f)' = IF call.is = "field" /\ call.name = f THEN About(f) \cup {last} ELSE About(f)
            /\ Replacing \in SUBSET (1 .. Len(said))
            /\ Replacing' = IF call.is = "budgets" THEN Replacing \cup {last} ELSE Replacing
            /\ Adding \in SUBSET (1 .. Len(said))
            /\ call.is = "field" => Adding' = Adding
            /\ call.is = "budget" => Adding' = Adding \cup {last}
            /\ call.is = "budgets" => Adding' = {}
<1> DEFINE last == Len(said) + 1
<1>1. /\ Len(said) \in Nat
      /\ DOMAIN said = 1 .. Len(said) /\ DOMAIN said' = DOMAIN said \cup {last}
      /\ last \notin DOMAIN said
      /\ said'[last] = call
      /\ \A i \in DOMAIN said : said'[i] = said[i] /\ i < last /\ ~(last < i)
  BY OneMoreCall
<1>2. ~(last < last)
  BY <1>1
<1>3. call.is \in {"field", "budget", "budgets"}
  BY SetterForms
<1> HIDE DEF last
<1>4. ASSUME NEW f \in Settable
      PROVE  /\ About(f) \in SUBSET (1 .. Len(said))
             /\ About(f)' = IF call.is = "field" /\ call.name = f THEN About(f) \cup {last} ELSE About(f)
  BY <1>1 DEF About
<1>5. /\ Replacing \in SUBSET (1 .. Len(said))
      /\ Replacing' = IF call.is = "budgets" THEN Replacing \cup {last} ELSE Replacing
  BY <1>1 DEF Replacing
<1>6. Adding \in SUBSET (1 .. Len(said))
  BY <1>1 DEF Adding
<1>7. ASSUME call.is = "field" PROVE Adding' = Adding
  <2>1. Replacing' = Replacing
    BY <1>5, <1>7
  <2> QED BY <1>1, <1>7, <2>1 DEF Adding
<1>8. ASSUME call.is = "budget" PROVE Adding' = Adding \cup {last}
  <2>1. Replacing' = Replacing /\ Replacing \subseteq DOMAIN said
    BY <1>1, <1>5, <1>8
  <2> QED BY <1>1, <1>8, <2>1 DEF Adding
<1>9. ASSUME call.is = "budgets" PROVE Adding' = {}
  <2>1. last \in Replacing'
    BY <1>5, <1>9
  <2>2. \A i \in DOMAIN said' : said'[i].is = "budget" => ~(last < i)
    BY <1>1, <1>2
  <2> QED BY <2>1, <2>2 DEF Adding
<1> QED BY <1>4, <1>5, <1>6, <1>7, <1>8, <1>9 DEF last

LEMMA PlacesKept ==
  ASSUME said \in Seq(Setters), PlacesFound, NEW call \in Setters, said' = Append(said, call)
  PROVE  PlacesFound'
<1>1. Len(said) \in Nat
  OBVIOUS
<1>2. ASSUME NEW S \in SUBSET (1 .. Len(said)), HasLast(S)
      PROVE  HasLast(S \cup {Len(said) + 1})
  BY <1>1, LastAdded DEF HasLast
<1>3. ASSUME NEW f \in Settable PROVE HasLast(About(f)')
  BY <1>2, PlacesAfter DEF PlacesFound
<1>4. HasLast(Replacing')
  BY <1>2, PlacesAfter DEF PlacesFound
<1>5. \A n \in 1 .. Cardinality(Adding') :
        \E i \in Adding' : Cardinality({j \in Adding' : j <= i}) = n
  <2>1. CASE Adding' = Adding
    BY <2>1 DEF PlacesFound
  <2>2. CASE Adding' = Adding \cup {Len(said) + 1}
    <3>1. Adding \in SUBSET (1 .. Len(said))
      BY PlacesAfter
    <3>2. \A n \in 1 .. Cardinality(Adding) : \E i \in Adding : Cardinality({j \in Adding : j <= i}) = n
      BY DEF PlacesFound
    <3> DEFINE T == Adding \cup {Len(said) + 1}
    <3>3. \A n \in 1 .. Cardinality(T) : \E i \in T : Cardinality({j \in T : j <= i}) = n
      BY <1>1, <3>1, <3>2, NthAdded
    <3> QED BY <2>2, <3>3
  <2>3. CASE Adding' = {}
    BY <2>3, FS_EmptySet
  <2> QED BY <2>1, <2>2, <2>3, SetterForms, PlacesAfter
<1> QED BY <1>3, <1>4, <1>5 DEF PlacesFound, HasLast

(* A call about a field, or about the budgets, is what it says from then   *)
(* on, and the other calls say what they said.                             *)
LEMMA SaidAfter ==
  ASSUME said \in Seq(Setters), PlacesFound, NEW call \in Setters, said' = Append(said, call), NEW f \in Settable
  PROVE  Said(f)' = IF call.is = "field" /\ call.name = f THEN Some(call.value) ELSE Said(f)
<1>1. Len(said) \in Nat /\ said'[Len(said) + 1] = call /\ \A i \in 1 .. Len(said) : said'[i] = said[i]
  BY OneMoreCall
<1>2. About(f) \in SUBSET (1 .. Len(said))
  BY PlacesAfter
<1>3. CASE call.is = "field" /\ call.name = f
  <2>1. About(f)' = About(f) \cup {Len(said) + 1}
    BY <1>3, PlacesAfter
  <2>2. LastOf(About(f)') = Len(said) + 1
    BY <1>1, <1>2, <2>1, LastAdded
  <2> QED BY <1>1, <1>3, <2>1, <2>2 DEF Said
<1>4. CASE ~(call.is = "field" /\ call.name = f)
  <2>1. About(f)' = About(f)
    BY <1>4, PlacesAfter
  <2>2. About(f) # {} => LastOf(About(f)) \in 1 .. Len(said)
    BY <1>2 DEF PlacesFound, HasLast
  <2> QED BY <1>1, <1>4, <2>1, <2>2 DEF Said
<1> QED BY <1>3, <1>4

(* The bindings that the calls so far put together are a list. *)
LEMMA BindingsSaid ==
  ASSUME said \in Seq(Setters), PlacesFound
  PROVE  /\ Replaced \in Seq(BudgetChoices) /\ Added \in Seq(BudgetChoices)
         /\ Cardinality(Adding) \in Nat /\ Len(Added) = Cardinality(Adding)
         /\ Replacing \cup Adding = {} => Replaced = <<>> /\ Added = <<>>
<1>1. Adding \in SUBSET (1 .. Len(said)) /\ Replacing \in SUBSET (1 .. Len(said)) /\ Len(said) \in Nat
  BY DEF Adding, Replacing
<1>2. Cardinality(Adding) \in Nat
  <2>1. IsFiniteSet(1 .. Len(said))
    BY <1>1, FS_Interval
  <2> QED BY <1>1, <2>1, FS_Subset, FS_CardinalityType
<1>3. Replaced \in Seq(BudgetChoices)
  <2>1. CASE Replacing = {}
    BY <2>1 DEF Replaced
  <2>2. CASE Replacing # {}
    <3>1. LastOf(Replacing) \in Replacing
      BY <2>2 DEF PlacesFound, HasLast
    <3>2. said[LastOf(Replacing)] \in Setters /\ said[LastOf(Replacing)].is = "budgets"
      BY <3>1 DEF Replacing
    <3> QED BY <2>2, <3>2, SetterForms DEF Replaced
  <2> QED BY <2>1, <2>2
<1>4. \A n \in 1 .. Cardinality(Adding) : said[NthOf(Adding, n)].binding \in BudgetChoices
  <2> TAKE n \in 1 .. Cardinality(Adding)
  <2>1. NthOf(Adding, n) \in Adding
    BY DEF PlacesFound, NthOf
  <2>2. said[NthOf(Adding, n)] \in Setters /\ said[NthOf(Adding, n)].is = "budget"
    BY <2>1 DEF Adding
  <2> QED BY <2>2, SetterForms
<1>5. Added \in Seq(BudgetChoices) /\ Len(Added) = Cardinality(Adding)
  BY <1>2, <1>4 DEF Added
<1>6. ASSUME Replacing \cup Adding = {} PROVE Replaced = <<>> /\ Added = <<>>
  <2>1. Replacing = {} /\ Cardinality(Adding) = 0
    BY <1>6, FS_EmptySet
  <2> QED BY <1>5, <2>1 DEF Replaced
<1> QED BY <1>2, <1>3, <1>5, <1>6

LEMMA BindingsAfter ==
  ASSUME said \in Seq(Setters), PlacesFound, NEW call \in Setters, said' = Append(said, call)
  PROVE  /\ call.is = "field" => Replaced' = Replaced /\ Added' = Added
         /\ call.is = "budget" => Replaced' = Replaced /\ Added' = Append(Added, call.binding)
         /\ call.is = "budgets" => Replaced' = call.bindings /\ Added' = <<>>
<1>1. Len(said) \in Nat /\ said'[Len(said) + 1] = call /\ \A i \in 1 .. Len(said) : said'[i] = said[i]
  BY OneMoreCall
<1>2. Adding \in SUBSET (1 .. Len(said)) /\ Replacing \in SUBSET (1 .. Len(said))
  BY PlacesAfter
<1>3. Added \in Seq(BudgetChoices) /\ Cardinality(Adding) \in Nat /\ Len(Added) = Cardinality(Adding)
  BY BindingsSaid
<1>4. \A n \in 1 .. Cardinality(Adding) : NthOf(Adding, n) \in 1 .. Len(said)
  BY <1>2 DEF PlacesFound, NthOf
<1>5. ASSUME Replacing' = Replacing PROVE Replaced' = Replaced
  <2>1. Replacing # {} => LastOf(Replacing) \in 1 .. Len(said)
    BY <1>2 DEF PlacesFound, HasLast
  <2> QED BY <1>1, <1>5, <2>1 DEF Replaced
<1>6. CASE call.is = "field"
  <2>1. Replacing' = Replacing /\ Adding' = Adding
    BY <1>6, PlacesAfter
  <2> QED BY <1>1, <1>4, <1>5, <1>6, <2>1 DEF Added
<1>7. CASE call.is = "budget"
  <2>1. Replacing' = Replacing /\ Adding' = Adding \cup {Len(said) + 1}
    BY <1>7, PlacesAfter
  <2>2. \A n \in 1 .. Cardinality(Adding) : \E i \in Adding : Cardinality({j \in Adding : j <= i}) = n
    BY DEF PlacesFound
  <2>3. /\ Cardinality(Adding') = Cardinality(Adding) + 1
        /\ \A n \in 1 .. Cardinality(Adding) : NthOf(Adding', n) = NthOf(Adding, n)
        /\ NthOf(Adding', Cardinality(Adding) + 1) = Len(said) + 1
    BY <1>1, <1>2, <2>1, <2>2, NthAdded
  <2>4. /\ \A n \in 1 .. Cardinality(Adding) : Added'[n] = Added[n]
        /\ Added'[Cardinality(Adding) + 1] = call.binding
    <3> DEFINE c == Cardinality(Adding)
    <3>1. c \in Nat /\ Cardinality(Adding') = c + 1
      BY <1>3, <2>3
    <3>2. \A n \in 1 .. c + 1 : Added'[n] = said'[NthOf(Adding', n)].binding
      BY <3>1 DEF Added
    <3>3. \A n \in 1 .. c : Added[n] = said[NthOf(Adding, n)].binding
      BY DEF Added
    <3> HIDE DEF c
    <3>4. \A n \in 1 .. c : n \in 1 .. c + 1
      BY <3>1
    <3>5. c + 1 \in 1 .. c + 1
      BY <3>1
    <3> QED BY <1>1, <1>4, <2>3, <3>2, <3>3, <3>4, <3>5 DEF c
  <2>5. call.binding \in BudgetChoices
    BY <1>7, SetterForms
  <2>6. Added' = Append(Added, call.binding)
    <3> DEFINE longer == Append(Added, call.binding)
    <3>1. longer \in Seq(BudgetChoices) /\ Len(longer) = Cardinality(Adding')
      BY <1>3, <2>3, <2>5
    <3>2. \A n \in 1 .. Cardinality(Adding') : Added'[n] = longer[n]
      BY <1>3, <2>3, <2>4, <2>5
    <3>3. DOMAIN Added' = 1 .. Cardinality(Adding') /\ Added' = [n \in DOMAIN Added' |-> Added'[n]]
      BY DEF Added
    <3>4. DOMAIN longer = 1 .. Len(longer) /\ longer = [n \in DOMAIN longer |-> longer[n]]
      BY <3>1
    <3> HIDE DEF longer
    <3>5. Added' = longer
      BY <3>1, <3>2, <3>3, <3>4
    <3> QED BY <3>5 DEF longer
  <2> QED BY <1>5, <1>7, <2>1, <2>6
<1>8. CASE call.is = "budgets"
  <2>1. Replacing' = Replacing \cup {Len(said) + 1} /\ Adding' = {}
    BY <1>8, PlacesAfter
  <2>2. LastOf(Replacing') = Len(said) + 1
    BY <1>1, <1>2, <2>1, LastAdded
  <2>3. Replaced' = call.bindings
    BY <1>1, <2>1, <2>2 DEF Replaced
  <2>4. Cardinality(Adding') = 0
    BY <2>1, FS_EmptySet
  <2>5. Added' = <<>>
    BY <2>4 DEF Added
  <2> QED BY <1>8, <2>3, <2>5
<1> QED BY <1>6, <1>7, <1>8, SetterForms

-----------------------------------------------------------------------------
(* A setter makes of a builder that means its calls one that means them    *)
(* and the call.                                                           *)
LEMMA SetMeans ==
  ASSUME said \in Seq(Setters), PlacesFound, NEW call \in Setters, said' = Append(said, call),
         NEW kind \in JobKinds
  PROVE  Set(BuilderOf(kind), call) = BuilderOf(kind)'
<1> DEFINE b == BuilderOf(kind)
           budgets == IF Replacing \cup Adding = {} THEN None ELSE Some(Replaced \o Added)
           after == IF (Replacing \cup Adding)' = {} THEN None ELSE Some(Replaced' \o Added')
<1>1. b = [kind |-> kind, fields |-> [f \in Settable |-> Said(f)], budgets |-> budgets]
  BY DEF BuilderOf
<1>2. BuilderOf(kind)' = [kind |-> kind, fields |-> [f \in Settable |-> Said(f)'], budgets |-> after]
  BY DEF BuilderOf
<1>3. /\ Replaced \in Seq(BudgetChoices) /\ Added \in Seq(BudgetChoices)
      /\ Replacing \cup Adding = {} => Replaced = <<>> /\ Added = <<>>
  BY BindingsSaid
<1>4. Else(budgets, Some(<<>>))[1] = Replaced \o Added
  BY <1>3 DEF Else, Some, None
<1>5. call.is # "field" => \A f \in Settable : Said(f)' = Said(f)
  BY SaidAfter
<1>6. CASE call.is = "field"
  <2>1. after = budgets
    BY <1>6, PlacesAfter, BindingsAfter
  <2>2. [[f \in Settable |-> Said(f)] EXCEPT ![call.name] = Some(call.value)] = [f \in Settable |-> Said(f)']
    BY <1>6, SaidAfter
  <2>3. Set(b, call) = [b EXCEPT !.fields[call.name] = Some(call.value)]
    BY <1>6 DEF Set
  <2> HIDE DEF b, budgets, after
  <2> QED BY <1>1, <1>2, <2>1, <2>2, <2>3 DEF b
<1>7. CASE call.is = "budget"
  <2>1. call.binding \in BudgetChoices /\ (Replacing \cup Adding)' # {}
    <3>1. Len(said) + 1 \in Adding'
      BY <1>7, PlacesAfter
    <3> QED BY <1>7, <3>1, SetterForms
  <2>2. Append(Replaced \o Added, call.binding) = Replaced \o Append(Added, call.binding)
    <3> DEFINE r == Replaced
               a == Added
               one == <<call.binding>>
    <3>1. r \in Seq(BudgetChoices) /\ a \in Seq(BudgetChoices) /\ call.binding \in BudgetChoices
      BY <1>3, <2>1
    <3>2. one \in Seq(BudgetChoices)
      BY <3>1
    <3> HIDE DEF r, a
    <3>3. r \o a \in Seq(BudgetChoices)
      BY <3>1
    <3>4. Append(r \o a, call.binding) = (r \o a) \o one /\ Append(a, call.binding) = a \o one
      BY <3>1, <3>3, AppendIsConcat
    <3>5. (r \o a) \o one = r \o (a \o one)
      BY <3>1, <3>2, ConcatAssociative
    <3> QED BY <3>4, <3>5 DEF r, a
  <2>3. after = Some(Append(Else(budgets, Some(<<>>))[1], call.binding))
    BY <1>4, <1>7, <2>1, <2>2, BindingsAfter
  <2>4. Set(b, call) = [b EXCEPT !.budgets = Some(Append(Else(@, Some(<<>>))[1], call.binding))]
    BY <1>7 DEF Set, SetBudget
  <2>5. [f \in Settable |-> Said(f)'] = [f \in Settable |-> Said(f)]
    BY <1>5, <1>7
  <2> HIDE DEF b, budgets, after
  <2> QED BY <1>1, <1>2, <2>3, <2>4, <2>5 DEF b
<1>8. CASE call.is = "budgets"
  <2>1. call.bindings \in Seq(BudgetChoices) /\ (Replacing \cup Adding)' # {}
    <3>1. Len(said) + 1 \in Replacing'
      BY <1>8, PlacesAfter
    <3> QED BY <1>8, <3>1, SetterForms
  <2>2. after = Some(call.bindings)
    <3>1. call.bindings \o <<>> = call.bindings
      BY <2>1
    <3> QED BY <1>8, <2>1, <3>1, BindingsAfter
  <2>3. Set(b, call) = [b EXCEPT !.budgets = Some(call.bindings)]
    BY <1>8 DEF Set, SetBudgets
  <2>4. [f \in Settable |-> Said(f)'] = [f \in Settable |-> Said(f)]
    BY <1>5, <1>8
  <2> HIDE DEF b, budgets, after
  <2> QED BY <1>1, <1>2, <2>2, <2>3, <2>4 DEF b
<1> QED BY <1>6, <1>7, <1>8, SetterForms

(* The request of such a builder, with the kind's defaults for what was    *)
(* not set, is for the job that its calls mean.                            *)
LEMMA RequestMeans ==
  ASSUME said \in Seq(Setters), PlacesFound, NEW kind \in JobKinds
  PROVE  /\ IntoRequest(BuilderOf(kind)) \in EnqueueRequest
         /\ MeantJob(kind) \in Meanings
         /\ JobOf(Body(IntoRequest(BuilderOf(kind)))) = MeantJob(kind)
<1> DEFINE request == IntoRequest(BuilderOf(kind))
           fields == MeantFields(kind)
           budgets == MeantBudgets(kind)
<1>1. \A f \in Settable : Else(Said(f), kind.defaults[f]) = fields[f]
  BY DEF Else, Said, MeantFields, Some, None
<1>2. Else(IF Replacing \cup Adding = {} THEN None ELSE Some(Replaced \o Added), Some(kind.budgets))[1] = budgets
  <2>1. budgets = IF Replacing \cup Adding = {} THEN kind.budgets ELSE Replaced \o Added
    BY DEF MeantBudgets, Replaced, Added, NthOf
  <2> HIDE DEF budgets
  <2> QED BY <2>1 DEF Else, Some, None
<1>3. request = [type |-> kind.name, encodes |-> kind.encodes, fields |-> fields, budgets |-> budgets]
  <2>1. request = [type |-> kind.name, encodes |-> kind.encodes,
                   fields |-> [f \in Settable |-> Else(Said(f), kind.defaults[f])], budgets |-> budgets]
    BY <1>2 DEF IntoRequest, BuilderOf
  <2>2. fields = [f \in Settable |-> fields[f]]
    BY DEF MeantFields
  <2> HIDE DEF fields, budgets, request
  <2> QED BY <1>1, <2>1, <2>2
<1>4. \A f \in Settable : fields[f] # None => fields[f] = Some(fields[f][1])
  BY DefaultsAssumption DEF MeantFields, Some, None
<1>5. fields \in [Settable -> FieldValues]
  <2>1. ASSUME NEW f \in Settable, About(f) # {}
        PROVE  Some(said[LastOf(About(f))].value) \in FieldValues
    <3>1. said[LastOf(About(f))] \in Setters /\ said[LastOf(About(f))].is = "field"
      BY <2>1 DEF PlacesFound, HasLast, About
    <3>2. said[LastOf(About(f))].value \in UNION {FieldChoices[g] : g \in Settable}
      BY <3>1 DEF Setters
    <3> QED BY <3>2 DEF FieldValues, OptionOf
  <2>2. \A f \in Settable : kind.defaults[f] \in FieldValues
    BY DEF FieldValues
  <2> QED BY <2>1, <2>2 DEF MeantFields
<1>6. budgets \in BudgetLists
  <2>1. Replaced \o Added \in Seq(BudgetChoices)
    BY BindingsSaid
  <2>2. budgets = IF Replacing \cup Adding = {} THEN kind.budgets ELSE Replaced \o Added
    BY DEF MeantBudgets, Replaced, Added, NthOf
  <2> HIDE DEF budgets
  <2> QED BY <2>1, <2>2 DEF BudgetLists
<1>7. DOMAIN fields = Settable /\ fields = [f \in Settable |-> fields[f]]
  BY DEF MeantFields
<1> HIDE DEF fields, budgets, request
<1>8. request \in EnqueueRequest /\ [type |-> kind.name, fields |-> fields, budgets |-> budgets] \in Meanings
  BY <1>3, <1>5, <1>6 DEF EnqueueRequest, Meanings
<1>9. JobOf(Body(request)) = [type |-> kind.name, fields |-> fields, budgets |-> budgets]
  <2> DEFINE body == Body(request)
             given == {f \in Settable : fields[f] # None}
  <2>1. body = [x \in {"type", "budgets"} \cup given |-> IF x \in Settable THEN fields[x][1] ELSE request[x]]
    BY <1>3 DEF Body
  <2>2. "type" \notin Settable /\ "budgets" \notin Settable
    BY DEF Settable
  <2>3. /\ body.type = kind.name /\ body.budgets = budgets
        /\ \A f \in Settable : f \in DOMAIN body <=> f \in given
        /\ \A f \in given : body[f] = fields[f][1]
    BY <1>3, <2>1, <2>2
  <2> HIDE DEF body
  <2>4. \A f \in Settable : (IF f \in DOMAIN body THEN Some(body[f]) ELSE None) = fields[f]
    BY <1>4, <2>3
  <2>5. [f \in Settable |-> IF f \in DOMAIN body THEN Some(body[f]) ELSE None] = fields
    BY <1>7, <2>4
  <2> QED BY <2>3, <2>5 DEF JobOf, body
<1> QED BY <1>8, <1>9 DEF MeantJob, request, fields, budgets

-----------------------------------------------------------------------------
(* The invariant holds at first, and every action keeps it. *)
NothingMeant ==
  PlacesFound /\ said \in Seq(Setters) /\ \A kind \in JobKinds : BuilderOf(kind) = NewEnqueue(kind)

LEMMA NothingSaid == said = <<>> => NothingMeant
<1> SUFFICES ASSUME said = <<>> PROVE NothingMeant
  OBVIOUS
<1>1. Replacing = {} /\ Adding = {} /\ \A f : About(f) = {}
  BY DEF Replacing, Adding, About
<1>2. PlacesFound
  BY <1>1, FS_EmptySet DEF PlacesFound, HasLast
<1>3. \A kind \in JobKinds : BuilderOf(kind) = NewEnqueue(kind)
  BY <1>1 DEF BuilderOf, NewEnqueue, Said
<1> QED BY <1>2, <1>3 DEF NothingMeant

LEMMA EnqueueInitial == EnqueueInit => EnqueueIInv
<1> SUFFICES ASSUME EnqueueInit PROVE EnqueueIInv
  OBVIOUS
<1>1. BuildingAsMeant
  BY NothingSaid DEF NothingMeant, EnqueueInit, BuildingAsMeant
<1>2. CollectedAsMeant
  BY DEF EnqueueInit, CollectedAsMeant
<1>3. TemplatesAsMeant /\ (cron # None => DOMAIN cron[1].entries = {})
  BY DEF EnqueueInit, TemplatesAsMeant, Some, None
<1>4. SentOnce /\ EnqueuedAsAsked
  BY <1>3 DEF EnqueueInit, SentOnce, EnqueuedAsAsked
<1> QED BY <1>1, <1>2, <1>3, <1>4 DEF EnqueueIInv

LEMMA Unsaid ==
  ASSUME PlacesFound, UNCHANGED said
  PROVE  PlacesFound' /\ Replacing' = Replacing /\ Adding' = Adding /\ \A f : About(f)' = About(f)
<1>1. Replacing' = Replacing /\ Adding' = Adding /\ \A f : About(f)' = About(f)
  BY DEF Replacing, Adding, About
<1> QED BY <1>1 DEF PlacesFound, HasLast

LEMMA Unbuilt == BuildingAsMeant /\ UNCHANGED <<said, building>> => BuildingAsMeant'
<1> SUFFICES ASSUME BuildingAsMeant, said' = said, building' = building
             PROVE  BuildingAsMeant'
  OBVIOUS
<1>1. Replacing' = Replacing /\ Adding' = Adding /\ \A f : About(f)' = About(f)
  BY Unsaid DEF BuildingAsMeant
<1>2. PlacesFound'
  BY Unsaid DEF BuildingAsMeant
<1>3. Replaced' = Replaced /\ Added' = Added /\ \A f : Said(f)' = Said(f)
  BY <1>1 DEF Replaced, Added, Said
<1>4. ASSUME NEW kind \in JobKinds PROVE BuilderOf(kind)' = BuilderOf(kind)
  BY <1>1, <1>3 DEF BuilderOf
<1> QED BY <1>2, <1>4 DEF BuildingAsMeant

LEMMA Uncollected == CollectedAsMeant /\ UNCHANGED <<collected, meantJobs>> => CollectedAsMeant'
  BY DEF CollectedAsMeant

LEMMA Unscheduled == TemplatesAsMeant /\ UNCHANGED cron => TemplatesAsMeant'
  BY DEF TemplatesAsMeant

LEMMA KeepsStart ==
  ASSUME EnqueueIInv, NEW how \in {"single", "bulk", "cron"}, NEW kind \in JobKinds, StartEnqueue(how, kind)
  PROVE  EnqueueIInv'
<1>1. BuildingAsMeant'
  <2>1. said' = <<>> /\ building' = Some(NewEnqueue(kind))
    BY DEF StartEnqueue
  <2>2. (said = <<>>)' => NothingMeant'
    BY NothingSaid, PTL
  <2> QED BY <2>1, <2>2 DEF BuildingAsMeant, NothingMeant, NewEnqueue
<1>2. CollectedAsMeant' /\ TemplatesAsMeant'
  BY Uncollected, Unscheduled DEF StartEnqueue, EnqueueIInv
<1>3. SentOnce' /\ EnqueuedAsAsked'
  BY DEF StartEnqueue, EnqueueIInv, SentOnce, EnqueuedAsAsked
<1> QED BY <1>1, <1>2, <1>3 DEF EnqueueIInv

LEMMA KeepsCall ==
  ASSUME EnqueueIInv, NEW call \in Setters, CallSetter(call)
  PROVE  EnqueueIInv'
<1>1. BuildingAsMeant'
  <2>1. PICK kind \in JobKinds : building = Some(BuilderOf(kind))
    BY DEF CallSetter, EnqueueIInv, BuildingAsMeant
  <2>2. /\ said \in Seq(Setters) /\ PlacesFound /\ said' = Append(said, call)
        /\ building' = Some(Set(building[1], call))
    BY DEF CallSetter, EnqueueIInv, BuildingAsMeant
  <2>3. building[1] = BuilderOf(kind)
    BY <2>1 DEF Some
  <2>4. building' = Some(BuilderOf(kind)')
    BY <2>2, <2>3, SetMeans
  <2> QED BY <2>2, <2>4, PlacesKept, OneMoreCall DEF BuildingAsMeant
<1>2. CollectedAsMeant' /\ TemplatesAsMeant'
  BY Uncollected, Unscheduled DEF CallSetter, EnqueueIInv
<1>3. SentOnce' /\ EnqueuedAsAsked'
  BY DEF CallSetter, EnqueueIInv, SentOnce, EnqueuedAsAsked
<1> QED BY <1>1, <1>2, <1>3 DEF EnqueueIInv

(* The request of a builder in hand. *)
LEMMA RequestInHand ==
  ASSUME BuildingAsMeant, building # None
  PROVE  /\ IntoRequest(building[1]) \in EnqueueRequest
         /\ MeantJob(building[1].kind) \in Meanings
         /\ JobOf(Body(IntoRequest(building[1]))) = MeantJob(building[1].kind)
<1>1. PICK kind \in JobKinds : building = Some(BuilderOf(kind))
  BY DEF BuildingAsMeant
<1>2. building[1] = BuilderOf(kind) /\ building[1].kind = kind
  BY <1>1 DEF Some, BuilderOf
<1> QED BY <1>2, RequestMeans DEF BuildingAsMeant

LEMMA KeepsAdd ==
  ASSUME EnqueueIInv, NEW timezone \in OptionOf({"Berlin"}), NEW paused \in OptionOf(BOOLEAN),
         AddToBatch(timezone, paused)
  PROVE  EnqueueIInv'
<1>1. BuildingAsMeant'
  <2>1. said' = <<>> /\ building' = None
    BY DEF AddToBatch
  <2>2. (said = <<>>)' => NothingMeant'
    BY NothingSaid, PTL
  <2> QED BY <2>1, <2>2 DEF BuildingAsMeant, NothingMeant
<1>2. CollectedAsMeant'
  <2> DEFINE request == IntoRequest(building[1])
             wanted == MeantJob(building[1].kind)
             template == [job |-> request, timezone |-> timezone, paused |-> paused]
  <2>1. /\ collected \in Seq(Collectable) /\ meantJobs \in Seq(Meanings) /\ Len(collected) = Len(meantJobs)
        /\ \A i \in DOMAIN collected : JobOf(Body(collected[i].job)) = meantJobs[i]
    BY DEF EnqueueIInv, CollectedAsMeant
  <2>2. request \in EnqueueRequest /\ wanted \in Meanings /\ JobOf(Body(request)) = wanted
    BY RequestInHand DEF AddToBatch, EnqueueIInv
  <2>3. template \in Collectable
    BY <2>2 DEF Collectable
  <2>4. collected' = Append(collected, template) /\ meantJobs' = Append(meantJobs, wanted)
    BY DEF AddToBatch
  <2>5. template.job = request
    OBVIOUS
  <2> HIDE DEF template, request, wanted
  <2>6. collected' \in Seq(Collectable) /\ meantJobs' \in Seq(Meanings) /\ Len(collected') = Len(meantJobs')
    BY <2>1, <2>2, <2>3, <2>4
  <2>7. \A i \in DOMAIN collected' : JobOf(Body(collected'[i].job)) = meantJobs'[i]
    <3> TAKE i \in DOMAIN collected'
    <3>1. CASE i \in DOMAIN collected
      <4>1. collected'[i] = collected[i] /\ meantJobs'[i] = meantJobs[i]
        BY <2>1, <2>2, <2>3, <2>4, <3>1
      <4> QED BY <2>1, <3>1, <4>1
    <3>2. CASE i = Len(collected) + 1
      <4>1. collected'[i] = template /\ meantJobs'[i] = wanted
        BY <2>1, <2>2, <2>3, <2>4, <3>2
      <4> QED BY <2>2, <2>5, <4>1
    <3>3. i \in DOMAIN collected \/ i = Len(collected) + 1
      BY <2>1, <2>3, <2>4
    <3> QED BY <3>1, <3>2, <3>3
  <2> QED BY <2>6, <2>7 DEF CollectedAsMeant
<1>3. TemplatesAsMeant'
  BY Unscheduled DEF AddToBatch, EnqueueIInv
<1>4. SentOnce' /\ EnqueuedAsAsked'
  BY DEF AddToBatch, EnqueueIInv, SentOnce, EnqueuedAsAsked
<1> QED BY <1>1, <1>2, <1>3, <1>4 DEF EnqueueIInv

LEMMA KeepsGroup ==
  ASSUME EnqueueIInv, NEW field, NEW value, SetGroup(field, value)
  PROVE  EnqueueIInv'
<1>1. BuildingAsMeant' /\ CollectedAsMeant' /\ TemplatesAsMeant'
  BY Unbuilt, Uncollected, Unscheduled DEF SetGroup, EnqueueIInv
<1>2. SentOnce' /\ EnqueuedAsAsked'
  BY DEF SetGroup, EnqueueIInv, SentOnce, EnqueuedAsAsked
<1> QED BY <1>1, <1>2 DEF EnqueueIInv

(* A send creates the jobs that its requests are for. *)
LEMMA EnqueuesMeant ==
  ASSUME NEW requests \in Seq(EnqueueRequest), NEW wanted \in Seq(Meanings), Len(requests) = Len(wanted),
         \A i \in DOMAIN requests : JobOf(Body(requests[i])) = wanted[i],
         created = <<>>, Enqueues(requests, wanted)
  PROVE  /\ sent' # None
         /\ \A i \in DOMAIN created' : created'[i].job = created'[i].meant
         /\ IF sent' = Some("Ok") THEN [i \in DOMAIN created' |-> created'[i].meant] = wanted
            ELSE created' = <<>>
<1>1. Some("Ok") # None /\ Some("Encode") # None /\ Some("Ok") # Some("Encode")
  BY DEF Some, None
<1>2. CASE ~ \A i \in DOMAIN requests : requests[i].encodes
  BY <1>1, <1>2 DEF Enqueues
<1>3. CASE \A i \in DOMAIN requests : requests[i].encodes
  <2> DEFINE jobs == [i \in DOMAIN requests |-> [job |-> JobOf(Body(requests[i])), meant |-> wanted[i]]]
  <2>1. created' = <<>> \o jobs /\ sent' = Some("Ok")
    BY <1>3 DEF Enqueues
  <2>2. DOMAIN requests = 1 .. Len(requests) /\ Len(requests) \in Nat /\ DOMAIN wanted = DOMAIN requests
    OBVIOUS
  <2>3. jobs \in Seq({jobs[i] : i \in DOMAIN requests})
    BY <2>2
  <2>4. DOMAIN jobs = DOMAIN requests /\ \A i \in DOMAIN jobs : jobs[i].job = jobs[i].meant /\ jobs[i].meant = wanted[i]
    OBVIOUS
  <2> HIDE DEF jobs
  <2>5. created' = jobs
    BY <2>1, <2>3
  <2>6. wanted = [i \in DOMAIN wanted |-> wanted[i]]
    OBVIOUS
  <2> QED BY <1>1, <2>1, <2>2, <2>4, <2>5, <2>6
<1> QED BY <1>2, <1>3

LEMMA KeepsSingle == EnqueueIInv /\ SendSingle => EnqueueIInv'
<1> SUFFICES ASSUME EnqueueIInv, SendSingle PROVE EnqueueIInv'
  OBVIOUS
<1> DEFINE request == IntoRequest(building[1])
           wanted == MeantJob(building[1].kind)
<1>1. /\ way = "single" /\ building # None /\ building' = None /\ Enqueues(<<request>>, <<wanted>>)
      /\ UNCHANGED <<way, said, collected, meantJobs, group, cron>>
  BY DEF SendSingle
<1>2. created = <<>>
  BY <1>1 DEF EnqueueIInv, SentOnce
<1>3. request \in EnqueueRequest /\ wanted \in Meanings /\ JobOf(Body(request)) = wanted
  BY <1>1, RequestInHand DEF EnqueueIInv
<1> HIDE DEF request, wanted
<1>4. /\ <<request>> \in Seq(EnqueueRequest) /\ <<wanted>> \in Seq(Meanings)
      /\ Len(<<request>>) = Len(<<wanted>>)
      /\ \A i \in DOMAIN <<request>> : JobOf(Body(<<request>>[i])) = <<wanted>>[i]
  BY <1>3
<1>5. sent' # None /\ \A i \in DOMAIN created' : created'[i].job = created'[i].meant
  BY <1>1, <1>2, <1>4, EnqueuesMeant
<1>6. BuildingAsMeant'
  <2>1. said' = said /\ building' = None
    BY <1>1
  <2>2. said \in Seq(Setters) /\ PlacesFound
    BY DEF EnqueueIInv, BuildingAsMeant
  <2>3. PlacesFound'
    BY <2>1, <2>2, Unsaid
  <2> QED BY <2>1, <2>2, <2>3 DEF BuildingAsMeant
<1>7. CollectedAsMeant' /\ TemplatesAsMeant'
  BY <1>1, Uncollected, Unscheduled DEF EnqueueIInv
<1>8. SentOnce' /\ EnqueuedAsAsked'
  BY <1>1, <1>5 DEF EnqueueIInv, SentOnce, EnqueuedAsAsked
<1> QED BY <1>6, <1>7, <1>8 DEF EnqueueIInv

(* The requests collected are those of the send. *)
LEMMA CollectedRequests ==
  ASSUME CollectedAsMeant, NEW requests, requests = [i \in DOMAIN collected |-> collected[i].job]
  PROVE  /\ requests \in Seq(EnqueueRequest) /\ meantJobs \in Seq(Meanings) /\ Len(requests) = Len(meantJobs)
         /\ DOMAIN requests = DOMAIN collected /\ DOMAIN meantJobs = DOMAIN collected
         /\ \A i \in DOMAIN requests : JobOf(Body(requests[i])) = meantJobs[i]
<1>1. /\ collected \in Seq(Collectable) /\ meantJobs \in Seq(Meanings) /\ Len(collected) = Len(meantJobs)
      /\ \A i \in DOMAIN collected : JobOf(Body(collected[i].job)) = meantJobs[i]
  BY DEF CollectedAsMeant
<1>2. \A t \in Collectable : t.job \in EnqueueRequest
  BY DEF Collectable
<1>3. DOMAIN collected = 1 .. Len(collected) /\ Len(collected) \in Nat
  BY <1>1
<1>4. \A i \in DOMAIN collected : collected[i].job \in EnqueueRequest
  BY <1>1, <1>2
<1>5. requests \in Seq(EnqueueRequest) /\ Len(requests) = Len(collected) /\ DOMAIN requests = DOMAIN collected
  BY <1>3, <1>4
<1> QED BY <1>1, <1>3, <1>5

LEMMA KeepsBulk == EnqueueIInv /\ SendBulk => EnqueueIInv'
<1> SUFFICES ASSUME EnqueueIInv, SendBulk PROVE EnqueueIInv'
  OBVIOUS
<1> DEFINE requests == [i \in DOMAIN collected |-> collected[i].job]
<1>1. /\ way = "bulk" /\ building = None /\ sent = None /\ Enqueues(requests, meantJobs)
      /\ UNCHANGED <<way, building, said, collected, meantJobs, group, cron>>
  BY DEF SendBulk
<1>2. created = <<>>
  BY <1>1 DEF EnqueueIInv, SentOnce
<1>3. /\ requests \in Seq(EnqueueRequest) /\ meantJobs \in Seq(Meanings) /\ Len(requests) = Len(meantJobs)
      /\ \A i \in DOMAIN requests : JobOf(Body(requests[i])) = meantJobs[i]
  <2> HIDE DEF requests
  <2>1. requests = [i \in DOMAIN collected |-> collected[i].job]
    BY DEF requests
  <2> QED BY <2>1, CollectedRequests DEF EnqueueIInv
<1> HIDE DEF requests
<1>4. /\ sent' # None
      /\ \A i \in DOMAIN created' : created'[i].job = created'[i].meant
      /\ IF sent' = Some("Ok") THEN [i \in DOMAIN created' |-> created'[i].meant] = meantJobs
         ELSE created' = <<>>
  BY <1>1, <1>2, <1>3, EnqueuesMeant
<1>5. BuildingAsMeant' /\ CollectedAsMeant' /\ TemplatesAsMeant'
  BY <1>1, Unbuilt, Uncollected, Unscheduled DEF EnqueueIInv
<1>6. SentOnce' /\ EnqueuedAsAsked'
  BY <1>1, <1>4 DEF EnqueueIInv, SentOnce, EnqueuedAsAsked
<1> QED BY <1>5, <1>6 DEF EnqueueIInv

LEMMA KeepsCron == EnqueueIInv /\ ReplaceCron => EnqueueIInv'
<1> SUFFICES ASSUME EnqueueIInv, ReplaceCron PROVE EnqueueIInv'
  OBVIOUS
<1> DEFINE requests == [i \in DOMAIN collected |-> collected[i].job]
           old == IF cron = None THEN FALSE ELSE cron[1].paused
           entries == [i \in DOMAIN requests |->
                         [body |-> Body(requests[i]), timezone |-> collected[i].timezone,
                          paused |-> Else(collected[i].paused, Some(FALSE))[1], meant |-> meantJobs[i]]]
           replaced == [paused |-> Else(group.paused, Some(old))[1], timezone |-> group.timezone, entries |-> entries]
<1>1. /\ way = "cron" /\ building = None /\ sent = None
      /\ UNCHANGED <<way, building, said, collected, meantJobs, group, created>>
  BY DEF ReplaceCron
<1>2. cron' = cron \/ cron' = Some(replaced)
  BY DEF ReplaceCron
<1>3. \A i \in DOMAIN requests : JobOf(Body(requests[i])) = meantJobs[i]
  <2> HIDE DEF requests
  <2>1. requests = [i \in DOMAIN collected |-> collected[i].job]
    BY DEF requests
  <2> QED BY <2>1, CollectedRequests DEF EnqueueIInv
<1>4. \A i \in DOMAIN entries : {"body", "meant"} \subseteq DOMAIN entries[i] /\ JobOf(entries[i].body) = entries[i].meant
  <2> HIDE DEF requests
  <2> QED BY <1>3
<1> HIDE DEF requests, old, entries
<1>5. TemplatesAsMeant'
  <2>1. CASE cron' = cron
    BY <2>1, Unscheduled DEF EnqueueIInv
  <2>2. CASE cron' = Some(replaced)
    <3>1. 1 \in DOMAIN cron' /\ cron'[1] = replaced
      BY <2>2 DEF Some
    <3>2. {"paused", "entries"} \subseteq DOMAIN replaced /\ replaced.entries = entries
      OBVIOUS
    <3> HIDE DEF replaced
    <3> QED BY <1>4, <3>1, <3>2 DEF TemplatesAsMeant
  <2> QED BY <1>2, <2>1, <2>2
<1>6. BuildingAsMeant' /\ CollectedAsMeant'
  BY <1>1, Unbuilt, Uncollected DEF EnqueueIInv
<1>7. SentOnce' /\ EnqueuedAsAsked'
  BY <1>1 DEF EnqueueIInv, SentOnce, EnqueuedAsAsked
<1> QED BY <1>5, <1>6, <1>7 DEF EnqueueIInv

LEMMA KeepsPaused ==
  ASSUME EnqueueIInv, NEW i \in 0 .. 2, NEW paused \in BOOLEAN, PatchPaused(i, paused)
  PROVE  EnqueueIInv'
<1>1. /\ cron # None /\ created = <<>>
      /\ UNCHANGED <<way, building, said, collected, meantJobs, group, created, sent>>
  BY DEF PatchPaused
<1>2. /\ 1 \in DOMAIN cron /\ {"paused", "entries"} \subseteq DOMAIN cron[1]
      /\ \A j \in DOMAIN cron[1].entries :
           {"body", "meant"} \subseteq DOMAIN cron[1].entries[j] /\ JobOf(cron[1].entries[j].body) = cron[1].entries[j].meant
  BY <1>1 DEF EnqueueIInv, TemplatesAsMeant
<1>3. TemplatesAsMeant' /\ DOMAIN cron'[1].entries = DOMAIN cron[1].entries
  <2>1. CASE i = 0
    <3>1. cron' = [cron EXCEPT ![1].paused = paused]
      BY <2>1 DEF PatchPaused
    <3>2. 1 \in DOMAIN cron' /\ DOMAIN cron'[1] = DOMAIN cron[1] /\ cron'[1].entries = cron[1].entries
      BY <1>2, <3>1
    <3> QED BY <1>2, <3>2 DEF TemplatesAsMeant
  <2>2. CASE i # 0
    <3>1. i \in DOMAIN cron[1].entries /\ cron' = [cron EXCEPT ![1].entries[i].paused = paused]
      BY <2>2 DEF PatchPaused
    <3> DEFINE old == cron[1].entries
               new == cron'[1].entries
    <3>2. 1 \in DOMAIN cron' /\ DOMAIN cron'[1] = DOMAIN cron[1] /\ new = [old EXCEPT ![i].paused = paused]
      BY <1>2, <3>1
    <3>3. /\ DOMAIN new = DOMAIN old
          /\ \A j \in DOMAIN old : j # i => new[j] = old[j]
          /\ new[i] = [old[i] EXCEPT !.paused = paused]
      BY <3>1, <3>2
    <3>4. DOMAIN new[i] = DOMAIN old[i] /\ new[i].body = old[i].body /\ new[i].meant = old[i].meant
      <4>1. {"body", "meant"} \subseteq DOMAIN old[i]
        BY <1>2, <3>1
      <4> HIDE DEF old, new
      <4> QED BY <3>3, <4>1
    <3>5. \A j \in DOMAIN new : {"body", "meant"} \subseteq DOMAIN new[j] /\ JobOf(new[j].body) = new[j].meant
      <4>1. \A j \in DOMAIN old : {"body", "meant"} \subseteq DOMAIN old[j] /\ JobOf(old[j].body) = old[j].meant
        BY <1>2
      <4> HIDE DEF old, new
      <4> QED BY <3>3, <3>4, <4>1
    <3> QED BY <1>2, <3>2, <3>3, <3>5 DEF TemplatesAsMeant
  <2> QED BY <2>1, <2>2
<1>4. BuildingAsMeant' /\ CollectedAsMeant'
  BY <1>1, Unbuilt, Uncollected DEF EnqueueIInv
<1>5. SentOnce' /\ EnqueuedAsAsked'
  BY <1>1, <1>3 DEF EnqueueIInv, SentOnce, EnqueuedAsAsked
<1> QED BY <1>3, <1>4, <1>5 DEF EnqueueIInv

LEMMA KeepsTick ==
  ASSUME EnqueueIInv, NEW i \in 1 .. 2, Tick(i)
  PROVE  EnqueueIInv'
<1>1. /\ cron # None /\ i \in DOMAIN cron[1].entries
      /\ created' = <<[job |-> JobOf(cron[1].entries[i].body), meant |-> cron[1].entries[i].meant]>>
      /\ UNCHANGED <<way, building, said, collected, meantJobs, group, cron, sent>>
  BY DEF Tick
<1>2. JobOf(cron[1].entries[i].body) = cron[1].entries[i].meant
  BY <1>1 DEF EnqueueIInv, TemplatesAsMeant
<1>3. \A j \in DOMAIN created' : created'[j].job = created'[j].meant
  BY <1>1, <1>2
<1>4. way = "cron"
  BY <1>1 DEF EnqueueIInv, SentOnce
<1>5. BuildingAsMeant' /\ CollectedAsMeant' /\ TemplatesAsMeant'
  BY <1>1, Unbuilt, Uncollected, Unscheduled DEF EnqueueIInv
<1>6. SentOnce' /\ EnqueuedAsAsked'
  BY <1>1, <1>3, <1>4 DEF EnqueueIInv, SentOnce, EnqueuedAsAsked
<1> QED BY <1>5, <1>6 DEF EnqueueIInv

LEMMA EnqueueStep == EnqueueIInv /\ [EnqueueNext]_enqueueVars => EnqueueIInv'
<1> SUFFICES ASSUME EnqueueIInv, [EnqueueNext]_enqueueVars PROVE EnqueueIInv'
  OBVIOUS
<1>1. ASSUME NEW how \in {"single", "bulk", "cron"}, NEW kind \in JobKinds, StartEnqueue(how, kind)
      PROVE  EnqueueIInv'
  BY <1>1, KeepsStart
<1>2. ASSUME NEW call \in Setters, CallSetter(call) PROVE EnqueueIInv'
  BY <1>2, KeepsCall
<1>3. ASSUME NEW timezone \in OptionOf({"Berlin"}), NEW paused \in OptionOf(BOOLEAN), AddToBatch(timezone, paused)
      PROVE  EnqueueIInv'
  BY <1>3, KeepsAdd
<1>4. CASE SetGroup("timezone", "Melbourne") \/ \E p \in BOOLEAN : SetGroup("paused", p)
  BY <1>4, KeepsGroup
<1>5. CASE SendSingle \/ SendBulk \/ ReplaceCron
  BY <1>5, KeepsSingle, KeepsBulk, KeepsCron
<1>6. ASSUME NEW i \in 0 .. 2, NEW paused \in BOOLEAN, PatchPaused(i, paused) PROVE EnqueueIInv'
  BY <1>6, KeepsPaused
<1>7. ASSUME NEW i \in 1 .. 2, Tick(i) PROVE EnqueueIInv'
  BY <1>7, KeepsTick
<1>8. CASE UNCHANGED enqueueVars
  <2>1. UNCHANGED <<way, building, said, collected, meantJobs, group, cron, created, sent>>
    BY <1>8 DEF enqueueVars
  <2>2. BuildingAsMeant' /\ CollectedAsMeant' /\ TemplatesAsMeant'
    BY <2>1, Unbuilt, Uncollected, Unscheduled DEF EnqueueIInv
  <2>3. SentOnce' /\ EnqueuedAsAsked'
    BY <2>1 DEF EnqueueIInv, SentOnce, EnqueuedAsAsked
  <2> QED BY <2>2, <2>3 DEF EnqueueIInv
<1> QED BY <1>1, <1>2, <1>3, <1>4, <1>5, <1>6, <1>7, <1>8 DEF EnqueueNext

(* Whatever the kinds' defaults, and whatever is set in whatever order,    *)
(* every job the server creates - one, one of many, or on a tick of a cron *)
(* entry - is the one that was asked for, and a bulk send creates all of   *)
(* them in their order or none.                                            *)
THEOREM JobsAsAsked == EnqueueSpec => []EnqueuedAsAsked
<1>1. EnqueueIInv => EnqueuedAsAsked
  BY DEF EnqueueIInv
<1> QED BY <1>1, EnqueueInitial, EnqueueStep, PTL DEF EnqueueSpec

-----------------------------------------------------------------------------
(* The patches: any values, any number of calls in any order. *)
Kinds == {"job", "budget"}
Values == PatchValues \cup StrategyTypes

(* A patch under construction, the patch nested in it, and the settings it *)
(* is for have the fields of its kind.                                     *)
NestedShape ==
  \/ nested = Keep
  \/ nested = Clear /\ patching = "job"
  \/ nested.is = "Set" /\ nested = Put(nested.value) /\ nested.value \in [Inner[patching] -> FieldOf(Values)]

PatchShape ==
  /\ patch \in [Outer[patching] -> FieldOf(Values)]
  /\ meant \in [Fields(patching) -> FieldOf(Values)]
  /\ DOMAIN settings = Fields(patching)
  /\ NestedShape

(* What the last call about a field said is what the patch says of it, but *)
(* that a switch to while_in_flight leaves the dropping to the server.     *)
Says(f) == IF nested \in {Keep, Clear} THEN nested ELSE nested.value[f]

Drops(f) ==
  /\ patching = "budget" /\ f \in TimedFields
  /\ Says("type") = Put("while_in_flight")
  /\ Says(f) = Keep /\ meant[f] = Clear

PatchSays ==
  /\ \A f \in Outer[patching] : meant[f] = patch[f]
  /\ \A f \in Inner[patching] : meant[f] = Says(f) \/ Drops(f)

(* A budget that counts the jobs in flight has no period and no burst, and *)
(* a switch to it keeps neither.                                           *)
NotTimed ==
  /\ settings["type"] = "while_in_flight" => \A f \in TimedFields : settings[f] = Default
  /\ meant["type"] = Put("while_in_flight") => \A f \in TimedFields : meant[f] # Keep

PatchIInv ==
  /\ patching \in {"none"} \cup Kinds
  /\ patching # "none" => PatchShape /\ PatchSays
  /\ patching = "budget" => NotTimed

-----------------------------------------------------------------------------
LEMMA FieldFacts ==
  /\ Keep.is = "Keep" /\ Clear.is = "Clear" /\ Keep # Clear
  /\ \A v : Put(v).is = "Set" /\ Put(v).value = v /\ Put(v) # Keep /\ Put(v) # Clear
  BY DEF Keep, Clear, Put

LEMMA FieldCases ==
  ASSUME NEW S, NEW x \in FieldOf(S)
  PROVE  \/ x = Keep
         \/ x = Clear
         \/ x.is = "Set" /\ x = Put(x.value) /\ x.value \in S /\ x # Keep /\ x # Clear
  BY FieldFacts DEF FieldOf

LEMMA KindFields ==
  /\ Outer["job"] = JobFields /\ Inner["job"] = RetentionFields
  /\ Outer["budget"] = {"allocation"} /\ Inner["budget"] = StrategyFields
  /\ \A kind \in Kinds : Outer[kind] \cap Inner[kind] = {} /\ Fields(kind) = Outer[kind] \cup Inner[kind]
  /\ StrategyFields = {"type"} \cup TimedFields /\ "type" \notin TimedFields
  /\ TimedFields \cap Fields("job") = {} /\ TimedFields \cap Outer["budget"] = {}
  /\ "type" \notin Outer["budget"]
  BY DEF Outer, Inner, Kinds, Fields, JobFields, RetentionFields, StrategyFields, TimedFields

LEMMA OptionFacts ==
  /\ \A v : Some(v) # None /\ Some(v)[1] = v
  BY DEF Some, None

(* What the server makes of a patch: a kept field stays, a cleared one is  *)
(* reset, one that is set is set.                                          *)
LEMMA MergedWire ==
  ASSUME NEW record, NEW S, NEW fields, DOMAIN fields \subseteq DOMAIN record,
         \A f \in DOMAIN fields : fields[f] \in FieldOf(S)
  PROVE  /\ DOMAIN Merged(record, Wire(fields)) = DOMAIN record
         /\ \A f \in DOMAIN record \ DOMAIN fields : Merged(record, Wire(fields))[f] = record[f]
         /\ \A f \in DOMAIN fields :
              Merged(record, Wire(fields))[f] =
                CASE fields[f] = Keep  -> record[f]
                  [] fields[f] = Clear -> Default
                  [] OTHER             -> fields[f].value
<1>1. /\ DOMAIN Wire(fields) = {x \in DOMAIN fields : fields[x] # Keep}
      /\ \A f \in DOMAIN Wire(fields) :
           Wire(fields)[f] = IF fields[f] = Clear THEN None ELSE Some(fields[f].value)
  BY DEF Wire
<1>2. /\ DOMAIN Merged(record, Wire(fields)) = DOMAIN record
      /\ \A f \in DOMAIN record :
           Merged(record, Wire(fields))[f] =
             IF f \notin DOMAIN Wire(fields) THEN record[f]
             ELSE IF Wire(fields)[f] = None THEN Default ELSE Wire(fields)[f][1]
  BY DEF Merged
<1>3. ASSUME NEW f \in DOMAIN fields
      PROVE  Merged(record, Wire(fields))[f] =
               CASE fields[f] = Keep  -> record[f]
                 [] fields[f] = Clear -> Default
                 [] OTHER             -> fields[f].value
  <2>1. CASE fields[f] = Keep
    BY <1>1, <1>2, <2>1, FieldFacts
  <2>2. CASE fields[f] = Clear
    BY <1>1, <1>2, <2>2, FieldFacts
  <2>3. CASE fields[f] # Keep /\ fields[f] # Clear
    BY <1>1, <1>2, <2>3, OptionFacts
  <2> QED BY <2>1, <2>2, <2>3
<1> QED BY <1>1, <1>2, <1>3

-----------------------------------------------------------------------------
LEMMA PatchInitInv == PatchInit => PatchIInv
  BY DEF PatchInit, PatchIInv

LEMMA NewPatchInv ==
  ASSUME NEW kind \in Kinds, NewPatch(kind)
  PROVE  PatchIInv'
<1>1. /\ patching' = kind /\ nested' = Keep /\ settings' \in Stored(kind)
      /\ patch' = [f \in Outer[kind] |-> Keep]
      /\ meant' = [f \in Fields(kind) |-> Keep]
  BY DEF NewPatch, Untouched
<1>2. DOMAIN settings' = Fields(kind)
  <2>1. CASE kind = "job"
    BY <1>1, <2>1 DEF Stored
  <2>2. CASE kind = "budget"
    <3>1. PICK v \in PatchValues \cup {Default}, t \in StrategyTypes :
            settings' = Dropped([allocation |-> v, type |-> t, duration_ms |-> v, burst |-> v])
      BY <1>1, <2>2 DEF Stored
    <3>2. DOMAIN settings' = {"allocation", "type", "duration_ms", "burst"}
      BY <3>1 DEF Dropped
    <3> QED BY <2>2, <3>2, KindFields DEF TimedFields, Kinds
  <2> QED BY <2>1, <2>2 DEF Kinds
<1>3. PatchShape'
  BY <1>1, <1>2 DEF PatchShape, NestedShape, FieldOf
<1>4. PatchSays'
  BY <1>1, KindFields DEF PatchSays, Says
<1>5. kind = "budget" => NotTimed'
  <2> SUFFICES ASSUME kind = "budget" PROVE NotTimed'
    OBVIOUS
  <2>1. PICK v \in PatchValues \cup {Default}, t \in StrategyTypes :
          settings' = Dropped([allocation |-> v, type |-> t, duration_ms |-> v, burst |-> v])
    BY <1>1 DEF Stored
  <2>2. settings'["type"] = t /\ \A f \in TimedFields : settings'[f] = IF t = "while_in_flight" THEN Default ELSE v
    BY <2>1 DEF Dropped, TimedFields
  <2>3. meant'["type"] = Keep
    BY <1>1, KindFields DEF Kinds
  <2> QED BY <2>2, <2>3, FieldFacts DEF NotTimed
<1> QED BY <1>1, <1>3, <1>4, <1>5 DEF PatchIInv

LEMMA SetFieldInv ==
  ASSUME PatchIInv, NEW kind \in Kinds, NEW f \in Outer[kind], NEW v \in FieldOf(PatchValues),
         SetField(kind, f, v)
  PROVE  PatchIInv'
<1>1. /\ patching = kind /\ UNCHANGED <<patching, settings, nested>>
      /\ patch' = [patch EXCEPT ![f] = v] /\ meant' = [meant EXCEPT ![f] = v]
      /\ PatchShape /\ PatchSays
  BY DEF SetField, Calls, PatchIInv, Kinds
<1>2. v \in FieldOf(Values) /\ f \in Fields(kind) /\ f \notin Inner[kind]
  BY KindFields DEF FieldOf, Values
<1>3. PatchShape'
  BY <1>1, <1>2 DEF PatchShape, NestedShape
<1>4. PatchSays'
  <2>1. \A g \in Outer[kind] : meant'[g] = patch'[g]
    BY <1>1, <1>2, KindFields DEF PatchShape, PatchSays
  <2>2. \A g \in Inner[kind] : meant'[g] = meant[g] /\ Drops(g)' = Drops(g)
    BY <1>1, <1>2, KindFields DEF PatchShape, Says, Drops
  <2>3. \A g \in Inner[kind] : Says(g)' = Says(g)
    BY <1>1 DEF Says
  <2> QED BY <1>1, <2>1, <2>2, <2>3 DEF PatchSays
<1>5. kind = "budget" => NotTimed'
  <2> SUFFICES ASSUME kind = "budget" PROVE NotTimed'
    OBVIOUS
  <2>1. NotTimed /\ f \notin {"type"} \cup TimedFields
    BY <1>1, KindFields DEF PatchIInv
  <2>2. meant'["type"] = meant["type"] /\ \A g \in TimedFields : meant'[g] = meant[g]
    BY <1>1, <2>1, KindFields DEF PatchShape, Kinds
  <2> QED BY <1>1, <2>1, <2>2 DEF NotTimed
<1> QED BY <1>1, <1>3, <1>4, <1>5 DEF PatchIInv

(* The calls about the nested patch: it says what the call says.           *)
LEMMA NestedInv ==
  ASSUME PatchIInv, patching \in Kinds, UNCHANGED <<patching, settings, patch>>, NestedShape',
         meant' \in [Fields(patching) -> FieldOf(Values)],
         \A f \in Outer[patching] : meant'[f] = meant[f],
         \A f \in Inner[patching] : meant'[f] = Says(f)' \/ Drops(f)',
         patching = "budget" => NotTimed'
  PROVE  PatchIInv'
<1>1. PatchShape /\ PatchSays
  BY DEF PatchIInv, Kinds
<1>2. PatchShape'
  BY <1>1 DEF PatchShape
<1>3. PatchSays'
  BY <1>1 DEF PatchSays
<1> QED BY <1>2, <1>3 DEF PatchIInv, Kinds

LEMMA SetRetentionInv ==
  ASSUME PatchIInv, NEW r \in {Keep, Clear} \cup {Put(p) : p \in RetentionPatches}, SetRetention(r)
  PROVE  PatchIInv'
<1>1. /\ patching = "job" /\ patching \in Kinds /\ UNCHANGED <<patching, settings, patch>> /\ nested' = r
      /\ meant \in [Fields("job") -> FieldOf(Values)] /\ PatchShape
  BY DEF SetRetention, Calls, PatchIInv, PatchShape, Kinds
<1>2. Inner["job"] = RetentionFields /\ Fields("job") = Outer["job"] \cup RetentionFields
      /\ Outer["job"] \cap RetentionFields = {}
  BY KindFields DEF Kinds
<1>3. CASE r \in {Keep, Clear}
  <2>1. r \in FieldOf(Values) /\ r.is # "Set"
    BY <1>3, FieldFacts DEF FieldOf
  <2>2. meant' = [f \in DOMAIN meant |-> IF f \in RetentionFields THEN r ELSE meant[f]]
    BY <2>1 DEF SetRetention, Touch
  <2>3. /\ meant' \in [Fields("job") -> FieldOf(Values)]
        /\ \A f \in Outer["job"] : meant'[f] = meant[f]
        /\ \A f \in RetentionFields : meant'[f] = r
    BY <1>1, <1>2, <2>1, <2>2
  <2>4. NestedShape' /\ \A f \in RetentionFields : Says(f)' = r
    BY <1>1, <1>3 DEF NestedShape, Says
  <2> QED BY <1>1, <1>2, <2>3, <2>4, NestedInv
<1>4. CASE \E p \in RetentionPatches : r = Put(p)
  <2> PICK p \in RetentionPatches : r = Put(p)
    BY <1>4
  <2>1. /\ r.is = "Set" /\ r.value = p /\ r = Put(r.value) /\ r \notin {Keep, Clear}
        /\ DOMAIN p = RetentionFields /\ p \in [RetentionFields -> FieldOf(Values)]
    BY FieldFacts DEF RetentionPatches, FieldOf, Values
  <2>2. meant' = [f \in DOMAIN meant |-> IF f \in RetentionFields THEN p[f] ELSE meant[f]]
    BY <2>1 DEF SetRetention, Touch
  <2>3. /\ meant' \in [Fields("job") -> FieldOf(Values)]
        /\ \A f \in Outer["job"] : meant'[f] = meant[f]
        /\ \A f \in RetentionFields : meant'[f] = p[f]
    BY <1>1, <1>2, <2>1, <2>2
  <2>4. NestedShape' /\ \A f \in RetentionFields : Says(f)' = p[f]
    BY <1>1, <1>2, <2>1 DEF NestedShape, Says
  <2> QED BY <1>1, <1>2, <2>3, <2>4, NestedInv
<1> QED BY <1>3, <1>4

LEMMA StrategyShape ==
  ASSUME NEW s \in Strategies
  PROVE  /\ StrategyPatch(s) \in [StrategyFields -> FieldOf(Values)]
         /\ Meaning(s) \in [StrategyFields -> FieldOf(Values)]
<1>1. CASE s \in [type : {"time_based"}, duration_ms : PatchValues, burst : OptionOf(PatchValues)]
  <2>1. s.type = "time_based" /\ s.duration_ms \in Values
        /\ (s.burst # None => s.burst[1] \in Values)
    BY <1>1, OptionFacts DEF OptionOf, Values
  <2> QED BY <2>1 DEF StrategyPatch, Meaning, StrategyFields, FieldOf, Values, StrategyTypes
<1>2. CASE s \in [type : {"while_in_flight", "sliding"}]
  BY <1>2 DEF StrategyPatch, Meaning, StrategyFields, FieldOf, Values, StrategyTypes
<1> QED BY <1>1, <1>2 DEF Strategies

LEMMA MeaningIs ==
  ASSUME NEW s \in Strategies
  PROVE  /\ Meaning(s)["type"] = StrategyPatch(s)["type"]
         /\ Meaning(s)["type"] = Put("while_in_flight") => \A f \in TimedFields : Meaning(s)[f] = Clear
         /\ \A f \in StrategyFields :
              \/ Meaning(s)[f] = StrategyPatch(s)[f]
              \/ /\ f \in TimedFields /\ StrategyPatch(s)["type"] = Put("while_in_flight")
                 /\ StrategyPatch(s)[f] = Keep /\ Meaning(s)[f] = Clear
<1>1. CASE s.type = "while_in_flight"
  BY <1>1 DEF Meaning, StrategyPatch, StrategyFields, TimedFields
<1>2. CASE s.type # "while_in_flight"
  <2>1. Meaning(s) = StrategyPatch(s)
    BY <1>2 DEF Meaning
  <2>2. StrategyPatch(s)["type"] = Put(s.type)
    BY DEF StrategyPatch
  <2>3. StrategyPatch(s)["type"] # Put("while_in_flight")
    BY <1>2, <2>2, FieldFacts
  <2> QED BY <2>1, <2>3
<1> QED BY <1>1, <1>2

LEMMA SetStrategyInv ==
  ASSUME PatchIInv, NEW s \in Strategies, SetStrategy(s)
  PROVE  PatchIInv'
<1> DEFINE p == StrategyPatch(s)
           m == Meaning(s)
<1>1. /\ patching = "budget" /\ patching \in Kinds /\ UNCHANGED <<patching, settings, patch>> /\ nested' = Put(p)
      /\ meant \in [Fields("budget") -> FieldOf(Values)]
      /\ meant' = Touch(meant, m) /\ NotTimed
  BY DEF SetStrategy, Calls, PatchIInv, PatchShape, Kinds
<1>2. Inner["budget"] = StrategyFields /\ Fields("budget") = Outer["budget"] \cup StrategyFields
      /\ Outer["budget"] \cap StrategyFields = {}
      /\ "type" \in StrategyFields /\ TimedFields \subseteq StrategyFields
  BY KindFields DEF Kinds
<1>3. p \in [StrategyFields -> FieldOf(Values)] /\ m \in [StrategyFields -> FieldOf(Values)]
  BY StrategyShape
<1>4. /\ m["type"] = p["type"]
      /\ m["type"] = Put("while_in_flight") => \A f \in TimedFields : m[f] = Clear
      /\ \A f \in StrategyFields :
           m[f] = p[f] \/ (f \in TimedFields /\ p["type"] = Put("while_in_flight") /\ p[f] = Keep /\ m[f] = Clear)
  BY MeaningIs
<1> HIDE DEF p, m
<1>5. /\ meant' \in [Fields("budget") -> FieldOf(Values)]
      /\ \A f \in Outer["budget"] : meant'[f] = meant[f]
      /\ \A f \in StrategyFields : meant'[f] = m[f]
  BY <1>1, <1>2, <1>3 DEF Touch
<1>6. NestedShape' /\ \A f \in StrategyFields : Says(f)' = p[f]
  BY <1>1, <1>2, <1>3, FieldFacts DEF NestedShape, Says
<1>7. \A f \in StrategyFields : meant'[f] = Says(f)' \/ Drops(f)'
  BY <1>1, <1>2, <1>4, <1>5, <1>6 DEF Drops
<1>8. NotTimed'
  BY <1>1, <1>2, <1>4, <1>5, FieldFacts DEF NotTimed
<1> QED BY <1>1, <1>2, <1>5, <1>6, <1>7, <1>8, NestedInv

LEMMA SetInStrategyInv ==
  ASSUME PatchIInv, NEW f \in {"duration_ms", "burst"}, NEW v \in FieldOf(PatchValues) \ {Keep},
         SetInStrategy(f, v)
  PROVE  PatchIInv'
<1> DEFINE p == [StrategyMut EXCEPT ![f] = v]
<1>1. /\ patching = "budget" /\ patching \in Kinds /\ UNCHANGED <<patching, settings, patch>> /\ nested' = Put(p)
      /\ meant \in [Fields("budget") -> FieldOf(Values)]
      /\ meant' = [meant EXCEPT ![f] = v] /\ NestedShape /\ PatchSays /\ NotTimed
  BY DEF SetInStrategy, Calls, PatchIInv, PatchShape, Kinds
<1>2. Inner["budget"] = StrategyFields /\ Fields("budget") = Outer["budget"] \cup StrategyFields
      /\ Outer["budget"] \cap StrategyFields = {} /\ f \in StrategyFields
      /\ "type" \in StrategyFields /\ TimedFields \subseteq StrategyFields /\ f # "type"
  BY KindFields DEF Kinds, StrategyFields
<1>3. v \in FieldOf(Values) /\ v # Keep
  BY DEF FieldOf, Values
<1>4. StrategyMut \in [StrategyFields -> FieldOf(Values)] /\ \A g \in StrategyFields : StrategyMut[g] = Says(g)
  <2>1. CASE nested = Keep
    BY <1>1, <1>2, <2>1 DEF StrategyMut, Untouched, Says, FieldOf
  <2>2. CASE nested # Keep
    BY <1>1, <1>2, <2>2, FieldFacts DEF StrategyMut, NestedShape, Says
  <2> QED BY <2>1, <2>2
<1>5. p \in [StrategyFields -> FieldOf(Values)] /\ \A g \in StrategyFields : p[g] = IF g = f THEN v ELSE Says(g)
  BY <1>2, <1>3, <1>4
<1> HIDE DEF p
<1>6. /\ meant' \in [Fields("budget") -> FieldOf(Values)]
      /\ \A g \in Fields("budget") : meant'[g] = IF g = f THEN v ELSE meant[g]
  BY <1>1, <1>2, <1>3
<1>7. NestedShape' /\ \A g \in StrategyFields : Says(g)' = p[g]
  BY <1>1, <1>2, <1>5, FieldFacts DEF NestedShape, Says
<1>8. ASSUME NEW g \in StrategyFields PROVE meant'[g] = Says(g)' \/ Drops(g)'
  <2>1. CASE g = f
    BY <1>2, <1>5, <1>6, <1>7, <2>1
  <2>2. CASE g # f
    <3>1. meant'[g] = meant[g] /\ Says(g)' = Says(g) /\ Says("type")' = Says("type")
      BY <1>2, <1>5, <1>6, <1>7, <2>2
    <3>2. meant[g] = Says(g) \/ Drops(g)
      BY <1>1, <1>2 DEF PatchSays
    <3> QED BY <1>1, <3>1, <3>2 DEF Drops
  <2> QED BY <2>1, <2>2
<1>9. NotTimed'
  BY <1>1, <1>2, <1>3, <1>6 DEF NotTimed
<1> QED BY <1>1, <1>2, <1>6, <1>7, <1>8, <1>9, NestedInv

LEMMA PatchNextInv == PatchIInv /\ [PatchNext]_patchVars => PatchIInv'
<1> SUFFICES ASSUME PatchIInv, [PatchNext]_patchVars PROVE PatchIInv'
  OBVIOUS
<1>1. CASE \E kind \in Kinds : NewPatch(kind)
  BY <1>1, NewPatchInv
<1>2. CASE \E kind \in Kinds : \E f \in Outer[kind], v \in FieldOf(PatchValues) : SetField(kind, f, v)
  BY <1>2, SetFieldInv
<1>3. CASE \E r \in {Keep, Clear} \cup {Put(p) : p \in RetentionPatches} : SetRetention(r)
  BY <1>3, SetRetentionInv
<1>4. CASE \E s \in Strategies : SetStrategy(s)
  BY <1>4, SetStrategyInv
<1>5. CASE \E f \in {"duration_ms", "burst"}, v \in FieldOf(PatchValues) \ {Keep} : SetInStrategy(f, v)
  BY <1>5, SetInStrategyInv
<1>6. CASE SendPatch \/ SendFails
  BY <1>6 DEF SendPatch, SendFails, Send, PatchIInv
<1>7. CASE UNCHANGED patchVars
  BY <1>7 DEF patchVars, PatchIInv, PatchShape, NestedShape, PatchSays, Says, Drops, NotTimed
<1> QED BY <1>1, <1>2, <1>3, <1>4, <1>5, <1>6, <1>7 DEF PatchNext, Kinds

-----------------------------------------------------------------------------
(* What the server makes of the two patches together, before it drops what *)
(* a budget that counts the jobs in flight has not.                        *)
LEMMA AllMergedSays ==
  ASSUME PatchIInv, patching # "none"
  PROVE  /\ DOMAIN AllMerged = DOMAIN settings
         /\ \A f \in Outer[patching] : AllMerged[f] = Wanted[f]
         /\ \A f \in Inner[patching] : AllMerged[f] = CASE Says(f) = Keep  -> settings[f]
                                                          [] Says(f) = Clear -> Default
                                                          [] OTHER           -> Says(f).value
<1>1. PatchShape /\ PatchSays /\ patching \in Kinds
  BY DEF PatchIInv, Kinds
<1>2. DOMAIN settings = Outer[patching] \cup Inner[patching] /\ Outer[patching] \cap Inner[patching] = {}
  BY <1>1, KindFields DEF PatchShape
<1> DEFINE outer == Merged(settings, Wire(patch))
<1>3. /\ DOMAIN patch = Outer[patching]
      /\ \A f \in DOMAIN patch : patch[f] \in FieldOf(Values)
      /\ \A f \in Outer[patching] : meant[f] = patch[f]
  BY <1>1 DEF PatchShape, PatchSays
<1>4. /\ DOMAIN outer = DOMAIN settings
      /\ \A f \in Inner[patching] : outer[f] = settings[f]
      /\ \A f \in Outer[patching] : outer[f] = CASE meant[f] = Keep  -> settings[f]
                                                 [] meant[f] = Clear -> Default
                                                 [] OTHER            -> meant[f].value
  BY <1>2, <1>3, MergedWire
<1> HIDE DEF outer
<1>5. /\ DOMAIN Merged(outer, NestedWire) = DOMAIN settings
      /\ \A f \in Outer[patching] : Merged(outer, NestedWire)[f] = outer[f]
      /\ \A f \in Inner[patching] :
           Merged(outer, NestedWire)[f] = CASE Says(f) = Keep  -> outer[f]
                                            [] Says(f) = Clear -> Default
                                            [] OTHER           -> Says(f).value
  <2>1. CASE nested = Keep
    <3>1. NestedWire = <<>>
      BY <2>1, FieldFacts DEF NestedWire
    <3>2. \A f \in Inner[patching] : Says(f) = Keep
      BY <2>1 DEF Says
    <3> QED BY <1>2, <1>4, <3>1, <3>2, FieldFacts DEF Merged
  <2>2. CASE nested = Clear
    <3>1. NestedWire = [f \in Inner[patching] |-> None]
      BY <2>2, FieldFacts DEF NestedWire
    <3>2. \A f \in Inner[patching] : Says(f) = Clear
      BY <2>2 DEF Says
    <3> QED BY <1>2, <1>4, <3>1, <3>2, FieldFacts DEF Merged
  <2>3. CASE nested # Keep /\ nested # Clear
    <3>1. NestedWire = Wire(nested.value)
      BY <2>3 DEF NestedWire
    <3>2. /\ DOMAIN nested.value = Inner[patching]
          /\ \A f \in DOMAIN nested.value : nested.value[f] \in FieldOf(Values)
          /\ \A f \in Inner[patching] : Says(f) = nested.value[f]
      BY <1>1, <2>3 DEF PatchShape, NestedShape, Says
    <3> QED BY <1>2, <1>4, <3>1, <3>2, MergedWire
  <2> QED BY <2>1, <2>2, <2>3
<1>6. AllMerged = Merged(outer, NestedWire)
  BY DEF AllMerged, outer
<1>7. \A f \in DOMAIN settings : Wanted[f] = CASE meant[f] = Keep  -> settings[f]
                                            [] meant[f] = Clear -> Default
                                            [] OTHER            -> meant[f].value
  BY DEF Wanted
<1> QED BY <1>2, <1>4, <1>5, <1>6, <1>7

(* What a budget's patch sends for a period or a burst.                    *)
LEMMA NestedWireSays ==
  ASSUME PatchIInv, patching = "budget", NEW f \in TimedFields
  PROVE  (f \in DOMAIN NestedWire /\ NestedWire[f] # None) <=> Says(f).is = "Set"
<1>1. PatchShape /\ Inner["budget"] = StrategyFields /\ f \in StrategyFields
  BY KindFields DEF PatchIInv
<1>2. CASE nested = Keep
  BY <1>2, FieldFacts DEF NestedWire, Says
<1>3. CASE nested = Clear
  BY <1>1, <1>3, FieldFacts DEF PatchShape, NestedShape
<1>4. CASE nested # Keep /\ nested # Clear
  <2>1. NestedWire = Wire(nested.value) /\ Says(f) = nested.value[f]
    BY <1>4 DEF NestedWire, Says
  <2>2. DOMAIN nested.value = StrategyFields /\ nested.value[f] \in FieldOf(Values)
    BY <1>1, <1>4 DEF PatchShape, NestedShape
  <2>3. /\ f \in DOMAIN Wire(nested.value) <=> nested.value[f] # Keep
        /\ f \in DOMAIN Wire(nested.value) =>
             Wire(nested.value)[f] = IF nested.value[f] = Clear THEN None ELSE Some(nested.value[f].value)
    BY <1>1, <2>2 DEF Wire
  <2> QED BY <2>1, <2>2, <2>3, FieldCases, FieldFacts, OptionFacts
<1> QED BY <1>2, <1>3, <1>4

(* The patch does what the calls said, or is refused for what they ask.    *)
LEMMA PatchedAsMeant ==
  ASSUME PatchIInv, patching # "none"
  PROVE  (Refused <=> WantsTimed) /\ (~Refused => Patched = Wanted)
<1>1. PatchShape /\ PatchSays /\ patching \in Kinds
  BY DEF PatchIInv, Kinds
<1>2. DOMAIN settings = Outer[patching] \cup Inner[patching]
  BY <1>1, KindFields DEF PatchShape
<1>3. /\ Wanted = [f \in DOMAIN settings |-> Wanted[f]]
      /\ \A f \in DOMAIN settings : Wanted[f] = CASE meant[f] = Keep  -> settings[f]
                                                  [] meant[f] = Clear -> Default
                                                  [] OTHER            -> meant[f].value
  BY DEF Wanted
<1>4. /\ DOMAIN AllMerged = DOMAIN settings
      /\ \A f \in Outer[patching] : AllMerged[f] = Wanted[f]
      /\ \A f \in Inner[patching] : AllMerged[f] = CASE Says(f) = Keep  -> settings[f]
                                                       [] Says(f) = Clear -> Default
                                                       [] OTHER           -> Says(f).value
  BY AllMergedSays
<1>5. \A f \in Inner[patching] : AllMerged[f] = Wanted[f] \/ Drops(f)
  BY <1>1, <1>2, <1>3, <1>4 DEF PatchSays
<1>6. /\ Dropped(AllMerged) = [f \in DOMAIN settings |-> Dropped(AllMerged)[f]]
      /\ \A f \in DOMAIN settings :
           Dropped(AllMerged)[f] =
             IF f \in TimedFields /\ AllMerged["type"] = "while_in_flight" THEN Default ELSE AllMerged[f]
  BY <1>4 DEF Dropped
<1>7. (\A f \in DOMAIN settings : Dropped(AllMerged)[f] = Wanted[f]) => Dropped(AllMerged) = Wanted
  BY <1>3, <1>6
<1>8. CASE patching = "job"
  <2>1. ~Refused /\ ~WantsTimed
    BY <1>8 DEF Refused, WantsTimed
  <2>2. \A f \in DOMAIN settings : f \notin TimedFields
    BY <1>1, <1>8, KindFields DEF PatchShape
  <2>3. \A f \in DOMAIN settings : Dropped(AllMerged)[f] = Wanted[f]
    BY <1>2, <1>4, <1>5, <1>6, <1>8, <2>2 DEF Drops
  <2> QED BY <1>7, <2>1, <2>3 DEF Patched
<1>9. CASE patching = "budget"
  <2>1. /\ NotTimed /\ Inner["budget"] = {"type"} \cup TimedFields /\ "type" \notin TimedFields
        /\ \A f \in Outer["budget"] : f \notin TimedFields
    BY <1>9, KindFields DEF PatchIInv
  <2>2. AllMerged["type"] = Wanted["type"] /\ meant["type"] = Says("type")
    BY <1>1, <1>5, <1>9, <2>1 DEF Drops, PatchSays
  <2>3. \A f \in TimedFields : Says(f).is = "Set" <=> meant[f].is = "Set"
    BY <1>1, <1>9, <2>1, FieldFacts DEF PatchSays, Drops
  <2>4. Refused <=> WantsTimed
    <3>1. Refused <=> AllMerged["type"] = "while_in_flight" /\ \E f \in TimedFields : Says(f).is = "Set"
      BY <1>9, NestedWireSays DEF Refused
    <3>2. WantsTimed <=> Wanted["type"] = "while_in_flight" /\ \E f \in TimedFields : meant[f].is = "Set"
      BY <1>9 DEF WantsTimed
    <3> QED BY <2>2, <2>3, <3>1, <3>2
  <2>5. ASSUME ~WantsTimed, NEW f \in DOMAIN settings PROVE Dropped(AllMerged)[f] = Wanted[f]
    <3>1. CASE f \notin TimedFields
      BY <1>2, <1>4, <1>5, <1>6, <3>1 DEF Drops
    <3>2. CASE f \in TimedFields /\ Wanted["type"] = "while_in_flight"
      <4>1. meant[f].is # "Set" /\ meant[f] \in FieldOf(Values) /\ meant["type"] \in FieldOf(Values)
        <5>1. meant \in [Fields("budget") -> FieldOf(Values)] /\ {f, "type"} \subseteq Fields("budget")
          BY <1>1, <1>9, <2>1, <3>2, KindFields DEF PatchShape
        <5>2. meant[f].is # "Set"
          BY <1>9, <2>5, <3>2 DEF WantsTimed
        <5> QED BY <5>1, <5>2
      <4>2. meant[f] \in {Keep, Clear}
        BY <4>1, FieldCases
      <4>3. Dropped(AllMerged)[f] = Default
        BY <1>6, <2>2, <3>2
      <4>4. CASE meant[f] = Clear
        BY <1>3, <4>3, <4>4, FieldFacts
      <4>5. CASE meant[f] = Keep
        <5>1. meant["type"] # Put("while_in_flight")
          BY <2>1, <3>2, <4>5 DEF NotTimed
        <5>2. Wanted["type"] = CASE meant["type"] = Keep  -> settings["type"]
                                 [] meant["type"] = Clear -> Default
                                 [] OTHER                 -> meant["type"].value
          BY <1>2, <1>3, <1>9, <2>1
        <5>3. meant["type"] = Keep
          <6>1. Default # "while_in_flight"
            BY DEF Default
          <6>2. CASE meant["type"] = Clear
            BY <3>2, <5>2, <6>1, <6>2, FieldFacts
          <6>3. CASE meant["type"] # Keep /\ meant["type"] # Clear
            <7>1. meant["type"] = Put(meant["type"].value)
              BY <4>1, <6>3, FieldCases
            <7>2. meant["type"].value = "while_in_flight"
              BY <3>2, <5>2, <6>3
            <7> QED BY <5>1, <7>1, <7>2
          <6> QED BY <6>2, <6>3
        <5>4. settings["type"] = "while_in_flight"
          BY <3>2, <5>2, <5>3, FieldFacts
        <5>5. Wanted[f] = settings[f] /\ settings[f] = Default
          BY <1>3, <2>1, <3>2, <4>5, <5>4, FieldFacts DEF NotTimed
        <5> QED BY <4>3, <5>5
      <4> QED BY <4>2, <4>4, <4>5
    <3>3. CASE f \in TimedFields /\ Wanted["type"] # "while_in_flight"
      <4>1. Says("type") # Put("while_in_flight")
        BY <1>2, <1>3, <1>9, <2>1, <2>2, <3>3, FieldFacts
      <4>2. AllMerged[f] = Wanted[f]
        BY <1>5, <1>9, <2>1, <3>3, <4>1 DEF Drops
      <4> QED BY <1>6, <2>2, <3>3, <4>2
    <3> QED BY <3>1, <3>2, <3>3
  <2> QED BY <1>7, <2>4, <2>5 DEF Patched
<1> QED BY <1>1, <1>8, <1>9 DEF Kinds

(* A patch changes the settings that its calls touched, as the last call   *)
(* about each said, and no other, a strategy leaving nothing of the one    *)
(* before it, and is refused exactly if it asks for a period or a burst of *)
(* a budget that counts the jobs in flight: for any values and any number  *)
(* of calls.  A call that fails has done all of it or nothing.             *)
THEOREM PatchesDoAsMeant == PatchSpec => PatchDoesAsMeant
<1>1. ASSUME PatchIInv, [PatchNext]_patchVars, patching # "none", patching' = "none"
      PROVE  SendPatch \/ SendFails
  <2>1. \A kind \in Kinds : ~NewPatch(kind)
    BY <1>1 DEF NewPatch
  <2>2. \A kind \in Kinds : ~Calls(kind)
    BY <1>1 DEF Calls
  <2> QED BY <1>1, <2>1, <2>2 DEF PatchNext, patchVars, SetField, SetRetention, SetStrategy, SetInStrategy, Kinds
<1>2. ASSUME PatchIInv, [PatchNext]_patchVars, patching # "none", patching' = "none"
      PROVE  IF WantsTimed
             THEN settings' = settings /\ outcome' \in {"refused", "failed"}
             ELSE \/ settings' = Wanted /\ outcome' \in {"ok", "failed"}
                  \/ settings' = settings /\ outcome' = "failed"
  <2>1. (Refused <=> WantsTimed) /\ (~Refused => Patched = Wanted)
    BY <1>2, PatchedAsMeant
  <2>2. Refused => Patched = settings
    BY DEF Patched
  <2>3. CASE SendPatch
    BY <2>1, <2>2, <2>3 DEF SendPatch
  <2>4. CASE SendFails
    BY <2>1, <2>2, <2>4 DEF SendFails
  <2> QED BY <1>1, <1>2, <2>3, <2>4
<1>3. PatchIInv /\ [PatchNext]_patchVars =>
        [patching # "none" /\ patching' = "none" =>
           IF WantsTimed
           THEN settings' = settings /\ outcome' \in {"refused", "failed"}
           ELSE \/ settings' = Wanted /\ outcome' \in {"ok", "failed"}
                \/ settings' = settings /\ outcome' = "failed"]_patchVars
  BY <1>2
<1> QED BY <1>3, PatchInitInv, PatchNextInv, PTL DEF PatchSpec, PatchDoesAsMeant

-----------------------------------------------------------------------------
(* What a group is read as: its fields, unless one is unknown, bad or      *)
(* repeated.                                                               *)
Accepted(read, places) ==
  /\ \A i \in DOMAIN read : read[i].key \in DOMAIN places /\ read[i].value # None
  /\ \A i, j \in DOMAIN read : places[read[i].key] = places[read[j].key] => i = j

LEMMA SomeValue == \A x : Some(x) # None /\ Some(x)[1] = x
  BY DEF Some, None

LEMMA Collected ==
  ASSUME NEW read, DOMAIN read \subseteq Int, NEW places, NEW got, got = Collect(read, places)
  PROVE  /\ got # None <=> Accepted(read, places)
         /\ got # None => /\ DOMAIN got[1] = {places[read[i].key] : i \in DOMAIN read}
                          /\ \A i \in DOMAIN read : got[1][places[read[i].key]] = read[i].value[1]
<1> DEFINE Known(i) == read[i].key \in DOMAIN places
           Place(i) == places[read[i].key]
           Taken(i) == \E j \in DOMAIN read : j < i /\ Known(j) /\ Place(j) = Place(i)
           Holder(p) == CHOOSE i \in DOMAIN read : Place(i) = p
           bad == \E i \in DOMAIN read : ~Known(i) \/ read[i].value = None \/ Taken(i)
           made == [p \in {Place(i) : i \in DOMAIN read} |-> read[Holder(p)].value[1]]
<1>1. got = IF bad THEN None ELSE Some(made)
  BY DEF Collect
<1>2. Accepted(read, places) => ~bad
  BY DEF Accepted
<1>3. ASSUME ~bad PROVE Accepted(read, places)
  <2>1. \A i \in DOMAIN read : Known(i) /\ read[i].value # None /\ ~Taken(i)
    BY <1>3
  <2>2. ASSUME NEW i \in DOMAIN read, NEW j \in DOMAIN read, Place(i) = Place(j) PROVE i = j
    <3>1. i \in Int /\ j \in Int
      OBVIOUS
    <3>2. ~(j < i) /\ ~(i < j)
      BY <2>1, <2>2
    <3> QED BY <3>1, <3>2
  <2> QED BY <2>1, <2>2 DEF Accepted
<1>4. ASSUME Accepted(read, places), NEW i \in DOMAIN read PROVE made[Place(i)] = read[i].value[1]
  <2>1. Holder(Place(i)) \in DOMAIN read /\ Place(Holder(Place(i))) = Place(i)
    OBVIOUS
  <2>2. Holder(Place(i)) = i
    BY <1>4, <2>1 DEF Accepted
  <2>3. Place(i) \in {Place(j) : j \in DOMAIN read}
    OBVIOUS
  <2> HIDE DEF Holder, Place
  <2> QED BY <2>2, <2>3
<1>5. DOMAIN made = {Place(i) : i \in DOMAIN read}
  OBVIOUS
<1> HIDE DEF bad, made
<1>6. got # None <=> Accepted(read, places)
  BY <1>1, <1>2, <1>3, SomeValue
<1>7. ASSUME got # None PROVE got[1] = made
  BY <1>1, <1>7, SomeValue
<1> QED BY <1>4, <1>5, <1>6, <1>7

(* A group whose fields keep their names. *)
Reading(fields, vals) == [i \in DOMAIN fields |-> [fields[i] EXCEPT !.value = vals[i]]]

LEMMA GroupShape ==
  ASSUME NEW v, IsGroup(v)
  PROVE  /\ DOMAIN v \subseteq Int
         /\ \A i \in DOMAIN v : v[i] \in FieldsIn(v) /\ v[i] = [key |-> v[i].key, value |-> v[i].value]
         /\ \A f \in FieldsIn(v) : \E i \in DOMAIN v : f = v[i]
         /\ KeysIn(v) = {v[i].key : i \in DOMAIN v}
<1>1. DOMAIN v = 1 .. Len(v) /\ Len(v) \in Nat
  BY DEF IsGroup
<1>2. \A i \in DOMAIN v : v[i] \in ToSet(v)
  BY DEF ToSet
<1>3. \A f \in ToSet(v) : \E i \in DOMAIN v : f = v[i]
  BY DEF ToSet
<1>4. \A i \in DOMAIN v : v[i] = [key |-> v[i].key, value |-> v[i].value]
  BY <1>2 DEF IsGroup, IsField
<1> QED BY <1>1, <1>2, <1>3, <1>4 DEF FieldsIn, KeysIn

LEMMA GroupRead ==
  ASSUME NEW v, IsGroup(v), NEW vals, NEW names, NEW got, got = Collect(Reading(v, vals), Own(names))
  PROVE  /\ got # None <=> Once(v) /\ KeysIn(v) \subseteq names /\ \A i \in DOMAIN v : vals[i] # None
         /\ got # None => /\ DOMAIN got[1] = KeysIn(v)
                          /\ \A i \in DOMAIN v : got[1][v[i].key] = vals[i][1]
<1> DEFINE read == Reading(v, vals)
           places == Own(names)
<1>1. DOMAIN read = DOMAIN v /\ \A i \in DOMAIN v : read[i].key = v[i].key /\ read[i].value = vals[i]
  BY GroupShape DEF Reading
<1>2. DOMAIN places = names /\ \A n \in names : places[n] = n
  BY DEF Own
<1> HIDE DEF read, places
<1>3. /\ got # None <=> Accepted(read, places)
      /\ got # None => /\ DOMAIN got[1] = {places[read[i].key] : i \in DOMAIN read}
                       /\ \A i \in DOMAIN read : got[1][places[read[i].key]] = read[i].value[1]
  BY <1>1, Collected, GroupShape DEF read, places
<1>4. Accepted(read, places) <=> Once(v) /\ KeysIn(v) \subseteq names /\ \A i \in DOMAIN v : vals[i] # None
  BY <1>1, <1>2, GroupShape DEF Accepted, Once
<1>5. ASSUME got # None PROVE DOMAIN got[1] = KeysIn(v) /\ \A i \in DOMAIN v : got[1][v[i].key] = vals[i][1]
  <2>1. \A i \in DOMAIN v : v[i].key \in names
    BY <1>3, <1>4, <1>5, GroupShape
  <2>2. \A i \in DOMAIN v : places[read[i].key] = v[i].key
    BY <1>1, <1>2, <2>1
  <2>3. {places[read[i].key] : i \in DOMAIN read} = {v[i].key : i \in DOMAIN v}
    BY <1>1, <2>2
  <2>4. DOMAIN got[1] = {places[read[i].key] : i \in DOMAIN read}
    BY <1>3, <1>5
  <2>5. KeysIn(v) = {v[i].key : i \in DOMAIN v}
    BY GroupShape
  <2>6. \A i \in DOMAIN read : got[1][places[read[i].key]] = read[i].value[1]
    BY <1>3, <1>5
  <2>7. \A i \in DOMAIN v : got[1][v[i].key] = vals[i][1]
    BY <1>1, <2>2, <2>6
  <2> QED BY <2>3, <2>4, <2>5, <2>7
<1> QED BY <1>3, <1>4, <1>5

LEMMA ValueIs ==
  ASSUME NEW v, Once(v), NEW i \in DOMAIN v
  PROVE  ValueOf(v, v[i].key) = v[i].value
<1> DEFINE f == CHOOSE f \in FieldsIn(v) : f.key = v[i].key
<1>1. v[i] \in FieldsIn(v)
  BY DEF FieldsIn, ToSet
<1>2. f \in FieldsIn(v) /\ f.key = v[i].key
  BY <1>1
<1>3. PICK j \in DOMAIN v : f = v[j]
  BY <1>2 DEF FieldsIn, ToSet
<1>4. j = i
  BY <1>2, <1>3 DEF Once
<1> QED BY <1>3, <1>4 DEF ValueOf

(* A group of literals. *)
LEMMA LiteralsRead ==
  ASSUME NEW v, IsGroup(v), NEW names, NEW got, got = Collect(Literals(v), Own(names))
  PROVE  /\ got # None <=> Once(v) /\ KeysIn(v) \subseteq names
         /\ got # None => DOMAIN got[1] = KeysIn(v) /\ \A f \in FieldsIn(v) : got[1][f.key] = f.value
<1> DEFINE vals == [i \in DOMAIN v |-> Some(v[i].value)]
<1>1. Literals(v) = Reading(v, vals)
  BY DEF Literals, Reading
<1>2. \A i \in DOMAIN v : vals[i] # None /\ vals[i][1] = v[i].value
  BY SomeValue
<1> HIDE DEF vals
<1>3. /\ got # None <=> Once(v) /\ KeysIn(v) \subseteq names /\ \A i \in DOMAIN v : vals[i] # None
      /\ got # None => /\ DOMAIN got[1] = KeysIn(v)
                       /\ \A i \in DOMAIN v : got[1][v[i].key] = vals[i][1]
  BY <1>1, GroupRead
<1> QED BY <1>2, <1>3, GroupShape

LEMMA BackoffParsed ==
  ASSUME NEW v, IsGroup(v), NEW got, got = ParseBackoff(v)
  PROVE  /\ got # None <=> Once(v) /\ KeysIn(v) = BackoffFields
         /\ got # None => Has(got[1], v)
<1> DEFINE all == Collect(Literals(v), Own(BackoffFields))
<1>1. /\ all # None <=> Once(v) /\ KeysIn(v) \subseteq BackoffFields
      /\ all # None => DOMAIN all[1] = KeysIn(v) /\ \A f \in FieldsIn(v) : all[1][f.key] = f.value
  BY LiteralsRead
<1>2. got = IF all = None \/ ~BackoffFields \subseteq DOMAIN all[1] THEN None ELSE all
  BY DEF ParseBackoff, Requires
<1> HIDE DEF all
<1>3. \A f \in FieldsIn(v) : f.key \in KeysIn(v)
  BY DEF KeysIn
<1> QED BY <1>1, <1>2, <1>3 DEF Has

LEMMA RetentionParsed ==
  ASSUME NEW v, IsGroup(v), NEW got, got = ParseRetention(v)
  PROVE  /\ got # None <=> Once(v) /\ KeysIn(v) # {} /\ KeysIn(v) \subseteq {"completed_ms", "dead_ms"}
         /\ got # None => Has(got[1], v)
<1> DEFINE all == Collect(Literals(v), Own({"completed_ms", "dead_ms"}))
<1>1. /\ all # None <=> Once(v) /\ KeysIn(v) \subseteq {"completed_ms", "dead_ms"}
      /\ all # None => DOMAIN all[1] = KeysIn(v) /\ \A f \in FieldsIn(v) : all[1][f.key] = f.value
  BY LiteralsRead
<1>2. got = IF all # None /\ DOMAIN all[1] = {} THEN None ELSE all
  BY DEF ParseRetention
<1> HIDE DEF all
<1>3. \A f \in FieldsIn(v) : f.key \in KeysIn(v)
  BY DEF KeysIn
<1> QED BY <1>1, <1>2, <1>3 DEF Has

LEMMA TimeBasedParsed ==
  ASSUME NEW v, IsGroup(v)
  PROVE  ParseTimeBased(v) # None <=>
           Once(v) /\ {"duration_ms"} \subseteq KeysIn(v) /\ KeysIn(v) \subseteq {"duration_ms", "burst"}
<1> DEFINE all == Collect(Literals(v), Own({"duration_ms", "burst"}))
           got == Requires(all, {"duration_ms"})
           made == Some([p \in DOMAIN got[1] \cup {"type"} |-> IF p = "type" THEN "time_based" ELSE got[1][p]])
<1>1. /\ all # None <=> Once(v) /\ KeysIn(v) \subseteq {"duration_ms", "burst"}
      /\ all # None => DOMAIN all[1] = KeysIn(v)
  BY LiteralsRead
<1>2. got # None <=> all # None /\ {"duration_ms"} \subseteq DOMAIN all[1]
  BY DEF Requires
<1>3. ParseTimeBased(v) = IF got = None THEN None ELSE made
  BY DEF ParseTimeBased
<1>4. made # None
  BY SomeValue
<1> HIDE DEF all, got, made
<1> QED BY <1>1, <1>2, <1>3, <1>4

(* A policy takes an allocation and one of the two strategies. *)
PolicyPlaces == [allocation |-> "allocation", while_in_flight |-> "strategy", time_based |-> "strategy"]

LEMMA PolicyParsed ==
  ASSUME NEW v, IsGroup(v), GroupsOf(v, {"time_based"})
  PROVE  ParseBudgetPolicy(v) # None <=> Policy(v)
<1> DEFINE Read(f) ==
             CASE f.key = "time_based" -> ParseTimeBased(f.value)
               [] f.key = "while_in_flight" -> IF f.value = Bare THEN Some([type |-> f.key]) ELSE None
               [] OTHER -> Some(f.value)
           read == [i \in DOMAIN v |-> [v[i] EXCEPT !.value = Read(v[i])]]
           all == Collect(read, PolicyPlaces)
<1>1. ParseBudgetPolicy(v) = Requires(all, {"allocation", "strategy"})
  BY DEF ParseBudgetPolicy, PolicyPlaces
<1>2. DOMAIN read = DOMAIN v /\ \A i \in DOMAIN v : read[i].key = v[i].key /\ read[i].value = Read(v[i])
  BY GroupShape
<1>3. \A f : /\ f.key = "while_in_flight" => (Read(f) # None <=> f.value = Bare)
             /\ f.key = "allocation" => Read(f) # None
             /\ f.key = "time_based" => Read(f) = ParseTimeBased(f.value)
  BY SomeValue
<1>4. /\ DOMAIN PolicyPlaces = {"allocation", "while_in_flight", "time_based"}
      /\ PolicyPlaces["allocation"] = "allocation"
      /\ PolicyPlaces["while_in_flight"] = "strategy"
      /\ PolicyPlaces["time_based"] = "strategy"
  BY DEF PolicyPlaces
<1> HIDE DEF Read, read
<1>5. /\ all # None <=> Accepted(read, PolicyPlaces)
      /\ all # None => DOMAIN all[1] = {PolicyPlaces[read[i].key] : i \in DOMAIN read}
  BY <1>2, GroupShape, Collected
<1> HIDE DEF all
<1>6. KeysIn(v) = {v[i].key : i \in DOMAIN v}
  BY GroupShape
<1>7. ParseBudgetPolicy(v) # None <=> Accepted(read, PolicyPlaces) /\ {"allocation", "strategy"} \subseteq DOMAIN all[1]
  BY <1>1, <1>5 DEF Requires
<1>8. ASSUME NEW i \in DOMAIN v, v[i].key = "time_based"
      PROVE  ParseTimeBased(v[i].value) # None <=>
               LET t == v[i].value
               IN Once(t) /\ {"duration_ms"} \subseteq KeysIn(t) /\ KeysIn(t) \subseteq {"duration_ms", "burst"}
  BY <1>8, GroupShape, TimeBasedParsed DEF GroupsOf, FieldsIn
<1>9. ASSUME Accepted(read, PolicyPlaces), {"allocation", "strategy"} \subseteq DOMAIN all[1] PROVE Policy(v)
  <2>1. \A i \in DOMAIN v : v[i].key \in {"allocation", "while_in_flight", "time_based"} /\ Read(v[i]) # None
    BY <1>2, <1>4, <1>9 DEF Accepted
  <2>2. \A i, j \in DOMAIN v : PolicyPlaces[v[i].key] = PolicyPlaces[v[j].key] => i = j
    BY <1>2, <1>9 DEF Accepted
  <2>3. Once(v)
    BY <2>2 DEF Once
  <2>4. "allocation" \in KeysIn(v)
    BY <1>2, <1>4, <1>5, <1>6, <1>9, <2>1
  <2>5. PICK s \in DOMAIN v : PolicyPlaces[v[s].key] = "strategy"
    BY <1>2, <1>5, <1>9
  <2>6. v[s].key \in {"while_in_flight", "time_based"}
    BY <1>4, <2>1, <2>5
  <2>7. \A i \in DOMAIN v : v[i].key \in {"while_in_flight", "time_based"} => i = s
    BY <1>4, <2>2, <2>5
  <2>8. KeysIn(v) = {"allocation", v[s].key}
    BY <1>6, <2>1, <2>4, <2>7
  <2>9. ASSUME "while_in_flight" \in KeysIn(v) PROVE ValueOf(v, "while_in_flight") = Bare
    <3>1. PICK i \in DOMAIN v : v[i].key = "while_in_flight"
      BY <1>6, <2>9
    <3> QED BY <1>3, <2>1, <2>3, <3>1, ValueIs
  <2>10. ASSUME "time_based" \in KeysIn(v)
         PROVE  LET t == ValueOf(v, "time_based")
                IN Once(t) /\ {"duration_ms"} \subseteq KeysIn(t) /\ KeysIn(t) \subseteq {"duration_ms", "burst"}
    <3>1. PICK i \in DOMAIN v : v[i].key = "time_based"
      BY <1>6, <2>10
    <3>2. ParseTimeBased(v[i].value) # None
      BY <1>3, <2>1, <3>1
    <3>3. ValueOf(v, "time_based") = v[i].value
      BY <2>3, <3>1, ValueIs
    <3> QED BY <1>8, <3>1, <3>2, <3>3
  <2>11. KeysIn(v) \in {{"allocation", "while_in_flight"}, {"allocation", "time_based"}}
    BY <2>6, <2>8
  <2> QED BY <2>3, <2>9, <2>10, <2>11 DEF Policy
<1>10. ASSUME Policy(v) PROVE Accepted(read, PolicyPlaces) /\ {"allocation", "strategy"} \subseteq DOMAIN all[1]
  <2>1. Once(v) /\ KeysIn(v) \in {{"allocation", "while_in_flight"}, {"allocation", "time_based"}}
    BY <1>10 DEF Policy
  <2>2. \A i \in DOMAIN v : v[i].key \in {"allocation", "while_in_flight", "time_based"}
    BY <1>6, <2>1
  <2>3. ASSUME NEW i \in DOMAIN v PROVE Read(v[i]) # None
    <3>1. ValueOf(v, v[i].key) = v[i].value
      BY <2>1, ValueIs
    <3>2. CASE v[i].key = "while_in_flight"
      <4>1. v[i].value = Bare
        BY <1>6, <1>10, <3>1, <3>2 DEF Policy
      <4> QED BY <1>3, <3>2, <4>1
    <3>3. CASE v[i].key = "time_based"
      <4>1. ParseTimeBased(v[i].value) # None
        BY <1>6, <1>8, <1>10, <3>1, <3>3 DEF Policy
      <4> QED BY <1>3, <3>3, <4>1
    <3>4. CASE v[i].key = "allocation"
      BY <1>3, <3>4
    <3> QED BY <2>2, <3>2, <3>3, <3>4
  <2>4. ASSUME NEW i \in DOMAIN v, NEW j \in DOMAIN v, PolicyPlaces[v[i].key] = PolicyPlaces[v[j].key] PROVE i = j
    <3>1. v[i].key = v[j].key
      BY <1>4, <1>6, <2>1, <2>2, <2>4
    <3> QED BY <2>1, <3>1 DEF Once
  <2>5. Accepted(read, PolicyPlaces)
    BY <1>2, <1>4, <2>2, <2>3, <2>4 DEF Accepted
  <2>6. DOMAIN all[1] = {PolicyPlaces[v[i].key] : i \in DOMAIN v}
    BY <1>2, <1>5, <2>5
  <2>7. PICK a \in DOMAIN v : v[a].key = "allocation"
    BY <1>6, <2>1
  <2>8. PICK s \in DOMAIN v : v[s].key \in {"while_in_flight", "time_based"}
    BY <1>6, <2>1
  <2>9. "allocation" \in DOMAIN all[1]
    BY <1>4, <2>6, <2>7
  <2>10. "strategy" \in DOMAIN all[1]
    BY <1>4, <2>6, <2>8
  <2> QED BY <2>5, <2>9, <2>10
<1> QED BY <1>7, <1>9, <1>10

LEMMA BudgetParsed ==
  ASSUME NEW v, IsGroup(v), GroupsOf(v, {"create_with"}),
         \A g \in FieldsIn(v) : g.key = "create_with" => GroupsOf(g.value, {"time_based"}),
         NEW got, got = ParseBudget(v)
  PROVE  /\ got # None <=> /\ Once(v) /\ {"key"} \subseteq KeysIn(v)
                           /\ KeysIn(v) \subseteq {"key", "cost", "create_with"}
                           /\ "create_with" \in KeysIn(v) => Policy(ValueOf(v, "create_with"))
         /\ got # None => Has(got[1], v) /\ got[1].key = ValueOf(v, "key")
<1> DEFINE Read(f) == IF f.key = "create_with" THEN ParseBudgetPolicy(f.value) ELSE Some(f.value)
           vals == [i \in DOMAIN v |-> Read(v[i])]
           read == [i \in DOMAIN v |-> [v[i] EXCEPT !.value = Read(v[i])]]
           names == {"key", "cost", "create_with"}
           all == Collect(read, Own(names))
<1>1. got = Requires(all, {"key"})
  BY DEF ParseBudget
<1>2. read = Reading(v, vals)
  BY DEF Reading
<1>3. \A i \in DOMAIN v : vals[i] = Read(v[i])
  OBVIOUS
<1>4. \A f : f.key # "create_with" => Read(f) # None /\ Read(f)[1] = f.value
  BY SomeValue
<1>5. \A f : f.key = "create_with" => Read(f) = ParseBudgetPolicy(f.value)
  OBVIOUS
<1>all. all = Collect(read, Own(names))
  OBVIOUS
<1> HIDE DEF Read, vals, read, all
<1>6. /\ all # None <=> Once(v) /\ KeysIn(v) \subseteq names /\ \A i \in DOMAIN v : vals[i] # None
      /\ all # None => /\ DOMAIN all[1] = KeysIn(v)
                       /\ \A i \in DOMAIN v : all[1][v[i].key] = vals[i][1]
  BY <1>2, <1>all, GroupRead
<1>7. got = IF all = None \/ ~{"key"} \subseteq DOMAIN all[1] THEN None ELSE all
  BY <1>1 DEF Requires
<1>8. \A i \in DOMAIN v : v[i] \in FieldsIn(v)
  BY GroupShape
<1>9. \A f \in FieldsIn(v) : \E i \in DOMAIN v : f = v[i]
  BY GroupShape
<1>10. KeysIn(v) = {v[i].key : i \in DOMAIN v}
  BY GroupShape
<1>11. ASSUME NEW i \in DOMAIN v, v[i].key = "create_with"
       PROVE  vals[i] # None <=> Policy(v[i].value)
  <2>1. IsGroup(v[i].value) /\ GroupsOf(v[i].value, {"time_based"})
    BY <1>8, <1>11 DEF GroupsOf, FieldsIn
  <2> QED BY <1>3, <1>5, <1>11, <2>1, PolicyParsed
<1>12. ASSUME Once(v)
       PROVE  (\A i \in DOMAIN v : vals[i] # None) <=>
                ("create_with" \in KeysIn(v) => Policy(ValueOf(v, "create_with")))
  <2>1. \A i \in DOMAIN v : ValueOf(v, v[i].key) = v[i].value
    BY <1>12, ValueIs
  <2>2. \A i \in DOMAIN v : v[i].key # "create_with" => vals[i] # None
    BY <1>3, <1>4
  <2> QED BY <1>10, <1>11, <2>1, <2>2
<1>13. ASSUME got # None PROVE Has(got[1], v) /\ got[1].key = ValueOf(v, "key")
  <2>1. got = all /\ all # None /\ "key" \in KeysIn(v) /\ Once(v)
    BY <1>6, <1>7, <1>13
  <2>2. PICK k \in DOMAIN v : v[k].key = "key"
    BY <1>10, <2>1
  <2>3. got[1].key = v[k].value
    BY <1>3, <1>4, <1>6, <2>1, <2>2
  <2>4. ASSUME NEW f \in FieldsIn(v) PROVE f.key \in DOMAIN got[1] /\ (f.key \in {"create_with"} \/ got[1][f.key] = f.value)
    <3>1. PICK i \in DOMAIN v : f = v[i]
      BY <1>9
    <3>2. f.key \in DOMAIN got[1]
      BY <1>6, <1>10, <2>1, <3>1
    <3>3. got[1][f.key] = vals[i][1]
      BY <1>6, <2>1, <3>1
    <3> QED BY <1>3, <1>4, <3>1, <3>2, <3>3
  <2> QED BY <2>1, <2>2, <2>3, <2>4, ValueIs DEF Has
<1>14. got # None <=> all # None /\ "key" \in KeysIn(v)
  BY <1>6, <1>7
<1> QED BY <1>6, <1>12, <1>13, <1>14

(* What Select makes of a group whose fields have been collected. *)
LEMMA SelectMeans ==
  ASSUME NEW v, NEW all, LiteralPrefix(v), all # None => Once(v) /\ DOMAIN all[1] = KeysIn(v),
         all # None => \A f \in FieldsIn(v) : all[1][f.key] = f.value,
         NEW got, got = Select(all)
  PROVE  /\ got # None <=> all # None /\ ~{"only", "except"} \subseteq KeysIn(v)
         /\ got # None => HasSelection(got[1], v)
<1> DEFINE selects == CASE "only" \in DOMAIN all[1]   -> "only"
                        [] "except" \in DOMAIN all[1] -> "except"
                        [] OTHER                      -> "all"
           made == [selects |-> selects,
                    paths   |-> IF selects = "all" THEN <<>> ELSE all[1][selects],
                    prefix  |-> IF "prefix" \in DOMAIN all[1] THEN all[1].prefix ELSE TRUE,
                    scope   |-> IF "scope" \in DOMAIN all[1] THEN Some(all[1].scope) ELSE None]
<1>1. got = IF all = None \/ {"only", "except"} \subseteq DOMAIN all[1] THEN None ELSE Some(made)
  BY DEF Select
<1>2. /\ made.selects = selects
      /\ made.paths = IF selects = "all" THEN <<>> ELSE all[1][selects]
      /\ made.prefix = IF "prefix" \in DOMAIN all[1] THEN all[1].prefix ELSE TRUE
      /\ made.scope = IF "scope" \in DOMAIN all[1] THEN Some(all[1].scope) ELSE None
  OBVIOUS
<1> HIDE DEF made
<1>3. got # None <=> all # None /\ ~{"only", "except"} \subseteq KeysIn(v)
  BY <1>1, SomeValue
<1>4. ASSUME got # None PROVE HasSelection(got[1], v)
  <2>1. all # None /\ got[1] = made /\ DOMAIN all[1] = KeysIn(v) /\ ~{"only", "except"} \subseteq KeysIn(v)
    BY <1>1, <1>3, <1>4, SomeValue
  <2>2. ASSUME NEW k \in KeysIn(v) PROVE all[1][k] = ValueOf(v, k) /\ \E f \in FieldsIn(v) : f.key = k /\ f.value = all[1][k]
    <3>1. \E f \in FieldsIn(v) : f.key = k
      BY DEF KeysIn
    <3> DEFINE f == CHOOSE f \in FieldsIn(v) : f.key = k
    <3>2. f \in FieldsIn(v) /\ f.key = k
      BY <3>1
    <3>3. ValueOf(v, k) = f.value
      BY DEF ValueOf
    <3> HIDE DEF f
    <3> QED BY <2>1, <3>2, <3>3
  <2>3. selects = IF "only" \in KeysIn(v) THEN "only" ELSE IF "except" \in KeysIn(v) THEN "except" ELSE "all"
    BY <2>1
  <2>4. selects # "all" => selects \in KeysIn(v)
    BY <2>3
  <2> HIDE DEF selects
  <2>5. made.selects # "all" => made.paths = ValueOf(v, made.selects)
    BY <1>2, <2>2, <2>4
  <2>6. made.scope = IF "scope" \in KeysIn(v) THEN Some(ValueOf(v, "scope")) ELSE None
    BY <1>2, <2>1, <2>2
  <2>7. made.prefix = ("prefix" \in KeysIn(v) => ValueOf(v, "prefix"))
    <3>1. CASE "prefix" \in KeysIn(v)
      <4>1. ValueOf(v, "prefix") \in BOOLEAN /\ made.prefix = ValueOf(v, "prefix")
        BY <1>2, <2>1, <2>2, <3>1 DEF LiteralPrefix, FieldsIn
      <4> QED BY <3>1, <4>1
    <3>2. CASE "prefix" \notin KeysIn(v)
      BY <1>2, <2>1, <3>2
    <3> QED BY <3>1, <3>2
  <2> QED BY <1>2, <2>1, <2>3, <2>5, <2>6, <2>7 DEF HasSelection
<1> QED BY <1>3, <1>4

LEMMA UniqueParsed ==
  ASSUME NEW v, IsGroup(v), LiteralPrefix(v), NEW got, got = ParseUnique(v)
  PROVE  /\ got # None <=> /\ Selection(v) /\ KeysIn(v) \subseteq {"only", "except", "scope", "prefix"}
                           /\ "scope" \in KeysIn(v) => ValueOf(v, "scope") \in {"queued", "active", "exists"}
         /\ got # None => HasSelection(got[1], v)
<1> DEFINE scopes == {"queued", "active", "exists"}
           Read(f) == IF f.key = "scope" /\ f.value \notin {"queued", "active", "exists"} THEN None ELSE Some(f.value)
           vals == [i \in DOMAIN v |-> Read(v[i])]
           read == [i \in DOMAIN v |-> [v[i] EXCEPT !.value = Read(v[i])]]
           names == {"only", "except", "scope", "prefix"}
           all == Collect(read, Own(names))
<1>1. got = Select(all)
  BY DEF ParseUnique
<1>2. read = Reading(v, vals)
  BY DEF Reading
<1>3. all = Collect(read, Own(names))
  OBVIOUS
<1>4. \A i \in DOMAIN v : /\ vals[i] # None <=> ~(v[i].key = "scope" /\ v[i].value \notin scopes)
                          /\ vals[i] # None => vals[i][1] = v[i].value
  BY SomeValue
<1> HIDE DEF Read, vals, read, all
<1>5. /\ all # None <=> Once(v) /\ KeysIn(v) \subseteq names /\ \A i \in DOMAIN v : vals[i] # None
      /\ all # None => /\ DOMAIN all[1] = KeysIn(v)
                       /\ \A i \in DOMAIN v : all[1][v[i].key] = vals[i][1]
  BY <1>2, <1>3, GroupRead
<1>6. KeysIn(v) = {v[i].key : i \in DOMAIN v}
  BY GroupShape
<1>7. ASSUME Once(v)
      PROVE  (\A i \in DOMAIN v : vals[i] # None) <=> ("scope" \in KeysIn(v) => ValueOf(v, "scope") \in scopes)
  <2>1. \A i \in DOMAIN v : ValueOf(v, v[i].key) = v[i].value
    BY <1>7, ValueIs
  <2> QED BY <1>4, <1>6, <2>1
<1>8. ASSUME all # None, NEW f \in FieldsIn(v) PROVE all[1][f.key] = f.value
  <2>1. PICK i \in DOMAIN v : f = v[i]
    BY GroupShape
  <2> QED BY <1>4, <1>5, <1>8, <2>1
<1>9. all # None => Once(v) /\ DOMAIN all[1] = KeysIn(v)
  BY <1>5
<1>10. /\ got # None <=> all # None /\ ~{"only", "except"} \subseteq KeysIn(v)
       /\ got # None => HasSelection(got[1], v)
  BY <1>1, <1>8, <1>9, SelectMeans
<1>11. Selection(v) <=> Once(v) /\ ~{"only", "except"} \subseteq KeysIn(v)
  BY DEF Selection
<1> QED BY <1>5, <1>7, <1>10, <1>11

LEMMA BatchKeyParsed ==
  ASSUME NEW v, IsGroup(v), LiteralPrefix(v), NEW got, got = ParseBatchKey(v)
  PROVE  /\ got # None <=> v # Bare /\ Selection(v) /\ KeysIn(v) \subseteq {"only", "except", "prefix"}
         /\ got # None => HasSelection(got[1], v)
<1> DEFINE all == Collect(Literals(v), Own({"only", "except", "prefix"}))
<1>0. CASE v = Bare
  BY <1>0 DEF ParseBatchKey
<1> SUFFICES ASSUME v # Bare
             PROVE  /\ got # None <=> Selection(v) /\ KeysIn(v) \subseteq {"only", "except", "prefix"}
                    /\ got # None => HasSelection(got[1], v)
  BY <1>0
<1>1. got = Select(all)
  BY DEF ParseBatchKey
<1>2. /\ all # None <=> Once(v) /\ KeysIn(v) \subseteq {"only", "except", "prefix"}
      /\ all # None => DOMAIN all[1] = KeysIn(v) /\ \A f \in FieldsIn(v) : all[1][f.key] = f.value
  BY LiteralsRead
<1> HIDE DEF all
<1>3. /\ got # None <=> all # None /\ ~{"only", "except"} \subseteq KeysIn(v)
      /\ got # None => HasSelection(got[1], v)
  BY <1>1, <1>2, SelectMeans
<1> QED BY <1>2, <1>3 DEF Selection

BatchPlaces == [path |-> "path", limit |-> "limit", key |-> "key", dedup |-> "fold", sorted |-> "fold"]

(* What a batch is read as, and what is emitted of it. *)
BatchGrammar(v) ==
  /\ Once(v) /\ {"path", "limit"} \subseteq KeysIn(v)
  /\ KeysIn(v) \subseteq {"path", "limit", "dedup", "sorted", "key"}
  /\ ~{"dedup", "sorted"} \subseteq KeysIn(v)
  /\ \A k \in {"dedup", "sorted"} \cap KeysIn(v) : ValueOf(v, k) = Bare
  /\ "key" \in KeysIn(v) =>
       /\ ValueOf(v, "key") # Bare
       /\ Selection(ValueOf(v, "key"))
       /\ KeysIn(ValueOf(v, "key")) \subseteq {"only", "except", "prefix"}

BatchHonoured(batch, v) ==
  /\ batch.path = ValueOf(v, "path") /\ batch.limit = ValueOf(v, "limit")
  /\ ToSet(batch.calls) = KeysIn(v) \cap {"dedup", "sorted"}
  /\ HasSelection(batch.key, IF "key" \in KeysIn(v) THEN ValueOf(v, "key") ELSE Bare)

LEMMA WholeIsSelected == HasSelection(WholePayload, Bare)
<1>1. KeysIn(Bare) = {}
  BY DEF KeysIn, FieldsIn, ToSet, Bare
<1> QED BY <1>1 DEF HasSelection, WholePayload

LEMMA BatchParsed ==
  ASSUME NEW v, IsGroup(v), GroupsOf(v, {"key", "dedup", "sorted"}),
         \A g \in FieldsIn(v) : g.key = "key" => LiteralPrefix(g.value),
         NEW got, got = ParseBatch(v)
  PROVE  /\ got # None <=> BatchGrammar(v)
         /\ got # None => BatchHonoured(EmitBatch(got[1]), v)
<1> DEFINE Read(f) == CASE f.key = "key" -> ParseBatchKey(f.value)
                        [] f.key \in {"dedup", "sorted"} -> IF f.value = Bare THEN Some(f.key) ELSE None
                        [] OTHER -> Some(f.value)
           vals == [i \in DOMAIN v |-> Read(v[i])]
           read == [i \in DOMAIN v |-> [v[i] EXCEPT !.value = Read(v[i])]]
           all == Collect(read, BatchPlaces)
           P(i) == BatchPlaces[v[i].key]
<1>1. got = Requires(all, {"path", "limit"})
  BY DEF ParseBatch, BatchPlaces
<1>2. DOMAIN read = DOMAIN v /\ \A i \in DOMAIN v : read[i].key = v[i].key /\ read[i].value = Read(v[i])
  BY GroupShape
<1>3. \A f : /\ f.key = "key" => Read(f) = ParseBatchKey(f.value)
             /\ f.key \in {"dedup", "sorted"} => (Read(f) # None <=> f.value = Bare)
             /\ f.key \in {"dedup", "sorted"} /\ Read(f) # None => Read(f)[1] = f.key
             /\ f.key \in {"path", "limit"} => Read(f) # None /\ Read(f)[1] = f.value
  BY SomeValue
<1>4. /\ DOMAIN BatchPlaces = {"path", "limit", "key", "dedup", "sorted"}
      /\ BatchPlaces["path"] = "path" /\ BatchPlaces["limit"] = "limit" /\ BatchPlaces["key"] = "key"
      /\ BatchPlaces["dedup"] = "fold" /\ BatchPlaces["sorted"] = "fold"
  BY DEF BatchPlaces
<1>all. all = Collect(read, BatchPlaces)
  OBVIOUS
<1> HIDE DEF Read, vals, read, all
<1>5. /\ all # None <=> Accepted(read, BatchPlaces)
      /\ all # None => DOMAIN all[1] = {BatchPlaces[read[i].key] : i \in DOMAIN read}
      /\ all # None => \A i \in DOMAIN read : all[1][BatchPlaces[read[i].key]] = read[i].value[1]
  BY <1>2, <1>all, GroupShape, Collected
<1>6. KeysIn(v) = {v[i].key : i \in DOMAIN v}
  BY GroupShape
<1>7. got = IF all = None \/ ~{"path", "limit"} \subseteq DOMAIN all[1] THEN None ELSE all
  BY <1>1 DEF Requires
<1>8. ASSUME NEW i \in DOMAIN v, v[i].key = "key"
      PROVE  /\ Read(v[i]) # None <=> v[i].value # Bare /\ Selection(v[i].value) /\ KeysIn(v[i].value) \subseteq {"only", "except", "prefix"}
             /\ Read(v[i]) # None => HasSelection(Read(v[i])[1], v[i].value)
  <2>1. v[i] \in FieldsIn(v)
    BY GroupShape
  <2>2. IsGroup(v[i].value) /\ LiteralPrefix(v[i].value)
    BY <1>8, <2>1 DEF GroupsOf, FieldsIn
  <2>3. Read(v[i]) = ParseBatchKey(v[i].value)
    BY <1>3, <1>8
  <2> QED BY <2>2, <2>3, BatchKeyParsed
<1>9. ASSUME got # None PROVE BatchGrammar(v) /\ BatchHonoured(EmitBatch(got[1]), v)
  <2>1. got = all /\ all # None /\ Accepted(read, BatchPlaces) /\ "path" \in DOMAIN all[1] /\ "limit" \in DOMAIN all[1]
    BY <1>5, <1>7, <1>9
  <2>2. \A i \in DOMAIN v : v[i].key \in {"path", "limit", "key", "dedup", "sorted"} /\ Read(v[i]) # None
    BY <1>2, <1>4, <2>1 DEF Accepted
  <2>3. \A i, j \in DOMAIN v : P(i) = P(j) => i = j
    BY <1>2, <2>1 DEF Accepted
  <2>4. \A i \in DOMAIN v : P(i) \in DOMAIN all[1] /\ all[1][P(i)] = Read(v[i])[1]
    BY <1>2, <1>5, <2>1
  <2>5. \A p \in DOMAIN all[1] : \E i \in DOMAIN v : P(i) = p
    BY <1>2, <1>5, <2>1
  <2>6. Once(v)
    BY <2>3 DEF Once
  <2>7. \A i \in DOMAIN v : ValueOf(v, v[i].key) = v[i].value
    BY <2>6, ValueIs
  <2>8. PICK p \in DOMAIN v : P(p) = "path"
    BY <2>1, <2>5
  <2>9. PICK l \in DOMAIN v : P(l) = "limit"
    BY <2>1, <2>5
  <2>10. v[p].key = "path" /\ v[l].key = "limit"
    BY <1>4, <2>2, <2>8, <2>9
  <2>11. {"path", "limit"} \subseteq KeysIn(v) /\ KeysIn(v) \subseteq {"path", "limit", "dedup", "sorted", "key"}
    BY <1>6, <2>2, <2>10
  <2>12. ~{"dedup", "sorted"} \subseteq KeysIn(v)
    BY <1>4, <1>6, <2>3
  <2>13. \A i \in DOMAIN v : v[i].key = "key" => P(i) = "key"
    BY <1>4
  <2>14. \A i \in DOMAIN v : P(i) = "key" => v[i].key = "key"
    BY <1>4, <2>2
  <2>15. \A i \in DOMAIN v : P(i) = "fold" <=> v[i].key \in {"dedup", "sorted"}
    BY <1>4, <2>2
  <2>16. got[1].path = ValueOf(v, "path") /\ got[1].limit = ValueOf(v, "limit")
    BY <1>3, <2>1, <2>4, <2>7, <2>8, <2>9, <2>10
  <2> HIDE DEF P
  <2>17. "key" \in KeysIn(v) =>
           /\ ValueOf(v, "key") # Bare
           /\ Selection(ValueOf(v, "key"))
           /\ KeysIn(ValueOf(v, "key")) \subseteq {"only", "except", "prefix"}
    BY <1>6, <1>8, <2>2, <2>7
  <2>18. HasSelection(Or(got[1], "key", WholePayload), IF "key" \in KeysIn(v) THEN ValueOf(v, "key") ELSE Bare)
    <3>1. CASE "key" \in KeysIn(v)
      <4>1. PICK k \in DOMAIN v : v[k].key = "key"
        BY <1>6, <3>1
      <4>2. "key" \in DOMAIN got[1] /\ got[1]["key"] = Read(v[k])[1]
        BY <2>1, <2>4, <2>13, <4>1
      <4>3. HasSelection(Read(v[k])[1], v[k].value) /\ ValueOf(v, "key") = v[k].value
        BY <1>8, <2>2, <2>7, <4>1
      <4>4. Or(got[1], "key", WholePayload) = Read(v[k])[1]
        BY <4>2 DEF Or
      <4> QED BY <3>1, <4>3, <4>4
    <3>2. CASE "key" \notin KeysIn(v)
      <4>1. "key" \notin DOMAIN got[1]
        BY <1>6, <2>1, <2>5, <2>14, <3>2
      <4> QED BY <3>2, <4>1, WholeIsSelected DEF Or
    <3> QED BY <3>1, <3>2
  <2>19. ToSet(IF "fold" \in DOMAIN got[1] THEN <<got[1].fold>> ELSE <<>>) = KeysIn(v) \cap {"dedup", "sorted"}
    <3>1. CASE "fold" \in DOMAIN got[1]
      <4>1. PICK k \in DOMAIN v : P(k) = "fold"
        BY <2>1, <2>5, <3>1
      <4>2. got[1]["fold"] = v[k].key /\ v[k].key \in {"dedup", "sorted"}
        BY <1>3, <2>1, <2>2, <2>4, <2>15, <4>1
      <4>3. \A i \in DOMAIN v : v[i].key \in {"dedup", "sorted"} => i = k
        BY <2>3, <2>15, <4>1
      <4>4. KeysIn(v) \cap {"dedup", "sorted"} = {v[k].key}
        BY <1>6, <4>2, <4>3
      <4>5. ToSet(<<got[1].fold>>) = {got[1].fold}
        BY DEF ToSet
      <4> QED BY <3>1, <4>2, <4>4, <4>5
    <3>2. CASE "fold" \notin DOMAIN got[1]
      <4>1. KeysIn(v) \cap {"dedup", "sorted"} = {}
        BY <1>6, <2>1, <2>4, <2>15, <3>2
      <4>2. ToSet(<<>>) = {}
        BY DEF ToSet
      <4> QED BY <3>2, <4>1, <4>2
    <3> QED BY <3>1, <3>2
  <2>20. /\ EmitBatch(got[1]).path = got[1].path /\ EmitBatch(got[1]).limit = got[1].limit
         /\ EmitBatch(got[1]).calls = (IF "fold" \in DOMAIN got[1] THEN <<got[1].fold>> ELSE <<>>)
         /\ EmitBatch(got[1]).key = Or(got[1], "key", WholePayload)
    BY DEF EmitBatch
  <2>21. BatchHonoured(EmitBatch(got[1]), v)
    BY <2>16, <2>18, <2>19, <2>20 DEF BatchHonoured
  <2>22. \A k \in {"dedup", "sorted"} \cap KeysIn(v) : ValueOf(v, k) = Bare
    BY <1>3, <1>6, <2>2, <2>7
  <2> QED BY <2>6, <2>11, <2>12, <2>17, <2>21, <2>22 DEF BatchGrammar
<1>10. ASSUME BatchGrammar(v) PROVE got # None
  <2>1. Once(v) /\ \A i \in DOMAIN v : v[i].key \in {"path", "limit", "dedup", "sorted", "key"}
    BY <1>6, <1>10 DEF BatchGrammar
  <2>2. ASSUME NEW i \in DOMAIN v PROVE Read(v[i]) # None
    <3>1. CASE v[i].key = "key"
      <4>1. ValueOf(v, "key") = v[i].value /\ "key" \in KeysIn(v)
        BY <1>6, <2>1, <3>1, ValueIs
      <4>2. v[i].value # Bare /\ Selection(v[i].value) /\ KeysIn(v[i].value) \subseteq {"only", "except", "prefix"}
        BY <1>10, <4>1 DEF BatchGrammar
      <4> QED BY <1>8, <3>1, <4>2
    <3>2. CASE v[i].key \in {"dedup", "sorted"}
      <4>1. ValueOf(v, v[i].key) = v[i].value /\ v[i].key \in KeysIn(v)
        BY <1>6, <2>1, ValueIs
      <4>2. v[i].value = Bare
        BY <1>10, <3>2, <4>1 DEF BatchGrammar
      <4> QED BY <1>3, <3>2, <4>2
    <3> QED BY <1>3, <2>1, <3>1, <3>2
  <2>3. ASSUME NEW i \in DOMAIN v, NEW j \in DOMAIN v, P(i) = P(j) PROVE i = j
    <3>1. v[i].key = v[j].key
      BY <1>4, <1>6, <1>10, <2>1, <2>3 DEF BatchGrammar
    <3> QED BY <2>1, <3>1 DEF Once
  <2>4. Accepted(read, BatchPlaces)
    BY <1>2, <1>4, <2>1, <2>2, <2>3 DEF Accepted
  <2>5. DOMAIN all[1] = {P(i) : i \in DOMAIN v}
    BY <1>2, <1>5, <2>4
  <2>6. PICK p \in DOMAIN v : v[p].key = "path"
    BY <1>6, <1>10 DEF BatchGrammar
  <2>7. PICK l \in DOMAIN v : v[l].key = "limit"
    BY <1>6, <1>10 DEF BatchGrammar
  <2>8. "path" \in DOMAIN all[1] /\ "limit" \in DOMAIN all[1]
    BY <1>4, <2>5, <2>6, <2>7
  <2> QED BY <1>5, <1>7, <2>4, <2>8
<1> QED BY <1>9, <1>10

-----------------------------------------------------------------------------
(* One attribute: it is read exactly if it follows the grammar, and what   *)
(* is made of it says what it says.                                        *)
LEMMA AttributeRead ==
  ASSUME NEW f \in Attributes, f.key \in Constants, NEW got, got = ReadAttribute(f)
  PROVE  /\ got # None <=> Grammatical(f)
         /\ got # None => /\ f.key \in {"name", "queue", "priority", "retry_limit"} => got[1] = f.value
                          /\ f.key \in {"backoff", "retention"} => Has(got[1], f.value)
                          /\ f.key = "unique" => HasSelection(got[1], f.value)
                          /\ f.key = "batch" => BatchHonoured(EmitBatch(got[1]), f.value)
<1> DEFINE v == f.value
<1>0. /\ f.key \in {"backoff", "retention", "unique", "batch"} => IsGroup(v)
      /\ f.key = "unique" => LiteralPrefix(v)
      /\ f.key = "batch" => GroupsOf(v, {"key", "dedup", "sorted"}) /\ \A g \in FieldsIn(v) : g.key = "key" => LiteralPrefix(g.value)
  BY AttributesAssumption DEF FieldsIn
<1>1. CASE f.key = "backoff"
  <2>1. got = ParseBackoff(v)
    BY <1>1 DEF ReadAttribute
  <2>2. Grammatical(f) <=> Once(v) /\ KeysIn(v) = BackoffFields
    BY <1>1 DEF Grammatical
  <2> QED BY <1>0, <1>1, <2>1, <2>2, BackoffParsed
<1>2. CASE f.key = "retention"
  <2>1. got = ParseRetention(v)
    BY <1>2 DEF ReadAttribute
  <2>2. Grammatical(f) <=> Once(v) /\ KeysIn(v) # {} /\ KeysIn(v) \subseteq {"completed_ms", "dead_ms"}
    BY <1>2 DEF Grammatical
  <2> QED BY <1>0, <1>2, <2>1, <2>2, RetentionParsed
<1>3. CASE f.key = "unique"
  <2>1. got = ParseUnique(v)
    BY <1>3 DEF ReadAttribute
  <2>2. Grammatical(f) <=> /\ Selection(v) /\ KeysIn(v) \subseteq {"only", "except", "scope", "prefix"}
                           /\ "scope" \in KeysIn(v) => ValueOf(v, "scope") \in {"queued", "active", "exists"}
    BY <1>3 DEF Grammatical
  <2> QED BY <1>0, <1>3, <2>1, <2>2, UniqueParsed
<1>4. CASE f.key = "batch"
  <2>1. got = ParseBatch(v)
    BY <1>4 DEF ReadAttribute
  <2>2. Grammatical(f) <=> BatchGrammar(v)
    BY <1>4 DEF Grammatical, BatchGrammar
  <2> QED BY <1>0, <1>4, <2>1, <2>2, BatchParsed
<1>5. CASE f.key \in {"name", "queue", "priority", "retry_limit"}
  <2>1. got = Some(v)
    BY <1>5 DEF ReadAttribute
  <2>2. Grammatical(f)
    BY <1>5 DEF Grammatical, Constants
  <2> QED BY <1>5, <2>1, <2>2, SomeValue
<1> QED BY <1>1, <1>2, <1>3, <1>4, <1>5 DEF Constants

(* One budget. *)
LEMMA BudgetRead ==
  ASSUME NEW f \in Attributes, f.key = "budget", NEW got, got = ParseBudget(f.value)
  PROVE  /\ got # None <=> Grammatical(f)
         /\ got # None => Has(got[1], f.value) /\ got[1].key = ValueOf(f.value, "key")
<1>1. /\ IsGroup(f.value) /\ GroupsOf(f.value, {"create_with"})
      /\ \A g \in FieldsIn(f.value) : g.key = "create_with" => GroupsOf(g.value, {"time_based"})
  BY AttributesAssumption DEF FieldsIn
<1>2. Grammatical(f) <=> /\ Once(f.value) /\ {"key"} \subseteq KeysIn(f.value)
                         /\ KeysIn(f.value) \subseteq {"key", "cost", "create_with"}
                         /\ "create_with" \in KeysIn(f.value) => Policy(ValueOf(f.value, "create_with"))
  BY DEF Grammatical
<1> QED BY <1>1, <1>2, BudgetParsed

(* All of them.  What Parse keeps is, attribute by attribute, what was     *)
(* written.                                                                *)
BudgetsAt == {i \in DOMAIN written : written[i].key = "budget"}

LEMMA AttributesParsed ==
  ASSUME written \in Seq(Attributes), NEW got, got = Parse(written)
  PROVE  /\ got # None <=> WellFormed
         /\ got # None =>
              /\ DOMAIN got[1].budgets = BudgetsAt
              /\ \A i \in BudgetsAt : Has(got[1].budgets[i], written[i].value)
              /\ \A i \in DOMAIN written \ BudgetsAt :
                   /\ written[i].key \in Constants
                   /\ written[i].key \in DOMAIN got[1].own
                   /\ ReadAttribute(written[i]) # None
                   /\ got[1].own[written[i].key] = ReadAttribute(written[i])[1]
<1> DEFINE D == DOMAIN written
           at == {i \in DOMAIN written : written[i].key = "budget"}
           consts == [i \in DOMAIN written \ at |-> [written[i] EXCEPT !.value = ReadAttribute(written[i])]]
           own == Collect(consts, Own(Constants))
           budgets == [i \in at |-> ParseBudget(written[i].value)]
           Repeated(i) == \E j \in at : j < i /\ budgets[j] # None /\ budgets[j][1].key = budgets[i][1].key
           bad == \E i \in at : budgets[i] = None \/ Repeated(i)
           made == [own |-> own[1], budgets |-> [i \in at |-> budgets[i][1]]]
           K(i) == ValueOf(written[i].value, "key")
<1>1. got = IF own = None \/ bad THEN None ELSE Some(made)
  BY DEF Parse
<1>2. D \subseteq Int /\ \A i \in D : written[i] \in Attributes
  OBVIOUS
<1>3. \A i \in D : written[i] = [key |-> written[i].key, value |-> written[i].value]
  BY <1>2, AttributesAssumption DEF IsField
<1>4. /\ DOMAIN consts = D \ at
      /\ \A i \in D \ at : consts[i].key = written[i].key /\ consts[i].value = ReadAttribute(written[i])
  BY <1>3
<1>own. own = Collect(consts, Own(Constants))
  OBVIOUS
<1>5. \A i \in at : budgets[i] = ParseBudget(written[i].value)
  OBVIOUS
<1>6. made.own = own[1] /\ DOMAIN made.budgets = at /\ \A i \in at : made.budgets[i] = budgets[i][1]
  OBVIOUS
<1>7. at \subseteq D /\ \A i \in D : i \in at <=> written[i].key = "budget"
  OBVIOUS
<1>8. at = BudgetsAt
  BY DEF BudgetsAt
<1>9. DOMAIN Own(Constants) = Constants /\ \A n \in Constants : Own(Constants)[n] = n
  BY DEF Own
<1>10. FieldsIn(written) = {written[i] : i \in D}
  BY DEF FieldsIn, ToSet
<1> HIDE DEF D, at, consts, own, budgets, made, K
<1>11. /\ own # None <=> Accepted(consts, Own(Constants))
       /\ own # None => DOMAIN own[1] = {Own(Constants)[consts[i].key] : i \in DOMAIN consts}
       /\ own # None => \A i \in DOMAIN consts : own[1][Own(Constants)[consts[i].key]] = consts[i].value[1]
  <2>1. DOMAIN consts \subseteq Int
    BY <1>2, <1>4
  <2> QED BY <1>own, <2>1, Collected
<1>12. own # None <=> /\ \A i \in D \ at : written[i].key \in Constants /\ ReadAttribute(written[i]) # None
                      /\ \A i, j \in D \ at : written[i].key = written[j].key => i = j
  <2>1. Accepted(consts, Own(Constants)) =>
          \A i \in D \ at : written[i].key \in Constants /\ ReadAttribute(written[i]) # None
    BY <1>4, <1>9 DEF Accepted
  <2>2. ASSUME \A i \in D \ at : written[i].key \in Constants /\ ReadAttribute(written[i]) # None
        PROVE  Accepted(consts, Own(Constants)) <=> \A i, j \in D \ at : written[i].key = written[j].key => i = j
    <3>1. \A i \in D \ at : consts[i].key \in DOMAIN Own(Constants) /\ consts[i].value # None
      BY <1>4, <1>9, <2>2
    <3>2. \A i \in D \ at : Own(Constants)[consts[i].key] = written[i].key
      BY <1>4, <1>9, <2>2
    <3> QED BY <1>4, <3>1, <3>2 DEF Accepted
  <2> QED BY <1>11, <2>1, <2>2
<1>13. ASSUME NEW i \in D \ at, written[i].key \in Constants
       PROVE  ReadAttribute(written[i]) # None <=> Grammatical(written[i])
  BY <1>2, <1>13, AttributeRead
<1>14. ASSUME NEW i \in at
       PROVE  /\ budgets[i] # None <=> Grammatical(written[i])
              /\ budgets[i] # None => Has(budgets[i][1], written[i].value) /\ budgets[i][1].key = K(i)
  <2>1. written[i] \in Attributes /\ written[i].key = "budget"
    BY <1>2, <1>7
  <2>2. budgets[i] = ParseBudget(written[i].value)
    BY <1>5
  <2> QED BY <2>1, <2>2, BudgetRead DEF K
<1>15. ASSUME NEW i \in D \ at, Grammatical(written[i]) PROVE written[i].key \in Constants
  <2>1. written[i].key # "budget"
    BY <1>7
  <2> QED BY <1>15, <2>1 DEF Grammatical, Constants
<1>16. "budget" \notin Constants
  BY DEF Constants
<1>17. WellFormed <=> /\ \A i \in D : Grammatical(written[i])
                      /\ \A i, j \in D : i # j /\ written[i].key = written[j].key =>
                           written[i].key = "budget" /\ K(i) # K(j)
  BY <1>10 DEF WellFormed, D, K
<1>18. ASSUME \A i \in at : budgets[i] # None
       PROVE  (\A i \in at : ~Repeated(i)) <=> \A i, j \in at : i # j => K(i) # K(j)
  <2>1. \A i \in at : budgets[i][1].key = K(i)
    BY <1>14, <1>18
  <2>2. ASSUME \A i \in at : ~Repeated(i), NEW i \in at, NEW j \in at, i # j PROVE K(i) # K(j)
    <3>1. ~(j < i /\ K(j) = K(i)) /\ ~(i < j /\ K(i) = K(j))
      BY <1>18, <2>1, <2>2
    <3>2. i \in Int /\ j \in Int
      BY <1>2, <1>7
    <3> QED BY <2>2, <3>1, <3>2
  <2>3. ASSUME \A i, j \in at : i # j => K(i) # K(j), NEW i \in at PROVE ~Repeated(i)
    <3>1. ASSUME NEW j \in at, j < i, budgets[j][1].key = budgets[i][1].key PROVE FALSE
      <4>int. i \in Int
        BY <1>2, <1>7
      <4>1. j # i
        BY <3>1, <4>int
      <4>2. K(j) = K(i)
        BY <2>1, <3>1
      <4> QED BY <2>3, <4>1, <4>2
    <3> QED BY <3>1
  <2> QED BY <2>2, <2>3
<1>19. ~bad <=> (\A i \in at : budgets[i] # None) /\ (\A i, j \in at : i # j => K(i) # K(j))
  BY <1>18
<1> HIDE DEF bad
<1>20. got # None <=> own # None /\ ~bad
  BY <1>1, SomeValue
<1>21. ASSUME own # None, ~bad PROVE WellFormed
  <2>1. ASSUME NEW i \in D PROVE Grammatical(written[i])
    BY <1>12, <1>13, <1>14, <1>19, <1>21
  <2>2. ASSUME NEW i \in D, NEW j \in D, i # j, written[i].key = written[j].key
        PROVE  written[i].key = "budget" /\ K(i) # K(j)
    <3>1. i \in at \/ j \in at
      BY <1>12, <1>21, <2>2
    <3>2. i \in at /\ j \in at
      BY <1>7, <2>2, <3>1
    <3> QED BY <1>7, <1>19, <1>21, <2>2, <3>2
  <2> QED BY <1>17, <2>1, <2>2
<1>22. ASSUME WellFormed PROVE own # None /\ ~bad
  <2>1. \A i \in D \ at : written[i].key \in Constants /\ ReadAttribute(written[i]) # None
    BY <1>13, <1>15, <1>17, <1>22
  <2>2. \A i, j \in D \ at : written[i].key = written[j].key => i = j
    BY <1>7, <1>17, <1>22
  <2>3. \A i \in at : budgets[i] # None
    BY <1>7, <1>14, <1>17, <1>22
  <2>4. \A i, j \in at : i # j => K(i) # K(j)
    BY <1>7, <1>17, <1>22
  <2> QED BY <1>12, <1>19, <2>1, <2>2, <2>3, <2>4
<1>23. ASSUME got # None
       PROVE  /\ DOMAIN got[1].budgets = BudgetsAt
              /\ \A i \in BudgetsAt : Has(got[1].budgets[i], written[i].value)
              /\ \A i \in D \ at :
                   /\ written[i].key \in Constants
                   /\ written[i].key \in DOMAIN got[1].own
                   /\ ReadAttribute(written[i]) # None
                   /\ got[1].own[written[i].key] = ReadAttribute(written[i])[1]
  <2>1. own # None /\ ~bad /\ got[1] = made
    BY <1>1, <1>20, <1>23, SomeValue
  <2>2. \A i \in at : Has(got[1].budgets[i], written[i].value)
    BY <1>6, <1>14, <1>19, <2>1
  <2>3. \A i \in D \ at : written[i].key \in Constants /\ ReadAttribute(written[i]) # None
    BY <1>12, <2>1
  <2>4. \A i \in D \ at : Own(Constants)[consts[i].key] = written[i].key
    BY <1>4, <1>9, <2>3
  <2>5. \A i \in D \ at : written[i].key \in DOMAIN own[1]
    BY <1>4, <1>11, <2>1, <2>4
  <2>6. \A i \in D \ at : own[1][written[i].key] = ReadAttribute(written[i])[1]
    BY <1>4, <1>11, <2>1, <2>4
  <2> QED BY <1>6, <1>8, <2>1, <2>2, <2>3, <2>5, <2>6
<1> QED BY <1>8, <1>20, <1>21, <1>22, <1>23 DEF D

(* What is emitted of them. *)
LEMMA AttributeEmitted ==
  ASSUME NEW attrs, NEW f \in Attributes, f.key \in Constants, ReadAttribute(f) # None,
         f.key \in DOMAIN attrs.own, attrs.own[f.key] = ReadAttribute(f)[1],
         <<Malformed>> \notin PathsOf(attrs.own), NEW kind, Emit("Struct", attrs) = Kind(kind)
  PROVE  Honoured(kind, f)
<1> DEFINE own == attrs.own
<1>1. kind = [name |-> Or(own, "name", "Struct"),
              queue |-> Or(own, "queue", "default"),
              priority |-> Option(own, "priority"),
              retry_limit |-> Option(own, "retry_limit"),
              backoff |-> Option(own, "backoff"),
              retention |-> Option(own, "retention"),
              budgets |-> attrs.budgets,
              unique |-> Option(own, "unique"),
              batch |-> IF "batch" \in DOMAIN own THEN Some(EmitBatch(own.batch)) ELSE None]
  BY DEF Emit, Kind
<1>2. /\ f.key \in {"name", "queue", "priority", "retry_limit"} => own[f.key] = f.value
      /\ f.key \in {"backoff", "retention"} => Has(own[f.key], f.value)
      /\ f.key = "unique" => HasSelection(own[f.key], f.value)
      /\ f.key = "batch" => BatchHonoured(EmitBatch(own[f.key]), f.value)
  BY AttributeRead
<1> HIDE DEF own
<1>own. f.key \in DOMAIN own
  BY DEF own
<1>3. CASE f.key \in {"name", "queue"}
  <2>1. kind[f.key] = own[f.key]
    BY <1>1, <1>3, <1>own DEF Or
  <2> QED BY <1>2, <1>3, <2>1 DEF Honoured
<1>4. CASE f.key \in {"priority", "retry_limit"}
  <2>1. kind[f.key] = Some(own[f.key])
    BY <1>1, <1>4, <1>own DEF Option
  <2> QED BY <1>2, <1>4, <2>1 DEF Honoured
<1>5. CASE f.key \in {"backoff", "retention"}
  <2>1. kind[f.key] = Some(own[f.key])
    BY <1>1, <1>5, <1>own DEF Option
  <2>2. kind[f.key] # None /\ kind[f.key][1] = own[f.key]
    BY <2>1, SomeValue
  <2>3. Honoured(kind, f) <=> kind[f.key] # None /\ Has(kind[f.key][1], f.value)
    BY <1>5 DEF Honoured
  <2> QED BY <1>2, <1>5, <2>2, <2>3
<1>6. CASE f.key = "unique"
  <2>1. kind.unique = Some(own[f.key])
    BY <1>1, <1>6, <1>own DEF Option
  <2>2. kind.unique # None /\ kind.unique[1] = own[f.key]
    BY <2>1, SomeValue
  <2>3. Honoured(kind, f) <=> kind.unique # None /\ HasSelection(kind.unique[1], f.value)
    BY <1>6 DEF Honoured
  <2> QED BY <1>2, <1>6, <2>2, <2>3
<1>7. CASE f.key = "batch"
  <2>1. kind.batch = Some(EmitBatch(own[f.key]))
    BY <1>1, <1>7, <1>own
  <2>2. kind.batch # None /\ kind.batch[1] = EmitBatch(own[f.key])
    BY <2>1, SomeValue
  <2>3. Honoured(kind, f) <=> kind.batch # None /\ BatchHonoured(kind.batch[1], f.value)
    BY <1>7 DEF Honoured, BatchHonoured
  <2> QED BY <1>2, <1>7, <2>2, <2>3
<1> QED BY <1>3, <1>4, <1>5, <1>6, <1>7 DEF Constants

DeriveIInv ==
  /\ written \in Seq(Attributes)
  /\ derived # NotRun => derived = Derive("Struct", written)

LEMMA DeriveIInvHolds == DeriveSpec => []DeriveIInv
<1>1. DeriveInit => DeriveIInv
  BY DEF DeriveInit, DeriveIInv
<1>2. DeriveIInv /\ [DeriveNext]_deriveVars => DeriveIInv'
  <2> SUFFICES ASSUME DeriveIInv, [DeriveNext]_deriveVars PROVE DeriveIInv'
    OBVIOUS
  <2>1. ASSUME NEW item \in Attributes, Write(item) PROVE DeriveIInv'
    BY <2>1 DEF DeriveIInv, Write
  <2>2. CASE DeriveJobKind
    BY <2>2 DEF DeriveIInv, DeriveJobKind
  <2>3. CASE UNCHANGED deriveVars
    BY <2>3 DEF DeriveIInv, deriveVars
  <2> QED BY <2>1, <2>2, <2>3 DEF DeriveNext
<1> QED BY <1>1, <1>2, PTL DEF DeriveSpec

LEMMA DerivedAsWritten == DeriveIInv => AttributesHonoured
<1> SUFFICES ASSUME DeriveIInv, derived # NotRun PROVE AttributesHonoured
  BY DEF AttributesHonoured
<1> DEFINE got == Parse(written)
           own == got[1].own
<1>1. written \in Seq(Attributes) /\ derived = IF got = None THEN CompileError ELSE Emit("Struct", got[1])
  BY DEF DeriveIInv, Derive
<1>2. /\ got # None <=> WellFormed
      /\ got # None =>
           /\ DOMAIN got[1].budgets = BudgetsAt
           /\ \A i \in BudgetsAt : Has(got[1].budgets[i], written[i].value)
           /\ \A i \in DOMAIN written \ BudgetsAt :
                /\ written[i].key \in Constants
                /\ written[i].key \in DOMAIN own
                /\ ReadAttribute(written[i]) # None
                /\ own[written[i].key] = ReadAttribute(written[i])[1]
  BY <1>1, AttributesParsed
<1> HIDE DEF got
<1>3. CASE ~WellFormed
  BY <1>1, <1>2, <1>3 DEF AttributesHonoured
<1>4. CASE WellFormed /\ <<Malformed>> \in PathsOf(own)
  <2>1. derived = CompileError
    BY <1>1, <1>2, <1>4 DEF Emit
  <2> QED BY <1>4, <2>1 DEF AttributesHonoured, got
<1>5. CASE WellFormed /\ <<Malformed>> \notin PathsOf(own)
  <2>1. derived = Emit("Struct", got[1])
    BY <1>1, <1>2, <1>5
  <2>2. PICK kind : Emit("Struct", got[1]) = Kind(kind) /\ kind.budgets = got[1].budgets
    BY <1>5 DEF Emit
  <2>3. derived.is = "Kind" /\ derived.kind = kind
    BY <2>1, <2>2 DEF Kind
  <2>4. ASSUME NEW f \in FieldsIn(written) PROVE Honoured(kind, f)
    <3>1. PICK i \in DOMAIN written : f = written[i]
      BY DEF FieldsIn, ToSet
    <3>2. f \in Attributes
      BY <1>1, <3>1
    <3>3. CASE i \in BudgetsAt
      BY <3>1, <3>3 DEF BudgetsAt, Honoured
    <3>4. CASE i \notin BudgetsAt
      <4>1. f.key \in Constants /\ f.key \in DOMAIN own /\ ReadAttribute(f) # None /\ own[f.key] = ReadAttribute(f)[1]
        BY <1>2, <1>5, <3>1, <3>4
      <4> QED BY <1>5, <2>2, <3>2, <4>1, AttributeEmitted
    <3> QED BY <3>3, <3>4
  <2>5. DOMAIN kind.budgets = BudgetsAt /\ \A i \in BudgetsAt : Has(kind.budgets[i], written[i].value)
    BY <1>2, <1>5, <2>2
  <2> QED BY <1>5, <2>3, <2>4, <2>5 DEF AttributesHonoured, BudgetsAt, got
<1> QED BY <1>3, <1>4, <1>5

(* Every struct that compiles is given what its attributes say, and only   *)
(* those compile that follow the grammar: zizq-derive's attrs.rs and       *)
(* lib.rs, for every list of attributes.                                   *)
THEOREM AttributesTakeEffect == DeriveSpec => []AttributesHonoured
  BY DeriveIInvHolds, DerivedAsWritten, PTL

-----------------------------------------------------------------------------
(* What may be enqueued: by a producer of the kind, or by another.         *)
Formats == {"Json", "MessagePack"}

PayloadJob(kind, value, format) ==
  [type |-> kind.name, payload |-> Payload(WritePayload(kind, value, format)),
   kind |-> Some(kind), value |-> value, format |-> format]

ForeignJob(type, json) ==
  [type |-> type, payload |-> Payload(json), kind |-> None, value |-> Unit, format |-> "Json"]

Foreign == {Nil, NoItems, NoMembers, Text("?"), Member(Nil)}

TypedJobs ==
  {PayloadJob(kind, value, format) : kind \in PayloadKinds, value \in Texts \cup {Unit}, format \in Formats}
    \cup {ForeignJob(kind.name, json) : kind \in PayloadKinds, json \in Foreign}

(* A job of a kind holds a value of it. *)
HoldsItsValue(job) ==
  job.kind # None => /\ job.kind[1] \in PayloadKinds /\ job.value \in ValuesOf(job.kind[1])
                     /\ job.format \in Formats
                     /\ job = PayloadJob(job.kind[1], job.value, job.format)

Handlers == [kind : PayloadKinds, stateful : BOOLEAN, nth : Nat]

(* The route of a name is the last registration of it. *)
IsLast(n, name) ==
  /\ n \in DOMAIN routed /\ routed[n].kind.name = name
  /\ \A m \in DOMAIN routed : routed[m].kind.name = name => m <= n

RoutesAreLast ==
  /\ \A n \in DOMAIN routed : routed[n].nth = n /\ routed[n].kind.name \in DOMAIN routes
  /\ \A name \in DOMAIN routes : \E n \in DOMAIN routed : IsLast(n, name) /\ routes[name] = routed[n]

RouterIInv ==
  /\ routed \in Seq(Handlers)
  /\ typed \in Seq(TypedJobs)
  /\ \A i \in DOMAIN typed : HoldsItsValue(typed[i])
  /\ RoutesAreLast

-----------------------------------------------------------------------------
LEMMA SomeOf == \A v, w : /\ Some(v) # None /\ Some(v)[1] = v
                          /\ (Some(v) = Some(w) => v = w)
  BY DEF Some, None

(* Init and the steps keep the invariant. *)
LEMMA RouterInitial == RouterInit => RouterIInv
  BY DEF RouterInit, RouterIInv, RoutesAreLast, IsLast

LEMMA RouteKeeps ==
  ASSUME RouterIInv, NEW kind \in PayloadKinds, NEW stateful \in BOOLEAN, Route(kind, stateful)
  PROVE  RouterIInv'
<1> DEFINE newest == [kind |-> kind, stateful |-> stateful, nth |-> Len(routed) + 1]
<1>0. PICK N \in Nat : N = Len(routed)
  BY DEF RouterIInv
<1>1. routed \in Seq(Handlers) /\ N = Len(routed) /\ DOMAIN routed = 1 .. N
  BY <1>0 DEF RouterIInv
<1>2. newest \in Handlers
  BY <1>1 DEF Handlers
<1>3. /\ routed' = Append(routed, newest)
      /\ routes' = [name \in DOMAIN routes \cup {kind.name} |->
                      IF name = kind.name THEN newest ELSE routes[name]]
      /\ typed' = typed
  BY DEF Route
<1> HIDE DEF newest
<1>4. routed' \in Seq(Handlers) /\ DOMAIN routed' = 1 .. N + 1
  BY <1>1, <1>2, <1>3
<1>5. \A n \in 1 .. N : routed'[n] = routed[n]
  BY <1>1, <1>2, <1>3
<1>6. routed'[N + 1] = newest /\ newest.nth = N + 1 /\ newest.kind = kind
  BY <1>1, <1>2, <1>3 DEF newest
<1>7. DOMAIN routes' = DOMAIN routes \cup {kind.name}
  BY <1>3
<1>8. ASSUME NEW n \in DOMAIN routed'
      PROVE  routed'[n].nth = n /\ routed'[n].kind.name \in DOMAIN routes'
  <2>1. CASE n = N + 1
    BY <1>6, <1>7, <2>1
  <2>2. CASE n \in 1 .. N
    BY <1>1, <1>5, <1>7, <2>2 DEF RouterIInv, RoutesAreLast
  <2> QED BY <1>1, <1>4, <2>1, <2>2
<1>9. ASSUME NEW name \in DOMAIN routes'
      PROVE  \E n \in DOMAIN routed' : IsLast(n, name)' /\ routes'[name] = routed'[n]
  <2>1. CASE name = kind.name
    <3>1. IsLast(N + 1, name)'
      BY <1>1, <1>4, <1>6, <2>1 DEF IsLast
    <3>2. routes'[name] = newest
      BY <1>3, <2>1
    <3> QED BY <1>1, <1>4, <1>6, <3>1, <3>2
  <2>2. CASE name # kind.name
    <3>1. name \in DOMAIN routes /\ routes'[name] = routes[name]
      BY <1>3, <1>7, <2>2
    <3>2. PICK n \in DOMAIN routed : IsLast(n, name) /\ routes[name] = routed[n]
      BY <3>1 DEF RouterIInv, RoutesAreLast
    <3>3. n \in 1 .. N /\ n \in DOMAIN routed' /\ routed'[n] = routed[n]
      BY <1>1, <1>4, <1>5, <3>2
    <3>4. \A m \in DOMAIN routed' : routed'[m].kind.name = name => m \in 1 .. N
      BY <1>1, <1>4, <1>6, <2>2
    <3>5. \A m \in DOMAIN routed' : routed'[m].kind.name = name => m <= n
      BY <1>1, <1>5, <3>2, <3>4 DEF IsLast
    <3> QED BY <3>1, <3>2, <3>3, <3>5 DEF IsLast
  <2> QED BY <2>1, <2>2
<1>10. RoutesAreLast'
  BY <1>8, <1>9 DEF RoutesAreLast
<1>11. \A i \in DOMAIN typed' : HoldsItsValue(typed[i])'
  BY <1>3 DEF RouterIInv, HoldsItsValue
<1> QED BY <1>3, <1>4, <1>10, <1>11 DEF RouterIInv

LEMMA EnqueueKeeps ==
  ASSUME RouterIInv, NEW job \in TypedJobs, HoldsItsValue(job), typed' = Append(typed, job),
         UNCHANGED <<routes, routed>>
  PROVE  RouterIInv'
<1>1. typed \in Seq(TypedJobs) /\ typed' \in Seq(TypedJobs) /\ DOMAIN typed' = 1 .. Len(typed) + 1
  BY DEF RouterIInv
<1>2. \A i \in DOMAIN typed' : typed'[i] = IF i = Len(typed) + 1 THEN job ELSE typed[i]
  BY <1>1
<1>3. \A i \in DOMAIN typed' : i # Len(typed) + 1 => i \in DOMAIN typed
  BY <1>1
<1>4. \A i \in DOMAIN typed' : HoldsItsValue(typed[i])'
  BY <1>2, <1>3 DEF RouterIInv, HoldsItsValue
<1>5. RoutesAreLast'
  BY DEF RouterIInv, RoutesAreLast, IsLast
<1> QED BY <1>1, <1>4, <1>5 DEF RouterIInv

LEMMA TypedKeeps ==
  ASSUME RouterIInv, NEW kind \in PayloadKinds, NEW format \in Formats, NEW value \in ValuesOf(kind),
         EnqueueTyped(kind, value, format)
  PROVE  RouterIInv'
<1>1. value \in Texts \cup {Unit}
  BY DEF ValuesOf
<1>2. PayloadJob(kind, value, format) \in TypedJobs
  BY <1>1 DEF TypedJobs
<1>3. HoldsItsValue(PayloadJob(kind, value, format))
  BY SomeOf DEF HoldsItsValue, PayloadJob
<1>4. typed' = Append(typed, PayloadJob(kind, value, format)) /\ UNCHANGED <<routes, routed>>
  BY DEF EnqueueTyped, PayloadJob
<1> QED BY <1>2, <1>3, <1>4, EnqueueKeeps

LEMMA ForeignKeeps ==
  ASSUME RouterIInv, NEW kind \in PayloadKinds, NEW json \in Foreign, EnqueueForeign(kind.name, json)
  PROVE  RouterIInv'
<1>1. ForeignJob(kind.name, json) \in TypedJobs
  BY DEF TypedJobs
<1>2. HoldsItsValue(ForeignJob(kind.name, json))
  BY DEF HoldsItsValue, ForeignJob
<1>3. typed' = Append(typed, ForeignJob(kind.name, json)) /\ UNCHANGED <<routes, routed>>
  BY DEF EnqueueForeign, ForeignJob
<1> QED BY <1>1, <1>2, <1>3, EnqueueKeeps

LEMMA OthersKeep ==
  ASSUME RouterIInv, UNCHANGED <<routes, routed, typed>>
  PROVE  RouterIInv'
  BY DEF RouterIInv, RoutesAreLast, IsLast, HoldsItsValue

LEMMA RouterSteps ==
  ASSUME RouterIInv, [RouterNext]_routerVars
  PROVE  RouterIInv'
<1>1. ASSUME NEW kind \in PayloadKinds, NEW stateful \in BOOLEAN, Route(kind, stateful) PROVE RouterIInv'
  BY <1>1, RouteKeeps
<1>2. CASE RunRouter
  BY <1>2, OthersKeep DEF RunRouter
<1>3. ASSUME NEW kind \in PayloadKinds, NEW format \in Formats, NEW value \in ValuesOf(kind),
             EnqueueTyped(kind, value, format)
      PROVE  RouterIInv'
  BY <1>3, TypedKeeps
<1>4. ASSUME NEW kind \in PayloadKinds, NEW json \in Foreign, EnqueueForeign(kind.name, json)
      PROVE  RouterIInv'
  BY <1>4, ForeignKeeps
<1>5. ASSUME NEW i \in 1 .. MaxTyped, Handle(i) PROVE RouterIInv'
  <2>1. UNCHANGED <<routes, routed, typed>>
    BY <1>5 DEF Handle, Becomes
  <2> QED BY <2>1, OthersKeep
<1>6. ASSUME NEW i \in 1 .. MaxTyped, NEW first \in FailureCalls, NEW second \in FailureCalls,
             ReportByHand(i, first, second)
      PROVE  RouterIInv'
  BY <1>6, OthersKeep DEF ReportByHand, Becomes
<1>7. CASE UNCHANGED routerVars
  BY <1>7, OthersKeep DEF routerVars
<1> QED BY <1>1, <1>2, <1>3, <1>4, <1>5, <1>6, <1>7 DEF RouterNext, Formats, Foreign

-----------------------------------------------------------------------------
(* What is written is read back as itself, with the one exception, and a   *)
(* payload that is not read was written from no value of the type.         *)
Unwrapped(payload) == IF payload = None THEN Nil ELSE payload[1]

LEMMA UnwrapsAgain == \A json : Unwrapped(Payload(json)) = json
  BY SomeOf DEF Unwrapped, Payload

LEMMA ReadsBack ==
  ASSUME NEW kind \in PayloadKinds, NEW value \in ValuesOf(kind), NEW format \in Formats
  PROVE  LET read == FromValue(kind, WritePayload(kind, value, format))
         IN /\ read \subseteq {value}
            /\ read = {} => format = "MessagePack" /\ kind.outer # "bare" /\ kind.leaf = "unit"
<1> DEFINE leaf == WriteLeaf(kind, value, format, kind.outer = "bare")
           wrote == WritePayload(kind, value, format)
<1>1. kind.outer \in Outers /\ kind.leaf \in Leaves
  BY PayloadKindsAssumption
<1>2. FromValue(kind, wrote) = ReadLeaf(kind.leaf, leaf)
  <2>1. CASE kind.outer = "field"
    BY <2>1 DEF FromValue, WritePayload, Member
  <2>2. CASE kind.outer # "field"
    BY <2>2 DEF FromValue, WritePayload
  <2> QED BY <2>1, <2>2
<1>3. /\ ReadLeaf(kind.leaf, leaf) \subseteq {value}
      /\ ReadLeaf(kind.leaf, leaf) = {} => format = "MessagePack" /\ kind.outer # "bare" /\ kind.leaf = "unit"
  <2>1. CASE kind.leaf = "unit"
    <3>1. value = Unit
      BY <2>1 DEF ValuesOf
    <3>2. leaf = IF format = "Json" \/ kind.outer = "bare" THEN Nil ELSE NoItems
      BY <2>1 DEF WriteLeaf, WriteUnit
    <3>3. ReadLeaf(kind.leaf, leaf) \subseteq {Unit} /\ (leaf = Nil => Unit \in ReadLeaf(kind.leaf, leaf))
      BY <2>1 DEF ReadLeaf
    <3> QED BY <2>1, <3>1, <3>2, <3>3 DEF Formats
  <2>2. CASE kind.leaf = "tuple"
    <3>1. value = Unit /\ leaf = NoItems
      BY <2>2 DEF ValuesOf, WriteLeaf
    <3>2. ReadLeaf(kind.leaf, NoItems) = {Unit}
      BY <2>2 DEF ReadLeaf
    <3> QED BY <3>1, <3>2
  <2>3. CASE kind.leaf = "empty"
    <3>1. value = Unit /\ leaf = NoMembers
      BY <2>3 DEF ValuesOf, WriteLeaf
    <3>2. NoMembers.json \in {"object", "member", "array"}
      BY DEF NoMembers
    <3>3. ReadLeaf(kind.leaf, NoMembers) = {Unit}
      BY <2>3, <3>2 DEF ReadLeaf
    <3> QED BY <3>1, <3>3
  <2>4. CASE kind.leaf = "data"
    <3>1. leaf = Text(value)
      BY <2>4 DEF WriteLeaf
    <3>2. Text(value).json = "text" /\ Text(value).text = value
      BY DEF Text
    <3>3. ReadLeaf(kind.leaf, Text(value)) = {value}
      BY <2>4, <3>2 DEF ReadLeaf
    <3> QED BY <3>1, <3>3
  <2> QED BY <1>1, <2>1, <2>2, <2>3, <2>4 DEF Leaves
<1> QED BY <1>2, <1>3

LEMMA UnreadIsForeign ==
  ASSUME NEW kind \in PayloadKinds, NEW payload, FromValue(kind, Unwrapped(payload)) = {},
         NEW value \in ValuesOf(kind)
  PROVE  Payload(WritePayload(kind, value, "Json")) # payload
<1>1. FromValue(kind, WritePayload(kind, value, "Json")) # {}
  BY ReadsBack DEF Formats
<1> QED BY <1>1, UnwrapsAgain

-----------------------------------------------------------------------------
(* The handler of a name in the table is the last one matching the job. *)
LEMMA RouteFound ==
  ASSUME RouterIInv, NEW job, job.type \in DOMAIN routes
  PROVE  /\ LastMatch(job) \in Matching(job)
         /\ routes[job.type] = routed[LastMatch(job)]
         /\ routes[job.type].nth = LastMatch(job)
         /\ routes[job.type].kind \in PayloadKinds
<1>1. PICK n \in DOMAIN routed : IsLast(n, job.type) /\ routes[job.type] = routed[n]
  BY DEF RouterIInv, RoutesAreLast
<1>2. Matching(job) \subseteq Nat
  BY DEF RouterIInv, Matching
<1>3. n \in Matching(job) /\ \A m \in Matching(job) : m <= n
  BY <1>1 DEF IsLast, Matching
<1>4. LastMatch(job) \in Matching(job) /\ \A m \in Matching(job) : m <= LastMatch(job)
  BY <1>3 DEF LastMatch
<1>5. LastMatch(job) = n
  BY <1>2, <1>3, <1>4
<1>6. routed[n] \in Handlers /\ routed[n].nth = n
  BY <1>1 DEF RouterIInv, RoutesAreLast
<1> QED BY <1>1, <1>4, <1>5, <1>6 DEF Handlers

LEMMA NoRouteFound ==
  ASSUME RouterIInv, NEW job, job.type \notin DOMAIN routes
  PROVE  Matching(job) = {}
  BY DEF RouterIInv, RoutesAreLast, Matching

(* What HandlerGetsPayload asks of a step. *)
AsRegistered ==
  \A i \in DOMAIN handled' \ DOMAIN handled :
    Outcome(typed[i], handled'[i].called, handled'[i].failure, handled'[i].said)

LEMMA OneOutcome ==
  ASSUME NEW i, NEW called, NEW failure, NEW words, Becomes(i, called, failure, words),
         Outcome(typed[i], called, failure, words)
  PROVE  AsRegistered
<1> DEFINE rec == [called |-> called, failure |-> failure, said |-> words]
<1>1. ASSUME NEW j \in DOMAIN handled' \ DOMAIN handled
      PROVE  j = i /\ handled'[j] = rec
  BY <1>1 DEF Becomes
<1>2. rec.called = called /\ rec.failure = failure /\ rec.said = words
  OBVIOUS
<1> HIDE DEF rec
<1> QED BY <1>1, <1>2 DEF AsRegistered

LEMMA FailsWith ==
  ASSUME NEW type
  PROVE  Failing(type) # None /\ FailedWith(Failing(type)) = Some(type)
<1>1. FailureWith(NewFailure, [is |-> "error_type", value |-> type])
        = [error_type |-> Some(type), retry_at |-> None, kill |-> FALSE]
  BY DEF FailureWith, NewFailure
<1> QED BY <1>1, SomeOf DEF Failing, FailedWith

LEMMA HandleMeans ==
  ASSUME RouterIInv, NEW i, Handle(i)
  PROVE  AsRegistered
<1> DEFINE job == typed[i]
           last == LastMatch(job)
           newest == routes[job.type]
           read == FromValue(newest.kind, Unwrapped(job.payload))
<1>1. HoldsItsValue(job)
  BY DEF RouterIInv, Handle, Pending
<1>2. CASE job.type \notin DOMAIN routes
  <2>1. Becomes(i, None, Failing("NoRouteError"), <<>>)
    BY <1>2 DEF Handle
  <2>2. Outcome(typed[i], None, Failing("NoRouteError"), <<>>)
    BY <1>2, NoRouteFound, FailsWith, SomeOf DEF Outcome
  <2> QED BY <2>1, <2>2, OneOutcome
<1>3. CASE job.type \in DOMAIN routes
  <2>1. /\ last \in Matching(job) /\ newest = routed[last] /\ newest.nth = last
        /\ newest.kind \in PayloadKinds
    BY <1>3, RouteFound
  <2>2. job.kind = Some(routed[last].kind) =>
          /\ read \subseteq {job.value}
          /\ read = {} => UnitInside(job)
    <3> SUFFICES ASSUME job.kind = Some(routed[last].kind)
                 PROVE  read \subseteq {job.value} /\ (read = {} => UnitInside(job))
      OBVIOUS
    <3>1. job.kind # None /\ job.kind[1] = newest.kind
      BY <2>1, SomeOf
    <3>2. /\ job.value \in ValuesOf(newest.kind) /\ job.format \in Formats
          /\ job.payload = Payload(WritePayload(newest.kind, job.value, job.format))
      BY <1>1, <3>1 DEF HoldsItsValue, PayloadJob
    <3>3. Unwrapped(job.payload) = WritePayload(newest.kind, job.value, job.format)
      BY <3>2, UnwrapsAgain
    <3> QED BY <2>1, <3>1, <3>2, <3>3, ReadsBack DEF UnitInside
  <2>3. CASE read = {}
    <3>1. Becomes(i, None, Failing("PayloadDeserializeError"), <<>>)
      BY <1>3, <2>3 DEF Handle, Unwrapped
    <3>2. \A v \in ValuesOf(newest.kind) : Payload(WritePayload(newest.kind, v, "Json")) # job.payload
      BY <2>1, <2>3, UnreadIsForeign
    <3>3. Outcome(typed[i], None, Failing("PayloadDeserializeError"), <<>>)
      BY <2>1, <2>2, <2>3, <3>2, FailsWith, SomeOf DEF Outcome, RightlyRefused
    <3> QED BY <3>1, <3>3, OneOutcome
  <2>4. CASE read # {}
    <3>1. PICK v \in read, failure \in {None, Failing("HandlerError")} :
            Becomes(i, Some(Ran(newest, v)), failure, <<>>)
      BY <1>3, <2>4 DEF Handle, Unwrapped
    <3>2. /\ Some(Ran(newest, v)) # None
          /\ Some(Ran(newest, v))[1].handler = last
          /\ Some(Ran(newest, v))[1].state = IF routed[last].stateful THEN routerState ELSE None
          /\ Some(Ran(newest, v))[1].value = v
      BY <2>1, SomeOf DEF Ran
    <3>3. FailedWith(failure) \in {None, Some("HandlerError")}
      BY FailsWith DEF FailedWith
    <3>4. Outcome(typed[i], Some(Ran(newest, v)), failure, <<>>)
      BY <2>2, <3>2, <3>3, SomeOf DEF Outcome, RightHandler
    <3> QED BY <3>1, <3>4, OneOutcome
  <2> QED BY <2>3, <2>4
<1> QED BY <1>2, <1>3

LEMMA ByHandMeans ==
  ASSUME NEW i, NEW first \in FailureCalls, NEW second \in FailureCalls, ReportByHand(i, first, second)
  PROVE  AsRegistered
<1> DEFINE once == FailureWith(NewFailure, first)
           twice == FailureWith(once, second)
           words == <<first, second>>
<1>1. /\ first.is \in {"error_type", "retry_at", "kill"} /\ second.is \in {"error_type", "retry_at", "kill"}
      /\ first.is = "error_type" => first.value \in {"1", "2"}
      /\ second.is = "error_type" => second.value \in {"1", "2"}
  BY DEF FailureCalls
<1>2. once = [error_type |-> IF first.is = "error_type" THEN Some(first.value) ELSE None,
              retry_at   |-> IF first.is = "retry_at" THEN Some(first.value) ELSE None,
              kill       |-> IF first.is = "kill" THEN TRUE ELSE FALSE]
  BY <1>1 DEF FailureWith, NewFailure
<1> DEFINE e == IF first.is = "error_type" THEN Some(first.value) ELSE None
           r == IF first.is = "retry_at" THEN Some(first.value) ELSE None
           k == IF first.is = "kill" THEN TRUE ELSE FALSE
<1>3. once = [error_type |-> e, retry_at |-> r, kill |-> k] /\ k \in BOOLEAN
  BY <1>2
<1> HIDE DEF e, r, k
<1> HIDE DEF once
<1>4. twice = [error_type |-> IF second.is = "error_type" THEN Some(second.value) ELSE once.error_type,
               retry_at   |-> IF second.is = "retry_at" THEN Some(second.value) ELSE once.retry_at,
               kill       |-> IF second.is = "kill" THEN TRUE ELSE once.kill]
  <2>1. once.error_type = e /\ once.retry_at = r /\ once.kill = k
    BY <1>3
  <2>2. FailureWith([error_type |-> e, retry_at |-> r, kill |-> k], second) =
          [error_type |-> IF second.is = "error_type" THEN Some(second.value) ELSE e,
           retry_at   |-> IF second.is = "retry_at" THEN Some(second.value) ELSE r,
           kill       |-> IF second.is = "kill" THEN TRUE ELSE k]
    BY <1>1, <1>3 DEF FailureWith
  <2> QED BY <1>3, <2>1, <2>2
<1>5. words[1] = first /\ words[2] = second /\ DOMAIN words = {1, 2}
  OBVIOUS
<1>6. \A what : LastSaid(words, what) = IF second.is = what THEN Some(second.value)
                                       ELSE IF first.is = what THEN Some(first.value) ELSE None
  BY <1>5 DEF LastSaid
<1>7. (\E c \in DOMAIN words : words[c].is = "kill") = (IF second.is = "kill" THEN TRUE ELSE IF first.is = "kill" THEN TRUE ELSE FALSE)
  BY <1>5
<1> HIDE DEF twice, words
<1>8. twice = [error_type |-> LastSaid(words, "error_type"), retry_at |-> LastSaid(words, "retry_at"),
               kill |-> \E c \in DOMAIN words : words[c].is = "kill"]
  BY <1>2, <1>4, <1>6, <1>7
<1>9. FailedWith(Some(twice)) \in {None, Some("1"), Some("2")}
  BY <1>1, <1>2, <1>4, SomeOf DEF FailedWith
<1>10. Matching(typed[i]) = {}
  BY DEF ReportByHand, Matching
<1>11. Outcome(typed[i], None, Some(twice), words)
  BY <1>8, <1>9, <1>10, SomeOf DEF Outcome
<1>12. Becomes(i, None, Some(twice), words)
  BY DEF ReportByHand, twice, once, words
<1> QED BY <1>11, <1>12, OneOutcome

LEMMA StepsAreRegistered ==
  ASSUME RouterIInv, [RouterNext]_routerVars
  PROVE  [AsRegistered]_routerVars
<1>1. CASE UNCHANGED routerVars
  BY <1>1
<1>2. CASE handled' = handled
  BY <1>2 DEF AsRegistered
<1>3. ASSUME NEW i \in 1 .. MaxTyped, Handle(i) PROVE AsRegistered
  BY <1>3, HandleMeans
<1>4. ASSUME NEW i \in 1 .. MaxTyped, NEW first \in FailureCalls, NEW second \in FailureCalls,
             ReportByHand(i, first, second)
      PROVE  AsRegistered
  BY <1>4, ByHandMeans
<1> QED BY <1>1, <1>2, <1>3, <1>4 DEF RouterNext, Route, RunRouter, EnqueueTyped, EnqueueForeign

(* For every set of kinds, any routes and any number of jobs: the handler  *)
(* registered last for a job's type gets the very value that was enqueued  *)
(* and the router's state, and each failure says what it should            *)
(* (router.rs, enqueue.rs, failure.rs).                                    *)
THEOREM RoutesRight == RouterSpec => HandlerGetsPayload
<1>1. ASSUME RouterIInv, [RouterNext]_routerVars
      PROVE  [\A i \in DOMAIN handled' \ DOMAIN handled :
                Outcome(typed[i], handled'[i].called, handled'[i].failure, handled'[i].said)]_routerVars
  BY <1>1, StepsAreRegistered DEF AsRegistered
<1> QED BY <1>1, RouterInitial, RouterSteps, PTL DEF RouterSpec, HandlerGetsPayload

-----------------------------------------------------------------------------
(* What a filter of the builder makes of each axis is what the caller last *)
(* meant by it.                                                            *)
ListMeans(axis) ==
  \/ filters.lists[axis] = None /\ named[axis] = Ids
  \/ \E values \in ListChoices[axis] :
       /\ filters.lists[axis] = Some(values)
       /\ named[axis] = JobsWith(axis, values)

RangeMeans(axis) ==
  \/ filters.ranges[axis] = None /\ named[axis] = Ids
  \/ \E range \in RangeChoices[axis] :
       /\ filters.ranges[axis] = Some(range)
       /\ named[axis] = JobsWithin(axis, range)

JqMeans ==
  \/ filters.jq = None /\ named["jq"] = Ids
  \/ \E ids \in JqChoices : filters.jq = Some(ids) /\ named["jq"] = Ids \cap ids

FiltersMean ==
  /\ \A axis \in ListAxes : ListMeans(axis)
  /\ \A axis \in RangeAxes : RangeMeans(axis)
  /\ JqMeans

FilterShape ==
  /\ DOMAIN filters = {"lists", "ranges", "jq"}
  /\ DOMAIN filters.lists = ListAxes
  /\ DOMAIN filters.ranges = RangeAxes
  /\ DOMAIN named = Axes

BulkIInv ==
  /\ FilterShape
  /\ Building => reply = None
  /\ reply = None => table = BulkTable /\ FiltersMean

-----------------------------------------------------------------------------
LEMMA SomeFacts ==
  /\ \A v : Some(v)[1] = v /\ Some(v) # None
  /\ \A v, w : Some(v) = Some(w) => v = w
  BY DEF Some, None

LEMMA AxesApart ==
  /\ "jq" \notin ListAxes /\ "jq" \notin RangeAxes /\ ListAxes \cap RangeAxes = {}
  /\ "budgets.key" \in ListAxes /\ "budgets.key" \notin RangeAxes
  BY DEF ListAxes, RangeAxes

LEMMA EpochIs ==
  ASSUME NEW t \in 0 .. (MsLimit * NanosPerMs) - 1
  PROVE  ToMsEpoch(t) = t \div NanosPerMs /\ t \div NanosPerMs \in Int
<1> DEFINE q == t \div NanosPerMs
<1>1. q \in 0 .. MsLimit - 1
  BY MsAssumption DEF NanosPerMs
<1> HIDE DEF q
<1>2. q % MsLimit = q
  BY <1>1, MsAssumption
<1>3. t >= 0
  BY MsAssumption DEF NanosPerMs
<1> QED BY <1>1, <1>2, <1>3 DEF ToMsEpoch, q

(* What is written of an end bounds the values that the end is meant to.   *)
LEMMA WrittenBounds ==
  ASSUME NEW axis \in RangeAxes, NEW x \in Ends(axis), NEW v \in Int
  PROVE  /\ v >= Written(axis, x) <=> NotBefore(axis, v, x)
         /\ v <= Written(axis, x) <=> NotAfter(axis, v, x)
<1>1. CASE axis = "ready_at"
  <2>1. x \in 0 .. (MsLimit * NanosPerMs) - 1 /\ x \in Int
    BY <1>1, MsAssumption DEF Ends, NanosPerMs
  <2>2. Written(axis, x) = x \div NanosPerMs
    BY <1>1, <2>1, EpochIs DEF Written
  <2>3. /\ v >= x \div NanosPerMs <=> x < (v + 1) * NanosPerMs
        /\ v <= x \div NanosPerMs <=> v * NanosPerMs <= x
    BY <2>1 DEF NanosPerMs
  <2> QED BY <1>1, <2>2, <2>3 DEF NotBefore, NotAfter
<1>2. CASE axis # "ready_at"
  BY <1>2 DEF Ends, Written, NotBefore, NotAfter
<1> QED BY <1>1, <1>2

(* An encoded range selects what the range means. *)
LEMMA EncodedRange ==
  ASSUME NEW axis \in RangeAxes, NEW range \in RangeChoices[axis], NEW v \in Int
  PROVE  InRange(v, Encode(axis, range)) <=> Within(axis, v, range)
<1> DEFINE ends == {range[k] : k \in DOMAIN range \ {"is"}}
<1>1. ends \subseteq Ends(axis) /\ range \in Ranges(ends)
  BY BulkAssumption
<1>2. \A x \in ends : /\ v >= Written(axis, x) <=> NotBefore(axis, v, x)
                      /\ v <= Written(axis, x) <=> NotAfter(axis, v, x)
  BY <1>1, WrittenBounds
<1>3. /\ "from" \in DOMAIN range => range.from \in ends
      /\ "to" \in DOMAIN range => range.to \in ends
  OBVIOUS
<1> HIDE DEF ends
<1>4. ASSUME "from" \in DOMAIN range
      PROVE  Encode(axis, range).from # None /\ Encode(axis, range).from[1] = Written(axis, range.from)
  BY <1>4, SomeFacts DEF Encode
<1>5. ASSUME "to" \in DOMAIN range
      PROVE  Encode(axis, range).to # None /\ Encode(axis, range).to[1] = Written(axis, range.to)
  BY <1>5, SomeFacts DEF Encode
<1>6. "from" \notin DOMAIN range => Encode(axis, range).from = None
  BY DEF Encode
<1>7. "to" \notin DOMAIN range => Encode(axis, range).to = None
  BY DEF Encode
<1>8. (Encode(axis, range).from # None => v >= Encode(axis, range).from[1])
        <=> ("from" \in DOMAIN range => NotBefore(axis, v, range.from))
  <2>1. CASE "from" \in DOMAIN range
    BY <1>2, <1>3, <1>4, <2>1
  <2>2. CASE "from" \notin DOMAIN range
    BY <1>6, <2>2
  <2> QED BY <2>1, <2>2
<1>9. (Encode(axis, range).to # None => v <= Encode(axis, range).to[1])
        <=> ("to" \in DOMAIN range => NotAfter(axis, v, range.to))
  <2>1. CASE "to" \in DOMAIN range
    BY <1>2, <1>3, <1>5, <2>1
  <2>2. CASE "to" \notin DOMAIN range
    BY <1>7, <2>2
  <2> QED BY <2>1, <2>2
<1> QED BY <1>8, <1>9 DEF InRange, Within

-----------------------------------------------------------------------------
LEMMA BulkInitInv == BulkInit => BulkIInv
  BY DEF BulkInit, BulkIInv, FilterShape, NoFilter, FiltersMean, ListMeans, RangeMeans, JqMeans,
         Building, Axes

LEMMA ListInv ==
  ASSUME BulkIInv, NEW axis \in ListAxes, NEW values \in ListChoices[axis], FilterByList(axis, values)
  PROVE  BulkIInv'
<1> DEFINE meaning == JobsWith(axis, values)
<1>1. /\ filters' = [filters EXCEPT !.lists[axis] = Some(values)]
      /\ named' = [named EXCEPT ![axis] = meaning]
      /\ UNCHANGED <<bulkOp, table, reply>> /\ reply = None /\ Building
  BY DEF FilterByList, Means, MayFilter, SetList, BulkIInv
<1>2. FilterShape' /\ Building' = Building
  BY <1>1 DEF BulkIInv, FilterShape, Building
<1>3. /\ \A a \in ListAxes : filters'.lists[a] = IF a = axis THEN Some(values) ELSE filters.lists[a]
      /\ filters'.ranges = filters.ranges /\ filters'.jq = filters.jq
      /\ \A a \in Axes : named'[a] = IF a = axis THEN meaning ELSE named[a]
  BY <1>1 DEF BulkIInv, FilterShape
<1>4. /\ \A a \in ListAxes : \A v : JobsWith(a, v)' = JobsWith(a, v)
      /\ \A a \in RangeAxes : \A v : JobsWithin(a, v)' = JobsWithin(a, v)
  BY <1>1 DEF JobsWith, JobsWithin, Value
<1>5. \A a \in ListAxes : ListMeans(a)'
  <2> TAKE a \in ListAxes
  <2>1. a \in Axes /\ ListMeans(a)
    BY <1>1 DEF Axes, BulkIInv, FiltersMean
  <2>2. CASE a = axis
    BY <1>3, <1>4, <2>1, <2>2 DEF ListMeans
  <2>3. CASE a # axis
    BY <1>3, <1>4, <2>1, <2>3 DEF ListMeans
  <2> QED BY <2>2, <2>3
<1>6. \A a \in RangeAxes : RangeMeans(a)'
  <2> TAKE a \in RangeAxes
  <2>1. a \in Axes /\ a # axis /\ RangeMeans(a)
    BY <1>1, AxesApart DEF Axes, BulkIInv, FiltersMean
  <2> QED BY <1>3, <1>4, <2>1 DEF RangeMeans
<1>7. JqMeans'
  <2>1. "jq" \in Axes /\ "jq" # axis /\ JqMeans
    BY <1>1, AxesApart DEF Axes, BulkIInv, FiltersMean
  <2> QED BY <1>3, <2>1 DEF JqMeans
<1> QED BY <1>1, <1>2, <1>5, <1>6, <1>7 DEF BulkIInv, FiltersMean

LEMMA RangeInv ==
  ASSUME BulkIInv, NEW axis \in RangeAxes, NEW range \in RangeChoices[axis], FilterByRange(axis, range)
  PROVE  BulkIInv'
<1> DEFINE meaning == JobsWithin(axis, range)
<1>1. /\ filters' = [filters EXCEPT !.ranges[axis] = Some(range)]
      /\ named' = [named EXCEPT ![axis] = meaning]
      /\ UNCHANGED <<bulkOp, table, reply>> /\ reply = None /\ Building
  BY DEF FilterByRange, Means, MayFilter, SetRange, BulkIInv
<1>2. FilterShape' /\ Building' = Building
  BY <1>1 DEF BulkIInv, FilterShape, Building
<1>3. /\ \A a \in RangeAxes : filters'.ranges[a] = IF a = axis THEN Some(range) ELSE filters.ranges[a]
      /\ filters'.lists = filters.lists /\ filters'.jq = filters.jq
      /\ \A a \in Axes : named'[a] = IF a = axis THEN meaning ELSE named[a]
  BY <1>1 DEF BulkIInv, FilterShape
<1>4. /\ \A a \in ListAxes : \A v : JobsWith(a, v)' = JobsWith(a, v)
      /\ \A a \in RangeAxes : \A v : JobsWithin(a, v)' = JobsWithin(a, v)
  BY <1>1 DEF JobsWith, JobsWithin, Value
<1>5. \A a \in RangeAxes : RangeMeans(a)'
  <2> TAKE a \in RangeAxes
  <2>1. a \in Axes /\ RangeMeans(a)
    BY <1>1 DEF Axes, BulkIInv, FiltersMean
  <2>2. CASE a = axis
    BY <1>3, <1>4, <2>1, <2>2 DEF RangeMeans
  <2>3. CASE a # axis
    BY <1>3, <1>4, <2>1, <2>3 DEF RangeMeans
  <2> QED BY <2>2, <2>3
<1>6. \A a \in ListAxes : ListMeans(a)'
  <2> TAKE a \in ListAxes
  <2>1. a \in Axes /\ a # axis /\ ListMeans(a)
    BY <1>1, AxesApart DEF Axes, BulkIInv, FiltersMean
  <2> QED BY <1>3, <1>4, <2>1 DEF ListMeans
<1>7. JqMeans'
  <2>1. "jq" \in Axes /\ "jq" # axis /\ JqMeans
    BY <1>1, AxesApart DEF Axes, BulkIInv, FiltersMean
  <2> QED BY <1>3, <2>1 DEF JqMeans
<1> QED BY <1>1, <1>2, <1>5, <1>6, <1>7 DEF BulkIInv, FiltersMean

LEMMA JqInv ==
  ASSUME BulkIInv, NEW ids \in JqChoices, FilterByJq(ids)
  PROVE  BulkIInv'
<1>1. /\ filters' = [filters EXCEPT !.jq = Some(ids)]
      /\ named' = [named EXCEPT !["jq"] = Ids \cap ids]
      /\ UNCHANGED <<bulkOp, table, reply>> /\ reply = None /\ Building
  BY DEF FilterByJq, Means, MayFilter, SetJq, BulkIInv
<1>2. FilterShape' /\ Building' = Building
  BY <1>1 DEF BulkIInv, FilterShape, Building
<1>3. /\ filters'.lists = filters.lists /\ filters'.ranges = filters.ranges /\ filters'.jq = Some(ids)
      /\ \A a \in Axes : named'[a] = IF a = "jq" THEN Ids \cap ids ELSE named[a]
  BY <1>1 DEF BulkIInv, FilterShape
<1>4. /\ \A a \in ListAxes : \A v : JobsWith(a, v)' = JobsWith(a, v)
      /\ \A a \in RangeAxes : \A v : JobsWithin(a, v)' = JobsWithin(a, v)
  BY <1>1 DEF JobsWith, JobsWithin, Value
<1>5. \A a \in ListAxes : ListMeans(a)'
  <2> TAKE a \in ListAxes
  <2>1. a \in Axes /\ a # "jq" /\ ListMeans(a)
    BY <1>1, AxesApart DEF Axes, BulkIInv, FiltersMean
  <2> QED BY <1>3, <1>4, <2>1 DEF ListMeans
<1>6. \A a \in RangeAxes : RangeMeans(a)'
  <2> TAKE a \in RangeAxes
  <2>1. a \in Axes /\ a # "jq" /\ RangeMeans(a)
    BY <1>1, AxesApart DEF Axes, BulkIInv, FiltersMean
  <2> QED BY <1>3, <1>4, <2>1 DEF RangeMeans
<1>7. JqMeans'
  <2>1. "jq" \in Axes
    BY DEF Axes
  <2> QED BY <1>3, <2>1 DEF JqMeans
<1> QED BY <1>1, <1>2, <1>5, <1>6, <1>7 DEF BulkIInv, FiltersMean

LEMMA SameFilters ==
  ASSUME BulkIInv, UNCHANGED <<filters, named, table>>
  PROVE  FilterShape' /\ (FiltersMean' <=> FiltersMean)
<1>1. /\ \A a \in ListAxes : \A v : JobsWith(a, v)' = JobsWith(a, v)
      /\ \A a \in RangeAxes : \A v : JobsWithin(a, v)' = JobsWithin(a, v)
  BY DEF JobsWith, JobsWithin, Value
<1>2. \A a \in ListAxes : ListMeans(a)' <=> ListMeans(a)
  BY <1>1 DEF ListMeans, Axes
<1>3. \A a \in RangeAxes : RangeMeans(a)' <=> RangeMeans(a)
  BY <1>1 DEF RangeMeans, Axes
<1>4. JqMeans' <=> JqMeans
  BY DEF JqMeans
<1> QED BY <1>2, <1>3, <1>4 DEF BulkIInv, FilterShape, FiltersMean

LEMMA FinishInv ==
  ASSUME BulkIInv, Finish, reply' # None
  PROVE  BulkIInv'
  BY DEF BulkIInv, Finish, FilterShape, Building

LEMMA BulkNextInv == BulkIInv /\ [BulkNext]_bulkVars => BulkIInv'
<1> SUFFICES ASSUME BulkIInv, [BulkNext]_bulkVars PROVE BulkIInv'
  OBVIOUS
<1>1. CASE \E op \in BulkOps : NewBuilder(op)
  BY <1>1, SameFilters DEF NewBuilder, BulkIInv
<1>2. CASE \E axis \in ListAxes : \E values \in ListChoices[axis] : FilterByList(axis, values)
  BY <1>2, ListInv
<1>3. CASE \E axis \in RangeAxes : \E range \in RangeChoices[axis] : FilterByRange(axis, range)
  BY <1>3, RangeInv
<1>4. CASE \E ids \in JqChoices : FilterByJq(ids)
  BY <1>4, JqInv
<1>5. CASE GivePatch
  BY <1>5, SameFilters DEF GivePatch, BulkIInv, Building
<1>6. CASE MissingPatch
  <2>1. Finish /\ reply' # None
    BY <1>6, SomeFacts DEF MissingPatch
  <2> QED BY <2>1, FinishInv
<1>7. CASE ShortCircuit
  <2>1. Finish /\ reply' # None
    BY <1>7, SomeFacts DEF ShortCircuit
  <2> QED BY <2>1, FinishInv
<1>8. CASE Request
  <2>1. Finish /\ reply' # None
    BY <1>8, SomeFacts DEF Request
  <2> QED BY <2>1, FinishInv
<1>9. CASE FailedRequest
  <2>1. Finish /\ reply' # None
    BY <1>9, SomeFacts DEF FailedRequest
  <2> QED BY <2>1, FinishInv
<1>10. CASE UNCHANGED bulkVars
  BY <1>10, SameFilters DEF bulkVars, BulkIInv, Building
<1> QED BY <1>1, <1>2, <1>3, <1>4, <1>5, <1>6, <1>7, <1>8, <1>9, <1>10 DEF BulkNext

-----------------------------------------------------------------------------
(* What is sent selects the jobs that were meant, if no list was empty.    *)
LEMMA SelectsMeant ==
  ASSUME BulkIInv, reply = None, ~MatchesNothing(filters)
  PROVE  Selected = Meant
<1>0. table = BulkTable /\ FiltersMean
  BY DEF BulkIInv
<1>1. Query(filters) = AppendTo(filters)
  <2>1. CASE HasParams(filters)
    BY <2>1 DEF Query
  <2>2. CASE ~HasParams(filters)
    <3>1. {x \in ListAxes : IsPresent(filters.lists[x])} = {} /\ {x \in RangeAxes : filters.ranges[x] # None} = {}
          /\ filters.jq = None
      BY <2>2 DEF HasParams
    <3>2. [a \in {x \in ListAxes : IsPresent(filters.lists[x])} |-> filters.lists[a][1]] = <<>>
      BY <3>1
    <3>3. [a \in {x \in RangeAxes : filters.ranges[x] # None} |-> Encode(a, filters.ranges[a][1])] = <<>>
      BY <3>1
    <3>4. AppendTo(filters) = NoQuery
      BY <3>1, <3>2, <3>3 DEF AppendTo, NoQuery
    <3> QED BY <2>2, <3>4 DEF Query
  <2> QED BY <2>1, <2>2
<1> DEFINE q == AppendTo(filters)
<1>2. /\ DOMAIN q.lists = {x \in ListAxes : IsPresent(filters.lists[x])}
      /\ \A a \in DOMAIN q.lists : q.lists[a] = filters.lists[a][1]
      /\ DOMAIN q.ranges = {x \in RangeAxes : filters.ranges[x] # None}
      /\ \A a \in DOMAIN q.ranges : q.ranges[a] = Encode(a, filters.ranges[a][1])
      /\ q.jq = filters.jq
  BY DEF AppendTo
<1>3. ASSUME NEW id \in Ids PROVE Selects(q, id, View(id)) <=> \A a \in Axes : id \in named[a]
  <2>1. \A a \in ListAxes \cup RangeAxes : View(id)[a] = Value(id, a)
    BY DEF View
  <2>2. ASSUME NEW a \in ListAxes
        PROVE  id \in named[a] <=> (a \in DOMAIN q.lists => View(id)[a] \cap q.lists[a] # {})
    <3>1. CASE filters.lists[a] = None /\ named[a] = Ids
      BY <1>2, <3>1 DEF IsPresent
    <3>2. ASSUME NEW values \in ListChoices[a], filters.lists[a] = Some(values),
                 named[a] = JobsWith(a, values)
          PROVE  id \in named[a] <=> (a \in DOMAIN q.lists => View(id)[a] \cap q.lists[a] # {})
      <4>1. filters.lists[a] # None /\ filters.lists[a] # Some({}) /\ filters.lists[a][1] = values
        BY <3>2, SomeFacts DEF MatchesNothing
      <4> QED BY <1>2, <2>1, <3>2, <4>1 DEF IsPresent, JobsWith
    <3> QED BY <1>0, <3>1, <3>2 DEF FiltersMean, ListMeans
  <2>3. ASSUME NEW a \in RangeAxes
        PROVE  id \in named[a] <=> (a \in DOMAIN q.ranges => InRange(View(id)[a], q.ranges[a]))
    <3>1. CASE filters.ranges[a] = None /\ named[a] = Ids
      BY <1>2, <3>1
    <3>2. ASSUME NEW range \in RangeChoices[a], filters.ranges[a] = Some(range),
                 named[a] = JobsWithin(a, range)
          PROVE  id \in named[a] <=> (a \in DOMAIN q.ranges => InRange(View(id)[a], q.ranges[a]))
      <4>1. filters.ranges[a] # None /\ filters.ranges[a][1] = range
        BY <3>2, SomeFacts
      <4>2. Value(id, a) \in Int
        BY <1>0, BulkAssumption, AxesApart DEF Value
      <4>3. InRange(Value(id, a), Encode(a, range)) <=> Within(a, Value(id, a), range)
        BY <4>2, EncodedRange
      <4> QED BY <1>2, <2>1, <3>2, <4>1, <4>3 DEF JobsWithin
    <3> QED BY <1>0, <3>1, <3>2 DEF FiltersMean, RangeMeans
  <2>4. id \in named["jq"] <=> (q.jq # None => id \in q.jq[1])
    BY <1>0, <1>2, SomeFacts DEF FiltersMean, JqMeans
  <2>5. Selects(q, id, View(id)) <=> /\ \A a \in ListAxes : id \in named[a]
                                     /\ \A a \in RangeAxes : id \in named[a]
                                     /\ id \in named["jq"]
    BY <1>2, <2>2, <2>3, <2>4 DEF Selects
  <2> QED BY <2>5 DEF Axes
<1> QED BY <1>1, <1>3 DEF Selected, Meant

(* An empty list means no job. *)
LEMMA NoJobsMeant ==
  ASSUME BulkIInv, reply = None, MatchesNothing(filters)
  PROVE  Meant = {}
<1>1. PICK a \in ListAxes : filters.lists[a] = Some({})
  BY DEF MatchesNothing
<1>2. named[a] = {}
  BY <1>1, SomeFacts DEF BulkIInv, FiltersMean, ListMeans, JobsWith
<1> QED BY <1>2 DEF Meant, Axes

LEMMA NothingDone ==
  ASSUME BulkIInv, reply = None, NEW op
  PROVE  After(op, {}) = table
<1>1. table = [id \in Ids |-> table[id]]
  BY BulkAssumption DEF BulkIInv
<1> QED BY <1>1 DEF After

LEMMA NoAnswer ==
  ASSUME NEW op
  PROVE  Answer(op, {}) = CASE op = "list"      -> [is |-> "page", ids |-> {}]
                            [] op \in BudgetOps -> [is |-> "change", changed |-> 0, blocked |-> {}]
                            [] OTHER            -> [is |-> "number", of |-> 0]
<1>1. Changed(op, {}) = {} /\ Blocked(op, {}) = {} /\ Cardinality({}) = 0
  BY FS_EmptySet DEF Changed, Blocked, Wanting
<1> QED BY <1>1 DEF Answer, BudgetOps

(* Answers to requests are not failures. *)
LEMMA AnswersSucceed == \A op, ids : Answer(op, ids) # Failed
<1> TAKE op, ids
<1>1. Answer(op, ids).is \in {"page", "change", "number"}
  BY DEF Answer
<1> QED BY <1>1 DEF Failed

(* Awaiting a builder asks for its operation on the jobs its filters mean, *)
(* changes those of them that it may and no other, and answers for them;   *)
(* if it fails, it has done that or nothing: for any jobs in any status    *)
(* and any filters, set in any order and number.                           *)
THEOREM BulkJobsDoAsMeant == BulkSpec => OnlyMeantJobs
<1> DEFINE Right == reply' # reply =>
             IF bulkOp = "patch" /\ ~hasPatch
             THEN table' = table /\ reply' = Some([is |-> "MissingPatch"])
             ELSE IF reply' = Some(Failed)
             THEN ~EmptyListGiven /\ table' \in {table, After(bulkOp, Meant)}
             ELSE table' = After(bulkOp, Meant) /\ reply' = Some(Answer(bulkOp, Meant))
<1>1. ASSUME BulkIInv, [BulkNext]_bulkVars PROVE [Right]_bulkVars
  <2>1. CASE MissingPatch
    BY <2>1 DEF MissingPatch
  <2>2. CASE ShortCircuit
    <3>1. reply = None /\ Meant = {} /\ ~(bulkOp = "patch" /\ ~hasPatch)
      BY <1>1, <2>2, NoJobsMeant DEF ShortCircuit, Complete, BulkIInv
    <3>2. table' = After(bulkOp, {})
      BY <1>1, <2>2, <3>1, NothingDone DEF ShortCircuit
    <3>3. reply' = Some(Answer(bulkOp, {}))
      BY <2>2, NoAnswer DEF ShortCircuit
    <3>4. reply' # Some(Failed)
      BY <3>3, AnswersSucceed, SomeFacts
    <3> QED BY <3>1, <3>2, <3>3, <3>4
  <2>3. CASE Request
    <3>1. reply = None /\ ~MatchesNothing(filters) /\ ~(bulkOp = "patch" /\ ~hasPatch)
      BY <1>1, <2>3 DEF Request, Complete, BulkIInv
    <3>2. Selected = Meant
      BY <1>1, <3>1, SelectsMeant
    <3>3. reply' = Some(Answer(bulkOp, Meant)) /\ table' = After(bulkOp, Meant)
      BY <2>3, <3>2 DEF Request
    <3>4. reply' # Some(Failed)
      BY <3>3, AnswersSucceed, SomeFacts
    <3> QED BY <3>1, <3>3, <3>4
  <2>4. CASE FailedRequest
    <3>1. reply = None /\ ~MatchesNothing(filters) /\ ~(bulkOp = "patch" /\ ~hasPatch)
      BY <1>1, <2>4 DEF FailedRequest, Complete, BulkIInv
    <3>2. Selected = Meant
      BY <1>1, <3>1, SelectsMeant
    <3>3. ~EmptyListGiven
      BY <3>1 DEF EmptyListGiven, MatchesNothing
    <3> QED BY <2>4, <3>1, <3>2, <3>3 DEF FailedRequest
  <2>5. ASSUME ~MissingPatch, ~ShortCircuit, ~Request, ~FailedRequest PROVE reply' = reply
    BY <1>1, <2>5 DEF BulkNext, bulkVars, NewBuilder, FilterByList, FilterByRange, FilterByJq, Means, GivePatch
  <2> QED BY <2>1, <2>2, <2>3, <2>4, <2>5
<1> QED BY <1>1, BulkInitInv, BulkNextInv, PTL DEF BulkSpec, OnlyMeantJobs

==============================================================================
