----------------------------- MODULE BatchFolds ------------------------------
(***************************************************************************)
(* Jobs that the server folds into one: the batch attribute of a JobKind   *)
(* and its key, BatchConfig's when and fold (batch.rs), and the server     *)
(* that evaluates them.                                                    *)
(***************************************************************************)
EXTENDS PayloadKeys

CONSTANTS
  BatchSpecs,      \* batch attributes: path, limit, fold, key
  BatchPayloads,   \* the payloads enqueued
  MaxBatched       \* bound: the enqueues

ASSUME BatchSpecsAssumption ==
  \A attr \in BatchSpecs :
    /\ attr.path \in Seq(Steps) /\ attr.limit \in Nat /\ attr.calls \in Seq({"dedup", "sorted"})
    /\ attr.key \in [selects : {"all", "only", "except"}, paths : Seq(Seq(Steps)), prefix : BOOLEAN,
                    scope : OptionOf(Scopes)]

ASSUME BatchPayloadsAssumption == \A payload \in BatchPayloads : IsDocument(payload)

VARIABLES
  batchSpec,   \* the attribute in use
  batches,     \* the server's jobs: name, key, payload, sealed
  folded,      \* history: the payloads folded into each
  enqueues     \* counter

batchVars == <<batchSpec, batches, folded, enqueues>>

(* The mode after a sequence of dedup and sorted calls. *)
Mode(calls) ==
  LET mode[i \in 0 .. Len(calls)] ==
        IF i = 0 THEN "Append"
        ELSE IF calls[i] = "dedup" THEN "Dedup"
        ELSE IF mode[i - 1] = "Append" THEN "Sorted" ELSE mode[i - 1]
  IN mode[Len(calls)]

M_BatchKey(attr) ==
  IF attr.key.selects = "all" THEN [attr.key EXCEPT !.selects = "except", !.paths = <<attr.path>>]
  ELSE attr.key

(* emit_batch_key_hashable: everything but the batch's own path, and but   *)
(* the paths of except, or only the paths of only.                         *)
BatchKey(attr) ==
  CASE attr.key.selects = "all"    -> [attr.key EXCEPT !.selects = "except", !.paths = <<attr.path>>]
    [] attr.key.selects = "except" -> [attr.key EXCEPT !.paths = <<attr.path>> \o @]
    [] attr.key.selects = "only"   -> attr.key

(* What jq finds at the path: a list, or null, which adds nothing. *)
HasList(payload, path) == path \in DOMAIN payload /\ payload[path].is = "array"

Entries(payload, path) ==
  IF HasList(payload, path)
  THEN [i \in 1 .. payload[path].len |-> At(payload, Append(path, Index(i - 1)))]
  ELSE <<>>

(* The payloads of a kind with such an attribute have a list there, which  *)
(* may be optional.  Only entries that jq is to put in order are scalars.  *)
IsBatchable(attr, payload) ==
  LET path == attr.path
  IN \/ /\ HasList(payload, path)
        /\ attr.calls # <<>> =>
             \A step \in StepsIn(payload[path]) : payload[Append(path, step)].is = "scalar"
     \/ path # <<>> /\ path \in DOMAIN payload /\ payload[path] = NullNode
     \/ /\ path # <<>> /\ path \notin DOMAIN payload /\ Last(path).is = "Field"
        /\ Front(path) \in DOMAIN payload /\ payload[Front(path)].is = "object"

M_When(attr, existing, new) == Len(Entries(existing, attr.path)) <= attr.limit

When(attr, existing, new) ==
  Len(Entries(existing, attr.path)) + Len(Entries(new, attr.path)) <= attr.limit

(* jq's sort and unique, on entries that are scalars. *)
Precedes(x, y) == x[<<>>].value < y[<<>>].value

Sorted(items) ==
  LET In(order) == [k \in DOMAIN items |-> items[order[k]]]
  IN In(CHOOSE order \in Bijection(DOMAIN items, DOMAIN items) :
          \A i, j \in DOMAIN items : i < j => ~Precedes(In(order)[j], In(order)[i]))

Unique(items) ==
  LET all == ToSet(items)
  IN CHOOSE s \in [1 .. Cardinality(all) -> all] :
       /\ ToSet(s) = all
       /\ \A i, j \in DOMAIN s : i < j => Precedes(s[i], s[j])

Merge(calls, items) ==
  LET mode == Mode(calls)
  IN CASE mode = "Append" -> items
       [] mode = "Sorted" -> Sorted(items)
       [] mode = "Dedup"  -> Unique(items)

(* jq adds null to null, but sorts none. *)
CanFold(attr, existing, new) ==
  Mode(attr.calls) = "Append" \/ HasList(existing, attr.path) \/ HasList(new, attr.path)

Fold(attr, existing, new) ==
  LET all == Entries(existing, attr.path) \o Entries(new, attr.path)
      merged == IF HasList(existing, attr.path) \/ HasList(new, attr.path)
                THEN Array(Merge(attr.calls, all)) ELSE Null
  IN IF attr.path = <<>> THEN merged ELSE SetPath(existing, attr.path, merged)

-----------------------------------------------------------------------------
BatchInit ==
  /\ batchSpec = None
  /\ batches = <<>>
  /\ folded = <<>>
  /\ enqueues = 0

DeclareBatch(attr) ==
  /\ batchSpec = None
  /\ batchSpec' = Some(attr)
  /\ UNCHANGED <<batches, folded, enqueues>>

Open(key) == {i \in DOMAIN batches : batches[i].key = key /\ ~batches[i].sealed}

EnqueueBatched(name, payload) ==
  /\ batchSpec # None /\ enqueues < MaxBatched
  /\ IsBatchable(batchSpec[1], payload)
  /\ enqueues' = enqueues + 1
  /\ LET attr == batchSpec[1]
         key == KeyFor(BatchKey(attr), name, payload)
         new == [name |-> name, key |-> key, payload |-> payload, sealed |-> FALSE]
     IN \/ /\ Open(key) = {}
           /\ batches' = Append(batches, new)
           /\ folded' = Append(folded, <<payload>>)
        \/ \E i \in Open(key) :
             /\ When(attr, batches[i].payload, payload) /\ CanFold(attr, batches[i].payload, payload)
             /\ batches' = [batches EXCEPT ![i].payload = Fold(attr, @, payload)]
             /\ folded' = [folded EXCEPT ![i] = Append(@, payload)]
        \/ \E i \in Open(key) :
             /\ ~When(attr, batches[i].payload, payload)
             /\ batches' = Append([batches EXCEPT ![i].sealed = TRUE], new)
             /\ folded' = Append(folded, <<payload>>)
  /\ UNCHANGED batchSpec

(* A job that a worker takes is a batch no more. *)
BatchTaken(i) ==
  /\ ~batches[i].sealed
  /\ batches' = [batches EXCEPT ![i].sealed = TRUE]
  /\ UNCHANGED <<batchSpec, folded, enqueues>>

BatchNext ==
  \/ \E attr \in BatchSpecs : DeclareBatch(attr)
  \/ \E name \in {"push", "audit"}, payload \in BatchPayloads :
       (batches = <<>> => name = "push") /\ EnqueueBatched(name, payload)
  \/ \E i \in DOMAIN batches : BatchTaken(i)

BatchSpec == BatchInit /\ [][BatchNext]_batchVars

-----------------------------------------------------------------------------
(* Where the key's attribute says that payloads must agree. *)
InKey(attr, x) ==
  CASE attr.key.selects = "all"    -> TRUE
    [] attr.key.selects = "except" -> \A i \in DOMAIN attr.key.paths : ~IsPrefix(attr.key.paths[i], x)
    [] attr.key.selects = "only"   -> \E i \in DOMAIN attr.key.paths : IsPrefix(attr.key.paths[i], x)

(* They do, but for the list itself. *)
SameContext(attr, p, q) ==
  \A x \in DOMAIN p \cup DOMAIN q :
    InKey(attr, x) /\ ~IsPrefix(attr.path, x) => Seen(p, x) = Seen(q, x)

AllEntries(attr, payloads) ==
  LET all[i \in 0 .. Len(payloads)] ==
        IF i = 0 THEN <<>> ELSE all[i - 1] \o Entries(payloads[i], attr.path)
  IN all[Len(payloads)]

Rearranged(s, t) == \E p \in Bijection(DOMAIN s, DOMAIN t) : \A k \in DOMAIN s : s[k] = t[p[k]]

(* What a list is to have of all the entries given. *)
HasThem(calls, has, given) ==
  CASE "dedup" \in ToSet(calls) -> ToSet(has) = ToSet(given) /\ IsInjective(has)
    [] calls = <<>>             -> has = given
    [] OTHER -> /\ Rearranged(has, given)
                /\ \A k \in 1 .. Len(has) - 1 : ~Precedes(has[k + 1], has[k])

(* A job that others were folded into has the entries of all of them, each *)
(* once if they are to be distinct, in order if they are to be sorted, and *)
(* no more than the limit; and no job was folded into one whose payload    *)
(* differs elsewhere, but where the attribute says that it may.            *)
FoldKeepsEverything ==
  \A i \in DOMAIN batches :
    Len(folded[i]) > 1 =>
      LET attr == batchSpec[1]
          has == Entries(batches[i].payload, attr.path)
      IN /\ TellsApart(BatchKey(attr)) =>
              \A p \in ToSet(folded[i]) : SameContext(attr, p, batches[i].payload)
         /\ HasThem(attr.calls, has, AllEntries(attr, folded[i]))
         /\ Len(has) <= attr.limit

(* An only that lists what holds the batch's path, or is within it.        *)
KeyedByEntries(attr) ==
  /\ attr.key.selects = "only"
  /\ \E i \in DOMAIN attr.key.paths :
       IsPrefix(attr.key.paths[i], attr.path) \/ IsPrefix(attr.path, attr.key.paths[i])

(* Two jobs that still take entries differ somewhere that counts: in the   *)
(* kind, unless prefix is off, or in the payload, but for the list itself  *)
(* and where the attribute says that they may.  Or else what should have   *)
(* been folded into one waits as two.  BatchKeyConfig has the batch's path *)
(* excluded from the key whatever its selection is (attrs.rs); only does   *)
(* not exclude it, and is left out here where it would have to.            *)
OpenBatchesDiffer ==
  \A i, j \in DOMAIN batches :
    i # j /\ ~batches[i].sealed /\ ~batches[j].sealed =>
      LET attr == batchSpec[1]
      IN TellsApart(BatchKey(attr)) /\ ~KeyedByEntries(attr) =>
           \/ attr.key.prefix /\ batches[i].name # batches[j].name
           \/ ~SameContext(attr, batches[i].payload, batches[j].payload)
=============================================================================
