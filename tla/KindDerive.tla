----------------------------- MODULE KindDerive ------------------------------
(***************************************************************************)
(* The derive macro of zizq-derive: the attributes written on a struct, in *)
(* any order and over any number of #[zizq(...)], what attrs.rs accepts of *)
(* them and the JobKind that lib.rs emits.                                 *)
(***************************************************************************)
EXTENDS Integers, SequencesExt, JobFilters

CONSTANTS
  Attributes,      \* what may be written: [key, value], with [key, value]s within
  MaxAttributes    \* bound: the attributes of a struct

(* What is within a pair of parentheses. *)
IsField(f) == f = [key |-> f.key, value |-> f.value]
IsGroup(v) == v \in Seq(ToSet(v)) /\ \A f \in ToSet(v) : IsField(f)
GroupsOf(v, keys) == \A f \in ToSet(v) : f.key \in keys => IsGroup(f.value)
LiteralPrefix(v) == \A f \in ToSet(v) : f.key = "prefix" => f.value \in BOOLEAN

(* What takes parentheses has them, what is a LitBool is one. *)
ASSUME AttributesAssumption ==
  \A f \in Attributes :
    LET v == f.value
    IN  /\ IsField(f)
        /\ f.key \in {"backoff", "retention", "unique", "batch", "budget"} => IsGroup(v)
        /\ f.key = "unique" => LiteralPrefix(v)
        /\ f.key = "batch" =>
             GroupsOf(v, {"key", "dedup", "sorted"}) /\ \A g \in ToSet(v) : g.key = "key" => LiteralPrefix(g.value)
        /\ f.key = "budget" =>
             /\ GroupsOf(v, {"create_with"})
             /\ \A g \in ToSet(v) : g.key = "create_with" => GroupsOf(g.value, {"time_based"})

VARIABLES
  written,    \* the attributes, in order
  derived     \* what the derive made of them: not run, an error, or a kind

deriveVars == <<written, derived>>

NotRun == [is |-> "NotRun"]
CompileError == [is |-> "CompileError"]
Kind(k) == [is |-> "Kind", kind |-> k]

(* A field's value is a literal or, in parentheses, a sequence of fields.  *)
(* A bare field has neither; Nothing is what empty parentheses have, or    *)
(* whatever else syn cannot read a field from.                             *)
Bare == <<>>
Nothing == [key |-> "", value |-> Bare]

(* A path is given as the steps that jq_path::parse makes of it, or as one *)
(* that it refuses.                                                        *)
Malformed == [is |-> "Malformed"]

-----------------------------------------------------------------------------
(* parse_nested_meta calls back for one field after another; in every      *)
(* group an unknown field, one that does not parse and one whose place an  *)
(* earlier one has taken are errors.  The value that was read of a field   *)
(* is an Option.  syn refuses parentheses that are missing or empty: a     *)
(* group that must have some field is refused without them in any case.    *)
Collect(read, places) ==
  LET Known(i) == read[i].key \in DOMAIN places
      Place(i) == places[read[i].key]
      Taken(i) == \E j \in DOMAIN read : j < i /\ Known(j) /\ Place(j) = Place(i)
      Holder(p) == CHOOSE i \in DOMAIN read : Place(i) = p
  IN IF \E i \in DOMAIN read : ~Known(i) \/ read[i].value = None \/ Taken(i) THEN None
     ELSE Some([p \in {Place(i) : i \in DOMAIN read} |-> read[Holder(p)].value[1]])

M_Requires(got, names) == got

Requires(got, names) == IF got = None \/ ~names \subseteq DOMAIN got[1] THEN None ELSE got

Own(names) == [n \in names |-> n]
Literals(fields) == [i \in DOMAIN fields |-> [fields[i] EXCEPT !.value = Some(@)]]

BackoffFields == {"base_ms", "exponent", "jitter_ms"}

ParseBackoff(fields) == Requires(Collect(Literals(fields), Own(BackoffFields)), BackoffFields)

ParseRetention(fields) ==
  LET got == Collect(Literals(fields), Own({"completed_ms", "dead_ms"}))
  IN IF got # None /\ DOMAIN got[1] = {} THEN None ELSE got

ParseTimeBased(fields) ==
  LET got == Requires(Collect(Literals(fields), Own({"duration_ms", "burst"})), {"duration_ms"})
  IN IF got = None THEN None
     ELSE Some([p \in DOMAIN got[1] \cup {"type"} |-> IF p = "type" THEN "time_based" ELSE got[1][p]])

ParseBudgetPolicy(fields) ==
  LET Read(f) ==
        CASE f.key = "time_based" -> ParseTimeBased(f.value)
          [] f.key = "while_in_flight" -> IF f.value = Bare THEN Some([type |-> f.key]) ELSE None
          [] OTHER -> Some(f.value)
      read == [i \in DOMAIN fields |-> [fields[i] EXCEPT !.value = Read(fields[i])]]
      places == [allocation |-> "allocation", while_in_flight |-> "strategy", time_based |-> "strategy"]
  IN Requires(Collect(read, places), {"allocation", "strategy"})

ParseBudget(fields) ==
  LET Read(f) == IF f.key = "create_with" THEN ParseBudgetPolicy(f.value) ELSE Some(f.value)
      read == [i \in DOMAIN fields |-> [fields[i] EXCEPT !.value = Read(fields[i])]]
  IN Requires(Collect(read, Own({"key", "cost", "create_with"})), {"key"})

(* The selection of unique(...) and of key(...): one of only and except. *)
Select(got) ==
  IF got = None \/ {"only", "except"} \subseteq DOMAIN got[1] THEN None
  ELSE LET selects == CASE "only" \in DOMAIN got[1]   -> "only"
                        [] "except" \in DOMAIN got[1] -> "except"
                        [] OTHER                      -> "all"
       IN Some([selects |-> selects,
                paths   |-> IF selects = "all" THEN <<>> ELSE got[1][selects],
                prefix  |-> IF "prefix" \in DOMAIN got[1] THEN got[1].prefix ELSE TRUE,
                scope   |-> IF "scope" \in DOMAIN got[1] THEN Some(got[1].scope) ELSE None])

(* A bare unique is UniqueAttr::default(). *)
ParseUnique(fields) ==
  LET Read(f) == IF f.key = "scope" /\ f.value \notin {"queued", "active", "exists"} THEN None ELSE Some(f.value)
      read == [i \in DOMAIN fields |-> [fields[i] EXCEPT !.value = Read(fields[i])]]
  IN Select(Collect(read, Own({"only", "except", "scope", "prefix"})))

ParseBatchKey(fields) ==
  IF fields = Bare THEN None ELSE Select(Collect(Literals(fields), Own({"only", "except", "prefix"})))

ParseBatch(fields) ==
  LET Read(f) == CASE f.key = "key" -> ParseBatchKey(f.value)
                   [] f.key \in {"dedup", "sorted"} -> IF f.value = Bare THEN Some(f.key) ELSE None
                   [] OTHER -> Some(f.value)
      read == [i \in DOMAIN fields |-> [fields[i] EXCEPT !.value = Read(fields[i])]]
      places == [path |-> "path", limit |-> "limit", key |-> "key", dedup |-> "fold", sorted |-> "fold"]
  IN Requires(Collect(read, places), {"path", "limit"})

ReadAttribute(f) ==
  CASE f.key = "backoff"   -> ParseBackoff(f.value)
    [] f.key = "retention" -> ParseRetention(f.value)
    [] f.key = "unique"    -> ParseUnique(f.value)
    [] f.key = "batch"     -> ParseBatch(f.value)
    [] OTHER               -> Some(f.value)

Constants == {"name", "queue", "priority", "retry_limit", "backoff", "retention", "unique", "batch"}

(* ZizqAttrs::parse.  A budget may be repeated, its key not; the budgets   *)
(* stay in the order of their attributes.                                  *)
Parse(items) ==
  LET at == {i \in DOMAIN items : items[i].key = "budget"}
      consts == [i \in DOMAIN items \ at |-> [items[i] EXCEPT !.value = ReadAttribute(items[i])]]
      own == Collect(consts, Own(Constants))
      budgets == [i \in at |-> ParseBudget(items[i].value)]
      Repeated(i) == \E j \in at : j < i /\ budgets[j] # None /\ budgets[j][1].key = budgets[i][1].key
  IN IF own = None \/ \E i \in at : budgets[i] = None \/ Repeated(i) THEN None
     ELSE Some([own |-> own[1], budgets |-> [i \in at |-> budgets[i][1]]])

-----------------------------------------------------------------------------
(* derive_job_kind_impl and the emit_ functions. *)
WholePayload == [selects |-> "all", paths |-> <<>>, prefix |-> TRUE, scope |-> None]

Or(got, name, default) == IF name \in DOMAIN got THEN got[name] ELSE default

EmitBatch(batch) ==
  [path |-> batch.path, limit |-> batch.limit, calls |-> IF "fold" \in DOMAIN batch THEN <<batch.fold>> ELSE <<>>,
   key |-> Or(batch, "key", WholePayload)]

PathsOf(own) ==
  (IF "unique" \in DOMAIN own THEN ToSet(own.unique.paths) ELSE {})
    \cup (IF "batch" \in DOMAIN own THEN {own.batch.path} \cup ToSet(EmitBatch(own.batch).key.paths) ELSE {})

Option(own, name) == IF name \in DOMAIN own THEN Some(own[name]) ELSE None

Emit(ident, attrs) ==
  LET own == attrs.own
  IN IF <<Malformed>> \in PathsOf(own) THEN CompileError
     ELSE Kind([name |-> Or(own, "name", ident),
                queue |-> Or(own, "queue", "default"),
                priority |-> Option(own, "priority"),
                retry_limit |-> Option(own, "retry_limit"),
                backoff |-> Option(own, "backoff"),
                retention |-> Option(own, "retention"),
                budgets |-> attrs.budgets,
                unique |-> Option(own, "unique"),
                batch |-> IF "batch" \in DOMAIN own THEN Some(EmitBatch(own.batch)) ELSE None])

Derive(ident, items) == IF Parse(items) = None THEN CompileError ELSE Emit(ident, Parse(items)[1])

-----------------------------------------------------------------------------
DeriveInit == written = <<>> /\ derived = NotRun

Write(item) ==
  /\ derived = NotRun /\ Len(written) < MaxAttributes
  /\ written' = Append(written, item)
  /\ UNCHANGED derived

DeriveJobKind ==
  /\ derived = NotRun
  /\ derived' = Derive("Struct", written)
  /\ UNCHANGED written

DeriveNext == DeriveJobKind \/ \E item \in Attributes : Write(item)

DeriveSpec == DeriveInit /\ [][DeriveNext]_deriveVars

-----------------------------------------------------------------------------
(* The grammar that the derive documents. *)
FieldsIn(v) == ToSet(v)
KeysIn(v) == {f.key : f \in FieldsIn(v)}
Once(v) == \A i, j \in DOMAIN v : v[i].key = v[j].key => i = j
ValueOf(v, key) == (CHOOSE f \in FieldsIn(v) : f.key = key).value

Selection(v) == Once(v) /\ ~{"only", "except"} \subseteq KeysIn(v)

Policy(v) ==
  /\ Once(v)
  /\ KeysIn(v) \in {{"allocation", "while_in_flight"}, {"allocation", "time_based"}}
  /\ "while_in_flight" \in KeysIn(v) => ValueOf(v, "while_in_flight") = Bare
  /\ "time_based" \in KeysIn(v) =>
       LET t == ValueOf(v, "time_based")
       IN Once(t) /\ {"duration_ms"} \subseteq KeysIn(t) /\ KeysIn(t) \subseteq {"duration_ms", "burst"}

Grammatical(f) ==
  LET v == f.value
  IN CASE f.key = "backoff"   -> Once(v) /\ KeysIn(v) = BackoffFields
       [] f.key = "retention" -> Once(v) /\ KeysIn(v) # {} /\ KeysIn(v) \subseteq {"completed_ms", "dead_ms"}
       [] f.key = "unique"    -> /\ Selection(v) /\ KeysIn(v) \subseteq {"only", "except", "scope", "prefix"}
                                 /\ "scope" \in KeysIn(v) => ValueOf(v, "scope") \in {"queued", "active", "exists"}
       [] f.key = "batch"     -> /\ Once(v) /\ {"path", "limit"} \subseteq KeysIn(v)
                                 /\ KeysIn(v) \subseteq {"path", "limit", "dedup", "sorted", "key"}
                                 /\ ~{"dedup", "sorted"} \subseteq KeysIn(v)
                                 /\ \A k \in {"dedup", "sorted"} \cap KeysIn(v) : ValueOf(v, k) = Bare
                                 /\ "key" \in KeysIn(v) =>
                                      /\ ValueOf(v, "key") # Bare
                                      /\ Selection(ValueOf(v, "key"))
                                      /\ KeysIn(ValueOf(v, "key")) \subseteq {"only", "except", "prefix"}
       [] f.key = "budget"    -> /\ Once(v) /\ {"key"} \subseteq KeysIn(v)
                                 /\ KeysIn(v) \subseteq {"key", "cost", "create_with"}
                                 /\ "create_with" \in KeysIn(v) => Policy(ValueOf(v, "create_with"))
       [] OTHER               -> f.key \in Constants

WellFormed ==
  /\ \A f \in FieldsIn(written) : Grammatical(f)
  /\ \A i, j \in DOMAIN written :
       i # j /\ written[i].key = written[j].key =>
         /\ written[i].key = "budget"
         /\ ValueOf(written[i].value, "key") # ValueOf(written[j].value, "key")

(* Every field written is in the value made of it. *)
Has(made, v) == \A f \in FieldsIn(v) : f.key \in DOMAIN made /\ (f.key \in {"create_with"} \/ made[f.key] = f.value)

HasSelection(made, v) ==
  /\ made.selects = IF "only" \in KeysIn(v) THEN "only" ELSE IF "except" \in KeysIn(v) THEN "except" ELSE "all"
  /\ made.selects # "all" => made.paths = ValueOf(v, made.selects)
  /\ made.prefix = ("prefix" \in KeysIn(v) => ValueOf(v, "prefix"))
  /\ made.scope = IF "scope" \in KeysIn(v) THEN Some(ValueOf(v, "scope")) ELSE None

Honoured(kind, f) ==
  CASE f.key \in {"name", "queue"} -> kind[f.key] = f.value
    [] f.key \in {"priority", "retry_limit"} -> kind[f.key] = Some(f.value)
    [] f.key \in {"backoff", "retention"} -> kind[f.key] # None /\ Has(kind[f.key][1], f.value)
    [] f.key = "unique" -> kind.unique # None /\ HasSelection(kind.unique[1], f.value)
    [] f.key = "batch" ->
         /\ kind.batch # None
         /\ kind.batch[1].path = ValueOf(f.value, "path") /\ kind.batch[1].limit = ValueOf(f.value, "limit")
         /\ ToSet(kind.batch[1].calls) = KeysIn(f.value) \cap {"dedup", "sorted"}
         /\ HasSelection(kind.batch[1].key, IF "key" \in KeysIn(f.value) THEN ValueOf(f.value, "key") ELSE Bare)
    [] OTHER -> TRUE

(* A struct compiles exactly if its attributes follow the grammar that is  *)
(* documented and their paths parse; and then each one has its effect on   *)
(* the kind, in whatever order and grouping they were written, and none    *)
(* replaces another.                                                       *)
AttributesHonoured ==
  derived # NotRun =>
    IF ~WellFormed THEN derived = CompileError
    ELSE IF <<Malformed>> \in PathsOf(Parse(written)[1].own) THEN derived = CompileError
    ELSE    /\ derived.is = "Kind"
            /\ \A f \in FieldsIn(written) : Honoured(derived.kind, f)
            /\ DOMAIN derived.kind.budgets = {i \in DOMAIN written : written[i].key = "budget"}
            /\ \A i \in DOMAIN derived.kind.budgets : Has(derived.kind.budgets[i], written[i].value)
=============================================================================
