----------------------------- MODULE PayloadKeys -----------------------------
(***************************************************************************)
(* Which jobs are duplicates: the part of the payload that a JobKind's     *)
(* unique attribute selects (hashable.rs, jq_path.rs), its canonical form  *)
(* and key (unique_key.rs), and the server's use of the key.               *)
(***************************************************************************)
EXTENDS Integers, FiniteSets, Sequences, SequencesExt, JobFilters

CONSTANTS
  Payloads,   \* the payloads that are enqueued, as JSON
  KeySpecs    \* the unique attributes that the job kinds may have

VARIABLES
  keySpec,    \* the attribute in use, with its scope, if any yet
  held,       \* the jobs created: kind, payload, key, status at the server
  verdict     \* what the last enqueue was told

keyVars == <<keySpec, held, verdict>>

(* serde_json::Value, laid flat: the node at each of its positions.  A     *)
(* position is the steps that lead to it.  Names and scalars are numbers;  *)
(* an object keeps the order its fields came in.                           *)
Field(name) == [is |-> "Field", name |-> name]
Index(at) == [is |-> "Index", at |-> at]

Steps == [is : {"Field"}, name : Nat] \cup [is : {"Index"}, at : Nat]

Nodes == [is : {"null"}] \cup [is : {"scalar"}, value : Nat]
           \cup [is : {"array"}, len : Nat] \cup [is : {"object"}, names : Seq(Nat)]

(* The steps from a node to those inside it. *)
StepsIn(node) ==
  IF node.is = "object" THEN {Field(name) : name \in ToSet(node.names)}
  ELSE IF node.is = "array" THEN {Index(i) : i \in 0 .. node.len - 1}
  ELSE {}

IsDocument(value) ==
  /\ value \in [DOMAIN value -> Nodes] /\ IsFiniteSet(DOMAIN value) /\ <<>> \in DOMAIN value
  /\ \A x \in DOMAIN value :
       /\ x \in Seq(Steps)
       /\ x # <<>> => Front(x) \in DOMAIN value /\ Last(x) \in StepsIn(value[Front(x)])
       /\ \A step \in StepsIn(value[x]) : Append(x, step) \in DOMAIN value
       /\ value[x].is = "object" => IsInjective(value[x].names)

ASSUME PayloadsAssumption == \A payload \in Payloads : IsDocument(payload)

ASSUME KeySpecsAssumption ==
  \A spec \in KeySpecs :
    /\ spec.selects \in {"all", "only", "except"} /\ spec.paths \in Seq(Seq(Steps))
    /\ spec.prefix \in BOOLEAN /\ spec.scope \in OptionOf({"queued", "active", "exists"})

NullNode == [is |-> "null"]
Leaf(node) == [x \in {<<>>} |-> node]
Null == Leaf(NullNode)
Scalar(v) == Leaf([is |-> "scalar", value |-> v])

(* A document of a node and those inside it. *)
Whole(node, inside) ==
  [x \in {<<>>} \cup UNION {{<<step>> \o y : y \in DOMAIN inside[step]} : step \in DOMAIN inside} |->
     IF x = <<>> THEN node ELSE inside[Head(x)][Tail(x)]]

Array(items) ==
  Whole([is |-> "array", len |-> Len(items)],
        [step \in {Index(i - 1) : i \in DOMAIN items} |-> items[step.at + 1]])

Object(names, items) ==
  Whole([is |-> "object", names |-> names],
        [step \in {Field(name) : name \in ToSet(names)} |->
           items[CHOOSE i \in DOMAIN names : names[i] = step.name]])

-----------------------------------------------------------------------------
(* What is left of x beyond a path that leads to it. *)
Beyond(path, x) == SubSeq(x, Len(path) + 1, Len(x))

(* A walk hits at every hop exactly if its path is a position of value. *)
At(value, path) ==
  [x \in {Beyond(path, y) : y \in {z \in DOMAIN value : IsPrefix(path, z)}} |->
     value[path \o x]]

Walk(value, path) == IF path \in DOMAIN value THEN Some(At(value, path)) ELSE None

(* The elements behind a removed one move up. *)
Behind(path, x) ==
  /\ Len(x) >= Len(path) /\ IsPrefix(Front(path), x)
  /\ LET step == x[Len(path)]
     IN Last(path).is = "Index" /\ step.is = "Index" /\ step.at > Last(path).at

MovedUp(path, x) == IF Behind(path, x) THEN [x EXCEPT ![Len(path)] = Index(@.at - 1)] ELSE x

Less(node, step) ==
  IF step.is = "Index" THEN [node EXCEPT !.len = @ - 1]
  ELSE [node EXCEPT !.names = LET i == CHOOSE j \in DOMAIN @ : @[j] = step.name IN RemoveAt(@, i)]

RemovePath(value, path) ==
  LET kept == {x \in DOMAIN value : ~IsPrefix(path, x)}
      From(y) == CHOOSE x \in kept : MovedUp(path, x) = y
  IN IF path = <<>> THEN Null
     ELSE IF path \notin DOMAIN value THEN value
     ELSE [y \in {MovedUp(path, x) : x \in kept} |->
             IF y = Front(path) THEN Less(value[y], Last(path)) ELSE value[From(y)]]

ContainerFor(step) ==
  IF step.is = "Field" THEN [is |-> "object", names |-> <<>>] ELSE [is |-> "array", len |-> 0]

(* The container with an entry for the step: a new field, or nulls up to a *)
(* new index.                                                              *)
Grown(node, step) ==
  IF step \in StepsIn(node) THEN node
  ELSE IF step.is = "Field" THEN [node EXCEPT !.names = Append(@, step.name)]
  ELSE [node EXCEPT !.len = step.at + 1]

(* The hops find what is there, or open a container for the next step: in  *)
(* the place of nothing, and in an array in the place of null.  One that   *)
(* does not fit the next step abandons the rest.                           *)
SetPath(target, path, value) ==
  LET root == IF target = Null THEN Leaf(ContainerFor(path[1])) ELSE target
      Hop(k) == SubSeq(path, 1, k)
      opens(k) == \/ Hop(k) \notin DOMAIN root
                  \/ (k > 0 /\ path[k].is = "Index" /\ root[Hop(k)] = NullNode)
      Parent(k) == IF opens(k) THEN ContainerFor(path[k + 1]) ELSE root[Hop(k)]
      hops == 0 .. Len(path) - 1
      kept == {x \in DOMAIN root : ~IsPrefix(path, x)}
      padded == UNION {{Append(Hop(k), Index(i)) : i \in Parent(k).len .. path[k + 1].at - 1}
                         : k \in {j \in hops : path[j + 1].is = "Index"}}
  IN IF \E k \in hops : Parent(k).is # ContainerFor(path[k + 1]).is THEN target
     ELSE [x \in kept \cup padded \cup {Hop(k) : k \in hops} \cup {path \o y : y \in DOMAIN value} |->
             IF IsPrefix(path, x) THEN value[Beyond(path, x)]
             ELSE IF IsPrefix(x, path) THEN Grown(Parent(Len(x)), path[Len(x) + 1])
             ELSE IF x \in kept THEN root[x]
             ELSE NullNode]

M_Pick(source, paths) ==
  LET target[i \in 0 .. Len(paths)] ==
        IF i = 0 THEN Leaf(ContainerFor(Field(0)))
        ELSE LET found == Walk(source, paths[i])
             IN IF found = None THEN target[i - 1]
                ELSE SetPath(Leaf(ContainerFor(paths[i][1])), paths[i], found[1])
  IN IF \E i \in DOMAIN paths : paths[i] = <<>> THEN source ELSE target[Len(paths)]

Pick(source, paths) ==
  LET target[i \in 0 .. Len(paths)] ==
        IF i = 0 THEN Null
        ELSE LET found == Walk(source, paths[i])
             IN IF found = None THEN target[i - 1] ELSE SetPath(target[i - 1], paths[i], found[1])
      picked == target[Len(paths)]
  IN IF \E i \in DOMAIN paths : paths[i] = <<>> THEN source
     ELSE IF picked = Null THEN Leaf(ContainerFor(Field(0)))
     ELSE picked

PayloadExcept(value, paths) ==
  LET rest[i \in 0 .. Len(paths)] == IF i = 0 THEN value ELSE RemovePath(rest[i - 1], paths[i])
  IN rest[Len(paths)]

PayloadOnly(value, paths) == Pick(value, paths)

-----------------------------------------------------------------------------
(* The tokens write_canonical feeds to the hasher.  SHA-256 is taken to be *)
(* injective, and so are the escapes of a string token.                    *)
Rank(step) == IF step.is = "Field" THEN step.name ELSE step.at

(* The parts in the order of their steps, with commas. *)
Listed(parts) ==
  LET written[left \in SUBSET DOMAIN parts] ==
        IF left = {} THEN <<>>
        ELSE LET next == CHOOSE step \in left : \A other \in left : Rank(step) <= Rank(other)
                 rest == left \ {next}
             IN parts[next] \o (IF rest = {} THEN <<>> ELSE <<<<",", 0>>>>) \o written[rest]
  IN written[DOMAIN parts]

WriteCanonical(value) ==
  LET text[x \in DOMAIN value] ==
        LET node == value[x]
            Part(step) == IF step.is = "Index" THEN text[Append(x, step)]
                          ELSE <<<<"name", step.name>>, <<":", 0>>>> \o text[Append(x, step)]
            list == Listed([step \in StepsIn(node) |-> Part(step)])
        IN CASE node.is = "object" -> <<<<"{", 0>>>> \o list \o <<<<"}", 0>>>>
             [] node.is = "array"  -> <<<<"[", 0>>>> \o list \o <<<<"]", 0>>>>
             [] node.is = "scalar" -> <<<<"scalar", node.value>>>>
             [] node.is = "null"   -> <<<<"null", 0>>>>
  IN text[<<>>]

HashOf(value) == [tag |-> None, digest |-> WriteCanonical(value)]
TaggedHashOf(tag, value) == [tag |-> Some(tag), digest |-> WriteCanonical(value)]

(* The unique_key method the derive emits, and the start of its batch. *)
Hashable(spec, payload) ==
  CASE spec.selects = "all"    -> payload
    [] spec.selects = "only"   -> PayloadOnly(payload, spec.paths)
    [] spec.selects = "except" -> PayloadExcept(payload, spec.paths)

KeyFor(spec, name, payload) ==
  IF spec.prefix THEN TaggedHashOf(name, Hashable(spec, payload))
  ELSE HashOf(Hashable(spec, payload))

-----------------------------------------------------------------------------
(* UniqueScope.  A key without one has the server's default, Queued.       *)
Scopes == {"queued", "active", "exists"}

HeldBack(scope, status) ==
  status \in CASE scope \in {None, Some("queued")} -> {"ready"}
               [] scope = Some("active") -> {"ready", "in_flight"}
               [] scope = Some("exists") -> {"ready", "in_flight", "completed"}

Later == [ready |-> "in_flight", in_flight |-> "completed", completed |-> "reaped"]

KeyInit ==
  /\ keySpec = None
  /\ held = <<>>
  /\ verdict = None

DeclareUnique(spec) ==
  /\ keySpec = None
  /\ keySpec' = Some(spec)
  /\ UNCHANGED <<held, verdict>>

Duplicates(key) == {i \in DOMAIN held : held[i].key = key /\ HeldBack(keySpec[1].scope, held[i].status)}

EnqueueUnique(name, payload) ==
  /\ keySpec # None /\ verdict = None
  /\ LET key == KeyFor(keySpec[1], name, payload)
         duplicate == Duplicates(key) # {}
     IN /\ held' = IF duplicate THEN held
                   ELSE Append(held, [name |-> name, payload |-> payload, key |-> key,
                                      status |-> "ready"])
        /\ verdict' = IF held = <<>> THEN None
                      ELSE Some([name |-> name, payload |-> payload, duplicate |-> duplicate])
  /\ UNCHANGED keySpec

JobMovesOn ==
  /\ held # <<>> /\ verdict = None
  /\ held[1].status \in DOMAIN Later
  /\ held' = [held EXCEPT ![1].status = Later[@]]
  /\ UNCHANGED <<keySpec, verdict>>

KeyNext ==
  \/ \E spec \in KeySpecs : DeclareUnique(spec)
  \/ \E name \in {"send", "sync"}, payload \in Payloads :
       (held = <<>> => name = "send") /\ EnqueueUnique(name, payload)
  \/ JobMovesOn

KeySpec == KeyInit /\ [][KeyNext]_keyVars

-----------------------------------------------------------------------------
(* The reference: the places of a value, and what is at each.              *)
Seen(value, x) ==
  IF x \notin DOMAIN value THEN None
  ELSE Some(IF value[x].is = "scalar" THEN value[x] ELSE [is |-> value[x].is])

AgreeAt(path, p, q) ==
  \A x \in DOMAIN p \cup DOMAIN q : IsPrefix(path, x) => Seen(p, x) = Seen(q, x)

AgreeOutside(paths, p, q) ==
  \A x \in DOMAIN p \cup DOMAIN q :
    (\A i \in DOMAIN paths : ~IsPrefix(paths[i], x)) => Seen(p, x) = Seen(q, x)

Agree(spec, p, q) ==
  CASE spec.selects = "all"    -> AgreeOutside(<<>>, p, q)
    [] spec.selects = "only"   -> \A i \in DOMAIN spec.paths : AgreeAt(spec.paths[i], p, q)
    [] spec.selects = "except" -> AgreeOutside(spec.paths, p, q)

(* A path whose removal shifts an element that a later path is about. *)
Shifts(paths) ==
  \E i, j \in DOMAIN paths :
    /\ i < j /\ paths[i] # <<>>
    /\ Last(paths[i]).is = "Index"
    /\ IsPrefix(Front(paths[i]), paths[j]) /\ Len(paths[j]) >= Len(paths[i])
    /\ LET step == paths[j][Len(paths[i])] IN step.is = "Index" /\ step.at >= Last(paths[i]).at

TellsApart(spec) == spec.selects = "except" => ~Shifts(spec.paths)

IsDuplicate(last) ==
  /\ HeldBack(keySpec[1].scope, held[1].status)
  /\ keySpec[1].prefix => held[1].name = last.name
  /\ Agree(keySpec[1], held[1].payload, last.payload)

(* A job is turned away as a duplicate exactly if the payload of one still *)
(* within its scope agrees with its own wherever the kind's attribute says *)
(* it must: at the paths of only, outside those of except, whatever the    *)
(* order of the fields and of the paths; and, unless prefix is off, only   *)
(* against its own kind.                                                   *)
DuplicatesAgree ==
  verdict # None /\ TellsApart(keySpec[1]) => (verdict[1].duplicate <=> IsDuplicate(verdict[1]))

(* The documentation of payload_except says it returns "a copy with each   *)
(* of `paths` removed": two payloads that agree but for those have one key.*)
ExceptRemovesEachPath ==
  verdict # None => (verdict[1].duplicate <=> IsDuplicate(verdict[1]))
=============================================================================
