-------------------------- MODULE BatchFoldsProofs ---------------------------
(***************************************************************************)
(* The theorems about BatchFolds: whatever the payloads enqueued, a fold   *)
(* keeps every entry, only payloads of one key are folded, and what is not *)
(* folded differs.  The way to the first: the documents that a fold builds *)
(* (Array, and SetPath at a path that leads to a list, to null or to a     *)
(* field not there yet), the entries in them, what sorting and dropping    *)
(* duplicates leaves of a list, and the invariant of the server's batches. *)
(***************************************************************************)
EXTENDS BatchFolds, PayloadKeysProofs

(* What is known of a batch: the payloads folded into it have its key, it  *)
(* differs from the first of them only in the list, and the list has the   *)
(* entries of all.                                                         *)
HasKey(attr, payload, key) == \E name \in {"push", "audit"} : key = KeyFor(BatchKey(attr), name, payload)

IsBatchOf(attr, batch, payloads) ==
  /\ payloads # <<>>
  /\ \A k \in DOMAIN payloads : IsBatchable(attr, payloads[k]) /\ HasKey(attr, payloads[k], batch.key)
  /\ IsBatchable(attr, batch.payload)
  /\ AgreeOutside(<<attr.path>>, payloads[1], batch.payload)
  /\ Len(payloads) = 1 => batch.payload = payloads[1]
  /\ Len(payloads) > 1 =>
       LET has == Entries(batch.payload, attr.path)
       IN HasThem(attr.calls, has, AllEntries(attr, payloads)) /\ Len(has) <= attr.limit

Keys == {KeyFor(BatchKey(attr), name, payload) :
           attr \in BatchSpecs, name \in {"push", "audit"}, payload \in BatchPayloads}

Batches == [name : {"push", "audit"}, key : Keys, payload : Documents, sealed : BOOLEAN]

BatchIInv ==
  /\ batchSpec = None \/ \E attr \in BatchSpecs : batchSpec = Some(attr)
  /\ batchSpec = None => batches = <<>>
  /\ batches \in Seq(Batches) /\ folded \in Seq(Seq(BatchPayloads)) /\ Len(batches) = Len(folded)
  /\ \A i \in DOMAIN batches : IsBatchOf(batchSpec[1], batches[i], folded[i])

-----------------------------------------------------------------------------
(* What is at a path of a document is a document.                          *)
LEMMA AtMeans ==
  ASSUME NEW value, DOMAIN value \subseteq Seq(Steps), NEW r \in Seq(Steps)
  PROVE  /\ DOMAIN At(value, r) \subseteq Seq(Steps)
         /\ At(value, r) = [x \in DOMAIN At(value, r) |-> value[r \o x]]
         /\ \A x \in Seq(Steps) : x \in DOMAIN At(value, r) <=> r \o x \in DOMAIN value
<1>1. DOMAIN At(value, r) = {Beyond(r, y) : y \in {z \in DOMAIN value : IsPrefix(r, z)}}
  BY DEF At
<1>2. At(value, r) = [x \in DOMAIN At(value, r) |-> value[r \o x]]
  BY <1>1 DEF At
<1>3. ASSUME NEW x \in DOMAIN At(value, r) PROVE x \in Seq(Steps) /\ r \o x \in DOMAIN value
  <2>1. PICK y \in DOMAIN value : IsPrefix(r, y) /\ x = Beyond(r, y)
    BY <1>1, <1>3
  <2>2. x \in Seq(Steps) /\ y = r \o x
    BY <2>1, PrefixSplits
  <2> QED BY <2>1, <2>2
<1>4. ASSUME NEW x \in Seq(Steps), r \o x \in DOMAIN value PROVE x \in DOMAIN At(value, r)
  <2>1. IsPrefix(r, r \o x) /\ Beyond(r, r \o x) = x
    BY Under
  <2> QED BY <1>1, <1>4, <2>1
<1> QED BY <1>2, <1>3, <1>4

AlikeBelow(p, a, q, b) ==
  /\ DOMAIN p \subseteq Seq(Steps) /\ DOMAIN q \subseteq Seq(Steps) /\ a \in Seq(Steps) /\ b \in Seq(Steps)
  /\ \A x \in Seq(Steps) : /\ a \o x \in DOMAIN p <=> b \o x \in DOMAIN q
                           /\ a \o x \in DOMAIN p => p[a \o x] = q[b \o x]

LEMMA SameAt == \A p, q, a, b : AlikeBelow(p, a, q, b) => At(p, a) = At(q, b)
<1> SUFFICES ASSUME NEW p, NEW q, NEW a, NEW b, AlikeBelow(p, a, q, b) PROVE At(p, a) = At(q, b)
  OBVIOUS
<1>0. /\ DOMAIN p \subseteq Seq(Steps) /\ DOMAIN q \subseteq Seq(Steps) /\ a \in Seq(Steps) /\ b \in Seq(Steps)
      /\ \A x \in Seq(Steps) : a \o x \in DOMAIN p <=> b \o x \in DOMAIN q
      /\ \A x \in Seq(Steps) : a \o x \in DOMAIN p => p[a \o x] = q[b \o x]
  BY DEF AlikeBelow
<1>1. PICK f, D : f = At(p, a) /\ D = DOMAIN f
  OBVIOUS
<1>2. PICK g, E : g = At(q, b) /\ E = DOMAIN g
  OBVIOUS
<1>3. D \subseteq Seq(Steps) /\ f = [x \in D |-> p[a \o x]] /\ \A x \in Seq(Steps) : x \in D <=> a \o x \in DOMAIN p
  BY <1>0, <1>1, AtMeans
<1>4. E \subseteq Seq(Steps) /\ g = [x \in E |-> q[b \o x]] /\ \A x \in Seq(Steps) : x \in E <=> b \o x \in DOMAIN q
  BY <1>0, <1>2, AtMeans
<1>5. D = E
  BY <1>0, <1>3, <1>4
<1>6. \A x \in D : p[a \o x] = q[b \o x]
  BY <1>0, <1>3
<1> QED BY <1>1, <1>2, <1>3, <1>4, <1>5, <1>6

(* What lies beyond a step. *)
LEMMA StepFirst ==
  ASSUME NEW r \in Seq(Steps), NEW s \in Steps, NEW x \in Seq(Steps)
  PROVE  /\ <<s>> \in Seq(Steps) /\ <<s>> \o x \in Seq(Steps) /\ Append(r, s) \o x = r \o (<<s>> \o x)
         /\ Append(r, s) = r \o <<s>> /\ Append(r \o x, s) = r \o Append(x, s)
         /\ (<<s>> \o x)[1] = s /\ <<s>> \o x # <<>>
<1>1. <<s>> \in Seq(Steps) /\ Append(r, s) = r \o <<s>> /\ Append(x, s) = x \o <<s>> /\ r \o x \in Seq(Steps)
  OBVIOUS
<1>2. Append(r \o x, s) = (r \o x) \o <<s>>
  BY <1>1
<1>3. (r \o x) \o <<s>> = r \o (x \o <<s>>) /\ (r \o <<s>>) \o x = r \o (<<s>> \o x)
  BY <1>1, ConcatAssociative
<1>4. PICK u \in Seq(Steps) : u = <<s>> /\ Len(u) = 1 /\ u[1] = s
  BY <1>1
<1>5. u \o x \in Seq(Steps) /\ (u \o x)[1] = s /\ Len(u \o x) >= 1
  BY <1>4
<1> QED BY <1>1, <1>2, <1>3, <1>4, <1>5

LEMMA AtDocument ==
  ASSUME NEW value, IsDocument(value), NEW r \in DOMAIN value
  PROVE  IsDocument(At(value, r)) /\ At(value, r)[<<>>] = value[r]
<1>1. /\ r \in Seq(Steps) /\ DOMAIN value \subseteq Seq(Steps) /\ IsFiniteSet(DOMAIN value)
      /\ \A x \in DOMAIN value : value[x] \in Nodes /\ (value[x].is = "object" => IsInjective(value[x].names))
  BY DocumentParts
<1>2. PICK f, D : f = At(value, r) /\ D = DOMAIN f
  OBVIOUS
<1>3. D \subseteq Seq(Steps) /\ f = [x \in D |-> value[r \o x]] /\ \A x \in Seq(Steps) : x \in D <=> r \o x \in DOMAIN value
  BY <1>1, <1>2, AtMeans
<1>4. r \o <<>> = r /\ <<>> \in Seq(Steps)
  BY <1>1
<1>5. <<>> \in D /\ f[<<>>] = value[r]
  BY <1>3, <1>4
<1>6. \A x \in D : r \o x \in DOMAIN value /\ f[x] = value[r \o x]
  BY <1>3
<1>7. f \in [D -> Nodes]
  BY <1>1, <1>3, <1>6
<1>8. IsFiniteSet(D)
  <2>1. D = {Beyond(r, y) : y \in {z \in DOMAIN value : IsPrefix(r, z)}}
    BY <1>2 DEF At
  <2>2. PICK Z : Z = {z \in DOMAIN value : IsPrefix(r, z)}
    OBVIOUS
  <2>3. IsFiniteSet(Z)
    BY <1>1, <2>2, FS_Subset
  <2>4. PICK g : g = [y \in Z |-> Beyond(r, y)]
    OBVIOUS
  <2>5. D = {g[y] : y \in DOMAIN g} /\ DOMAIN g = Z
    BY <2>1, <2>2, <2>4
  <2> QED BY <2>3, <2>5, FiniteImage
<1>9. ASSUME NEW x \in D, x # <<>> PROVE Front(x) \in D
  <2>1. /\ Front(x) \in Seq(Steps) /\ Last(x) \in Steps /\ x = Append(Front(x), Last(x))
    BY <1>3, <1>9, Ends
  <2>2. PICK y \in Seq(Steps), s \in Steps : y = Front(x) /\ s = Last(x) /\ x = Append(y, s)
    BY <2>1
  <2>3. r \o x = Append(r \o y, s)
    BY <1>1, <2>2, StepFirst
  <2>4. r \o y \in Seq(Steps)
    BY <1>1
  <2>5. IsPrefix(r \o y, Append(r \o y, s))
    <3>1. PICK z \in Seq(Steps) : z = r \o y
      BY <2>4
    <3>2. IsPrefix(z, z)
      BY PrefixOrder
    <3>3. IsPrefix(z, Append(z, s))
      BY <3>2, PrefixAppend
    <3> QED BY <3>1, <3>3
  <2>6. r \o y \in DOMAIN value
    BY <1>6, <2>3, <2>4, <2>5, OnTheWay
  <2> QED BY <1>3, <2>2, <2>6
<1>10. ASSUME NEW x \in D, NEW step \in Steps
       PROVE  step \in StepsIn(f[x]) <=> Append(x, step) \in D
  <2>1. x \in Seq(Steps) /\ r \o x \in DOMAIN value /\ f[x] = value[r \o x]
    BY <1>3, <1>6
  <2>2. step \in StepsIn(value[r \o x]) <=> Append(r \o x, step) \in DOMAIN value
    BY <2>1, Children
  <2>3. Append(r \o x, step) = r \o Append(x, step) /\ Append(x, step) \in Seq(Steps)
    BY <1>1, <2>1, StepFirst, Appended
  <2> QED BY <1>3, <2>1, <2>2, <2>3
<1>11. \A x \in D : f[x].is = "object" => IsInjective(f[x].names)
  BY <1>1, <1>6
<1>12. IsDocument(f)
  BY <1>2, <1>3, <1>5, <1>7, <1>8, <1>9, <1>10, <1>11, DocumentWhen
<1> QED BY <1>2, <1>5, <1>12

-----------------------------------------------------------------------------
(* An array of documents is a document, with each at its place.            *)
IsArrayOf(value, items, n) ==
  /\ \A x \in DOMAIN value : x = <<>> \/ \E i \in 1 .. n : \E y \in DOMAIN items[i] : x = <<Index(i - 1)>> \o y
  /\ value = [x \in DOMAIN value |-> value[x]]
  /\ <<>> \in DOMAIN value /\ value[<<>>] = [is |-> "array", len |-> n]
  /\ \A i \in 1 .. n : \A y \in DOMAIN items[i] :
       <<Index(i - 1)>> \o y \in DOMAIN value /\ value[<<Index(i - 1)>> \o y] = items[i][y]

LEMMA HeadOf ==
  ASSUME NEW s \in Steps, NEW y \in Seq(Steps)
  PROVE  Head(<<s>> \o y) = s /\ Tail(<<s>> \o y) = y /\ <<s>> \o y # <<>> /\ <<s>> \o y \in Seq(Steps)
<1>1. PICK u \in Seq(Steps) : u = <<s>> /\ Len(u) = 1 /\ u[1] = s
  <2>1. <<s>> \in Seq(Steps)
    OBVIOUS
  <2> QED BY <2>1
<1>2. PICK x \in Seq(Steps) : x = u \o y /\ Len(x) = Len(y) + 1 /\ x[1] = s /\ \A i \in 1 .. Len(y) : x[i + 1] = y[i]
  <2>1. u \o y \in Seq(Steps) /\ Len(u \o y) = Len(y) + 1 /\ (u \o y)[1] = s
    BY <1>1
  <2>2. \A i \in 1 .. Len(y) : (u \o y)[i + 1] = y[i]
    BY <1>1
  <2> QED BY <2>1, <2>2
<1>3. Tail(x) \in Seq(Steps) /\ Len(Tail(x)) = Len(y) /\ \A i \in 1 .. Len(y) : Tail(x)[i] = x[i + 1]
  BY <1>2
<1>4. Tail(x) = y
  BY <1>2, <1>3, SeqEqual
<1>5. Head(x) = s /\ x # <<>>
  BY <1>2
<1> QED BY <1>1, <1>2, <1>4, <1>5

LEMMA ArrayIs ==
  ASSUME NEW items \in Seq(Documents), NEW n \in Nat, n = Len(items)
  PROVE  IsArrayOf(Array(items), items, n)
<1> DEFINE node == [is |-> "array", len |-> n]
           I == {Index(i - 1) : i \in 1 .. n}
           inside == [step \in I |-> items[step.at + 1]]
           places == {<<>>} \cup UNION {{<<step>> \o y : y \in DOMAIN inside[step]} : step \in I}
           value == [x \in places |-> IF x = <<>> THEN node ELSE inside[Head(x)][Tail(x)]]
<1>1. DOMAIN items = 1 .. n /\ \A i \in 1 .. n : items[i] \in Documents
  OBVIOUS
<1>2. Array(items) = value
  <2>1. Array(items) = Whole(node, inside)
    BY <1>1 DEF Array
  <2>2. DOMAIN inside = I
    OBVIOUS
  <2> HIDE DEF inside, I, node
  <2>3. Whole(node, inside) = value
    BY <2>2 DEF Whole
  <2> QED BY <2>1, <2>3
<1>3. \A i \in 1 .. n : Index(i - 1) \in Steps /\ Index(i - 1).at = i - 1 /\ i - 1 + 1 = i
  BY StepKinds
<1>4. \A i \in 1 .. n : inside[Index(i - 1)] = items[i]
  BY <1>3
<1>5. \A i \in 1 .. n : \A y \in DOMAIN items[i] : y \in Seq(Steps)
  BY <1>1, DocumentIs, DocumentParts
<1> HIDE DEF inside
<1>6. ASSUME NEW x \in places, x # <<>>
      PROVE  \E i \in 1 .. n : \E y \in DOMAIN items[i] : x = <<Index(i - 1)>> \o y
  <2>1. PICK step \in I : \E y \in DOMAIN inside[step] : x = <<step>> \o y
    BY <1>6
  <2>2. PICK i \in 1 .. n : step = Index(i - 1)
    BY <2>1
  <2> QED BY <1>4, <2>1, <2>2
<1>7. ASSUME NEW i \in 1 .. n, NEW y \in DOMAIN items[i]
      PROVE  <<Index(i - 1)>> \o y \in places /\ value[<<Index(i - 1)>> \o y] = items[i][y]
  <2>1. PICK x : x = <<Index(i - 1)>> \o y
    OBVIOUS
  <2>2. Head(x) = Index(i - 1) /\ Tail(x) = y /\ x # <<>>
    BY <1>3, <1>5, <2>1, HeadOf
  <2>3. x \in places
    <3>1. Index(i - 1) \in I /\ y \in DOMAIN inside[Index(i - 1)]
      BY <1>4
    <3>2. \A step \in I : \A z \in DOMAIN inside[step] : <<step>> \o z \in places
      OBVIOUS
    <3> QED BY <2>1, <3>1, <3>2
  <2>4. value[x] = inside[Head(x)][Tail(x)]
    BY <2>2, <2>3
  <2> QED BY <1>4, <2>1, <2>2, <2>3, <2>4
<1>8. <<>> \in places /\ value[<<>>] = node
  OBVIOUS
<1>9. DOMAIN value = places /\ value = [x \in DOMAIN value |-> value[x]]
  OBVIOUS
<1> HIDE DEF places, value
<1> QED BY <1>2, <1>6, <1>7, <1>8, <1>9 DEF IsArrayOf

ArrayHas(value, items, n) ==
  /\ DOMAIN value \subseteq Seq(Steps)
  /\ \A i \in 1 .. n : \A y \in Seq(Steps) : <<Index(i - 1)>> \o y \in DOMAIN value <=> y \in DOMAIN items[i]
  /\ \A s \in Steps, y \in Seq(Steps) : <<s>> \o y \in DOMAIN value => \E i \in 1 .. n : s = Index(i - 1)

LEMMA ArrayPlaces ==
  ASSUME NEW items \in Seq(Documents), NEW n \in Nat, n = Len(items), NEW value, IsArrayOf(value, items, n)
  PROVE  ArrayHas(value, items, n)
<1>1. \A i \in 1 .. n : \A y \in DOMAIN items[i] : y \in Seq(Steps)
  BY DocumentIs, DocumentParts
<1>2. \A i \in 1 .. n : Index(i - 1) \in Steps /\ Index(i - 1).at = i - 1
  BY StepKinds
<1>3. DOMAIN value \subseteq Seq(Steps)
  <2> SUFFICES ASSUME NEW x \in DOMAIN value, x # <<>> PROVE x \in Seq(Steps)
    <3>1. <<>> \in Seq(Steps)
      OBVIOUS
    <3> QED BY <3>1
  <2>1. PICK i \in 1 .. n : \E y \in DOMAIN items[i] : x = <<Index(i - 1)>> \o y
    BY DEF IsArrayOf
  <2> QED BY <1>1, <1>2, <2>1, HeadOf
<1>4. ASSUME NEW s \in Steps, NEW y \in Seq(Steps), <<s>> \o y \in DOMAIN value
      PROVE  \E i \in 1 .. n : s = Index(i - 1) /\ y \in DOMAIN items[i]
  <2>1. PICK x : x = <<s>> \o y
    OBVIOUS
  <2>2. Head(x) = s /\ Tail(x) = y /\ x # <<>>
    BY <2>1, HeadOf
  <2>3. PICK i \in 1 .. n : \E z \in DOMAIN items[i] : x = <<Index(i - 1)>> \o z
    BY <1>4, <2>1, <2>2 DEF IsArrayOf
  <2>4. PICK z \in DOMAIN items[i] : x = <<Index(i - 1)>> \o z
    BY <2>3
  <2>5. Head(x) = Index(i - 1) /\ Tail(x) = z
    BY <1>1, <1>2, <2>4, HeadOf
  <2> QED BY <2>2, <2>5
<1>5. ASSUME NEW i \in 1 .. n, NEW y \in Seq(Steps) PROVE <<Index(i - 1)>> \o y \in DOMAIN value <=> y \in DOMAIN items[i]
  <2>1. ASSUME <<Index(i - 1)>> \o y \in DOMAIN value PROVE y \in DOMAIN items[i]
    <3>1. PICK j \in 1 .. n : Index(i - 1) = Index(j - 1) /\ y \in DOMAIN items[j]
      BY <1>2, <1>4, <2>1
    <3>2. i = j
      BY <1>2, <3>1
    <3> QED BY <3>1, <3>2
  <2>2. y \in DOMAIN items[i] => <<Index(i - 1)>> \o y \in DOMAIN value
    BY DEF IsArrayOf
  <2> QED BY <2>1, <2>2
<1> QED BY <1>3, <1>4, <1>5 DEF ArrayHas

LEMMA ArrayDocument ==
  ASSUME NEW items \in Seq(Documents)
  PROVE  IsDocument(Array(items))
<1>1. PICK n \in Nat : n = Len(items)
  OBVIOUS
<1>2. PICK value : value = Array(items) /\ IsArrayOf(value, items, n)
  BY <1>1, ArrayIs
<1>3. DOMAIN items = 1 .. n /\ \A i \in 1 .. n : IsDocument(items[i])
  BY <1>1, DocumentIs
<1>4. \A i \in 1 .. n : /\ DOMAIN items[i] \subseteq Seq(Steps) /\ IsFiniteSet(DOMAIN items[i]) /\ <<>> \in DOMAIN items[i]
                        /\ \A y \in DOMAIN items[i] : items[i][y] \in Nodes /\ (y # <<>> => Front(y) \in DOMAIN items[i])
                             /\ (items[i][y].is = "object" => IsInjective(items[i][y].names))
  BY <1>3, DocumentParts
<1>5. /\ DOMAIN value \subseteq Seq(Steps)
      /\ \A i \in 1 .. n : \A y \in Seq(Steps) : <<Index(i - 1)>> \o y \in DOMAIN value <=> y \in DOMAIN items[i]
      /\ \A s \in Steps, y \in Seq(Steps) : <<s>> \o y \in DOMAIN value => \E i \in 1 .. n : s = Index(i - 1)
  <2>1. ArrayHas(value, items, n)
    BY <1>1, <1>2, ArrayPlaces
  <2> QED BY <2>1 DEF ArrayHas
<1>6. \A i \in 1 .. n : Index(i - 1) \in Steps /\ Index(i - 1).at = i - 1
  BY StepKinds
<1>7. PICK node : node = [is |-> "array", len |-> n] /\ node \in Nodes /\ StepsIn(node) = {Index(i) : i \in 0 .. n - 1}
  <2> DEFINE node == [is |-> "array", len |-> n]
  <2>1. node \in Nodes
    BY DEF Nodes
  <2>2. StepsIn(node) = {Index(i) : i \in 0 .. n - 1}
    BY DEF StepsIn
  <2> QED BY <2>1, <2>2
<1>8. \A s \in Steps : s \in StepsIn(node) <=> \E i \in 1 .. n : s = Index(i - 1)
  <2>1. ASSUME NEW j \in 0 .. n - 1 PROVE \E i \in 1 .. n : Index(j) = Index(i - 1)
    <3>1. PICK i \in 1 .. n : i - 1 = j
      <4>1. j + 1 \in 1 .. n /\ j + 1 - 1 = j
        OBVIOUS
      <4> QED BY <4>1
    <3> QED BY <3>1
  <2> QED BY <1>7, <2>1
<1>9. <<>> \in DOMAIN value /\ value[<<>>] = node
  BY <1>2, <1>7 DEF IsArrayOf
<1>10. ASSUME NEW x \in DOMAIN value, x # <<>>
       PROVE  \E i \in 1 .. n : \E y \in DOMAIN items[i] : x = <<Index(i - 1)>> \o y /\ value[x] = items[i][y]
  <2>1. PICK i \in 1 .. n : \E y \in DOMAIN items[i] : x = <<Index(i - 1)>> \o y
    BY <1>2, <1>10 DEF IsArrayOf
  <2>2. PICK y \in DOMAIN items[i] : x = <<Index(i - 1)>> \o y
    BY <2>1
  <2>3. value[<<Index(i - 1)>> \o y] = items[i][y]
    BY <1>2 DEF IsArrayOf
  <2> QED BY <2>2, <2>3
<1>11. ASSUME NEW x \in DOMAIN value
       PROVE  value[x] \in Nodes /\ (value[x].is = "object" => IsInjective(value[x].names))
  <2>1. CASE x = <<>>
    <3>1. value[x].is = "array"
      BY <1>7, <1>9, <2>1
    <3> QED BY <1>7, <1>9, <2>1, <3>1
  <2>2. CASE x # <<>>
    <3>1. PICK i \in 1 .. n : \E y \in DOMAIN items[i] : value[x] = items[i][y]
      BY <1>10, <2>2
    <3> QED BY <1>4, <3>1
  <2> QED BY <2>1, <2>2
<1>12. IsFiniteSet(DOMAIN value)
  <2> DEFINE Part(i) == {<<Index(i - 1)>> \o y : y \in DOMAIN items[i]}
             Parts == {Part(i) : i \in 1 .. n}
  <2>1. ASSUME NEW i \in 1 .. n PROVE IsFiniteSet(Part(i))
    <3>1. PICK g : g = [y \in DOMAIN items[i] |-> <<Index(i - 1)>> \o y]
      OBVIOUS
    <3>2. Part(i) = {g[y] : y \in DOMAIN g} /\ DOMAIN g = DOMAIN items[i]
      BY <3>1
    <3> QED BY <1>4, <3>2, FiniteImage
  <2>2. IsFiniteSet(Parts)
    <3>1. PICK g : g = [i \in 1 .. n |-> Part(i)]
      OBVIOUS
    <3>2. Parts = {g[i] : i \in DOMAIN g} /\ DOMAIN g = 1 .. n
      BY <3>1
    <3>3. IsFiniteSet(1 .. n)
      BY FS_Interval
    <3> QED BY <3>2, <3>3, FiniteImage
  <2>3. IsFiniteSet(UNION Parts)
    BY <2>1, <2>2, FS_UNION
  <2>4. PICK all : all = UNION Parts
    OBVIOUS
  <2>5. IsFiniteSet(all \cup {<<>>})
    BY <2>3, <2>4, FS_AddElement
  <2>6. ASSUME NEW x \in DOMAIN value, x # <<>> PROVE x \in all
    <3>1. PICK i \in 1 .. n : \E y \in DOMAIN items[i] : x = <<Index(i - 1)>> \o y
      BY <1>10, <2>6
    <3>2. x \in Part(i) /\ Part(i) \in Parts
      BY <3>1
    <3> QED BY <2>4, <3>2
  <2>7. DOMAIN value \subseteq all \cup {<<>>}
    BY <2>6
  <2> QED BY <2>5, <2>7, FS_Subset
<1>13. ASSUME NEW x \in DOMAIN value, NEW step \in Steps
       PROVE  step \in StepsIn(value[x]) <=> Append(x, step) \in DOMAIN value
  <2>1. CASE x = <<>>
    <3>1. <<step>> \o <<>> = Append(x, step) /\ <<>> \in Seq(Steps)
      BY <2>1
    <3>2. Append(x, step) \in DOMAIN value <=> \E i \in 1 .. n : step = Index(i - 1)
      BY <1>4, <1>5, <3>1
    <3> QED BY <1>8, <1>9, <2>1, <3>2
  <2>2. CASE x # <<>>
    <3>0. PICK i \in 1 .. n : \E y \in DOMAIN items[i] : x = <<Index(i - 1)>> \o y /\ value[x] = items[i][y]
      BY <1>10, <2>2
    <3>1. PICK y \in DOMAIN items[i] : x = <<Index(i - 1)>> \o y /\ value[x] = items[i][y]
      BY <3>0
    <3>2. y \in Seq(Steps) /\ <<Index(i - 1)>> \in Seq(Steps) /\ Append(y, step) \in Seq(Steps)
      BY <1>4, <1>6
    <3>3. Append(x, step) = <<Index(i - 1)>> \o Append(y, step)
      BY <3>1, <3>2, StepFirst
    <3>4. step \in StepsIn(items[i][y]) <=> Append(y, step) \in DOMAIN items[i]
      BY <1>3, Children
    <3> QED BY <1>5, <3>1, <3>2, <3>3, <3>4
  <2> QED BY <2>1, <2>2
<1>14. ASSUME NEW x \in DOMAIN value, x # <<>> PROVE Front(x) \in DOMAIN value
  <2>0. PICK i \in 1 .. n : \E y \in DOMAIN items[i] : x = <<Index(i - 1)>> \o y
    BY <1>10, <1>14
  <2>1. PICK y \in DOMAIN items[i] : x = <<Index(i - 1)>> \o y
    BY <2>0
  <2>2. y \in Seq(Steps) /\ <<Index(i - 1)>> \in Seq(Steps)
    BY <1>4, <1>6
  <2>3. CASE y = <<>>
    <3>1. x = Append(<<>>, Index(i - 1)) /\ <<>> \in Seq(Steps)
      BY <2>1, <2>3
    <3>2. Front(x) = <<>>
      BY <1>6, <3>1, Appended
    <3> QED BY <1>9, <3>2
  <2>4. CASE y # <<>>
    <3>1. PICK f \in Seq(Steps), s \in Steps : y = Append(f, s) /\ f = Front(y)
      BY <2>2, <2>4, Ends
    <3>2. x = Append(<<Index(i - 1)>> \o f, s)
      BY <2>1, <2>2, <3>1, StepFirst
    <3>3. Front(x) = <<Index(i - 1)>> \o f
      <4>1. PICK z \in Seq(Steps) : z = <<Index(i - 1)>> \o f
        BY <1>6, <3>1, HeadOf
      <4> QED BY <3>1, <3>2, <4>1, Appended
    <3> QED BY <1>4, <1>5, <2>4, <3>1, <3>3
  <2> QED BY <2>3, <2>4
<1>15. value \in [DOMAIN value -> Nodes]
  <2>1. PICK D : D = DOMAIN value
    OBVIOUS
  <2>2. value = [x \in D |-> value[x]]
    BY <1>2, <2>1 DEF IsArrayOf
  <2> QED BY <1>11, <2>1, <2>2
<1>16. IsDocument(value)
  BY <1>5, <1>9, <1>11, <1>12, <1>13, <1>14, <1>15, DocumentWhen
<1> QED BY <1>2, <1>16

-----------------------------------------------------------------------------
(* SetPath where the way is there: it changes nothing but what is at the   *)
(* path, and the container it is in.                                       *)
IsPlaceFor(root, r) ==
  /\ r \in Seq(Steps) /\ r # <<>> /\ Front(r) \in DOMAIN root
  /\ root[Front(r)].is = ContainerFor(Last(r)).is
  /\ Last(r) \in StepsIn(root[Front(r)]) \/ Last(r).is = "Field"

IsThere(root, r, x, t) ==
  /\ t = r[Len(x) + 1] /\ t \in Steps /\ x \in DOMAIN root /\ root[x].is = ContainerFor(t).is
  /\ t \in StepsIn(root[x]) \/ (x = Front(r) /\ t.is = "Field")
  /\ x = Front(r) => t = Last(r)

LEMMA HopsThere ==
  ASSUME NEW root, IsDocument(root), NEW r, IsPlaceFor(root, r),
         NEW x \in Seq(Steps), IsPrefix(x, r), x # r
  PROVE  IsThere(root, r, x, r[Len(x) + 1])
<1>1. PICK f \in Seq(Steps), s \in Steps : /\ f = Front(r) /\ s = Last(r) /\ r = Append(f, s) /\ Len(f) = Len(r) - 1
                                           /\ Len(r) \in Nat /\ s = r[Len(r)] /\ \A i \in 1 .. Len(f) : f[i] = r[i]
  <2>1. r \in Seq(Steps) /\ r # <<>>
    BY DEF IsPlaceFor
  <2>2. /\ Front(r) \in Seq(Steps) /\ Last(r) \in Steps /\ r = Append(Front(r), Last(r)) /\ Len(Front(r)) = Len(r) - 1
        /\ Last(r) = r[Len(r)] /\ \A i \in 1 .. Len(r) - 1 : Front(r)[i] = r[i]
    BY <2>1, Ends
  <2>3. Len(r) \in Nat
    BY <2>1
  <2> QED BY <2>2, <2>3
<1>2. f \in DOMAIN root /\ root[f].is = ContainerFor(s).is /\ (s \in StepsIn(root[f]) \/ s.is = "Field")
  BY <1>1 DEF IsPlaceFor
<1>3. CASE x = f
  <2>1. r[Len(x) + 1] = s
    BY <1>1, <1>3
  <2> QED BY <1>1, <1>2, <1>3, <2>1 DEF IsThere
<1>4. CASE x # f
  <2>1. IsPrefix(x, f)
    BY <1>1, PrefixAppend
  <2>2. /\ x \in DOMAIN root /\ f[Len(x) + 1] \in Steps /\ f[Len(x) + 1] \in StepsIn(root[x])
        /\ root[x].is = ContainerFor(f[Len(x) + 1]).is
    BY <1>2, <1>4, <2>1, Through
  <2>3. Len(x) \in 0 .. Len(f) - 1
    BY <1>4, <2>1, HopOf
  <2>4. Len(x) + 1 \in 1 .. Len(f)
    <3>1. Len(f) \in Nat
      OBVIOUS
    <3> QED BY <2>3, <3>1
  <2>5. f[Len(x) + 1] = r[Len(x) + 1]
    BY <1>1, <2>4
  <2> QED BY <1>1, <1>4, <2>2, <2>5 DEF IsThere
<1> QED BY <1>3, <1>4

HopThere(root, r, k, x) ==
  /\ x \in Seq(Steps) /\ x = SubSeq(r, 1, k) /\ Len(x) = k /\ IsPrefix(x, r) /\ x # r
  /\ IsThere(root, r, x, r[k + 1]) /\ ParentOf(root, r, k) = root[x]

LEMMA ParentThere ==
  ASSUME NEW root, IsDocument(root), NEW r, IsPlaceFor(root, r),
         NEW k \in 0 .. Len(r) - 1
  PROVE  HopThere(root, r, k, SubSeq(r, 1, k))
<1>1. r \in Seq(Steps) /\ Len(r) \in Nat
  BY DEF IsPlaceFor
<1>2. PICK x \in Seq(Steps) : x = SubSeq(r, 1, k) /\ Len(x) = k /\ IsPrefix(x, r)
  <2>1. k \in 0 .. Len(r)
    BY <1>1
  <2>2. IsHop(SubSeq(r, 1, k), r, k)
    BY <1>1, <2>1, HopIs
  <2> QED BY <2>2 DEF IsHop
<1>3. x # r
  BY <1>1, <1>2
<1>4. IsThere(root, r, x, r[k + 1])
  BY <1>2, <1>3, HopsThere
<1>5. ~Opens(root, r, k)
  <2>1. root[x].is \in {"object", "array"}
    BY <1>4, Containers DEF IsThere
  <2>2. root[x] # NullNode
    BY <2>1, NullInner
  <2>3. x \in DOMAIN root
    BY <1>4 DEF IsThere
  <2> QED BY <1>2, <2>2, <2>3 DEF Opens
<1>6. ParentOf(root, r, k) = root[x]
  BY <1>2, <1>5 DEF ParentOf
<1> QED BY <1>2, <1>3, <1>4, <1>6 DEF HopThere

IsPutAt(result, root, r, value) ==
  /\ DOMAIN result \subseteq Seq(Steps) /\ result = [x \in DOMAIN result |-> result[x]]
  /\ \A x \in Seq(Steps) : x \in DOMAIN result <=>
       IF IsPrefix(r, x) THEN Beyond(r, x) \in DOMAIN value ELSE x \in DOMAIN root
  /\ \A x \in DOMAIN result :
       result[x] = IF IsPrefix(r, x) THEN value[Beyond(r, x)]
                   ELSE IF x = Front(r) THEN Grown(root[x], Last(r)) ELSE root[x]

LEMMA PutAt ==
  ASSUME NEW root, IsDocument(root), NEW r, IsPlaceFor(root, r),
         NEW value, DOMAIN value \subseteq Seq(Steps)
  PROVE  IsPutAt(SetPath(root, r, value), root, r, value)
<1>1. r \in Seq(Steps) /\ r # <<>> /\ Front(r) \in DOMAIN root /\ Len(r) \in Nat
  BY DEF IsPlaceFor
<1>2. DOMAIN root \subseteq Seq(Steps) /\ \A x \in DOMAIN root : root[x] \in Nodes
  BY DocumentParts
<1>3. root # Null
  <2>1. ASSUME root = Null PROVE FALSE
    <3>1. Front(r) = <<>> /\ root[<<>>] = NullNode
      BY <1>1, <2>1 DEF Null, Leaf
    <3>2. Last(r) \in Steps
      BY <1>1, Ends
    <3>3. root[Front(r)].is \in {"object", "array"}
      BY <3>2, Containers DEF IsPlaceFor
    <3> QED BY <3>1, <3>3, NullInner
  <2> QED BY <2>1
<1>4. RootOf(root, r) = root
  BY <1>3 DEF RootOf
<1>5. ~Misfit(root, r)
  <2> SUFFICES ASSUME NEW k \in 0 .. Len(r) - 1 PROVE ParentOf(root, r, k).is = ContainerFor(r[k + 1]).is
    BY DEF Misfit
  <2>1. PICK x : HopThere(root, r, k, x)
    BY ParentThere
  <2> QED BY <2>1 DEF HopThere, IsThere
<1>6. PICK places : places = PutPlaces(root, r, value)
  OBVIOUS
<1>7. PICK result : result = SetPath(root, r, value) /\ result = [x \in places |-> PutNode(root, r, value, x)]
  BY <1>4, <1>5, <1>6, SetPathIs
<1>8. DOMAIN result = places /\ result = [x \in DOMAIN result |-> result[x]]
      /\ \A x \in places : result[x] = PutNode(root, r, value, x)
  BY <1>7
<1>9. ASSUME NEW x \in PadPlaces(root, r) PROVE FALSE
  <2>1. PICK k \in 0 .. Len(r) - 1 : r[k + 1].is = "Index" /\ ParentOf(root, r, k).len .. r[k + 1].at - 1 # {}
    BY <1>9 DEF PadPlaces
  <2>2. PICK y : HopThere(root, r, k, y)
    BY ParentThere
  <2>3. PICK t \in Steps : t = r[k + 1] /\ t \in StepsIn(root[y]) /\ y \in DOMAIN root /\ root[y].is = ContainerFor(t).is
    BY <2>1, <2>2 DEF HopThere, IsThere
  <2>4. t = Index(t.at) /\ t.at \in Nat /\ t.is # "Field"
    BY <2>1, <2>3, StepKinds
  <2>5. root[y].is = "array"
    BY <2>3, <2>4, Containers
  <2>6. root[y].len \in Nat /\ (Index(t.at) \in StepsIn(root[y]) <=> t.at < root[y].len)
    BY <1>2, <2>3, <2>4, <2>5, InnerSteps
  <2>7. t.at < root[y].len
    BY <2>3, <2>4, <2>6
  <2>8. root[y].len .. t.at - 1 # {}
    BY <2>1, <2>2, <2>3 DEF HopThere
  <2> QED BY <2>4, <2>6, <2>7, <2>8
<1>10. ASSUME NEW k \in 0 .. Len(r) - 1
       PROVE  SubSeq(r, 1, k) \in DOMAIN root /\ ~IsPrefix(r, SubSeq(r, 1, k))
  <2>1. PICK x \in Seq(Steps) : x = SubSeq(r, 1, k) /\ Len(x) = k /\ IsThere(root, r, x, r[k + 1])
    BY ParentThere DEF HopThere
  <2>2. ~IsPrefix(r, x)
    <3>1. x \in Seq(Steps) /\ Len(x) < Len(r)
      BY <1>1, <2>1
    <3>2. IsPrefix(r, x) => Len(r) <= Len(x)
      BY <1>1, <3>1, PrefixIs
    <3> QED BY <1>1, <3>1, <3>2
  <2> QED BY <2>1, <2>2 DEF IsThere
<1>11. \A x : x \in places <=> (x \in DOMAIN root /\ ~IsPrefix(r, x)) \/ \E y \in DOMAIN value : x = r \o y
  <2>1. \A x : x \in places <=>
          \/ x \in DOMAIN root /\ ~IsPrefix(r, x)
          \/ x \in PadPlaces(root, r)
          \/ \E k \in 0 .. Len(r) - 1 : x = SubSeq(r, 1, k)
          \/ \E y \in DOMAIN value : x = r \o y
    BY <1>6 DEF PutPlaces
  <2> QED BY <1>9, <1>10, <2>1
<1>12. ASSUME NEW y \in DOMAIN value PROVE r \o y \in Seq(Steps) /\ IsPrefix(r, r \o y) /\ Beyond(r, r \o y) = y
  <2>1. y \in Seq(Steps)
    OBVIOUS
  <2> QED BY <1>1, <2>1, Under
<1>13. places \subseteq Seq(Steps)
  BY <1>2, <1>11, <1>12
<1>14. ASSUME NEW x \in Seq(Steps)
       PROVE  x \in places <=> IF IsPrefix(r, x) THEN Beyond(r, x) \in DOMAIN value ELSE x \in DOMAIN root
  <2>1. CASE IsPrefix(r, x)
    <3>1. x = r \o Beyond(r, x)
      BY <1>1, <2>1, PrefixSplits
    <3> QED BY <1>11, <1>12, <2>1, <3>1
  <2>2. CASE ~IsPrefix(r, x)
    BY <1>11, <1>12, <2>2
  <2> QED BY <2>1, <2>2
<1>15. ASSUME NEW x \in places
       PROVE  result[x] = IF IsPrefix(r, x) THEN value[Beyond(r, x)]
                          ELSE IF x = Front(r) THEN Grown(root[x], Last(r)) ELSE root[x]
  <2>1. result[x] = PutNode(root, r, value, x)
    BY <1>8
  <2>2. CASE IsPrefix(r, x)
    BY <2>1, <2>2 DEF PutNode
  <2>3. CASE ~IsPrefix(r, x) /\ ~IsPrefix(x, r)
    <3>1. x # Front(r)
      <4>1. PICK f \in Seq(Steps) : f = Front(r) /\ r = Append(f, Last(r)) /\ Last(r) \in Steps
        BY <1>1, Ends
      <4>2. IsPrefix(f, f)
        BY PrefixOrder
      <4>3. IsPrefix(f, r)
        BY <4>1, <4>2, PrefixAppend
      <4> QED BY <2>3, <4>1, <4>3
    <3>2. x \in DOMAIN root
      BY <1>13, <1>14, <2>3
    <3> QED BY <2>1, <2>3, <3>1, <3>2 DEF PutNode
  <2>4. CASE ~IsPrefix(r, x) /\ IsPrefix(x, r)
    <3>1. x \in Seq(Steps)
      BY <1>13
    <3>2. x # r
      BY <2>4, PrefixOrder, <1>1
    <3>3. PICK k \in 0 .. Len(r) - 1 : k = Len(x) /\ x = SubSeq(r, 1, k)
      BY <1>1, <2>4, <3>1, <3>2, HopOf
    <3>4. ParentOf(root, r, k) = root[x]
      BY <3>3, ParentThere DEF HopThere
    <3>5. PICK t : t = r[k + 1] /\ IsThere(root, r, x, t)
      BY <2>4, <3>1, <3>2, <3>3, HopsThere
    <3>6. result[x] = Grown(root[x], t)
      BY <2>1, <2>4, <3>3, <3>4, <3>5 DEF PutNode
    <3>7. CASE x = Front(r)
      BY <2>4, <3>5, <3>6, <3>7 DEF IsThere
    <3>8. CASE x # Front(r)
      <4>1. Grown(root[x], t) = root[x]
        BY <3>5, <3>8 DEF Grown, IsThere
      <4> QED BY <2>4, <3>6, <3>8, <4>1
    <3> QED BY <3>7, <3>8
  <2> QED BY <2>2, <2>3, <2>4
<1>16. IsPutAt(result, root, r, value)
  BY <1>8, <1>13, <1>14, <1>15 DEF IsPutAt
<1> QED BY <1>7, <1>16

LEMMA GrownThere ==
  ASSUME NEW root, IsDocument(root), NEW r, IsPlaceFor(root, r)
  PROVE  LET node == Grown(root[Front(r)], Last(r))
         IN /\ node \in Nodes /\ node.is = root[Front(r)].is /\ (node.is = "object" => IsInjective(node.names))
            /\ node.is \in {"object", "array"}
            /\ \A s \in Steps : s \in StepsIn(node) <=> s \in StepsIn(root[Front(r)]) \/ s = Last(r)
<1>1. PICK old, t : old = root[Front(r)] /\ t = Last(r) /\ t \in Steps
  <2>1. r \in Seq(Steps) /\ r # <<>>
    BY DEF IsPlaceFor
  <2>2. Last(r) \in Steps
    BY <2>1, Ends
  <2> QED BY <2>2
<1>2. /\ old \in Nodes /\ old.is = ContainerFor(t).is /\ (old.is = "object" => IsInjective(old.names))
      /\ t \in StepsIn(old) \/ t.is = "Field"
  <2>1. Front(r) \in DOMAIN root
    BY DEF IsPlaceFor
  <2>2. old \in Nodes /\ (old.is = "object" => IsInjective(old.names))
    BY <1>1, <2>1, DocumentParts
  <2> QED BY <1>1, <2>2 DEF IsPlaceFor
<1>3. PICK node : node = Grown(old, t)
  OBVIOUS
<1>4. /\ node \in Nodes /\ node.is = old.is /\ (node.is = "object" => IsInjective(node.names))
      /\ \A s \in Steps : s \in StepsIn(node) <=>
           s \in StepsIn(old) \/ s = t \/ (t.is = "Index" /\ s.is = "Index" /\ s.at < t.at)
  BY <1>1, <1>2, <1>3, GrownIs
<1>5. ASSUME NEW s \in Steps, t.is = "Index", s.is = "Index", s.at < t.at PROVE s \in StepsIn(old)
  <2>1. t = Index(t.at) /\ t.at \in Nat /\ t.is # "Field"
    BY <1>1, <1>5, StepKinds
  <2>2. s = Index(s.at) /\ s.at \in Nat
    BY <1>1, <1>5, StepKinds
  <2>3. old.is = "array"
    BY <1>1, <1>2, <2>1, Containers
  <2>4. old.len \in Nat /\ \A i \in Nat : Index(i) \in StepsIn(old) <=> i < old.len
    BY <1>2, <2>3, InnerSteps
  <2>5. t.at < old.len
    BY <1>2, <2>1, <2>4
  <2>6. s.at < old.len
    BY <1>5, <2>1, <2>2, <2>4, <2>5
  <2> QED BY <2>2, <2>4, <2>6
<1>6. \A s \in Steps : s \in StepsIn(node) <=> s \in StepsIn(old) \/ s = t
  BY <1>4, <1>5
<1>7. node.is \in {"object", "array"}
  BY <1>1, <1>2, <1>4, Containers
<1> QED BY <1>1, <1>3, <1>4, <1>6, <1>7

LEMMA PutDocument ==
  ASSUME NEW root, IsDocument(root), NEW r, IsPlaceFor(root, r), NEW value, IsDocument(value),
         NEW result, IsPutAt(result, root, r, value)
  PROVE  IsDocument(result)
<1>1. PICK f \in Seq(Steps), t \in Steps : f = Front(r) /\ t = Last(r) /\ r = Append(f, t) /\ f \in DOMAIN root
  <2>1. r \in Seq(Steps) /\ r # <<>> /\ Front(r) \in DOMAIN root
    BY DEF IsPlaceFor
  <2>2. Front(r) \in Seq(Steps) /\ Last(r) \in Steps /\ r = Append(Front(r), Last(r))
    BY <2>1, Ends
  <2> QED BY <2>1, <2>2
<1>2. r \in Seq(Steps) /\ r # <<>>
  BY DEF IsPlaceFor
<1>3. PICK node : node = Grown(root[f], t)
  OBVIOUS
<1>4. /\ node \in Nodes /\ (node.is = "object" => IsInjective(node.names))
      /\ \A s \in Steps : s \in StepsIn(node) <=> s \in StepsIn(root[f]) \/ s = t
  BY <1>1, <1>3, GrownThere
<1>5. PICK D : D = DOMAIN result
  OBVIOUS
<1>6. D \subseteq Seq(Steps) /\ result = [x \in D |-> result[x]]
  BY <1>5 DEF IsPutAt
<1>7. ASSUME NEW x \in Seq(Steps), IsPrefix(r, x)
      PROVE  /\ x \in D <=> Beyond(r, x) \in DOMAIN value
             /\ x \in D => result[x] = value[Beyond(r, x)]
             /\ x = r \o Beyond(r, x) /\ Beyond(r, x) \in Seq(Steps)
  <2>1. x = r \o Beyond(r, x) /\ Beyond(r, x) \in Seq(Steps)
    BY <1>2, <1>7, PrefixSplits
  <2>2. x \in D <=> Beyond(r, x) \in DOMAIN value
    BY <1>5, <1>7 DEF IsPutAt
  <2>3. x \in D => result[x] = value[Beyond(r, x)]
    BY <1>5, <1>7 DEF IsPutAt
  <2> QED BY <2>1, <2>2, <2>3
<1>8. ASSUME NEW x \in Seq(Steps), ~IsPrefix(r, x)
      PROVE  (x \in D <=> x \in DOMAIN root) /\ (x \in D => result[x] = IF x = f THEN node ELSE root[x])
  <2>1. x \in D <=> x \in DOMAIN root
    BY <1>5, <1>8 DEF IsPutAt
  <2>2. x \in D => result[x] = IF x = f THEN node ELSE root[x]
    BY <1>1, <1>3, <1>5, <1>8 DEF IsPutAt
  <2> QED BY <2>1, <2>2
<1>9. /\ \A x \in DOMAIN value : /\ value[x] \in Nodes /\ (value[x].is = "object" => IsInjective(value[x].names))
                                 /\ x # <<>> => Front(x) \in DOMAIN value
      /\ DOMAIN value \subseteq Seq(Steps) /\ <<>> \in DOMAIN value /\ IsFiniteSet(DOMAIN value)
  BY DocumentParts
<1>10. /\ \A x \in DOMAIN root : /\ root[x] \in Nodes /\ (root[x].is = "object" => IsInjective(root[x].names))
                                 /\ x # <<>> => Front(x) \in DOMAIN root
       /\ DOMAIN root \subseteq Seq(Steps) /\ <<>> \in DOMAIN root /\ IsFiniteSet(DOMAIN root)
  BY DocumentParts
<1>11. ASSUME NEW x \in D
       PROVE  result[x] \in Nodes /\ (result[x].is = "object" => IsInjective(result[x].names))
  <2>1. x \in Seq(Steps)
    BY <1>6
  <2>2. CASE IsPrefix(r, x)
    BY <1>7, <1>9, <2>1, <2>2
  <2>3. CASE ~IsPrefix(r, x) /\ x = f
    BY <1>4, <1>8, <2>1, <2>3
  <2>4. CASE ~IsPrefix(r, x) /\ x # f
    BY <1>8, <1>10, <2>1, <2>4
  <2> QED BY <2>2, <2>3, <2>4
<1>12. IsFiniteSet(D)
  <2>1. PICK g : g = [y \in DOMAIN value |-> r \o y]
    OBVIOUS
  <2>2. PICK G : G = {g[y] : y \in DOMAIN g}
    OBVIOUS
  <2>3. IsFiniteSet(G)
    BY <1>9, <2>1, <2>2, FiniteImage
  <2>4. IsFiniteSet(DOMAIN root \cup G)
    BY <1>10, <2>3, FS_Union
  <2>5. ASSUME NEW x \in D PROVE x \in DOMAIN root \cup G
    <3>1. x \in Seq(Steps)
      BY <1>6
    <3>2. CASE IsPrefix(r, x)
      BY <1>7, <2>1, <2>2, <3>1, <3>2
    <3>3. CASE ~IsPrefix(r, x)
      BY <1>8, <3>1, <3>3
    <3> QED BY <3>2, <3>3
  <2> QED BY <2>4, <2>5, FS_Subset
<1>13. ASSUME NEW x \in Seq(Steps), NEW s \in Steps
       PROVE  IsPrefix(r, Append(x, s)) <=> IsPrefix(r, x) \/ (x = f /\ s = t)
  <2>1. IsPrefix(r, Append(x, s)) <=> IsPrefix(r, x) \/ r = Append(x, s)
    BY <1>2, <1>13, PrefixAppend
  <2>2. r = Append(x, s) <=> x = f /\ s = t
    <3>1. Front(Append(x, s)) = x /\ Last(Append(x, s)) = s
      BY <1>13, Appended
    <3> QED BY <1>1, <3>1
  <2> QED BY <2>1, <2>2
<1>14. ASSUME NEW e \in Seq(Steps), e = <<>> PROVE e \in D
  <2>1. ~IsPrefix(r, e)
    <3>1. Len(r) # 0 /\ Len(r) \in Nat /\ Len(e) = 0
      BY <1>2, <1>14
    <3>2. IsPrefix(r, e) => Len(r) <= Len(e)
      BY <1>2, <1>14, PrefixIs
    <3> QED BY <3>1, <3>2
  <2> QED BY <1>8, <1>10, <1>14, <2>1
<1>15. <<>> \in D
  <2>1. <<>> \in Seq(Steps)
    OBVIOUS
  <2> QED BY <1>14, <2>1
<1>16. ~IsPrefix(r, f)
  <2>1. Len(r) = Len(f) + 1
    BY <1>1, Appended
  <2>2. IsPrefix(r, f) => Len(r) <= Len(f)
    BY <1>1, <1>2, PrefixIs
  <2> QED BY <1>1, <2>1, <2>2
<1>17. f \in D
  BY <1>1, <1>8, <1>16
<1>18. \A z \in Seq(Steps) : r \o z \in Seq(Steps) /\ IsPrefix(r, r \o z) /\ Beyond(r, r \o z) = z
  BY <1>2, Under
<1>0. \A u \in Seq(Steps), v \in Steps : Append(r \o u, v) = r \o Append(u, v)
  BY <1>2, StepFirst
<1>19. ASSUME NEW x \in D, x # <<>> PROVE Front(x) \in D
  <2>1. PICK y \in Seq(Steps), s \in Steps : x = Append(y, s) /\ y = Front(x) /\ x \in Seq(Steps)
    BY <1>6, <1>19, Ends
  <2>2. CASE IsPrefix(r, y)
    <3>1. PICK z \in Seq(Steps) : z = Beyond(r, y) /\ y = r \o z
      BY <1>7, <2>1, <2>2
    <3>2. x = r \o Append(z, s)
      <4>1. Append(r \o z, s) = r \o Append(z, s)
        BY <1>0, <2>1, <3>1
      <4> QED BY <2>1, <3>1, <4>1
    <3>3. Append(z, s) \in Seq(Steps) /\ Append(z, s) # <<>> /\ Front(Append(z, s)) = z
      BY <3>1, Appended
    <3>4. Append(z, s) \in DOMAIN value
      BY <1>7, <1>18, <2>1, <3>2, <3>3
    <3>5. z \in DOMAIN value
      BY <1>9, <3>3, <3>4
    <3> QED BY <1>7, <2>1, <2>2, <3>1, <3>5
  <2>3. CASE ~IsPrefix(r, y) /\ IsPrefix(r, x)
    BY <1>13, <1>17, <2>1, <2>3
  <2>4. CASE ~IsPrefix(r, y) /\ ~IsPrefix(r, x)
    BY <1>8, <1>10, <1>19, <2>1, <2>4
  <2> QED BY <2>2, <2>3, <2>4
<1>20. ASSUME NEW x \in D, NEW s \in Steps PROVE s \in StepsIn(result[x]) <=> Append(x, s) \in D
  <2>1. x \in Seq(Steps) /\ Append(x, s) \in Seq(Steps)
    BY <1>6, Appended
  <2>2. CASE IsPrefix(r, x)
    <3>1. PICK z \in Seq(Steps) : z = Beyond(r, x) /\ x = r \o z /\ result[x] = value[z] /\ z \in DOMAIN value
      BY <1>7, <2>1, <2>2
    <3>2. s \in StepsIn(value[z]) <=> Append(z, s) \in DOMAIN value
      BY <3>1, Children
    <3>3. Append(x, s) = r \o Append(z, s) /\ Append(z, s) \in Seq(Steps)
      <4>1. Append(r \o z, s) = r \o Append(z, s)
        BY <1>0, <3>1
      <4>2. Append(z, s) \in Seq(Steps)
        BY <3>1, Appended
      <4> QED BY <3>1, <4>1, <4>2
    <3>4. Append(x, s) \in D <=> Append(z, s) \in DOMAIN value
      BY <1>7, <1>18, <2>1, <3>3
    <3> QED BY <3>1, <3>2, <3>4
  <2>3. CASE ~IsPrefix(r, x)
    <3>1. x \in DOMAIN root /\ (s \in StepsIn(root[x]) <=> Append(x, s) \in DOMAIN root)
      BY <1>8, <2>1, <2>3, Children
    <3>2. CASE x = f /\ s = t
      <4>1. s \in StepsIn(result[x])
        BY <1>4, <1>8, <2>1, <2>3, <3>2
      <4>2. Append(x, s) = r /\ IsPrefix(r, r)
        BY <1>1, <1>2, <3>2, PrefixOrder
      <4>3. PICK e \in Seq(Steps) : e = <<>> /\ r \o e = r
        <5>1. r \o <<>> = r /\ <<>> \in Seq(Steps)
          BY <1>2
        <5> QED BY <5>1
      <4>4. Beyond(r, r) = e
        BY <1>18, <4>3
      <4>5. r \in D
        BY <1>2, <1>7, <1>9, <4>2, <4>3, <4>4
      <4> QED BY <4>1, <4>2, <4>5
    <3>3. CASE ~(x = f /\ s = t)
      <4>1. ~IsPrefix(r, Append(x, s))
        BY <1>13, <2>1, <2>3, <3>3
      <4>2. Append(x, s) \in D <=> s \in StepsIn(root[x])
        BY <1>8, <2>1, <3>1, <4>1
      <4>3. s \in StepsIn(result[x]) <=> s \in StepsIn(root[x])
        BY <1>4, <1>8, <2>1, <2>3, <3>3
      <4> QED BY <4>2, <4>3
    <3> QED BY <3>2, <3>3
  <2> QED BY <2>2, <2>3
<1>21. result \in [DOMAIN result -> Nodes]
  BY <1>5, <1>6, <1>11
<1> QED BY <1>5, <1>6, <1>11, <1>12, <1>15, <1>19, <1>20, <1>21, DocumentWhen

-----------------------------------------------------------------------------
(* A payload with another value at the path of the batch.                  *)
IsPlaced(result, root, r, value) ==
  /\ IsDocument(result)
  /\ \A x \in Seq(Steps) : IsPrefix(r, x) => /\ x \in DOMAIN result <=> Beyond(r, x) \in DOMAIN value
                                             /\ x \in DOMAIN result => result[x] = value[Beyond(r, x)]
  /\ \A x \in Seq(Steps) : ~IsPrefix(r, x) => Seen(result, x) = Seen(root, x)

LEMMA PutPlaced ==
  ASSUME NEW root, IsDocument(root), NEW r, IsPlaceFor(root, r), NEW value, IsDocument(value)
  PROVE  IsPlaced(SetPath(root, r, value), root, r, value)
<1>1. PICK result : result = SetPath(root, r, value)
  OBVIOUS
<1>2. IsPutAt(result, root, r, value)
  <2>1. DOMAIN value \subseteq Seq(Steps)
    BY DocumentParts
  <2> QED BY <1>1, <2>1, PutAt
<1>3. IsDocument(result)
  BY <1>2, PutDocument
<1>4. ASSUME NEW x \in Seq(Steps), IsPrefix(r, x)
      PROVE  /\ x \in DOMAIN result <=> Beyond(r, x) \in DOMAIN value
             /\ x \in DOMAIN result => result[x] = value[Beyond(r, x)]
  <2>1. x \in DOMAIN result <=> Beyond(r, x) \in DOMAIN value
    BY <1>2, <1>4 DEF IsPutAt
  <2>2. x \in DOMAIN result => result[x] = value[Beyond(r, x)]
    BY <1>2, <1>4 DEF IsPutAt
  <2> QED BY <2>1, <2>2
<1>5. ASSUME NEW x \in Seq(Steps), ~IsPrefix(r, x) PROVE Seen(result, x) = Seen(root, x)
  <2>1. x \in DOMAIN result <=> x \in DOMAIN root
    BY <1>2, <1>5 DEF IsPutAt
  <2>2. CASE x \notin DOMAIN root
    BY <2>1, <2>2, NotSeen
  <2>3. CASE x \in DOMAIN root /\ x # Front(r)
    <3>1. result[x] = root[x]
      BY <1>2, <1>5, <2>1, <2>3 DEF IsPutAt
    <3> QED BY <2>1, <2>3, <3>1 DEF Seen
  <2>4. CASE x \in DOMAIN root /\ x = Front(r)
    <3>1. PICK node : node = Grown(root[Front(r)], Last(r))
      OBVIOUS
    <3>2. node.is = root[x].is /\ node.is \in {"object", "array"}
      BY <2>4, <3>1, GrownThere
    <3>3. result[x] = node
      BY <1>2, <1>5, <2>1, <2>4, <3>1 DEF IsPutAt
    <3>4. Seen(result, x) = Some([is |-> node.is]) /\ Seen(root, x) = Some([is |-> root[x].is])
      BY <2>1, <2>4, <3>2, <3>3 DEF Seen
    <3> QED BY <3>2, <3>4
  <2> QED BY <2>2, <2>3, <2>4
<1> QED BY <1>1, <1>3, <1>4, <1>5 DEF IsPlaced

LEMMA BatchablePlace ==
  ASSUME NEW attr, NEW root, IsDocument(root), attr.path \in Seq(Steps), attr.path # <<>>, IsBatchable(attr, root)
  PROVE  IsPlaceFor(root, attr.path)
<1>1. PICK r \in Seq(Steps) : r = attr.path /\ r # <<>>
  OBVIOUS
<1>2. Last(r) \in Steps
  BY <1>1, Ends
<1>3. CASE r \in DOMAIN root
  <2>1. Front(r) \in DOMAIN root /\ Last(r) \in StepsIn(root[Front(r)])
    BY <1>1, <1>3, DocumentParts
  <2>2. PICK node \in Nodes : node = root[Front(r)]
    BY <2>1, DocumentParts
  <2>3. Last(r).is = (IF node.is = "object" THEN "Field" ELSE "Index") /\ node.is \in {"object", "array"}
    BY <2>1, <2>2, InnerSteps
  <2>4. ContainerFor(Last(r)).is \in {"object", "array"} /\ (ContainerFor(Last(r)).is = "object" <=> Last(r).is = "Field")
    BY <1>2, Containers
  <2>5. node.is = ContainerFor(Last(r)).is
    BY <2>3, <2>4
  <2> QED BY <1>1, <2>1, <2>2, <2>5 DEF IsPlaceFor
<1>4. CASE r \notin DOMAIN root
  <2>1. Last(r).is = "Field" /\ Front(r) \in DOMAIN root /\ root[Front(r)].is = "object"
    BY <1>1, <1>4 DEF IsBatchable, HasList
  <2>2. ContainerFor(Last(r)).is = "object"
    BY <1>2, <2>1, Containers
  <2> QED BY <1>1, <2>1, <2>2 DEF IsPlaceFor
<1> QED BY <1>3, <1>4

LEMMA FoldPlaced ==
  ASSUME NEW attr, NEW root, IsDocument(root), attr.path \in Seq(Steps), IsBatchable(attr, root),
         NEW value, IsDocument(value)
  PROVE  IsPlaced(IF attr.path = <<>> THEN value ELSE SetPath(root, attr.path, value), root, attr.path, value)
<1>1. PICK r \in Seq(Steps) : r = attr.path
  OBVIOUS
<1>2. CASE r = <<>>
  <2>1. ASSUME NEW x \in Seq(Steps) PROVE IsPrefix(r, x) /\ Beyond(r, x) = x
    <3>1. IsPrefix(r, x)
      BY <1>1, <1>2, PrefixOrder
    <3>2. Beyond(r, x) \in Seq(Steps) /\ x = r \o Beyond(r, x)
      BY <1>1, <3>1, PrefixSplits
    <3>3. \A y \in Seq(Steps) : <<>> \o y = y
      OBVIOUS
    <3>4. r \o Beyond(r, x) = Beyond(r, x)
      BY <1>2, <3>2, <3>3
    <3> QED BY <3>1, <3>2, <3>4
  <2>2. IsPlaced(value, root, r, value)
    BY <2>1 DEF IsPlaced
  <2> QED BY <1>1, <1>2, <2>2
<1>3. CASE r # <<>>
  <2>1. IsPlaceFor(root, r)
    BY <1>1, <1>3, BatchablePlace
  <2>2. IsPlaced(SetPath(root, r, value), root, r, value)
    BY <2>1, PutPlaced
  <2> QED BY <1>1, <1>3, <2>2
<1> QED BY <1>2, <1>3

-----------------------------------------------------------------------------
(* The entries of a list.                                                  *)
Scalars == {Scalar(v) : v \in Nat}

LEMMA ScalarIs ==
  ASSUME NEW v \in Nat
  PROVE  Scalar(v) \in Documents /\ Scalar(v)[<<>>] = [is |-> "scalar", value |-> v] /\ Scalar(v) \in Scalars
<1>1. PICK node : node = [is |-> "scalar", value |-> v]
  OBVIOUS
<1>2. node \in Nodes /\ StepsIn(node) = {} /\ node.is # "object"
  BY <1>1 DEF Nodes, StepsIn
<1>3. IsDocument(Leaf(node)) /\ Leaf(node)[<<>>] = node
  BY <1>2, NullDocument
<1> QED BY <1>1, <1>3, DocumentIs DEF Scalar, Scalars

LEMMA ScalarWhen ==
  ASSUME NEW value, IsDocument(value), value[<<>>].is = "scalar"
  PROVE  value \in Scalars
<1>1. value[<<>>] \in Nodes /\ <<>> \in DOMAIN value /\ DOMAIN value \subseteq Seq(Steps) /\ value \in [DOMAIN value -> Nodes]
  BY DocumentParts
<1>2. PICK v \in Nat : value[<<>>] = [is |-> "scalar", value |-> v]
  BY <1>1 DEF Nodes
<1>3. StepsIn(value[<<>>]) = {}
  BY <1>2 DEF StepsIn
<1>4. ASSUME NEW x \in DOMAIN value, x # <<>> PROVE FALSE
  <2>1. x \in Seq(Steps) /\ 1 \in 0 .. Len(x)
    <3>1. x \in Seq(Steps)
      BY <1>1
    <3>2. Len(x) \in Nat /\ Len(x) # 0
      BY <1>4, <3>1
    <3> QED BY <3>1, <3>2
  <2>2. PICK h \in Seq(Steps) : Len(h) = 1 /\ IsPrefix(h, x)
    <3>1. IsHop(SubSeq(x, 1, 1), x, 1)
      BY <2>1, HopIs
    <3> QED BY <3>1 DEF IsHop
  <2>3. h \in DOMAIN value /\ h # <<>>
    <3>1. h \in DOMAIN value
      BY <1>4, <2>1, <2>2, OnTheWay
    <3> QED BY <2>2, <3>1
  <2>4. Last(h) \in StepsIn(value[Front(h)])
    BY <2>3, DocumentParts
  <2>5. Front(h) = <<>>
    <3>1. Front(h) \in Seq(Steps) /\ Len(Front(h)) = 0
      BY <2>2, <2>3, Ends
    <3> QED BY <3>1
  <2> QED BY <1>3, <2>4, <2>5
<1>5. DOMAIN value = {<<>>}
  BY <1>1, <1>4
<1>6. value = [x \in {<<>>} |-> value[x]]
  BY <1>1, <1>5
<1>7. value = Scalar(v)
  BY <1>2, <1>6 DEF Scalar, Leaf
<1> QED BY <1>7 DEF Scalars

LEMMA AtRoot ==
  ASSUME NEW value, IsDocument(value)
  PROVE  At(value, <<>>) = value
<1>1. DOMAIN value \subseteq Seq(Steps) /\ value = [x \in DOMAIN value |-> value[x]]
  BY DocumentParts
<1>2. PICK e \in Seq(Steps) : e = <<>>
  <2>1. <<>> \in Seq(Steps)
    OBVIOUS
  <2> QED BY <2>1
<1>3. PICK f, D : f = At(value, e) /\ D = DOMAIN f
  OBVIOUS
<1>4. D \subseteq Seq(Steps) /\ f = [x \in D |-> value[e \o x]] /\ \A x \in Seq(Steps) : x \in D <=> e \o x \in DOMAIN value
  BY <1>1, <1>3, AtMeans
<1>5. \A x \in Seq(Steps) : e \o x = x
  BY <1>2
<1>6. D = DOMAIN value /\ \A x \in D : value[e \o x] = value[x]
  BY <1>1, <1>4, <1>5
<1> QED BY <1>1, <1>2, <1>3, <1>4, <1>6

LEMMA EntriesAre ==
  ASSUME NEW payload, IsDocument(payload), NEW r \in Seq(Steps)
  PROVE  Entries(payload, r) \in Seq(Documents)
<1>1. CASE ~HasList(payload, r)
  BY <1>1 DEF Entries
<1>2. CASE HasList(payload, r)
  <2>1. PICK node \in Nodes : node = payload[r] /\ node.is = "array" /\ r \in DOMAIN payload
    BY <1>2, DocumentParts DEF HasList
  <2>2. PICK n \in Nat : n = node.len /\ \A i \in Nat : Index(i) \in StepsIn(node) <=> i < n
    BY <2>1, InnerSteps
  <2>3. ASSUME NEW i \in 1 .. n PROVE At(payload, Append(r, Index(i - 1))) \in Documents
    <3>1. PICK j \in Nat : j = i - 1 /\ j < n
      BY <2>2
    <3>2. Index(j) \in Steps /\ Index(j) \in StepsIn(payload[r])
      BY <2>1, <2>2, <3>1, StepKinds
    <3>3. Append(r, Index(j)) \in DOMAIN payload
      BY <2>1, <3>2, Children
    <3> QED BY <3>1, <3>3, AtDocument, DocumentIs
  <2>4. Entries(payload, r) = [i \in 1 .. n |-> At(payload, Append(r, Index(i - 1)))]
    BY <1>2, <2>1, <2>2 DEF Entries
  <2>5. Entries(payload, r) \in [1 .. n -> Documents]
    BY <2>3, <2>4
  <2> QED BY <2>2, <2>5
<1> QED BY <1>1, <1>2

LEMMA EntryIs ==
  ASSUME NEW payload, IsDocument(payload), NEW r \in Seq(Steps), HasList(payload, r),
         NEW i \in DOMAIN Entries(payload, r)
  PROVE  /\ Index(i - 1) \in StepsIn(payload[r]) /\ IsDocument(Entries(payload, r)[i])
         /\ Entries(payload, r)[i][<<>>] = payload[Append(r, Index(i - 1))]
<1>1. PICK node \in Nodes : node = payload[r] /\ node.is = "array" /\ r \in DOMAIN payload
  BY DocumentParts DEF HasList
<1>2. PICK n \in Nat : n = node.len /\ \A j \in Nat : Index(j) \in StepsIn(node) <=> j < n
  BY <1>1, InnerSteps
<1>3. Entries(payload, r) = [j \in 1 .. n |-> At(payload, Append(r, Index(j - 1)))]
  BY <1>1, <1>2 DEF Entries
<1>4. i \in 1 .. n
  BY <1>3
<1>5. PICK j \in Nat : j = i - 1 /\ j < n
  BY <1>2, <1>4
<1>6. Index(j) \in Steps /\ Index(j) \in StepsIn(payload[r])
  BY <1>1, <1>2, <1>5, StepKinds
<1>7. PICK x : x = Append(r, Index(j)) /\ x \in DOMAIN payload
  BY <1>1, <1>6, Children
<1>8. Entries(payload, r)[i] = At(payload, x)
  BY <1>3, <1>4, <1>5, <1>7
<1>9. IsDocument(At(payload, x)) /\ At(payload, x)[<<>>] = payload[x]
  BY <1>7, AtDocument
<1> QED BY <1>5, <1>6, <1>7, <1>8, <1>9

LEMMA ScalarEntries ==
  ASSUME NEW attr, NEW payload, IsDocument(payload), attr.path \in Seq(Steps), attr.calls # <<>>, IsBatchable(attr, payload)
  PROVE  Entries(payload, attr.path) \in Seq(Scalars)
<1>1. PICK r \in Seq(Steps) : r = attr.path
  OBVIOUS
<1>2. PICK s \in Seq(Documents) : s = Entries(payload, r)
  BY EntriesAre
<1>3. CASE ~HasList(payload, r)
  BY <1>1, <1>3 DEF Entries
<1>4. CASE HasList(payload, r)
  <2>1. ASSUME NEW i \in DOMAIN s PROVE s[i] \in Scalars
    <3>1. /\ Index(i - 1) \in StepsIn(payload[r]) /\ IsDocument(s[i])
          /\ s[i][<<>>] = payload[Append(r, Index(i - 1))]
      BY <1>2, <1>4, EntryIs
    <3>2. \A step \in StepsIn(payload[r]) : payload[Append(r, step)].is = "scalar"
      <4>1. r \in DOMAIN payload /\ payload[r].is = "array"
        BY <1>4 DEF HasList
      <4>2. payload[r] # NullNode
        BY <4>1, NullInner
      <4> QED BY <1>1, <4>1, <4>2 DEF IsBatchable
    <3> QED BY <3>1, <3>2, ScalarWhen
  <2>2. s \in Seq(Scalars)
    <3>1. PICK n \in Nat : DOMAIN s = 1 .. n /\ s \in [1 .. n -> Documents]
      BY <1>2
    <3>2. s \in [1 .. n -> Scalars]
      BY <2>1, <3>1
    <3> QED BY <3>2
  <2> QED BY <1>1, <1>2, <2>2
<1> QED BY <1>3, <1>4

IsEntry(q, result, a) ==
  /\ IsDocument(q) /\ IsDocument(result) /\ a \in Seq(Steps)
  /\ \A x \in Seq(Steps) : /\ a \o x \in DOMAIN result <=> x \in DOMAIN q
                           /\ x \in DOMAIN q => result[a \o x] = q[x]

LEMMA AtEntry == \A q, result, a : IsEntry(q, result, a) => At(result, a) = q
<1> SUFFICES ASSUME NEW q, NEW result, NEW a, IsEntry(q, result, a) PROVE At(result, a) = q
  OBVIOUS
<1>1. IsDocument(q) /\ IsDocument(result) /\ a \in Seq(Steps)
  BY DEF IsEntry
<1>2. DOMAIN result \subseteq Seq(Steps)
  BY <1>1, DocumentParts
<1>3. DOMAIN q \subseteq Seq(Steps)
  BY <1>1, DocumentParts
<1>4. PICK e \in Seq(Steps) : e = <<>>
  <2>1. <<>> \in Seq(Steps)
    OBVIOUS
  <2> QED BY <2>1
<1>5. \A x \in Seq(Steps) : e \o x = x
  BY <1>4
<1>6. AlikeBelow(result, a, q, e)
  BY <1>1, <1>2, <1>3, <1>4, <1>5 DEF IsEntry, AlikeBelow
<1>7. At(result, a) = At(q, e)
  BY <1>6, SameAt
<1>8. At(q, e) = q
  BY <1>1, <1>4, AtRoot
<1> QED BY <1>7, <1>8

LEMMA EntriesThere ==
  ASSUME NEW items \in Seq(Documents), NEW r \in Seq(Steps), NEW root,
         NEW result, IsPlaced(result, root, r, Array(items))
  PROVE  /\ HasList(result, r) /\ Entries(result, r) = items
         /\ \A step \in StepsIn(result[r]) : \E i \in DOMAIN items : result[Append(r, step)] = items[i][<<>>]
<1>1. PICK n \in Nat : n = Len(items) /\ DOMAIN items = 1 .. n /\ \A i \in 1 .. n : IsDocument(items[i])
  <2>1. Len(items) \in Nat /\ DOMAIN items = 1 .. Len(items) /\ \A i \in 1 .. Len(items) : items[i] \in Documents
    OBVIOUS
  <2> QED BY <2>1, DocumentIs
<1>2. PICK value : value = Array(items) /\ IsArrayOf(value, items, n)
  BY <1>1, ArrayIs
<1>3. ArrayHas(value, items, n)
  BY <1>1, <1>2, ArrayPlaces
<1>4. IsDocument(result) /\ DOMAIN result \subseteq Seq(Steps)
  BY DocumentParts DEF IsPlaced
<1>5. ASSUME NEW y \in Seq(Steps)
      PROVE  (r \o y \in DOMAIN result <=> y \in DOMAIN value) /\ (r \o y \in DOMAIN result => result[r \o y] = value[y])
  <2>1. r \o y \in Seq(Steps) /\ IsPrefix(r, r \o y) /\ Beyond(r, r \o y) = y
    BY Under
  <2>2. PICK x \in Seq(Steps) : x = r \o y /\ IsPrefix(r, x) /\ Beyond(r, x) = y
    BY <2>1
  <2>3. (x \in DOMAIN result <=> y \in DOMAIN value) /\ (x \in DOMAIN result => result[x] = value[y])
    BY <1>2, <2>2 DEF IsPlaced
  <2> QED BY <2>2, <2>3
<1>6. PICK node : node = [is |-> "array", len |-> n] /\ node = value[<<>>] /\ <<>> \in DOMAIN value
  BY <1>2 DEF IsArrayOf
<1>7. r \in DOMAIN result /\ result[r] = node
  <2>1. <<>> \in Seq(Steps) /\ r \o <<>> = r
    OBVIOUS
  <2>2. (r \o <<>> \in DOMAIN result <=> <<>> \in DOMAIN value) /\ (r \o <<>> \in DOMAIN result => result[r \o <<>>] = value[<<>>])
    BY <1>5, <2>1
  <2> QED BY <1>6, <2>1, <2>2
<1>8. HasList(result, r)
  BY <1>6, <1>7 DEF HasList
<1>9. ASSUME NEW i \in 1 .. n PROVE Index(i - 1) \in Steps
  BY StepKinds
<1>10. ASSUME NEW i \in 1 .. n
       PROVE  /\ Append(r, Index(i - 1)) \in Seq(Steps)
              /\ \A x \in Seq(Steps) : /\ Append(r, Index(i - 1)) \o x \in DOMAIN result <=> x \in DOMAIN items[i]
                                       /\ x \in DOMAIN items[i] => result[Append(r, Index(i - 1)) \o x] = items[i][x]
  <2>1. PICK s \in Steps : s = Index(i - 1)
    BY <1>9
  <2>2. Append(r, s) \in Seq(Steps)
    BY <2>1, Appended
  <2>3. ASSUME NEW x \in Seq(Steps)
        PROVE  /\ Append(r, s) \o x \in DOMAIN result <=> x \in DOMAIN items[i]
               /\ x \in DOMAIN items[i] => result[Append(r, s) \o x] = items[i][x]
    <3>1. Append(r, s) \o x = r \o (<<s>> \o x) /\ <<s>> \o x \in Seq(Steps)
      BY <2>1, StepFirst
    <3>2. PICK y \in Seq(Steps) : y = <<s>> \o x
      BY <3>1
    <3>3. y \in DOMAIN value <=> x \in DOMAIN items[i]
      BY <1>3, <2>1, <3>2 DEF ArrayHas
    <3>4. x \in DOMAIN items[i] => value[y] = items[i][x]
      BY <1>2, <2>1, <3>2 DEF IsArrayOf
    <3>5. (r \o y \in DOMAIN result <=> y \in DOMAIN value) /\ (r \o y \in DOMAIN result => result[r \o y] = value[y])
      BY <1>5, <3>2
    <3> QED BY <3>1, <3>2, <3>3, <3>4, <3>5
  <2> QED BY <2>1, <2>2, <2>3
<1>11. ASSUME NEW i \in 1 .. n
       PROVE  At(result, Append(r, Index(i - 1))) = items[i]
  <2>1. IsEntry(items[i], result, Append(r, Index(i - 1)))
    BY <1>1, <1>4, <1>10 DEF IsEntry
  <2> QED BY <2>1, AtEntry
<1>12. Entries(result, r) = items
  <2>1. Entries(result, r) = [i \in 1 .. n |-> At(result, Append(r, Index(i - 1)))]
    BY <1>6, <1>7, <1>8 DEF Entries
  <2>2. items = [i \in 1 .. n |-> items[i]]
    BY <1>1
  <2> QED BY <1>11, <2>1, <2>2
<1>13. ASSUME NEW step \in StepsIn(result[r])
       PROVE  \E i \in DOMAIN items : result[Append(r, step)] = items[i][<<>>]
  <2>1. PICK j \in 0 .. n - 1 : step = Index(j)
    BY <1>6, <1>7 DEF StepsIn
  <2>2. PICK i \in 1 .. n : step = Index(i - 1)
    <3>1. j + 1 \in 1 .. n /\ j + 1 - 1 = j
      BY <2>1
    <3> QED BY <2>1, <3>1
  <2>3. PICK e \in Seq(Steps) : e = <<>>
    <3>1. <<>> \in Seq(Steps)
      OBVIOUS
    <3> QED BY <3>1
  <2>4. PICK a \in Seq(Steps) : a = Append(r, step) /\ a \o e = a
    <3>1. Append(r, step) \in Seq(Steps)
      BY <1>10, <2>2
    <3>2. \A a \in Seq(Steps) : a \o e = a
      BY <2>3
    <3> QED BY <3>1, <3>2
  <2>5. e \in DOMAIN items[i]
    BY <1>1, <2>2, <2>3, DocumentParts
  <2>6. result[a \o e] = items[i][e]
    BY <1>10, <2>2, <2>3, <2>4, <2>5
  <2> QED BY <1>1, <2>2, <2>3, <2>4, <2>6
<1> QED BY <1>8, <1>12, <1>13

LEMMA NullThere ==
  ASSUME NEW attr, NEW r \in Seq(Steps), attr.path = r, r # <<>>, NEW root,
         NEW result, IsPlaced(result, root, r, Null)
  PROVE  ~HasList(result, r) /\ Entries(result, r) = <<>> /\ IsBatchable(attr, result)
<1>1. IsPrefix(r, r) /\ Beyond(r, r) = <<>>
  <2>1. PICK e \in Seq(Steps) : e = <<>> /\ r \o e = r
    <3>1. <<>> \in Seq(Steps) /\ r \o <<>> = r
      OBVIOUS
    <3> QED BY <3>1
  <2>2. \A y \in Seq(Steps) : IsPrefix(r, r \o y) /\ Beyond(r, r \o y) = y
    BY Under
  <2>3. IsPrefix(r, r \o e) /\ Beyond(r, r \o e) = e
    BY <2>1, <2>2
  <2> QED BY <2>1, <2>3
<1>2. DOMAIN Null = {<<>>} /\ Null[<<>>] = NullNode
  BY DEF Null, Leaf
<1>3. r \in DOMAIN result /\ result[r] = NullNode
  BY <1>1, <1>2 DEF IsPlaced
<1>4. ~HasList(result, r)
  BY <1>3, NullInner DEF HasList
<1> QED BY <1>3, <1>4 DEF Entries, IsBatchable

LEMMA StillBatchable ==
  ASSUME NEW attr, NEW items \in Seq(Documents), attr.path \in Seq(Steps), attr.calls # <<>> => items \in Seq(Scalars),
         NEW root, NEW result, IsPlaced(result, root, attr.path, Array(items))
  PROVE  IsBatchable(attr, result)
<1>1. PICK r \in Seq(Steps) : r = attr.path
  OBVIOUS
<1>2. /\ HasList(result, r)
      /\ \A step \in StepsIn(result[r]) : \E i \in DOMAIN items : result[Append(r, step)] = items[i][<<>>]
  BY <1>1, EntriesThere
<1>3. ASSUME attr.calls # <<>>, NEW step \in StepsIn(result[r]) PROVE result[Append(r, step)].is = "scalar"
  <2>1. PICK i \in DOMAIN items : result[Append(r, step)] = items[i][<<>>]
    BY <1>2, <1>3
  <2>2. items[i] \in Scalars
    BY <1>3, <2>1
  <2>3. PICK v \in Nat : items[i] = Scalar(v)
    BY <2>2 DEF Scalars
  <2>4. items[i][<<>>].is = "scalar"
    <3>1. Scalar(v)[<<>>] = [is |-> "scalar", value |-> v]
      BY <2>3, ScalarIs
    <3> QED BY <2>3, <3>1
  <2> QED BY <2>1, <2>4
<1> QED BY <1>1, <1>2, <1>3 DEF IsBatchable

-----------------------------------------------------------------------------
(* jq's sort and unique, on scalars.                                       *)
Weight(x) == x[<<>>].value

LEMMA Weighs ==
  /\ \A x \in Scalars : Weight(x) \in Nat /\ x = Scalar(Weight(x))
  /\ \A x, y : Precedes(x, y) <=> Weight(x) < Weight(y)
<1>1. ASSUME NEW x \in Scalars PROVE Weight(x) \in Nat /\ x = Scalar(Weight(x))
  <2>1. PICK v \in Nat : x = Scalar(v)
    BY DEF Scalars
  <2>2. Scalar(v)[<<>>] = [is |-> "scalar", value |-> v]
    BY <2>1, ScalarIs
  <2>3. Weight(x) = v
    BY <2>1, <2>2 DEF Weight
  <2> QED BY <2>1, <2>3
<1>2. \A x, y : Precedes(x, y) <=> Weight(x) < Weight(y)
  BY DEF Precedes, Weight
<1> QED BY <1>1, <1>2

LEMMA BijectionIs ==
  \A S, T, p : p \in Bijection(S, T) <=> /\ p \in [S -> T]
                                         /\ \A a, b \in S : p[a] = p[b] => a = b
                                         /\ \A t \in T : \E s \in S : p[s] = t
BY DEF Bijection, Injection, Surjection, IsInjective

LEMMA Heaviest ==
  ASSUME NEW n \in Nat, n # 0, NEW w \in [1 .. n -> Nat]
  PROVE  \E m \in 1 .. n : \A i \in 1 .. n : w[i] <= w[m]
<1> DEFINE T == {k \in Nat : k = 0 \/ (k <= n => \E m \in 1 .. k : \A i \in 1 .. k : w[i] <= w[m])}
<1>1. 0 \in T
  OBVIOUS
<1>2. ASSUME NEW k \in Nat, k \in T PROVE k + 1 \in T
  <2> SUFFICES ASSUME k + 1 <= n PROVE \E m \in 1 .. k + 1 : \A i \in 1 .. k + 1 : w[i] <= w[m]
    OBVIOUS
  <2>1. \A i \in 1 .. k + 1 : w[i] \in Nat /\ (i \in 1 .. k \/ i = k + 1)
    OBVIOUS
  <2>2. CASE k = 0
    <3>1. \A i \in 1 .. k + 1 : i = 1
      BY <2>2
    <3>2. 1 \in 1 .. k + 1
      OBVIOUS
    <3>3. PICK m \in 1 .. k + 1 : m = 1 /\ w[m] <= w[m]
      BY <2>1, <3>2
    <3>4. \A i \in 1 .. k + 1 : w[i] <= w[m]
      BY <3>1, <3>3
    <3> QED BY <3>4
  <2>3. CASE k # 0
    <3>1. PICK m \in 1 .. k : \A i \in 1 .. k : w[i] <= w[m]
      BY <1>2, <2>3
    <3>2. m \in 1 .. k + 1 /\ k + 1 \in 1 .. k + 1
      BY <3>1
    <3>3. CASE w[k + 1] <= w[m]
      BY <2>1, <3>1, <3>2, <3>3
    <3>4. CASE ~(w[k + 1] <= w[m])
      <4>1. \A i \in 1 .. k + 1 : w[i] <= w[k + 1]
        BY <2>1, <3>1, <3>2, <3>4
      <4> QED BY <3>2, <4>1
    <3> QED BY <3>3, <3>4
  <2> QED BY <2>2, <2>3
<1>3. n \in T
  <2> HIDE DEF T
  <2> QED BY <1>1, <1>2, Induct
<1> QED BY <1>3

(* Every list can be put in order.                                         *)
IsOrder(o, w, n) ==
  /\ o \in [1 .. n -> 1 .. n]
  /\ \A a, b \in 1 .. n : o[a] = o[b] => a = b
  /\ \A i \in 1 .. n : \E a \in 1 .. n : o[a] = i
  /\ \A i, j \in 1 .. n : i < j => ~(w[o[j]] < w[o[i]])

LEMMA OrderMore ==
  ASSUME NEW n \in Nat, NEW w \in [1 .. n + 1 -> Nat],
         \A v \in [1 .. n -> Nat] : \E o : IsOrder(o, v, n)
  PROVE  \E o : IsOrder(o, w, n + 1)
<1>1. PICK m \in 1 .. n + 1 : \A i \in 1 .. n + 1 : w[i] <= w[m]
  <2>1. n + 1 \in Nat /\ n + 1 # 0
    OBVIOUS
  <2> QED BY <2>1, Heaviest
<1>2. PICK v \in [1 .. n -> Nat] : \A i \in 1 .. n : v[i] = IF i = m THEN w[n + 1] ELSE w[i]
  <2>1. [i \in 1 .. n |-> IF i = m THEN w[n + 1] ELSE w[i]] \in [1 .. n -> Nat]
    OBVIOUS
  <2> QED BY <2>1
<1>3. PICK o : IsOrder(o, v, n)
  BY <1>2
<1>4. /\ \A a \in 1 .. n : o[a] \in 1 .. n
      /\ \A a, b \in 1 .. n : o[a] = o[b] => a = b
      /\ \A i \in 1 .. n : \E a \in 1 .. n : o[a] = i
      /\ \A i, j \in 1 .. n : i < j => ~(v[o[j]] < v[o[i]])
  BY <1>3 DEF IsOrder
<1>5. PICK q : q = [k \in 1 .. n + 1 |-> IF k = n + 1 THEN m ELSE IF o[k] = m THEN n + 1 ELSE o[k]]
  OBVIOUS
<1>6. /\ q[n + 1] = m
      /\ \A k \in 1 .. n : q[k] = IF o[k] = m THEN n + 1 ELSE o[k]
  BY <1>1, <1>5
<1>7. q \in [1 .. n + 1 -> 1 .. n + 1]
  <2>1. ASSUME NEW k \in 1 .. n + 1
        PROVE  (IF k = n + 1 THEN m ELSE IF o[k] = m THEN n + 1 ELSE o[k]) \in 1 .. n + 1
    <3>1. m \in 1 .. n + 1 /\ n + 1 \in 1 .. n + 1
      BY <1>1
    <3>2. CASE k # n + 1
      <4>1. k \in 1 .. n
        BY <3>2
      <4>2. o[k] \in 1 .. n + 1
        <5>1. PICK j \in 1 .. n : j = o[k]
          BY <1>4, <4>1
        <5> QED BY <5>1
      <4> QED BY <3>1, <3>2, <4>2
    <3> QED BY <3>1, <3>2
  <2> QED BY <1>5, <2>1
<1>8. ASSUME NEW k \in 1 .. n
      PROVE  /\ q[k] # m
             /\ o[k] = m => q[k] = n + 1
             /\ o[k] # m => q[k] = o[k] /\ q[k] # n + 1
  <2>1. o[k] \in 1 .. n /\ q[k] = (IF o[k] = m THEN n + 1 ELSE o[k]) /\ n + 1 \notin 1 .. n
    <3>1. PICK j \in 1 .. n : j = o[k]
      BY <1>4
    <3>2. j # n + 1
      BY <3>1
    <3> QED BY <1>6, <3>1, <3>2
  <2> QED BY <2>1
<1>9. \A k \in 1 .. n + 1 : k \in 1 .. n \/ k = n + 1
  OBVIOUS
<1>10. ASSUME NEW a \in 1 .. n + 1, NEW b \in 1 .. n + 1, q[a] = q[b] PROVE a = b
  <2>1. CASE a = n + 1 \/ b = n + 1
    BY <1>6, <1>8, <1>9, <1>10, <2>1
  <2>2. CASE a \in 1 .. n /\ b \in 1 .. n
    <3>1. o[a] = o[b]
      BY <1>8, <1>10, <2>2
    <3> QED BY <1>4, <2>2, <3>1
  <2> QED BY <1>9, <2>1, <2>2
<1>11. ASSUME NEW i \in 1 .. n + 1 PROVE \E a \in 1 .. n + 1 : q[a] = i
  <2>1. CASE i = m
    <3>1. n + 1 \in 1 .. n + 1
      OBVIOUS
    <3> QED BY <1>6, <2>1, <3>1
  <2>2. CASE i # m
    <3>1. PICK j \in 1 .. n : j = IF i = n + 1 THEN m ELSE i
      <4>1. (IF i = n + 1 THEN m ELSE i) \in 1 .. n
        BY <1>1, <2>2
      <4> QED BY <4>1
    <3>2. PICK a \in 1 .. n : o[a] = j
      BY <1>4, <3>1
    <3>3. a \in 1 .. n + 1
      BY <3>2
    <3>4. q[a] = i
      BY <1>6, <1>9, <2>2, <3>1, <3>2
    <3> QED BY <3>3, <3>4
  <2> QED BY <2>1, <2>2
<1>12. \A k \in 1 .. n : w[q[k]] = v[o[k]]
  BY <1>2, <1>4, <1>6
<1>13. ASSUME NEW i \in 1 .. n + 1, NEW j \in 1 .. n + 1, i < j PROVE ~(w[q[j]] < w[q[i]])
  <2>1. i \in 1 .. n
    BY <1>13
  <2>2. CASE j = n + 1
    <3>1. w[q[i]] <= w[m] /\ w[q[i]] \in Nat /\ w[m] \in Nat
      BY <1>1, <1>7
    <3>2. q[j] = m
      BY <1>6, <2>2
    <3> QED BY <3>1, <3>2
  <2>3. CASE j \in 1 .. n
    BY <1>4, <1>12, <1>13, <2>1, <2>3
  <2> QED BY <1>9, <2>2, <2>3
<1>14. IsOrder(q, w, n + 1)
  BY <1>7, <1>10, <1>11, <1>13 DEF IsOrder
<1> QED BY <1>14

LEMMA Orders == \A n \in Nat : \A w \in [1 .. n -> Nat] : \E o : IsOrder(o, w, n)
<1> DEFINE T == {n \in Nat : \A w \in [1 .. n -> Nat] : \E o : IsOrder(o, w, n)}
<1>1. 0 \in T
  <2> SUFFICES ASSUME NEW w \in [1 .. 0 -> Nat] PROVE \E o : IsOrder(o, w, 0)
    OBVIOUS
  <2>1. PICK o : o = [i \in 1 .. 0 |-> i]
    OBVIOUS
  <2>2. \A i \in 1 .. 0 : FALSE
    OBVIOUS
  <2>3. o \in [1 .. 0 -> 1 .. 0]
    BY <2>1
  <2>4. IsOrder(o, w, 0)
    BY <2>2, <2>3 DEF IsOrder
  <2> QED BY <2>4
<1>2. ASSUME NEW n \in Nat, n \in T PROVE n + 1 \in T
  <2>1. \A v \in [1 .. n -> Nat] : \E o : IsOrder(o, v, n)
    BY <1>2
  <2>2. \A w \in [1 .. n + 1 -> Nat] : \E o : IsOrder(o, w, n + 1)
    BY <2>1, OrderMore
  <2> QED BY <2>2
<1>3. Nat \subseteq T
  <2> HIDE DEF T
  <2> QED BY <1>1, <1>2, Induct
<1> QED BY <1>3

IsInOrder(s, items) ==
  /\ s \in Seq(Scalars) /\ Len(s) = Len(items) /\ Rearranged(s, items)
  /\ \A k \in 1 .. Len(s) - 1 : ~Precedes(s[k + 1], s[k])

LEMMA SortedIs ==
  ASSUME NEW items \in Seq(Scalars)
  PROVE  IsInOrder(Sorted(items), items)
<1>1. PICK n \in Nat : n = Len(items) /\ DOMAIN items = 1 .. n /\ \A i \in 1 .. n : items[i] \in Scalars
  <2>1. Len(items) \in Nat /\ DOMAIN items = 1 .. Len(items) /\ \A i \in 1 .. Len(items) : items[i] \in Scalars
    OBVIOUS
  <2> QED BY <2>1
<1> DEFINE In(order) == [k \in 1 .. n |-> items[order[k]]]
           Good(order) == \A i, j \in 1 .. n : i < j => ~Precedes(In(order)[j], In(order)[i])
           order == CHOOSE o \in Bijection(1 .. n, 1 .. n) : Good(o)
<1>2. \E o \in Bijection(1 .. n, 1 .. n) : Good(o)
  <2>1. PICK w \in [1 .. n -> Nat] : \A i \in 1 .. n : w[i] = Weight(items[i])
    <3>1. [i \in 1 .. n |-> Weight(items[i])] \in [1 .. n -> Nat]
      BY <1>1, Weighs
    <3> QED BY <3>1
  <2>2. PICK o : IsOrder(o, w, n)
    BY <2>1, Orders
  <2>3. o \in Bijection(1 .. n, 1 .. n)
    BY <2>2, BijectionIs DEF IsOrder
  <2>4. \A k \in 1 .. n : o[k] \in 1 .. n /\ Weight(In(o)[k]) = w[o[k]]
    BY <2>1, <2>2 DEF IsOrder
  <2>5. \A i, j \in 1 .. n : i < j => ~(w[o[j]] < w[o[i]])
    BY <2>2 DEF IsOrder
  <2>6. Good(o)
    <3> HIDE DEF In
    <3> QED BY <2>4, <2>5, Weighs
  <2> QED BY <2>3, <2>6
<1>3. order \in Bijection(1 .. n, 1 .. n) /\ Good(order)
  <2> HIDE DEF Good
  <2> QED BY <1>2
<1>4. Sorted(items) = In(order)
  BY <1>1 DEF Sorted
<1> HIDE DEF order
<1>5. order \in [1 .. n -> 1 .. n]
  BY <1>3, BijectionIs
<1>6. PICK s : s = In(order) /\ s \in [1 .. n -> Scalars] /\ \A k \in 1 .. n : s[k] = items[order[k]]
  <2>1. \A k \in 1 .. n : order[k] \in 1 .. n /\ items[order[k]] \in Scalars
    BY <1>1, <1>5
  <2>2. In(order) \in [1 .. n -> Scalars]
    BY <2>1
  <2>3. \A k \in 1 .. n : In(order)[k] = items[order[k]]
    OBVIOUS
  <2> HIDE DEF In
  <2> QED BY <2>2, <2>3
<1>7. \A i, j \in 1 .. n : i < j => ~Precedes(s[j], s[i])
  <2> HIDE DEF In
  <2> QED BY <1>3, <1>6
<1> HIDE DEF In, Good
<1>8. s \in Seq(Scalars) /\ Len(s) = n /\ DOMAIN s = 1 .. n
  BY <1>6
<1>9. Rearranged(s, items)
  BY <1>1, <1>3, <1>6, <1>8 DEF Rearranged
<1>10. ASSUME NEW k \in 1 .. Len(s) - 1 PROVE ~Precedes(s[k + 1], s[k])
  <2>1. k \in 1 .. n /\ k + 1 \in 1 .. n /\ k < k + 1
    BY <1>8
  <2> QED BY <1>7, <2>1
<1> QED BY <1>1, <1>4, <1>6, <1>8, <1>9, <1>10 DEF IsInOrder

LEMMA HeaviestOf ==
  ASSUME NEW A \in SUBSET Scalars, IsFiniteSet(A), A # {}
  PROVE  \E a \in A : \A x \in A : Weight(x) <= Weight(a)
<1>1. PICK f : DOMAIN f = A /\ \A x \in A : f[x] = Weight(x)
  <2>1. PICK f : f = [x \in A |-> Weight(x)]
    OBVIOUS
  <2>2. DOMAIN f = A /\ \A x \in A : f[x] = Weight(x)
    BY <2>1
  <2> QED BY <2>2
<1>2. \A x \in A : Weight(x) \in Nat
  BY Weighs
<1>3. PICK S : S = {f[x] : x \in DOMAIN f}
  OBVIOUS
<1>4. S \in SUBSET Nat /\ IsFiniteSet(S) /\ \A x \in A : Weight(x) \in S
  BY <1>1, <1>2, <1>3, FiniteImage
<1>5. PICK b \in Nat : \A y \in S : y <= b
  BY <1>4, GreatestOf
<1>6. PICK T \in SUBSET Nat : /\ \A x \in A : b - Weight(x) \in T
                              /\ \A y \in T : \E x \in A : y = b - Weight(x)
  <2> DEFINE T == {b - Weight(x) : x \in A}
  <2>1. T \in SUBSET Nat
    BY <1>2, <1>4, <1>5
  <2> QED BY <2>1
<1>7. T # {}
  BY <1>6
<1>8. PICK y \in T : \A z \in T : y <= z
  BY <1>7, Least
<1>9. PICK a \in A : y = b - Weight(a)
  BY <1>6, <1>8
<1>10. ASSUME NEW x \in A PROVE Weight(x) <= Weight(a)
  <2>1. b - Weight(a) <= b - Weight(x)
    BY <1>6, <1>8, <1>9
  <2> QED BY <1>2, <1>5, <1>9, <2>1
<1> QED BY <1>9, <1>10

(* Every set of scalars can be listed in order.                            *)
IsListing(s, A, n) ==
  /\ s \in [1 .. n -> A]
  /\ \A x \in A : \E i \in 1 .. n : s[i] = x
  /\ \A i, j \in 1 .. n : i < j => Precedes(s[i], s[j])

LEMMA ListingMore ==
  ASSUME NEW n \in Nat, NEW A \in SUBSET Scalars, IsFiniteSet(A), Cardinality(A) = n + 1,
         \A B \in SUBSET Scalars : IsFiniteSet(B) /\ Cardinality(B) = n => \E s : IsListing(s, B, n)
  PROVE  \E s : IsListing(s, A, n + 1)
<1>1. A # {}
  BY FS_EmptySet
<1>2. PICK a \in A : \A x \in A : Weight(x) <= Weight(a)
  BY <1>1, HeaviestOf
<1>3. PICK B \in SUBSET Scalars : B = A \ {a} /\ IsFiniteSet(B) /\ Cardinality(B) = n
  <2>1. IsFiniteSet(A \ {a}) /\ Cardinality(A \ {a}) = n + 1 - 1
    BY <1>2, FS_RemoveElement
  <2> QED BY <2>1
<1>4. PICK s : IsListing(s, B, n)
  BY <1>3
<1>5. /\ \A i \in 1 .. n : s[i] \in B
      /\ \A x \in B : \E i \in 1 .. n : s[i] = x
      /\ \A i, j \in 1 .. n : i < j => Precedes(s[i], s[j])
  BY <1>4 DEF IsListing
<1>6. PICK t : t = [k \in 1 .. n + 1 |-> IF k = n + 1 THEN a ELSE s[k]]
  OBVIOUS
<1>7. \A k \in 1 .. n + 1 : k \in 1 .. n \/ k = n + 1
  OBVIOUS
<1>8. t[n + 1] = a /\ \A k \in 1 .. n : t[k] = s[k] /\ k \in 1 .. n + 1
  BY <1>6
<1>9. t \in [1 .. n + 1 -> A]
  <2>1. \A k \in 1 .. n + 1 : (IF k = n + 1 THEN a ELSE s[k]) \in A
    BY <1>2, <1>3, <1>5, <1>7
  <2> QED BY <1>6, <2>1
<1>10. ASSUME NEW x \in A PROVE \E i \in 1 .. n + 1 : t[i] = x
  <2>1. CASE x = a
    <3>1. n + 1 \in 1 .. n + 1
      OBVIOUS
    <3> QED BY <1>8, <2>1, <3>1
  <2>2. CASE x # a
    <3>1. PICK i \in 1 .. n : s[i] = x
      BY <1>3, <1>5, <2>2
    <3> QED BY <1>8, <3>1
  <2> QED BY <2>1, <2>2
<1>11. ASSUME NEW i \in 1 .. n + 1, NEW j \in 1 .. n + 1, i < j PROVE Precedes(t[i], t[j])
  <2>1. i \in 1 .. n
    BY <1>11
  <2>2. CASE j = n + 1
    <3>1. PICK x \in B : x = t[i] /\ x \in A /\ x \in Scalars /\ x # a
      BY <1>3, <1>5, <1>8, <2>1
    <3>2. a \in Scalars
      BY <1>2
    <3>3. Weight(x) \in Nat /\ x = Scalar(Weight(x)) /\ Weight(a) \in Nat /\ a = Scalar(Weight(a))
      BY <3>1, <3>2, Weighs
    <3>4. Weight(x) # Weight(a) /\ Weight(x) <= Weight(a)
      BY <1>2, <3>1, <3>3
    <3>5. Weight(x) < Weight(a)
      BY <3>3, <3>4
    <3> QED BY <1>8, <2>2, <3>1, <3>5, Weighs
  <2>3. CASE j \in 1 .. n
    BY <1>5, <1>8, <1>11, <2>1, <2>3
  <2> QED BY <1>7, <2>2, <2>3
<1>12. IsListing(t, A, n + 1)
  BY <1>9, <1>10, <1>11 DEF IsListing
<1> QED BY <1>12

LEMMA Listings ==
  \A n \in Nat : \A A \in SUBSET Scalars : IsFiniteSet(A) /\ Cardinality(A) = n => \E s : IsListing(s, A, n)
<1> DEFINE Can(n) == \A A \in SUBSET Scalars : IsFiniteSet(A) /\ Cardinality(A) = n => \E s : IsListing(s, A, n)
           T == {n \in Nat : Can(n)}
<1>1. 0 \in T
  <2> SUFFICES ASSUME NEW A \in SUBSET Scalars, IsFiniteSet(A), Cardinality(A) = 0 PROVE \E s : IsListing(s, A, 0)
    OBVIOUS
  <2>1. A = {}
    BY FS_EmptySet
  <2>2. PICK s : s = [i \in 1 .. 0 |-> i]
    OBVIOUS
  <2>3. \A i \in 1 .. 0 : FALSE
    OBVIOUS
  <2>4. s \in [1 .. 0 -> A]
    BY <2>2, <2>3
  <2>5. IsListing(s, A, 0)
    BY <2>1, <2>3, <2>4 DEF IsListing
  <2> QED BY <2>5
<1>2. ASSUME NEW n \in Nat, n \in T PROVE n + 1 \in T
  <2>1. Can(n)
    BY <1>2
  <2>2. Can(n + 1)
    BY <2>1, ListingMore
  <2> QED BY <2>2
<1>3. Nat \subseteq T
  <2> HIDE DEF T
  <2> QED BY <1>1, <1>2, Induct
<1> QED BY <1>3

IsUnique(s, items) ==
  /\ s \in Seq(Scalars) /\ Len(s) <= Len(items)
  /\ ToSet(s) = ToSet(items) /\ IsInjective(s)

LEMMA UniqueIs ==
  ASSUME NEW items \in Seq(Scalars)
  PROVE  IsUnique(Unique(items), items)
<1>1. PICK n \in Nat : n = Len(items) /\ DOMAIN items = 1 .. n /\ \A i \in 1 .. n : items[i] \in Scalars
  <2>1. Len(items) \in Nat /\ DOMAIN items = 1 .. Len(items) /\ \A i \in 1 .. Len(items) : items[i] \in Scalars
    OBVIOUS
  <2> QED BY <2>1
<1>2. PICK A \in SUBSET Scalars : A = ToSet(items) /\ \A x : x \in A <=> \E i \in 1 .. n : x = items[i]
  <2>1. \A x : x \in ToSet(items) <=> \E i \in 1 .. n : x = items[i]
    BY <1>1 DEF ToSet
  <2>2. ToSet(items) \in SUBSET Scalars
    BY <1>1, <2>1
  <2> QED BY <2>1, <2>2
<1>3. IsFiniteSet(A) /\ Cardinality(A) <= n /\ Cardinality(A) \in Nat
  <2>1. items \in Surjection(1 .. n, A)
    <3>1. items = [i \in 1 .. n |-> items[i]]
      BY <1>1
    <3>2. items \in [1 .. n -> A]
      BY <1>2, <3>1
    <3> QED BY <1>2, <3>2 DEF Surjection
  <2>2. IsFiniteSet(1 .. n) /\ Cardinality(1 .. n) = n
    <3>1. IsFiniteSet(1 .. n) /\ Cardinality(1 .. n) = IF 1 > n THEN 0 ELSE n - 1 + 1
      BY FS_Interval
    <3> QED BY <3>1
  <2>3. IsFiniteSet(A) /\ Cardinality(A) <= Cardinality(1 .. n)
    BY <2>1, <2>2, FS_Surjection
  <2> QED BY <2>2, <2>3, FS_CardinalityType
<1>4. PICK m \in Nat : m = Cardinality(A) /\ m <= n
  BY <1>3
<1> DEFINE Good(s) == /\ ToSet(s) = A
                      /\ \A i, j \in DOMAIN s : i < j => Precedes(s[i], s[j])
           s == CHOOSE t \in [1 .. m -> A] : Good(t)
<1>5. \E t \in [1 .. m -> A] : Good(t)
  <2>1. PICK t : IsListing(t, A, m)
    BY <1>3, <1>4, Listings
  <2>2. t \in [1 .. m -> A] /\ DOMAIN t = 1 .. m
    BY <2>1 DEF IsListing
  <2>3. ToSet(t) = A
    BY <2>1, <2>2 DEF IsListing, ToSet
  <2> QED BY <2>1, <2>2, <2>3 DEF IsListing
<1>6. Unique(items) = s
  BY <1>2, <1>4 DEF Unique
<1>7. s \in [1 .. m -> A] /\ Good(s)
  <2> HIDE DEF Good
  <2> QED BY <1>5
<1> HIDE DEF s
<1>8. s \in [1 .. m -> Scalars]
  BY <1>7
<1>9. s \in Seq(Scalars) /\ Len(s) = m /\ DOMAIN s = 1 .. m
  BY <1>8
<1>10. ASSUME NEW i \in 1 .. m, NEW j \in 1 .. m, s[i] = s[j] PROVE i = j
  <2>1. ASSUME NEW a \in 1 .. m, NEW b \in 1 .. m, a < b PROVE s[a] # s[b]
    <3>1. Precedes(s[a], s[b]) /\ s[a] \in Scalars
      BY <1>7, <1>8, <1>9, <2>1
    <3>2. Weight(s[a]) < Weight(s[b]) /\ Weight(s[a]) \in Nat
      BY <3>1, Weighs
    <3> QED BY <3>2
  <2>2. i < j \/ j < i \/ i = j
    OBVIOUS
  <2> QED BY <1>10, <2>1, <2>2
<1>11. IsInjective(s)
  BY <1>9, <1>10 DEF IsInjective
<1>12. ToSet(s) = ToSet(items)
  BY <1>2, <1>7
<1> QED BY <1>1, <1>4, <1>6, <1>9, <1>11, <1>12 DEF IsUnique

-----------------------------------------------------------------------------
LEMMA RearrangedSame == \A s : Rearranged(s, s)
<1> SUFFICES ASSUME NEW s PROVE Rearranged(s, s)
  OBVIOUS
<1>1. PICK p : p = [k \in DOMAIN s |-> k]
  OBVIOUS
<1>2. p \in Bijection(DOMAIN s, DOMAIN s) /\ \A k \in DOMAIN s : s[k] = s[p[k]]
  BY <1>1, BijectionIs
<1> QED BY <1>2 DEF Rearranged

LEMMA RearrangedOn ==
  ASSUME NEW s, NEW t, NEW u, Rearranged(s, t), Rearranged(t, u)
  PROVE  Rearranged(s, u)
<1>1. PICK p \in Bijection(DOMAIN s, DOMAIN t) : \A k \in DOMAIN s : s[k] = t[p[k]]
  BY DEF Rearranged
<1>2. PICK q \in Bijection(DOMAIN t, DOMAIN u) : \A k \in DOMAIN t : t[k] = u[q[k]]
  BY DEF Rearranged
<1>3. PICK A, B, C : A = DOMAIN s /\ B = DOMAIN t /\ C = DOMAIN u
  OBVIOUS
<1>4. /\ \A a \in A : p[a] \in B
      /\ \A a, b \in A : p[a] = p[b] => a = b
      /\ \A b \in B : \E a \in A : p[a] = b
  BY <1>1, <1>3, BijectionIs
<1>5. /\ \A a \in B : q[a] \in C
      /\ \A a, b \in B : q[a] = q[b] => a = b
      /\ \A b \in C : \E a \in B : q[a] = b
  BY <1>2, <1>3, BijectionIs
<1>6. PICK r : r = [k \in A |-> q[p[k]]]
  OBVIOUS
<1>7. r \in [A -> C] /\ \A k \in A : r[k] = q[p[k]]
  BY <1>4, <1>5, <1>6
<1>8. \A a, b \in A : r[a] = r[b] => a = b
  BY <1>4, <1>5, <1>7
<1>9. \A c \in C : \E a \in A : r[a] = c
  BY <1>4, <1>5, <1>7
<1>10. r \in Bijection(A, C)
  BY <1>7, <1>8, <1>9, BijectionIs
<1>11. \A k \in A : s[k] = u[r[k]]
  BY <1>1, <1>2, <1>3, <1>4, <1>7
<1> QED BY <1>3, <1>10, <1>11 DEF Rearranged

LEMMA RearrangedMore ==
  ASSUME NEW X, NEW s \in Seq(X), NEW t \in Seq(X), NEW u \in Seq(X), Rearranged(s, t)
  PROVE  Rearranged(s \o u, t \o u)
<1>1. PICK n \in Nat : n = Len(s) /\ DOMAIN s = 1 .. n
  OBVIOUS
<1>2. PICK m \in Nat : m = Len(t) /\ DOMAIN t = 1 .. m
  OBVIOUS
<1>3. PICK l \in Nat : l = Len(u) /\ DOMAIN u = 1 .. l
  OBVIOUS
<1>4. PICK p \in Bijection(1 .. n, 1 .. m) : \A k \in 1 .. n : s[k] = t[p[k]]
  BY <1>1, <1>2 DEF Rearranged
<1>5. n = m
  <2>1. ExistsBijection(1 .. n, 1 .. m)
    BY <1>4 DEF ExistsBijection
  <2>2. IsFiniteSet(1 .. n) /\ Cardinality(1 .. n) = IF 1 > n THEN 0 ELSE n - 1 + 1
    BY FS_Interval
  <2>3. IsFiniteSet(1 .. m) /\ Cardinality(1 .. m) = IF 1 > m THEN 0 ELSE m - 1 + 1
    BY FS_Interval
  <2>4. Cardinality(1 .. n) = Cardinality(1 .. m)
    BY <2>1, <2>2, FS_Bijection
  <2> QED BY <2>2, <2>3, <2>4
<1>6. /\ \A a \in 1 .. n : p[a] \in 1 .. n
      /\ \A a, b \in 1 .. n : p[a] = p[b] => a = b
      /\ \A b \in 1 .. n : \E a \in 1 .. n : p[a] = b
  <2>1. PICK N : N = 1 .. n
    OBVIOUS
  <2>2. p \in Bijection(N, N)
    BY <1>4, <1>5, <2>1
  <2>3. /\ p \in [N -> N]
        /\ \A a, b \in N : p[a] = p[b] => a = b
        /\ \A b \in N : \E a \in N : p[a] = b
    BY <2>2, BijectionIs
  <2>4. \A a \in N : p[a] \in N
    BY <2>3
  <2> QED BY <2>1, <2>3, <2>4
<1>7. PICK q : q = [k \in 1 .. n + l |-> IF k <= n THEN p[k] ELSE k]
  OBVIOUS
<1>8. \A k \in 1 .. n + l : (k \in 1 .. n /\ k <= n) \/ (k \in n + 1 .. n + l /\ ~(k <= n))
  OBVIOUS
<1>9. \A k \in 1 .. n : k <= n /\ k \in 1 .. n + l /\ k \notin n + 1 .. n + l
  OBVIOUS
<1>10. \A k \in n + 1 .. n + l : ~(k <= n) /\ k \in 1 .. n + l /\ k \notin 1 .. n
  OBVIOUS
<1>11. (\A k \in 1 .. n : q[k] = p[k]) /\ (\A k \in n + 1 .. n + l : q[k] = k) /\ DOMAIN q = 1 .. n + l
  BY <1>7, <1>9, <1>10
<1>12. q \in [1 .. n + l -> 1 .. n + l]
  <2>1. \A k \in 1 .. n + l : (IF k <= n THEN p[k] ELSE k) \in 1 .. n + l
    BY <1>6, <1>8, <1>9
  <2> QED BY <1>7, <2>1
<1>13. ASSUME NEW a \in 1 .. n + l, NEW b \in 1 .. n + l, q[a] = q[b] PROVE a = b
  <2>1. CASE a \in 1 .. n /\ b \in 1 .. n
    BY <1>6, <1>11, <1>13, <2>1
  <2>2. CASE a \in n + 1 .. n + l /\ b \in n + 1 .. n + l
    BY <1>11, <1>13, <2>2
  <2>3. CASE a \in 1 .. n /\ b \in n + 1 .. n + l
    <3>1. q[a] \in 1 .. n /\ q[b] = b
      BY <1>6, <1>11, <2>3
    <3> QED BY <1>10, <1>13, <2>3, <3>1
  <2>4. CASE a \in n + 1 .. n + l /\ b \in 1 .. n
    <3>1. q[b] \in 1 .. n /\ q[a] = a
      BY <1>6, <1>11, <2>4
    <3> QED BY <1>10, <1>13, <2>4, <3>1
  <2> QED BY <1>8, <2>1, <2>2, <2>3, <2>4
<1>14. ASSUME NEW c \in 1 .. n + l PROVE \E a \in 1 .. n + l : q[a] = c
  <2>1. CASE c \in 1 .. n
    <3>1. PICK a \in 1 .. n : p[a] = c
      BY <1>6, <2>1
    <3> QED BY <1>9, <1>11, <3>1
  <2>2. CASE c \in n + 1 .. n + l
    BY <1>11, <2>2
  <2> QED BY <1>8, <2>1, <2>2
<1>15. q \in Bijection(1 .. n + l, 1 .. n + l)
  <2>1. PICK N : N = 1 .. n + l
    OBVIOUS
  <2>2. q \in [N -> N]
    BY <1>12, <2>1
  <2>3. \A a, b \in N : q[a] = q[b] => a = b
    BY <1>13, <2>1
  <2>4. \A b \in N : \E a \in N : q[a] = b
    BY <1>14, <2>1
  <2>5. q \in Bijection(N, N)
    BY <2>2, <2>3, <2>4, BijectionIs
  <2> QED BY <2>1, <2>5
<1>16. PICK v, w : v = s \o u /\ w = t \o u
  OBVIOUS
<1>17. /\ DOMAIN v = 1 .. n + l /\ \A k \in 1 .. n : v[k] = s[k]
       /\ \A k \in n + 1 .. n + l : v[k] = u[k - n]
  BY <1>1, <1>3, <1>16
<1>18. /\ DOMAIN w = 1 .. n + l /\ \A k \in 1 .. n : w[k] = t[k]
       /\ \A k \in n + 1 .. n + l : w[k] = u[k - n]
  BY <1>2, <1>3, <1>5, <1>16
<1>19. ASSUME NEW k \in 1 .. n + l PROVE v[k] = w[q[k]]
  <2>1. CASE k \in 1 .. n
    <3>1. PICK j \in 1 .. n : j = p[k] /\ q[k] = j
      BY <1>6, <1>11, <2>1
    <3>2. v[k] = s[k] /\ s[k] = t[j]
      BY <1>4, <1>17, <2>1, <3>1
    <3>3. w[j] = t[j]
      BY <1>18, <3>1
    <3> QED BY <3>1, <3>2, <3>3
  <2>2. CASE k \in n + 1 .. n + l
    BY <1>11, <1>17, <1>18, <2>2
  <2> QED BY <1>8, <2>1, <2>2
<1>20. q \in Bijection(DOMAIN v, DOMAIN w) /\ \A k \in DOMAIN v : v[k] = w[q[k]]
  BY <1>15, <1>17, <1>18, <1>19
<1>21. Rearranged(v, w)
  BY <1>20 DEF Rearranged
<1> QED BY <1>16, <1>21

-----------------------------------------------------------------------------
(* What the calls ask of the entries.                                      *)
Calls == {"dedup", "sorted"}

ModeAfter(calls, i) ==
  IF i = 0 THEN "Append" ELSE IF \E j \in 1 .. i : calls[j] = "dedup" THEN "Dedup" ELSE "Sorted"

LEMMA ModeIs ==
  ASSUME NEW calls \in Seq(Calls)
  PROVE  /\ calls = <<>> => Mode(calls) = "Append"
         /\ calls # <<>> /\ "dedup" \in ToSet(calls) => Mode(calls) = "Dedup"
         /\ calls # <<>> /\ "dedup" \notin ToSet(calls) => Mode(calls) = "Sorted"
<1>1. PICK n \in Nat : n = Len(calls) /\ DOMAIN calls = 1 .. n
  OBVIOUS
<1> DEFINE Next1(i, m) == IF calls[i] = "dedup" THEN "Dedup" ELSE IF m = "Append" THEN "Sorted" ELSE m
           X == {"Append", "Dedup", "Sorted"}
           step == [z \in (1 .. n) \X X |-> Next1(z[1], z[2])]
<1>2. step \in [(1 .. n) \X X -> X]
  OBVIOUS
<1>3. \A i \in 1 .. n, m \in X : step[<<i, m>>] = Next1(i, m)
  OBVIOUS
<1> HIDE DEF step
<1>4. PICK f \in [0 .. n -> X] : f[0] = "Append" /\ \A i \in 1 .. n : f[i] = step[<<i, f[i - 1]>>]
  <2>1. "Append" \in X
    OBVIOUS
  <2> HIDE DEF X
  <2>2. PICK f \in [0 .. n -> X] : IsStepwise(f, "Append", n, step)
    BY <1>2, <2>1, Stepwise
  <2> QED BY <2>2 DEF IsStepwise
<1>5. \A i \in 1 .. n : f[i] = Next1(i, f[i - 1])
  <2> TAKE i \in 1 .. n
  <2>1. i - 1 \in 0 .. n
    OBVIOUS
  <2>2. f[i - 1] \in X
    BY <1>4, <2>1
  <2> HIDE DEF Next1, X
  <2> QED BY <1>3, <1>4, <2>2
<1>6. f = [i \in 0 .. n |-> IF i = 0 THEN "Append" ELSE Next1(i, f[i - 1])]
  <2> HIDE DEF Next1, X
  <2> QED BY <1>4, <1>5
<1>7. PICK g : /\ Mode(calls) = g[n]
               /\ g = [i \in 0 .. n |-> IF i = 0 THEN "Append" ELSE Next1(i, g[i - 1])]
  <2> DEFINE g == CHOOSE mode : mode = [i \in 0 .. n |-> IF i = 0 THEN "Append" ELSE Next1(i, mode[i - 1])]
  <2>1. g = [i \in 0 .. n |-> IF i = 0 THEN "Append" ELSE Next1(i, g[i - 1])]
    <3> HIDE DEF Next1, X
    <3> QED BY <1>6
  <2>2. Mode(calls) = g[n]
    BY <1>1 DEF Mode
  <2> HIDE DEF g
  <2> QED BY <2>1, <2>2
<1>8. \A i \in 0 .. n : g[i] = ModeAfter(calls, i)
  <2> DEFINE T == {i \in Nat : i <= n => g[i] = ModeAfter(calls, i)}
  <2>1. 0 \in T
    BY <1>7 DEF ModeAfter
  <2>2. ASSUME NEW i \in Nat, i \in T PROVE i + 1 \in T
    <3> SUFFICES ASSUME i + 1 <= n PROVE g[i + 1] = ModeAfter(calls, i + 1)
      OBVIOUS
    <3>1. g[i] = ModeAfter(calls, i) /\ i + 1 \in 0 .. n /\ i + 1 # 0 /\ i + 1 - 1 = i
      BY <2>2
    <3>2. g[i + 1] = Next1(i + 1, g[i])
      <4> HIDE DEF Next1
      <4> QED BY <1>7, <3>1
    <3>3. \A j \in 1 .. i + 1 : j \in 1 .. i \/ j = i + 1
      OBVIOUS
    <3>4. i + 1 \in 1 .. i + 1 /\ \A j \in 1 .. i : j \in 1 .. i + 1
      OBVIOUS
    <3>5. CASE calls[i + 1] = "dedup"
      BY <3>1, <3>2, <3>4, <3>5 DEF ModeAfter
    <3>6. CASE calls[i + 1] # "dedup" /\ \E j \in 1 .. i : calls[j] = "dedup"
      <4>1. i # 0
        BY <3>6
      <4> QED BY <3>1, <3>2, <3>4, <3>6, <4>1 DEF ModeAfter
    <3>7. CASE calls[i + 1] # "dedup" /\ ~\E j \in 1 .. i : calls[j] = "dedup"
      <4>1. ~\E j \in 1 .. i + 1 : calls[j] = "dedup"
        BY <3>3, <3>7
      <4> QED BY <3>1, <3>2, <3>7, <4>1 DEF ModeAfter
    <3> QED BY <3>5, <3>6, <3>7
  <2>3. Nat \subseteq T
    <3> HIDE DEF T
    <3> QED BY <2>1, <2>2, Induct
  <2> QED BY <2>3
<1>9. Mode(calls) = ModeAfter(calls, n)
  BY <1>7, <1>8
<1>10. calls = <<>> <=> n = 0
  BY <1>1
<1>11. "dedup" \in ToSet(calls) <=> \E j \in 1 .. n : calls[j] = "dedup"
  BY <1>1 DEF ToSet
<1> QED BY <1>9, <1>10, <1>11 DEF ModeAfter

Holds(calls, has, given) ==
  /\ calls = <<>> => has = given
  /\ calls # <<>> /\ "dedup" \in ToSet(calls) => ToSet(has) = ToSet(given)
  /\ calls # <<>> /\ "dedup" \notin ToSet(calls) => Rearranged(has, given)

LEMMA HoldsWhen ==
  ASSUME NEW calls, NEW has, NEW given, HasThem(calls, has, given) \/ has = given
  PROVE  Holds(calls, has, given)
<1>1. CASE has = given
  BY <1>1, RearrangedSame DEF Holds
<1>2. CASE HasThem(calls, has, given)
  <2>1. ToSet(<<>>) = {}
    BY DEF ToSet
  <2> QED BY <1>2, <2>1 DEF Holds, HasThem
<1> QED BY <1>1, <1>2

LEMMA ToSetJoined ==
  ASSUME NEW X, NEW s \in Seq(X), NEW t \in Seq(X)
  PROVE  ToSet(s \o t) = ToSet(s) \cup ToSet(t)
<1>1. PICK n \in Nat : n = Len(s) /\ DOMAIN s = 1 .. n
  OBVIOUS
<1>2. PICK m \in Nat : m = Len(t) /\ DOMAIN t = 1 .. m
  OBVIOUS
<1>3. PICK u : u = s \o t
  OBVIOUS
<1>4. DOMAIN u = 1 .. n + m /\ (\A k \in 1 .. n : u[k] = s[k]) /\ (\A k \in n + 1 .. n + m : u[k] = t[k - n])
  BY <1>1, <1>2, <1>3
<1>5. ASSUME NEW x \in ToSet(u) PROVE x \in ToSet(s) \cup ToSet(t)
  <2>1. PICK k \in 1 .. n + m : x = u[k]
    BY <1>4, <1>5 DEF ToSet
  <2>2. CASE k \in 1 .. n
    BY <1>1, <1>4, <2>1, <2>2 DEF ToSet
  <2>3. CASE k \in n + 1 .. n + m
    <3>1. PICK j \in 1 .. m : j = k - n
      BY <2>3
    <3>2. x = t[j]
      BY <1>4, <2>1, <2>3, <3>1
    <3> QED BY <1>2, <3>1, <3>2 DEF ToSet
  <2> QED BY <2>1, <2>2, <2>3
<1>6. ASSUME NEW x \in ToSet(s) PROVE x \in ToSet(u)
  <2>1. PICK k \in 1 .. n : x = s[k]
    BY <1>1, <1>6 DEF ToSet
  <2>2. k \in 1 .. n + m
    BY <2>1
  <2> QED BY <1>4, <2>1, <2>2 DEF ToSet
<1>7. ASSUME NEW x \in ToSet(t) PROVE x \in ToSet(u)
  <2>1. PICK k \in 1 .. m : x = t[k]
    BY <1>2, <1>7 DEF ToSet
  <2>2. PICK j \in n + 1 .. n + m : j = k + n /\ j - n = k
    <3>1. k + n \in n + 1 .. n + m /\ k + n - n = k
      BY <2>1
    <3> QED BY <3>1
  <2>3. u[j] = t[k] /\ j \in 1 .. n + m
    BY <1>4, <2>2
  <2> QED BY <1>4, <2>1, <2>3 DEF ToSet
<1> QED BY <1>3, <1>5, <1>6, <1>7

IsMerged(calls, merged, has, given, more) ==
  /\ HasThem(calls, merged, given \o more)
  /\ Len(merged) <= Len(has) + Len(more)
  /\ merged \in Seq(Documents) /\ (calls # <<>> => merged \in Seq(Scalars))

LEMMA ScalarSeq ==
  Seq(Scalars) \subseteq Seq(Documents)
<1>1. Scalars \subseteq Documents
  BY ScalarIs DEF Scalars
<1> QED BY <1>1

LEMMA MergeThem ==
  ASSUME NEW calls \in Seq(Calls), NEW has \in Seq(Documents), NEW given \in Seq(Documents), NEW more \in Seq(Documents),
         calls # <<>> => has \in Seq(Scalars) /\ more \in Seq(Scalars), Holds(calls, has, given)
  PROVE  IsMerged(calls, Merge(calls, has \o more), has, given, more)
<1>1. PICK items : items = has \o more
  OBVIOUS
<1>2. items \in Seq(Documents) /\ Len(items) = Len(has) + Len(more) /\ Len(has) + Len(more) \in Nat
  BY <1>1
<1>3. calls # <<>> => items \in Seq(Scalars)
  BY <1>1
<1>4. PICK merged : merged = Merge(calls, items)
  OBVIOUS
<1>5. CASE calls = <<>>
  <2>1. merged = items
    BY <1>4, <1>5, ModeIs DEF Merge
  <2>2. has = given /\ "dedup" \notin ToSet(calls)
    BY <1>5 DEF Holds, ToSet
  <2>3. HasThem(calls, merged, given \o more)
    BY <1>1, <1>5, <2>1, <2>2 DEF HasThem
  <2>4. IsMerged(calls, merged, has, given, more)
    BY <1>2, <1>5, <2>1, <2>3 DEF IsMerged
  <2> QED BY <1>1, <1>4, <2>4
<1>6. CASE calls # <<>> /\ "dedup" \in ToSet(calls)
  <2>1. merged = Unique(items)
    <3>1. Mode(calls) = "Dedup"
      BY <1>6, ModeIs
    <3> QED BY <1>4, <3>1 DEF Merge
  <2>2. IsUnique(merged, items)
    BY <1>3, <1>6, <2>1, UniqueIs
  <2>3. ToSet(items) = ToSet(given \o more)
    <3>1. ToSet(has) = ToSet(given)
      BY <1>6 DEF Holds
    <3>2. ToSet(has \o more) = ToSet(has) \cup ToSet(more)
      BY ToSetJoined
    <3>3. ToSet(given \o more) = ToSet(given) \cup ToSet(more)
      BY ToSetJoined
    <3> QED BY <1>1, <3>1, <3>2, <3>3
  <2>4. HasThem(calls, merged, given \o more)
    BY <1>6, <2>2, <2>3 DEF HasThem, IsUnique
  <2>5. Len(merged) <= Len(items) /\ merged \in Seq(Scalars)
    BY <2>2 DEF IsUnique
  <2>6. IsMerged(calls, merged, has, given, more)
    BY <1>2, <2>4, <2>5, ScalarSeq DEF IsMerged
  <2> QED BY <1>1, <1>4, <2>6
<1>7. CASE calls # <<>> /\ "dedup" \notin ToSet(calls)
  <2>1. merged = Sorted(items)
    <3>1. Mode(calls) = "Sorted"
      BY <1>7, ModeIs
    <3> QED BY <1>4, <3>1 DEF Merge
  <2>2. IsInOrder(merged, items)
    BY <1>3, <1>7, <2>1, SortedIs
  <2>3. Rearranged(merged, items) /\ merged \in Seq(Scalars) /\ Len(merged) = Len(items)
        /\ \A k \in 1 .. Len(merged) - 1 : ~Precedes(merged[k + 1], merged[k])
    BY <2>2 DEF IsInOrder
  <2>4. Rearranged(items, given \o more)
    <3>1. Rearranged(has, given)
      BY <1>7 DEF Holds
    <3>2. Rearranged(has \o more, given \o more)
      BY <3>1, RearrangedMore
    <3> QED BY <1>1, <3>2
  <2>5. Rearranged(merged, given \o more)
    BY <2>3, <2>4, RearrangedOn
  <2>6. HasThem(calls, merged, given \o more)
    BY <1>7, <2>3, <2>5 DEF HasThem
  <2>7. IsMerged(calls, merged, has, given, more)
    BY <1>2, <2>3, <2>6, ScalarSeq DEF IsMerged
  <2> QED BY <1>1, <1>4, <2>7
<1> QED BY <1>5, <1>6, <1>7

-----------------------------------------------------------------------------
(* The entries of all the payloads.                                        *)
IsGathered(f, attr, payloads, n) ==
  /\ f \in [0 .. n -> Seq(Documents)] /\ f[0] = <<>>
  /\ \A i \in 1 .. n : f[i] = f[i - 1] \o Entries(payloads[i], attr.path)
  /\ AllEntries(attr, payloads) = f[n]

LEMMA AllAre ==
  ASSUME NEW attr, attr.path \in Seq(Steps), NEW payloads \in Seq(Documents), NEW n \in Nat, n = Len(payloads)
  PROVE  \E f : IsGathered(f, attr, payloads, n)
<1> DEFINE X == Seq(Documents)
           more == [i \in 1 .. n |-> Entries(payloads[i], attr.path)]
           step == [z \in (1 .. n) \X X |-> z[2] \o more[z[1]]]
<1>1. \A i \in 1 .. n : more[i] \in X /\ more[i] = Entries(payloads[i], attr.path)
  <2> TAKE i \in 1 .. n
  <2>1. payloads[i] \in Documents
    OBVIOUS
  <2>2. IsDocument(payloads[i])
    BY <2>1, DocumentIs
  <2>3. Entries(payloads[i], attr.path) \in Seq(Documents)
    BY <2>2, EntriesAre
  <2> QED BY <2>3
<1> HIDE DEF more
<1>2. step \in [(1 .. n) \X X -> X]
  BY <1>1
<1>3. \A i \in 1 .. n, s \in X : step[<<i, s>>] = s \o more[i]
  OBVIOUS
<1>4. <<>> \in X
  OBVIOUS
<1> HIDE DEF step, X
<1>5. PICK f \in [0 .. n -> X] : f[0] = <<>> /\ \A i \in 1 .. n : f[i] = step[<<i, f[i - 1]>>]
  <2>1. PICK f \in [0 .. n -> X] : IsStepwise(f, <<>>, n, step)
    BY <1>2, <1>4, Stepwise
  <2> QED BY <2>1 DEF IsStepwise
<1>6. \A i \in 1 .. n : f[i] = f[i - 1] \o Entries(payloads[i], attr.path)
  <2> TAKE i \in 1 .. n
  <2>1. i - 1 \in 0 .. n
    OBVIOUS
  <2>2. f[i - 1] \in X
    BY <1>5, <2>1
  <2> QED BY <1>1, <1>3, <1>5, <2>2
<1>7. f = [i \in 0 .. n |-> IF i = 0 THEN <<>> ELSE f[i - 1] \o Entries(payloads[i], attr.path)]
  <2>1. \A i \in 0 .. n : i = 0 \/ i \in 1 .. n
    OBVIOUS
  <2>2. \A i \in 0 .. n : f[i] = IF i = 0 THEN <<>> ELSE f[i - 1] \o Entries(payloads[i], attr.path)
    BY <1>5, <1>6, <2>1
  <2>3. f = [i \in 0 .. n |-> f[i]]
    BY <1>5
  <2> QED BY <2>2, <2>3
<1>8. PICK g : /\ AllEntries(attr, payloads) = g[n]
               /\ g = [i \in 0 .. n |-> IF i = 0 THEN <<>> ELSE g[i - 1] \o Entries(payloads[i], attr.path)]
  <2> DEFINE g == CHOOSE all : all = [i \in 0 .. n |-> IF i = 0 THEN <<>> ELSE all[i - 1] \o Entries(payloads[i], attr.path)]
  <2>1. g = [i \in 0 .. n |-> IF i = 0 THEN <<>> ELSE g[i - 1] \o Entries(payloads[i], attr.path)]
    BY <1>7
  <2>2. AllEntries(attr, payloads) = g[n]
    BY DEF AllEntries
  <2> HIDE DEF g
  <2> QED BY <2>1, <2>2
<1>9. \A i \in 0 .. n : f[i] = g[i]
  <2> DEFINE T == {i \in Nat : i <= n => f[i] = g[i]}
  <2>1. 0 \in T
    BY <1>5, <1>8
  <2>2. ASSUME NEW i \in Nat, i \in T PROVE i + 1 \in T
    <3> SUFFICES ASSUME i + 1 <= n PROVE f[i + 1] = g[i + 1]
      OBVIOUS
    <3>1. f[i] = g[i] /\ i + 1 \in 1 .. n /\ i + 1 # 0 /\ i + 1 - 1 = i
      BY <2>2
    <3>2. f[i + 1] = f[i] \o Entries(payloads[i + 1], attr.path)
      BY <1>6, <3>1
    <3>3. g[i + 1] = g[i] \o Entries(payloads[i + 1], attr.path)
      BY <1>8, <3>1
    <3> QED BY <3>1, <3>2, <3>3
  <2>3. Nat \subseteq T
    <3> HIDE DEF T
    <3> QED BY <2>1, <2>2, Induct
  <2> QED BY <2>3
<1>10. f[n] = g[n]
  BY <1>9
<1>11. f \in [0 .. n -> Seq(Documents)]
  BY <1>5 DEF X
<1>12. IsGathered(f, attr, payloads, n)
  BY <1>5, <1>6, <1>8, <1>10, <1>11 DEF IsGathered
<1> QED BY <1>12

LEMMA AllMore ==
  ASSUME NEW attr, attr.path \in Seq(Steps), NEW payloads \in Seq(Documents), NEW payload \in Documents
  PROVE  /\ AllEntries(attr, payloads) \in Seq(Documents)
         /\ AllEntries(attr, Append(payloads, payload)) = AllEntries(attr, payloads) \o Entries(payload, attr.path)
<1>1. PICK n \in Nat : n = Len(payloads)
  OBVIOUS
<1>2. PICK longer \in Seq(Documents) : /\ longer = Append(payloads, payload) /\ Len(longer) = n + 1
                                       /\ longer[n + 1] = payload /\ \A i \in 1 .. n : longer[i] = payloads[i]
  <2>1. /\ Append(payloads, payload) \in Seq(Documents) /\ Len(Append(payloads, payload)) = n + 1
        /\ \A i \in 1 .. n : Append(payloads, payload)[i] = payloads[i]
        /\ Append(payloads, payload)[n + 1] = payload
    BY <1>1, Appended
  <2> QED BY <2>1
<1>3. PICK f : IsGathered(f, attr, payloads, n)
  BY <1>1, AllAre
<1>4. PICK g : IsGathered(g, attr, longer, n + 1)
  <2>1. n + 1 \in Nat
    OBVIOUS
  <2> QED BY <1>2, <2>1, AllAre
<1>9. \A i \in 1 .. n : f[i] = f[i - 1] \o Entries(payloads[i], attr.path)
  BY <1>3 DEF IsGathered
<1>10. \A i \in 1 .. n + 1 : g[i] = g[i - 1] \o Entries(longer[i], attr.path)
  BY <1>4 DEF IsGathered
<1>5. \A i \in 0 .. n : f[i] = g[i]
  <2> DEFINE T == {i \in Nat : i <= n => f[i] = g[i]}
  <2>1. 0 \in T
    BY <1>3, <1>4 DEF IsGathered
  <2>2. ASSUME NEW i \in Nat, i \in T PROVE i + 1 \in T
    <3> SUFFICES ASSUME i + 1 <= n PROVE f[i + 1] = g[i + 1]
      OBVIOUS
    <3>1. f[i] = g[i] /\ i + 1 \in 1 .. n /\ i + 1 \in 1 .. n + 1 /\ i + 1 - 1 = i
      BY <2>2
    <3>2. f[i + 1] = f[i] \o Entries(payloads[i + 1], attr.path)
      <4>1. PICK j \in 1 .. n : j = i + 1 /\ j - 1 = i
        BY <3>1
      <4>2. f[j] = f[j - 1] \o Entries(payloads[j], attr.path)
        BY <1>9
      <4> QED BY <4>1, <4>2
    <3>3. g[i + 1] = g[i] \o Entries(longer[i + 1], attr.path)
      <4>1. PICK j \in 1 .. n + 1 : j = i + 1 /\ j - 1 = i
        BY <3>1
      <4>2. g[j] = g[j - 1] \o Entries(longer[j], attr.path)
        BY <1>10
      <4> QED BY <4>1, <4>2
    <3>4. longer[i + 1] = payloads[i + 1]
      BY <1>2, <3>1
    <3> QED BY <3>1, <3>2, <3>3, <3>4
  <2>3. Nat \subseteq T
    <3> HIDE DEF T
    <3> QED BY <2>1, <2>2, Induct
  <2> QED BY <2>3
<1>6. f[n] = g[n] /\ f[n] \in Seq(Documents)
  BY <1>3, <1>5 DEF IsGathered
<1>7. g[n + 1] = g[n] \o Entries(payload, attr.path)
  <2>1. n + 1 \in 1 .. n + 1 /\ n + 1 - 1 = n
    OBVIOUS
  <2>2. PICK j \in 1 .. n + 1 : j = n + 1 /\ j - 1 = n
    BY <2>1
  <2>3. g[j] = g[j - 1] \o Entries(longer[j], attr.path)
    BY <1>10
  <2> QED BY <1>2, <2>2, <2>3
<1>8. AllEntries(attr, payloads) = f[n] /\ AllEntries(attr, longer) = g[n + 1]
  BY <1>3, <1>4 DEF IsGathered
<1> QED BY <1>2, <1>6, <1>7, <1>8

LEMMA AllOfOne ==
  ASSUME NEW attr, attr.path \in Seq(Steps), NEW payload \in Documents
  PROVE  AllEntries(attr, <<payload>>) = Entries(payload, attr.path)
<1>1. PICK s \in Seq(Documents) : s = <<>>
  <2>1. <<>> \in Seq(Documents)
    OBVIOUS
  <2> QED BY <2>1
<1>2. AllEntries(attr, s) = <<>>
  <2>1. PICK n \in Nat : n = Len(s) /\ n = 0
    BY <1>1
  <2>2. PICK f : IsGathered(f, attr, s, n)
    BY <2>1, AllAre
  <2> QED BY <2>1, <2>2 DEF IsGathered
<1>3. Append(s, payload) = <<payload>>
  BY <1>1
<1>4. AllEntries(attr, Append(s, payload)) = AllEntries(attr, s) \o Entries(payload, attr.path)
  BY AllMore
<1>5. PICK e \in Seq(Documents) : e = Entries(payload, attr.path)
  <2>1. IsDocument(payload)
    BY DocumentIs
  <2> QED BY <2>1, EntriesAre
<1>6. <<>> \o e = e
  OBVIOUS
<1> QED BY <1>2, <1>3, <1>4, <1>5, <1>6

-----------------------------------------------------------------------------
(* A fold.                                                                 *)
LEMMA OutsideIs ==
  ASSUME NEW p, IsDocument(p), NEW q, IsDocument(q), NEW r \in Seq(Steps)
  PROVE  AgreeOutside(<<r>>, p, q) <=> \A x \in Seq(Steps) : ~IsPrefix(r, x) => Seen(p, x) = Seen(q, x)
<1>1. DOMAIN p \subseteq Seq(Steps)
  BY DocumentParts
<1>2. DOMAIN q \subseteq Seq(Steps)
  BY DocumentParts
<1>3. \A x : (\A i \in DOMAIN <<r>> : ~IsPrefix(<<r>>[i], x)) <=> ~IsPrefix(r, x)
  OBVIOUS
<1>4. AgreeOutside(<<r>>, p, q) <=> \A x \in DOMAIN p \cup DOMAIN q : ~IsPrefix(r, x) => Seen(p, x) = Seen(q, x)
  BY <1>3 DEF AgreeOutside
<1>5. \A x : x \notin DOMAIN p \cup DOMAIN q => Seen(p, x) = Seen(q, x)
  BY NotSeen
<1> QED BY <1>1, <1>2, <1>4, <1>5

IsBatchSpec(attr) ==
  /\ attr.path \in Seq(Steps) /\ attr.limit \in Nat /\ attr.calls \in Seq(Calls)
  /\ IsAttribute(BatchKey(attr))
  /\ attr.key.selects \in {"all", "only", "except"} /\ attr.key.paths \in Seq(Seq(Steps))

LEMMA BatchKeyIs ==
  ASSUME NEW attr \in BatchSpecs, NEW r, NEW paths, NEW selects,
         r = attr.path, paths = attr.key.paths, selects = attr.key.selects
  PROVE  /\ selects \in {"all", "only", "except"} /\ paths \in Seq(Seq(Steps))
         /\ BatchKey(attr).selects = (IF selects = "only" THEN "only" ELSE "except")
         /\ selects = "all" => BatchKey(attr).paths = <<r>>
         /\ selects = "only" => BatchKey(attr).paths = paths
         /\ selects = "except" => BatchKey(attr).paths = <<r>> \o paths
<1>1. PICK key : key = attr.key
  OBVIOUS
<1>2. key \in [selects : {"all", "only", "except"}, paths : Seq(Seq(Steps)), prefix : BOOLEAN, scope : OptionOf(Scopes)]
  BY <1>1, BatchSpecsAssumption
<1>3. /\ selects = key.selects /\ paths = key.paths
      /\ selects \in {"all", "only", "except"} /\ paths \in Seq(Seq(Steps))
  BY <1>1, <1>2
<1>4. CASE selects = "all"
  <2>1. BatchKey(attr) = [key EXCEPT !.selects = "except", !.paths = <<r>>]
    BY <1>1, <1>4 DEF BatchKey
  <2>2. BatchKey(attr).selects = "except" /\ BatchKey(attr).paths = <<r>>
    BY <1>2, <2>1
  <2> QED BY <1>3, <1>4, <2>2
<1>5. CASE selects = "except"
  <2>1. BatchKey(attr) = [key EXCEPT !.paths = <<r>> \o paths]
    BY <1>1, <1>3, <1>5 DEF BatchKey
  <2>2. BatchKey(attr).selects = "except" /\ BatchKey(attr).paths = <<r>> \o paths
    BY <1>2, <1>3, <1>5, <2>1
  <2> QED BY <1>3, <1>5, <2>2
<1>6. CASE selects = "only"
  <2>1. BatchKey(attr) = key
    BY <1>1, <1>6 DEF BatchKey
  <2> QED BY <1>3, <1>6, <2>1
<1> QED BY <1>3, <1>4, <1>5, <1>6

LEMMA BatchSpecIs ==
  ASSUME NEW attr \in BatchSpecs
  PROVE  IsBatchSpec(attr)
<1>1. attr.path \in Seq(Steps) /\ attr.limit \in Nat /\ attr.calls \in Seq(Calls)
  BY BatchSpecsAssumption DEF Calls
<1>2. PICK r, paths, selects :
        r \in Seq(Steps) /\ r = attr.path /\ paths = attr.key.paths /\ selects = attr.key.selects
  BY <1>1
<1>3. /\ selects \in {"all", "only", "except"} /\ paths \in Seq(Seq(Steps))
      /\ BatchKey(attr).selects = (IF selects = "only" THEN "only" ELSE "except")
      /\ selects = "all" => BatchKey(attr).paths = <<r>>
      /\ selects = "only" => BatchKey(attr).paths = paths
      /\ selects = "except" => BatchKey(attr).paths = <<r>> \o paths
  BY <1>2, BatchKeyIs
<1>4. <<r>> \in Seq(Seq(Steps)) /\ <<r>> \o paths \in Seq(Seq(Steps))
  <2>1. <<r>> \in Seq(Seq(Steps))
    BY <1>2
  <2> QED BY <1>3, <2>1
<1>5. BatchKey(attr).paths \in Seq(Seq(Steps))
  BY <1>3, <1>4
<1>6. IsAttribute(BatchKey(attr))
  BY <1>3, <1>5 DEF IsAttribute
<1> QED BY <1>1, <1>2, <1>3, <1>6 DEF IsBatchSpec

(* What the fold leaves in the place of the list.                          *)
IsFolded(attr, result, existing, new, given) ==
  /\ IsDocument(result) /\ IsBatchable(attr, result)
  /\ \A x \in Seq(Steps) : ~IsPrefix(attr.path, x) => Seen(existing, x) = Seen(result, x)
  /\ HasThem(attr.calls, Entries(result, attr.path), given \o Entries(new, attr.path))
  /\ Len(Entries(result, attr.path)) <= Len(Entries(existing, attr.path)) + Len(Entries(new, attr.path))

LEMMA FoldIs ==
  ASSUME NEW attr, IsBatchSpec(attr), NEW existing, IsDocument(existing), IsBatchable(attr, existing),
         NEW new, IsDocument(new), IsBatchable(attr, new), CanFold(attr, existing, new),
         NEW given \in Seq(Documents), Holds(attr.calls, Entries(existing, attr.path), given)
  PROVE  IsFolded(attr, Fold(attr, existing, new), existing, new, given)
<1>1. PICK r \in Seq(Steps), calls \in Seq(Calls) : r = attr.path /\ calls = attr.calls
  BY DEF IsBatchSpec
<1>2. PICK has \in Seq(Documents), more \in Seq(Documents) : has = Entries(existing, r) /\ more = Entries(new, r)
  BY <1>1, EntriesAre
<1>3. calls # <<>> => has \in Seq(Scalars) /\ more \in Seq(Scalars)
  <2>1. attr.path \in Seq(Steps)
    BY <1>1
  <2> QED BY <1>1, <1>2, <2>1, ScalarEntries
<1>4. PICK result : result = Fold(attr, existing, new)
  OBVIOUS
<1>5. CASE HasList(existing, r) \/ HasList(new, r)
  <2>1. PICK merged : merged = Merge(calls, has \o more)
    OBVIOUS
  <2>2. IsMerged(calls, merged, has, given, more)
    BY <1>1, <1>2, <1>3, <2>1, MergeThem
  <2>3. merged \in Seq(Documents) /\ (calls # <<>> => merged \in Seq(Scalars))
    BY <2>2 DEF IsMerged
  <2>4. IsDocument(Array(merged))
    BY <2>3, ArrayDocument
  <2>5. result = IF r = <<>> THEN Array(merged) ELSE SetPath(existing, r, Array(merged))
    BY <1>1, <1>2, <1>4, <1>5, <2>1 DEF Fold
  <2>6. IsPlaced(result, existing, r, Array(merged))
    BY <1>1, <2>4, <2>5, FoldPlaced
  <2>7. Entries(result, r) = merged
    BY <1>1, <2>3, <2>6, EntriesThere
  <2>8. IsBatchable(attr, result)
    BY <1>1, <2>3, <2>6, StillBatchable
  <2>9. IsDocument(result) /\ \A x \in Seq(Steps) : ~IsPrefix(r, x) => Seen(existing, x) = Seen(result, x)
    BY <2>6 DEF IsPlaced
  <2>10. HasThem(calls, merged, given \o more) /\ Len(merged) <= Len(has) + Len(more)
    BY <2>2 DEF IsMerged
  <2> QED BY <1>1, <1>2, <1>4, <2>7, <2>8, <2>9, <2>10 DEF IsFolded
<1>6. CASE ~HasList(existing, r) /\ ~HasList(new, r)
  <2>1. calls = <<>>
    <3>1. Mode(calls) = "Append"
      BY <1>1, <1>6 DEF CanFold
    <3> QED BY <1>1, <3>1, ModeIs
  <2>2. r # <<>>
    BY <1>1, <1>6 DEF IsBatchable
  <2>3. has = <<>> /\ more = <<>>
    BY <1>2, <1>6 DEF Entries
  <2>4. result = SetPath(existing, r, Null)
    BY <1>1, <1>4, <1>6, <2>2 DEF Fold
  <2>5. IsDocument(Null)
    BY NullDocument, NullInner DEF Null
  <2>6. IsPlaced(result, existing, r, Null)
    BY <1>1, <2>2, <2>4, <2>5, FoldPlaced
  <2>7. Entries(result, r) = <<>> /\ IsBatchable(attr, result)
    BY <1>1, <2>2, <2>6, NullThere
  <2>8. IsDocument(result) /\ \A x \in Seq(Steps) : ~IsPrefix(r, x) => Seen(existing, x) = Seen(result, x)
    BY <2>6 DEF IsPlaced
  <2>9. given \o more = <<>>
    <3>1. given = <<>>
      BY <1>1, <1>2, <2>1, <2>3 DEF Holds
    <3> QED BY <2>3, <3>1
  <2>10. HasThem(calls, <<>>, given \o more)
    <3>1. ToSet(<<>>) = {}
      BY DEF ToSet
    <3> QED BY <2>1, <2>9, <3>1 DEF HasThem
  <2>11. Len(Entries(result, r)) <= Len(has) + Len(more)
    BY <2>3, <2>7
  <2> QED BY <1>1, <1>2, <1>4, <2>7, <2>8, <2>10, <2>11 DEF IsFolded
<1> QED BY <1>5, <1>6

LEMMA BatchHolds ==
  ASSUME NEW attr, IsBatchSpec(attr), NEW batch, NEW payloads \in Seq(Documents), IsBatchOf(attr, batch, payloads)
  PROVE  Holds(attr.calls, Entries(batch.payload, attr.path), AllEntries(attr, payloads))
<1>1. CASE Len(payloads) > 1
  BY <1>1, HoldsWhen DEF IsBatchOf
<1>2. CASE ~(Len(payloads) > 1)
  <2>1. Len(payloads) = 1
    <3>1. Len(payloads) \in Nat /\ Len(payloads) # 0
      BY DEF IsBatchOf
    <3> QED BY <1>2, <3>1
  <2>2. batch.payload = payloads[1]
    BY <2>1 DEF IsBatchOf
  <2>3. PICK payload \in Documents : payload = payloads[1] /\ payloads = <<payload>>
    <3>1. payloads[1] \in Documents /\ payloads = <<payloads[1]>>
      BY <2>1
    <3> QED BY <3>1
  <2>4. attr.path \in Seq(Steps)
    BY DEF IsBatchSpec
  <2>5. AllEntries(attr, payloads) = Entries(payload, attr.path)
    BY <2>3, <2>4, AllOfOne
  <2> QED BY <2>2, <2>3, <2>5, HoldsWhen
<1> QED BY <1>1, <1>2

LEMMA FoldKeeps ==
  ASSUME NEW attr, IsBatchSpec(attr), NEW batch, IsDocument(batch.payload), NEW payloads \in Seq(Documents),
         IsBatchOf(attr, batch, payloads), NEW payload \in Documents,
         IsBatchable(attr, payload), HasKey(attr, payload, batch.key),
         When(attr, batch.payload, payload), CanFold(attr, batch.payload, payload),
         NEW next, next.key = batch.key, next.payload = Fold(attr, batch.payload, payload)
  PROVE  IsDocument(next.payload) /\ IsBatchOf(attr, next, Append(payloads, payload))
<1>1. PICK r \in Seq(Steps) : r = attr.path
  BY DEF IsBatchSpec
<1>2. PICK given \in Seq(Documents) : given = AllEntries(attr, payloads)
                                      /\ AllEntries(attr, Append(payloads, payload)) = given \o Entries(payload, r)
  BY <1>1, AllMore
<1>3. Holds(attr.calls, Entries(batch.payload, r), given)
  BY <1>1, <1>2, BatchHolds
<1>4. IsDocument(payload)
  BY DocumentIs
<1>5. PICK existing, result : existing = batch.payload /\ result = next.payload
  OBVIOUS
<1>6. IsFolded(attr, result, existing, payload, given)
  <2>1. IsBatchable(attr, existing)
    BY <1>5 DEF IsBatchOf
  <2> QED BY <1>1, <1>3, <1>4, <1>5, <2>1, FoldIs
<1>7. PICK n \in Nat : n = Len(payloads) /\ n # 0
  <2>1. Len(payloads) \in Nat /\ Len(payloads) # 0
    BY DEF IsBatchOf
  <2> QED BY <2>1
<1>8. PICK longer \in Seq(Documents) : /\ longer = Append(payloads, payload) /\ Len(longer) = n + 1
                                       /\ longer[n + 1] = payload /\ \A i \in 1 .. n : longer[i] = payloads[i]
  <2>1. /\ Append(payloads, payload) \in Seq(Documents) /\ Len(Append(payloads, payload)) = n + 1
        /\ \A i \in 1 .. n : Append(payloads, payload)[i] = payloads[i]
        /\ Append(payloads, payload)[n + 1] = payload
    BY <1>7, Appended
  <2> QED BY <2>1
<1>9. longer # <<>> /\ longer[1] = payloads[1] /\ Len(longer) > 1 /\ Len(longer) # 1 /\ DOMAIN longer = 1 .. n + 1
      /\ \A k \in 1 .. n + 1 : k \in 1 .. n \/ k = n + 1
  BY <1>7, <1>8
<1>10. ASSUME NEW k \in DOMAIN longer
       PROVE  IsBatchable(attr, longer[k]) /\ HasKey(attr, longer[k], next.key)
  <2>1. CASE k \in 1 .. n
    <3>1. IsBatchable(attr, payloads[k]) /\ HasKey(attr, payloads[k], batch.key)
      BY <1>7, <2>1 DEF IsBatchOf
    <3> QED BY <1>8, <2>1, <3>1
  <2>2. CASE k = n + 1
    BY <1>8, <2>2
  <2> QED BY <1>9, <2>1, <2>2
<1>11. AgreeOutside(<<r>>, payloads[1], result)
  <2>1. PICK first : first = payloads[1] /\ IsDocument(first)
    <3>1. payloads[1] \in Documents
      BY <1>7
    <3> QED BY <3>1, DocumentIs
  <2>2. AgreeOutside(<<r>>, first, existing)
    BY <1>1, <1>5, <2>1 DEF IsBatchOf
  <2>3. \A x \in Seq(Steps) : ~IsPrefix(r, x) => Seen(first, x) = Seen(existing, x)
    BY <1>5, <2>1, <2>2, OutsideIs
  <2>4. IsDocument(result) /\ \A x \in Seq(Steps) : ~IsPrefix(r, x) => Seen(existing, x) = Seen(result, x)
    BY <1>1, <1>6 DEF IsFolded
  <2>5. \A x \in Seq(Steps) : ~IsPrefix(r, x) => Seen(first, x) = Seen(result, x)
    BY <2>3, <2>4
  <2> QED BY <2>1, <2>4, <2>5, OutsideIs
<1>12. Len(Entries(result, r)) <= attr.limit
  <2>1. PICK e \in Seq(Documents), m \in Seq(Documents), h \in Seq(Documents) :
          e = Entries(existing, r) /\ m = Entries(payload, r) /\ h = Entries(result, r)
    <3>1. IsDocument(existing) /\ IsDocument(result)
      BY <1>5, <1>6 DEF IsFolded
    <3> QED BY <1>4, <3>1, EntriesAre
  <2>2. Len(h) <= Len(e) + Len(m)
    BY <1>1, <1>6, <2>1 DEF IsFolded
  <2>3. Len(e) + Len(m) <= attr.limit
    BY <1>1, <1>5, <2>1 DEF When
  <2>4. Len(e) \in Nat /\ Len(m) \in Nat /\ Len(h) \in Nat /\ attr.limit \in Nat
    BY <2>1 DEF IsBatchSpec
  <2> QED BY <2>1, <2>2, <2>3, <2>4
<1>13. HasThem(attr.calls, Entries(result, r), AllEntries(attr, longer))
  BY <1>1, <1>2, <1>6, <1>8 DEF IsFolded
<1>14. IsDocument(result) /\ IsBatchable(attr, result)
  BY <1>6 DEF IsFolded
<1>15. IsBatchOf(attr, next, longer)
  BY <1>1, <1>5, <1>9, <1>10, <1>11, <1>12, <1>13, <1>14 DEF IsBatchOf
<1> QED BY <1>5, <1>8, <1>14, <1>15

-----------------------------------------------------------------------------
(* The batches of the server.                                              *)
AreBatches(attr, jobs, given) ==
  /\ jobs \in Seq(Batches) /\ given \in Seq(Seq(BatchPayloads)) /\ Len(jobs) = Len(given)
  /\ \A i \in DOMAIN jobs : IsBatchOf(attr, jobs[i], given[i])

LEMMA PayloadsAre ==
  /\ BatchPayloads \subseteq Documents
  /\ \A s \in Seq(BatchPayloads) : s \in Seq(Documents)
<1>1. BatchPayloads \subseteq Documents
  BY BatchPayloadsAssumption, DocumentIs
<1> QED BY <1>1

LEMMA NewBatch ==
  ASSUME NEW attr, NEW batch, NEW payload \in Documents, batch.payload = payload,
         IsBatchable(attr, payload), HasKey(attr, payload, batch.key)
  PROVE  IsBatchOf(attr, batch, <<payload>>)
<1>1. PICK s \in Seq(Documents) : s = <<payload>>
  <2>1. <<payload>> \in Seq(Documents)
    OBVIOUS
  <2> QED BY <2>1
<1>2. s # <<>> /\ Len(s) = 1 /\ ~(Len(s) > 1) /\ s[1] = payload /\ \A k \in DOMAIN s : s[k] = payload
  BY <1>1
<1>3. AgreeOutside(<<attr.path>>, payload, payload)
  BY DEF AgreeOutside
<1>4. \A k \in DOMAIN s : IsBatchable(attr, s[k]) /\ HasKey(attr, s[k], batch.key)
  BY <1>2
<1> QED BY <1>1, <1>2, <1>3, <1>4 DEF IsBatchOf

LEMMA BatchMore ==
  ASSUME NEW attr, NEW jobs, NEW given, AreBatches(attr, jobs, given),
         NEW fresh \in Batches, NEW payload \in BatchPayloads, fresh.payload = payload,
         IsBatchable(attr, payload), HasKey(attr, payload, fresh.key),
         NEW longer, longer = Append(jobs, fresh), NEW more, more = Append(given, <<payload>>)
  PROVE  AreBatches(attr, longer, more)
<1>1. PICK n \in Nat : n = Len(jobs) /\ n = Len(given) /\ DOMAIN jobs = 1 .. n /\ DOMAIN given = 1 .. n
  BY DEF AreBatches
<1>2. jobs \in Seq(Batches) /\ given \in Seq(Seq(BatchPayloads))
  BY DEF AreBatches
<1>3. <<payload>> \in Seq(BatchPayloads)
  OBVIOUS
<1>4. PICK one \in Seq(BatchPayloads) : one = <<payload>>
  BY <1>3
<1>5. longer \in Seq(Batches) /\ Len(longer) = n + 1 /\ longer[n + 1] = fresh /\ \A i \in 1 .. n : longer[i] = jobs[i]
  BY <1>1, <1>2, Appended
<1>6. more = Append(given, one)
  BY <1>4
<1>7. more \in Seq(Seq(BatchPayloads)) /\ Len(more) = n + 1 /\ more[n + 1] = one /\ \A i \in 1 .. n : more[i] = given[i]
  <2>1. PICK S : S = Seq(BatchPayloads)
    OBVIOUS
  <2>2. given \in Seq(S) /\ one \in S
    BY <1>2, <1>4, <2>1
  <2>3. /\ Append(given, one) \in Seq(S) /\ Len(Append(given, one)) = Len(given) + 1
        /\ \A i \in 1 .. Len(given) : Append(given, one)[i] = given[i]
        /\ Append(given, one)[Len(given) + 1] = one
    BY <2>2, Appended
  <2> QED BY <1>1, <1>6, <2>1, <2>3
<1>8. ASSUME NEW i \in DOMAIN longer PROVE IsBatchOf(attr, longer[i], more[i])
  <2>1. CASE i \in 1 .. n
    <3>1. IsBatchOf(attr, jobs[i], given[i])
      BY <1>1, <2>1 DEF AreBatches
    <3> QED BY <1>5, <1>7, <2>1, <3>1
  <2>2. CASE i = n + 1
    <3>1. payload \in Documents
      BY PayloadsAre
    <3>2. IsBatchOf(attr, fresh, <<payload>>)
      BY <3>1, NewBatch
    <3> QED BY <1>4, <1>5, <1>7, <2>2, <3>2
  <2>3. i \in 1 .. n \/ i = n + 1
    BY <1>1, <1>5
  <2> QED BY <2>1, <2>2, <2>3
<1> QED BY <1>1, <1>5, <1>7, <1>8 DEF AreBatches

LEMMA BatchChanged ==
  ASSUME NEW attr, NEW jobs, NEW given, AreBatches(attr, jobs, given), NEW i \in DOMAIN jobs,
         NEW next \in Batches, NEW payloads \in Seq(BatchPayloads), IsBatchOf(attr, next, payloads)
  PROVE  AreBatches(attr, [jobs EXCEPT ![i] = next], [given EXCEPT ![i] = payloads])
<1>1. PICK n \in Nat : n = Len(jobs) /\ n = Len(given) /\ DOMAIN jobs = 1 .. n /\ DOMAIN given = 1 .. n
  BY DEF AreBatches
<1>2. jobs \in Seq(Batches) /\ given \in Seq(Seq(BatchPayloads))
  BY DEF AreBatches
<1>3. PICK later : later = [jobs EXCEPT ![i] = next]
  OBVIOUS
<1>4. later \in Seq(Batches) /\ Len(later) = n /\ DOMAIN later = 1 .. n /\ later[i] = next
      /\ \A k \in 1 .. n : k # i => later[k] = jobs[k]
  BY <1>1, <1>2, <1>3
<1>5. PICK more : more = [given EXCEPT ![i] = payloads]
  OBVIOUS
<1>6. more \in Seq(Seq(BatchPayloads)) /\ Len(more) = n /\ more[i] = payloads
      /\ \A k \in 1 .. n : k # i => more[k] = given[k]
  <2>1. PICK S : S = Seq(BatchPayloads)
    OBVIOUS
  <2> QED BY <1>1, <1>2, <1>5, <2>1
<1>7. ASSUME NEW k \in DOMAIN later PROVE IsBatchOf(attr, later[k], more[k])
  <2>1. CASE k = i
    BY <1>4, <1>6, <2>1
  <2>2. CASE k # i
    <3>1. IsBatchOf(attr, jobs[k], given[k])
      BY <1>1, <1>4 DEF AreBatches
    <3> QED BY <1>4, <1>6, <2>2, <3>1
  <2> QED BY <2>1, <2>2
<1>8. AreBatches(attr, later, more)
  BY <1>4, <1>6, <1>7 DEF AreBatches
<1> QED BY <1>3, <1>5, <1>8

LEMMA SealedBatch ==
  ASSUME NEW attr, NEW jobs, NEW given, AreBatches(attr, jobs, given), NEW i \in DOMAIN jobs
  PROVE  AreBatches(attr, [jobs EXCEPT ![i].sealed = TRUE], given)
<1>1. jobs \in Seq(Batches) /\ given \in Seq(Seq(BatchPayloads)) /\ Len(jobs) = Len(given)
      /\ IsBatchOf(attr, jobs[i], given[i])
  BY DEF AreBatches
<1>2. PICK batch \in Batches : batch = jobs[i]
  BY <1>1
<1>3. PICK next : next = [batch EXCEPT !.sealed = TRUE]
  OBVIOUS
<1>4. next \in Batches /\ next.key = batch.key /\ next.payload = batch.payload
  BY <1>3 DEF Batches
<1>5. PICK payloads \in Seq(BatchPayloads) : payloads = given[i] /\ [given EXCEPT ![i] = payloads] = given
  <2>1. PICK S : S = Seq(BatchPayloads)
    OBVIOUS
  <2>2. given[i] \in S /\ [given EXCEPT ![i] = given[i]] = given
    BY <1>1, <2>1
  <2> QED BY <2>1, <2>2
<1>6. IsBatchOf(attr, next, payloads)
  BY <1>1, <1>2, <1>4, <1>5 DEF IsBatchOf
<1>7. [jobs EXCEPT ![i].sealed = TRUE] = [jobs EXCEPT ![i] = next]
  BY <1>2, <1>3
<1>8. AreBatches(attr, [jobs EXCEPT ![i] = next], [given EXCEPT ![i] = payloads])
  BY <1>4, <1>6, BatchChanged
<1> QED BY <1>5, <1>7, <1>8

LEMMA FoldedBatch ==
  ASSUME NEW attr, IsBatchSpec(attr), NEW jobs, NEW given, AreBatches(attr, jobs, given),
         NEW i \in DOMAIN jobs, NEW payload \in BatchPayloads,
         IsBatchable(attr, payload), HasKey(attr, payload, jobs[i].key),
         When(attr, jobs[i].payload, payload), CanFold(attr, jobs[i].payload, payload)
  PROVE  AreBatches(attr, [jobs EXCEPT ![i].payload = Fold(attr, @, payload)], [given EXCEPT ![i] = Append(@, payload)])
<1>1. jobs \in Seq(Batches) /\ given \in Seq(Seq(BatchPayloads)) /\ Len(jobs) = Len(given)
      /\ IsBatchOf(attr, jobs[i], given[i])
  BY DEF AreBatches
<1>2. PICK batch \in Batches : batch = jobs[i]
  BY <1>1
<1>3. PICK payloads \in Seq(BatchPayloads) : payloads = given[i]
  <2>1. PICK S : S = Seq(BatchPayloads)
    OBVIOUS
  <2>2. given[i] \in S
    BY <1>1, <2>1
  <2> QED BY <2>1, <2>2
<1>4. PICK result : result = Fold(attr, batch.payload, payload)
  OBVIOUS
<1>5. PICK next : next = [batch EXCEPT !.payload = result]
  OBVIOUS
<1>6. next.key = batch.key /\ next.payload = result /\ (result \in Documents => next \in Batches)
  BY <1>5 DEF Batches
<1>7. IsDocument(batch.payload)
  <2>1. batch.payload \in Documents
    BY <1>2 DEF Batches
  <2> QED BY <2>1, DocumentIs
<1>8. payloads \in Seq(Documents) /\ payload \in Documents
  BY PayloadsAre
<1>9. IsDocument(next.payload) /\ IsBatchOf(attr, next, Append(payloads, payload))
  BY <1>1, <1>2, <1>3, <1>4, <1>6, <1>7, <1>8, FoldKeeps
<1>10. next \in Batches
  BY <1>6, <1>9, DocumentIs
<1>11. PICK more \in Seq(BatchPayloads) : more = Append(payloads, payload)
  <2>1. Append(payloads, payload) \in Seq(BatchPayloads)
    OBVIOUS
  <2> QED BY <2>1
<1>12. AreBatches(attr, [jobs EXCEPT ![i] = next], [given EXCEPT ![i] = more])
  BY <1>9, <1>10, <1>11, BatchChanged
<1>13. [jobs EXCEPT ![i].payload = Fold(attr, @, payload)] = [jobs EXCEPT ![i] = next]
  BY <1>2, <1>4, <1>5
<1>14. [given EXCEPT ![i] = Append(@, payload)] = [given EXCEPT ![i] = more]
  BY <1>3, <1>11
<1> QED BY <1>12, <1>13, <1>14

-----------------------------------------------------------------------------
(* The steps of the server.                                                *)
LEMMA BatchInitial == BatchInit => BatchIInv
<1> SUFFICES ASSUME BatchInit PROVE BatchIInv
  OBVIOUS
<1>1. batchSpec = None /\ batches = <<>> /\ folded = <<>>
  BY DEF BatchInit
<1>2. DOMAIN batches = {}
  BY <1>1
<1>3. batches \in Seq(Batches)
  BY <1>1
<1>4. folded \in Seq(Seq(BatchPayloads)) /\ Len(batches) = Len(folded)
  <2>1. PICK S : S = Seq(BatchPayloads)
    OBVIOUS
  <2>2. folded \in Seq(S)
    BY <1>1
  <2> QED BY <1>1, <2>1, <2>2
<1> QED BY <1>1, <1>2, <1>3, <1>4 DEF BatchIInv

LEMMA DeclareBatchKeeps ==
  ASSUME BatchIInv, NEW attr \in BatchSpecs, DeclareBatch(attr)
  PROVE  BatchIInv'
<1>1. batchSpec' = Some(attr) /\ batches' = batches /\ folded' = folded /\ batches = <<>>
  BY DEF BatchIInv, DeclareBatch
<1>2. Some(attr) # None
  BY SomeIs
<1>3. DOMAIN batches' = {}
  BY <1>1
<1>4. batches' \in Seq(Batches) /\ folded' \in Seq(Seq(BatchPayloads)) /\ Len(batches') = Len(folded')
  BY <1>1 DEF BatchIInv
<1> QED BY <1>1, <1>2, <1>3, <1>4 DEF BatchIInv

(* The invariant of a declared attribute. *)
LEMMA Declared ==
  ASSUME BatchIInv, batchSpec # None
  PROVE  \E attr \in BatchSpecs : batchSpec = Some(attr) /\ batchSpec[1] = attr /\ IsBatchSpec(attr)
                                  /\ AreBatches(attr, batches, folded)
<1>1. PICK attr \in BatchSpecs : batchSpec = Some(attr)
  BY DEF BatchIInv
<1>2. batchSpec[1] = attr
  BY <1>1, SomeIs
<1>3. IsBatchSpec(attr)
  BY BatchSpecIs
<1>4. AreBatches(attr, batches, folded)
  BY <1>2 DEF BatchIInv, AreBatches
<1> QED BY <1>1, <1>2, <1>3, <1>4

LEMMA StillBatches ==
  ASSUME NEW attr \in BatchSpecs, batchSpec = Some(attr), batchSpec' = batchSpec, AreBatches(attr, batches', folded')
  PROVE  BatchIInv'
<1>1. batchSpec' = Some(attr) /\ batchSpec' # None /\ batchSpec'[1] = attr
  BY SomeIs
<1>2. /\ batches' \in Seq(Batches) /\ folded' \in Seq(Seq(BatchPayloads)) /\ Len(batches') = Len(folded')
      /\ \A i \in DOMAIN batches' : IsBatchOf(attr, batches'[i], folded'[i])
  BY DEF AreBatches
<1> QED BY <1>1, <1>2 DEF BatchIInv

LEMMA EnqueueBatchedKeeps ==
  ASSUME BatchIInv, NEW name \in {"push", "audit"}, NEW payload \in BatchPayloads, EnqueueBatched(name, payload)
  PROVE  BatchIInv'
<1>1. batchSpec # None /\ batchSpec' = batchSpec
  BY DEF EnqueueBatched
<1>2. PICK attr \in BatchSpecs : batchSpec = Some(attr) /\ batchSpec[1] = attr /\ IsBatchSpec(attr)
                                 /\ AreBatches(attr, batches, folded)
  BY <1>1, Declared
<1>3. PICK key, new : /\ key = KeyFor(BatchKey(attr), name, payload)
                      /\ new = [name |-> name, key |-> key, payload |-> payload, sealed |-> FALSE]
  OBVIOUS
<1>4. IsBatchable(attr, payload)
  BY <1>2 DEF EnqueueBatched
<1>5. payload \in Documents /\ key \in Keys /\ HasKey(attr, payload, key)
  BY <1>2, <1>3, PayloadsAre DEF Keys, HasKey
<1>6. new \in Batches /\ new.key = key /\ new.payload = payload
  BY <1>3, <1>5 DEF Batches
<1>7. \/ batches' = Append(batches, new) /\ folded' = Append(folded, <<payload>>)
      \/ \E i \in Open(key) :
           /\ When(attr, batches[i].payload, payload) /\ CanFold(attr, batches[i].payload, payload)
           /\ batches' = [batches EXCEPT ![i].payload = Fold(attr, @, payload)]
           /\ folded' = [folded EXCEPT ![i] = Append(@, payload)]
      \/ \E i \in Open(key) :
           /\ batches' = Append([batches EXCEPT ![i].sealed = TRUE], new)
           /\ folded' = Append(folded, <<payload>>)
  BY <1>2, <1>3 DEF EnqueueBatched
<1>8. \A i \in Open(key) : i \in DOMAIN batches /\ batches[i].key = key
  BY DEF Open
<1>9. CASE batches' = Append(batches, new) /\ folded' = Append(folded, <<payload>>)
  <2>1. AreBatches(attr, Append(batches, new), Append(folded, <<payload>>))
    BY <1>2, <1>4, <1>5, <1>6, BatchMore
  <2>2. AreBatches(attr, batches', folded')
    BY <1>9, <2>1
  <2> QED BY <1>1, <1>2, <2>2, StillBatches
<1>10. ASSUME NEW i \in Open(key),
              When(attr, batches[i].payload, payload), CanFold(attr, batches[i].payload, payload),
              batches' = [batches EXCEPT ![i].payload = Fold(attr, @, payload)],
              folded' = [folded EXCEPT ![i] = Append(@, payload)]
       PROVE  BatchIInv'
  <2>1. i \in DOMAIN batches /\ HasKey(attr, payload, batches[i].key)
    BY <1>5, <1>8
  <2>2. AreBatches(attr, [batches EXCEPT ![i].payload = Fold(attr, @, payload)],
                   [folded EXCEPT ![i] = Append(@, payload)])
    BY <1>2, <1>4, <1>10, <2>1, FoldedBatch
  <2>3. AreBatches(attr, batches', folded')
    BY <1>10, <2>2
  <2> QED BY <1>1, <1>2, <2>3, StillBatches
<1>11. ASSUME NEW i \in Open(key),
              batches' = Append([batches EXCEPT ![i].sealed = TRUE], new), folded' = Append(folded, <<payload>>)
       PROVE  BatchIInv'
  <2>1. PICK jobs : jobs = [batches EXCEPT ![i].sealed = TRUE]
    OBVIOUS
  <2>2. AreBatches(attr, jobs, folded)
    BY <1>2, <1>8, <2>1, SealedBatch
  <2>3. AreBatches(attr, Append(jobs, new), Append(folded, <<payload>>))
    BY <1>4, <1>5, <1>6, <2>2, BatchMore
  <2>4. AreBatches(attr, batches', folded')
    BY <1>11, <2>1, <2>3
  <2> QED BY <1>1, <1>2, <2>4, StillBatches
<1> QED BY <1>7, <1>9, <1>10, <1>11

LEMMA BatchTakenKeeps ==
  ASSUME BatchIInv, NEW i \in DOMAIN batches, BatchTaken(i)
  PROVE  BatchIInv'
<1>1. batchSpec' = batchSpec /\ folded' = folded /\ batches' = [batches EXCEPT ![i].sealed = TRUE]
  BY DEF BatchTaken
<1>2. batchSpec # None
  <2>1. batches # <<>>
    OBVIOUS
  <2> QED BY <2>1 DEF BatchIInv
<1>3. PICK attr \in BatchSpecs : batchSpec = Some(attr) /\ AreBatches(attr, batches, folded)
  BY <1>2, Declared
<1>4. AreBatches(attr, [batches EXCEPT ![i].sealed = TRUE], folded)
  BY <1>3, SealedBatch
<1>5. AreBatches(attr, batches', folded')
  BY <1>1, <1>4
<1> QED BY <1>1, <1>3, <1>5, StillBatches

LEMMA BatchSteps == BatchIInv /\ [BatchNext]_batchVars => BatchIInv'
<1> SUFFICES ASSUME BatchIInv, [BatchNext]_batchVars PROVE BatchIInv'
  OBVIOUS
<1>1. ASSUME NEW attr \in BatchSpecs, DeclareBatch(attr) PROVE BatchIInv'
  BY <1>1, DeclareBatchKeeps
<1>2. ASSUME NEW name \in {"push", "audit"}, NEW payload \in BatchPayloads, EnqueueBatched(name, payload)
      PROVE  BatchIInv'
  BY <1>2, EnqueueBatchedKeeps
<1>3. ASSUME NEW i \in DOMAIN batches, BatchTaken(i) PROVE BatchIInv'
  BY <1>3, BatchTakenKeeps
<1>4. CASE UNCHANGED batchVars
  BY <1>4 DEF batchVars, BatchIInv
<1> QED BY <1>1, <1>2, <1>3, <1>4 DEF BatchNext

(* Payloads of one key agree where the attribute says that they must.      *)
LEMMA SameKeySameContext ==
  ASSUME NEW attr \in BatchSpecs, TellsApart(BatchKey(attr)), NEW key,
         NEW p, IsDocument(p), HasKey(attr, p, key), NEW q, IsDocument(q), HasKey(attr, q, key)
  PROVE  \A x : InKey(attr, x) /\ ~IsPrefix(attr.path, x) => Seen(p, x) = Seen(q, x)
<1>1. Agree(BatchKey(attr), p, q)
  <2>1. PICK name, other : key = KeyFor(BatchKey(attr), name, p) /\ key = KeyFor(BatchKey(attr), other, q)
    BY DEF HasKey
  <2>2. PICK spec : spec = BatchKey(attr)
    OBVIOUS
  <2>3. IsAttribute(spec) /\ TellsApart(spec)
    BY <2>2, BatchSpecIs DEF IsBatchSpec
  <2>4. KeyFor(spec, name, p) = KeyFor(spec, other, q)
    BY <2>1, <2>2
  <2>5. Agree(spec, p, q)
    BY <2>3, <2>4, KeysAgree
  <2> QED BY <2>2, <2>5
<1> SUFFICES ASSUME NEW x, InKey(attr, x), ~IsPrefix(attr.path, x) PROVE Seen(p, x) = Seen(q, x)
  OBVIOUS
<1>2. x \notin DOMAIN p \cup DOMAIN q => Seen(p, x) = Seen(q, x)
  BY NotSeen
<1>3. SUFFICES ASSUME x \in DOMAIN p \cup DOMAIN q PROVE Seen(p, x) = Seen(q, x)
  BY <1>2
<1>4. PICK r, paths, selects : r = attr.path /\ paths = attr.key.paths /\ selects = attr.key.selects
  OBVIOUS
<1>5. selects \in {"all", "only", "except"} /\ paths \in Seq(Seq(Steps))
  BY <1>4, BatchKeyIs
<1>6. /\ BatchKey(attr).selects = (IF selects = "only" THEN "only" ELSE "except")
      /\ selects = "all" => BatchKey(attr).paths = <<r>>
      /\ selects = "only" => BatchKey(attr).paths = paths
      /\ selects = "except" => BatchKey(attr).paths = <<r>> \o paths
  BY <1>4, BatchKeyIs
<1>7. CASE selects = "all"
  <2>1. AgreeOutside(<<r>>, p, q)
    BY <1>1, <1>6, <1>7 DEF Agree
  <2>2. \A i \in DOMAIN <<r>> : ~IsPrefix(<<r>>[i], x)
    BY <1>4
  <2> QED BY <1>3, <2>1, <2>2 DEF AgreeOutside
<1>8. CASE selects = "except"
  <2>1. PICK all : all = <<r>> \o paths
    OBVIOUS
  <2>2. AgreeOutside(all, p, q)
    BY <1>1, <1>6, <1>8, <2>1 DEF Agree
  <2>3. \A i \in DOMAIN paths : ~IsPrefix(paths[i], x)
    BY <1>4, <1>8 DEF InKey
  <2>4. ASSUME NEW i \in DOMAIN all PROVE ~IsPrefix(all[i], x)
    <3>1. all[i] = r \/ \E k \in DOMAIN paths : all[i] = paths[k]
      <4>1. PICK n \in Nat : n = Len(paths) /\ DOMAIN paths = 1 .. n
        BY <1>5
      <4>2. i \in 1 .. n + 1 /\ all[1] = r /\ \A k \in 2 .. n + 1 : all[k] = paths[k - 1]
        BY <1>5, <2>1, <4>1
      <4>3. CASE i = 1
        BY <4>2, <4>3
      <4>4. CASE i # 1
        <5>1. PICK k : k = i - 1 /\ k \in 1 .. n /\ i \in 2 .. n + 1
          BY <4>1, <4>2, <4>4
        <5> QED BY <4>1, <4>2, <5>1
      <4> QED BY <4>3, <4>4
    <3> QED BY <1>4, <2>3, <3>1
  <2> QED BY <1>3, <2>2, <2>4 DEF AgreeOutside
<1>9. CASE selects = "only"
  <2>1. \A i \in DOMAIN paths : AgreeAt(paths[i], p, q)
    BY <1>1, <1>6, <1>9 DEF Agree
  <2>2. PICK i \in DOMAIN paths : IsPrefix(paths[i], x)
    BY <1>4, <1>9 DEF InKey
  <2>3. AgreeAt(paths[i], p, q)
    BY <2>1
  <2> QED BY <1>3, <2>2, <2>3 DEF AgreeAt
<1> QED BY <1>5, <1>7, <1>8, <1>9

LEMMA BatchTells == BatchIInv => FoldKeepsEverything
<1> SUFFICES ASSUME BatchIInv, NEW i \in DOMAIN batches, Len(folded[i]) > 1
             PROVE  LET attr == batchSpec[1]
                        has == Entries(batches[i].payload, attr.path)
                    IN /\ TellsApart(BatchKey(attr)) =>
                            \A p \in ToSet(folded[i]) : SameContext(attr, p, batches[i].payload)
                       /\ HasThem(attr.calls, has, AllEntries(attr, folded[i]))
                       /\ Len(has) <= attr.limit
  BY DEF FoldKeepsEverything
<1>1. batchSpec # None
  <2>1. batches # <<>>
    OBVIOUS
  <2> QED BY <2>1 DEF BatchIInv
<1>2. PICK attr \in BatchSpecs : batchSpec[1] = attr /\ IsBatchSpec(attr) /\ AreBatches(attr, batches, folded)
  BY <1>1, Declared
<1>3. PICK batch, payloads : batch = batches[i] /\ payloads = folded[i]
  OBVIOUS
<1>4. IsBatchOf(attr, batch, payloads) /\ batch \in Batches /\ payloads \in Seq(Documents)
  <2>1. batches \in Seq(Batches) /\ folded \in Seq(Seq(BatchPayloads)) /\ Len(batches) = Len(folded)
    BY <1>2 DEF AreBatches
  <2>2. payloads \in Seq(BatchPayloads)
    <3>1. PICK S : S = Seq(BatchPayloads)
      OBVIOUS
    <3>2. folded[i] \in S
      BY <2>1, <3>1
    <3> QED BY <1>3, <3>1, <3>2
  <2>3. batch \in Batches
    BY <1>3, <2>1
  <2>4. IsBatchOf(attr, batch, payloads)
    BY <1>2, <1>3 DEF AreBatches
  <2> QED BY <2>2, <2>3, <2>4, PayloadsAre
<1>5. HasThem(attr.calls, Entries(batch.payload, attr.path), AllEntries(attr, payloads))
      /\ Len(Entries(batch.payload, attr.path)) <= attr.limit
  BY <1>3, <1>4 DEF IsBatchOf
<1>6. ASSUME TellsApart(BatchKey(attr)), NEW p \in ToSet(payloads) PROVE SameContext(attr, p, batch.payload)
  <2>1. PICK k \in DOMAIN payloads : p = payloads[k]
    BY <1>6 DEF ToSet
  <2>2. PICK first, q : first = payloads[1] /\ q = batch.payload
    OBVIOUS
  <2>3. 1 \in DOMAIN payloads
    BY <1>4 DEF IsBatchOf
  <2>4. IsDocument(p) /\ IsDocument(first) /\ IsDocument(q)
    <3>1. p \in Documents /\ first \in Documents
      BY <1>4, <2>1, <2>2, <2>3
    <3>2. q \in Documents
      BY <1>4, <2>2 DEF Batches
    <3> QED BY <3>1, <3>2, DocumentIs
  <2>5. HasKey(attr, p, batch.key) /\ HasKey(attr, first, batch.key)
    BY <1>4, <2>1, <2>2, <2>3 DEF IsBatchOf
  <2>6. \A x : InKey(attr, x) /\ ~IsPrefix(attr.path, x) => Seen(p, x) = Seen(first, x)
    BY <1>2, <1>6, <2>4, <2>5, SameKeySameContext
  <2>7. PICK r \in Seq(Steps) : r = attr.path
    BY <1>2 DEF IsBatchSpec
  <2>8. AgreeOutside(<<r>>, first, q)
    BY <1>4, <2>2, <2>7 DEF IsBatchOf
  <2>9. \A x \in Seq(Steps) : ~IsPrefix(r, x) => Seen(first, x) = Seen(q, x)
    BY <2>4, <2>8, OutsideIs
  <2>10. DOMAIN p \subseteq Seq(Steps) /\ DOMAIN q \subseteq Seq(Steps)
    BY <2>4, DocumentParts
  <2> QED BY <2>2, <2>6, <2>7, <2>9, <2>10 DEF SameContext
<1> QED BY <1>2, <1>3, <1>5, <1>6

(* Whatever is enqueued, when and fold (batch.rs) leave in a job that      *)
(* others were folded into the entries of all of them, as dedup and sorted *)
(* say, within the limit; and the batch key lets only payloads be folded   *)
(* into it that agree elsewhere, wherever the attribute says they must.    *)
THEOREM FoldsKeep == BatchSpec => []FoldKeepsEverything
<1>1. BatchSpec => []BatchIInv
  BY BatchInitial, BatchSteps, PTL DEF BatchSpec
<1> QED BY <1>1, BatchTells, PTL

-----------------------------------------------------------------------------
(* Jobs that still take entries have keys that differ, each the key of the *)
(* first payload.                                                          *)
KeysDiffer(attr, jobs, given) ==
  /\ \A i \in DOMAIN jobs : jobs[i].key = KeyFor(BatchKey(attr), jobs[i].name, given[i][1])
  /\ \A i, j \in DOMAIN jobs : i # j /\ ~jobs[i].sealed /\ ~jobs[j].sealed => jobs[i].key # jobs[j].key

OpenIInv == batchSpec # None => KeysDiffer(batchSpec[1], batches, folded)

LEMMA KeysMore ==
  ASSUME NEW attr, NEW jobs, NEW given, AreBatches(attr, jobs, given), KeysDiffer(attr, jobs, given),
         NEW fresh \in Batches, NEW payload \in BatchPayloads,
         fresh.key = KeyFor(BatchKey(attr), fresh.name, payload),
         \A i \in DOMAIN jobs : jobs[i].sealed \/ jobs[i].key # fresh.key
  PROVE  KeysDiffer(attr, Append(jobs, fresh), Append(given, <<payload>>))
<1>1. PICK n \in Nat : n = Len(jobs) /\ n = Len(given) /\ DOMAIN jobs = 1 .. n /\ DOMAIN given = 1 .. n
  BY DEF AreBatches
<1>2. PICK S, one : S = Seq(BatchPayloads) /\ one = <<payload>>
  OBVIOUS
<1>3. one \in S /\ one[1] = payload
  BY <1>2
<1>4. PICK longer : longer = Append(jobs, fresh)
  OBVIOUS
<1>5. PICK more : more = Append(given, one)
  OBVIOUS
<1>6. /\ DOMAIN longer = 1 .. n + 1 /\ longer[n + 1] = fresh
      /\ \A i \in 1 .. n : longer[i] = jobs[i]
  <2>1. jobs \in Seq(Batches)
    BY DEF AreBatches
  <2>2. longer \in Seq(Batches) /\ Len(longer) = n + 1
    BY <1>1, <1>4, <2>1, Appended
  <2> QED BY <1>1, <1>4, <2>1, <2>2, Appended
<1>7. more[n + 1] = one /\ \A i \in 1 .. n : more[i] = given[i]
  <2>1. given \in Seq(S)
    BY <1>2 DEF AreBatches
  <2> QED BY <1>1, <1>3, <1>5, <2>1, Appended
<1>8. ASSUME NEW i \in 1 .. n + 1
      PROVE  longer[i].key = KeyFor(BatchKey(attr), longer[i].name, more[i][1])
  <2>1. CASE i = n + 1
    BY <1>3, <1>6, <1>7, <2>1
  <2>2. CASE i # n + 1
    <3>1. i \in 1 .. n
      BY <2>2
    <3>2. jobs[i].key = KeyFor(BatchKey(attr), jobs[i].name, given[i][1])
      BY <1>1, <3>1 DEF KeysDiffer
    <3> QED BY <1>6, <1>7, <3>1, <3>2
  <2> QED BY <2>1, <2>2
<1>9. ASSUME NEW i \in 1 .. n + 1, NEW j \in 1 .. n + 1, i # j, ~longer[i].sealed, ~longer[j].sealed
      PROVE  longer[i].key # longer[j].key
  <2>1. CASE i \in 1 .. n /\ j \in 1 .. n
    BY <1>1, <1>6, <1>9, <2>1 DEF KeysDiffer
  <2>2. CASE i = n + 1
    <3>1. j \in 1 .. n
      BY <1>9, <2>2
    <3> QED BY <1>1, <1>6, <1>9, <2>2, <3>1
  <2>3. CASE j = n + 1
    <3>1. i \in 1 .. n
      BY <1>9, <2>3
    <3> QED BY <1>1, <1>6, <1>9, <2>3, <3>1
  <2> QED BY <2>1, <2>2, <2>3
<1>10. KeysDiffer(attr, longer, more)
  BY <1>6, <1>8, <1>9 DEF KeysDiffer
<1> QED BY <1>2, <1>4, <1>5, <1>10

LEMMA KeysStay ==
  ASSUME NEW attr, NEW jobs, NEW given, KeysDiffer(attr, jobs, given), NEW later, NEW more,
         DOMAIN later = DOMAIN jobs,
         \A i \in DOMAIN jobs : /\ later[i].key = jobs[i].key /\ later[i].name = jobs[i].name
                                /\ jobs[i].sealed => later[i].sealed
                                /\ more[i][1] = given[i][1]
  PROVE  KeysDiffer(attr, later, more)
  BY DEF KeysDiffer

OnlySealed(jobs, i, later) ==
  /\ DOMAIN later = DOMAIN jobs /\ later[i].sealed
  /\ \A k \in DOMAIN jobs : later[k].key = jobs[k].key /\ (k # i => later[k] = jobs[k])

LEMMA SealStays ==
  ASSUME NEW attr, NEW jobs, NEW given, AreBatches(attr, jobs, given), KeysDiffer(attr, jobs, given),
         NEW i \in DOMAIN jobs, NEW later, later = [jobs EXCEPT ![i].sealed = TRUE]
  PROVE  KeysDiffer(attr, later, given) /\ OnlySealed(jobs, i, later)
<1>1. jobs \in Seq(Batches)
  BY DEF AreBatches
<1>2. PICK batch \in Batches : batch = jobs[i]
  BY <1>1
<1>3. PICK next : next = [batch EXCEPT !.sealed = TRUE]
  OBVIOUS
<1>4. next.key = batch.key /\ next.name = batch.name /\ next.sealed
  BY <1>3 DEF Batches
<1>5. later = [jobs EXCEPT ![i] = next]
  BY <1>2, <1>3
<1>6. DOMAIN later = DOMAIN jobs /\ later[i] = next /\ \A k \in DOMAIN jobs : k # i => later[k] = jobs[k]
  BY <1>1, <1>5
<1>7. \A k \in DOMAIN jobs : /\ later[k].key = jobs[k].key /\ later[k].name = jobs[k].name
                             /\ jobs[k].sealed => later[k].sealed
  BY <1>2, <1>4, <1>6
<1>8. KeysDiffer(attr, later, given)
  BY <1>6, <1>7, KeysStay
<1> QED BY <1>4, <1>6, <1>7, <1>8 DEF OnlySealed

LEMMA EnqueueKeysDiffer ==
  ASSUME BatchIInv, OpenIInv, NEW name \in {"push", "audit"}, NEW payload \in BatchPayloads,
         EnqueueBatched(name, payload)
  PROVE  OpenIInv'
<1>1. batchSpec # None /\ batchSpec' = batchSpec
  BY DEF EnqueueBatched
<1>2. PICK attr \in BatchSpecs : batchSpec[1] = attr /\ AreBatches(attr, batches, folded)
  BY <1>1, Declared
<1>3. KeysDiffer(attr, batches, folded)
  BY <1>1, <1>2 DEF OpenIInv
<1>4. PICK key, new : /\ key = KeyFor(BatchKey(attr), name, payload)
                      /\ new = [name |-> name, key |-> key, payload |-> payload, sealed |-> FALSE]
  OBVIOUS
<1>5. payload \in Documents /\ key \in Keys
  BY <1>2, <1>4, PayloadsAre DEF Keys
<1>6. new \in Batches /\ new.key = KeyFor(BatchKey(attr), new.name, payload) /\ new.key = key
  BY <1>4, <1>5 DEF Batches
<1>7. \/ Open(key) = {} /\ batches' = Append(batches, new) /\ folded' = Append(folded, <<payload>>)
      \/ \E i \in Open(key) :
           /\ batches' = [batches EXCEPT ![i].payload = Fold(attr, @, payload)]
           /\ folded' = [folded EXCEPT ![i] = Append(@, payload)]
      \/ \E i \in Open(key) :
           /\ batches' = Append([batches EXCEPT ![i].sealed = TRUE], new)
           /\ folded' = Append(folded, <<payload>>)
  BY <1>2, <1>4 DEF EnqueueBatched
<1>8. \A i : i \in Open(key) <=> i \in DOMAIN batches /\ batches[i].key = key /\ ~batches[i].sealed
  BY DEF Open
<1>9. SUFFICES KeysDiffer(attr, batches', folded')
  BY <1>1, <1>2 DEF OpenIInv
<1>10. CASE Open(key) = {} /\ batches' = Append(batches, new) /\ folded' = Append(folded, <<payload>>)
  <2>1. \A i \in DOMAIN batches : batches[i].sealed \/ batches[i].key # new.key
    BY <1>6, <1>8, <1>10
  <2>2. KeysDiffer(attr, Append(batches, new), Append(folded, <<payload>>))
    BY <1>2, <1>3, <1>6, <2>1, KeysMore
  <2> QED BY <1>10, <2>2
<1>11. ASSUME NEW i \in Open(key),
              batches' = [batches EXCEPT ![i].payload = Fold(attr, @, payload)],
              folded' = [folded EXCEPT ![i] = Append(@, payload)]
       PROVE  KeysDiffer(attr, batches', folded')
  <2>1. i \in DOMAIN batches /\ batches \in Seq(Batches) /\ folded \in Seq(Seq(BatchPayloads))
        /\ Len(batches) = Len(folded) /\ IsBatchOf(attr, batches[i], folded[i])
    BY <1>2, <1>8 DEF AreBatches
  <2>2. PICK batch \in Batches : batch = batches[i]
    BY <2>1
  <2>3. PICK next : next = [batch EXCEPT !.payload = Fold(attr, batch.payload, payload)]
    OBVIOUS
  <2>4. next.key = batch.key /\ next.name = batch.name /\ next.sealed = batch.sealed
    BY <2>3 DEF Batches
  <2>5. batches' = [batches EXCEPT ![i] = next]
    BY <1>11, <2>2, <2>3
  <2>6. PICK S, payloads : S = Seq(BatchPayloads) /\ payloads = folded[i]
    OBVIOUS
  <2>7. folded \in Seq(S) /\ i \in DOMAIN folded /\ payloads \in S /\ payloads # <<>>
    BY <2>1, <2>6 DEF IsBatchOf
  <2>8. payloads \in Seq(BatchPayloads)
    BY <2>6, <2>7
  <2>9. PICK grown : grown = Append(payloads, payload)
    OBVIOUS
  <2>10. grown[1] = payloads[1]
    BY <2>7, <2>8, <2>9, Appended
  <2>11. folded' = [folded EXCEPT ![i] = grown]
    BY <1>11, <2>6, <2>9
  <2>12. \A k \in DOMAIN batches : folded'[k][1] = folded[k][1]
    <3>1. \A k \in DOMAIN folded : folded'[k] = IF k = i THEN grown ELSE folded[k]
      BY <2>7, <2>11
    <3>2. DOMAIN batches = DOMAIN folded
      BY <2>1, <2>6, <2>7
    <3> QED BY <2>6, <2>10, <3>1, <3>2
  <2>13. /\ DOMAIN batches' = DOMAIN batches
         /\ \A k \in DOMAIN batches : /\ batches'[k].key = batches[k].key /\ batches'[k].name = batches[k].name
                                      /\ batches[k].sealed => batches'[k].sealed
    <3>1. /\ DOMAIN batches' = DOMAIN batches /\ batches'[i] = next
          /\ \A k \in DOMAIN batches : k # i => batches'[k] = batches[k]
      BY <2>1, <2>5
    <3> QED BY <2>2, <2>4, <3>1
  <2> QED BY <1>3, <2>12, <2>13, KeysStay
<1>12. ASSUME NEW i \in Open(key),
              batches' = Append([batches EXCEPT ![i].sealed = TRUE], new), folded' = Append(folded, <<payload>>)
       PROVE  KeysDiffer(attr, batches', folded')
  <2>1. PICK jobs : jobs = [batches EXCEPT ![i].sealed = TRUE]
    OBVIOUS
  <2>2. i \in DOMAIN batches /\ batches[i].key = key /\ ~batches[i].sealed
    BY <1>8
  <2>3. KeysDiffer(attr, jobs, folded) /\ OnlySealed(batches, i, jobs)
    BY <1>2, <1>3, <2>1, <2>2, SealStays
  <2>4. \A k \in DOMAIN jobs : jobs[k].sealed \/ jobs[k].key # new.key
    BY <1>3, <1>6, <2>2, <2>3 DEF KeysDiffer, OnlySealed
  <2>5. AreBatches(attr, jobs, folded)
    BY <1>2, <2>1, <2>2, SealedBatch
  <2>6. KeysDiffer(attr, Append(jobs, new), Append(folded, <<payload>>))
    BY <1>6, <2>3, <2>4, <2>5, KeysMore
  <2> QED BY <1>12, <2>1, <2>6
<1> QED BY <1>7, <1>10, <1>11, <1>12

LEMMA OpenSteps == BatchIInv /\ OpenIInv /\ [BatchNext]_batchVars => OpenIInv'
<1> SUFFICES ASSUME BatchIInv, OpenIInv, [BatchNext]_batchVars PROVE OpenIInv'
  OBVIOUS
<1>1. ASSUME NEW attr \in BatchSpecs, DeclareBatch(attr) PROVE OpenIInv'
  <2>1. batches' = <<>>
    BY <1>1 DEF BatchIInv, DeclareBatch
  <2>2. DOMAIN batches' = {}
    BY <2>1
  <2> QED BY <2>2 DEF OpenIInv, KeysDiffer
<1>2. ASSUME NEW name \in {"push", "audit"}, NEW payload \in BatchPayloads, EnqueueBatched(name, payload)
      PROVE  OpenIInv'
  BY <1>2, EnqueueKeysDiffer
<1>3. ASSUME NEW i \in DOMAIN batches, BatchTaken(i) PROVE OpenIInv'
  <2>1. batchSpec' = batchSpec /\ folded' = folded /\ batches' = [batches EXCEPT ![i].sealed = TRUE]
    BY <1>3 DEF BatchTaken
  <2>2. batchSpec # None
    <3>1. batches # <<>>
      BY <1>3
    <3> QED BY <3>1 DEF BatchIInv
  <2>3. PICK attr \in BatchSpecs : batchSpec[1] = attr /\ AreBatches(attr, batches, folded)
    BY <2>2, Declared
  <2>4. KeysDiffer(attr, batches, folded)
    BY <2>2, <2>3 DEF OpenIInv
  <2>5. KeysDiffer(attr, batches', folded)
    BY <1>3, <2>1, <2>3, <2>4, SealStays
  <2> QED BY <2>1, <2>3, <2>5 DEF OpenIInv
<1>4. CASE UNCHANGED batchVars
  BY <1>4 DEF batchVars, OpenIInv
<1> QED BY <1>1, <1>2, <1>3, <1>4 DEF BatchNext

(* Payloads that agree where the attribute says they must have the same    *)
(* key, unless only takes the list in.                                     *)
LEMMA SameContextAgrees ==
  ASSUME NEW attr \in BatchSpecs, ~KeyedByEntries(attr),
         NEW p, IsDocument(p), NEW q, IsDocument(q),
         \A x \in Seq(Steps) : InKey(attr, x) /\ ~IsPrefix(attr.path, x) => Seen(p, x) = Seen(q, x)
  PROVE  Agree(BatchKey(attr), p, q)
<1>1. PICK r, paths, selects : r = attr.path /\ paths = attr.key.paths /\ selects = attr.key.selects
  OBVIOUS
<1>2. /\ selects \in {"all", "only", "except"} /\ paths \in Seq(Seq(Steps))
      /\ BatchKey(attr).selects = (IF selects = "only" THEN "only" ELSE "except")
      /\ selects = "all" => BatchKey(attr).paths = <<r>>
      /\ selects = "only" => BatchKey(attr).paths = paths
      /\ selects = "except" => BatchKey(attr).paths = <<r>> \o paths
  BY <1>1, BatchKeyIs
<1>3. r \in Seq(Steps) /\ DOMAIN p \cup DOMAIN q \subseteq Seq(Steps)
  <2>1. r \in Seq(Steps)
    BY <1>1, BatchSpecIs DEF IsBatchSpec
  <2>2. DOMAIN p \subseteq Seq(Steps)
    BY DocumentParts
  <2>3. DOMAIN q \subseteq Seq(Steps)
    BY DocumentParts
  <2> QED BY <2>1, <2>2, <2>3
<1>4. CASE selects = "all"
  <2>1. \A x : InKey(attr, x)
    BY <1>1, <1>4 DEF InKey
  <2>2. AgreeOutside(<<r>>, p, q)
    <3> SUFFICES ASSUME NEW x \in DOMAIN p \cup DOMAIN q, \A i \in DOMAIN <<r>> : ~IsPrefix(<<r>>[i], x)
                 PROVE  Seen(p, x) = Seen(q, x)
      BY DEF AgreeOutside
    <3>1. ~IsPrefix(r, x)
      OBVIOUS
    <3> QED BY <1>1, <1>3, <2>1, <3>1
  <2> QED BY <1>2, <1>4, <2>2 DEF Agree
<1>5. CASE selects = "except"
  <2>1. PICK all : all = <<r>> \o paths
    OBVIOUS
  <2>2. ASSUME NEW x \in DOMAIN p \cup DOMAIN q, \A i \in DOMAIN all : ~IsPrefix(all[i], x)
        PROVE  Seen(p, x) = Seen(q, x)
    <3>1. PICK n \in Nat : n = Len(paths) /\ DOMAIN paths = 1 .. n
      BY <1>2
    <3>2. DOMAIN all = 1 .. n + 1 /\ all[1] = r /\ \A k \in 1 .. n : all[k + 1] = paths[k]
      BY <1>2, <2>1, <3>1
    <3>3. ~IsPrefix(r, x)
      BY <2>2, <3>1, <3>2
    <3>4. \A k \in DOMAIN paths : ~IsPrefix(paths[k], x)
      BY <2>2, <3>1, <3>2
    <3>5. InKey(attr, x)
      BY <1>1, <1>5, <3>4 DEF InKey
    <3> QED BY <1>1, <1>3, <3>3, <3>5
  <2>3. AgreeOutside(all, p, q)
    BY <2>2 DEF AgreeOutside
  <2> QED BY <1>2, <1>5, <2>1, <2>3 DEF Agree
<1>6. CASE selects = "only"
  <2>1. ASSUME NEW i \in DOMAIN paths, NEW x \in DOMAIN p \cup DOMAIN q, IsPrefix(paths[i], x)
        PROVE  Seen(p, x) = Seen(q, x)
    <3>1. InKey(attr, x)
      BY <1>1, <1>6, <2>1 DEF InKey
    <3>2. ~IsPrefix(paths[i], r) /\ ~IsPrefix(r, paths[i])
      BY <1>1, <1>6, <2>1 DEF KeyedByEntries
    <3>3. PICK s \in Seq(Steps) : s = paths[i]
      BY <1>2
    <3>4. x \in Seq(Steps)
      BY <1>3
    <3>5. IsPrefix(s, x) /\ IsPrefix(r, x) /\ Len(s) <= Len(r) => IsPrefix(s, r)
      BY <1>3, <3>3, <3>4, PrefixOrder
    <3>6. IsPrefix(r, x) /\ IsPrefix(s, x) /\ Len(r) <= Len(s) => IsPrefix(r, s)
      BY <1>3, <3>3, <3>4, PrefixOrder
    <3>7. Len(s) <= Len(r) \/ Len(r) <= Len(s)
      <4>1. Len(s) \in Nat /\ Len(r) \in Nat
        BY <1>3, <3>3
      <4> QED BY <4>1
    <3>8. ~IsPrefix(r, x)
      BY <2>1, <3>2, <3>3, <3>5, <3>6, <3>7
    <3> QED BY <1>1, <3>1, <3>4, <3>8
  <2>2. \A i \in DOMAIN paths : AgreeAt(paths[i], p, q)
    BY <2>1 DEF AgreeAt
  <2> QED BY <1>2, <1>6, <2>2 DEF Agree
<1> QED BY <1>2, <1>4, <1>5, <1>6

LEMMA KeyPrefix ==
  ASSUME NEW attr \in BatchSpecs
  PROVE  BatchKey(attr).prefix = attr.key.prefix
<1>1. PICK key : key = attr.key
  OBVIOUS
<1>2. key \in [selects : {"all", "only", "except"}, paths : Seq(Seq(Steps)), prefix : BOOLEAN, scope : OptionOf(Scopes)]
  BY <1>1, BatchSpecsAssumption
<1> QED BY <1>1, <1>2 DEF BatchKey

LEMMA OpenTell == BatchIInv /\ OpenIInv => OpenBatchesDiffer
<1> SUFFICES ASSUME BatchIInv, OpenIInv, NEW i \in DOMAIN batches, NEW j \in DOMAIN batches, i # j,
                    ~batches[i].sealed, ~batches[j].sealed,
                    TellsApart(BatchKey(batchSpec[1])), ~KeyedByEntries(batchSpec[1]),
                    batchSpec[1].key.prefix => batches[i].name = batches[j].name,
                    SameContext(batchSpec[1], batches[i].payload, batches[j].payload)
             PROVE  FALSE
  BY DEF OpenBatchesDiffer
<1>1. batchSpec # None
  <2>1. batches # <<>>
    OBVIOUS
  <2> QED BY <2>1 DEF BatchIInv
<1>2. PICK attr \in BatchSpecs : batchSpec[1] = attr /\ IsBatchSpec(attr) /\ AreBatches(attr, batches, folded)
  BY <1>1, Declared
<1>3. /\ batches[i].key # batches[j].key
      /\ batches[i].key = KeyFor(BatchKey(attr), batches[i].name, folded[i][1])
      /\ batches[j].key = KeyFor(BatchKey(attr), batches[j].name, folded[j][1])
  BY <1>1, <1>2 DEF OpenIInv, KeysDiffer
<1>4. PICK r \in Seq(Steps) : r = attr.path
  BY <1>2 DEF IsBatchSpec
<1>5. ASSUME NEW k \in DOMAIN batches
      PROVE  /\ IsDocument(batches[k].payload) /\ IsDocument(folded[k][1])
             /\ AgreeOutside(<<r>>, folded[k][1], batches[k].payload)
  <2>1. batches \in Seq(Batches) /\ folded \in Seq(Seq(BatchPayloads)) /\ Len(batches) = Len(folded)
        /\ IsBatchOf(attr, batches[k], folded[k])
    BY <1>2 DEF AreBatches
  <2>2. PICK S, payloads : S = Seq(BatchPayloads) /\ payloads = folded[k]
    OBVIOUS
  <2>3. folded \in Seq(S) /\ k \in DOMAIN folded /\ payloads \in S
    BY <2>1, <2>2
  <2>4. payloads \in Seq(Documents) /\ payloads # <<>>
    BY <2>1, <2>2, <2>3, PayloadsAre DEF IsBatchOf
  <2>5. payloads[1] \in Documents
    BY <2>4
  <2>6. batches[k] \in Batches
    BY <2>1
  <2>7. batches[k].payload \in Documents
    BY <2>6 DEF Batches
  <2> QED BY <1>4, <2>1, <2>2, <2>5, <2>7, DocumentIs DEF IsBatchOf
<1>6. PICK p, q, first, second :
        p = batches[i].payload /\ q = batches[j].payload /\ first = folded[i][1] /\ second = folded[j][1]
  OBVIOUS
<1>7. /\ IsDocument(p) /\ IsDocument(q) /\ IsDocument(first) /\ IsDocument(second)
      /\ AgreeOutside(<<r>>, first, p) /\ AgreeOutside(<<r>>, second, q)
  BY <1>5, <1>6
<1>8. ASSUME NEW x \in Seq(Steps), InKey(attr, x), ~IsPrefix(attr.path, x)
      PROVE  Seen(first, x) = Seen(second, x)
  <2>1. Seen(first, x) = Seen(p, x)
    BY <1>4, <1>7, <1>8, OutsideIs
  <2>2. Seen(second, x) = Seen(q, x)
    BY <1>4, <1>7, <1>8, OutsideIs
  <2>3. SameContext(attr, p, q)
    BY <1>2, <1>6
  <2>4. x \in DOMAIN p \cup DOMAIN q => Seen(p, x) = Seen(q, x)
    BY <1>8, <2>3 DEF SameContext
  <2>5. x \notin DOMAIN p \cup DOMAIN q => Seen(p, x) = Seen(q, x)
    BY NotSeen
  <2> QED BY <2>1, <2>2, <2>4, <2>5
<1>9. Agree(BatchKey(attr), first, second)
  BY <1>2, <1>7, <1>8, SameContextAgrees
<1>10. BatchKey(attr).prefix = attr.key.prefix
  BY KeyPrefix
<1>11. PICK spec : spec = BatchKey(attr) /\ IsAttribute(spec) /\ TellsApart(spec)
  BY <1>2 DEF IsBatchSpec
<1>12. KeyFor(spec, batches[i].name, first) = KeyFor(spec, batches[j].name, second)
  <2>1. PICK name, other : name = batches[i].name /\ other = batches[j].name
    OBVIOUS
  <2>2. (spec.prefix => name = other) /\ Agree(spec, first, second)
    BY <1>2, <1>9, <1>10, <1>11, <2>1
  <2>3. KeyFor(spec, name, first) = KeyFor(spec, other, second)
    BY <1>7, <1>11, <2>2, KeysAgree
  <2> QED BY <2>1, <2>3
<1> QED BY <1>3, <1>6, <1>11, <1>12

(* Two jobs that still take entries differ in the kind or in their         *)
(* payloads, elsewhere than in the list and where the attribute says that  *)
(* it counts: the key that the derive emits leaves the list out (or only,  *)
(* which might take it in, does not), so that what should be folded is,    *)
(* whatever the attribute and the payloads.                                *)
THEOREM OpenOnesDiffer == BatchSpec => []OpenBatchesDiffer
<1>1. BatchSpec => []BatchIInv
  BY BatchInitial, BatchSteps, PTL DEF BatchSpec
<1>2. BatchInit => OpenIInv
  BY DEF BatchInit, OpenIInv
<1>3. BatchSpec => []OpenIInv
  BY <1>1, <1>2, OpenSteps, PTL DEF BatchSpec
<1> QED BY <1>1, <1>3, OpenTell, PTL
==============================================================================
