--------------------------- MODULE PayloadKeysProofs ---------------------------
(***************************************************************************)
(* The proof that the key of a job tells duplicates from others, for any   *)
(* payloads and any unique attributes: two payloads have the same key      *)
(* exactly if they agree wherever the attribute says that they must.       *)
(*                                                                         *)
(* It goes in three parts.  Except leaves what is outside its paths        *)
(* (ExceptAgrees), only copies what is at its paths (OnlyAgrees), and the  *)
(* canonical text of a document determines it (SameText).                  *)
(***************************************************************************)
EXTENDS PayloadKeys, FiniteSetTheorems, WellFoundedInduction, SequenceTheorems, TLAPS

-----------------------------------------------------------------------------
(* Numbers, positions and steps.                                           *)
(* Numbers: the least of a set, and induction over a set.                  *)
LEMMA Least ==
  ASSUME NEW T \in SUBSET Nat, T # {}
  PROVE  \E x \in T : \A y \in T : x <= y
<1> DEFINE Below == {0 .. n : n \in T}
<1>1. Below \in SUBSET FiniteSubsetsOf(Nat) /\ Below # {}
  <2>1. \A n \in T : IsFiniteSet(0 .. n) /\ 0 .. n \subseteq Nat
    BY FS_Interval
  <2> QED BY <2>1 DEF FiniteSubsetsOf
<1>2. PICK S \in Below : \A R \in Below : ~(<<R, S>> \in StrictSubsetOrdering(Nat))
  <2> HIDE DEF Below
  <2> QED BY <1>1, FS_StrictSubsetOrderingWellFounded, WFMin
<1>3. PICK x \in T : S = 0 .. x
  BY <1>2
<1>4. ASSUME NEW y \in T, y < x PROVE FALSE
  <2>1. 0 .. y \in Below /\ 0 .. y \subseteq S /\ 0 .. y # S
    BY <1>3, <1>4
  <2>2. <<0 .. y, S>> \in StrictSubsetOrdering(Nat)
    BY <1>3, <2>1 DEF StrictSubsetOrdering
  <2> QED BY <1>2, <2>1, <2>2
<1> QED BY <1>3, <1>4

LEMMA Induct ==
  ASSUME NEW T, 0 \in T, \A n \in Nat : n \in T => n + 1 \in T
  PROVE  Nat \subseteq T
<1> SUFFICES ASSUME Nat \ T # {} PROVE FALSE
  OBVIOUS
<1>1. PICK x \in Nat \ T : \A y \in Nat \ T : x <= y
  BY Least
<1> QED BY <1>1, x - 1 \in Nat /\ x - 1 \in T

(* A function defined step by step over 0 .. n.                            *)
IsStepwise(f, first, n, step) ==
  f[0] = first /\ \A i \in 1 .. n : f[i] = step[<<i, f[i - 1]>>]

LEMMA Stepwise ==
  ASSUME NEW X, NEW first \in X, NEW n \in Nat, NEW step \in [(1 .. n) \X X -> X]
  PROVE  \E f \in [0 .. n -> X] : IsStepwise(f, first, n, step)
<1> DEFINE T == {m \in Nat : m <= n => \E f \in [0 .. m -> X] :
                               f[0] = first /\ \A i \in 1 .. m : f[i] = step[<<i, f[i - 1]>>]}
<1>1. 0 \in T
  <2> DEFINE f == [i \in 0 .. 0 |-> first]
  <2>1. f \in [0 .. 0 -> X] /\ f[0] = first /\ 1 .. 0 = {}
    OBVIOUS
  <2> QED BY <2>1
<1>2. ASSUME NEW m \in Nat, m \in T PROVE m + 1 \in T
  <2> SUFFICES ASSUME m + 1 <= n
               PROVE  \E f \in [0 .. m + 1 -> X] : f[0] = first /\ \A i \in 1 .. m + 1 : f[i] = step[<<i, f[i - 1]>>]
    OBVIOUS
  <2>1. PICK f \in [0 .. m -> X] : f[0] = first /\ \A i \in 1 .. m : f[i] = step[<<i, f[i - 1]>>]
    BY <1>2
  <2> DEFINE g == [i \in 0 .. m + 1 |-> IF i <= m THEN f[i] ELSE step[<<m + 1, f[m]>>]]
  <2>2. step[<<m + 1, f[m]>>] \in X
    BY <2>1
  <2>3. g \in [0 .. m + 1 -> X]
    BY <2>2
  <2>5. \A i \in 0 .. m : g[i] = f[i]
    OBVIOUS
  <2>4. g[m + 1] = step[<<m + 1, f[m]>>]
    <3>1. m + 1 \in 0 .. m + 1 /\ ~(m + 1 <= m)
      OBVIOUS
    <3> QED BY <3>1
  <2>6. \A i \in 1 .. m + 1 : g[i] = step[<<i, g[i - 1]>>]
    <3>1. g[m + 1] = step[<<m + 1, g[m]>>]
      <4>1. g[m] = f[m]
        BY <2>5
      <4> HIDE DEF g
      <4> QED BY <2>4, <4>1
    <3>2. \A i \in 1 .. m : i \in 0 .. m /\ i - 1 \in 0 .. m
      OBVIOUS
    <3> HIDE DEF g
    <3> QED BY <2>1, <2>5, <3>1, <3>2
  <2>7. g[0] = first
    BY <2>1, <2>5
  <2> HIDE DEF g
  <2> QED BY <2>3, <2>6, <2>7
<1>3. n \in T
  <2> HIDE DEF T
  <2> QED BY <1>1, <1>2, Induct
<1> QED BY <1>3 DEF IsStepwise

-----------------------------------------------------------------------------
(* Positions.                                                              *)
LEMMA PrefixIs ==
  ASSUME NEW S, NEW s \in Seq(S), NEW t \in Seq(S)
  PROVE  IsPrefix(s, t) <=> Len(s) <= Len(t) /\ \A i \in 1 .. Len(s) : s[i] = t[i]
<1>1. ASSUME Len(s) <= Len(t)
      PROVE  /\ SubSeq(t, 1, Len(s)) \in Seq(S) /\ Len(SubSeq(t, 1, Len(s))) = Len(s)
             /\ \A i \in 1 .. Len(s) : SubSeq(t, 1, Len(s))[i] = t[i]
  BY <1>1
<1>2. SubSeq(s, 1, Len(s)) = s
  BY SubSeqFull
<1> QED BY <1>1, <1>2, SeqEqual DEF IsPrefix

LEMMA PrefixSplits ==
  ASSUME NEW S, NEW s \in Seq(S), NEW t \in Seq(S), IsPrefix(s, t)
  PROVE  /\ Beyond(s, t) \in Seq(S) /\ Len(Beyond(s, t)) = Len(t) - Len(s) /\ t = s \o Beyond(s, t)
         /\ \A i \in 1 .. Len(t) - Len(s) : Beyond(s, t)[i] = t[Len(s) + i]
<1>1. Len(s) <= Len(t) /\ \A i \in 1 .. Len(s) : s[i] = t[i]
  BY PrefixIs
<1>2. Beyond(s, t) \in Seq(S) /\ Len(Beyond(s, t)) = Len(t) - Len(s)
  BY <1>1 DEF Beyond
<1>3. \A i \in 1 .. Len(t) - Len(s) : Beyond(s, t)[i] = t[Len(s) + i]
  BY <1>1 DEF Beyond
<1>4. s \o Beyond(s, t) \in Seq(S) /\ Len(s \o Beyond(s, t)) = Len(t)
  BY <1>1, <1>2
<1>5. \A i \in 1 .. Len(t) : (s \o Beyond(s, t))[i] = t[i]
  BY <1>1, <1>2, <1>3
<1>6. t = s \o Beyond(s, t)
  BY <1>4, <1>5, SeqEqual
<1> QED BY <1>2, <1>3, <1>6

LEMMA Under ==
  ASSUME NEW S, NEW s \in Seq(S), NEW r \in Seq(S)
  PROVE  /\ s \o r \in Seq(S) /\ IsPrefix(s, s \o r) /\ Beyond(s, s \o r) = r
         /\ Len(s \o r) = Len(s) + Len(r)
<1>1. s \o r \in Seq(S) /\ Len(s \o r) = Len(s) + Len(r)
  OBVIOUS
<1>2. IsPrefix(s, s \o r)
  <2>1. \A i \in 1 .. Len(s) : (s \o r)[i] = s[i]
    OBVIOUS
  <2>2. \A t \in Seq(S) : IsPrefix(s, t) <=> Len(s) <= Len(t) /\ \A i \in 1 .. Len(s) : s[i] = t[i]
    BY PrefixIs
  <2>3. Len(s) <= Len(s \o r)
    BY <1>1
  <2> QED BY <1>1, <2>1, <2>2, <2>3
<1>3. PICK t \in Seq(S) : t = s \o r
  BY <1>1
<1>4. IsPrefix(s, t) /\ Len(t) = Len(s) + Len(r) /\ \A i \in 1 .. Len(r) : t[Len(s) + i] = r[i]
  BY <1>1, <1>2, <1>3
<1>5. Beyond(s, t) \in Seq(S) /\ Len(Beyond(s, t)) = Len(t) - Len(s)
      /\ \A i \in 1 .. Len(t) - Len(s) : Beyond(s, t)[i] = t[Len(s) + i]
  BY <1>4, PrefixSplits
<1>6. Len(Beyond(s, t)) = Len(r) /\ \A i \in 1 .. Len(r) : Beyond(s, t)[i] = r[i]
  BY <1>4, <1>5
<1>7. Beyond(s, t) = r
  BY <1>5, <1>6, SeqEqual
<1> QED BY <1>1, <1>2, <1>3, <1>7

LEMMA Ends ==
  ASSUME NEW S, NEW s \in Seq(S), s # <<>>
  PROVE  /\ Front(s) \in Seq(S) /\ Len(Front(s)) = Len(s) - 1 /\ Last(s) \in S
         /\ s = Append(Front(s), Last(s)) /\ Len(s) \in Nat \ {0}
         /\ \A i \in 1 .. Len(s) - 1 : Front(s)[i] = s[i]
         /\ Last(s) = s[Len(s)]
<1>1. Len(s) \in Nat \ {0}
  BY EmptySeq
<1>2. Front(s) \in Seq(S) /\ Len(Front(s)) = Len(s) - 1 /\ \A i \in 1 .. Len(s) - 1 : Front(s)[i] = s[i]
  <2>1. \A n \in 0 .. Len(s) : /\ SubSeq(s, 1, n) \in Seq(S) /\ Len(SubSeq(s, 1, n)) = n
                               /\ \A i \in 1 .. n : SubSeq(s, 1, n)[i] = s[i]
    OBVIOUS
  <2> QED BY <1>1, <2>1, Len(s) - 1 \in 0 .. Len(s) DEF Front
<1>3. Last(s) \in S
  BY <1>1 DEF Last
<1>4. Append(Front(s), Last(s)) \in Seq(S) /\ Len(Append(Front(s), Last(s))) = Len(s)
  BY <1>2, <1>3, <1>1
<1>5. \A i \in 1 .. Len(s) : Append(Front(s), Last(s))[i] = s[i]
  BY <1>1, <1>2, <1>3 DEF Last
<1> QED BY <1>1, <1>2, <1>3, <1>4, <1>5, SeqEqual DEF Last

LEMMA Appended ==
  ASSUME NEW S, NEW s \in Seq(S), NEW e \in S
  PROVE  /\ Append(s, e) \in Seq(S) /\ Append(s, e) # <<>> /\ Len(Append(s, e)) = Len(s) + 1
         /\ Front(Append(s, e)) = s /\ Last(Append(s, e)) = e
         /\ \A i \in 1 .. Len(s) : Append(s, e)[i] = s[i]
         /\ Append(s, e)[Len(s) + 1] = e
<1>1. Append(s, e) \in Seq(S) /\ Len(Append(s, e)) = Len(s) + 1 /\ \A i \in 1 .. Len(s) : Append(s, e)[i] = s[i]
  OBVIOUS
<1>2. Append(s, e)[Len(s) + 1] = e /\ Append(s, e) # <<>>
  OBVIOUS
<1>3. Front(Append(s, e)) \in Seq(S) /\ Len(Front(Append(s, e))) = Len(s)
       /\ \A i \in 1 .. Len(s) : Front(Append(s, e))[i] = s[i]
  BY <1>1 DEF Front
<1> QED BY <1>1, <1>2, <1>3, SeqEqual DEF Last

(* Steps and nodes.                                                        *)
LEMMA StepKinds ==
  /\ \A n \in Nat : Field(n) \in Steps /\ Field(n).is = "Field" /\ Field(n).name = n
  /\ \A i \in Nat : Index(i) \in Steps /\ Index(i).is = "Index" /\ Index(i).at = i
  /\ \A s \in Steps : \/ s.is = "Field" /\ s.name \in Nat /\ s = Field(s.name)
                      \/ s.is = "Index" /\ s.at \in Nat /\ s = Index(s.at)
  BY DEF Steps, Field, Index

LEMMA InnerSteps ==
  \A node \in Nodes :
    /\ StepsIn(node) \subseteq Steps
    /\ \A s \in StepsIn(node) : s.is = IF node.is = "object" THEN "Field" ELSE "Index"
    /\ \A s \in StepsIn(node) : node.is \in {"object", "array"}
    /\ node.is = "array" => node.len \in Nat /\ \A i \in Nat : Index(i) \in StepsIn(node) <=> i < node.len
    /\ node.is = "object" => node.names \in Seq(Nat) /\ \A n \in Nat : Field(n) \in StepsIn(node) <=> n \in ToSet(node.names)
<1> SUFFICES ASSUME NEW node \in Nodes
             PROVE  /\ StepsIn(node) \subseteq Steps
                    /\ \A s \in StepsIn(node) : s.is = IF node.is = "object" THEN "Field" ELSE "Index"
                    /\ \A s \in StepsIn(node) : node.is \in {"object", "array"}
                    /\ node.is = "array" => node.len \in Nat /\ \A i \in Nat : Index(i) \in StepsIn(node) <=> i < node.len
                    /\ node.is = "object" => node.names \in Seq(Nat) /\ \A n \in Nat : Field(n) \in StepsIn(node) <=> n \in ToSet(node.names)
  OBVIOUS
<1>1. CASE node.is = "object"
  <2>1. node.names \in Seq(Nat)
    BY <1>1 DEF Nodes
  <2>2. StepsIn(node) = {Field(name) : name \in ToSet(node.names)} /\ ToSet(node.names) \subseteq Nat
    BY <1>1, <2>1 DEF StepsIn, ToSet
  <2>3. \A n, m \in Nat : Field(n) = Field(m) => n = m
    BY StepKinds
  <2> QED BY <1>1, <2>1, <2>2, <2>3, StepKinds
<1>2. CASE node.is = "array"
  <2>1. node.len \in Nat
    BY <1>2 DEF Nodes
  <2>2. StepsIn(node) = {Index(i) : i \in 0 .. node.len - 1}
    BY <1>2, <2>1 DEF StepsIn
  <2>3. \A n, m \in Nat : Index(n) = Index(m) => n = m
    BY StepKinds
  <2> QED BY <1>2, <2>1, <2>2, <2>3, StepKinds
<1>3. CASE node.is \notin {"object", "array"}
  BY <1>3 DEF StepsIn
<1> QED BY <1>1, <1>2, <1>3

Documents == {value \in UNION {[places -> Nodes] : places \in SUBSET Seq(Steps)} : IsDocument(value)}

LEMMA DocumentIs ==
  \A value : value \in Documents <=> IsDocument(value)
<1>1. ASSUME NEW value, IsDocument(value) PROVE value \in Documents
  <2>1. DOMAIN value \in SUBSET Seq(Steps) /\ value \in [DOMAIN value -> Nodes]
    BY <1>1 DEF IsDocument
  <2> QED BY <1>1, <2>1 DEF Documents
<1> QED BY <1>1 DEF Documents

LEMMA DocumentParts ==
  ASSUME NEW value, IsDocument(value)
  PROVE  /\ value \in [DOMAIN value -> Nodes] /\ IsFiniteSet(DOMAIN value) /\ <<>> \in DOMAIN value
         /\ DOMAIN value \subseteq Seq(Steps)
         /\ \A x \in DOMAIN value : x # <<>> => Front(x) \in DOMAIN value /\ Last(x) \in StepsIn(value[Front(x)])
         /\ \A x \in DOMAIN value : \A step \in StepsIn(value[x]) : Append(x, step) \in DOMAIN value
         /\ \A x \in DOMAIN value : value[x].is = "object" => IsInjective(value[x].names)
         /\ \A x \in DOMAIN value : value[x] \in Nodes
  BY DEF IsDocument

(* With a position of a document, those on the way to it are.              *)
LEMMA OnTheWay ==
  ASSUME NEW value, IsDocument(value), NEW x \in DOMAIN value, NEW p \in Seq(Steps), IsPrefix(p, x)
  PROVE  p \in DOMAIN value
<1> DEFINE T == {n \in Nat : \A y \in DOMAIN value : IsPrefix(p, y) /\ Len(y) = Len(p) + n => p \in DOMAIN value}
<1>0. x \in Seq(Steps) /\ Len(x) - Len(p) \in Nat
  BY DocumentParts, PrefixIs
<1>1. 0 \in T
  <2> SUFFICES ASSUME NEW y \in DOMAIN value, IsPrefix(p, y), Len(y) = Len(p) PROVE p \in DOMAIN value
    OBVIOUS
  <2>1. y \in Seq(Steps)
    BY DocumentParts
  <2> QED BY <2>1, PrefixIs, SeqEqual
<1>2. ASSUME NEW n \in Nat, n \in T PROVE n + 1 \in T
  <2> SUFFICES ASSUME NEW y \in DOMAIN value, IsPrefix(p, y), Len(y) = Len(p) + (n + 1) PROVE p \in DOMAIN value
    OBVIOUS
  <2>1. y \in Seq(Steps) /\ y # <<>>
    BY DocumentParts
  <2>2. Front(y) \in DOMAIN value /\ Front(y) \in Seq(Steps)
    BY <2>1, DocumentParts, Ends
  <2>3. Len(Front(y)) = Len(p) + n /\ \A i \in 1 .. Len(p) + n : Front(y)[i] = y[i]
    BY <2>1, Ends
  <2>4. \A i \in 1 .. Len(p) : p[i] = y[i]
    BY <2>1, PrefixIs
  <2>5. IsPrefix(p, Front(y))
    BY <2>2, <2>3, <2>4, PrefixIs
  <2> QED BY <1>2, <2>2, <2>3, <2>5
<1>3. Len(x) - Len(p) \in T
  <2> HIDE DEF T
  <2> QED BY <1>0, <1>1, <1>2, Induct
<1> QED BY <1>0, <1>3

-----------------------------------------------------------------------------
(* Removing a path: where each place of the copy comes from, and that a    *)
(* document stays one.                                                     *)
(* What is at each place of a sequence without its element i.              *)
IsWithout(left, s, i, N) ==
  /\ left = RemoveAt(s, i) /\ Len(left) = N - 1
  /\ \A k \in 1 .. N - 1 : k < i => left[k] = s[k]
  /\ \A k \in 1 .. N - 1 : ~(k < i) => left[k] = s[k + 1]

LEMMA RemovedAt ==
  ASSUME NEW S, NEW s \in Seq(S), NEW N \in Nat, N = Len(s), NEW i \in 1 .. N
  PROVE  \E left \in Seq(S) : IsWithout(left, s, i, N)
<1>1. \A k \in 1 .. N : s[k] \in S
  OBVIOUS
<1>2. PICK f : f = SubSeq(s, 1, i - 1)
  OBVIOUS
<1>3. PICK g : g = SubSeq(s, i + 1, N)
  OBVIOUS
<1>4. f \in Seq(S) /\ Len(f) = IF 1 <= i - 1 THEN (i - 1) - 1 + 1 ELSE 0
  <2>1. \A k \in 1 .. i - 1 : s[k] \in S
    BY <1>1
  <2>2. 1 \in Int /\ i - 1 \in Int
    OBVIOUS
  <2> QED BY <1>2, <2>1, <2>2, SubSeqProperties
<1>5. \A k \in 1 .. (i - 1) - 1 + 1 : f[k] = s[1 + k - 1]
  <2>1. \A k \in 1 .. i - 1 : s[k] \in S
    BY <1>1
  <2>2. 1 \in Int /\ i - 1 \in Int
    OBVIOUS
  <2> QED BY <1>2, <2>1, <2>2, SubSeqProperties
<1>6. g \in Seq(S) /\ Len(g) = IF i + 1 <= N THEN N - (i + 1) + 1 ELSE 0
  <2>1. \A k \in i + 1 .. N : s[k] \in S
    BY <1>1
  <2>2. i + 1 \in Int /\ N \in Int
    OBVIOUS
  <2> QED BY <1>3, <2>1, <2>2, SubSeqProperties
<1>7. \A k \in 1 .. N - (i + 1) + 1 : g[k] = s[(i + 1) + k - 1]
  <2>1. \A k \in i + 1 .. N : s[k] \in S
    BY <1>1
  <2>2. i + 1 \in Int /\ N \in Int
    OBVIOUS
  <2> QED BY <1>3, <2>1, <2>2, SubSeqProperties
<1>8. Len(f) = i - 1 /\ Len(g) = N - i
  BY <1>4, <1>6
<1>9. PICK h : h = RemoveAt(s, i) /\ h = f \o g
  BY <1>2, <1>3 DEF RemoveAt
<1>a. f \in Seq(S) /\ g \in Seq(S)
  BY <1>4, <1>6
<1>b. /\ f \o g \in Seq(S) /\ Len(f \o g) = Len(f) + Len(g)
      /\ \A k \in 1 .. Len(f) + Len(g) : (f \o g)[k] = IF k <= Len(f) THEN f[k] ELSE g[k - Len(f)]
  BY <1>a, ConcatProperties
<1>c. Len(f) + Len(g) = N - 1
  BY <1>8
<1>10. h \in Seq(S) /\ Len(h) = N - 1
  BY <1>b, <1>c, <1>9
<1>11. \A k \in 1 .. N - 1 : h[k] = IF k <= i - 1 THEN f[k] ELSE g[k - (i - 1)]
  <2>1. \A k \in 1 .. N - 1 : h[k] = IF k <= Len(f) THEN f[k] ELSE g[k - Len(f)]
    BY <1>b, <1>c, <1>9
  <2> QED BY <1>8, <2>1
<1>12. ASSUME NEW k \in 1 .. N - 1, k < i PROVE h[k] = s[k]
  <2>1. k <= i - 1 /\ k \in 1 .. (i - 1) - 1 + 1 /\ 1 + k - 1 = k
    BY <1>12
  <2> QED BY <1>5, <1>11, <2>1
<1>13. ASSUME NEW k \in 1 .. N - 1, ~(k < i) PROVE h[k] = s[k + 1]
  <2>1. ~(k <= i - 1) /\ k - (i - 1) \in 1 .. N - (i + 1) + 1 /\ (i + 1) + (k - (i - 1)) - 1 = k + 1
    BY <1>13
  <2> QED BY <1>7, <1>11, <2>1
<1> QED BY <1>9, <1>10, <1>12, <1>13 DEF IsWithout

LEMMA LessNames ==
  ASSUME NEW names \in Seq(Nat), IsInjective(names), NEW i \in DOMAIN names
  PROVE  /\ RemoveAt(names, i) \in Seq(Nat) /\ IsInjective(RemoveAt(names, i))
         /\ ToSet(RemoveAt(names, i)) = ToSet(names) \ {names[i]}
<1>0. PICK N \in Nat : N = Len(names) /\ DOMAIN names = 1 .. N
  OBVIOUS
<1>1. i \in 1 .. N
  BY <1>0
<1>3. PICK left \in Seq(Nat) : IsWithout(left, names, i, N)
  BY <1>0, <1>1, RemovedAt
<1>4. /\ left = RemoveAt(names, i) /\ Len(left) = N - 1
      /\ \A k \in 1 .. N - 1 : k < i => left[k] = names[k]
      /\ \A k \in 1 .. N - 1 : ~(k < i) => left[k] = names[k + 1]
  BY <1>3 DEF IsWithout
<1>5. DOMAIN left = 1 .. N - 1
  BY <1>4
<1>6. \A k \in 1 .. N - 1 : left[k] = names[IF k < i THEN k ELSE k + 1]
  <2> TAKE k \in 1 .. N - 1
  <2>1. CASE k < i
    BY <1>4, <2>1
  <2>2. CASE ~(k < i)
    BY <1>4, <2>2
  <2> QED BY <2>1, <2>2
<1>7. \A j, k \in 1 .. N : names[j] = names[k] => j = k
  BY <1>0 DEF IsInjective
<1>8. IsInjective(left)
  <2>1. ASSUME NEW j \in 1 .. N - 1, NEW k \in 1 .. N - 1, left[j] = left[k] PROVE j = k
    <3> DEFINE o(l) == IF l < i THEN l ELSE l + 1
    <3>1. names[o(j)] = names[o(k)] /\ o(j) \in 1 .. N /\ o(k) \in 1 .. N
      BY <1>1, <1>6, <2>1
    <3>2. o(j) = o(k)
      BY <1>7, <3>1
    <3> QED BY <3>2
  <2> QED BY <1>5, <2>1 DEF IsInjective
<1>9. ToSet(left) = {left[k] : k \in 1 .. N - 1} /\ ToSet(names) = {names[k] : k \in 1 .. N}
  BY <1>0, <1>5 DEF ToSet
<1>10. \A n \in ToSet(left) : n \in ToSet(names) /\ n # names[i]
  <2> TAKE n \in ToSet(left)
  <2>1. PICK k \in 1 .. N - 1 : n = left[k]
    BY <1>9
  <2>2. PICK l \in 1 .. N : l # i /\ n = names[l]
    <3>1. (IF k < i THEN k ELSE k + 1) \in 1 .. N /\ (IF k < i THEN k ELSE k + 1) # i
      BY <1>1
    <3> QED BY <1>6, <2>1, <3>1
  <2> QED BY <1>1, <1>7, <1>9, <2>2
<1>11. ASSUME NEW n \in ToSet(names), n # names[i] PROVE n \in ToSet(left)
  <2>1. PICK k \in 1 .. N : names[k] = n
    BY <1>9
  <2>2. CASE k < i
    <3>1. k \in 1 .. N - 1 /\ left[k] = n
      BY <1>1, <1>6, <2>1, <2>2
    <3> QED BY <1>9, <3>1
  <2>3. CASE k > i
    <3>1. k - 1 \in 1 .. N - 1 /\ left[k - 1] = n
      BY <1>1, <1>6, <2>1, <2>3
    <3> QED BY <1>9, <3>1
  <2> QED BY <1>1, <1>11, <2>1, <2>2, <2>3
<1> QED BY <1>4, <1>8, <1>10, <1>11

LEMMA LessNode ==
  ASSUME NEW node \in Nodes, NEW step \in StepsIn(node), node.is = "object" => IsInjective(node.names)
  PROVE  /\ Less(node, step) \in Nodes /\ Less(node, step).is = node.is
         /\ node.is # "scalar"
         /\ node.is = "object" => /\ IsInjective(Less(node, step).names)
                                  /\ StepsIn(Less(node, step)) = StepsIn(node) \ {step}
         /\ node.is = "array" => Less(node, step).len = node.len - 1
<1>1. step \in Steps /\ node.is \in {"object", "array"} /\ step.is = IF node.is = "object" THEN "Field" ELSE "Index"
  BY InnerSteps
<1>2. CASE node.is = "array"
  <2>1. node.len \in Nat /\ node = [is |-> "array", len |-> node.len]
    BY <1>2 DEF Nodes
  <2>2. step.at \in Nat /\ step.at < node.len
    BY <1>1, <1>2, <2>1, StepKinds, InnerSteps
  <2>3. Less(node, step) = [is |-> "array", len |-> node.len - 1]
    BY <1>1, <1>2, <2>1 DEF Less
  <2> QED BY <1>2, <2>1, <2>2, <2>3 DEF Nodes
<1>3. CASE node.is = "object"
  <2>1. node.names \in Seq(Nat) /\ node = [is |-> "object", names |-> node.names]
    BY <1>3 DEF Nodes
  <2>2. step.name \in Nat /\ step = Field(step.name) /\ step.name \in ToSet(node.names)
    BY <1>1, <1>3, StepKinds, InnerSteps
  <2> DEFINE i == CHOOSE j \in DOMAIN node.names : node.names[j] = step.name
  <2>3. i \in DOMAIN node.names /\ node.names[i] = step.name
    BY <2>2 DEF ToSet
  <2>4. Less(node, step) = [node EXCEPT !.names = RemoveAt(node.names, i)]
    BY <1>1, <1>3 DEF Less
  <2> HIDE DEF i
  <2>5. Less(node, step) = [is |-> "object", names |-> RemoveAt(node.names, i)]
    BY <2>1, <2>4
  <2>6. /\ RemoveAt(node.names, i) \in Seq(Nat) /\ IsInjective(RemoveAt(node.names, i))
        /\ ToSet(RemoveAt(node.names, i)) = ToSet(node.names) \ {step.name}
    BY <1>3, <2>1, <2>3, LessNames
  <2>7. StepsIn(Less(node, step)) = {Field(name) : name \in ToSet(node.names) \ {step.name}}
    BY <2>5, <2>6 DEF StepsIn
  <2>8. StepsIn(node) = {Field(name) : name \in ToSet(node.names)} /\ ToSet(node.names) \subseteq Nat
    BY <1>3, <2>1 DEF StepsIn, ToSet
  <2>9. \A n, m \in Nat : Field(n) = Field(m) => n = m
    BY StepKinds
  <2>10. StepsIn(Less(node, step)) = StepsIn(node) \ {step}
    BY <2>2, <2>7, <2>8, <2>9
  <2>11. Less(node, step) \in Nodes
    BY <2>5, <2>6 DEF Nodes
  <2> QED BY <1>3, <2>5, <2>6, <2>10, <2>11
<1> QED BY <1>1, <1>2, <1>3

(* Where a document's position is a set of positions closed under Front,   *)
(* and the children of a node are exactly the positions behind it.         *)
LEMMA DocumentWhen ==
  ASSUME NEW value, value \in [DOMAIN value -> Nodes], IsFiniteSet(DOMAIN value), <<>> \in DOMAIN value,
         DOMAIN value \subseteq Seq(Steps),
         \A x \in DOMAIN value : x # <<>> => Front(x) \in DOMAIN value,
         \A x \in DOMAIN value : \A step \in Steps : step \in StepsIn(value[x]) <=> Append(x, step) \in DOMAIN value,
         \A x \in DOMAIN value : value[x].is = "object" => IsInjective(value[x].names)
  PROVE  IsDocument(value)
<1> SUFFICES ASSUME NEW x \in DOMAIN value
             PROVE  /\ x \in Seq(Steps)
                    /\ x # <<>> => Front(x) \in DOMAIN value /\ Last(x) \in StepsIn(value[Front(x)])
                    /\ \A step \in StepsIn(value[x]) : Append(x, step) \in DOMAIN value
                    /\ value[x].is = "object" => IsInjective(value[x].names)
  BY DEF IsDocument
<1>1. x \in Seq(Steps) /\ (value[x].is = "object" => IsInjective(value[x].names))
  OBVIOUS
<1>2. ASSUME x # <<>> PROVE Front(x) \in DOMAIN value /\ Last(x) \in StepsIn(value[Front(x)])
  <2>1. Front(x) \in DOMAIN value /\ Last(x) \in Steps /\ x = Append(Front(x), Last(x))
    BY <1>1, <1>2, Ends
  <2> QED BY <2>1
<1>3. value[x] \in Nodes
  OBVIOUS
<1>4. StepsIn(value[x]) \subseteq Steps
  BY <1>3, InnerSteps
<1> QED BY <1>1, <1>2, <1>4

LEMMA Children ==
  ASSUME NEW value, IsDocument(value), NEW x \in DOMAIN value, NEW step \in Steps
  PROVE  step \in StepsIn(value[x]) <=> Append(x, step) \in DOMAIN value
<1>1. x \in Seq(Steps)
  BY DocumentParts
<1>2. Append(x, step) # <<>> /\ Front(Append(x, step)) = x /\ Last(Append(x, step)) = step
  BY <1>1, Appended
<1> QED BY <1>2, DocumentParts

(* The place in the payload of a place in the copy without what is at path.*)
Affected(path, y) ==
  /\ Last(path).is = "Index" /\ Len(y) >= Len(path)
  /\ \A i \in 1 .. Len(path) - 1 : path[i] = y[i]
  /\ y[Len(path)].is = "Index" /\ y[Len(path)].at >= Last(path).at

Origin(path, y) ==
  IF Affected(path, y) THEN [y EXCEPT ![Len(path)] = Index(y[Len(path)].at + 1)] ELSE y

IsChanged(t, s, n, e) ==
  /\ t = [s EXCEPT ![n] = e] /\ Len(t) = Len(s) /\ t[n] = e
  /\ \A i \in 1 .. Len(s) : i # n => t[i] = s[i]

LEMMA Changed ==
  ASSUME NEW S, NEW s \in Seq(S), NEW n \in 1 .. Len(s), NEW e \in S
  PROVE  \E t \in Seq(S) : IsChanged(t, s, n, e)
<1>1. PICK N \in Nat : N = Len(s) /\ DOMAIN s = 1 .. N
  OBVIOUS
<1>2. PICK t : t = [s EXCEPT ![n] = e]
  OBVIOUS
<1>3. DOMAIN t = 1 .. N /\ t[n] = e /\ \A i \in 1 .. N : i # n => t[i] = s[i]
  BY <1>1, <1>2
<1>4. t \in [1 .. N -> S]
  <2>1. \A i \in 1 .. N : t[i] \in S
    BY <1>1, <1>3
  <2>2. t = [i \in 1 .. N |-> t[i]]
    BY <1>1, <1>2
  <2> QED BY <2>1, <2>2
<1>5. t \in Seq(S) /\ Len(t) = N
  BY <1>4
<1>6. IsChanged(t, s, n, e)
  BY <1>1, <1>2, <1>3, <1>5 DEF IsChanged
<1> QED BY <1>5, <1>6

IsOrigin(x, path, y) ==
  /\ x = Origin(path, y) /\ Len(x) = Len(y)
  /\ \A i \in 1 .. Len(y) : i # Len(path) => x[i] = y[i]
  /\ Affected(path, y) => /\ Len(path) \in 1 .. Len(y) /\ x[Len(path)] = Index(y[Len(path)].at + 1)
                          /\ y[Len(path)].at \in Nat /\ y[Len(path)] = Index(y[Len(path)].at)
  /\ ~Affected(path, y) => x = y

LEMMA Origins ==
  ASSUME NEW path \in Seq(Steps), path # <<>>, NEW y \in Seq(Steps)
  PROVE  \E x \in Seq(Steps) : IsOrigin(x, path, y)
<1>1. Len(path) \in Nat \ {0}
  BY Ends
<1>2. CASE Affected(path, y)
  <2>1. Len(path) \in 1 .. Len(y)
    BY <1>1, <1>2 DEF Affected
  <2>2. y[Len(path)] \in Steps
    BY <2>1
  <2>3. y[Len(path)].at \in Nat /\ y[Len(path)] = Index(y[Len(path)].at)
    BY <1>2, <2>2, StepKinds DEF Affected
  <2>4. Index(y[Len(path)].at + 1) \in Steps
    BY <2>3, StepKinds
  <2>5. Origin(path, y) = [y EXCEPT ![Len(path)] = Index(y[Len(path)].at + 1)]
    BY <1>2 DEF Origin
  <2>6. PICK x \in Seq(Steps) : IsChanged(x, y, Len(path), Index(y[Len(path)].at + 1))
    BY <2>1, <2>4, Changed
  <2>7. IsOrigin(x, path, y)
    BY <1>2, <2>1, <2>3, <2>5, <2>6 DEF IsOrigin, IsChanged
  <2> QED BY <2>7
<1>3. CASE ~Affected(path, y)
  <2>1. IsOrigin(y, path, y)
    BY <1>3 DEF IsOrigin, Origin
  <2> QED BY <2>1
<1> QED BY <1>2, <1>3

LEMMA BehindIs ==
  ASSUME NEW path \in Seq(Steps), path # <<>>, NEW x \in Seq(Steps)
  PROVE  Behind(path, x) <=> /\ Last(path).is = "Index" /\ Len(x) >= Len(path)
                             /\ \A i \in 1 .. Len(path) - 1 : path[i] = x[i]
                             /\ x[Len(path)].is = "Index" /\ x[Len(path)].at > Last(path).at
<1>1. PICK f \in Seq(Steps) : f = Front(path) /\ Len(f) = Len(path) - 1 /\ \A i \in 1 .. Len(path) - 1 : f[i] = path[i]
  BY Ends
<1>2. IsPrefix(f, x) <=> Len(f) <= Len(x) /\ \A i \in 1 .. Len(f) : f[i] = x[i]
  BY PrefixIs
<1>3. Len(path) \in Nat \ {0}
  BY Ends
<1>4. Len(x) >= Len(path) => (IsPrefix(f, x) <=> \A i \in 1 .. Len(path) - 1 : path[i] = x[i])
  BY <1>1, <1>2, <1>3
<1> QED BY <1>1, <1>4 DEF Behind

LEMMA MovedBack ==
  ASSUME NEW path \in Seq(Steps), path # <<>>, NEW x \in Seq(Steps), ~IsPrefix(path, x)
  PROVE  MovedUp(path, x) \in Seq(Steps) /\ Origin(path, MovedUp(path, x)) = x
<1>0. PICK n \in Nat \ {0} : n = Len(path)
  BY Ends
<1>9. Last(path) = path[n] /\ Last(path) \in Steps
  BY <1>0, Ends
<1>1. CASE Behind(path, x)
  <2>1. /\ Last(path).is = "Index" /\ Len(x) >= n /\ \A i \in 1 .. n - 1 : path[i] = x[i]
        /\ x[n].is = "Index" /\ x[n].at > Last(path).at
    BY <1>0, <1>1, BehindIs
  <2>2. n \in 1 .. Len(x) /\ x[n] \in Steps
    BY <2>1
  <2>3. x[n].at \in Nat /\ x[n] = Index(x[n].at) /\ Last(path).at \in Nat
    BY <1>9, <2>1, <2>2, StepKinds
  <2>4. PICK e \in Steps : e = Index(x[n].at - 1) /\ e.is = "Index" /\ e.at = x[n].at - 1
    <3>1. x[n].at - 1 \in Nat
      BY <2>1, <2>3
    <3> QED BY <3>1, StepKinds
  <2>5. PICK y \in Seq(Steps) : /\ y = [x EXCEPT ![n] = e] /\ Len(y) = Len(x) /\ y[n] = e
                                /\ \A i \in 1 .. Len(x) : i # n => y[i] = x[i]
    <3>1. PICK y \in Seq(Steps) : IsChanged(y, x, n, e)
      BY <2>2, Changed
    <3> QED BY <3>1 DEF IsChanged
  <2>6. MovedUp(path, x) = y
    BY <1>0, <1>1, <2>4, <2>5 DEF MovedUp
  <2>7. Affected(path, y)
    <3>1. \A i \in 1 .. n - 1 : path[i] = y[i]
      BY <2>1, <2>2, <2>5
    <3> QED BY <1>0, <2>1, <2>3, <2>4, <2>5, <3>1 DEF Affected
  <2>8. PICK z \in Seq(Steps) : /\ z = Origin(path, y) /\ Len(z) = Len(x) /\ z[n] = Index(y[n].at + 1)
                                /\ \A i \in 1 .. Len(y) : i # n => z[i] = y[i]
    <3>1. PICK z \in Seq(Steps) : IsOrigin(z, path, y)
      BY Origins
    <3> QED BY <1>0, <2>5, <2>7, <3>1 DEF IsOrigin
  <2>9. z[n] = x[n]
    BY <2>3, <2>4, <2>5, <2>8
  <2>10. \A i \in 1 .. Len(x) : z[i] = x[i]
    BY <2>5, <2>8, <2>9
  <2>11. z = x
    BY <2>8, <2>10, SeqEqual
  <2> QED BY <2>5, <2>6, <2>8, <2>11
<1>2. CASE ~Behind(path, x)
  <2>1. MovedUp(path, x) = x
    BY <1>2 DEF MovedUp
  <2>2. ASSUME Affected(path, x) PROVE FALSE
    <3>1. /\ Last(path).is = "Index" /\ Len(x) >= n /\ \A i \in 1 .. n - 1 : path[i] = x[i]
          /\ x[n].is = "Index" /\ x[n].at >= Last(path).at
      BY <1>0, <2>2 DEF Affected
    <3>2. ~(x[n].at > Last(path).at)
      BY <1>0, <1>2, <3>1, BehindIs
    <3>3. n \in 1 .. Len(x) /\ x[n] \in Steps
      BY <3>1
    <3>4. x[n].at \in Nat /\ x[n] = Index(x[n].at) /\ Last(path).at \in Nat /\ Last(path) = Index(Last(path).at)
      BY <1>9, <3>1, <3>3, StepKinds
    <3>5. x[n] = path[n]
      <4>1. x[n].at = Last(path).at
        BY <3>1, <3>2, <3>4
      <4> QED BY <1>9, <3>4, <4>1
    <3>6. \A i \in 1 .. n : path[i] = x[i]
      BY <3>1, <3>5
    <3> QED BY <1>0, <3>1, <3>6, PrefixIs
  <2> QED BY <2>1, <2>2 DEF Origin
<1> QED BY <1>1, <1>2

LEMMA MovedOn ==
  ASSUME NEW path \in Seq(Steps), path # <<>>, NEW y \in Seq(Steps)
  PROVE  /\ MovedUp(path, Origin(path, y)) = y
         /\ Affected(path, y) => ~IsPrefix(path, Origin(path, y))
<1>0. PICK n \in Nat \ {0} : n = Len(path)
  BY Ends
<1>9. Last(path) = path[n] /\ Last(path) \in Steps
  BY <1>0, Ends
<1>1. CASE Affected(path, y)
  <2>1. /\ Last(path).is = "Index" /\ Len(y) >= n /\ \A i \in 1 .. n - 1 : path[i] = y[i]
        /\ y[n].is = "Index" /\ y[n].at >= Last(path).at
    BY <1>0, <1>1 DEF Affected
  <2>2. PICK x \in Seq(Steps) : /\ x = Origin(path, y) /\ Len(x) = Len(y)
                                /\ \A i \in 1 .. Len(y) : i # n => x[i] = y[i]
                                /\ x[n] = Index(y[n].at + 1) /\ n \in 1 .. Len(y)
                                /\ y[n].at \in Nat /\ y[n] = Index(y[n].at)
    <3>1. PICK x \in Seq(Steps) : IsOrigin(x, path, y)
      BY Origins
    <3> QED BY <1>0, <1>1, <3>1 DEF IsOrigin
  <2>3. Last(path).at \in Nat
    BY <1>9, <2>1, StepKinds
  <2>4. x[n].is = "Index" /\ x[n].at = y[n].at + 1 /\ y[n] \in Steps
    <3>1. PICK k \in Nat : k = y[n].at /\ x[n] = Index(k + 1) /\ y[n] = Index(k)
      BY <2>2
    <3>2. k + 1 \in Nat /\ Index(k + 1).is = "Index" /\ Index(k + 1).at = k + 1 /\ Index(k) \in Steps
      BY StepKinds
    <3> QED BY <3>1, <3>2
  <2>5. Behind(path, x)
    <3>1. \A i \in 1 .. n - 1 : path[i] = x[i]
      BY <2>1, <2>2
    <3>2. x[n].at > Last(path).at
      BY <2>1, <2>2, <2>3, <2>4
    <3> QED BY <1>0, <2>1, <2>2, <2>4, <3>1, <3>2, BehindIs
  <2>6. PICK z \in Seq(Steps) : /\ z = [x EXCEPT ![n] = y[n]] /\ Len(z) = Len(x) /\ z[n] = y[n]
                                /\ \A i \in 1 .. Len(x) : i # n => z[i] = x[i]
    <3>1. n \in 1 .. Len(x)
      BY <2>2
    <3>2. PICK z \in Seq(Steps) : IsChanged(z, x, n, y[n])
      BY <2>4, <3>1, Changed
    <3> QED BY <3>2 DEF IsChanged
  <2>7. MovedUp(path, x) = z
    <3>1. Index(x[n].at - 1) = y[n]
      BY <2>2, <2>4
    <3> QED BY <1>0, <2>5, <2>6, <3>1 DEF MovedUp
  <2>8. \A i \in 1 .. Len(y) : z[i] = y[i]
    BY <2>2, <2>6
  <2>9. z = y
    BY <2>2, <2>6, <2>8, SeqEqual
  <2>10. x[n] # path[n]
    BY <1>9, <2>1, <2>2, <2>3, <2>4
  <2>11. ~IsPrefix(path, x)
    BY <1>0, <2>10, PrefixIs
  <2> QED BY <2>2, <2>7, <2>9, <2>11
<1>2. CASE ~Affected(path, y)
  <2>1. Origin(path, y) = y
    BY <1>2 DEF Origin
  <2>2. ~Behind(path, y)
    <3> SUFFICES ASSUME Behind(path, y) PROVE Affected(path, y)
      BY <1>2
    <3>1. /\ Last(path).is = "Index" /\ Len(y) >= n /\ \A i \in 1 .. n - 1 : path[i] = y[i]
          /\ y[n].is = "Index" /\ y[n].at > Last(path).at
      BY <1>0, BehindIs
    <3>3. n \in 1 .. Len(y) /\ y[n] \in Steps
      BY <3>1
    <3>4. y[n].at \in Nat /\ Last(path).at \in Nat
      BY <1>9, <3>1, <3>3, StepKinds
    <3> QED BY <1>0, <3>1, <3>4 DEF Affected
  <2> QED BY <1>2, <2>1, <2>2 DEF MovedUp
<1> QED BY <1>1, <1>2

(* The step in the payload of a step in the copy, where the path removed   *)
(* an element.                                                             *)
StepBack(path, step) ==
  IF Last(path).is = "Index" /\ step.is = "Index" /\ step.at >= Last(path).at
  THEN Index(step.at + 1) ELSE step

LEMMA StepsBack ==
  ASSUME NEW path \in Seq(Steps), path # <<>>, NEW step \in Steps
  PROVE  StepBack(path, step) \in Steps
<1>1. step.is = "Index" => step.at \in Nat
  BY StepKinds
<1> QED BY <1>1, StepKinds DEF StepBack

IsAppended(t, s, e) ==
  /\ t = Append(s, e) /\ Len(t) = Len(s) + 1 /\ t[Len(s) + 1] = e
  /\ \A i \in 1 .. Len(s) : t[i] = s[i]

LEMMA AppendedIs ==
  ASSUME NEW S, NEW s \in Seq(S), NEW e \in S
  PROVE  \E t \in Seq(S) : IsAppended(t, s, e)
<1>1. Append(s, e) \in Seq(S) /\ IsAppended(Append(s, e), s, e)
  BY Appended DEF IsAppended
<1> QED BY <1>1

LEMMA OriginAppend ==
  ASSUME NEW path \in Seq(Steps), path # <<>>, NEW y \in Seq(Steps), NEW step \in Steps
  PROVE  Origin(path, Append(y, step)) =
           IF y = Front(path) THEN Append(y, StepBack(path, step)) ELSE Append(Origin(path, y), step)
<1>0. PICK n \in Nat \ {0} : n = Len(path)
  BY Ends
<1>1. PICK f \in Seq(Steps) : f = Front(path) /\ Len(f) = n - 1 /\ \A i \in 1 .. n - 1 : f[i] = path[i]
  BY <1>0, Ends
<1>2. PICK z \in Seq(Steps) : /\ z = Append(y, step) /\ Len(z) = Len(y) + 1 /\ z[Len(y) + 1] = step
                              /\ \A i \in 1 .. Len(y) : z[i] = y[i]
  <2>1. PICK z \in Seq(Steps) : IsAppended(z, y, step)
    BY AppendedIs
  <2> QED BY <2>1 DEF IsAppended
<1>3. Affected(path, z) <=> /\ Last(path).is = "Index" /\ Len(y) + 1 >= n
                            /\ \A i \in 1 .. n - 1 : path[i] = z[i]
                            /\ z[n].is = "Index" /\ z[n].at >= Last(path).at
  BY <1>0, <1>2 DEF Affected
<1>4. Affected(path, y) <=> /\ Last(path).is = "Index" /\ Len(y) >= n
                            /\ \A i \in 1 .. n - 1 : path[i] = y[i]
                            /\ y[n].is = "Index" /\ y[n].at >= Last(path).at
  BY <1>0 DEF Affected
<1>5. CASE Len(y) >= n
  <2>1. Affected(path, z) <=> Affected(path, y)
    <3>1. z[n] = y[n] /\ \A i \in 1 .. n - 1 : z[i] = y[i]
      BY <1>2, <1>5
    <3> QED BY <1>3, <1>4, <1>5, <3>1
  <2>2. y # Front(path)
    BY <1>1, <1>5
  <2>3. CASE ~Affected(path, y)
    BY <1>2, <2>1, <2>2, <2>3 DEF Origin
  <2>4. CASE Affected(path, y)
    <3>1. PICK v \in Seq(Steps) : IsOrigin(v, path, y)
      BY Origins
    <3>2. PICK w \in Seq(Steps) : IsOrigin(w, path, z)
      BY Origins
    <3>3. /\ v = Origin(path, y) /\ Len(v) = Len(y) /\ \A i \in 1 .. Len(y) : i # n => v[i] = y[i]
          /\ v[n] = Index(y[n].at + 1)
      BY <1>0, <2>4, <3>1 DEF IsOrigin
    <3>4. /\ w = Origin(path, z) /\ Len(w) = Len(y) + 1 /\ \A i \in 1 .. Len(y) + 1 : i # n => w[i] = z[i]
          /\ w[n] = Index(z[n].at + 1)
      BY <1>0, <1>2, <2>1, <2>4, <3>2 DEF IsOrigin
    <3>5. PICK u \in Seq(Steps) : /\ u = Append(v, step) /\ Len(u) = Len(y) + 1 /\ u[Len(y) + 1] = step
                                  /\ \A i \in 1 .. Len(y) : u[i] = v[i]
      <4>1. PICK u \in Seq(Steps) : IsAppended(u, v, step)
        BY <3>3, AppendedIs
      <4> QED BY <3>3, <4>1 DEF IsAppended
    <3>6. ASSUME NEW i \in 1 .. Len(y) + 1 PROVE u[i] = w[i]
      <4>1. CASE i = Len(y) + 1
        BY <1>2, <1>5, <3>4, <3>5, <4>1
      <4>2. CASE i # Len(y) + 1 /\ i # n
        BY <1>2, <3>3, <3>4, <3>5, <4>2
      <4>3. CASE i = n
        BY <1>2, <1>5, <3>3, <3>4, <3>5, <4>3
      <4> QED BY <4>1, <4>2, <4>3
    <3>7. u = w
      BY <3>4, <3>5, <3>6, SeqEqual
    <3> QED BY <1>2, <2>2, <3>3, <3>4, <3>5, <3>7
  <2> QED BY <2>3, <2>4
<1>6. CASE Len(y) < n - 1
  <2>1. ~Affected(path, y) /\ ~Affected(path, z) /\ y # Front(path)
    BY <1>1, <1>3, <1>4, <1>6
  <2> QED BY <1>2, <2>1 DEF Origin
<1>7. CASE Len(y) = n - 1 /\ y # Front(path)
  <2>1. \E i \in 1 .. n - 1 : y[i] # path[i]
    BY <1>1, <1>7, SeqEqual
  <2>2. ~Affected(path, y) /\ ~Affected(path, z)
    BY <1>2, <1>3, <1>4, <1>7, <2>1
  <2> QED BY <1>2, <1>7, <2>2 DEF Origin
<1>8. CASE y = Front(path)
  <2>1. y = f /\ Len(y) = n - 1 /\ z[n] = step /\ \A i \in 1 .. n - 1 : path[i] = z[i]
    BY <1>1, <1>2, <1>8
  <2>2. Affected(path, z) <=> Last(path).is = "Index" /\ step.is = "Index" /\ step.at >= Last(path).at
    BY <1>3, <2>1
  <2>3. CASE ~Affected(path, z)
    BY <1>2, <1>8, <2>2, <2>3 DEF Origin, StepBack
  <2>4. CASE Affected(path, z)
    <3>1. PICK w \in Seq(Steps) : IsOrigin(w, path, z)
      BY Origins
    <3>2. /\ w = Origin(path, z) /\ Len(w) = n /\ \A i \in 1 .. n : i # n => w[i] = z[i]
          /\ w[n] = Index(step.at + 1) /\ step.at \in Nat
      BY <1>0, <1>2, <2>1, <2>4, <3>1 DEF IsOrigin
    <3>3. Index(step.at + 1) \in Steps
      BY <3>2, StepKinds
    <3>4. PICK u \in Seq(Steps) : /\ u = Append(y, Index(step.at + 1)) /\ Len(u) = n /\ u[n] = Index(step.at + 1)
                                  /\ \A i \in 1 .. n - 1 : u[i] = y[i]
      <4>1. PICK u \in Seq(Steps) : IsAppended(u, y, Index(step.at + 1))
        BY <3>3, AppendedIs
      <4>2. n - 1 + 1 = n
        OBVIOUS
      <4> QED BY <2>1, <4>1, <4>2 DEF IsAppended
    <3>5. \A i \in 1 .. n : u[i] = w[i]
      BY <1>2, <2>1, <3>2, <3>4
    <3>6. u = w
      BY <3>2, <3>4, <3>5, SeqEqual
    <3>7. StepBack(path, step) = Index(step.at + 1)
      BY <2>2, <2>4 DEF StepBack
    <3> QED BY <1>2, <1>8, <3>2, <3>4, <3>6, <3>7
  <2> QED BY <2>3, <2>4
<1> QED BY <1>0, <1>5, <1>6, <1>7, <1>8

LEMMA OriginFront ==
  ASSUME NEW path \in Seq(Steps), path # <<>>, NEW y \in Seq(Steps), y # <<>>
  PROVE  Front(Origin(path, y)) = Origin(path, Front(y)) /\ Origin(path, y) # <<>>
<1>1. PICK f \in Seq(Steps), s \in Steps : f = Front(y) /\ y = Append(f, s)
  BY Ends
<1>2. CASE f # Front(path)
  <2>1. Origin(path, y) = Append(Origin(path, f), s)
    <3>1. Origin(path, Append(f, s)) = IF f = Front(path) THEN Append(f, StepBack(path, s)) ELSE Append(Origin(path, f), s)
      BY OriginAppend
    <3> QED BY <1>1, <1>2, <3>1
  <2>2. PICK o \in Seq(Steps) : o = Origin(path, f)
    BY Origins DEF IsOrigin
  <2> QED BY <1>1, <2>1, <2>2, Appended
<1>3. CASE f = Front(path)
  <2>1. Origin(path, y) = Append(f, StepBack(path, s)) /\ StepBack(path, s) \in Steps
    <3>1. Origin(path, Append(f, s)) = IF f = Front(path) THEN Append(f, StepBack(path, s)) ELSE Append(Origin(path, f), s)
      BY OriginAppend
    <3> QED BY <1>1, <1>3, <3>1, StepsBack
  <2>2. Origin(path, f) = f
    <3>1. Len(f) = Len(path) - 1 /\ Len(path) \in Nat
      BY <1>3, Ends
    <3> QED BY <3>1 DEF Origin, Affected
  <2> QED BY <1>1, <2>1, <2>2, Appended
<1> QED BY <1>2, <1>3

LEMMA PrefixAppend ==
  ASSUME NEW S, NEW s \in Seq(S), NEW t \in Seq(S), NEW e \in S
  PROVE  IsPrefix(s, Append(t, e)) <=> IsPrefix(s, t) \/ s = Append(t, e)
<1>1. PICK u \in Seq(S) : IsAppended(u, t, e)
  BY AppendedIs
<1>2. u = Append(t, e) /\ Len(u) = Len(t) + 1 /\ u[Len(t) + 1] = e /\ \A i \in 1 .. Len(t) : u[i] = t[i]
  BY <1>1 DEF IsAppended
<1>3. IsPrefix(s, u) <=> Len(s) <= Len(u) /\ \A i \in 1 .. Len(s) : s[i] = u[i]
  BY PrefixIs
<1>4. IsPrefix(s, t) <=> Len(s) <= Len(t) /\ \A i \in 1 .. Len(s) : s[i] = t[i]
  BY PrefixIs
<1>5. ASSUME Len(s) <= Len(t) PROVE (IsPrefix(s, u) <=> IsPrefix(s, t)) /\ s # u
  BY <1>2, <1>3, <1>4, <1>5
<1>6. ASSUME Len(s) = Len(t) + 1 PROVE (IsPrefix(s, u) <=> s = u) /\ ~IsPrefix(s, t)
  <2>1. IsPrefix(s, u) => s = u
    BY <1>2, <1>3, <1>6, SeqEqual
  <2>2. s = u => IsPrefix(s, u)
    BY <1>3
  <2> QED BY <1>4, <1>6, <2>1, <2>2
<1>7. ASSUME Len(s) > Len(t) + 1 PROVE ~IsPrefix(s, u) /\ s # u /\ ~IsPrefix(s, t)
  BY <1>2, <1>3, <1>4, <1>7
<1> QED BY <1>2, <1>5, <1>6, <1>7

LEMMA FiniteImage ==
  ASSUME NEW f, IsFiniteSet(DOMAIN f)
  PROVE  IsFiniteSet({f[x] : x \in DOMAIN f})
<1>1. PICK A : A = DOMAIN f
  OBVIOUS
<1>2. PICK g : g = [x \in A |-> f[x]]
  OBVIOUS
<1>3. g \in Surjection(A, {g[x] : x \in A})
  BY <1>2 DEF Surjection
<1>4. {g[x] : x \in A} = {f[x] : x \in DOMAIN f}
  BY <1>1, <1>2
<1> QED BY <1>1, <1>3, <1>4, FS_Surjection

(* What a kept place's place in the payload is.                            *)
Kept(value, path) == {x \in DOMAIN value : ~IsPrefix(path, x)}

LEMMA RemovePlaces ==
  ASSUME NEW value, IsDocument(value), NEW path \in DOMAIN value, path # <<>>
  PROVE  /\ DOMAIN RemovePath(value, path) \subseteq Seq(Steps) /\ IsFiniteSet(DOMAIN RemovePath(value, path))
         /\ \A y \in Seq(Steps) : y \in DOMAIN RemovePath(value, path) <=> Origin(path, y) \in Kept(value, path)
         /\ \A y \in DOMAIN RemovePath(value, path) :
              RemovePath(value, path)[y] =
                IF y = Front(path) THEN Less(value[y], Last(path)) ELSE value[Origin(path, y)]
         /\ RemovePath(value, path) = [y \in DOMAIN RemovePath(value, path) |-> RemovePath(value, path)[y]]
<1> DEFINE kept == Kept(value, path)
           places == {MovedUp(path, x) : x \in kept}
           From(y) == CHOOSE x \in kept : MovedUp(path, x) = y
           copy == [y \in places |-> IF y = Front(path) THEN Less(value[y], Last(path)) ELSE value[From(y)]]
<1>1. RemovePath(value, path) = copy
  BY DEF RemovePath, Kept
<1>2. path \in Seq(Steps) /\ kept \subseteq Seq(Steps) /\ \A x \in kept : ~IsPrefix(path, x)
  BY DocumentParts DEF Kept
<1>3. \A x \in kept : MovedUp(path, x) \in Seq(Steps) /\ Origin(path, MovedUp(path, x)) = x
  <2> HIDE DEF kept
  <2> QED BY <1>2, MovedBack
<1>4. places \subseteq Seq(Steps)
  BY <1>3
<1>5. \A y \in Seq(Steps) : MovedUp(path, Origin(path, y)) = y
  BY <1>2, MovedOn
<1>6. \A y \in Seq(Steps) : y \in places <=> Origin(path, y) \in kept
  BY <1>3, <1>5
<1>7. \A y \in places : From(y) = Origin(path, y)
  <2> TAKE y \in places
  <2>1. From(y) \in kept /\ MovedUp(path, From(y)) = y
    <3> HIDE DEF kept
    <3> QED OBVIOUS
  <2> QED BY <1>3, <2>1
<1>8. IsFiniteSet(places)
  <2>1. IsFiniteSet(kept)
    BY DocumentParts, FS_Subset DEF Kept
  <2> DEFINE g == [x \in kept |-> MovedUp(path, x)]
  <2>2. IsFiniteSet(DOMAIN g) /\ places = {g[x] : x \in DOMAIN g}
    BY <2>1
  <2> HIDE DEF kept, places, g
  <2> QED BY <2>2, FiniteImage
<1>9. DOMAIN copy = places
  OBVIOUS
<1>10. \A y \in places : copy[y] = IF y = Front(path) THEN Less(value[y], Last(path)) ELSE value[Origin(path, y)]
  <2> HIDE DEF places, From
  <2> QED BY <1>7
<1>11. copy = [y \in DOMAIN copy |-> copy[y]]
  OBVIOUS
<1> HIDE DEF copy, places
<1> QED BY <1>1, <1>4, <1>6, <1>8, <1>9, <1>10, <1>11

LEMMA RemovedNode ==
  ASSUME NEW node \in Nodes, NEW path \in Seq(Steps), path # <<>>, Last(path) \in StepsIn(node),
         node.is = "object" => IsInjective(node.names), NEW step \in Steps
  PROVE  step \in StepsIn(Less(node, Last(path))) <=>
           StepBack(path, step) \in StepsIn(node) /\ StepBack(path, step) # Last(path)
<1>1. /\ Last(path) \in Steps /\ node.is \in {"object", "array"}
      /\ Last(path).is = IF node.is = "object" THEN "Field" ELSE "Index"
  BY Ends, InnerSteps
<1>2. CASE node.is = "object"
  <2>1. StepsIn(Less(node, Last(path))) = StepsIn(node) \ {Last(path)}
    BY <1>2, LessNode
  <2>2. StepBack(path, step) = step
    BY <1>1, <1>2 DEF StepBack
  <2> QED BY <2>1, <2>2
<1>3. CASE node.is = "array"
  <2>1. Less(node, Last(path)) \in Nodes /\ Less(node, Last(path)).is = "array"
        /\ Less(node, Last(path)).len = node.len - 1
    BY <1>3, LessNode
  <2>2. node.len \in Nat /\ \A i \in Nat : Index(i) \in StepsIn(node) <=> i < node.len
    BY <1>3, InnerSteps
  <2>3. \A i \in Nat : Index(i) \in StepsIn(Less(node, Last(path))) <=> i < node.len - 1
    BY <2>1, InnerSteps
  <2>4. PICK k \in Nat : Last(path) = Index(k) /\ Last(path).at = k /\ k < node.len /\ Last(path).is = "Index"
    BY <1>1, <1>3, <2>2, StepKinds
  <2>5. CASE step.is = "Field"
    <3>1. step \notin StepsIn(node) /\ step \notin StepsIn(Less(node, Last(path))) /\ StepBack(path, step) = step
      BY <1>3, <2>1, <2>5, InnerSteps DEF StepBack
    <3> QED BY <3>1
  <2>6. CASE step.is = "Index"
    <3>1. PICK j \in Nat : step = Index(j) /\ step.at = j
      BY <2>6, StepKinds
    <3>2. StepBack(path, step) = IF j >= k THEN Index(j + 1) ELSE Index(j)
      BY <2>4, <2>6, <3>1 DEF StepBack
    <3>3. \A a, b \in Nat : Index(a) = Index(b) <=> a = b
      BY StepKinds
    <3>4. CASE j >= k
      <4>1. Index(j + 1) \in StepsIn(node) <=> j + 1 < node.len
        BY <2>2
      <4>2. Index(j + 1) # Index(k)
        BY <3>3, <3>4
      <4> QED BY <2>2, <2>3, <2>4, <3>1, <3>2, <3>4, <4>1, <4>2
    <3>5. CASE ~(j >= k)
      <4>1. Index(j) \in StepsIn(node) <=> j < node.len
        BY <2>2
      <4>2. Index(j) # Index(k)
        BY <3>3, <3>5
      <4> QED BY <2>2, <2>3, <2>4, <3>1, <3>2, <3>5, <4>1, <4>2
    <3> QED BY <3>4, <3>5
  <2> QED BY <2>5, <2>6, StepKinds
<1> QED BY <1>1, <1>2, <1>3

LEMMA RemovedDocument ==
  ASSUME NEW value, IsDocument(value), NEW path \in DOMAIN value, path # <<>>
  PROVE  IsDocument(RemovePath(value, path))
<1>1. PICK copy : copy = RemovePath(value, path)
  OBVIOUS
<1>2. path \in Seq(Steps) /\ DOMAIN value \subseteq Seq(Steps) /\ \A x \in DOMAIN value : value[x] \in Nodes
  BY DocumentParts
<1>3. DOMAIN copy \subseteq Seq(Steps) /\ IsFiniteSet(DOMAIN copy) /\ copy = [y \in DOMAIN copy |-> copy[y]]
  BY <1>1, RemovePlaces
<1>4. \A y \in Seq(Steps) : y \in DOMAIN copy <=> Origin(path, y) \in Kept(value, path)
  BY <1>1, RemovePlaces
<1>5. \A y \in DOMAIN copy : copy[y] = IF y = Front(path) THEN Less(value[y], Last(path)) ELSE value[Origin(path, y)]
  BY <1>1, RemovePlaces
<1>6. PICK f \in Seq(Steps), l \in Steps :
        f = Front(path) /\ l = Last(path) /\ path = Append(f, l) /\ Len(f) = Len(path) - 1 /\ Len(path) \in Nat \ {0}
  BY <1>2, Ends
<1>7. f \in DOMAIN value /\ l \in StepsIn(value[f]) /\ value[f] \in Nodes
      /\ (value[f].is = "object" => IsInjective(value[f].names))
  BY <1>6, DocumentParts
<1>8. /\ Less(value[f], l) \in Nodes
      /\ Less(value[f], l).is = value[f].is
      /\ value[f].is = "object" => IsInjective(Less(value[f], l).names)
  BY <1>7, LessNode
<1>9. \A y \in Seq(Steps) : Origin(path, y) \in Seq(Steps) /\ Len(Origin(path, y)) = Len(y)
  <2> TAKE y \in Seq(Steps)
  <2>1. PICK x \in Seq(Steps) : IsOrigin(x, path, y)
    BY <1>2, Origins
  <2> QED BY <2>1 DEF IsOrigin
<1>10. \A y \in Seq(Steps) : Len(y) < Len(path) => Origin(path, y) = y
  BY <1>6 DEF Origin, Affected
<1>11. \A x \in Kept(value, path) : x \in DOMAIN value /\ ~IsPrefix(path, x)
  BY DEF Kept
<1>12. copy \in [DOMAIN copy -> Nodes]
  <2>1. \A y \in DOMAIN copy : copy[y] \in Nodes
    BY <1>2, <1>3, <1>4, <1>5, <1>6, <1>8, <1>11
  <2> QED BY <1>3, <2>1
<1>13. <<>> \in DOMAIN copy
  <2>1. <<>> \in Seq(Steps) /\ Len(<<>>) < Len(path) /\ ~(Len(path) <= Len(<<>>))
    <3>1. Len(<<>>) = 0 /\ <<>> \in Seq(Steps)
      OBVIOUS
    <3> QED BY <1>6, <3>1
  <2>2. Origin(path, <<>>) = <<>>
    BY <1>10, <2>1
  <2>3. ~IsPrefix(path, <<>>)
    BY <1>2, <2>1, PrefixIs
  <2>4. <<>> \in Kept(value, path)
    BY <2>3, DocumentParts DEF Kept
  <2> QED BY <1>4, <2>1, <2>2, <2>4
<1>14. ASSUME NEW y \in DOMAIN copy, y # <<>> PROVE Front(y) \in DOMAIN copy
  <2>1. PICK o \in Seq(Steps) : o = Origin(path, y) /\ o \in DOMAIN value /\ ~IsPrefix(path, o)
    BY <1>3, <1>4, <1>9, <1>11, <1>14
  <2>2. Front(y) \in Seq(Steps) /\ Front(o) = Origin(path, Front(y)) /\ o # <<>>
    BY <1>2, <1>3, <1>14, <2>1, Ends, OriginFront
  <2>3. Front(o) \in DOMAIN value
    BY <2>1, <2>2, DocumentParts
  <2>4. ~IsPrefix(path, Front(o))
    <3>1. o = Append(Front(o), Last(o)) /\ Front(o) \in Seq(Steps) /\ Last(o) \in Steps
      BY <2>1, <2>2, Ends
    <3> QED BY <1>2, <2>1, <3>1, PrefixAppend
  <2> QED BY <1>4, <2>2, <2>3, <2>4 DEF Kept
<1>15. ASSUME NEW y \in DOMAIN copy, NEW step \in Steps
       PROVE  step \in StepsIn(copy[y]) <=> Append(y, step) \in DOMAIN copy
  <2>1. y \in Seq(Steps) /\ Append(y, step) \in Seq(Steps)
    BY <1>3
  <2>2. PICK o \in Seq(Steps) : o = Origin(path, y) /\ o \in DOMAIN value /\ ~IsPrefix(path, o) /\ Len(o) = Len(y)
    BY <1>4, <1>9, <1>11, <2>1
  <2>3. Origin(path, Append(y, step)) = IF y = f THEN Append(y, StepBack(path, step)) ELSE Append(o, step)
    BY <1>2, <1>6, <2>1, <2>2, OriginAppend
  <2>4. CASE y # f
    <3>1. copy[y] = value[o]
      BY <1>5, <1>6, <2>2, <2>4
    <3>2. step \in StepsIn(value[o]) <=> Append(o, step) \in DOMAIN value
      BY <2>2, Children
    <3>3. ~IsPrefix(path, Append(o, step))
      <4>1. ASSUME path = Append(o, step) PROVE FALSE
        <5>1. o = f
          <6>1. Front(Append(o, step)) = o
            BY Appended
          <6> QED BY <1>6, <4>1, <6>1
        <5>2. o = y
          <6>1. Len(y) < Len(path)
            <7>1. Len(f) = Len(path) - 1 /\ Len(path) \in Nat
              BY <1>6
            <7>2. Len(f) < Len(path)
              BY <7>1
            <7> QED BY <2>2, <5>1, <7>2
          <6> QED BY <1>10, <2>1, <2>2, <6>1
        <5> QED BY <2>4, <5>1, <5>2
      <4> QED BY <1>2, <2>2, <4>1, PrefixAppend
    <3>4. Append(y, step) \in DOMAIN copy <=> Append(o, step) \in Kept(value, path)
      BY <1>4, <2>1, <2>3, <2>4
    <3> QED BY <3>1, <3>2, <3>3, <3>4 DEF Kept
  <2>5. CASE y = f
    <3>1. copy[y] = Less(value[f], l)
      BY <1>5, <1>6, <2>5
    <3>2. StepBack(path, step) \in Steps
      BY <1>2, StepsBack
    <3>3. step \in StepsIn(copy[y]) <=> StepBack(path, step) \in StepsIn(value[f]) /\ StepBack(path, step) # l
      BY <1>2, <1>6, <1>7, <3>1, RemovedNode
    <3>4. StepBack(path, step) \in StepsIn(value[f]) <=> Append(f, StepBack(path, step)) \in DOMAIN value
      BY <1>7, <3>2, Children
    <3>5. IsPrefix(path, Append(f, StepBack(path, step))) <=> StepBack(path, step) = l
      <4>1. ~IsPrefix(path, f)
        <5>1. ~(Len(path) <= Len(f))
          BY <1>6
        <5> QED BY <1>2, <5>1, PrefixIs
      <4>2. Append(f, StepBack(path, step)) = path <=> StepBack(path, step) = l
        BY <1>6, <3>2, Appended
      <4> QED BY <1>2, <3>2, <4>1, <4>2, PrefixAppend
    <3>6. Append(y, step) \in DOMAIN copy <=> Append(f, StepBack(path, step)) \in Kept(value, path)
      BY <1>4, <2>1, <2>3, <2>5
    <3> QED BY <3>3, <3>4, <3>5, <3>6 DEF Kept
  <2> QED BY <2>4, <2>5
<1>16. ASSUME NEW y \in DOMAIN copy, copy[y].is = "object" PROVE IsInjective(copy[y].names)
  <2>1. Origin(path, y) \in DOMAIN value
    BY <1>3, <1>4, <1>11
  <2>2. CASE y = f
    BY <1>5, <1>6, <1>8, <1>16, <2>2
  <2>3. CASE y # f
    <3>1. copy[y] = value[Origin(path, y)]
      BY <1>5, <1>6, <2>3
    <3> QED BY <1>16, <2>1, <3>1, DocumentParts
  <2> QED BY <2>2, <2>3
<1>17. IsDocument(copy)
  BY <1>3, <1>12, <1>13, <1>14, <1>15, <1>16, DocumentWhen
<1> QED BY <1>1, <1>17

LEMMA NullDocument ==
  ASSUME NEW node \in Nodes, StepsIn(node) = {}, node.is = "object" => IsInjective(node.names)
  PROVE  IsDocument(Leaf(node)) /\ DOMAIN Leaf(node) = {<<>>} /\ Leaf(node)[<<>>] = node
<1>1. DOMAIN Leaf(node) = {<<>>} /\ Leaf(node)[<<>>] = node /\ Leaf(node) \in [DOMAIN Leaf(node) -> Nodes]
  BY DEF Leaf
<1>2. IsFiniteSet({<<>>}) /\ <<>> \in Seq(Steps)
  <2>1. IsFiniteSet({<<>>})
    BY FS_Singleton
  <2>2. <<>> \in Seq(Steps)
    OBVIOUS
  <2> QED BY <2>1, <2>2
<1>3. \A x \in DOMAIN Leaf(node) : \A step \in Steps : step \in StepsIn(Leaf(node)[x]) <=> Append(x, step) \in DOMAIN Leaf(node)
  BY <1>1, <1>2, Appended
<1>4. IsDocument(Leaf(node))
  BY <1>1, <1>2, <1>3, DocumentWhen
<1> QED BY <1>1, <1>4

(* An array that has an element has those before it.                       *)
LEMMA Reached ==
  ASSUME NEW value, IsDocument(value), NEW path \in Seq(Steps), path # <<>>, NEW y \in DOMAIN value, Affected(path, y)
  PROVE  path \in DOMAIN value
<1>1. PICK f \in Seq(Steps), l \in Steps, n \in Nat \ {0} :
        /\ f = Front(path) /\ l = Last(path) /\ path = Append(f, l) /\ n = Len(path) /\ Len(f) = n - 1
        /\ \A i \in 1 .. n - 1 : f[i] = path[i]
  <2>1. /\ Front(path) \in Seq(Steps) /\ Last(path) \in Steps /\ path = Append(Front(path), Last(path))
        /\ Len(path) \in Nat \ {0} /\ Len(Front(path)) = Len(path) - 1
        /\ \A i \in 1 .. Len(path) - 1 : Front(path)[i] = path[i]
    BY Ends
  <2> QED BY <2>1
<1>2. /\ l.is = "Index" /\ Len(y) >= n /\ \A i \in 1 .. n - 1 : path[i] = y[i]
      /\ y[n].is = "Index" /\ y[n].at >= l.at
  BY <1>1 DEF Affected
<1>3. y \in Seq(Steps) /\ n \in 1 .. Len(y) /\ y[n] \in Steps
  BY <1>1, <1>2, DocumentParts
<1>4. PICK p \in Seq(Steps) : IsAppended(p, f, y[n])
  BY <1>3, AppendedIs
<1>5. p = Append(f, y[n]) /\ Len(p) = n /\ p[n] = y[n] /\ \A i \in 1 .. n - 1 : p[i] = f[i]
  BY <1>1, <1>4 DEF IsAppended
<1>6. \A i \in 1 .. n : p[i] = y[i]
  BY <1>1, <1>2, <1>5
<1>7. p \in DOMAIN value
  BY <1>2, <1>3, <1>5, <1>6, PrefixIs, OnTheWay
<1>8. f \in DOMAIN value /\ y[n] \in StepsIn(value[f])
  <2>1. p # <<>> /\ Front(p) = f /\ Last(p) = y[n]
    BY <1>3, <1>5, Appended
  <2> QED BY <1>7, <2>1, DocumentParts
<1>9. value[f] \in Nodes
  BY <1>8, DocumentParts
<1>10. value[f].is = "array"
  BY <1>2, <1>8, <1>9, InnerSteps
<1>11. value[f].len \in Nat /\ \A i \in Nat : Index(i) \in StepsIn(value[f]) <=> i < value[f].len
  BY <1>9, <1>10, InnerSteps
<1>12. l.at \in Nat /\ l = Index(l.at) /\ y[n].at \in Nat /\ y[n] = Index(y[n].at)
  BY <1>2, <1>3, StepKinds
<1>13. l \in StepsIn(value[f])
  <2>1. y[n].at < value[f].len
    BY <1>8, <1>11, <1>12
  <2>2. l.at < value[f].len
    BY <1>2, <1>11, <1>12, <2>1
  <2> QED BY <1>11, <1>12, <2>2
<1> QED BY <1>1, <1>8, <1>13, Children

LEMMA NotSeen ==
  ASSUME NEW value, NEW x, x \notin DOMAIN value
  PROVE  Seen(value, x) = None
  BY DEF Seen

LEMMA RemoveSeen ==
  ASSUME NEW value, IsDocument(value), NEW path \in Seq(Steps), path # <<>>, NEW y \in Seq(Steps)
  PROVE  Seen(RemovePath(value, path), y) =
           IF IsPrefix(path, Origin(path, y)) THEN None ELSE Seen(value, Origin(path, y))
<1>1. PICK x \in Seq(Steps) : IsOrigin(x, path, y)
  BY Origins
<1>2. x = Origin(path, y) /\ (~Affected(path, y) => x = y)
  BY <1>1 DEF IsOrigin
<1>3. CASE path \notin DOMAIN value
  <2>1. RemovePath(value, path) = value
    BY <1>3 DEF RemovePath
  <2>2. CASE ~Affected(path, y)
    <3>1. CASE ~IsPrefix(path, y)
      BY <1>2, <2>1, <2>2, <3>1
    <3>2. CASE IsPrefix(path, y)
      <4>1. y \notin DOMAIN value
        BY <1>3, <3>2, OnTheWay
      <4> QED BY <1>2, <2>1, <2>2, <3>2, <4>1, NotSeen
    <3> QED BY <3>1, <3>2
  <2>3. CASE Affected(path, y)
    <3>1. y \notin DOMAIN value
      BY <1>3, <2>3, Reached
    <3>2. ~IsPrefix(path, x)
      BY <1>2, <2>3, MovedOn
    <3>3. Affected(path, x)
      <4>1. PICK n \in Nat \ {0} : n = Len(path)
        BY Ends
      <4>2. /\ Last(path).is = "Index" /\ Len(y) >= n /\ \A i \in 1 .. n - 1 : path[i] = y[i]
            /\ y[n].is = "Index" /\ y[n].at >= Last(path).at
        BY <2>3, <4>1 DEF Affected
      <4>3. /\ Len(x) = Len(y) /\ \A i \in 1 .. Len(y) : i # n => x[i] = y[i]
            /\ n \in 1 .. Len(y) /\ x[n] = Index(y[n].at + 1) /\ y[n].at \in Nat
        BY <1>1, <2>3, <4>1 DEF IsOrigin
      <4>4. x[n].is = "Index" /\ x[n].at = y[n].at + 1
        BY <4>3, StepKinds
      <4>5. Last(path) \in Steps /\ Last(path).at \in Nat
        <5>1. Last(path) \in Steps
          BY Ends
        <5> QED BY <4>2, <5>1, StepKinds
      <4>6. x[n].at >= Last(path).at
        BY <4>2, <4>3, <4>4, <4>5
      <4>7. \A i \in 1 .. n - 1 : path[i] = x[i]
        BY <4>2, <4>3
      <4> QED BY <4>1, <4>2, <4>3, <4>4, <4>6, <4>7 DEF Affected
    <3>4. x \notin DOMAIN value
      BY <1>3, <3>3, Reached
    <3> QED BY <1>2, <2>1, <3>1, <3>2, <3>4, NotSeen
  <2> QED BY <2>2, <2>3
<1>4. CASE path \in DOMAIN value
  <2>1. PICK copy : copy = RemovePath(value, path)
    OBVIOUS
  <2>2. y \in DOMAIN copy <=> x \in DOMAIN value /\ ~IsPrefix(path, x)
    <3>1. y \in DOMAIN RemovePath(value, path) <=> Origin(path, y) \in Kept(value, path)
      BY <1>4, RemovePlaces
    <3> QED BY <1>2, <2>1, <3>1 DEF Kept
  <2>3. CASE y \notin DOMAIN copy
    BY <1>2, <2>1, <2>2, <2>3, NotSeen
  <2>4. CASE y \in DOMAIN copy
    <3>1. copy[y] = IF y = Front(path) THEN Less(value[y], Last(path)) ELSE value[x]
      BY <1>2, <1>4, <2>1, <2>4, RemovePlaces
    <3>2. CASE y # Front(path)
      BY <1>2, <2>1, <2>2, <2>4, <3>1, <3>2 DEF Seen
    <3>3. CASE y = Front(path)
      <4>1. y \in DOMAIN value /\ Last(path) \in StepsIn(value[y]) /\ value[y] \in Nodes
            /\ (value[y].is = "object" => IsInjective(value[y].names))
        BY <1>4, <3>3, DocumentParts
      <4>2. Less(value[y], Last(path)).is = value[y].is /\ value[y].is # "scalar"
        BY <4>1, LessNode
      <4>3. x = y
        <5>1. Len(y) = Len(path) - 1 /\ Len(path) \in Nat
          BY <3>3, Ends
        <5> QED BY <1>2, <5>1 DEF Affected
      <4>4. copy[y] = Less(value[y], Last(path))
        BY <3>1, <3>3
      <4> QED BY <1>2, <2>1, <2>2, <2>4, <4>1, <4>2, <4>3, <4>4 DEF Seen
    <3> QED BY <3>2, <3>3
  <2> QED BY <2>3, <2>4
<1> QED BY <1>3, <1>4

LEMMA RemoveDocument ==
  ASSUME NEW value, IsDocument(value), NEW path \in Seq(Steps)
  PROVE  IsDocument(RemovePath(value, path))
<1>1. CASE path = <<>>
  <2>1. NullNode \in Nodes /\ StepsIn(NullNode) = {} /\ NullNode.is # "object"
    BY DEF NullNode, Nodes, StepsIn
  <2> QED BY <1>1, <2>1, NullDocument DEF RemovePath, Null
<1>2. CASE path # <<>> /\ path \notin DOMAIN value
  BY <1>2 DEF RemovePath
<1>3. CASE path # <<>> /\ path \in DOMAIN value
  BY <1>3, RemovedDocument
<1> QED BY <1>1, <1>2, <1>3

-----------------------------------------------------------------------------
(* The paths of except, removed one after the other: what remains of two   *)
(* payloads is the same exactly if they agree outside the paths, as long as *)
(* no removal shifts what a later path is about.                           *)
IsExcept(f, value, paths) ==
  /\ f[0] = value /\ PayloadExcept(value, paths) = f[Len(paths)]
  /\ \A i \in 1 .. Len(paths) : f[i] = RemovePath(f[i - 1], paths[i])

LEMMA ExceptIs ==
  ASSUME NEW value, IsDocument(value), NEW paths \in Seq(Seq(Steps))
  PROVE  \E f \in [0 .. Len(paths) -> Documents] : IsExcept(f, value, paths)
<1>0. PICK n \in Nat : n = Len(paths)
  OBVIOUS
<1> DEFINE step == [z \in (1 .. n) \X Documents |-> RemovePath(z[2], paths[z[1]])]
<1>1. step \in [(1 .. n) \X Documents -> Documents]
  <2>1. ASSUME NEW i \in 1 .. n, NEW v \in Documents PROVE RemovePath(v, paths[i]) \in Documents
    <3>1. paths[i] \in Seq(Steps) /\ IsDocument(v)
      BY <1>0, DocumentIs
    <3> QED BY <3>1, RemoveDocument, DocumentIs
  <2> QED BY <2>1
<1>2. value \in Documents
  BY DocumentIs
<1>3. \A i \in 1 .. n, v \in Documents : step[<<i, v>>] = RemovePath(v, paths[i])
  OBVIOUS
<1> HIDE DEF step
<1>4. PICK f \in [0 .. n -> Documents] : f[0] = value /\ \A i \in 1 .. n : f[i] = step[<<i, f[i - 1]>>]
  <2>1. PICK f \in [0 .. n -> Documents] : IsStepwise(f, value, n, step)
    BY <1>1, <1>2, Stepwise
  <2> QED BY <2>1 DEF IsStepwise
<1>5. \A i \in 1 .. n : f[i - 1] \in Documents /\ f[i] = RemovePath(f[i - 1], paths[i])
  <2> TAKE i \in 1 .. n
  <2>1. i - 1 \in 0 .. n
    OBVIOUS
  <2>2. f[i - 1] \in Documents
    BY <1>4, <2>1
  <2> QED BY <1>3, <1>4, <2>2
<1>6. f = [i \in 0 .. n |-> IF i = 0 THEN value ELSE RemovePath(f[i - 1], paths[i])]
  BY <1>4, <1>5
<1>7. PICK g : /\ PayloadExcept(value, paths) = g[n]
               /\ g = [i \in 0 .. n |-> IF i = 0 THEN value ELSE RemovePath(g[i - 1], paths[i])]
  <2> DEFINE g == CHOOSE rest : rest = [i \in 0 .. n |-> IF i = 0 THEN value ELSE RemovePath(rest[i - 1], paths[i])]
  <2>1. g = [i \in 0 .. n |-> IF i = 0 THEN value ELSE RemovePath(g[i - 1], paths[i])]
    BY <1>6
  <2>2. PayloadExcept(value, paths) = g[n]
    BY <1>0 DEF PayloadExcept
  <2> HIDE DEF g
  <2> QED BY <2>1, <2>2
<1>8. \A i \in 0 .. n : f[i] = g[i]
  <2> DEFINE T == {i \in Nat : i <= n => f[i] = g[i]}
  <2>1. 0 \in T
    BY <1>4, <1>7
  <2>2. ASSUME NEW i \in Nat, i \in T PROVE i + 1 \in T
    <3> SUFFICES ASSUME i + 1 <= n PROVE f[i + 1] = g[i + 1]
      OBVIOUS
    <3>1. f[i] = g[i] /\ i + 1 \in 1 .. n /\ i + 1 # 0 /\ i + 1 - 1 = i
      BY <2>2
    <3>2. f[i + 1] = RemovePath(f[i], paths[i + 1])
      BY <1>5, <3>1
    <3>3. g[i + 1] = RemovePath(g[i], paths[i + 1])
      BY <1>7, <3>1
    <3> QED BY <3>1, <3>2, <3>3
  <2>3. Nat \subseteq T
    <3> HIDE DEF T
    <3> QED BY <2>1, <2>2, Induct
  <2> QED BY <2>3
<1>9. f[n] = g[n]
  BY <1>0, <1>8
<1>10. f \in [0 .. Len(paths) -> Documents]
  BY <1>0, <1>4
<1>11. f[0] = value /\ PayloadExcept(value, paths) = f[Len(paths)]
  BY <1>0, <1>4, <1>7, <1>9
<1>12. \A i \in 1 .. Len(paths) : f[i] = RemovePath(f[i - 1], paths[i])
  BY <1>0, <1>5
<1> QED BY <1>10, <1>11, <1>12 DEF IsExcept

SameSeen(p, q) == \A x \in Seq(Steps) : Seen(p, x) = Seen(q, x)

(* The places that the paths after the first i leave alone.                *)
Spared(paths, i, x) == \A j \in i + 1 .. Len(paths) : ~IsPrefix(paths[j], x)

AgreeOn(paths, i, p, q) == \A x \in Seq(Steps) : Spared(paths, i, x) => Seen(p, x) = Seen(q, x)

(* A later path that is about no element behind a removed one has the same *)
(* places under it before and after the removal.                           *)
LEMMA Undisturbed ==
  ASSUME NEW path \in Seq(Steps), path # <<>>, NEW next \in Seq(Steps), ~Affected(path, next), NEW y \in Seq(Steps)
  PROVE  IsPrefix(next, y) <=> IsPrefix(next, Origin(path, y))
<1>0. PICK n \in Nat \ {0} : n = Len(path)
  BY Ends
<1>1. PICK x \in Seq(Steps) : IsOrigin(x, path, y)
  BY Origins
<1>4. \A z \in Seq(Steps) : IsPrefix(next, z) <=> Len(next) <= Len(z) /\ \A i \in 1 .. Len(next) : next[i] = z[i]
  BY PrefixIs
<1>2. CASE ~Affected(path, y)
  BY <1>2 DEF Origin
<1>3. CASE Affected(path, y)
  <2>1. /\ x = Origin(path, y) /\ Len(x) = Len(y) /\ \A i \in 1 .. Len(y) : i # n => x[i] = y[i]
        /\ n \in 1 .. Len(y) /\ x[n] = Index(y[n].at + 1) /\ y[n].at \in Nat /\ y[n] = Index(y[n].at)
    BY <1>0, <1>1, <1>3 DEF IsOrigin
  <2>2. /\ Last(path).is = "Index" /\ \A i \in 1 .. n - 1 : path[i] = y[i]
        /\ y[n].at >= Last(path).at
    BY <1>0, <1>3 DEF Affected
  <2>3. x[n].is = "Index" /\ x[n].at = y[n].at + 1 /\ y[n].is = "Index"
    BY <2>1, StepKinds
  <2>4. Last(path) \in Steps /\ Last(path).at \in Nat
    <3>1. Last(path) \in Steps
      BY Ends
    <3> QED BY <2>2, <3>1, StepKinds
  <2>5. x[n].at >= Last(path).at
    BY <2>1, <2>2, <2>3, <2>4
  <2>6. CASE Len(next) < n
    <3>1. \A i \in 1 .. Len(next) : i # n /\ (Len(next) <= Len(y) => i \in 1 .. Len(y))
      BY <2>6
    <3> QED BY <1>4, <2>1, <3>1
  <2>7. ASSUME Len(next) >= n, NEW z \in Seq(Steps), IsPrefix(next, z), \A i \in 1 .. n - 1 : path[i] = z[i],
               z[n].is = "Index", z[n].at >= Last(path).at
        PROVE  FALSE
    <3>1. \A i \in 1 .. Len(next) : next[i] = z[i]
      BY <2>7, PrefixIs
    <3>2. next[n] = z[n] /\ \A i \in 1 .. n - 1 : path[i] = next[i]
      BY <2>7, <3>1
    <3> QED BY <1>0, <2>2, <2>7, <3>2 DEF Affected
  <2>8. \A i \in 1 .. n - 1 : path[i] = x[i]
    BY <2>1, <2>2
  <2>9. CASE Len(next) >= n
    BY <2>1, <2>2, <2>3, <2>5, <2>7, <2>8, <2>9
  <2> QED BY <2>1, <2>6, <2>9
<1> QED BY <1>2, <1>3

LEMMA NoShift ==
  ASSUME NEW paths \in Seq(Seq(Steps)), ~Shifts(paths), NEW i \in 1 .. Len(paths), NEW j \in i + 1 .. Len(paths),
         paths[i] # <<>>
  PROVE  ~Affected(paths[i], paths[j])
<1> SUFFICES ASSUME Affected(paths[i], paths[j]) PROVE Shifts(paths)
  OBVIOUS
<1>1. PICK r \in Seq(Steps), s \in Seq(Steps) : r = paths[i] /\ s = paths[j]
  OBVIOUS
<1>2. PICK f \in Seq(Steps), n \in Nat \ {0} :
        f = Front(r) /\ n = Len(r) /\ Len(f) = n - 1 /\ \A k \in 1 .. n - 1 : f[k] = r[k]
  <2>1. /\ Front(r) \in Seq(Steps) /\ Len(r) \in Nat \ {0} /\ Len(Front(r)) = Len(r) - 1
        /\ \A k \in 1 .. Len(r) - 1 : Front(r)[k] = r[k]
    BY <1>1, Ends
  <2> QED BY <2>1
<1>3. /\ Last(r).is = "Index" /\ Len(s) >= n /\ \A k \in 1 .. n - 1 : r[k] = s[k]
      /\ s[n].is = "Index" /\ s[n].at >= Last(r).at
  BY <1>1, <1>2 DEF Affected
<1>4. IsPrefix(f, s)
  <2>1. Len(f) <= Len(s) /\ \A k \in 1 .. Len(f) : f[k] = s[k]
    BY <1>2, <1>3
  <2> QED BY <2>1, PrefixIs
<1>5. i \in DOMAIN paths /\ j \in DOMAIN paths /\ i < j
  OBVIOUS
<1> QED BY <1>1, <1>2, <1>3, <1>4, <1>5 DEF Shifts

LEMMA RemoveAgrees ==
  ASSUME NEW p, IsDocument(p), NEW q, IsDocument(q), NEW paths \in Seq(Seq(Steps)), ~Shifts(paths),
         NEW i \in 1 .. Len(paths)
  PROVE  AgreeOn(paths, i - 1, p, q) <=> AgreeOn(paths, i, RemovePath(p, paths[i]), RemovePath(q, paths[i]))
<1>1. PICK path \in Seq(Steps) : path = paths[i]
  OBVIOUS
<1>2. \A x \in Seq(Steps) : Spared(paths, i - 1, x) <=> Spared(paths, i, x) /\ ~IsPrefix(path, x)
  <2>1. \A j : j \in i - 1 + 1 .. Len(paths) <=> j = i \/ j \in i + 1 .. Len(paths)
    OBVIOUS
  <2> QED BY <1>1, <2>1 DEF Spared
<1>3. CASE path = <<>>
  <2>1. RemovePath(p, path) = RemovePath(q, path)
    BY <1>3 DEF RemovePath
  <2>2. \A x \in Seq(Steps) : IsPrefix(path, x)
    <3> TAKE x \in Seq(Steps)
    <3>1. Len(path) <= Len(x) /\ \A i_1 \in 1 .. Len(path) : path[i_1] = x[i_1]
      BY <1>3
    <3> QED BY <3>1, PrefixIs
  <2> QED BY <1>1, <1>2, <2>1, <2>2 DEF AgreeOn
<1>4. CASE path # <<>>
  <2>1. \A x \in Seq(Steps) : Origin(path, x) \in Seq(Steps)
    BY <1>4, Origins DEF IsOrigin
  <2>2. \A y \in Seq(Steps) : Spared(paths, i, y) <=> Spared(paths, i, Origin(path, y))
    <3> TAKE y \in Seq(Steps)
    <3>1. ASSUME NEW j \in i + 1 .. Len(paths) PROVE IsPrefix(paths[j], y) <=> IsPrefix(paths[j], Origin(path, y))
      <4>1. paths[j] \in Seq(Steps)
        OBVIOUS
      <4>2. ~Affected(path, paths[j])
        BY <1>1, <1>4, NoShift
      <4> QED BY <1>4, <4>1, <4>2, Undisturbed
    <3> QED BY <3>1 DEF Spared
  <2>3. \A y \in Seq(Steps) : Seen(RemovePath(p, path), y) =
          IF IsPrefix(path, Origin(path, y)) THEN None ELSE Seen(p, Origin(path, y))
    BY <1>4, RemoveSeen
  <2>4. \A y \in Seq(Steps) : Seen(RemovePath(q, path), y) =
          IF IsPrefix(path, Origin(path, y)) THEN None ELSE Seen(q, Origin(path, y))
    BY <1>4, RemoveSeen
  <2>5. ASSUME AgreeOn(paths, i - 1, p, q) PROVE AgreeOn(paths, i, RemovePath(p, path), RemovePath(q, path))
    <3> SUFFICES ASSUME NEW y \in Seq(Steps), Spared(paths, i, y)
                 PROVE  Seen(RemovePath(p, path), y) = Seen(RemovePath(q, path), y)
      BY DEF AgreeOn
    <3>1. PICK x \in Seq(Steps) : x = Origin(path, y)
      BY <2>1
    <3>2. ~IsPrefix(path, x) => Seen(p, x) = Seen(q, x)
      BY <1>2, <2>2, <2>5, <3>1 DEF AgreeOn
    <3> QED BY <2>3, <2>4, <3>1, <3>2
  <2>6. ASSUME AgreeOn(paths, i, RemovePath(p, path), RemovePath(q, path)) PROVE AgreeOn(paths, i - 1, p, q)
    <3> SUFFICES ASSUME NEW x \in Seq(Steps), Spared(paths, i - 1, x) PROVE Seen(p, x) = Seen(q, x)
      BY DEF AgreeOn
    <3>1. Spared(paths, i, x) /\ ~IsPrefix(path, x)
      BY <1>2
    <3>2. PICK y \in Seq(Steps) : Origin(path, y) = x
      BY <1>4, <3>1, MovedBack
    <3>3. Seen(RemovePath(p, path), y) = Seen(RemovePath(q, path), y)
      BY <2>2, <2>6, <3>1, <3>2 DEF AgreeOn
    <3> QED BY <2>3, <2>4, <3>1, <3>2, <3>3
  <2> QED BY <1>1, <2>5, <2>6
<1> QED BY <1>3, <1>4

LEMMA ExceptAgrees ==
  ASSUME NEW p, IsDocument(p), NEW q, IsDocument(q), NEW paths \in Seq(Seq(Steps)), ~Shifts(paths)
  PROVE  /\ IsDocument(PayloadExcept(p, paths)) /\ IsDocument(PayloadExcept(q, paths))
         /\ SameSeen(PayloadExcept(p, paths), PayloadExcept(q, paths)) <=> AgreeOutside(paths, p, q)
<1>0. PICK n \in Nat : n = Len(paths)
  OBVIOUS
<1>1. PICK f \in [0 .. n -> Documents] :
        f[0] = p /\ PayloadExcept(p, paths) = f[n] /\ \A i \in 1 .. n : f[i] = RemovePath(f[i - 1], paths[i])
  <2>1. PICK f \in [0 .. Len(paths) -> Documents] : IsExcept(f, p, paths)
    BY ExceptIs
  <2> QED BY <1>0, <2>1 DEF IsExcept
<1>2. PICK g \in [0 .. n -> Documents] :
        g[0] = q /\ PayloadExcept(q, paths) = g[n] /\ \A i \in 1 .. n : g[i] = RemovePath(g[i - 1], paths[i])
  <2>1. PICK g \in [0 .. Len(paths) -> Documents] : IsExcept(g, q, paths)
    BY ExceptIs
  <2> QED BY <1>0, <2>1 DEF IsExcept
<1> DEFINE T == {i \in Nat : i <= n => (AgreeOn(paths, i, f[i], g[i]) <=> AgreeOn(paths, 0, p, q))}
<1>3. 0 \in T
  BY <1>1, <1>2
<1>4. ASSUME NEW i \in Nat, i \in T PROVE i + 1 \in T
  <2> SUFFICES ASSUME i + 1 <= n
               PROVE  AgreeOn(paths, i + 1, f[i + 1], g[i + 1]) <=> AgreeOn(paths, 0, p, q)
    OBVIOUS
  <2>1. AgreeOn(paths, i, f[i], g[i]) <=> AgreeOn(paths, 0, p, q)
    BY <1>4
  <2>2. PICK k \in 1 .. n : k = i + 1 /\ k - 1 = i /\ i \in 0 .. n
    OBVIOUS
  <2>3. IsDocument(f[i]) /\ IsDocument(g[i])
    BY <1>1, <1>2, <2>2, DocumentIs
  <2>4. f[k] = RemovePath(f[i], paths[k]) /\ g[k] = RemovePath(g[i], paths[k])
    BY <1>1, <1>2, <2>2
  <2>5. AgreeOn(paths, k - 1, f[i], g[i]) <=> AgreeOn(paths, k, f[k], g[k])
    BY <1>0, <2>3, <2>4, RemoveAgrees
  <2> QED BY <2>1, <2>2, <2>5
<1>5. AgreeOn(paths, n, f[n], g[n]) <=> AgreeOn(paths, 0, p, q)
  <2>1. Nat \subseteq T
    <3> HIDE DEF T
    <3> QED BY <1>3, <1>4, Induct
  <2> QED BY <2>1
<1>6. AgreeOn(paths, n, f[n], g[n]) <=> SameSeen(f[n], g[n])
  <2>1. n + 1 .. n = {}
    OBVIOUS
  <2> QED BY <1>0, <2>1 DEF AgreeOn, Spared, SameSeen
<1>7. AgreeOn(paths, 0, p, q) <=> AgreeOutside(paths, p, q)
  <2>1. DOMAIN paths = 0 + 1 .. Len(paths)
    OBVIOUS
  <2>2. DOMAIN p \subseteq Seq(Steps) /\ DOMAIN q \subseteq Seq(Steps)
    BY DocumentParts
  <2>3. \A x : x \notin DOMAIN p \cup DOMAIN q => Seen(p, x) = Seen(q, x)
    BY NotSeen
  <2>4. \A x : Spared(paths, 0, x) <=> \A i \in DOMAIN paths : ~IsPrefix(paths[i], x)
    BY <2>1 DEF Spared
  <2> QED BY <2>2, <2>3, <2>4 DEF AgreeOn, AgreeOutside
<1>8. IsDocument(f[n]) /\ IsDocument(g[n])
  BY <1>1, <1>2, DocumentIs
<1> QED BY <1>1, <1>2, <1>5, <1>6, <1>7, <1>8

-----------------------------------------------------------------------------
(* The canonical text: it is defined for every document, from the places   *)
(* without any inside to the whole.                                        *)
IsFixpoint(f, A, step) == \A x \in A : f[x] = step[<<x, f>>]

IsLocal(A, X, measure, step) ==
  \A x \in A : \A f, g \in [A -> X] :
    (\A y \in A : measure[y] < measure[x] => f[y] = g[y]) => step[<<x, f>>] = step[<<x, g>>]

(* A function whose value at x depends on its values where the measure is  *)
(* less.                                                                   *)
LEMMA Fixpoint ==
  ASSUME NEW A, NEW X, NEW first \in X, NEW bound \in Nat, NEW measure \in [A -> 0 .. bound],
         NEW step \in [A \X [A -> X] -> X],
         IsLocal(A, X, measure, step)
  PROVE  \E f \in [A -> X] : IsFixpoint(f, A, step)
<1> DEFINE F == [A -> X]
           n == bound + 2
           start == [x \in A |-> first]
           On(g) == [x \in A |-> step[<<x, g>>]]
           on == [z \in (1 .. n) \X F |-> On(z[2])]
<1>1. \A g \in F : On(g) \in F /\ \A x \in A : On(g)[x] = step[<<x, g>>]
  OBVIOUS
<1>2. start \in F /\ n \in Nat
  OBVIOUS
<1>3. on \in [(1 .. n) \X F -> F] /\ \A i \in 1 .. n, g \in F : on[<<i, g>>] = On(g)
  <2> HIDE DEF F, On, n
  <2> QED BY <1>1
<1>4. PICK h \in [0 .. n -> F] : h[0] = start /\ \A i \in 1 .. n : h[i] = on[<<i, h[i - 1]>>]
  <2> HIDE DEF F, On, n, on, start
  <2>1. PICK h \in [0 .. n -> F] : IsStepwise(h, start, n, on)
    BY <1>2, <1>3, Stepwise
  <2> QED BY <2>1 DEF IsStepwise
<1>5. \A i \in 0 .. bound + 1 : h[i] \in F /\ h[i + 1] = On(h[i])
  <2> HIDE DEF F, On, on, start
  <2> TAKE i \in 0 .. bound + 1
  <2>1. i \in 0 .. n /\ i + 1 \in 1 .. n /\ i + 1 - 1 = i
    OBVIOUS
  <2> HIDE DEF n
  <2>2. h[i] \in F
    BY <1>4, <2>1
  <2>3. h[i + 1] = on[<<i + 1, h[i]>>]
    BY <1>4, <2>1
  <2> QED BY <1>3, <2>1, <2>2, <2>3
<1>6. \A i \in 0 .. bound + 1 : \A x \in A : h[i + 1][x] = step[<<x, h[i]>>]
  <2> HIDE DEF F, On
  <2> QED BY <1>1, <1>5
<1> HIDE DEF F, n, start, On, on
<1> DEFINE T == {i \in Nat : i <= bound + 1 => \A x \in A : measure[x] < i => h[i][x] = h[i + 1][x]}
<1>7. 0 \in T
  OBVIOUS
<1>8. ASSUME NEW i \in Nat, i \in T PROVE i + 1 \in T
  <2> SUFFICES ASSUME i + 1 <= bound + 1, NEW x \in A, measure[x] < i + 1
               PROVE  h[i + 1][x] = h[i + 1 + 1][x]
    OBVIOUS
  <2>1. i \in 0 .. bound + 1 /\ i + 1 \in 0 .. bound + 1
    OBVIOUS
  <2>2. \A y \in A : measure[y] < measure[x] => h[i][y] = h[i + 1][y]
    <3> TAKE y \in A
    <3>1. measure[y] \in Nat /\ measure[x] \in Nat
      OBVIOUS
    <3>2. measure[y] < measure[x] => measure[y] < i
      BY <3>1
    <3> QED BY <1>8, <3>2
  <2>3. h[i] \in [A -> X] /\ h[i + 1] \in [A -> X]
    BY <1>5, <2>1 DEF F
  <2>4. step[<<x, h[i]>>] = step[<<x, h[i + 1]>>]
    BY <2>2, <2>3 DEF IsLocal
  <2>5. h[i + 1][x] = step[<<x, h[i]>>]
    BY <1>6, <2>1
  <2>6. h[i + 1 + 1][x] = step[<<x, h[i + 1]>>]
    BY <1>6, <2>1
  <2> QED BY <2>4, <2>5, <2>6
<1>9. bound + 1 \in T
  <2> HIDE DEF T
  <2> QED BY <1>7, <1>8, Induct
<1>10. ASSUME NEW x \in A PROVE h[bound + 1][x] = step[<<x, h[bound + 1]>>]
  <2>1. bound + 1 \in 0 .. bound + 1 /\ measure[x] < bound + 1
    OBVIOUS
  <2>2. h[bound + 1][x] = h[bound + 1 + 1][x]
    BY <1>9, <2>1
  <2> QED BY <1>6, <2>1, <2>2
<1>11. h[bound + 1] \in [A -> X]
  BY <1>5 DEF F
<1> QED BY <1>10, <1>11 DEF IsFixpoint

TokenKinds == {",", ":", "{", "}", "[", "]", "name", "scalar", "null"}
Texts == Seq(TokenKinds \X Nat)
Comma == <<<<",", 0>>>>

FirstOf(left) == CHOOSE step \in left : \A other \in left : Rank(step) <= Rank(other)
CommaFor(rest) == IF rest = {} THEN <<>> ELSE Comma

ListedBy(written, parts) ==
  \A left \in SUBSET DOMAIN parts :
    written[left] = IF left = {} THEN <<>>
                    ELSE parts[FirstOf(left)] \o CommaFor(left \ {FirstOf(left)}) \o written[left \ {FirstOf(left)}]

LEMMA TokenTexts ==
  /\ <<>> \in Texts /\ Comma \in Texts
  /\ \A kind \in TokenKinds, n \in Nat : <<<<kind, n>>>> \in Texts /\ Len(<<<<kind, n>>>>) = 1
<1>1. \A kind \in TokenKinds, n \in Nat : <<<<kind, n>>>> \in Texts /\ Len(<<<<kind, n>>>>) = 1
  <2> TAKE kind \in TokenKinds, n \in Nat
  <2>1. PICK t \in TokenKinds \X Nat : t = <<kind, n>>
    OBVIOUS
  <2>2. <<t>> \in Seq(TokenKinds \X Nat) /\ Len(<<t>>) = 1
    OBVIOUS
  <2> QED BY <2>1, <2>2 DEF Texts
<1>2. "," \in TokenKinds /\ 0 \in Nat
  BY DEF TokenKinds
<1>3. Comma \in Texts
  BY <1>1, <1>2 DEF Comma
<1>4. <<>> \in Texts
  BY DEF Texts
<1> QED BY <1>1, <1>3, <1>4

LEMMA Ranked ==
  ASSUME NEW left \in SUBSET Steps, left # {}
  PROVE  /\ FirstOf(left) \in left
         /\ \A other \in left : Rank(FirstOf(left)) <= Rank(other)
<1>1. \A step \in left : Rank(step) \in Nat
  BY StepKinds DEF Rank
<1>2. PICK n \in {Rank(step) : step \in left} : \A m \in {Rank(step) : step \in left} : n <= m
  <2>1. {Rank(step) : step \in left} \in SUBSET Nat /\ {Rank(step) : step \in left} # {}
    BY <1>1
  <2> QED BY <2>1, Least
<1>3. \E step \in left : \A other \in left : Rank(step) <= Rank(other)
  BY <1>2
<1> QED BY <1>3 DEF FirstOf

LEMMA ListedIs ==
  ASSUME NEW I \in SUBSET Steps, IsFiniteSet(I), NEW parts \in [I -> Texts]
  PROVE  \E written \in [SUBSET I -> Texts] : ListedBy(written, parts) /\ Listed(parts) = written[I]
<1> DEFINE A == SUBSET I
           X == Texts
           Next(left, w) == IF left = {} THEN <<>>
                            ELSE parts[FirstOf(left)] \o CommaFor(left \ {FirstOf(left)}) \o w[left \ {FirstOf(left)}]
           size == [left \in A |-> Cardinality(left)]
           next == [z \in A \X [A -> X] |-> Next(z[1], z[2])]
<1>1. Cardinality(I) \in Nat /\ size \in [A -> 0 .. Cardinality(I)]
  <2>1. \A left \in SUBSET I : IsFiniteSet(left) /\ Cardinality(left) <= Cardinality(I)
    BY FS_Subset
  <2>2. Cardinality(I) \in Nat /\ \A left \in SUBSET I : Cardinality(left) \in Nat
    BY <2>1, FS_CardinalityType
  <2> QED BY <2>1, <2>2
<1>2. \A left \in A : left # {} =>
         /\ FirstOf(left) \in left /\ left \ {FirstOf(left)} \in A
         /\ size[left \ {FirstOf(left)}] < size[left]
  <2> SUFFICES ASSUME NEW left \in A, left # {}
               PROVE  FirstOf(left) \in left /\ Cardinality(left \ {FirstOf(left)}) < Cardinality(left)
    OBVIOUS
  <2>1. FirstOf(left) \in left
    BY Ranked
  <2>2. IsFiniteSet(left) /\ Cardinality(left) \in Nat
    BY FS_Subset, FS_CardinalityType
  <2>3. Cardinality(left \ {FirstOf(left)}) = Cardinality(left) - 1
    BY <2>1, <2>2, FS_RemoveElement
  <2> QED BY <2>1, <2>2, <2>3
<1>3. \A left \in A, w \in [A -> X] : Next(left, w) \in X
  <2> TAKE left \in A, w \in [A -> X]
  <2>0. CASE left = {}
    BY <2>0 DEF Texts
  <2> SUFFICES ASSUME left # {}
               PROVE  parts[FirstOf(left)] \o CommaFor(left \ {FirstOf(left)}) \o w[left \ {FirstOf(left)}] \in Texts
    BY <2>0
  <2>1. FirstOf(left) \in I /\ left \ {FirstOf(left)} \in A
    BY <1>2
  <2>2. parts[FirstOf(left)] \in Texts /\ w[left \ {FirstOf(left)}] \in Texts
    BY <2>1
  <2>3. CommaFor(left \ {FirstOf(left)}) \in Texts
    BY TokenTexts DEF CommaFor
  <2> QED BY <2>2, <2>3 DEF Texts
<1>4. next \in [A \X [A -> X] -> X] /\ \A left \in A, w \in [A -> X] : next[<<left, w>>] = Next(left, w)
  <2> HIDE DEF A, X, Next
  <2> QED BY <1>3
<1>5. ASSUME NEW left \in A, NEW f \in [A -> X], NEW g \in [A -> X],
             \A y \in A : size[y] < size[left] => f[y] = g[y]
      PROVE  next[<<left, f>>] = next[<<left, g>>]
  <2>1. left # {} => f[left \ {FirstOf(left)}] = g[left \ {FirstOf(left)}]
    <3> HIDE DEF A, X, size
    <3> QED BY <1>2, <1>5
  <2> QED BY <1>4, <2>1
<1>6. PICK f \in [A -> X] : IsFixpoint(f, A, next)
  <2>1. <<>> \in X
    BY DEF Texts
  <2>2. IsLocal(A, X, size, next)
    <3> HIDE DEF A, X, size, next
    <3> QED BY <1>5 DEF IsLocal
  <2>3. next \in [A \X [A -> X] -> X]
    BY <1>4
  <2> HIDE DEF A, X, size, next
  <2>4. PICK n \in Nat : n = Cardinality(I) /\ size \in [A -> 0 .. n]
    BY <1>1
  <2> QED BY <2>1, <2>2, <2>3, <2>4, Fixpoint
<1>7. \A left \in A : f[left] = Next(left, f)
  <2> HIDE DEF A, X, next, Next
  <2> QED BY <1>4, <1>6 DEF IsFixpoint
<1>8. f = [left \in SUBSET I |-> Next(left, f)]
  <2> HIDE DEF Next
  <2> QED BY <1>7
<1> DEFINE w == CHOOSE written : written = [left \in SUBSET I |-> Next(left, written)]
<1>9. w = [left \in SUBSET I |-> Next(left, w)]
  <2> HIDE DEF Next
  <2> QED BY <1>8
<1>10. Listed(parts) = w[I]
  <2>1. DOMAIN parts = I
    OBVIOUS
  <2> QED BY <2>1 DEF Listed, FirstOf, CommaFor, Comma
<1>11. \A left \in A : w[left] = Next(left, w)
  <2> HIDE DEF Next, w
  <2> QED BY <1>9
<1> DEFINE T == {i \in Nat : \A left \in A : size[left] < i => w[left] = f[left]}
<1> HIDE DEF w
<1>12. 0 \in T
  <2> HIDE DEF size, A
  <2> QED BY <1>1
<1>13. ASSUME NEW i \in Nat, i \in T PROVE i + 1 \in T
  <2> HIDE DEF A, size
  <2> SUFFICES ASSUME NEW left \in A, size[left] < i + 1 PROVE w[left] = f[left]
    OBVIOUS
  <2>1. CASE left = {}
    BY <1>7, <1>11, <2>1
  <2>2. CASE left # {}
    <3>1. PICK rest \in A : rest = left \ {FirstOf(left)} /\ size[rest] < size[left]
      <4> HIDE DEF A, size
      <4> QED BY <1>2, <2>2
    <3>2. size[rest] < i
      <4>1. size[rest] \in Nat /\ size[left] \in Nat
        <5> HIDE DEF A, size
        <5> QED BY <1>1
      <4> HIDE DEF size
      <4> QED BY <3>1, <4>1
    <3>3. w[rest] = f[rest]
      <4> HIDE DEF A, size
      <4> QED BY <1>13, <3>2
    <3> QED BY <1>7, <1>11, <2>2, <3>1, <3>3
  <2> QED BY <2>1, <2>2
<1>14. \A left \in A : w[left] = f[left]
  <2>1. Nat \subseteq T
    <3> HIDE DEF T
    <3> QED BY <1>12, <1>13, Induct
  <2>2. \A left \in A : size[left] \in Nat
    <3> HIDE DEF A, size
    <3> QED BY <1>1
  <2> TAKE left \in A
  <2>3. size[left] + 1 \in T /\ size[left] < size[left] + 1
    <3> HIDE DEF A, size, T
    <3> QED BY <2>1, <2>2
  <2> HIDE DEF A, size
  <2> QED BY <2>3
<1>15. I \in A /\ DOMAIN parts = I
  OBVIOUS
<1>16. Listed(parts) = f[I]
  BY <1>10, <1>14, <1>15
<1>17. ListedBy(f, parts)
  BY <1>7, <1>15 DEF ListedBy
<1> QED BY <1>6, <1>16, <1>17

LEMMA GreatestOf ==
  ASSUME NEW S \in SUBSET Nat, IsFiniteSet(S)
  PROVE  \E b \in Nat : \A s \in S : s <= b
<1> DEFINE T == {n \in Nat : \A R \in SUBSET Nat : IsFiniteSet(R) /\ Cardinality(R) = n =>
                               \E b \in Nat : \A s \in R : s <= b}
<1>1. 0 \in T
  <2>1. ASSUME NEW R \in SUBSET Nat, IsFiniteSet(R), Cardinality(R) = 0 PROVE R = {}
    BY <2>1, FS_EmptySet
  <2> QED BY <2>1
<1>2. ASSUME NEW n \in Nat, n \in T PROVE n + 1 \in T
  <2> SUFFICES ASSUME NEW R \in SUBSET Nat, IsFiniteSet(R), Cardinality(R) = n + 1
               PROVE  \E b \in Nat : \A s \in R : s <= b
    OBVIOUS
  <2>1. PICK r : r \in R
    <3>1. R # {}
      BY FS_EmptySet
    <3> QED BY <3>1
  <2>2. IsFiniteSet(R \ {r}) /\ Cardinality(R \ {r}) = n
    <3>1. IsFiniteSet(R \ {r}) /\ Cardinality(R \ {r}) = IF r \in R THEN Cardinality(R) - 1 ELSE Cardinality(R)
      BY FS_RemoveElement
    <3>2. Cardinality(R) - 1 = n
      OBVIOUS
    <3> QED BY <2>1, <3>1, <3>2
  <2>3. PICK b \in Nat : \A s \in R \ {r} : s <= b
    BY <1>2, <2>2
  <2> DEFINE c == IF b <= r THEN r ELSE b
  <2>4. r \in Nat /\ c \in Nat /\ b <= c /\ r <= c
    BY <2>1
  <2>5. \A s \in R : s <= c
    <3> HIDE DEF c
    <3> QED BY <2>3, <2>4
  <2> QED BY <2>4, <2>5
<1>3. Cardinality(S) \in T
  <2> HIDE DEF T
  <2> QED BY <1>1, <1>2, FS_CardinalityType, Induct
<1> QED BY <1>3

LEMMA Longest ==
  ASSUME NEW value, IsDocument(value)
  PROVE  \E n \in Nat : \A x \in DOMAIN value : Len(x) <= n
<1>1. PICK A : A = DOMAIN value /\ IsFiniteSet(A) /\ A \subseteq Seq(Steps)
  BY DocumentParts
<1> DEFINE length == [x \in A |-> Len(x)]
<1>2. IsFiniteSet({length[x] : x \in A})
  <2>1. DOMAIN length = A
    OBVIOUS
  <2> HIDE DEF length
  <2> QED BY <1>1, <2>1, FiniteImage
<1>3. {length[x] : x \in A} \in SUBSET Nat
  BY <1>1
<1>4. PICK n \in Nat : \A l \in {length[x] : x \in A} : l <= n
  <2> HIDE DEF length
  <2> QED BY <1>2, <1>3, GreatestOf
<1> QED BY <1>1, <1>4

LEMMA FiniteInner ==
  ASSUME NEW node \in Nodes
  PROVE  IsFiniteSet(StepsIn(node))
<1>1. CASE node.is = "object"
  <2>1. node.names \in Seq(Nat)
    BY <1>1 DEF Nodes
  <2>2. PICK n \in Nat : n = Len(node.names) /\ DOMAIN node.names = 1 .. n
    BY <2>1
  <2> DEFINE f == [i \in 1 .. n |-> Field(node.names[i])]
  <2>3. StepsIn(node) = {f[i] : i \in DOMAIN f}
    BY <1>1, <2>2 DEF StepsIn, ToSet
  <2>4. IsFiniteSet(DOMAIN f)
    <3>1. DOMAIN f = 1 .. n
      OBVIOUS
    <3> QED BY <3>1, FS_Interval
  <2> HIDE DEF f
  <2> QED BY <2>3, <2>4, FiniteImage
<1>2. CASE node.is = "array"
  <2>1. node.len \in Nat
    BY <1>2 DEF Nodes
  <2> DEFINE f == [i \in 0 .. node.len - 1 |-> Index(i)]
  <2>2. StepsIn(node) = {f[i] : i \in DOMAIN f}
    BY <1>2 DEF StepsIn
  <2>3. IsFiniteSet(DOMAIN f)
    <3>1. DOMAIN f = 0 .. node.len - 1 /\ node.len - 1 \in Int
      BY <2>1
    <3> QED BY <3>1, FS_Interval
  <2> HIDE DEF f
  <2> QED BY <2>2, <2>3, FiniteImage
<1>3. CASE node.is \notin {"object", "array"}
  BY <1>3, FS_EmptySet DEF StepsIn
<1> QED BY <1>1, <1>2, <1>3

-----------------------------------------------------------------------------
Opening(node) == IF node.is = "object" THEN <<<<"{", 0>>>> ELSE <<<<"[", 0>>>>
Closing(node) == IF node.is = "object" THEN <<<<"}", 0>>>> ELSE <<<<"]", 0>>>>

NodeText(node, list) ==
  CASE node.is = "object" -> <<<<"{", 0>>>> \o list \o <<<<"}", 0>>>>
    [] node.is = "array"  -> <<<<"[", 0>>>> \o list \o <<<<"]", 0>>>>
    [] node.is = "scalar" -> <<<<"scalar", node.value>>>>
    [] node.is = "null"   -> <<<<"null", 0>>>>

NameOf(step) == <<<<"name", step.name>>, <<":", 0>>>>

PartsOf(value, text, x) ==
  [step \in StepsIn(value[x]) |->
     IF step.is = "Index" THEN text[Append(x, step)] ELSE NameOf(step) \o text[Append(x, step)]]

WrittenAs(text, value) == \A x \in DOMAIN value : text[x] = NodeText(value[x], Listed(PartsOf(value, text, x)))

LEMMA MoreTexts ==
  /\ \A node : Opening(node) \in Texts /\ Closing(node) \in Texts
  /\ \A step \in Steps : step.is = "Field" => NameOf(step) \in Texts
  /\ <<<<"{", 0>>>> \in Texts /\ <<<<"}", 0>>>> \in Texts /\ <<<<"[", 0>>>> \in Texts /\ <<<<"]", 0>>>> \in Texts
<1>1. {"{", "}", "[", "]", "name", ":"} \subseteq TokenKinds
  BY DEF TokenKinds
<1>2. <<<<"{", 0>>>> \in Texts /\ <<<<"}", 0>>>> \in Texts /\ <<<<"[", 0>>>> \in Texts /\ <<<<"]", 0>>>> \in Texts
  BY <1>1, TokenTexts
<1>3. ASSUME NEW step \in Steps, step.is = "Field" PROVE NameOf(step) \in Texts
  <2>1. PICK s \in TokenKinds \X Nat, t \in TokenKinds \X Nat : s = <<"name", step.name>> /\ t = <<":", 0>>
    <3>1. step.name \in Nat
      BY <1>3, StepKinds
    <3> QED BY <1>1, <3>1
  <2>2. <<s, t>> \in Seq(TokenKinds \X Nat)
    OBVIOUS
  <2> QED BY <2>1, <2>2 DEF NameOf, Texts
<1> QED BY <1>2, <1>3 DEF Opening, Closing

LEMMA WrittenTexts ==
  ASSUME NEW node \in Nodes, NEW list \in Texts
  PROVE  /\ NodeText(node, list) \in Texts
         /\ node.is \in {"object", "array"} => NodeText(node, list) = Opening(node) \o list \o Closing(node)
         /\ node.is = "scalar" => NodeText(node, list) = <<<<"scalar", node.value>>>> /\ node.value \in Nat
         /\ node.is = "null" => NodeText(node, list) = <<<<"null", 0>>>>
         /\ node.is \in {"object", "array", "scalar", "null"}
<1>1. node.is \in {"object", "array", "scalar", "null"}
  BY DEF Nodes
<1>2. CASE node.is \in {"object", "array"}
  <2>1. NodeText(node, list) = Opening(node) \o list \o Closing(node)
    BY <1>2 DEF NodeText, Opening, Closing
  <2>2. Opening(node) \in Texts /\ Closing(node) \in Texts
    BY MoreTexts
  <2>3. Opening(node) \o list \o Closing(node) \in Texts
    BY <2>2 DEF Texts
  <2> QED BY <1>2, <2>1, <2>3
<1>3. CASE node.is = "scalar"
  <2>1. node.value \in Nat
    BY <1>3 DEF Nodes
  <2>2. NodeText(node, list) = <<<<"scalar", node.value>>>>
    BY <1>3 DEF NodeText
  <2>3. "scalar" \in TokenKinds
    BY DEF TokenKinds
  <2>4. <<<<"scalar", node.value>>>> \in Texts
    BY <2>1, <2>3, TokenTexts
  <2> QED BY <1>3, <2>1, <2>2, <2>4
<1>4. CASE node.is = "null"
  <2>1. NodeText(node, list) = <<<<"null", 0>>>>
    BY <1>4 DEF NodeText
  <2>2. "null" \in TokenKinds
    BY DEF TokenKinds
  <2>3. <<<<"null", 0>>>> \in Texts
    BY <2>2, TokenTexts
  <2> QED BY <1>4, <2>1, <2>3
<1> QED BY <1>1, <1>2, <1>3, <1>4

LEMMA PartsTexts ==
  ASSUME NEW value, IsDocument(value), NEW text \in [DOMAIN value -> Texts], NEW x \in DOMAIN value
  PROVE  /\ StepsIn(value[x]) \in SUBSET Steps /\ IsFiniteSet(StepsIn(value[x]))
         /\ PartsOf(value, text, x) \in [StepsIn(value[x]) -> Texts]
         /\ \A step \in StepsIn(value[x]) : Append(x, step) \in DOMAIN value /\ Len(Append(x, step)) = Len(x) + 1
<1>1. value[x] \in Nodes /\ x \in Seq(Steps)
  BY DocumentParts
<1>2. StepsIn(value[x]) \in SUBSET Steps /\ IsFiniteSet(StepsIn(value[x]))
  BY <1>1, InnerSteps, FiniteInner
<1>3. \A step \in StepsIn(value[x]) : Append(x, step) \in DOMAIN value /\ Len(Append(x, step)) = Len(x) + 1
  <2> TAKE step \in StepsIn(value[x])
  <2>1. step \in Steps
    BY <1>2
  <2> QED BY <1>1, <2>1, Appended, DocumentParts
<1>4. ASSUME NEW step \in StepsIn(value[x])
      PROVE  (IF step.is = "Index" THEN text[Append(x, step)] ELSE NameOf(step) \o text[Append(x, step)]) \in Texts
  <2>1. text[Append(x, step)] \in Texts
    BY <1>3
  <2>2. step \in Steps
    BY <1>2
  <2>3. CASE step.is = "Index"
    BY <2>1, <2>3
  <2>4. CASE step.is # "Index"
    <3>1. NameOf(step) \in Texts
      BY <2>2, <2>4, StepKinds, MoreTexts
    <3>2. NameOf(step) \o text[Append(x, step)] \in Texts
      BY <2>1, <3>1 DEF Texts
    <3> QED BY <2>4, <3>2
  <2> QED BY <2>3, <2>4
<1>5. PartsOf(value, text, x) \in [StepsIn(value[x]) -> Texts]
  BY <1>4 DEF PartsOf
<1> QED BY <1>2, <1>3, <1>5

LEMMA ListedTexts ==
  ASSUME NEW I \in SUBSET Steps, IsFiniteSet(I), NEW parts \in [I -> Texts]
  PROVE  Listed(parts) \in Texts
<1>1. PICK written \in [SUBSET I -> Texts] : Listed(parts) = written[I]
  BY ListedIs
<1> QED BY <1>1

LEMMA WriteIs ==
  ASSUME NEW value, IsDocument(value)
  PROVE  \E text \in [DOMAIN value -> Texts] : WrittenAs(text, value) /\ WriteCanonical(value) = text[<<>>]
<1>1. PICK A : A = DOMAIN value
  OBVIOUS
<1>2. PICK n \in Nat : \A x \in A : Len(x) <= n
  BY <1>1, Longest
<1> DEFINE X == Texts
           At0(x, text) == NodeText(value[x], Listed(PartsOf(value, text, x)))
           depth == [x \in A |-> n - Len(x)]
           step == [z \in A \X [A -> X] |-> At0(z[1], z[2])]
<1>3. \A x \in A : Len(x) \in Nat /\ value[x] \in Nodes
  BY <1>1, DocumentParts
<1>4. depth \in [A -> 0 .. n]
  BY <1>2, <1>3
<1>5. \A x \in A, text \in [A -> X] : At0(x, text) \in X
  <2> TAKE x \in A, text \in [A -> X]
  <2>1. Listed(PartsOf(value, text, x)) \in Texts
    BY <1>1, PartsTexts, ListedTexts
  <2> QED BY <1>3, <2>1, WrittenTexts
<1>6. step \in [A \X [A -> X] -> X] /\ \A x \in A, text \in [A -> X] : step[<<x, text>>] = At0(x, text)
  <2> HIDE DEF X, At0
  <2> QED BY <1>5
<1>7. IsLocal(A, X, depth, step)
  <2> SUFFICES ASSUME NEW x \in A, NEW f \in [A -> X], NEW g \in [A -> X],
                      \A y \in A : depth[y] < depth[x] => f[y] = g[y]
               PROVE  step[<<x, f>>] = step[<<x, g>>]
    BY DEF IsLocal
  <2>1. \A s \in StepsIn(value[x]) : f[Append(x, s)] = g[Append(x, s)]
    <3> TAKE s \in StepsIn(value[x])
    <3>1. PICK y \in A : y = Append(x, s) /\ Len(y) = Len(x) + 1
      BY <1>1, PartsTexts
    <3>2. depth[y] < depth[x]
      BY <1>3, <3>1
    <3> QED BY <3>1, <3>2
  <2>2. PartsOf(value, f, x) = PartsOf(value, g, x)
    BY <2>1 DEF PartsOf
  <2>3. At0(x, f) = At0(x, g)
    BY <2>2
  <2> HIDE DEF X, At0, step
  <2> QED BY <1>6, <2>3
<1>8. PICK f \in [A -> X] : IsFixpoint(f, A, step)
  <2>1. <<>> \in X
    BY TokenTexts
  <2>2. step \in [A \X [A -> X] -> X]
    BY <1>6
  <2> HIDE DEF X, depth, step, At0
  <2> QED BY <1>4, <1>7, <2>1, <2>2, Fixpoint
<1>9. \A x \in A : f[x] = At0(x, f)
  <2> HIDE DEF X, step, At0
  <2> QED BY <1>6, <1>8 DEF IsFixpoint
<1>10. f = [x \in DOMAIN value |-> At0(x, f)]
  <2> HIDE DEF At0
  <2> QED BY <1>1, <1>9
<1> DEFINE w == CHOOSE text : text = [x \in DOMAIN value |-> At0(x, text)]
<1>11. w = [x \in DOMAIN value |-> At0(x, w)]
  <2> HIDE DEF At0
  <2> QED BY <1>10
<1>12. WriteCanonical(value) = w[<<>>]
  BY DEF WriteCanonical, NodeText, PartsOf, NameOf
<1>13. \A x \in A : w[x] = At0(x, w)
  <2> HIDE DEF At0, w
  <2> QED BY <1>1, <1>11
<1> HIDE DEF w
<1> DEFINE T == {i \in Nat : \A x \in A : depth[x] < i => w[x] = f[x]}
<1>14. 0 \in T
  <2> HIDE DEF depth
  <2> QED BY <1>4
<1>15. ASSUME NEW i \in Nat, i \in T PROVE i + 1 \in T
  <2> HIDE DEF depth
  <2> SUFFICES ASSUME NEW x \in A, depth[x] < i + 1 PROVE w[x] = f[x]
    OBVIOUS
  <2>1. \A s \in StepsIn(value[x]) : w[Append(x, s)] = f[Append(x, s)]
    <3> TAKE s \in StepsIn(value[x])
    <3>1. f \in [DOMAIN value -> Texts] /\ x \in DOMAIN value
      BY <1>1, <1>8
    <3>2. PICK y \in A : y = Append(x, s) /\ Len(y) = Len(x) + 1
      BY <1>1, <3>1, PartsTexts
    <3>3. depth[y] < i
      <4>1. depth[y] = n - Len(y) /\ depth[x] = n - Len(x)
        BY DEF depth
      <4> QED BY <1>3, <3>2, <4>1
    <3> QED BY <1>15, <3>2, <3>3
  <2>2. PartsOf(value, w, x) = PartsOf(value, f, x)
    BY <2>1 DEF PartsOf
  <2>3. At0(x, w) = At0(x, f)
    BY <2>2
  <2> HIDE DEF At0
  <2> QED BY <1>9, <1>13, <2>3
<1>16. \A x \in A : w[x] = f[x]
  <2>1. Nat \subseteq T
    <3> HIDE DEF T
    <3> QED BY <1>14, <1>15, Induct
  <2> TAKE x \in A
  <2>2. n + 1 \in T /\ depth[x] < n + 1
    <3> HIDE DEF depth, T
    <3> QED BY <1>4, <2>1
  <2> HIDE DEF depth
  <2> QED BY <2>2
<1>17. WriteCanonical(value) = f[<<>>]
  BY <1>1, <1>12, <1>16, DocumentParts
<1>18. WrittenAs(f, value)
  BY <1>1, <1>9 DEF WrittenAs
<1> QED BY <1>1, <1>8, <1>17, <1>18

-----------------------------------------------------------------------------
(* The canonical text can be read back: equal texts are of documents that  *)
(* show the same at every place.                                           *)
LEMMA Spliced ==
  ASSUME NEW p \in Texts, NEW q \in Texts
  PROVE  /\ p \o q \in Texts /\ Len(p \o q) = Len(p) + Len(q)
         /\ Len(p) >= 1 => Len(p \o q) >= 1 /\ (p \o q)[1] = p[1]
         /\ <<>> \o q = q
<1>1. p \o q \in Texts /\ Len(p \o q) = Len(p) + Len(q)
  BY DEF Texts
<1>2. Len(p) >= 1 => (p \o q)[1] = p[1]
  BY DEF Texts
<1>3. <<>> \o q = q
  BY DEF Texts
<1> QED BY <1>1, <1>2, <1>3 DEF Texts

LEMMA Respliced ==
  ASSUME NEW p \in Texts, NEW q \in Texts, NEW r \in Texts
  PROVE  (p \o q) \o r = p \o (q \o r)
  BY ConcatAssociative DEF Texts

LEMMA Cancelled ==
  ASSUME NEW p \in Texts, NEW q \in Texts, NEW r \in Texts, p \o q = p \o r
  PROVE  q = r
<1>1. \A S : \A s, t, v \in Seq(S) : s \o t = s \o v => t = v
  BY ConcatSimplifications
<1> QED BY <1>1 DEF Texts

-----------------------------------------------------------------------------
Closes(u) == Len(u) >= 1 /\ u[1][1] \in {"}", "]"}
Starts(p) == Len(p) >= 1 /\ p[1][1] \notin {"}", "]"}

(* The steps from a rank on.                                               *)
StepsFrom(I, i) == {s \in I : Rank(s) >= i}

(* A text that starts with p and one that starts with q tell that these    *)
(* are of one step, and go on alike.                                       *)
Told(s, r, p, q, same) == \A u, v \in Texts : p \o u = q \o v => s = r /\ u = v /\ s \in same

OneKind(I, J) ==
  \/ \A s \in I \cup J : s.is = "Field"
  \/ /\ \A s \in I \cup J : s.is = "Index"
     /\ \A i, j \in Nat : i < j => (Index(j) \in I => Index(i) \in I) /\ (Index(j) \in J => Index(i) \in J)

LEMMA RanksTell ==
  ASSUME NEW I \in SUBSET Steps, NEW J \in SUBSET Steps, OneKind(I, J)
  PROVE  \A s \in I, r \in I : Rank(s) = Rank(r) => s = r
  BY StepKinds DEF OneKind, Rank

LEMMA NextSteps ==
  ASSUME NEW I \in SUBSET Steps, NEW J \in SUBSET Steps, OneKind(I, J), NEW i \in Nat, StepsFrom(I, i) # {}
  PROVE  /\ FirstOf(StepsFrom(I, i)) \in StepsFrom(I, i) /\ Rank(FirstOf(StepsFrom(I, i))) \in Nat
         /\ StepsFrom(I, i) \ {FirstOf(StepsFrom(I, i))} = StepsFrom(I, Rank(FirstOf(StepsFrom(I, i))) + 1)
         /\ (\A s \in I \cup J : s.is = "Field") \/ FirstOf(StepsFrom(I, i)) = Index(i)
<1>1. PICK left : left = StepsFrom(I, i) /\ left \in SUBSET Steps /\ left # {}
  BY DEF StepsFrom
<1>2. PICK s \in left : s = FirstOf(left) /\ \A other \in left : Rank(s) <= Rank(other)
  BY <1>1, Ranked
<1>3. \A other \in Steps : Rank(other) \in Nat
  BY StepKinds DEF Rank
<1>4. left \subseteq I /\ \A r \in I : r \in left <=> Rank(r) >= i
  BY <1>1 DEF StepsFrom
<1>5. \A r \in I : r \in left \ {s} <=> Rank(r) >= Rank(s) + 1
  <2> TAKE r \in I
  <2>1. Rank(r) = Rank(s) => r = s
    BY <1>2, <1>4, RanksTell
  <2>2. Rank(r) \in Nat /\ Rank(s) \in Nat
    BY <1>1, <1>2, <1>3
  <2>3. r \in left => Rank(s) <= Rank(r)
    BY <1>2
  <2>4. r = s => Rank(r) = Rank(s)
    OBVIOUS
  <2>5. Rank(s) >= i
    BY <1>2, <1>4
  <2> QED BY <1>4, <2>1, <2>2, <2>3, <2>4, <2>5
<1>6. left \ {s} = StepsFrom(I, Rank(s) + 1)
  BY <1>4, <1>5 DEF StepsFrom
<1>7. ASSUME ~(\A r \in I \cup J : r.is = "Field") PROVE s = Index(i)
  <2>1. (\A r \in I : r.is = "Index") /\ \A j, k \in Nat : j < k => (Index(k) \in I => Index(j) \in I)
    BY <1>7 DEF OneKind
  <2>2. s \in I /\ s.at \in Nat /\ s = Index(s.at) /\ Rank(s) = s.at /\ s.at >= i
    BY <1>2, <1>4, <2>1, StepKinds DEF Rank
  <2>3. Index(i) \in I /\ Index(i).at = i /\ Rank(Index(i)) = i
    BY <2>1, <2>2, StepKinds DEF Rank
  <2>4. Index(i) \in left
    BY <1>4, <2>3
  <2>5. s.at <= i
    BY <1>2, <2>2, <2>3, <2>4
  <2>6. s.at = i
    BY <2>2, <2>5
  <2> QED BY <2>2, <2>6
<1> QED BY <1>1, <1>2, <1>3, <1>6, <1>7

(* What follows the part that a list starts with.                          *)
ListRest(w, left, u) == CommaFor(left \ {FirstOf(left)}) \o (w[left \ {FirstOf(left)}] \o u)

GoesOn(w, parts, left, u) ==
  /\ FirstOf(left) \in left
  /\ w[left \ {FirstOf(left)}] \o u \in Texts /\ ListRest(w, left, u) \in Texts
  /\ w[left] \o u = parts[FirstOf(left)] \o ListRest(w, left, u)

IsList(I, parts, w) ==
  /\ I \in SUBSET Steps /\ IsFiniteSet(I)
  /\ parts \in [I -> Texts] /\ w \in [SUBSET I -> Texts] /\ ListedBy(w, parts)
  /\ \A s \in I : Starts(parts[s])

LEMMA ListGoesOn ==
  ASSUME NEW I, NEW parts, NEW w, IsList(I, parts, w), NEW left \in SUBSET I, NEW u \in Texts
  PROVE  /\ left = {} => w[left] \o u = u
         /\ left # {} => GoesOn(w, parts, left, u)
<1>1. left \in SUBSET DOMAIN parts /\ left \in SUBSET Steps /\ ListedBy(w, parts)
      /\ parts \in [I -> Texts] /\ w \in [SUBSET I -> Texts]
  BY DEF IsList
<1>2. CASE left = {}
  <2>1. w[left] = <<>>
    BY <1>1, <1>2 DEF ListedBy
  <2> QED BY <1>2, <2>1, TokenTexts, Spliced
<1>3. CASE left # {}
  <2>1. PICK s \in left : s = FirstOf(left)
    BY <1>1, <1>3, Ranked
  <2>2. w[left] = parts[s] \o CommaFor(left \ {s}) \o w[left \ {s}]
    BY <1>1, <1>3, <2>1 DEF ListedBy
  <2>3. PICK p \in Texts : p = parts[s]
    BY <1>1
  <2>4. PICK c \in Texts : c = CommaFor(left \ {s})
    BY TokenTexts DEF CommaFor
  <2>5. PICK r \in Texts : r = w[left \ {s}]
    BY <1>1
  <2>6. w[left] = (p \o c) \o r
    BY <2>2, <2>3, <2>4, <2>5
  <2>7. p \o c \in Texts
    BY Spliced
  <2>8. r \o u \in Texts
    BY Spliced
  <2>9. ((p \o c) \o r) \o u = (p \o c) \o (r \o u)
    BY <2>7, Respliced
  <2>10. PICK ru \in Texts : ru = r \o u
    BY <2>8
  <2>11. (p \o c) \o ru = p \o (c \o ru)
    BY Respliced
  <2>12. c \o ru \in Texts
    BY Spliced
  <2>13. ListRest(w, left, u) = c \o ru /\ w[left \ {FirstOf(left)}] \o u = ru
    BY <2>1, <2>4, <2>5, <2>10 DEF ListRest
  <2>14. w[left] \o u = p \o (c \o ru)
    BY <2>6, <2>9, <2>10, <2>11
  <2> QED BY <1>3, <2>1, <2>3, <2>12, <2>13, <2>14 DEF GoesOn
<1> QED BY <1>2, <1>3

LEMMA ListEmpty ==
  ASSUME NEW I, NEW parts, NEW w, IsList(I, parts, w), NEW u \in Texts
  PROVE  w[{}] \o u = u
<1>1. w[{}] = <<>>
  <2>1. {} \in SUBSET DOMAIN parts /\ ListedBy(w, parts)
    BY DEF IsList
  <2> QED BY <2>1 DEF ListedBy
<1> QED BY <1>1, Spliced, TokenTexts

LEMMA CommaStarts ==
  ASSUME NEW t \in Texts
  PROVE  ~Closes(Comma \o t)
<1>1. Comma \in Texts /\ Len(Comma) >= 1
  <2>1. Len(Comma) = 1
    BY DEF Comma
  <2> QED BY <2>1, TokenTexts
<1>2. Comma[1] = <<",", 0>> /\ Comma[1][1] = ","
  BY DEF Comma
<1>3. (Comma \o t)[1] = Comma[1]
  BY <1>1, Spliced
<1> QED BY <1>2, <1>3 DEF Closes

LEMMA PartStarts ==
  ASSUME NEW p \in Texts, Starts(p), NEW t \in Texts
  PROVE  ~Closes(p \o t)
<1>1. Len(p) >= 1 /\ p[1][1] \notin {"}", "]"}
  BY DEF Starts
<1>2. (p \o t)[1] = p[1]
  BY <1>1, Spliced
<1> QED BY <1>1, <1>2 DEF Closes

(* A list that is not empty does not start with what closes a list.        *)
LEMMA ListStarts ==
  ASSUME NEW I, NEW parts, NEW w, IsList(I, parts, w), NEW left \in SUBSET I, NEW u \in Texts, left # {}
  PROVE  ~Closes(w[left] \o u)
<1>1. GoesOn(w, parts, left, u)
  BY ListGoesOn
<1>2. PICK s \in left, t \in Texts : s = FirstOf(left) /\ t = ListRest(w, left, u) /\ w[left] \o u = parts[s] \o t
  BY <1>1 DEF GoesOn
<1>3. parts[s] \in Texts /\ Starts(parts[s])
  BY DEF IsList
<1>4. ~Closes(parts[s] \o t)
  BY <1>3, PartStarts
<1> QED BY <1>2, <1>4

-----------------------------------------------------------------------------
(* Two lists that are written alike, up to what closes them, are of the    *)
(* same steps, and each part is told.                                      *)
Alike(I, J, wI, wJ, same, i) ==
  \A u, v \in Texts :
    Closes(u) /\ Closes(v) /\ wI[StepsFrom(I, i)] \o u = wJ[StepsFrom(J, i)] \o v =>
      StepsFrom(I, i) = StepsFrom(J, i) /\ u = v /\ StepsFrom(I, i) \subseteq same

AllTold(I, J, p, q, same) ==
  \A s \in I : \A r \in J : s.is = "Field" \/ s = r => Told(s, r, p[s], q[r], same)

LEMMA AlikeStep ==
  ASSUME NEW I, NEW p, NEW wI, IsList(I, p, wI), NEW J, NEW q, NEW wJ, IsList(J, q, wJ),
         OneKind(I, J), NEW same, AllTold(I, J, p, q, same), NEW i \in Nat,
         \A m \in Nat : Cardinality(StepsFrom(I, m)) < Cardinality(StepsFrom(I, i)) => Alike(I, J, wI, wJ, same, m)
  PROVE  Alike(I, J, wI, wJ, same, i)
<1> SUFFICES ASSUME NEW u \in Texts, NEW v \in Texts, Closes(u), Closes(v),
                    wI[StepsFrom(I, i)] \o u = wJ[StepsFrom(J, i)] \o v
             PROVE  StepsFrom(I, i) = StepsFrom(J, i) /\ u = v /\ StepsFrom(I, i) \subseteq same
  BY DEF Alike
<1>1. I \in SUBSET Steps /\ J \in SUBSET Steps /\ IsFiniteSet(I)
  BY DEF IsList
<1>2. PICK left \in SUBSET I : left = StepsFrom(I, i)
  BY DEF StepsFrom
<1>3. PICK right \in SUBSET J : right = StepsFrom(J, i)
  BY DEF StepsFrom
<1>4. wI[left] \o u = wJ[right] \o v
  BY <1>2, <1>3
<1>5. left = {} => wI[left] \o u = u
  BY ListEmpty
<1>6. right = {} => wJ[right] \o v = v
  BY ListEmpty
<1>7. left # {} => ~Closes(wI[left] \o u)
  BY ListStarts
<1>8. right # {} => ~Closes(wJ[right] \o v)
  BY ListStarts
<1>9. CASE left = {} \/ right = {}
  <2>1. left = {} /\ right = {}
    BY <1>4, <1>5, <1>6, <1>7, <1>8, <1>9
  <2> QED BY <1>2, <1>3, <1>4, <1>5, <1>6, <2>1
<1>10. CASE left # {} /\ right # {}
  <2>1. GoesOn(wI, p, left, u)
    BY <1>10, ListGoesOn
  <2>2. GoesOn(wJ, q, right, v)
    BY <1>10, ListGoesOn
  <2>3. PICK s \in left : s = FirstOf(left)
    BY <2>1 DEF GoesOn
  <2>4. PICK r \in right : r = FirstOf(right)
    BY <2>2 DEF GoesOn
  <2>5. PICK ls \in SUBSET I : ls = left \ {s}
    OBVIOUS
  <2>6. PICK rs \in SUBSET J : rs = right \ {r}
    OBVIOUS
  <2>7. PICK x \in Texts : x = wI[ls] \o u
    BY <2>1, <2>3, <2>5 DEF GoesOn
  <2>8. PICK y \in Texts : y = wJ[rs] \o v
    BY <2>2, <2>4, <2>6 DEF GoesOn
  <2>9. ListRest(wI, left, u) = CommaFor(ls) \o x /\ CommaFor(ls) \o x \in Texts
    BY <2>1, <2>3, <2>5, <2>7 DEF GoesOn, ListRest
  <2>10. ListRest(wJ, right, v) = CommaFor(rs) \o y /\ CommaFor(rs) \o y \in Texts
    BY <2>2, <2>4, <2>6, <2>8 DEF GoesOn, ListRest
  <2>11. p[s] \o (CommaFor(ls) \o x) = q[r] \o (CommaFor(rs) \o y)
    BY <1>4, <2>1, <2>2, <2>3, <2>4, <2>9, <2>10 DEF GoesOn
  <2>12. /\ Rank(s) \in Nat /\ ls = StepsFrom(I, Rank(s) + 1)
         /\ (\A k \in I \cup J : k.is = "Field") \/ s = Index(i)
    <3>1. StepsFrom(I, i) # {} /\ s = FirstOf(StepsFrom(I, i))
      BY <1>2, <1>10, <2>3
    <3> QED BY <1>1, <1>2, <2>5, <3>1, NextSteps
  <2>13. /\ rs = StepsFrom(J, Rank(r) + 1)
         /\ (\A k \in I \cup J : k.is = "Field") \/ r = Index(i)
    <3>1. StepsFrom(J, i) # {} /\ r = FirstOf(StepsFrom(J, i))
      BY <1>3, <1>10, <2>4
    <3>2. OneKind(J, I)
      BY DEF OneKind
    <3>3. (\A k \in J \cup I : k.is = "Field") \/ r = Index(i)
      BY <1>1, <3>1, <3>2, NextSteps
    <3>4. rs = StepsFrom(J, Rank(r) + 1)
      BY <1>1, <1>3, <2>6, <3>1, <3>2, NextSteps
    <3> QED BY <3>3, <3>4
  <2>14. s.is = "Field" \/ s = r
    BY <2>12, <2>13
  <2>15. Told(s, r, p[s], q[r], same)
    BY <2>14 DEF AllTold
  <2>16. s = r /\ s \in same /\ CommaFor(ls) \o x = CommaFor(rs) \o y
    BY <2>9, <2>10, <2>11, <2>15 DEF Told
  <2>17. PICK m \in Nat : m = Rank(s) + 1 /\ ls = StepsFrom(I, m) /\ rs = StepsFrom(J, m)
    BY <2>12, <2>13, <2>16
  <2>18. ls = {} => x = u /\ CommaFor(ls) \o x = x
    <3> SUFFICES ASSUME ls = {} PROVE x = u /\ CommaFor(ls) \o x = x
      OBVIOUS
    <3>1. wI[{}] \o u = u
      BY ListEmpty
    <3>2. CommaFor(ls) = <<>> /\ <<>> \o x = x
      BY TokenTexts, Spliced DEF CommaFor
    <3> QED BY <2>7, <3>1, <3>2
  <2>19. rs = {} => y = v /\ CommaFor(rs) \o y = y
    <3> SUFFICES ASSUME rs = {} PROVE y = v /\ CommaFor(rs) \o y = y
      OBVIOUS
    <3>1. wJ[{}] \o v = v
      BY ListEmpty
    <3>2. CommaFor(rs) = <<>> /\ <<>> \o y = y
      BY TokenTexts, Spliced DEF CommaFor
    <3> QED BY <2>8, <3>1, <3>2
  <2>20. ~Closes(Comma \o x) /\ ~Closes(Comma \o y)
    BY CommaStarts
  <2>21. CASE ls = {} \/ rs = {}
    <3>1. ls = {} /\ rs = {}
      BY <2>16, <2>18, <2>19, <2>20, <2>21 DEF CommaFor
    <3>2. u = v
      BY <2>16, <2>18, <2>19, <3>1
    <3>3. left = {s} /\ right = {s}
      BY <2>5, <2>6, <2>16, <3>1
    <3> QED BY <1>2, <1>3, <2>16, <3>2, <3>3
  <2>22. CASE ls # {} /\ rs # {}
    <3>1. Comma \o x = Comma \o y
      BY <2>16, <2>22 DEF CommaFor
    <3>2. x = y
      BY <3>1, TokenTexts, Cancelled
    <3>3. Cardinality(StepsFrom(I, m)) < Cardinality(StepsFrom(I, i))
      <4>1. IsFiniteSet(left) /\ Cardinality(left) \in Nat
        BY <1>1, FS_Subset, FS_CardinalityType
      <4>2. Cardinality(left \ {s}) = Cardinality(left) - 1
        BY <4>1, FS_RemoveElement
      <4>3. Cardinality(ls) < Cardinality(left)
        BY <2>5, <4>1, <4>2
      <4> QED BY <1>2, <2>17, <4>3
    <3>4. Alike(I, J, wI, wJ, same, m)
      BY <3>3
    <3>5. ls = rs /\ u = v /\ ls \subseteq same
      BY <2>7, <2>8, <2>17, <3>2, <3>4 DEF Alike
    <3>6. left = right
      <4>1. left = ls \cup {s} /\ right = rs \cup {r}
        BY <2>5, <2>6
      <4> QED BY <2>16, <3>5, <4>1
    <3>7. left \subseteq same
      BY <2>5, <2>16, <3>5
    <3> QED BY <1>2, <1>3, <3>5, <3>6, <3>7
  <2> QED BY <2>21, <2>22
<1> QED BY <1>9, <1>10

LEMMA DecodeList ==
  ASSUME NEW I, NEW p, NEW wI, IsList(I, p, wI), NEW J, NEW q, NEW wJ, IsList(J, q, wJ),
         OneKind(I, J), NEW same, AllTold(I, J, p, q, same)
  PROVE  Alike(I, J, wI, wJ, same, 0)
<1> DEFINE Size(i) == Cardinality(StepsFrom(I, i))
           T == {n \in Nat : \A i \in Nat : Size(i) < n => Alike(I, J, wI, wJ, same, i)}
<1>1. \A i \in Nat : Size(i) \in Nat
  <2> TAKE i \in Nat
  <2>1. StepsFrom(I, i) \in SUBSET I /\ IsFiniteSet(I)
    BY DEF StepsFrom, IsList
  <2>2. IsFiniteSet(StepsFrom(I, i))
    BY <2>1, FS_Subset
  <2> QED BY <2>2, FS_CardinalityType
<1>2. 0 \in T
  <2> HIDE DEF Size
  <2> QED BY <1>1
<1>3. ASSUME NEW n \in Nat, n \in T PROVE n + 1 \in T
  <2> SUFFICES ASSUME NEW i \in Nat, Size(i) < n + 1 PROVE Alike(I, J, wI, wJ, same, i)
    OBVIOUS
  <2>1. \A m \in Nat : Size(m) < Size(i) => Alike(I, J, wI, wJ, same, m)
    <3> HIDE DEF Size
    <3> TAKE m \in Nat
    <3>1. Size(m) < Size(i) => Size(m) < n
      BY <1>1
    <3> QED BY <1>3, <3>1
  <2> QED BY <2>1, AlikeStep
<1>4. Nat \subseteq T
  <2> HIDE DEF T
  <2> QED BY <1>2, <1>3, Induct
<1>5. Size(0) + 1 \in T /\ Size(0) < Size(0) + 1
  <2> HIDE DEF Size, T
  <2> QED BY <1>1, <1>4
<1> QED
  <2> HIDE DEF Size
  <2> QED BY <1>5

IsText(text, value) == text \in [DOMAIN value -> Texts] /\ WrittenAs(text, value)

SameBelow(p, a, q, b) == \A z \in Seq(Steps) : Seen(p, a \o z) = Seen(q, b \o z)

(* What starts with the text of a place of p and with that of one of q is, *)
(* below these places, of values that agree.                               *)
Decodes(p, tp, q, tq, a, b) ==
  \A u, v \in Texts : tp[a] \o u = tq[b] \o v => u = v /\ SameBelow(p, a, q, b)

Token(node) ==
  IF node.is = "object" THEN <<"{", 0>>
  ELSE IF node.is = "array" THEN <<"[", 0>>
  ELSE IF node.is = "scalar" THEN <<"scalar", node.value>>
  ELSE <<"null", 0>>

LEMMA TextStarts ==
  ASSUME NEW value, IsDocument(value), NEW text, IsText(text, value), NEW x \in DOMAIN value
  PROVE  /\ text[x] \in Texts /\ Len(text[x]) >= 1 /\ text[x][1] = Token(value[x]) /\ Starts(text[x])
         /\ Listed(PartsOf(value, text, x)) \in Texts /\ text[x] = NodeText(value[x], Listed(PartsOf(value, text, x)))
         /\ value[x] \in Nodes
<1>1. text \in [DOMAIN value -> Texts] /\ value[x] \in Nodes
  BY DocumentParts DEF IsText
<1>2. PICK list \in Texts : list = Listed(PartsOf(value, text, x))
  BY <1>1, PartsTexts, ListedTexts
<1>3. text[x] = NodeText(value[x], list)
  BY <1>2 DEF IsText, WrittenAs
<1>4. PICK node \in Nodes : node = value[x]
  BY <1>1
<1>5. text[x] \in Texts /\ node.is \in {"object", "array", "scalar", "null"}
  BY <1>3, <1>4, WrittenTexts
<1>6. Len(text[x]) >= 1 /\ text[x][1] = Token(node)
  <2>1. CASE node.is \in {"object", "array"}
    <3>1. text[x] = Opening(node) \o list \o Closing(node)
      BY <1>3, <1>4, <2>1, WrittenTexts
    <3>2. PICK o \in Texts, c \in Texts : o = Opening(node) /\ c = Closing(node)
      BY MoreTexts
    <3>3. Len(o) = 1 /\ o[1] = Token(node)
      BY <2>1, <3>2 DEF Opening, Token
    <3>4. o \o list \in Texts /\ Len(o \o list) >= 1 /\ (o \o list)[1] = o[1]
      BY <3>3, Spliced
    <3>5. PICK r \in Texts : r = o \o list /\ Len(r) >= 1 /\ r[1] = o[1]
      BY <3>4
    <3>6. Len(r \o c) >= 1 /\ (r \o c)[1] = r[1]
      BY <3>5, Spliced
    <3> QED BY <3>1, <3>2, <3>3, <3>5, <3>6
  <2>2. CASE node.is = "scalar"
    <3>1. text[x] = <<<<"scalar", node.value>>>>
      BY <1>3, <1>4, <2>2, WrittenTexts
    <3> QED BY <2>2, <3>1 DEF Token
  <2>3. CASE node.is = "null"
    <3>1. text[x] = <<<<"null", 0>>>>
      BY <1>3, <1>4, <2>3, WrittenTexts
    <3> QED BY <2>3, <3>1 DEF Token
  <2> QED BY <1>5, <2>1, <2>2, <2>3
<1>7. Token(node)[1] \notin {"}", "]"}
  BY DEF Token
<1>8. Starts(text[x])
  BY <1>6, <1>7 DEF Starts
<1> QED BY <1>1, <1>2, <1>3, <1>4, <1>5, <1>6, <1>8

LEMMA NameStarts ==
  ASSUME NEW step \in Steps, step.is = "Field"
  PROVE  NameOf(step) \in Texts /\ Len(NameOf(step)) >= 1 /\ NameOf(step)[1] = <<"name", step.name>>
<1>1. NameOf(step) \in Texts
  BY MoreTexts
<1>2. Len(NameOf(step)) = 2 /\ NameOf(step)[1] = <<"name", step.name>>
  BY DEF NameOf
<1> QED BY <1>1, <1>2

LEMMA PartsAre ==
  ASSUME NEW value, IsDocument(value), NEW text, IsText(text, value), NEW x \in DOMAIN value
  PROVE  \E w : /\ IsList(StepsIn(value[x]), PartsOf(value, text, x), w)
                /\ Listed(PartsOf(value, text, x)) = w[StepsIn(value[x])]
<1>1. text \in [DOMAIN value -> Texts]
  BY DEF IsText
<1>2. PICK I : I = StepsIn(value[x]) /\ I \in SUBSET Steps /\ IsFiniteSet(I)
  BY <1>1, PartsTexts
<1>3. PICK parts : parts = PartsOf(value, text, x) /\ parts \in [I -> Texts]
  BY <1>1, <1>2, PartsTexts
<1>4. PICK w \in [SUBSET I -> Texts] : ListedBy(w, parts) /\ Listed(parts) = w[I]
  BY <1>2, <1>3, ListedIs
<1>5. ASSUME NEW s \in I PROVE Starts(parts[s])
  <2>1. PICK y \in DOMAIN value : y = Append(x, s)
    BY <1>1, <1>2, PartsTexts
  <2>2. text[y] \in Texts /\ Starts(text[y])
    BY TextStarts
  <2>3. CASE s.is = "Index"
    <3>1. parts[s] = text[y]
      BY <1>2, <1>3, <2>1, <2>3 DEF PartsOf
    <3> QED BY <2>2, <3>1
  <2>4. CASE s.is # "Index"
    <3>1. parts[s] = NameOf(s) \o text[y]
      BY <1>2, <1>3, <2>1, <2>4 DEF PartsOf
    <3>2. s \in Steps /\ s.is = "Field"
      BY <1>2, <2>4, StepKinds
    <3>3. NameOf(s) \in Texts /\ Len(NameOf(s)) >= 1 /\ NameOf(s)[1] = <<"name", s.name>>
      BY <3>2, NameStarts
    <3>4. Len(NameOf(s) \o text[y]) >= 1 /\ (NameOf(s) \o text[y])[1] = NameOf(s)[1]
      BY <2>2, <3>3, Spliced
    <3> QED BY <3>1, <3>3, <3>4 DEF Starts
  <2> QED BY <2>3, <2>4
<1>6. IsList(I, parts, w)
  BY <1>2, <1>3, <1>4, <1>5 DEF IsList
<1> QED BY <1>2, <1>3, <1>4, <1>6

LEMMA PartsTold ==
  ASSUME NEW p, IsDocument(p), NEW tp, IsText(tp, p), NEW a \in DOMAIN p,
         NEW q, IsDocument(q), NEW tq, IsText(tq, q), NEW b \in DOMAIN q,
         \A s \in StepsIn(p[a]) : \A r \in StepsIn(q[b]) : Decodes(p, tp, q, tq, Append(a, s), Append(b, r))
  PROVE  AllTold(StepsIn(p[a]), StepsIn(q[b]), PartsOf(p, tp, a), PartsOf(q, tq, b),
                 {s \in Steps : SameBelow(p, Append(a, s), q, Append(b, s))})
<1> DEFINE same == {s \in Steps : SameBelow(p, Append(a, s), q, Append(b, s))}
<1> SUFFICES ASSUME NEW s \in StepsIn(p[a]), NEW r \in StepsIn(q[b]), s.is = "Field" \/ s = r,
                    NEW u \in Texts, NEW v \in Texts,
                    PartsOf(p, tp, a)[s] \o u = PartsOf(q, tq, b)[r] \o v
             PROVE  s = r /\ u = v /\ s \in same
  BY DEF AllTold, Told
<1>1. s \in Steps /\ r \in Steps
  BY PartsTexts DEF IsText
<1>2. PICK y \in DOMAIN p : y = Append(a, s)
  BY PartsTexts DEF IsText
<1>3. PICK z \in DOMAIN q : z = Append(b, r)
  BY PartsTexts DEF IsText
<1>4. PICK ty \in Texts : ty = tp[y]
  BY TextStarts
<1>5. PICK tz \in Texts : tz = tq[z]
  BY TextStarts
<1>6. ty \o u \in Texts /\ tz \o v \in Texts
  BY Spliced
<1>7. ASSUME ty \o u = tz \o v, s = r PROVE s = r /\ u = v /\ s \in same
  <2>1. Decodes(p, tp, q, tq, y, z)
    BY <1>2, <1>3
  <2>2. u = v /\ SameBelow(p, y, q, z)
    BY <1>4, <1>5, <1>7, <2>1 DEF Decodes
  <2> QED BY <1>1, <1>2, <1>3, <1>7, <2>2
<1>8. CASE s.is # "Field"
  <2>1. s = r /\ s.is = "Index"
    BY <1>1, <1>8, StepKinds
  <2>2. PartsOf(p, tp, a)[s] = ty /\ PartsOf(q, tq, b)[r] = tz
    BY <1>2, <1>3, <1>4, <1>5, <2>1 DEF PartsOf
  <2> QED BY <1>7, <2>1, <2>2
<1>9. CASE s.is = "Field"
  <2>1. PICK ns \in Texts : ns = NameOf(s) /\ Len(ns) >= 1 /\ ns[1] = <<"name", s.name>>
    BY <1>1, <1>9, NameStarts
  <2>2. PartsOf(p, tp, a)[s] = ns \o ty
    BY <1>2, <1>4, <1>9, <2>1 DEF PartsOf
  <2>3. PartsOf(p, tp, a)[s] \o u = ns \o (ty \o u)
    <3>1. (ns \o ty) \o u = ns \o (ty \o u)
      BY Respliced
    <3> QED BY <2>2, <3>1
  <2>4. (ns \o (ty \o u))[1] = <<"name", s.name>>
    BY <1>6, <2>1, Spliced
  <2>5. CASE r.is = "Field"
    <3>1. PICK nr \in Texts : nr = NameOf(r) /\ Len(nr) >= 1 /\ nr[1] = <<"name", r.name>>
      BY <1>1, <2>5, NameStarts
    <3>2. PartsOf(q, tq, b)[r] = nr \o tz
      BY <1>3, <1>5, <2>5, <3>1 DEF PartsOf
    <3>3. PartsOf(q, tq, b)[r] \o v = nr \o (tz \o v)
      <4>1. (nr \o tz) \o v = nr \o (tz \o v)
        BY Respliced
      <4> QED BY <3>2, <4>1
    <3>4. (nr \o (tz \o v))[1] = <<"name", r.name>>
      BY <1>6, <3>1, Spliced
    <3>5. <<"name", s.name>> = <<"name", r.name>>
      BY <2>3, <2>4, <3>3, <3>4
    <3>6. s.name = r.name
      BY <3>5
    <3>7. s = r
      BY <1>1, <1>9, <2>5, <3>6, StepKinds
    <3>8. ns \o (ty \o u) = ns \o (tz \o v)
      BY <2>1, <2>3, <3>1, <3>3, <3>7
    <3>9. ty \o u = tz \o v
      BY <1>6, <3>8, Cancelled
    <3> QED BY <1>7, <3>7, <3>9
  <2>6. CASE r.is # "Field"
    <3>1. r.is = "Index"
      BY <1>1, <2>6, StepKinds
    <3>2. PartsOf(q, tq, b)[r] = tz
      BY <1>3, <1>5, <3>1 DEF PartsOf
    <3>3. (tz \o v)[1] = Token(q[z])
      <4>1. Len(tz) >= 1 /\ tz[1] = Token(q[z])
        BY <1>5, TextStarts
      <4> QED BY <4>1, Spliced
    <3>4. Token(q[z])[1] # "name"
      BY DEF Token
    <3>5. <<"name", s.name>>[1] = "name"
      OBVIOUS
    <3> QED BY <2>3, <2>4, <3>2, <3>3, <3>4, <3>5
  <2> QED BY <2>5, <2>6
<1> QED BY <1>8, <1>9

(* What Seen tells of a node.                                              *)
Label(node) == IF node.is = "scalar" THEN node ELSE [is |-> node.is]

LEMMA SeenTells ==
  ASSUME NEW p, NEW x, NEW q, NEW y
  PROVE  /\ Seen(p, x) = IF x \notin DOMAIN p THEN None ELSE Some(Label(p[x]))
         /\ x \in DOMAIN p /\ y \in DOMAIN q => (Seen(p, x) = Seen(q, y) <=> Label(p[x]) = Label(q[y]))
         /\ Seen(p, x) = Seen(q, y) => (x \in DOMAIN p <=> y \in DOMAIN q)
<1>1. Seen(p, x) = IF x \notin DOMAIN p THEN None ELSE Some(Label(p[x]))
  BY DEF Seen, Label
<1>2. Seen(q, y) = IF y \notin DOMAIN q THEN None ELSE Some(Label(q[y]))
  BY DEF Seen, Label
<1>3. \A v, w : Some(v) # None /\ (Some(v) = Some(w) <=> v = w)
  BY DEF Some, None
<1> QED BY <1>1, <1>2, <1>3

LEMMA LabelTells ==
  ASSUME NEW n \in Nodes, NEW m \in Nodes
  PROVE  /\ Label(n) = Label(m) => n.is = m.is /\ (n.is = "scalar" => n = m)
         /\ n.is = m.is /\ n.is # "scalar" => Label(n) = Label(m)
<1>1. Label(n).is = n.is /\ Label(m).is = m.is
  BY DEF Label
<1> QED BY <1>1 DEF Label

(* Nothing is behind a step that does not lead inside.                     *)
LEMMA NothingBehind ==
  ASSUME NEW p, IsDocument(p), NEW a \in DOMAIN p, NEW s \in Steps, s \notin StepsIn(p[a]), NEW z \in Seq(Steps)
  PROVE  Append(a, s) \o z \notin DOMAIN p
<1>1. a \in Seq(Steps)
  BY DocumentParts
<1>2. PICK y \in Seq(Steps) : y = Append(a, s)
  BY <1>1, Appended
<1>3. IsPrefix(y, y \o z)
  BY Under
<1>4. y \notin DOMAIN p
  BY <1>2, Children
<1> QED BY <1>2, <1>3, <1>4, OnTheWay

LEMMA BelowFrom ==
  ASSUME NEW p, IsDocument(p), NEW a \in DOMAIN p, NEW q, IsDocument(q), NEW b \in DOMAIN q,
         Label(p[a]) = Label(q[b]), StepsIn(p[a]) = StepsIn(q[b]),
         \A s \in StepsIn(p[a]) : SameBelow(p, Append(a, s), q, Append(b, s))
  PROVE  SameBelow(p, a, q, b)
<1> SUFFICES ASSUME NEW z \in Seq(Steps) PROVE Seen(p, a \o z) = Seen(q, b \o z)
  BY DEF SameBelow
<1>1. a \in Seq(Steps) /\ b \in Seq(Steps)
  BY DocumentParts
<1>2. CASE z = <<>>
  <2>1. a \o z = a /\ b \o z = b
    BY <1>1, <1>2
  <2> QED BY <2>1, SeenTells
<1>3. CASE z # <<>>
  <2>1. PICK s \in Steps, t \in Seq(Steps) : z = <<s>> \o t
    <3>1. Head(z) \in Steps /\ Tail(z) \in Seq(Steps) /\ z = <<Head(z)>> \o Tail(z)
      BY <1>3
    <3> QED BY <3>1
  <2>2. \A c \in Seq(Steps) : c \o z = Append(c, s) \o t
    <3> TAKE c \in Seq(Steps)
    <3>1. <<s>> \in Seq(Steps) /\ Append(c, s) = c \o <<s>>
      OBVIOUS
    <3>2. (c \o <<s>>) \o t = c \o (<<s>> \o t)
      BY <3>1, ConcatAssociative
    <3> QED BY <2>1, <3>1, <3>2
  <2>3. a \o z = Append(a, s) \o t /\ b \o z = Append(b, s) \o t
    BY <1>1, <2>2
  <2>4. CASE s \in StepsIn(p[a])
    BY <2>3, <2>4 DEF SameBelow
  <2>5. CASE s \notin StepsIn(p[a])
    <3>1. Append(a, s) \o t \notin DOMAIN p /\ Append(b, s) \o t \notin DOMAIN q
      BY <2>5, NothingBehind
    <3> QED BY <2>3, <3>1, NotSeen
  <2> QED BY <2>4, <2>5
<1> QED BY <1>2, <1>3

LEMMA KindOfInner ==
  ASSUME NEW n \in Nodes, NEW m \in Nodes, n.is = m.is
  PROVE  OneKind(StepsIn(n), StepsIn(m))
<1>1. CASE n.is = "object"
  <2>1. \A s \in StepsIn(n) \cup StepsIn(m) : s.is = "Field"
    BY <1>1, InnerSteps
  <2> QED BY <2>1 DEF OneKind
<1>2. CASE n.is = "array"
  <2>1. \A s \in StepsIn(n) \cup StepsIn(m) : s.is = "Index"
    BY <1>2, InnerSteps
  <2>2. n.len \in Nat /\ \A i \in Nat : Index(i) \in StepsIn(n) <=> i < n.len
    BY <1>2, InnerSteps
  <2>3. m.len \in Nat /\ \A i \in Nat : Index(i) \in StepsIn(m) <=> i < m.len
    BY <1>2, InnerSteps
  <2>4. \A i, j \in Nat : i < j => (Index(j) \in StepsIn(n) => Index(i) \in StepsIn(n)) /\ (Index(j) \in StepsIn(m) => Index(i) \in StepsIn(m))
    BY <2>2, <2>3
  <2> QED BY <2>1, <2>4 DEF OneKind
<1>3. CASE n.is \notin {"object", "array"}
  <2>1. StepsIn(n) = {} /\ StepsIn(m) = {}
    BY <1>3 DEF StepsIn
  <2> QED BY <2>1 DEF OneKind
<1> QED BY <1>1, <1>2, <1>3

LEMMA Closings ==
  \A node : Closes(Closing(node))
<1> SUFFICES ASSUME NEW node PROVE Len(Closing(node)) >= 1 /\ Closing(node)[1][1] \in {"}", "]"}
  BY DEF Closes
<1>1. PICK k : k \in {"}", "]"} /\ Closing(node) = <<<<k, 0>>>>
  BY DEF Closing
<1> DEFINE t == <<<<k, 0>>>>
<1>2. Len(t) >= 1 /\ t[1][1] = k
  OBVIOUS
<1>3. Closing(node) = t
  BY <1>1
<1> HIDE DEF t
<1> QED BY <1>1, <1>2, <1>3

IsAround(o, l, c, e) == ((o \o l) \o c) \o e = o \o (l \o (c \o e))

LEMMA Around ==
  \A o, l, c, e \in Texts : IsAround(o, l, c, e)
<1> SUFFICES ASSUME NEW o \in Texts, NEW l \in Texts, NEW c \in Texts, NEW e \in Texts
             PROVE  ((o \o l) \o c) \o e = o \o (l \o (c \o e))
  BY DEF IsAround
<1>1. PICK ol \in Texts : ol = o \o l
  BY Spliced
<1>2. PICK ce \in Texts : ce = c \o e
  BY Spliced
<1>3. (ol \o c) \o e = ol \o (c \o e)
  BY Respliced
<1>4. (o \o l) \o ce = o \o (l \o ce)
  BY Respliced
<1> QED BY <1>1, <1>2, <1>3, <1>4

LEMMA DecodeNode ==
  ASSUME NEW p, IsDocument(p), NEW tp, IsText(tp, p), NEW a \in DOMAIN p,
         NEW q, IsDocument(q), NEW tq, IsText(tq, q), NEW b \in DOMAIN q,
         \A s \in StepsIn(p[a]) : \A r \in StepsIn(q[b]) : Decodes(p, tp, q, tq, Append(a, s), Append(b, r))
  PROVE  Decodes(p, tp, q, tq, a, b)
<1> SUFFICES ASSUME NEW u \in Texts, NEW v \in Texts, tp[a] \o u = tq[b] \o v
             PROVE  u = v /\ SameBelow(p, a, q, b)
  BY DEF Decodes
<1>1. PICK n \in Nodes, m \in Nodes : n = p[a] /\ m = q[b]
  BY DocumentParts
<1>2. PICK x \in Texts : x = tp[a] /\ Len(x) >= 1 /\ x[1] = Token(n)
  BY <1>1, TextStarts
<1>3. PICK y \in Texts : y = tq[b] /\ Len(y) >= 1 /\ y[1] = Token(m)
  BY <1>1, TextStarts
<1>4. (x \o u)[1] = Token(n) /\ (y \o v)[1] = Token(m)
  BY <1>2, <1>3, Spliced
<1>5. Token(n) = Token(m)
  BY <1>2, <1>3, <1>4
<1>6. n.is \in {"object", "array", "scalar", "null"} /\ m.is \in {"object", "array", "scalar", "null"}
  BY DEF Nodes
<1>7. n.is = m.is /\ (n.is = "scalar" => n.value = m.value)
  <2>1. Token(n)[1] = Token(m)[1] /\ Token(n)[2] = Token(m)[2]
    BY <1>5
  <2>2. Token(n)[1] = (IF n.is = "object" THEN "{" ELSE IF n.is = "array" THEN "[" ELSE IF n.is = "scalar" THEN "scalar" ELSE "null")
    BY DEF Token
  <2>3. Token(m)[1] = (IF m.is = "object" THEN "{" ELSE IF m.is = "array" THEN "[" ELSE IF m.is = "scalar" THEN "scalar" ELSE "null")
    BY DEF Token
  <2>4. n.is = m.is
    <3>1. PICK k : k = Token(n)[1] /\ k = Token(m)[1]
      BY <2>1
    <3>2. /\ n.is = "object" => k = "{"
          /\ n.is = "array" => k = "["
          /\ n.is = "scalar" => k = "scalar"
          /\ n.is = "null" => k = "null"
      BY <3>1, <2>2
    <3>3. /\ m.is = "object" => k = "{"
          /\ m.is = "array" => k = "["
          /\ m.is = "scalar" => k = "scalar"
          /\ m.is = "null" => k = "null"
      BY <3>1, <2>3
    <3> QED BY <1>6, <3>2, <3>3
  <2>5. ASSUME n.is = "scalar" PROVE n.value = m.value
    <3>1. Token(n) = <<"scalar", n.value>> /\ Token(m) = <<"scalar", m.value>>
      BY <2>4, <2>5 DEF Token
    <3> QED BY <2>1, <3>1
  <2> QED BY <2>4, <2>5
<1>8. Label(n) = Label(m)
  <2>1. n.is = "scalar" => n = [is |-> "scalar", value |-> n.value]
    BY DEF Nodes
  <2>2. m.is = "scalar" => m = [is |-> "scalar", value |-> m.value]
    BY DEF Nodes
  <2>3. n.is = "scalar" => n = m
    BY <1>7, <2>1, <2>2
  <2> QED BY <1>7, <2>3 DEF Label
<1>9. CASE n.is \in {"scalar", "null"}
  <2>1. PICK l \in Texts : x = NodeText(n, l)
    BY <1>1, <1>2, TextStarts
  <2>2. PICK k \in Texts : y = NodeText(m, k)
    BY <1>1, <1>3, TextStarts
  <2>3. x = y
    <3>1. CASE n.is = "scalar"
      <4>1. NodeText(n, l) = <<<<"scalar", n.value>>>>
        BY <3>1, WrittenTexts
      <4>2. NodeText(m, k) = <<<<"scalar", m.value>>>>
        BY <1>7, <3>1, WrittenTexts
      <4> QED BY <1>7, <2>1, <2>2, <3>1, <4>1, <4>2
    <3>2. CASE n.is = "null"
      <4>1. NodeText(n, l) = <<<<"null", 0>>>>
        BY <3>2, WrittenTexts
      <4>2. NodeText(m, k) = <<<<"null", 0>>>>
        BY <1>7, <3>2, WrittenTexts
      <4> QED BY <2>1, <2>2, <4>1, <4>2
    <3> QED BY <1>9, <3>1, <3>2
  <2>4. u = v
    BY <1>2, <1>3, <2>3, Cancelled
  <2>5. StepsIn(n) = {} /\ StepsIn(m) = {}
    BY <1>7, <1>9 DEF StepsIn
  <2>6. SameBelow(p, a, q, b)
    BY <1>1, <1>8, <2>5, BelowFrom
  <2> QED BY <2>4, <2>6
<1>10. CASE n.is \in {"object", "array"}
  <2> DEFINE I == StepsIn(n)
             J == StepsIn(m)
             same == {s \in Steps : SameBelow(p, Append(a, s), q, Append(b, s))}
  <2>1. PICK w : /\ IsList(I, PartsOf(p, tp, a), w) /\ Listed(PartsOf(p, tp, a)) = w[I]
    BY <1>1, PartsAre
  <2>2. PICK z : /\ IsList(J, PartsOf(q, tq, b), z) /\ Listed(PartsOf(q, tq, b)) = z[J]
    BY <1>1, PartsAre
  <2>3. PICK lp \in Texts, lq \in Texts : lp = w[I] /\ lq = z[J] /\ x = NodeText(n, lp) /\ y = NodeText(m, lq)
    BY <1>1, <1>2, <1>3, <2>1, <2>2, TextStarts
  <2>4. PICK o \in Texts, c \in Texts : o = Opening(n) /\ c = Closing(n)
    BY MoreTexts
  <2>5. o = Opening(m) /\ c = Closing(m)
    BY <1>7, <2>4 DEF Opening, Closing
  <2>6. x = (o \o lp) \o c /\ y = (o \o lq) \o c
    BY <1>7, <1>10, <2>3, <2>4, <2>5, WrittenTexts
  <2>7. PICK cu \in Texts, cv \in Texts : cu = c \o u /\ cv = c \o v
    BY Spliced
  <2>8. IsAround(o, lp, c, u) /\ IsAround(o, lq, c, v)
    BY Around
  <2>9. o \o (lp \o cu) = o \o (lq \o cv)
    <3>1. x \o u = o \o (lp \o cu)
      BY <2>6, <2>7, <2>8 DEF IsAround
    <3>2. y \o v = o \o (lq \o cv)
      BY <2>6, <2>7, <2>8 DEF IsAround
    <3> QED BY <1>2, <1>3, <3>1, <3>2
  <2>10. lp \o cu = lq \o cv
    <3>1. lp \o cu \in Texts /\ lq \o cv \in Texts
      BY Spliced
    <3> QED BY <2>9, <3>1, Cancelled
  <2>11. Closes(cu) /\ Closes(cv)
    <3>1. Len(c) >= 1 /\ c[1][1] \in {"}", "]"}
      BY <2>4, Closings DEF Closes
    <3>2. Len(cu) >= 1 /\ cu[1] = c[1] /\ Len(cv) >= 1 /\ cv[1] = c[1]
      BY <2>7, <3>1, Spliced
    <3> QED BY <3>1, <3>2 DEF Closes
  <2>12. AllTold(I, J, PartsOf(p, tp, a), PartsOf(q, tq, b), same)
    BY <1>1, PartsTold
  <2>13. OneKind(I, J)
    BY <1>7, KindOfInner
  <2>14. Alike(I, J, w, z, same, 0)
    <3> HIDE DEF I, J, same
    <3> QED BY <2>1, <2>2, <2>12, <2>13, DecodeList
  <2>15. StepsFrom(I, 0) = I /\ StepsFrom(J, 0) = J
    <3>1. \A s \in I \cup J : s \in Steps
      BY InnerSteps
    <3>2. \A s \in Steps : Rank(s) \in Nat
      BY StepKinds DEF Rank
    <3>3. \A s \in I \cup J : Rank(s) >= 0
      BY <3>1, <3>2
    <3> QED BY <3>3 DEF StepsFrom
  <2>16. I = J /\ cu = cv /\ I \subseteq same
    <3> HIDE DEF I, J, same
    <3> QED BY <2>3, <2>10, <2>11, <2>14, <2>15 DEF Alike
  <2>17. u = v
    BY <2>7, <2>16, Cancelled
  <2>18. SameBelow(p, a, q, b)
    BY <1>1, <1>8, <2>16, BelowFrom
  <2> QED BY <2>17, <2>18
<1> QED BY <1>6, <1>9, <1>10

LEMMA DecodeAll ==
  ASSUME NEW p, IsDocument(p), NEW tp, IsText(tp, p), NEW q, IsDocument(q), NEW tq, IsText(tq, q)
  PROVE  \A a \in DOMAIN p, b \in DOMAIN q : Decodes(p, tp, q, tq, a, b)
<1>1. PICK A : A = DOMAIN p /\ A \subseteq Seq(Steps)
  BY DocumentParts
<1>2. PICK n \in Nat : \A x \in A : Len(x) <= n
  BY <1>1, Longest
<1>3. \A x \in A : Len(x) \in Nat
  BY <1>1
<1> DEFINE T == {i \in Nat : \A a \in A, b \in DOMAIN q : n - Len(a) < i => Decodes(p, tp, q, tq, a, b)}
<1>4. 0 \in T
  BY <1>2, <1>3
<1>5. ASSUME NEW i \in Nat, i \in T PROVE i + 1 \in T
  <2> SUFFICES ASSUME NEW a \in A, NEW b \in DOMAIN q, n - Len(a) < i + 1 PROVE Decodes(p, tp, q, tq, a, b)
    OBVIOUS
  <2>1. ASSUME NEW s \in StepsIn(p[a]), NEW r \in StepsIn(q[b])
        PROVE  Decodes(p, tp, q, tq, Append(a, s), Append(b, r))
    <3>1. PICK x \in A : x = Append(a, s) /\ Len(x) = Len(a) + 1
      BY <1>1, PartsTexts DEF IsText
    <3>2. PICK y \in DOMAIN q : y = Append(b, r)
      BY PartsTexts DEF IsText
    <3>3. n - Len(x) < i
      BY <1>3, <3>1
    <3> QED BY <1>5, <3>1, <3>2, <3>3
  <2> QED BY <1>1, <2>1, DecodeNode
<1>6. Nat \subseteq T
  <2> HIDE DEF T
  <2> QED BY <1>4, <1>5, Induct
<1> SUFFICES ASSUME NEW a \in DOMAIN p, NEW b \in DOMAIN q PROVE Decodes(p, tp, q, tq, a, b)
  OBVIOUS
<1>7. n + 1 \in T /\ n - Len(a) < n + 1 /\ a \in A
  <2> HIDE DEF T
  <2> QED BY <1>1, <1>3, <1>6
<1> QED BY <1>7

LEMMA TextTells ==
  ASSUME NEW p, IsDocument(p), NEW q, IsDocument(q), WriteCanonical(p) = WriteCanonical(q)
  PROVE  SameSeen(p, q)
<1>1. PICK tp \in [DOMAIN p -> Texts] : WrittenAs(tp, p) /\ WriteCanonical(p) = tp[<<>>]
  BY WriteIs
<1>2. PICK tq \in [DOMAIN q -> Texts] : WrittenAs(tq, q) /\ WriteCanonical(q) = tq[<<>>]
  BY WriteIs
<1>3. PICK e : e = <<>> /\ e \in DOMAIN p /\ e \in DOMAIN q
  BY DocumentParts
<1>4. IsText(tp, p) /\ IsText(tq, q)
  BY <1>1, <1>2 DEF IsText
<1>5. Decodes(p, tp, q, tq, e, e)
  BY <1>3, <1>4, DecodeAll
<1>6. tp[e] = tq[e]
  BY <1>1, <1>2, <1>3
<1>7. SameBelow(p, e, q, e)
  BY <1>5, <1>6, TokenTexts DEF Decodes
<1>8. \A z \in Seq(Steps) : e \o z = z
  BY <1>3
<1> QED BY <1>7, <1>8 DEF SameBelow, SameSeen

(* The same is seen of two documents: they have the same places, and at    *)
(* each the same steps lead inside.                                        *)
LEMMA SamePlaces ==
  ASSUME NEW p, IsDocument(p), NEW q, IsDocument(q), SameSeen(p, q)
  PROVE  /\ DOMAIN p = DOMAIN q
         /\ \A x \in DOMAIN p : Label(p[x]) = Label(q[x]) /\ StepsIn(p[x]) = StepsIn(q[x])
<1>1. DOMAIN p \subseteq Seq(Steps) /\ DOMAIN q \subseteq Seq(Steps)
  BY DocumentParts
<1>2. \A x \in Seq(Steps) : x \in DOMAIN p <=> x \in DOMAIN q
  BY SeenTells DEF SameSeen
<1>3. DOMAIN p = DOMAIN q
  BY <1>1, <1>2
<1>4. ASSUME NEW x \in DOMAIN p PROVE Label(p[x]) = Label(q[x])
  BY <1>1, <1>3, SeenTells DEF SameSeen
<1>5. ASSUME NEW x \in DOMAIN p PROVE StepsIn(p[x]) = StepsIn(q[x])
  <2>1. \A s \in Steps : s \in StepsIn(p[x]) <=> Append(x, s) \in DOMAIN p
    BY Children
  <2>2. \A s \in Steps : s \in StepsIn(q[x]) <=> Append(x, s) \in DOMAIN q
    BY <1>3, Children
  <2>3. p[x] \in Nodes /\ q[x] \in Nodes
    BY <1>3, DocumentParts
  <2>4. StepsIn(p[x]) \subseteq Steps /\ StepsIn(q[x]) \subseteq Steps
    BY <2>3, InnerSteps
  <2> QED BY <1>3, <2>1, <2>2, <2>4
<1> QED BY <1>3, <1>4, <1>5

LEMMA SameWritten ==
  ASSUME NEW n \in Nodes, NEW m \in Nodes, Label(n) = Label(m), NEW list
  PROVE  NodeText(n, list) = NodeText(m, list)
<1>1. n.is = m.is /\ (n.is = "scalar" => n = m)
  BY LabelTells
<1> QED BY <1>1 DEF NodeText

LEMMA SeenTellsText ==
  ASSUME NEW p, IsDocument(p), NEW q, IsDocument(q), SameSeen(p, q)
  PROVE  WriteCanonical(p) = WriteCanonical(q)
<1>1. PICK tp \in [DOMAIN p -> Texts] : WrittenAs(tp, p) /\ WriteCanonical(p) = tp[<<>>]
  BY WriteIs
<1>2. PICK tq \in [DOMAIN q -> Texts] : WrittenAs(tq, q) /\ WriteCanonical(q) = tq[<<>>]
  BY WriteIs
<1>3. PICK A : A = DOMAIN p /\ A = DOMAIN q /\ A \subseteq Seq(Steps) /\ <<>> \in A
  BY DocumentParts, SamePlaces
<1>4. PICK n \in Nat : \A x \in A : Len(x) <= n
  BY <1>3, Longest
<1>5. \A x \in A : Len(x) \in Nat
  BY <1>3
<1> DEFINE T == {i \in Nat : \A x \in A : n - Len(x) < i => tp[x] = tq[x]}
<1>6. 0 \in T
  BY <1>4, <1>5
<1>7. ASSUME NEW i \in Nat, i \in T PROVE i + 1 \in T
  <2> SUFFICES ASSUME NEW x \in A, n - Len(x) < i + 1 PROVE tp[x] = tq[x]
    OBVIOUS
  <2>1. Label(p[x]) = Label(q[x]) /\ StepsIn(p[x]) = StepsIn(q[x])
    BY <1>3, SamePlaces
  <2>2. \A s \in StepsIn(p[x]) : tp[Append(x, s)] = tq[Append(x, s)]
    <3> TAKE s \in StepsIn(p[x])
    <3>1. PICK y \in A : y = Append(x, s) /\ Len(y) = Len(x) + 1
      BY <1>3, PartsTexts
    <3>2. n - Len(y) < i
      BY <1>5, <3>1
    <3> QED BY <1>7, <3>1, <3>2
  <2>3. PartsOf(p, tp, x) = PartsOf(q, tq, x)
    BY <2>1, <2>2 DEF PartsOf
  <2>4. tp[x] = NodeText(p[x], Listed(PartsOf(p, tp, x)))
    BY <1>1, <1>3 DEF WrittenAs
  <2>5. tq[x] = NodeText(q[x], Listed(PartsOf(q, tq, x)))
    BY <1>2, <1>3 DEF WrittenAs
  <2>6. p[x] \in Nodes /\ q[x] \in Nodes
    BY <1>3, DocumentParts
  <2>7. \A list : NodeText(p[x], list) = NodeText(q[x], list)
    BY <2>1, <2>6, SameWritten
  <2> QED BY <2>3, <2>4, <2>5, <2>7
<1>8. Nat \subseteq T
  <2> HIDE DEF T
  <2> QED BY <1>6, <1>7, Induct
<1>9. PICK e \in A : e = <<>>
  BY <1>3
<1>10. n + 1 \in T /\ n - Len(e) < n + 1
  <2> HIDE DEF T
  <2> QED BY <1>5, <1>8
<1>11. tp[e] = tq[e]
  BY <1>10
<1> QED BY <1>1, <1>2, <1>9, <1>11

(* Two documents have one canonical text exactly if they show the same at  *)
(* every place.                                                            *)
LEMMA SameText ==
  ASSUME NEW p, IsDocument(p), NEW q, IsDocument(q)
  PROVE  WriteCanonical(p) = WriteCanonical(q) <=> SameSeen(p, q)
BY TextTells, SeenTellsText

-----------------------------------------------------------------------------
(* The paths of only: what has been picked is the copy of the paths found so *)
(* far, with nulls before the elements of arrays that they name.           *)
(* Prefixes are ordered, and those of one sequence by their lengths.       *)
LEMMA PrefixOrder ==
  ASSUME NEW S, NEW s \in Seq(S), NEW t \in Seq(S), NEW u \in Seq(S)
  PROVE  /\ IsPrefix(s, s) /\ (s = <<>> => IsPrefix(s, t))
         /\ IsPrefix(s, t) /\ IsPrefix(t, u) => IsPrefix(s, u)
         /\ IsPrefix(s, u) /\ IsPrefix(t, u) /\ Len(s) <= Len(t) => IsPrefix(s, t)
         /\ IsPrefix(s, t) /\ Len(t) <= Len(s) => s = t
<1>1. /\ IsPrefix(s, s) <=> Len(s) <= Len(s) /\ \A i \in 1 .. Len(s) : s[i] = s[i]
      /\ IsPrefix(s, t) <=> Len(s) <= Len(t) /\ \A i \in 1 .. Len(s) : s[i] = t[i]
      /\ IsPrefix(t, u) <=> Len(t) <= Len(u) /\ \A i \in 1 .. Len(t) : t[i] = u[i]
      /\ IsPrefix(s, u) <=> Len(s) <= Len(u) /\ \A i \in 1 .. Len(s) : s[i] = u[i]
  BY PrefixIs
<1>2. Len(s) \in Nat /\ Len(t) \in Nat /\ Len(u) \in Nat
  OBVIOUS
<1>3. s = <<>> => IsPrefix(s, t)
  BY <1>1, <1>2
<1>4. ASSUME IsPrefix(s, t), Len(t) <= Len(s) PROVE s = t
  <2>1. Len(s) = Len(t) /\ \A i \in 1 .. Len(s) : s[i] = t[i]
    BY <1>1, <1>2, <1>4
  <2> QED BY <2>1, SeqEqual
<1>5. ASSUME IsPrefix(s, t), IsPrefix(t, u) PROVE IsPrefix(s, u)
  BY <1>1, <1>2, <1>5
<1>6. ASSUME IsPrefix(s, u), IsPrefix(t, u), Len(s) <= Len(t) PROVE IsPrefix(s, t)
  BY <1>1, <1>2, <1>6
<1> QED BY <1>1, <1>2, <1>3, <1>4, <1>5, <1>6

IsHop(h, r, k) ==
  /\ h = SubSeq(r, 1, k) /\ h \in Seq(Steps) /\ Len(h) = k /\ IsPrefix(h, r)
  /\ \A x \in Seq(Steps) : IsPrefix(x, r) /\ Len(x) = k => x = h

LEMMA HopIs ==
  ASSUME NEW r \in Seq(Steps), NEW k \in 0 .. Len(r)
  PROVE  IsHop(SubSeq(r, 1, k), r, k)
<1>1. PICK h : h = SubSeq(r, 1, k) /\ h \in Seq(Steps) /\ Len(h) = k /\ \A i \in 1 .. k : h[i] = r[i]
  <2>1. SubSeq(r, 1, k) \in Seq(Steps) /\ Len(SubSeq(r, 1, k)) = k
    OBVIOUS
  <2>2. \A i \in 1 .. k : SubSeq(r, 1, k)[i] = r[i]
    OBVIOUS
  <2> QED BY <2>1, <2>2
<1>2. IsPrefix(h, r)
  <2>1. Len(h) <= Len(r) /\ \A i \in 1 .. Len(h) : h[i] = r[i]
    BY <1>1
  <2> QED BY <1>1, <2>1, PrefixIs
<1>3. ASSUME NEW x \in Seq(Steps), IsPrefix(x, r), Len(x) = k PROVE x = h
  <2>1. \A i \in 1 .. k : x[i] = r[i]
    BY <1>3, PrefixIs
  <2> QED BY <1>1, <1>3, <2>1, SeqEqual
<1> QED BY <1>1, <1>2, <1>3 DEF IsHop

LEMMA HopOf ==
  ASSUME NEW r \in Seq(Steps), NEW x \in Seq(Steps), IsPrefix(x, r)
  PROVE  Len(x) \in 0 .. Len(r) /\ x = SubSeq(r, 1, Len(x)) /\ (x # r => Len(x) \in 0 .. Len(r) - 1)
<1>1. Len(x) \in 0 .. Len(r)
  BY PrefixIs
<1>2. x = SubSeq(r, 1, Len(x))
  BY <1>1, HopIs DEF IsHop
<1>3. Len(x) = Len(r) => x = r
  BY PrefixOrder
<1> QED BY <1>1, <1>2, <1>3

(* The prefix one step longer.                                             *)
LEMMA NextHop ==
  ASSUME NEW r \in Seq(Steps), NEW x \in Seq(Steps), IsPrefix(x, r), x # r
  PROVE  /\ r[Len(x) + 1] \in Steps
         /\ \A s \in Steps : IsPrefix(Append(x, s), r) <=> s = r[Len(x) + 1]
<1>1. PICK k \in 0 .. Len(r) - 1 : k = Len(x)
  BY HopOf
<1>2. r[k + 1] \in Steps
  BY <1>1
<1>3. \A i \in 1 .. k : x[i] = r[i]
  BY <1>1, PrefixIs
<1>4. ASSUME NEW s \in Steps PROVE IsPrefix(Append(x, s), r) <=> s = r[k + 1]
  <2>1. PICK y \in Seq(Steps) : IsAppended(y, x, s)
    BY AppendedIs
  <2>2. y = Append(x, s) /\ Len(y) = k + 1 /\ y[k + 1] = s /\ \A i \in 1 .. k : y[i] = x[i]
    BY <1>1, <2>1 DEF IsAppended
  <2>3. IsPrefix(y, r) <=> Len(y) <= Len(r) /\ \A i \in 1 .. Len(y) : y[i] = r[i]
    BY PrefixIs
  <2>4. \A i \in 1 .. k + 1 : i = k + 1 \/ i \in 1 .. k
    OBVIOUS
  <2>5. k + 1 <= Len(r) /\ k + 1 \in 1 .. k + 1
    OBVIOUS
  <2> QED BY <1>3, <2>2, <2>3, <2>4, <2>5
<1> QED BY <1>1, <1>2, <1>4

-----------------------------------------------------------------------------
(* The elements that a path's indices leave behind them.                   *)
IsPad(r, x) ==
  /\ x # <<>> /\ IsPrefix(Front(x), r) /\ Front(x) # r
  /\ r[Len(Front(x)) + 1].is = "Index" /\ Last(x).is = "Index"
  /\ Last(x).at < r[Len(Front(x)) + 1].at

LEMMA PadAppend ==
  ASSUME NEW r \in Seq(Steps), NEW x \in Seq(Steps), NEW s \in Steps
  PROVE  IsPad(r, Append(x, s)) <=> /\ IsPrefix(x, r) /\ x # r
                                    /\ r[Len(x) + 1].is = "Index" /\ s.is = "Index" /\ s.at < r[Len(x) + 1].at
<1>1. Append(x, s) # <<>> /\ Front(Append(x, s)) = x /\ Last(Append(x, s)) = s
  BY Appended
<1> QED BY <1>1 DEF IsPad

(* A path leads through the containers its steps call for, and in an array *)
(* past the elements before its own.                                       *)
LEMMA Through ==
  ASSUME NEW value, IsDocument(value), NEW r \in DOMAIN value, NEW x \in Seq(Steps), IsPrefix(x, r), x # r
  PROVE  /\ x \in DOMAIN value /\ r[Len(x) + 1] \in Steps /\ r[Len(x) + 1] \in StepsIn(value[x])
         /\ value[x].is = ContainerFor(r[Len(x) + 1]).is
<1>1. r \in Seq(Steps)
  BY DocumentParts
<1>2. x \in DOMAIN value
  BY <1>1, OnTheWay
<1>3. PICK s \in Steps : s = r[Len(x) + 1]
  BY <1>1, NextHop
<1>4. IsPrefix(Append(x, s), r) /\ Append(x, s) \in Seq(Steps)
  BY <1>1, <1>3, NextHop, Appended
<1>5. Append(x, s) \in DOMAIN value
  BY <1>4, OnTheWay
<1>6. s \in StepsIn(value[x])
  BY <1>2, <1>5, Children
<1>7. value[x] \in Nodes
  BY <1>2, DocumentParts
<1>8. s.is = IF value[x].is = "object" THEN "Field" ELSE "Index"
  BY <1>6, <1>7, InnerSteps
<1>9. value[x].is \in {"object", "array"}
  BY <1>6, <1>7, InnerSteps
<1>10. ContainerFor(s).is = IF s.is = "Field" THEN "object" ELSE "array"
  BY DEF ContainerFor
<1> QED BY <1>2, <1>3, <1>6, <1>8, <1>9, <1>10

LEMMA PadsThere ==
  ASSUME NEW value, IsDocument(value), NEW r \in DOMAIN value, NEW x \in Seq(Steps), IsPad(r, x)
  PROVE  x \in DOMAIN value
<1>1. r \in Seq(Steps)
  BY DocumentParts
<1>2. PICK f \in Seq(Steps), s \in Steps : f = Front(x) /\ s = Last(x) /\ x = Append(f, s)
  BY Ends DEF IsPad
<1>3. IsPrefix(f, r) /\ f # r
  BY <1>2 DEF IsPad
<1>4. PICK t \in Steps : t = r[Len(f) + 1] /\ t \in StepsIn(value[f]) /\ f \in DOMAIN value
  BY <1>3, Through
<1>5. t.is = "Index" /\ s.is = "Index" /\ s.at < t.at
  BY <1>2, <1>4 DEF IsPad
<1>6. t.at \in Nat /\ t = Index(t.at) /\ s.at \in Nat /\ s = Index(s.at)
  BY <1>5, StepKinds
<1>7. value[f] \in Nodes
  BY <1>4, DocumentParts
<1>8. value[f].is = "array"
  <2>1. value[f].is \in {"object", "array"}
    BY <1>4, <1>7, InnerSteps
  <2>2. t.is = IF value[f].is = "object" THEN "Field" ELSE "Index"
    BY <1>4, <1>7, InnerSteps
  <2> QED BY <1>5, <2>1, <2>2
<1>9. value[f].len \in Nat /\ \A i \in Nat : Index(i) \in StepsIn(value[f]) <=> i < value[f].len
  BY <1>7, <1>8, InnerSteps
<1>10. t.at < value[f].len
  BY <1>4, <1>6, <1>9
<1>11. s.at < value[f].len
  BY <1>5, <1>6, <1>9, <1>10
<1>12. s \in StepsIn(value[f])
  BY <1>6, <1>9, <1>11
<1> QED BY <1>2, <1>4, <1>12, DocumentParts

OnWay(F, x) == x = <<>> \/ \E r \in F : IsPrefix(x, r)
Covered(F, x) == \E r \in F : IsPrefix(r, x)
Padded(F, x) == \E r \in F : IsPad(r, x)
Wanted(F, x) == OnWay(F, x) \/ Covered(F, x) \/ Padded(F, x)

(* The part of a document that the paths F, which all hit, copy.           *)
IsCopy(copy, value, F) ==
  /\ IsDocument(copy)
  /\ \A x \in Seq(Steps) : x \in DOMAIN copy <=> x \in DOMAIN value /\ Wanted(F, x)
  /\ \A x \in DOMAIN copy :
       /\ Covered(F, x) => copy[x] = value[x]
       /\ OnWay(F, x) => copy[x].is = value[x].is
       /\ ~Covered(F, x) /\ ~OnWay(F, x) => copy[x] = NullNode

(* The steps of SetPath.                                                   *)
Opens(root, r, k) ==
  \/ SubSeq(r, 1, k) \notin DOMAIN root
  \/ (k > 0 /\ r[k].is = "Index" /\ root[SubSeq(r, 1, k)] = NullNode)

ParentOf(root, r, k) == IF Opens(root, r, k) THEN ContainerFor(r[k + 1]) ELSE root[SubSeq(r, 1, k)]

Misfit(root, r) == \E k \in 0 .. Len(r) - 1 : ParentOf(root, r, k).is # ContainerFor(r[k + 1]).is

PadPlaces(root, r) ==
  UNION {{Append(SubSeq(r, 1, k), Index(i)) : i \in ParentOf(root, r, k).len .. r[k + 1].at - 1}
           : k \in {j \in 0 .. Len(r) - 1 : r[j + 1].is = "Index"}}

PutPlaces(root, r, value) ==
  {x \in DOMAIN root : ~IsPrefix(r, x)} \cup PadPlaces(root, r)
    \cup {SubSeq(r, 1, k) : k \in 0 .. Len(r) - 1} \cup {r \o y : y \in DOMAIN value}

PutNode(root, r, value, x) ==
  IF IsPrefix(r, x) THEN value[Beyond(r, x)]
  ELSE IF IsPrefix(x, r) THEN Grown(ParentOf(root, r, Len(x)), r[Len(x) + 1])
  ELSE IF x \in {y \in DOMAIN root : ~IsPrefix(r, y)} THEN root[x]
  ELSE NullNode

RootOf(target, r) == IF target = Null THEN Leaf(ContainerFor(r[1])) ELSE target

LEMMA SetPathIs ==
  ASSUME NEW target, NEW r, NEW value, ~Misfit(RootOf(target, r), r)
  PROVE  SetPath(target, r, value) =
           [x \in PutPlaces(RootOf(target, r), r, value) |-> PutNode(RootOf(target, r), r, value, x)]
BY DEF SetPath, Misfit, ParentOf, Opens, PutPlaces, PadPlaces, PutNode, RootOf

-----------------------------------------------------------------------------
LEMMA Containers ==
  ASSUME NEW s \in Steps
  PROVE  /\ ContainerFor(s) \in Nodes /\ StepsIn(ContainerFor(s)) = {}
         /\ ContainerFor(s).is \in {"object", "array"}
         /\ ContainerFor(s).is = "object" <=> s.is = "Field"
         /\ ContainerFor(s).is = "object" => IsInjective(ContainerFor(s).names)
         /\ ContainerFor(s).is = "array" => ContainerFor(s).len = 0
<1>1. CASE s.is = "Field"
  <2>1. ContainerFor(s) = [is |-> "object", names |-> <<>>] /\ <<>> \in Seq(Nat)
    BY <1>1 DEF ContainerFor
  <2>2. ContainerFor(s) \in Nodes
    BY <2>1 DEF Nodes
  <2>3. ToSet(<<>>) = {} /\ IsInjective(<<>>)
    BY DEF ToSet, IsInjective
  <2>4. StepsIn(ContainerFor(s)) = {}
    BY <2>1, <2>3 DEF StepsIn
  <2> QED BY <1>1, <2>1, <2>2, <2>3, <2>4
<1>2. CASE s.is # "Field"
  <2>1. ContainerFor(s) = [is |-> "array", len |-> 0]
    BY <1>2 DEF ContainerFor
  <2>2. ContainerFor(s) \in Nodes
    BY <2>1 DEF Nodes
  <2>3. StepsIn(ContainerFor(s)) = {}
    BY <2>1 DEF StepsIn
  <2> QED BY <1>2, <2>1, <2>2, <2>3
<1> QED BY <1>1, <1>2

LEMMA NullInner ==
  NullNode \in Nodes /\ StepsIn(NullNode) = {} /\ NullNode.is = "null"
BY DEF NullNode, Nodes, StepsIn

LEMMA Roots ==
  ASSUME NEW value, IsDocument(value), NEW r \in DOMAIN value, r # <<>>
  PROVE  IsCopy(Leaf(ContainerFor(r[1])), value, {})
<1>1. PICK e \in DOMAIN value : e = <<>> /\ r \in Seq(Steps) /\ e \in Seq(Steps) /\ Len(e) = 0
  BY DocumentParts
<1>2. IsPrefix(e, r)
  BY <1>1, PrefixOrder
<1>3. PICK s \in Steps : s = r[1] /\ value[e].is = ContainerFor(s).is
  <2>1. r[Len(e) + 1] \in Steps /\ value[e].is = ContainerFor(r[Len(e) + 1]).is
    <3>1. e \in Seq(Steps) /\ IsPrefix(e, r) /\ e # r
      BY <1>1, <1>2
    <3> QED BY <3>1, Through
  <2>2. Len(e) + 1 = 1
    BY <1>1
  <2> QED BY <2>1, <2>2
<1>4. PICK c : c = Leaf(ContainerFor(s)) /\ IsDocument(c) /\ DOMAIN c = {<<>>} /\ c[<<>>] = ContainerFor(s)
  BY Containers, NullDocument
<1>5. \A x : ~Covered({}, x) /\ (OnWay({}, x) <=> x = <<>>) /\ (Wanted({}, x) <=> x = <<>>)
  BY DEF Covered, OnWay, Wanted, Padded
<1>6. IsCopy(c, value, {})
  BY <1>1, <1>3, <1>4, <1>5 DEF IsCopy
<1> QED BY <1>3, <1>4, <1>6

LEMMA GrownIs ==
  ASSUME NEW node \in Nodes, NEW t \in Steps, node.is = ContainerFor(t).is,
         node.is = "object" => IsInjective(node.names)
  PROVE  /\ Grown(node, t) \in Nodes /\ Grown(node, t).is = node.is
         /\ Grown(node, t).is = "object" => IsInjective(Grown(node, t).names)
         /\ \A s \in Steps : s \in StepsIn(Grown(node, t)) <=>
              s \in StepsIn(node) \/ s = t \/ (t.is = "Index" /\ s.is = "Index" /\ s.at < t.at)
<1>1. PICK g : g = Grown(node, t)
  OBVIOUS
<1>2. CASE t \in StepsIn(node)
  <2>1. g = node
    BY <1>1, <1>2 DEF Grown
  <2>2. ASSUME NEW s \in Steps, t.is = "Index", s.is = "Index", s.at < t.at PROVE s \in StepsIn(node)
    <3>1. t.at \in Nat /\ t = Index(t.at) /\ s.at \in Nat /\ s = Index(s.at)
      BY <2>2, StepKinds
    <3>2. node.is = "array"
      <4>1. node.is \in {"object", "array"}
        BY <1>2, InnerSteps
      <4>2. t.is = IF node.is = "object" THEN "Field" ELSE "Index"
        BY <1>2, InnerSteps
      <4> QED BY <2>2, <4>1, <4>2
    <3>3. node.len \in Nat /\ \A i \in Nat : Index(i) \in StepsIn(node) <=> i < node.len
      BY <3>2, InnerSteps
    <3>4. t.at < node.len
      BY <1>2, <3>1, <3>3
    <3>5. s.at < node.len
      BY <2>2, <3>1, <3>3, <3>4
    <3> QED BY <3>1, <3>3, <3>5
  <2> QED BY <1>1, <1>2, <2>1, <2>2
<1>3. CASE t \notin StepsIn(node) /\ t.is = "Field"
  <2>1. node.is = "object" /\ t.name \in Nat /\ t = Field(t.name)
    BY <1>3, Containers, StepKinds
  <2>2. PICK names \in Seq(Nat) : names = node.names /\ node = [is |-> "object", names |-> names]
    BY <2>1 DEF Nodes
  <2>3. g = [is |-> "object", names |-> Append(names, t.name)]
    <3>1. g = [node EXCEPT !.names = Append(@, t.name)]
      BY <1>1, <1>3 DEF Grown
    <3>2. PICK longer : longer = Append(names, t.name)
      OBVIOUS
    <3>3. g = [node EXCEPT !.names = longer]
      BY <2>2, <3>1, <3>2
    <3>4. g = [is |-> "object", names |-> longer]
      BY <2>2, <3>3
    <3> QED BY <3>2, <3>4
  <2>4. Append(names, t.name) \in Seq(Nat)
    BY <2>1
  <2>5. g \in Nodes /\ g.is = "object" /\ g.names = Append(names, t.name)
    BY <2>3, <2>4 DEF Nodes
  <2>6. t.name \notin ToSet(names)
    BY <1>3, <2>1, <2>2, InnerSteps
  <2>7. PICK N \in Nat : N = Len(names) /\ DOMAIN names = 1 .. N
    OBVIOUS
  <2>8. PICK longer \in Seq(Nat) : IsAppended(longer, names, t.name)
    BY <2>1, AppendedIs
  <2>9. /\ longer = Append(names, t.name) /\ DOMAIN longer = 1 .. N + 1 /\ longer[N + 1] = t.name
        /\ \A i \in 1 .. N : longer[i] = names[i]
    BY <2>7, <2>8 DEF IsAppended
  <2>10. IsInjective(longer)
    <3>1. \A i, j \in 1 .. N : names[i] = names[j] => i = j
      BY <2>1, <2>2, <2>7 DEF IsInjective
    <3>2. \A i \in 1 .. N : names[i] # t.name
      BY <2>6, <2>7 DEF ToSet
    <3>3. \A i \in 1 .. N + 1 : i \in 1 .. N \/ i = N + 1
      OBVIOUS
    <3>4. \A i, j \in 1 .. N + 1 : longer[i] = longer[j] => i = j
      BY <2>9, <3>1, <3>2, <3>3
    <3> QED BY <2>9, <3>4 DEF IsInjective
  <2>11. \A n \in Nat : n \in ToSet(longer) <=> n \in ToSet(names) \/ n = t.name
    <3>1. \A i \in 1 .. N + 1 : i \in 1 .. N \/ i = N + 1
      OBVIOUS
    <3>2. N + 1 \in 1 .. N + 1 /\ \A i \in 1 .. N : i \in 1 .. N + 1
      OBVIOUS
    <3>3. ToSet(longer) = {longer[i] : i \in 1 .. N + 1} /\ ToSet(names) = {names[i] : i \in 1 .. N}
      BY <2>7, <2>9 DEF ToSet
    <3> QED BY <2>9, <3>1, <3>2, <3>3
  <2>12. ASSUME NEW s \in Steps PROVE s \in StepsIn(g) <=> s \in StepsIn(node) \/ s = t
    <3>1. s \in StepsIn(g) \cup StepsIn(node) => s.is = "Field"
      BY <2>1, <2>5, InnerSteps
    <3>2. s.is = "Field" => s.name \in Nat /\ s = Field(s.name)
      BY StepKinds
    <3>3. \A n \in Nat : Field(n) \in StepsIn(g) <=> n \in ToSet(longer)
      BY <2>5, <2>9, InnerSteps
    <3>4. \A n \in Nat : Field(n) \in StepsIn(node) <=> n \in ToSet(names)
      BY <2>1, <2>2, InnerSteps
    <3>5. s = t => s.is = "Field"
      BY <1>3
    <3>6. s.is = "Field" => (s = t <=> s.name = t.name)
      BY <2>1, <3>2
    <3> QED BY <2>11, <3>1, <3>2, <3>3, <3>4, <3>5, <3>6
  <2> QED BY <1>1, <1>3, <2>1, <2>5, <2>9, <2>10, <2>12
<1>4. CASE t \notin StepsIn(node) /\ t.is # "Field"
  <2>1. node.is = "array" /\ t.is = "Index" /\ t.at \in Nat /\ t = Index(t.at)
    <3>1. t.is = "Index" /\ t.at \in Nat /\ t = Index(t.at)
      BY <1>4, StepKinds
    <3>2. node.is = "array"
      BY <1>4, Containers
    <3> QED BY <3>1, <3>2
  <2>2. node.len \in Nat /\ node = [is |-> "array", len |-> node.len]
    BY <2>1 DEF Nodes
  <2>3. g = [is |-> "array", len |-> t.at + 1]
    BY <1>1, <1>4, <2>2 DEF Grown
  <2>4. g \in Nodes /\ g.is = "array" /\ g.len = t.at + 1
    BY <2>1, <2>3 DEF Nodes
  <2>5. ~(t.at < node.len)
    BY <1>4, <2>1, InnerSteps
  <2>6. ASSUME NEW s \in Steps
        PROVE  s \in StepsIn(g) <=> s \in StepsIn(node) \/ s = t \/ (s.is = "Index" /\ s.at < t.at)
    <3>1. s \in StepsIn(g) \cup StepsIn(node) => s.is = "Index"
      BY <2>1, <2>4, InnerSteps
    <3>2. s.is = "Index" => s.at \in Nat /\ s = Index(s.at)
      BY StepKinds
    <3>3. \A i \in Nat : Index(i) \in StepsIn(g) <=> i < t.at + 1
      BY <2>4, InnerSteps
    <3>4. \A i \in Nat : Index(i) \in StepsIn(node) <=> i < node.len
      BY <2>1, InnerSteps
    <3>5. s = t => s.is = "Index"
      BY <2>1
    <3>6. s.is = "Index" => (s = t <=> s.at = t.at)
      BY <2>1, <3>2
    <3> QED BY <2>1, <2>2, <2>5, <3>1, <3>2, <3>3, <3>4, <3>5, <3>6
  <2> QED BY <1>1, <2>1, <2>4, <2>6
<1> QED BY <1>2, <1>3, <1>4

(* What a hop of SetPath finds or opens, in the copy so far.               *)
IsParent(node, root, value, F, t, x) ==
  /\ node \in Nodes /\ node.is = value[x].is /\ node.is = ContainerFor(t).is
  /\ node.is = "object" => IsInjective(node.names)
  /\ \A s \in Steps : s \in StepsIn(node) <=> Append(x, s) \in DOMAIN root
  /\ Covered(F, x) => node = value[x]

LEMMA ParentIs ==
  ASSUME NEW value, IsDocument(value), NEW F \in SUBSET DOMAIN value, NEW root, IsCopy(root, value, F),
         NEW r \in DOMAIN value, NEW x \in Seq(Steps), IsPrefix(x, r), x # r
  PROVE  /\ x \in DOMAIN value /\ r[Len(x) + 1] \in Steps /\ r[Len(x) + 1] \in StepsIn(value[x])
         /\ IsParent(ParentOf(root, r, Len(x)), root, value, F, r[Len(x) + 1], x)
<1>1. r \in Seq(Steps)
  BY DocumentParts
<1>2. PICK k \in 0 .. Len(r) - 1 : k = Len(x) /\ x = SubSeq(r, 1, k)
  BY <1>1, HopOf
<1>3. PICK t \in Steps : t = r[k + 1] /\ t \in StepsIn(value[x]) /\ x \in DOMAIN value /\ value[x].is = ContainerFor(t).is
  BY <1>2, Through
<1>4. IsDocument(root) /\ (x \in DOMAIN root <=> Wanted(F, x))
  BY <1>3 DEF IsCopy
<1>5. Opens(root, r, k) <=> x \notin DOMAIN root \/ (k > 0 /\ r[k].is = "Index" /\ root[x] = NullNode)
  BY <1>2 DEF Opens
<1>6. value[x].is \in {"object", "array"}
  BY <1>3, Containers
<1>7. Covered(F, x) => x \in DOMAIN root /\ root[x] = value[x]
  BY <1>4 DEF IsCopy, Wanted
<1>8. CASE Opens(root, r, k)
  <2>1. ParentOf(root, r, k) = ContainerFor(t)
    BY <1>3, <1>8 DEF ParentOf
  <2>2. ASSUME NEW s \in Steps PROVE Append(x, s) \notin DOMAIN root
    <3>1. CASE x \notin DOMAIN root
      <4>1. Append(x, s) # <<>> /\ Front(Append(x, s)) = x
        BY Appended
      <4> QED BY <1>4, <3>1, <4>1, DocumentParts
    <3>2. CASE x \in DOMAIN root /\ root[x] = NullNode
      <4>1. s \notin StepsIn(root[x])
        BY <3>2, NullInner
      <4> QED BY <1>4, <3>2, <4>1, Children
    <3> QED BY <1>5, <1>8, <3>1, <3>2
  <2>3. ~Covered(F, x)
    <3>1. Covered(F, x) => value[x] = NullNode
      BY <1>5, <1>7, <1>8
    <3> QED BY <1>6, <3>1, NullInner
  <2>4. IsParent(ContainerFor(t), root, value, F, t, x)
    BY <1>3, <2>2, <2>3, Containers DEF IsParent
  <2> QED BY <1>2, <1>3, <2>1, <2>4
<1>9. CASE ~Opens(root, r, k)
  <2>1. PICK node : node = ParentOf(root, r, k) /\ node = root[x] /\ x \in DOMAIN root
    BY <1>2, <1>5, <1>9 DEF ParentOf
  <2>2. node \in Nodes /\ (node.is = "object" => IsInjective(node.names))
    BY <1>4, <2>1, DocumentParts
  <2>3. \A s \in Steps : s \in StepsIn(node) <=> Append(x, s) \in DOMAIN root
    BY <1>4, <2>1, Children
  <2>4. node.is = value[x].is
    <3>1. CASE Covered(F, x) \/ OnWay(F, x)
      BY <2>1, <3>1 DEF IsCopy
    <3>2. CASE ~Covered(F, x) /\ ~OnWay(F, x)
      <4>1. node = NullNode /\ Padded(F, x)
        BY <1>4, <2>1, <3>2 DEF IsCopy, Wanted
      <4>2. x # <<>> /\ Last(x).is = "Index"
        BY <4>1 DEF Padded, IsPad
      <4>3. k > 0 /\ Last(x) = x[k]
        <5>1. Len(x) \in Nat \ {0} /\ Last(x) = x[Len(x)]
          BY <4>2, Ends
        <5> QED BY <1>2, <5>1
      <4>4. x[k] = r[k]
        BY <1>1, <1>2, <4>3, PrefixIs
      <4> QED BY <1>5, <1>9, <2>1, <4>1, <4>2, <4>3, <4>4
    <3> QED BY <3>1, <3>2
  <2>5. IsParent(node, root, value, F, t, x)
    BY <1>3, <1>7, <2>1, <2>2, <2>3, <2>4 DEF IsParent
  <2> QED BY <1>2, <1>3, <2>1, <2>5
<1> QED BY <1>8, <1>9

LEMMA NoMisfit ==
  ASSUME NEW value, IsDocument(value), NEW F \in SUBSET DOMAIN value, NEW root, IsCopy(root, value, F),
         NEW r \in DOMAIN value
  PROVE  ~Misfit(root, r)
<1> SUFFICES ASSUME NEW k \in 0 .. Len(r) - 1 PROVE ParentOf(root, r, k).is = ContainerFor(r[k + 1]).is
  BY DEF Misfit
<1>1. r \in Seq(Steps)
  BY DocumentParts
<1>2. PICK x \in Seq(Steps) : x = SubSeq(r, 1, k) /\ Len(x) = k /\ IsPrefix(x, r)
  <2>1. k \in 0 .. Len(r)
    BY <1>1
  <2>2. IsHop(SubSeq(r, 1, k), r, k)
    BY <1>1, <2>1, HopIs
  <2> QED BY <2>2 DEF IsHop
<1>3. x # r
  BY <1>2
<1>4. IsParent(ParentOf(root, r, Len(x)), root, value, F, r[Len(x) + 1], x)
  BY <1>2, <1>3, ParentIs
<1> QED BY <1>2, <1>4 DEF IsParent

LEMMA AtIs ==
  ASSUME NEW value, IsDocument(value), NEW r \in DOMAIN value, NEW x \in Seq(Steps)
  PROVE  /\ (\E y \in DOMAIN At(value, r) : x = r \o y) <=> x \in DOMAIN value /\ IsPrefix(r, x)
         /\ x \in DOMAIN value /\ IsPrefix(r, x) => At(value, r)[Beyond(r, x)] = value[x]
<1>1. r \in Seq(Steps) /\ DOMAIN value \subseteq Seq(Steps)
  BY DocumentParts
<1>2. DOMAIN At(value, r) = {Beyond(r, y) : y \in {z \in DOMAIN value : IsPrefix(r, z)}}
  BY DEF At
<1>3. \A y \in DOMAIN At(value, r) : At(value, r)[y] = value[r \o y]
  BY <1>2 DEF At
<1>4. ASSUME x \in DOMAIN value, IsPrefix(r, x)
      PROVE  Beyond(r, x) \in DOMAIN At(value, r) /\ x = r \o Beyond(r, x) /\ At(value, r)[Beyond(r, x)] = value[x]
  <2>1. x = r \o Beyond(r, x)
    BY <1>1, <1>4, PrefixSplits
  <2>2. Beyond(r, x) \in DOMAIN At(value, r)
    BY <1>2, <1>4
  <2> QED BY <1>3, <2>1, <2>2
<1>5. ASSUME NEW y \in DOMAIN At(value, r), x = r \o y PROVE x \in DOMAIN value /\ IsPrefix(r, x)
  <2>1. PICK z \in DOMAIN value : IsPrefix(r, z) /\ y = Beyond(r, z)
    BY <1>2
  <2>2. z = r \o y
    BY <1>1, <2>1, PrefixSplits
  <2> QED BY <1>5, <2>1, <2>2
<1> QED BY <1>4, <1>5

LEMMA PadPlacesIs ==
  ASSUME NEW value, IsDocument(value), NEW F \in SUBSET DOMAIN value, NEW root, IsCopy(root, value, F),
         NEW r \in DOMAIN value
  PROVE  /\ \A x \in PadPlaces(root, r) : x \in Seq(Steps) /\ IsPad(r, x)
         /\ \A x \in Seq(Steps) : IsPad(r, x) => x \in PadPlaces(root, r) \/ x \in DOMAIN root
<1>1. r \in Seq(Steps)
  BY DocumentParts
<1>2. ASSUME NEW f \in Seq(Steps), IsPrefix(f, r), f # r, r[Len(f) + 1].is = "Index"
      PROVE  /\ r[Len(f) + 1].at \in Nat /\ ParentOf(root, r, Len(f)).len \in Nat
             /\ \A i \in Nat : i < ParentOf(root, r, Len(f)).len => Append(f, Index(i)) \in DOMAIN root
  <2>1. PICK t \in Steps : t = r[Len(f) + 1] /\ t.at \in Nat
    BY <1>1, <1>2, NextHop, StepKinds
  <2>2. PICK node : node = ParentOf(root, r, Len(f)) /\ IsParent(node, root, value, F, t, f)
    BY <1>2, <2>1, ParentIs
  <2>3. node \in Nodes /\ node.is = "array"
    <3>1. node \in Nodes /\ node.is = ContainerFor(t).is
      BY <2>2 DEF IsParent
    <3> QED BY <1>2, <2>1, <3>1, Containers
  <2>4. node.len \in Nat /\ \A i \in Nat : Index(i) \in StepsIn(node) <=> i < node.len
    BY <2>3, InnerSteps
  <2>5. \A i \in Nat : i < node.len => Append(f, Index(i)) \in DOMAIN root
    BY <2>2, <2>4, StepKinds DEF IsParent
  <2> QED BY <2>1, <2>2, <2>4, <2>5
<1>3. ASSUME NEW x \in PadPlaces(root, r) PROVE x \in Seq(Steps) /\ IsPad(r, x)
  <2>1. PICK k \in 0 .. Len(r) - 1 :
          /\ r[k + 1].is = "Index"
          /\ \E i \in ParentOf(root, r, k).len .. r[k + 1].at - 1 : x = Append(SubSeq(r, 1, k), Index(i))
    BY DEF PadPlaces
  <2>2. PICK i \in ParentOf(root, r, k).len .. r[k + 1].at - 1 : x = Append(SubSeq(r, 1, k), Index(i))
    BY <2>1
  <2>3. PICK f \in Seq(Steps) : f = SubSeq(r, 1, k) /\ Len(f) = k /\ IsPrefix(f, r) /\ f # r
    <3>1. k \in 0 .. Len(r) /\ k # Len(r)
      BY <1>1
    <3>2. IsHop(SubSeq(r, 1, k), r, k)
      BY <1>1, <3>1, HopIs
    <3> QED BY <3>1, <3>2 DEF IsHop
  <2>4. r[k + 1].at \in Nat /\ ParentOf(root, r, k).len \in Nat
    BY <1>2, <2>1, <2>3
  <2>5. i \in Nat /\ i < r[k + 1].at
    BY <2>2, <2>4
  <2>6. Index(i) \in Steps /\ Index(i).is = "Index" /\ Index(i).at = i
    BY <2>5, StepKinds
  <2>7. x = Append(f, Index(i)) /\ x \in Seq(Steps)
    BY <2>2, <2>3, <2>6, Appended
  <2>8. IsPad(r, Append(f, Index(i)))
    <3>1. PICK s \in Steps : s = Index(i) /\ s.is = "Index" /\ s.at < r[Len(f) + 1].at
      BY <2>3, <2>5, <2>6
    <3>2. r[Len(f) + 1].is = "Index"
      BY <2>1, <2>3
    <3>3. IsPad(r, Append(f, s))
      BY <1>1, <2>3, <3>1, <3>2, PadAppend
    <3> QED BY <3>1, <3>3
  <2> QED BY <2>7, <2>8
<1>4. ASSUME NEW x \in Seq(Steps), IsPad(r, x), x \notin DOMAIN root PROVE x \in PadPlaces(root, r)
  <2>1. PICK f \in Seq(Steps), s \in Steps : f = Front(x) /\ s = Last(x) /\ x = Append(f, s)
    BY <1>4, Ends DEF IsPad
  <2>2. IsPrefix(f, r) /\ f # r /\ r[Len(f) + 1].is = "Index" /\ s.is = "Index" /\ s.at < r[Len(f) + 1].at
    BY <1>4, <2>1 DEF IsPad
  <2>3. s.at \in Nat /\ s = Index(s.at)
    BY <2>2, StepKinds
  <2>4. PICK k \in 0 .. Len(r) - 1 : k = Len(f) /\ f = SubSeq(r, 1, k)
    BY <1>1, <2>2, HopOf
  <2>5. /\ r[k + 1].at \in Nat /\ ParentOf(root, r, k).len \in Nat
        /\ (s.at < ParentOf(root, r, k).len => x \in DOMAIN root)
    BY <1>2, <2>1, <2>2, <2>3, <2>4
  <2>6. s.at \in ParentOf(root, r, k).len .. r[k + 1].at - 1
    BY <1>4, <2>2, <2>3, <2>4, <2>5
  <2>7. x = Append(SubSeq(r, 1, k), Index(s.at))
    BY <2>1, <2>3, <2>4
  <2>8. r[k + 1].is = "Index"
    BY <2>2, <2>4
  <2>9. k \in {j \in 0 .. Len(r) - 1 : r[j + 1].is = "Index"}
    BY <2>8
  <2>10. x \in {Append(SubSeq(r, 1, k), Index(i)) : i \in ParentOf(root, r, k).len .. r[k + 1].at - 1}
    BY <2>6, <2>7
  <2> QED BY <2>9, <2>10 DEF PadPlaces
<1> QED BY <1>3, <1>4

LEMMA OneMore ==
  ASSUME NEW F, NEW r \in Seq(Steps), NEW x \in Seq(Steps)
  PROVE  /\ Covered(F \cup {r}, x) <=> Covered(F, x) \/ IsPrefix(r, x)
         /\ OnWay(F \cup {r}, x) <=> OnWay(F, x) \/ IsPrefix(x, r)
         /\ Wanted(F \cup {r}, x) <=> Wanted(F, x) \/ IsPrefix(r, x) \/ IsPrefix(x, r) \/ IsPad(r, x)
<1>1. x = <<>> => IsPrefix(x, r)
  BY PrefixOrder
<1> QED BY <1>1 DEF Covered, OnWay, Padded, Wanted

LEMMA PutPlacesIs ==
  ASSUME NEW value, IsDocument(value), NEW F \in SUBSET DOMAIN value, NEW root, IsCopy(root, value, F),
         NEW r \in DOMAIN value
  PROVE  /\ PutPlaces(root, r, At(value, r)) \subseteq Seq(Steps)
         /\ \A x \in Seq(Steps) : x \in PutPlaces(root, r, At(value, r)) <=> x \in DOMAIN value /\ Wanted(F \cup {r}, x)
<1> DEFINE places == PutPlaces(root, r, At(value, r))
<1>1. r \in Seq(Steps) /\ DOMAIN value \subseteq Seq(Steps)
  BY DocumentParts
<1>2. \A x \in Seq(Steps) : Wanted(F \cup {r}, x) <=> Wanted(F, x) \/ IsPrefix(r, x) \/ IsPrefix(x, r) \/ IsPad(r, x)
  BY <1>1, OneMore
<1>3. IsDocument(root) /\ DOMAIN root \subseteq Seq(Steps)
      /\ \A x \in Seq(Steps) : x \in DOMAIN root <=> x \in DOMAIN value /\ Wanted(F, x)
  BY DocumentParts DEF IsCopy
<1>4. \A x : x \in places <=>
        \/ x \in DOMAIN root /\ ~IsPrefix(r, x)
        \/ x \in PadPlaces(root, r)
        \/ \E k \in 0 .. Len(r) - 1 : x = SubSeq(r, 1, k)
        \/ \E y \in DOMAIN At(value, r) : x = r \o y
  BY DEF PutPlaces
<1>5. ASSUME NEW k \in 0 .. Len(r) - 1 PROVE SubSeq(r, 1, k) \in Seq(Steps) /\ IsPrefix(SubSeq(r, 1, k), r)
  <2>1. k \in 0 .. Len(r)
    BY <1>1
  <2> QED BY <1>1, <2>1, HopIs DEF IsHop
<1>6. \A x \in PadPlaces(root, r) : x \in Seq(Steps) /\ IsPad(r, x)
  BY PadPlacesIs
<1>7. \A y \in DOMAIN At(value, r) : r \o y \in Seq(Steps)
  <2> TAKE y \in DOMAIN At(value, r)
  <2>1. PICK z \in DOMAIN value : IsPrefix(r, z) /\ y = Beyond(r, z)
    BY DEF At
  <2>2. z = r \o y
    BY <1>1, <2>1, PrefixSplits
  <2> QED BY <1>1, <2>2
<1>8. places \subseteq Seq(Steps)
  <2> HIDE DEF places
  <2> QED BY <1>3, <1>4, <1>5, <1>6, <1>7
<1>9. ASSUME NEW x \in Seq(Steps), x \in places PROVE x \in DOMAIN value /\ Wanted(F \cup {r}, x)
  <2>1. CASE x \in DOMAIN root
    BY <1>2, <1>3, <2>1
  <2>2. CASE x \in PadPlaces(root, r)
    BY <1>2, <1>6, <2>2, PadsThere
  <2>3. CASE \E k \in 0 .. Len(r) - 1 : x = SubSeq(r, 1, k)
    BY <1>1, <1>2, <1>5, <2>3, OnTheWay
  <2>4. CASE \E y \in DOMAIN At(value, r) : x = r \o y
    BY <1>2, <2>4, AtIs
  <2> HIDE DEF places
  <2> QED BY <1>4, <1>9, <2>1, <2>2, <2>3, <2>4
<1>10. ASSUME NEW x \in Seq(Steps), x \in DOMAIN value, Wanted(F \cup {r}, x) PROVE x \in places
  <2>1. CASE IsPrefix(r, x)
    <3>1. \E y \in DOMAIN At(value, r) : x = r \o y
      BY <1>10, <2>1, AtIs
    <3> HIDE DEF places
    <3> QED BY <1>4, <3>1
  <2>2. CASE ~IsPrefix(r, x) /\ IsPrefix(x, r)
    <3>1. x # r
      BY <1>1, <2>2, PrefixOrder
    <3>2. PICK k \in 0 .. Len(r) - 1 : x = SubSeq(r, 1, k)
      <4>1. Len(x) \in 0 .. Len(r) - 1 /\ x = SubSeq(r, 1, Len(x))
        BY <1>1, <2>2, <3>1, HopOf
      <4> QED BY <4>1
    <3> HIDE DEF places
    <3> QED BY <1>4, <3>2
  <2>3. CASE ~IsPrefix(r, x) /\ (Wanted(F, x) \/ IsPad(r, x))
    <3>1. x \in DOMAIN root \/ x \in PadPlaces(root, r)
      BY <1>3, <1>10, <2>3, PadPlacesIs
    <3> HIDE DEF places
    <3> QED BY <1>4, <2>3, <3>1
  <2> QED BY <1>2, <1>10, <2>1, <2>2, <2>3
<1> QED BY <1>8, <1>9, <1>10

(* What SetPath puts at a place.                                           *)
IsPut(node, value, G, x) ==
  /\ node \in Nodes /\ (node.is = "object" => IsInjective(node.names))
  /\ \A s \in Steps : s \in StepsIn(node) <=> Append(x, s) \in DOMAIN value /\ Wanted(G, Append(x, s))
  /\ Covered(G, x) => node = value[x]
  /\ OnWay(G, x) => node.is = value[x].is
  /\ ~Covered(G, x) /\ ~OnWay(G, x) => node = NullNode

LEMMA CoveredBelow ==
  ASSUME NEW value, IsDocument(value), NEW G \in SUBSET DOMAIN value, NEW x \in DOMAIN value, Covered(G, x)
  PROVE  IsPut(value[x], value, G, x)
<1>1. DOMAIN value \subseteq Seq(Steps) /\ value[x] \in Nodes /\ (value[x].is = "object" => IsInjective(value[x].names))
  BY DocumentParts
<1>2. PICK r \in G : IsPrefix(r, x)
  BY DEF Covered
<1>3. ASSUME NEW s \in Steps PROVE Wanted(G, Append(x, s))
  <2>1. IsPrefix(r, Append(x, s))
    BY <1>1, <1>2, PrefixAppend
  <2> QED BY <1>2, <2>1 DEF Wanted, Covered
<1>4. \A s \in Steps : s \in StepsIn(value[x]) <=> Append(x, s) \in DOMAIN value
  BY Children
<1> QED BY <1>1, <1>3, <1>4 DEF IsPut

LEMMA PutOnWay ==
  ASSUME NEW value, IsDocument(value), NEW F \in SUBSET DOMAIN value, NEW root, IsCopy(root, value, F),
         NEW r \in DOMAIN value, NEW x \in DOMAIN value, IsPrefix(x, r), x # r
  PROVE  IsPut(Grown(ParentOf(root, r, Len(x)), r[Len(x) + 1]), value, F \cup {r}, x)
<1>1. r \in Seq(Steps) /\ x \in Seq(Steps)
  BY DocumentParts
<1>2. PICK t \in Steps : /\ t = r[Len(x) + 1] /\ t \in StepsIn(value[x])
                         /\ IsParent(ParentOf(root, r, Len(x)), root, value, F, t, x)
  BY <1>1, ParentIs
<1>3. PICK p : p = ParentOf(root, r, Len(x)) /\ IsParent(p, root, value, F, t, x)
  BY <1>2
<1>4. p \in Nodes /\ p.is = ContainerFor(t).is /\ (p.is = "object" => IsInjective(p.names)) /\ p.is = value[x].is
  BY <1>3 DEF IsParent
<1>5. PICK node : node = Grown(p, t)
  OBVIOUS
<1>6. node \in Nodes /\ node.is = p.is /\ (node.is = "object" => IsInjective(node.names))
  BY <1>4, <1>5, GrownIs
<1>7. ~IsPrefix(r, x)
  <2>1. IsPrefix(x, r) /\ Len(r) <= Len(x) => x = r
    BY <1>1, PrefixOrder
  <2>2. IsPrefix(r, x) => Len(r) <= Len(x)
    BY <1>1, PrefixIs
  <2> QED BY <2>1, <2>2
<1>8. (Covered(F \cup {r}, x) <=> Covered(F, x)) /\ OnWay(F \cup {r}, x)
  BY <1>1, <1>7, OneMore
<1>9. ASSUME NEW s \in Steps
      PROVE  s \in StepsIn(node) <=> Append(x, s) \in DOMAIN value /\ Wanted(F \cup {r}, Append(x, s))
  <2>1. s \in StepsIn(node) <=> s \in StepsIn(p) \/ s = t \/ (t.is = "Index" /\ s.is = "Index" /\ s.at < t.at)
    BY <1>4, <1>5, GrownIs
  <2>2. PICK y \in Seq(Steps) : y = Append(x, s)
    BY <1>1, Appended
  <2>3. s \in StepsIn(p) <=> y \in DOMAIN value /\ Wanted(F, y)
    BY <1>3, <2>2 DEF IsParent, IsCopy
  <2>4. IsPrefix(y, r) <=> s = t
    BY <1>1, <1>2, <2>2, NextHop
  <2>5. IsPad(r, y) <=> t.is = "Index" /\ s.is = "Index" /\ s.at < t.at
    BY <1>1, <1>2, <2>2, PadAppend
  <2>6. IsPrefix(r, y) => IsPrefix(y, r)
    <3>1. IsPrefix(r, y) => r = y
      BY <1>1, <1>7, <2>2, PrefixAppend
    <3> QED BY <1>1, <3>1, PrefixOrder
  <2>7. Wanted(F \cup {r}, y) <=> Wanted(F, y) \/ IsPrefix(r, y) \/ IsPrefix(y, r) \/ IsPad(r, y)
    BY <1>1, OneMore
  <2>8. IsPrefix(y, r) \/ IsPad(r, y) => y \in DOMAIN value
    BY <1>1, OnTheWay, PadsThere
  <2> QED BY <2>1, <2>2, <2>3, <2>4, <2>5, <2>6, <2>7, <2>8
<1>10. Covered(F, x) => node = value[x]
  <2>1. Covered(F, x) => p = value[x]
    BY <1>3 DEF IsParent
  <2> QED BY <1>2, <1>5, <2>1 DEF Grown
<1>11. IsPut(node, value, F \cup {r}, x)
  BY <1>4, <1>6, <1>8, <1>9, <1>10 DEF IsPut
<1> QED BY <1>2, <1>3, <1>5, <1>11

LEMMA PutBeside ==
  ASSUME NEW value, IsDocument(value), NEW F \in SUBSET DOMAIN value, NEW root, IsCopy(root, value, F),
         NEW r \in DOMAIN value, NEW x \in DOMAIN value, ~IsPrefix(x, r), ~IsPrefix(r, x)
  PROVE  IsPut(IF x \in DOMAIN root THEN root[x] ELSE NullNode, value, F \cup {r}, x)
<1>1. r \in Seq(Steps) /\ x \in Seq(Steps) /\ IsDocument(root)
  BY DocumentParts DEF IsCopy
<1>2. PICK node : node = IF x \in DOMAIN root THEN root[x] ELSE NullNode
  OBVIOUS
<1>3. node \in Nodes /\ (node.is = "object" => IsInjective(node.names))
  BY <1>1, <1>2, NullInner, DocumentParts
<1>4. (Covered(F \cup {r}, x) <=> Covered(F, x)) /\ (OnWay(F \cup {r}, x) <=> OnWay(F, x))
  BY <1>1, OneMore
<1>5. x \in DOMAIN root <=> Wanted(F, x)
  BY <1>1 DEF IsCopy
<1>6. /\ Covered(F, x) => node = value[x]
      /\ OnWay(F, x) => node.is = value[x].is
      /\ ~Covered(F, x) /\ ~OnWay(F, x) => node = NullNode
  BY <1>2, <1>5 DEF IsCopy, Wanted
<1>7. ASSUME NEW s \in Steps
      PROVE  s \in StepsIn(node) <=> Append(x, s) \in DOMAIN value /\ Wanted(F \cup {r}, Append(x, s))
  <2>1. PICK y \in Seq(Steps) : y = Append(x, s) /\ y # <<>> /\ Front(y) = x
    BY <1>1, Appended
  <2>2. s \in StepsIn(node) <=> y \in DOMAIN root
    <3>1. CASE x \in DOMAIN root
      BY <1>1, <1>2, <2>1, <3>1, Children
    <3>2. CASE x \notin DOMAIN root
      <4>1. y \notin DOMAIN root
        BY <1>1, <2>1, <3>2, DocumentParts
      <4> QED BY <1>2, <3>2, <4>1, NullInner
    <3> QED BY <3>1, <3>2
  <2>3. y \in DOMAIN root <=> y \in DOMAIN value /\ Wanted(F, y)
    BY <2>1 DEF IsCopy
  <2>4. ~IsPrefix(y, r)
    <3>1. IsPrefix(x, y)
      <4>1. IsPrefix(x, x)
        BY <1>1, PrefixOrder
      <4> QED BY <1>1, <2>1, <4>1, PrefixAppend
    <3> QED BY <1>1, <3>1, PrefixOrder
  <2>5. ~IsPrefix(r, y)
    <3>1. IsPrefix(r, y) => r = y
      BY <1>1, <2>1, PrefixAppend
    <3>2. IsPrefix(r, r)
      BY <1>1, PrefixOrder
    <3> QED BY <2>4, <3>1, <3>2
  <2>6. ~IsPad(r, y)
    BY <1>1, <2>1, PadAppend
  <2>7. Wanted(F \cup {r}, y) <=> Wanted(F, y)
    BY <1>1, <2>4, <2>5, <2>6, OneMore
  <2> QED BY <2>1, <2>2, <2>3, <2>7
<1>8. IsPut(node, value, F \cup {r}, x)
  BY <1>3, <1>4, <1>6, <1>7 DEF IsPut
<1> QED BY <1>2, <1>8

LEMMA PutIs ==
  ASSUME NEW value, IsDocument(value), NEW F \in SUBSET DOMAIN value, NEW root, IsCopy(root, value, F),
         NEW r \in DOMAIN value, NEW x \in DOMAIN value
  PROVE  IsPut(PutNode(root, r, At(value, r), x), value, F \cup {r}, x)
<1>1. r \in Seq(Steps) /\ x \in Seq(Steps)
  BY DocumentParts
<1>2. F \cup {r} \in SUBSET DOMAIN value
  OBVIOUS
<1>3. CASE IsPrefix(r, x)
  <2>1. PutNode(root, r, At(value, r), x) = value[x]
    BY <1>1, <1>3, AtIs DEF PutNode
  <2>2. Covered(F \cup {r}, x)
    BY <1>3 DEF Covered
  <2> QED BY <1>2, <2>1, <2>2, CoveredBelow
<1>4. CASE ~IsPrefix(r, x) /\ IsPrefix(x, r)
  <2>1. x # r
    BY <1>1, <1>4, PrefixOrder
  <2> QED BY <1>4, <2>1, PutOnWay DEF PutNode
<1>5. CASE ~IsPrefix(r, x) /\ ~IsPrefix(x, r)
  BY <1>5, PutBeside DEF PutNode
<1> QED BY <1>3, <1>4, <1>5

LEMMA FrontWanted ==
  ASSUME NEW G \in SUBSET Seq(Steps), NEW x \in Seq(Steps), x # <<>>, Wanted(G, x)
  PROVE  Wanted(G, Front(x))
<1>1. PICK f \in Seq(Steps), s \in Steps : f = Front(x) /\ x = Append(f, s) /\ s = Last(x)
  BY Ends
<1>2. IsPrefix(f, x)
  BY <1>1, PrefixAppend, PrefixOrder
<1>3. CASE OnWay(G, x)
  <2>1. PICK r \in G : IsPrefix(x, r)
    BY <1>3 DEF OnWay
  <2>2. IsPrefix(f, r)
    BY <1>2, <2>1, PrefixOrder
  <2> QED BY <1>1, <2>2 DEF Wanted, OnWay
<1>4. CASE Covered(G, x)
  <2>1. PICK r \in G : IsPrefix(r, x)
    BY <1>4 DEF Covered
  <2>2. IsPrefix(r, f) \/ r = x
    BY <1>1, <2>1, PrefixAppend
  <2> QED BY <1>1, <1>2, <2>1, <2>2 DEF Wanted, Covered, OnWay
<1>5. CASE Padded(G, x)
  <2>1. PICK r \in G : IsPrefix(f, r)
    BY <1>1, <1>5 DEF Padded, IsPad
  <2> QED BY <1>1, <2>1 DEF Wanted, OnWay
<1> QED BY <1>3, <1>4, <1>5 DEF Wanted

LEMMA CopyMore ==
  ASSUME NEW value, IsDocument(value), NEW F \in SUBSET DOMAIN value, NEW r \in DOMAIN value,
         NEW target, IsCopy(RootOf(target, r), value, F)
  PROVE  IsCopy(SetPath(target, r, At(value, r)), value, F \cup {r})
<1>1. PICK root : root = RootOf(target, r) /\ IsCopy(root, value, F)
  OBVIOUS
<1>2. ~Misfit(root, r)
  BY <1>1, NoMisfit
<1>3. PICK places : places = PutPlaces(root, r, At(value, r))
  OBVIOUS
<1>4. PICK copy : copy = SetPath(target, r, At(value, r)) /\ DOMAIN copy = places
                  /\ copy = [x \in places |-> copy[x]]
                  /\ \A x \in places : copy[x] = PutNode(root, r, At(value, r), x)
  BY <1>1, <1>2, <1>3, SetPathIs
<1>5. PICK G \in SUBSET DOMAIN value : G = F \cup {r}
  OBVIOUS
<1>6. places \subseteq Seq(Steps) /\ \A x \in Seq(Steps) : x \in places <=> x \in DOMAIN value /\ Wanted(G, x)
  BY <1>1, <1>3, <1>5, PutPlacesIs
<1>7. places \subseteq DOMAIN value /\ DOMAIN value \subseteq Seq(Steps) /\ IsFiniteSet(DOMAIN value)
      /\ <<>> \in DOMAIN value
  BY <1>6, DocumentParts
<1>8. ASSUME NEW x \in places PROVE IsPut(copy[x], value, G, x)
  <2>1. x \in DOMAIN value
    BY <1>7
  <2> QED BY <1>1, <1>4, <1>5, <2>1, PutIs
<1>9. copy \in [DOMAIN copy -> Nodes]
  BY <1>4, <1>8 DEF IsPut
<1>10. IsFiniteSet(DOMAIN copy)
  BY <1>4, <1>7, FS_Subset
<1>11. <<>> \in DOMAIN copy
  <2>1. \A x \in Seq(Steps) : x = <<>> => Wanted(G, x)
    BY DEF Wanted, OnWay
  <2>2. PICK e \in Seq(Steps) : e = <<>> /\ e \in DOMAIN value
    BY <1>7
  <2> QED BY <1>4, <1>6, <2>1, <2>2
<1>12. ASSUME NEW x \in DOMAIN copy, x # <<>> PROVE Front(x) \in DOMAIN copy
  <2>1. x \in Seq(Steps) /\ x \in DOMAIN value /\ Wanted(G, x) /\ G \in SUBSET Seq(Steps)
    BY <1>4, <1>6, <1>7
  <2>2. Front(x) \in DOMAIN value /\ Front(x) \in Seq(Steps)
    BY <1>7, <1>12, <2>1, DocumentParts
  <2>3. Wanted(G, Front(x))
    BY <1>12, <2>1, FrontWanted
  <2> QED BY <1>4, <1>6, <2>2, <2>3
<1>13. ASSUME NEW x \in DOMAIN copy, NEW s \in Steps
       PROVE  s \in StepsIn(copy[x]) <=> Append(x, s) \in DOMAIN copy
  <2>1. Append(x, s) \in Seq(Steps)
    <3>1. x \in Seq(Steps)
      BY <1>4, <1>6
    <3> QED BY <3>1, Appended
  <2>2. s \in StepsIn(copy[x]) <=> Append(x, s) \in DOMAIN value /\ Wanted(G, Append(x, s))
    BY <1>4, <1>8 DEF IsPut
  <2> QED BY <1>4, <1>6, <2>1, <2>2
<1>14. \A x \in DOMAIN copy : copy[x].is = "object" => IsInjective(copy[x].names)
  BY <1>4, <1>8 DEF IsPut
<1>15. DOMAIN copy \subseteq Seq(Steps)
  BY <1>4, <1>6
<1>16. IsDocument(copy)
  BY <1>9, <1>10, <1>11, <1>12, <1>13, <1>14, <1>15, DocumentWhen
<1>17. \A x \in DOMAIN copy : /\ Covered(G, x) => copy[x] = value[x]
                              /\ OnWay(G, x) => copy[x].is = value[x].is
                              /\ ~Covered(G, x) /\ ~OnWay(G, x) => copy[x] = NullNode
  BY <1>4, <1>8 DEF IsPut
<1>18. IsCopy(copy, value, G)
  BY <1>4, <1>6, <1>16, <1>17 DEF IsCopy
<1> QED BY <1>4, <1>5, <1>18

(* What is picked once the paths F have been found.                        *)
IsSoFar(copy, value, F) == IF F = {} THEN copy = Null ELSE IsCopy(copy, value, F)

LEMMA CopyNotNull ==
  ASSUME NEW value, IsDocument(value), NEW F \in SUBSET (DOMAIN value \ {<<>>}), NEW copy, IsCopy(copy, value, F), F # {}
  PROVE  copy # Null
<1>1. PICK r \in F : r \in DOMAIN value /\ r # <<>>
  OBVIOUS
<1>2. r \in Seq(Steps)
  BY <1>1, DocumentParts
<1>3. r \in DOMAIN copy
  <2>1. IsPrefix(r, r)
    BY <1>2, PrefixOrder
  <2> QED BY <1>1, <1>2, <2>1 DEF IsCopy, Wanted, Covered
<1>4. DOMAIN Null = {<<>>}
  BY DEF Null, Leaf
<1> QED BY <1>1, <1>3, <1>4

LEMMA PickMore ==
  ASSUME NEW value, IsDocument(value), NEW F \in SUBSET (DOMAIN value \ {<<>>}), NEW copy, IsSoFar(copy, value, F),
         NEW r \in DOMAIN value, r # <<>>
  PROVE  IsSoFar(SetPath(copy, r, At(value, r)), value, F \cup {r})
<1>1. IsCopy(RootOf(copy, r), value, F)
  <2>1. CASE F = {}
    <3>1. copy = Null
      BY <2>1 DEF IsSoFar
    <3>2. IsCopy(Leaf(ContainerFor(r[1])), value, {})
      BY Roots
    <3> QED BY <2>1, <3>1, <3>2 DEF RootOf
  <2>2. CASE F # {}
    <3>1. IsCopy(copy, value, F) /\ copy # Null
      BY <2>2, CopyNotNull DEF IsSoFar
    <3> QED BY <3>1 DEF RootOf
  <2> QED BY <2>1, <2>2
<1>2. IsCopy(SetPath(copy, r, At(value, r)), value, F \cup {r})
  BY <1>1, CopyMore
<1> QED BY <1>2 DEF IsSoFar

(* Those of the first i paths that hit.                                    *)
Hits(value, paths, i) == {paths[j] : j \in {k \in 1 .. i : paths[k] \in DOMAIN value}}

PutHit(value, paths, i, copy) ==
  IF paths[i] \in DOMAIN value THEN SetPath(copy, paths[i], At(value, paths[i])) ELSE copy

LEMMA HitMore ==
  ASSUME NEW value, IsDocument(value), NEW paths \in Seq(Seq(Steps)), \A i \in DOMAIN paths : paths[i] # <<>>,
         NEW k \in 1 .. Len(paths), NEW copy, IsSoFar(copy, value, Hits(value, paths, k - 1))
  PROVE  IsSoFar(PutHit(value, paths, k, copy), value, Hits(value, paths, k))
<1>1. PICK i \in Nat : i = k - 1 /\ \A j \in 1 .. i : j \in DOMAIN paths
  OBVIOUS
<1>2. PICK F : F = Hits(value, paths, i) /\ IsSoFar(copy, value, F)
  BY <1>1
<1>3. \A j : j \in 1 .. k <=> j \in 1 .. i \/ j = k
  BY <1>1
<1>4. Hits(value, paths, k) = IF paths[k] \in DOMAIN value THEN F \cup {paths[k]} ELSE F
  BY <1>2, <1>3 DEF Hits
<1>5. CASE paths[k] \in DOMAIN value
  <2>1. F \in SUBSET (DOMAIN value \ {<<>>})
    BY <1>1, <1>2 DEF Hits
  <2>2. PICK r \in DOMAIN value : r = paths[k] /\ r # <<>>
    <3>1. k \in DOMAIN paths
      OBVIOUS
    <3> QED BY <1>5, <3>1
  <2>3. IsSoFar(SetPath(copy, r, At(value, r)), value, F \cup {r})
    BY <1>2, <2>1, <2>2, PickMore
  <2> QED BY <1>4, <1>5, <2>2, <2>3 DEF PutHit
<1>6. CASE paths[k] \notin DOMAIN value
  BY <1>2, <1>4, <1>6 DEF PutHit
<1> QED BY <1>5, <1>6

HitsOf(value, paths) == Hits(value, paths, Len(paths))

LEMMA PickIs ==
  ASSUME NEW value, IsDocument(value), NEW paths \in Seq(Seq(Steps)), \A i \in DOMAIN paths : paths[i] # <<>>
  PROVE  \E copy : /\ IsSoFar(copy, value, HitsOf(value, paths))
                   /\ Pick(value, paths) = IF copy = Null THEN Leaf(ContainerFor(Field(0))) ELSE copy
<1>0. PICK n \in Nat : n = Len(paths) /\ DOMAIN paths = 1 .. n
  OBVIOUS
<1> DEFINE Put(i, copy) == PutHit(value, paths, i, copy)
           step == [z \in (1 .. n) \X Documents |-> IF Put(z[1], z[2]) \in Documents THEN Put(z[1], z[2]) ELSE z[2]]
<1>1. step \in [(1 .. n) \X Documents -> Documents]
  OBVIOUS
<1>2. Null \in Documents
  BY NullInner, NullDocument, DocumentIs DEF Null
<1>3. \A i \in 1 .. n, v \in Documents : step[<<i, v>>] = IF Put(i, v) \in Documents THEN Put(i, v) ELSE v
  <2> HIDE DEF Put
  <2> QED OBVIOUS
<1> HIDE DEF step, Put
<1>4. PICK f \in [0 .. n -> Documents] : f[0] = Null /\ \A i \in 1 .. n : f[i] = step[<<i, f[i - 1]>>]
  <2>1. PICK f \in [0 .. n -> Documents] : IsStepwise(f, Null, n, step)
    BY <1>1, <1>2, Stepwise
  <2> QED BY <2>1 DEF IsStepwise
<1>5. \A i \in 1 .. n : f[i - 1] \in Documents
                        /\ f[i] = IF Put(i, f[i - 1]) \in Documents THEN Put(i, f[i - 1]) ELSE f[i - 1]
  <2> TAKE i \in 1 .. n
  <2>1. i - 1 \in 0 .. n
    OBVIOUS
  <2>2. f[i - 1] \in Documents
    BY <1>4, <2>1
  <2> QED BY <1>3, <1>4, <2>2
<1> DEFINE T == {i \in Nat : i <= n => IsSoFar(f[i], value, Hits(value, paths, i)) /\ (i # 0 => f[i] = Put(i, f[i - 1]))}
<1>6. 0 \in T
  <2>1. Hits(value, paths, 0) = {}
    BY DEF Hits
  <2> QED BY <1>4, <2>1 DEF IsSoFar
<1>7. ASSUME NEW i \in Nat, i \in T PROVE i + 1 \in T
  <2> SUFFICES ASSUME i + 1 <= n
               PROVE  IsSoFar(f[i + 1], value, Hits(value, paths, i + 1)) /\ f[i + 1] = Put(i + 1, f[i])
    OBVIOUS
  <2>1. PICK k \in 1 .. n : k = i + 1 /\ k - 1 = i
    OBVIOUS
  <2>2. IsSoFar(f[i], value, Hits(value, paths, i))
    BY <1>7
  <2>3. IsSoFar(Put(k, f[i]), value, Hits(value, paths, k))
    <3>1. k \in 1 .. Len(paths) /\ IsSoFar(f[i], value, Hits(value, paths, k - 1))
      BY <1>0, <2>1, <2>2
    <3> QED BY <3>1, HitMore DEF Put
  <2>4. Put(k, f[i]) \in Documents
    <3>1. Put(k, f[i]) = Null \/ IsCopy(Put(k, f[i]), value, Hits(value, paths, k))
      BY <2>3 DEF IsSoFar
    <3> QED BY <1>2, <3>1, DocumentIs DEF IsCopy
  <2>5. f[k] = Put(k, f[i])
    BY <1>5, <2>1, <2>4
  <2> QED BY <2>1, <2>3, <2>5
<1>8. Nat \subseteq T
  <2> HIDE DEF T
  <2> QED BY <1>6, <1>7, Induct
<1>9. \A i \in 1 .. n : f[i] = Put(i, f[i - 1])
  <2> TAKE i \in 1 .. n
  <2>1. i \in T /\ i # 0 /\ i <= n
    <3> HIDE DEF T
    <3> QED BY <1>8
  <2> QED BY <2>1
<1>10. IsSoFar(f[n], value, Hits(value, paths, n))
  <2>1. n \in T
    <3> HIDE DEF T
    <3> QED BY <1>8
  <2> QED BY <2>1
<1> DEFINE Next(i, v) == LET found == Walk(value, paths[i]) IN IF found = None THEN v ELSE SetPath(v, paths[i], found[1])
<1>11. \A i, v : Next(i, v) = Put(i, v)
  <2>1. \A v : Some(v) # None /\ Some(v)[1] = v
    BY DEF Some, None
  <2> QED BY <2>1 DEF Put, PutHit, Walk
<1> HIDE DEF Next
<1>12. f = [i \in 0 .. n |-> IF i = 0 THEN Null ELSE Next(i, f[i - 1])]
  BY <1>4, <1>9, <1>11
<1>13. PICK g : /\ Pick(value, paths) = IF g[n] = Null THEN Leaf(ContainerFor(Field(0))) ELSE g[n]
                /\ g = [i \in 0 .. n |-> IF i = 0 THEN Null ELSE Next(i, g[i - 1])]
  <2> DEFINE g == CHOOSE target : target = [i \in 0 .. n |-> IF i = 0 THEN Null ELSE Next(i, target[i - 1])]
  <2>1. g = [i \in 0 .. n |-> IF i = 0 THEN Null ELSE Next(i, g[i - 1])]
    BY <1>12
  <2>2. Pick(value, paths) = IF g[n] = Null THEN Leaf(ContainerFor(Field(0))) ELSE g[n]
    BY <1>0 DEF Pick, Next
  <2> HIDE DEF g
  <2> QED BY <2>1, <2>2
<1>14. f[n] = g[n]
  <2> DEFINE E == {i \in Nat : i <= n => f[i] = g[i]}
  <2>1. 0 \in E
    BY <1>4, <1>13
  <2>2. ASSUME NEW i \in Nat, i \in E PROVE i + 1 \in E
    <3> SUFFICES ASSUME i + 1 <= n PROVE f[i + 1] = g[i + 1]
      OBVIOUS
    <3>1. f[i] = g[i] /\ i + 1 \in 0 .. n /\ i + 1 # 0 /\ i + 1 - 1 = i
      BY <2>2
    <3>2. f[i + 1] = Next(i + 1, f[i])
      BY <1>12, <3>1
    <3>3. g[i + 1] = Next(i + 1, g[i])
      BY <1>13, <3>1
    <3> QED BY <3>1, <3>2, <3>3
  <2>3. Nat \subseteq E
    <3> HIDE DEF E
    <3> QED BY <2>1, <2>2, Induct
  <2> QED BY <2>3
<1>15. IsSoFar(f[n], value, HitsOf(value, paths))
  BY <1>0, <1>10 DEF HitsOf
<1>16. Pick(value, paths) = IF f[n] = Null THEN Leaf(ContainerFor(Field(0))) ELSE f[n]
  BY <1>13, <1>14
<1> QED BY <1>15, <1>16

-----------------------------------------------------------------------------
(* What is picked of two payloads is the same exactly if they agree at each *)
(* path.                                                                   *)
LEMMA HitsAre ==
  ASSUME NEW value, NEW paths \in Seq(Seq(Steps))
  PROVE  \A r : r \in HitsOf(value, paths) <=> \E i \in DOMAIN paths : r = paths[i] /\ r \in DOMAIN value
<1>1. DOMAIN paths = 1 .. Len(paths)
  OBVIOUS
<1> QED BY <1>1 DEF HitsOf, Hits

EmptyObject == Leaf(ContainerFor(Field(0)))

LEMMA EmptyIs ==
  IsDocument(EmptyObject) /\ DOMAIN EmptyObject = {<<>>}
<1>1. Field(0) \in Steps
  BY StepKinds
<1> QED BY <1>1, Containers, NullDocument DEF EmptyObject

LEMMA Picked ==
  ASSUME NEW value, IsDocument(value), NEW paths \in Seq(Seq(Steps)), \A i \in DOMAIN paths : paths[i] # <<>>
  PROVE  /\ IsDocument(Pick(value, paths))
         /\ HitsOf(value, paths) \in SUBSET (DOMAIN value \ {<<>>})
         /\ HitsOf(value, paths) = {} => Pick(value, paths) = EmptyObject
         /\ HitsOf(value, paths) # {} => IsCopy(Pick(value, paths), value, HitsOf(value, paths))
<1>1. PICK F : F = HitsOf(value, paths)
  OBVIOUS
<1>2. F \in SUBSET (DOMAIN value \ {<<>>})
  BY <1>1, HitsAre
<1>3. PICK copy : /\ IsSoFar(copy, value, F)
                  /\ Pick(value, paths) = IF copy = Null THEN EmptyObject ELSE copy
  BY <1>1, PickIs DEF EmptyObject
<1>4. CASE F = {}
  <2>1. Pick(value, paths) = EmptyObject
    BY <1>3, <1>4 DEF IsSoFar
  <2> QED BY <1>1, <1>2, <1>4, <2>1, EmptyIs
<1>5. CASE F # {}
  <2>1. IsCopy(copy, value, F)
    BY <1>3, <1>5 DEF IsSoFar
  <2>2. copy # Null
    BY <1>2, <1>5, <2>1, CopyNotNull
  <2>3. Pick(value, paths) = copy
    BY <1>3, <2>2
  <2> QED BY <1>1, <1>2, <1>5, <2>1, <2>3 DEF IsCopy
<1> QED BY <1>4, <1>5

LEMMA AgreeAtTurns ==
  ASSUME NEW r, NEW p, NEW q, AgreeAt(r, p, q)
  PROVE  AgreeAt(r, q, p)
BY DEF AgreeAt

LEMMA WantedOfBoth ==
  ASSUME NEW p, IsDocument(p), NEW q, IsDocument(q), NEW F \in SUBSET (DOMAIN p \cap DOMAIN q),
         \A r \in F : AgreeAt(r, p, q), NEW x \in DOMAIN p, Wanted(F, x)
  PROVE  x \in DOMAIN q
<1>1. x \in Seq(Steps) /\ F \in SUBSET Seq(Steps)
  BY DocumentParts
<1>2. CASE Covered(F, x)
  <2>1. PICK r \in F : IsPrefix(r, x)
    BY <1>2 DEF Covered
  <2>2. Seen(p, x) = Seen(q, x)
    BY <2>1 DEF AgreeAt
  <2> QED BY <2>2, SeenTells
<1>3. CASE OnWay(F, x)
  <2>1. CASE x = <<>>
    BY <2>1, DocumentParts
  <2>2. CASE x # <<>>
    <3>1. PICK r \in F : IsPrefix(x, r)
      BY <1>3, <2>2 DEF OnWay
    <3> QED BY <1>1, <3>1, OnTheWay
  <2> QED BY <2>1, <2>2
<1>4. CASE Padded(F, x)
  <2>1. PICK r \in F : IsPad(r, x)
    BY <1>4 DEF Padded
  <2> QED BY <1>1, <2>1, PadsThere
<1> QED BY <1>2, <1>3, <1>4 DEF Wanted

LEMMA CopiesAgree ==
  ASSUME NEW p, IsDocument(p), NEW q, IsDocument(q), NEW F \in SUBSET ((DOMAIN p \cap DOMAIN q) \ {<<>>}), F # {},
         \A r \in F : AgreeAt(r, p, q),
         NEW cp, IsCopy(cp, p, F), NEW cq, IsCopy(cq, q, F)
  PROVE  SameSeen(cp, cq)
<1> SUFFICES ASSUME NEW x \in Seq(Steps) PROVE Seen(cp, x) = Seen(cq, x)
  BY DEF SameSeen
<1>1. F \in SUBSET (DOMAIN p \cap DOMAIN q) /\ F \in SUBSET (DOMAIN q \cap DOMAIN p)
  OBVIOUS
<1>2. x \in DOMAIN p /\ Wanted(F, x) => x \in DOMAIN q
  BY <1>1, WantedOfBoth
<1>3. x \in DOMAIN q /\ Wanted(F, x) => x \in DOMAIN p
  <2>1. \A r \in F : AgreeAt(r, q, p)
    BY AgreeAtTurns
  <2> QED BY <1>1, <2>1, WantedOfBoth
<1>4. x \in DOMAIN cp <=> x \in DOMAIN cq
  BY <1>2, <1>3 DEF IsCopy
<1>5. CASE x \notin DOMAIN cp
  BY <1>4, <1>5, NotSeen
<1>6. CASE x \in DOMAIN cp
  <2>1. x \in DOMAIN cq /\ x \in DOMAIN p /\ x \in DOMAIN q
    BY <1>4, <1>6 DEF IsCopy
  <2>2. PICK n \in Nodes, m \in Nodes : n = cp[x] /\ m = cq[x]
    BY <1>6, <2>1, DocumentParts DEF IsCopy
  <2>3. Label(n) = Label(m)
    <3>1. CASE Covered(F, x)
      <4>1. PICK r \in F : IsPrefix(r, x)
        BY <3>1 DEF Covered
      <4>2. Seen(p, x) = Seen(q, x)
        BY <2>1, <4>1 DEF AgreeAt
      <4>3. Label(p[x]) = Label(q[x])
        BY <2>1, <4>2, SeenTells
      <4>4. n = p[x] /\ m = q[x]
        BY <1>6, <2>1, <2>2, <3>1 DEF IsCopy
      <4> QED BY <4>3, <4>4
    <3>2. CASE ~Covered(F, x) /\ OnWay(F, x)
      <4>1. PICK r \in F : IsPrefix(x, r) /\ r \in Seq(Steps)
        <5>1. F \in SUBSET Seq(Steps)
          BY DocumentParts
        <5>2. x = <<>> => \A r \in F : IsPrefix(x, r)
          BY <5>1, PrefixOrder
        <5> QED BY <3>2, <5>1, <5>2 DEF OnWay
      <4>2. x # r
        <5>1. IsPrefix(r, r)
          BY <4>1, PrefixOrder
        <5> QED BY <3>2, <4>1, <5>1 DEF Covered
      <4>3. PICK t \in Steps : t = r[Len(x) + 1] /\ p[x].is = ContainerFor(t).is
        BY <4>1, <4>2, Through
      <4>4. q[x].is = ContainerFor(t).is
        BY <4>1, <4>2, <4>3, Through
      <4>5. n.is = p[x].is /\ m.is = q[x].is
        BY <1>6, <2>1, <2>2, <3>2 DEF IsCopy
      <4>6. n.is = m.is /\ n.is # "scalar"
        BY <4>3, <4>4, <4>5, Containers
      <4> QED BY <4>6, LabelTells
    <3>3. CASE ~Covered(F, x) /\ ~OnWay(F, x)
      <4>1. n = NullNode /\ m = NullNode
        BY <1>6, <2>1, <2>2, <3>3 DEF IsCopy
      <4> QED BY <4>1
    <3> QED BY <3>1, <3>2, <3>3
  <2> QED BY <1>6, <2>1, <2>2, <2>3, SeenTells
<1> QED BY <1>5, <1>6

LEMMA SeenCovered ==
  ASSUME NEW value, NEW F, NEW copy, IsCopy(copy, value, F), NEW x \in Seq(Steps), Covered(F, x)
  PROVE  Seen(copy, x) = Seen(value, x)
<1>1. x \in DOMAIN copy <=> x \in DOMAIN value
  BY DEF IsCopy, Wanted
<1>2. x \in DOMAIN copy => copy[x] = value[x]
  BY DEF IsCopy
<1> QED BY <1>1, <1>2 DEF Seen

LEMMA HitOfBoth ==
  ASSUME NEW p, IsDocument(p), NEW q, NEW F \in SUBSET DOMAIN p, NEW G,
         NEW cp, IsCopy(cp, p, F), NEW cq, IsCopy(cq, q, G), SameSeen(cp, cq), NEW r \in F
  PROVE  r \in DOMAIN q
<1>1. r \in Seq(Steps)
  BY DocumentParts
<1>2. Covered(F, r)
  BY <1>1, PrefixOrder DEF Covered
<1>3. r \in DOMAIN cp
  BY <1>1, <1>2 DEF IsCopy, Wanted
<1>4. r \in DOMAIN cq
  BY <1>1, <1>3, SeenTells DEF SameSeen
<1> QED BY <1>1, <1>4 DEF IsCopy

LEMMA CoveredAgree ==
  ASSUME NEW p, IsDocument(p), NEW q, IsDocument(q), NEW F, NEW G,
         NEW cp, IsCopy(cp, p, F), NEW cq, IsCopy(cq, q, G), SameSeen(cp, cq), NEW r \in F \cap G
  PROVE  AgreeAt(r, p, q)
<1> SUFFICES ASSUME NEW x \in DOMAIN p \cup DOMAIN q, IsPrefix(r, x) PROVE Seen(p, x) = Seen(q, x)
  BY DEF AgreeAt
<1>1. x \in Seq(Steps)
  BY DocumentParts
<1>2. Covered(F, x) /\ Covered(G, x)
  BY DEF Covered
<1>3. Seen(cp, x) = Seen(p, x)
  BY <1>1, <1>2, SeenCovered
<1>4. Seen(cq, x) = Seen(q, x)
  BY <1>1, <1>2, SeenCovered
<1>5. Seen(cp, x) = Seen(cq, x)
  BY <1>1 DEF SameSeen
<1> QED BY <1>3, <1>4, <1>5

LEMMA NoHitAgrees ==
  ASSUME NEW p, IsDocument(p), NEW q, IsDocument(q), NEW r \in Seq(Steps), r \notin DOMAIN p, r \notin DOMAIN q
  PROVE  AgreeAt(r, p, q)
<1> SUFFICES ASSUME NEW x \in DOMAIN p \cup DOMAIN q, IsPrefix(r, x) PROVE FALSE
  BY DEF AgreeAt
<1> QED BY OnTheWay

LEMMA AgreeMeans ==
  ASSUME NEW p, IsDocument(p), NEW q, IsDocument(q), NEW r \in Seq(Steps), AgreeAt(r, p, q)
  PROVE  r \in DOMAIN p <=> r \in DOMAIN q
<1>1. IsPrefix(r, r)
  BY PrefixOrder
<1>2. r \in DOMAIN p \cup DOMAIN q => Seen(p, r) = Seen(q, r)
  BY <1>1 DEF AgreeAt
<1> QED BY <1>2, SeenTells

LEMMA SameSeenIs ==
  ASSUME NEW p, IsDocument(p), NEW q, IsDocument(q)
  PROVE  SameSeen(p, q) <=> \A x \in DOMAIN p \cup DOMAIN q : Seen(p, x) = Seen(q, x)
<1>1. DOMAIN p \cup DOMAIN q \subseteq Seq(Steps)
  BY DocumentParts
<1> QED BY <1>1, NotSeen DEF SameSeen

(* Paths that do not select the whole: what is picked of two payloads is   *)
(* the same exactly if they agree at each path.                            *)
LEMMA PartsAgree ==
  ASSUME NEW p, IsDocument(p), NEW q, IsDocument(q), NEW paths \in Seq(Seq(Steps)),
         \A i \in DOMAIN paths : paths[i] # <<>>
  PROVE  SameSeen(Pick(p, paths), Pick(q, paths)) <=> \A i \in DOMAIN paths : AgreeAt(paths[i], p, q)
<1>1. \A i \in DOMAIN paths : paths[i] \in Seq(Steps)
  OBVIOUS
<1>2. PICK F : F = HitsOf(p, paths) /\ F \in SUBSET (DOMAIN p \ {<<>>})
  BY Picked
<1>3. PICK G : G = HitsOf(q, paths) /\ G \in SUBSET (DOMAIN q \ {<<>>})
  BY Picked
<1>4. PICK cp : cp = Pick(p, paths) /\ IsDocument(cp) /\ (F = {} => cp = EmptyObject) /\ (F # {} => IsCopy(cp, p, F))
  BY <1>2, Picked
<1>5. PICK cq : cq = Pick(q, paths) /\ IsDocument(cq) /\ (G = {} => cq = EmptyObject) /\ (G # {} => IsCopy(cq, q, G))
  BY <1>3, Picked
<1>6. \A r : r \in F <=> \E i \in DOMAIN paths : r = paths[i] /\ r \in DOMAIN p
  BY <1>2, HitsAre
<1>7. \A r : r \in G <=> \E i \in DOMAIN paths : r = paths[i] /\ r \in DOMAIN q
  BY <1>3, HitsAre
<1>8. ASSUME \A i \in DOMAIN paths : AgreeAt(paths[i], p, q) PROVE SameSeen(cp, cq)
  <2>1. \A i \in DOMAIN paths : paths[i] \in DOMAIN p <=> paths[i] \in DOMAIN q
    BY <1>1, <1>8, AgreeMeans
  <2>2. F = G
    BY <1>6, <1>7, <2>1
  <2>3. CASE F = {}
    <3>1. cp = cq
      BY <1>4, <1>5, <2>2, <2>3
    <3> QED BY <3>1 DEF SameSeen
  <2>4. CASE F # {}
    <3>1. F \in SUBSET ((DOMAIN p \cap DOMAIN q) \ {<<>>})
      BY <1>2, <1>3, <2>2
    <3>2. \A r \in F : AgreeAt(r, p, q)
      BY <1>6, <1>8
    <3>3. IsCopy(cp, p, F) /\ IsCopy(cq, q, F)
      BY <1>4, <1>5, <2>2, <2>4
    <3> QED BY <2>4, <3>1, <3>2, <3>3, CopiesAgree
  <2> QED BY <2>3, <2>4
<1>9. ASSUME SameSeen(cp, cq) PROVE \A i \in DOMAIN paths : AgreeAt(paths[i], p, q)
  <2>1. DOMAIN cp = DOMAIN cq
    BY <1>4, <1>5, <1>9, SamePlaces
  <2>2. \A r \in F : r \in DOMAIN cp
    <3> SUFFICES ASSUME NEW r \in F PROVE r \in DOMAIN cp
      OBVIOUS
    <3>1. r \in Seq(Steps) /\ r \in DOMAIN p /\ IsCopy(cp, p, F)
      BY <1>2, <1>4, DocumentParts
    <3>2. Covered(F, r)
      BY <3>1, PrefixOrder DEF Covered
    <3> QED BY <3>1, <3>2 DEF IsCopy, Wanted
  <2>3. \A r \in G : r \in DOMAIN cq
    <3> SUFFICES ASSUME NEW r \in G PROVE r \in DOMAIN cq
      OBVIOUS
    <3>1. r \in Seq(Steps) /\ r \in DOMAIN q /\ IsCopy(cq, q, G)
      BY <1>3, <1>5, DocumentParts
    <3>2. Covered(G, r)
      BY <3>1, PrefixOrder DEF Covered
    <3> QED BY <3>1, <3>2 DEF IsCopy, Wanted
  <2>4. F = {} <=> G = {}
    <3>1. F # {} => DOMAIN cp # {<<>>}
      BY <1>2, <2>2
    <3>2. G # {} => DOMAIN cq # {<<>>}
      BY <1>3, <2>3
    <3> QED BY <1>4, <1>5, <2>1, <3>1, <3>2, EmptyIs
  <2>5. \A r \in F : r \in G
    <3> SUFFICES ASSUME NEW r \in F PROVE r \in G
      OBVIOUS
    <3>1. IsCopy(cp, p, F) /\ IsCopy(cq, q, G) /\ F \in SUBSET DOMAIN p
      BY <1>2, <1>4, <1>5, <2>4
    <3>2. r \in DOMAIN q
      BY <1>9, <3>1, HitOfBoth
    <3> QED BY <1>6, <1>7, <3>2
  <2>6. \A r \in G : r \in F
    <3> SUFFICES ASSUME NEW r \in G PROVE r \in F
      OBVIOUS
    <3>1. IsCopy(cp, p, F) /\ IsCopy(cq, q, G) /\ G \in SUBSET DOMAIN q
      BY <1>3, <1>4, <1>5, <2>4
    <3>2. SameSeen(cq, cp)
      BY <1>9 DEF SameSeen
    <3>3. r \in DOMAIN p
      BY <3>1, <3>2, HitOfBoth
    <3> QED BY <1>6, <1>7, <3>3
  <2> SUFFICES ASSUME NEW i \in DOMAIN paths PROVE AgreeAt(paths[i], p, q)
    OBVIOUS
  <2>7. PICK r \in Seq(Steps) : r = paths[i]
    BY <1>1
  <2>8. CASE r \in F
    <3>1. IsCopy(cp, p, F) /\ IsCopy(cq, q, G) /\ r \in F \cap G
      BY <1>4, <1>5, <2>4, <2>5, <2>8
    <3>2. AgreeAt(r, p, q)
      BY <1>9, <3>1, CoveredAgree
    <3> QED BY <2>7, <3>2
  <2>9. CASE r \notin F
    <3>1. r \notin DOMAIN p /\ r \notin DOMAIN q
      BY <1>6, <1>7, <2>6, <2>7, <2>9
    <3> QED BY <2>7, <3>1, NoHitAgrees
  <2> QED BY <2>8, <2>9
<1> QED BY <1>4, <1>5, <1>8, <1>9

LEMMA OnlyAgrees ==
  ASSUME NEW p, IsDocument(p), NEW q, IsDocument(q), NEW paths \in Seq(Seq(Steps))
  PROVE  /\ IsDocument(PayloadOnly(p, paths)) /\ IsDocument(PayloadOnly(q, paths))
         /\ SameSeen(PayloadOnly(p, paths), PayloadOnly(q, paths)) <=> \A i \in DOMAIN paths : AgreeAt(paths[i], p, q)
<1>1. CASE \E i \in DOMAIN paths : paths[i] = <<>>
  <2>1. PayloadOnly(p, paths) = p /\ PayloadOnly(q, paths) = q
    BY <1>1 DEF PayloadOnly, Pick
  <2>2. SameSeen(p, q) <=> \A x \in DOMAIN p \cup DOMAIN q : Seen(p, x) = Seen(q, x)
    BY SameSeenIs
  <2>3. PICK i \in DOMAIN paths : paths[i] = <<>>
    BY <1>1
  <2>4. \A x \in DOMAIN p \cup DOMAIN q : IsPrefix(paths[i], x)
    <3>1. DOMAIN p \cup DOMAIN q \subseteq Seq(Steps) /\ <<>> \in Seq(Steps)
      BY DocumentParts
    <3>2. \A e, x \in Seq(Steps) : e = <<>> => IsPrefix(e, x)
      BY PrefixOrder
    <3> QED BY <2>3, <3>1, <3>2
  <2>5. AgreeAt(paths[i], p, q) => SameSeen(p, q)
    BY <2>2, <2>4 DEF AgreeAt
  <2>6. SameSeen(p, q) => \A j \in DOMAIN paths : AgreeAt(paths[j], p, q)
    BY <2>2 DEF AgreeAt
  <2> QED BY <2>1, <2>5, <2>6
<1>2. CASE \A i \in DOMAIN paths : paths[i] # <<>>
  BY <1>2, PartsAgree, Picked DEF PayloadOnly
<1> QED BY <1>1, <1>2

LEMMA AllAgrees ==
  ASSUME NEW p, IsDocument(p), NEW q, IsDocument(q)
  PROVE  SameSeen(p, q) <=> AgreeOutside(<<>>, p, q)
<1>1. DOMAIN <<>> = {}
  OBVIOUS
<1> QED BY <1>1, SameSeenIs DEF AgreeOutside

-----------------------------------------------------------------------------
IsAttribute(spec) ==
  /\ spec.selects \in {"all", "only", "except"}
  /\ spec.paths \in Seq(Seq(Steps))

LEMMA HashableAgrees ==
  ASSUME NEW spec, IsAttribute(spec), TellsApart(spec), NEW p, IsDocument(p), NEW q, IsDocument(q)
  PROVE  WriteCanonical(Hashable(spec, p)) = WriteCanonical(Hashable(spec, q)) <=> Agree(spec, p, q)
<1>1. CASE spec.selects = "all"
  <2>1. Hashable(spec, p) = p /\ Hashable(spec, q) = q
    BY <1>1 DEF Hashable
  <2>2. Agree(spec, p, q) <=> AgreeOutside(<<>>, p, q)
    BY <1>1 DEF Agree
  <2> QED BY <2>1, <2>2, AllAgrees, SameText
<1>2. CASE spec.selects = "only"
  <2>1. PICK hp, hq : hp = PayloadOnly(p, spec.paths) /\ hq = PayloadOnly(q, spec.paths)
    OBVIOUS
  <2>2. Hashable(spec, p) = hp /\ Hashable(spec, q) = hq
    BY <1>2, <2>1 DEF Hashable
  <2>3. Agree(spec, p, q) <=> \A i \in DOMAIN spec.paths : AgreeAt(spec.paths[i], p, q)
    BY <1>2 DEF Agree
  <2>4. IsDocument(hp) /\ IsDocument(hq) /\ (SameSeen(hp, hq) <=> Agree(spec, p, q))
    BY <2>1, <2>3, OnlyAgrees DEF IsAttribute
  <2> QED BY <2>2, <2>4, SameText
<1>3. CASE spec.selects = "except"
  <2>1. PICK hp, hq : hp = PayloadExcept(p, spec.paths) /\ hq = PayloadExcept(q, spec.paths)
    OBVIOUS
  <2>2. Hashable(spec, p) = hp /\ Hashable(spec, q) = hq
    BY <1>3, <2>1 DEF Hashable
  <2>3. Agree(spec, p, q) <=> AgreeOutside(spec.paths, p, q)
    BY <1>3 DEF Agree
  <2>4. IsDocument(hp) /\ IsDocument(hq) /\ (SameSeen(hp, hq) <=> Agree(spec, p, q))
    BY <1>3, <2>1, <2>3, ExceptAgrees DEF IsAttribute, TellsApart
  <2> QED BY <2>2, <2>4, SameText
<1> QED BY <1>1, <1>2, <1>3 DEF IsAttribute

LEMMA KeysAgree ==
  ASSUME NEW spec, IsAttribute(spec), TellsApart(spec), NEW p, IsDocument(p), NEW q, IsDocument(q), NEW name, NEW other
  PROVE  KeyFor(spec, name, p) = KeyFor(spec, other, q) <=> (spec.prefix => name = other) /\ Agree(spec, p, q)
<1>1. PICK t, u : t = WriteCanonical(Hashable(spec, p)) /\ u = WriteCanonical(Hashable(spec, q))
  OBVIOUS
<1>2. t = u <=> Agree(spec, p, q)
  BY <1>1, HashableAgrees
<1>3. CASE spec.prefix
  <2>1. KeyFor(spec, name, p) = [tag |-> Some(name), digest |-> t]
    BY <1>1, <1>3 DEF KeyFor, TaggedHashOf
  <2>2. KeyFor(spec, other, q) = [tag |-> Some(other), digest |-> u]
    BY <1>1, <1>3 DEF KeyFor, TaggedHashOf
  <2>3. Some(name) = Some(other) <=> name = other
    BY DEF Some
  <2>4. [tag |-> Some(name), digest |-> t] = [tag |-> Some(other), digest |-> u] <=> Some(name) = Some(other) /\ t = u
    OBVIOUS
  <2> QED BY <1>2, <1>3, <2>1, <2>2, <2>3, <2>4
<1>4. CASE ~spec.prefix
  <2>1. KeyFor(spec, name, p) = [tag |-> None, digest |-> t]
    BY <1>1, <1>4 DEF KeyFor, HashOf
  <2>2. KeyFor(spec, other, q) = [tag |-> None, digest |-> u]
    BY <1>1, <1>4 DEF KeyFor, HashOf
  <2>3. [tag |-> None, digest |-> t] = [tag |-> None, digest |-> u] <=> t = u
    OBVIOUS
  <2> QED BY <1>2, <1>4, <2>1, <2>2, <2>3
<1> QED BY <1>3, <1>4

-----------------------------------------------------------------------------
(* The steps of the system.                                                *)
(* The key of each job is that of its payload, and what the last one was   *)
(* told is whether the first one holds its key.                            *)
KeyIInv ==
  /\ keySpec = None \/ \E spec \in KeySpecs : keySpec = Some(spec)
  /\ held = <<>> => verdict = None
  /\ held # <<>> =>
       /\ keySpec # None
       /\ held[1].payload \in Payloads
       /\ held[1] = [name |-> held[1].name, payload |-> held[1].payload, status |-> held[1].status,
                     key |-> KeyFor(keySpec[1], held[1].name, held[1].payload)]
       /\ verdict = None => held = <<held[1]>>
       /\ verdict # None =>
            /\ verdict[1].payload \in Payloads
            /\ verdict[1].duplicate <=> /\ held[1].key = KeyFor(keySpec[1], verdict[1].name, verdict[1].payload)
                                        /\ HeldBack(keySpec[1].scope, held[1].status)

LEMMA SomeIs == \A v, w : Some(v) # None /\ Some(v)[1] = v
BY DEF Some, None

LEMMA KeyInitial == KeyInit => KeyIInv
BY DEF KeyInit, KeyIInv, None

LEMMA DeclareKeeps ==
  ASSUME KeyIInv, NEW spec \in KeySpecs, DeclareUnique(spec)
  PROVE  KeyIInv'
<1>1. held = <<>> /\ verdict = None /\ held' = <<>> /\ verdict' = None /\ keySpec' = Some(spec)
  BY DEF KeyIInv, DeclareUnique
<1> QED BY <1>1 DEF KeyIInv

LEMMA AppendedPair == \A a, b : Append(<<a>>, b) = <<a, b>>
<1> SUFFICES ASSUME NEW a, NEW b PROVE Append(<<a>>, b) = <<a, b>>
  OBVIOUS
<1>1. /\ <<a>> \in Seq({a, b}) /\ b \in {a, b} /\ Len(<<a>>) = 1 /\ <<a>>[1] = a
  OBVIOUS
<1>2. PICK s \in Seq({a, b}) : s = <<a>>
  BY <1>1
<1>3. Append(s, b) \in Seq({a, b}) /\ Len(Append(s, b)) = 2 /\ Append(s, b)[1] = a /\ Append(s, b)[2] = b
  BY <1>1, <1>2
<1>4. PICK t \in Seq({a, b}) : t = Append(s, b) /\ Len(t) = 2 /\ t[1] = a /\ t[2] = b
  BY <1>3
<1>5. <<a, b>> \in Seq({a, b}) /\ Len(<<a, b>>) = 2 /\ <<a, b>>[1] = a /\ <<a, b>>[2] = b
  OBVIOUS
<1>6. PICK u : u = <<a, b>>
  OBVIOUS
<1>7. u \in Seq({a, b}) /\ Len(u) = 2 /\ u[1] = a /\ u[2] = b
  BY <1>5, <1>6
<1>8. \A i \in 1 .. Len(t) : t[i] = u[i]
  BY <1>4, <1>7
<1>9. t = u
  BY <1>4, <1>7, <1>8, SeqEqual
<1> QED BY <1>2, <1>4, <1>6, <1>9

LEMMA EnqueueKeeps ==
  ASSUME KeyIInv, NEW name, NEW payload \in Payloads, EnqueueUnique(name, payload)
  PROVE  KeyIInv'
<1>1. PICK spec \in KeySpecs : keySpec = Some(spec) /\ keySpec[1] = spec /\ keySpec' = keySpec /\ keySpec # None
  BY SomeIs DEF KeyIInv, EnqueueUnique
<1>2. PICK key : key = KeyFor(spec, name, payload)
  OBVIOUS
<1>3. PICK job : job = [name |-> name, payload |-> payload, key |-> key, status |-> "ready"]
  OBVIOUS
<1>4. verdict = None
  BY DEF EnqueueUnique
<1>5. /\ held' = IF Duplicates(key) # {} THEN held ELSE Append(held, job)
      /\ verdict' = IF held = <<>> THEN None
                    ELSE Some([name |-> name, payload |-> payload, duplicate |-> Duplicates(key) # {}])
  BY <1>1, <1>2, <1>3 DEF EnqueueUnique
<1>6. CASE held = <<>>
  <2>1. Duplicates(key) = {}
    BY <1>6 DEF Duplicates
  <2>2. held' = <<job>> /\ verdict' = None
    BY <1>5, <1>6, <2>1
  <2>3. held'[1] = job /\ held' # <<>>
    BY <2>2
  <2>4. job = [name |-> job.name, payload |-> job.payload, status |-> job.status,
               key |-> KeyFor(spec, job.name, job.payload)] /\ job.payload \in Payloads
    BY <1>2, <1>3
  <2> QED BY <1>1, <2>2, <2>3, <2>4 DEF KeyIInv
<1>7. CASE held # <<>>
  <2>1. PICK first : /\ first = held[1] /\ held = <<first>> /\ first.payload \in Payloads
                     /\ first = [name |-> first.name, payload |-> first.payload, status |-> first.status,
                                 key |-> KeyFor(spec, first.name, first.payload)]
    BY <1>1, <1>4, <1>7 DEF KeyIInv
  <2>2. held' = <<first>> \/ held' = <<first, job>>
    <3>1. Append(<<first>>, job) = <<first, job>>
      BY AppendedPair
    <3>2. held' = held \/ held' = Append(held, job)
      BY <1>5
    <3> QED BY <2>1, <3>1, <3>2
  <2>3. held'[1] = first /\ held' # <<>>
    BY <2>2
  <2>4. Duplicates(key) # {} <=> first.key = key /\ HeldBack(spec.scope, first.status)
    <3>1. DOMAIN held = {1}
      BY <2>1
    <3> QED BY <1>1, <2>1, <3>1 DEF Duplicates
  <2>5. PICK last : /\ last = [name |-> name, payload |-> payload, duplicate |-> Duplicates(key) # {}]
                    /\ verdict' = Some(last)
    BY <1>5, <1>7
  <2>6. verdict' # None /\ verdict'[1] = last
    BY <2>5, SomeIs
  <2>7. last.name = name /\ last.payload = payload /\ (last.duplicate <=> Duplicates(key) # {})
    BY <2>5
  <2> QED BY <1>1, <1>2, <2>1, <2>3, <2>4, <2>6, <2>7 DEF KeyIInv
<1> QED BY <1>6, <1>7

LEMMA MoveKeeps ==
  ASSUME KeyIInv, JobMovesOn
  PROVE  KeyIInv'
<1>1. held # <<>> /\ verdict = None /\ keySpec' = keySpec /\ verdict' = verdict
  BY DEF JobMovesOn
<1>2. PICK first : /\ first = held[1] /\ held = <<first>> /\ first.payload \in Payloads
                   /\ first = [name |-> first.name, payload |-> first.payload, status |-> first.status,
                               key |-> KeyFor(keySpec[1], first.name, first.payload)]
  BY <1>1 DEF KeyIInv
<1>3. PICK next : next = [name |-> first.name, payload |-> first.payload, status |-> Later[first.status],
                          key |-> KeyFor(keySpec[1], first.name, first.payload)]
  OBVIOUS
<1>4. [first EXCEPT !.status = Later[first.status]] = next
  BY <1>2, <1>3
<1>5. held' = <<next>>
  <2>1. held' = [held EXCEPT ![1] = [first EXCEPT !.status = Later[first.status]]]
    BY <1>2 DEF JobMovesOn
  <2> QED BY <1>2, <1>4, <2>1
<1>6. held' # <<>> /\ held'[1] = next
  BY <1>5
<1>7. next.payload \in Payloads /\
      next = [name |-> next.name, payload |-> next.payload, status |-> next.status,
              key |-> KeyFor(keySpec[1], next.name, next.payload)]
  BY <1>2, <1>3
<1> QED BY <1>1, <1>5, <1>6, <1>7 DEF KeyIInv

LEMMA KeySteps == KeyIInv /\ [KeyNext]_keyVars => KeyIInv'
<1> SUFFICES ASSUME KeyIInv, [KeyNext]_keyVars PROVE KeyIInv'
  OBVIOUS
<1>1. ASSUME NEW spec \in KeySpecs, DeclareUnique(spec) PROVE KeyIInv'
  BY <1>1, DeclareKeeps
<1>2. ASSUME NEW name, NEW payload \in Payloads, EnqueueUnique(name, payload) PROVE KeyIInv'
  BY <1>2, EnqueueKeeps
<1>3. CASE JobMovesOn
  BY <1>3, MoveKeeps
<1>4. CASE UNCHANGED keyVars
  BY <1>4 DEF keyVars, KeyIInv
<1> QED BY <1>1, <1>2, <1>3, <1>4 DEF KeyNext

LEMMA KeyTells == KeyIInv => DuplicatesAgree
<1> SUFFICES ASSUME KeyIInv, verdict # None, TellsApart(keySpec[1])
             PROVE  verdict[1].duplicate <=> IsDuplicate(verdict[1])
  BY DEF DuplicatesAgree
<1>1. held # <<>> /\ keySpec # None
  BY DEF KeyIInv
<1>2. PICK spec \in KeySpecs : keySpec[1] = spec
  BY <1>1, SomeIs DEF KeyIInv
<1>3. PICK first, last : first = held[1] /\ last = verdict[1]
  OBVIOUS
<1>4. /\ first.payload \in Payloads /\ last.payload \in Payloads
      /\ first.key = KeyFor(spec, first.name, first.payload)
      /\ last.duplicate <=> first.key = KeyFor(spec, last.name, last.payload) /\ HeldBack(spec.scope, first.status)
  BY <1>1, <1>2, <1>3 DEF KeyIInv
<1>5. IsDocument(first.payload) /\ IsDocument(last.payload)
  BY <1>4, PayloadsAssumption
<1>6. IsAttribute(spec)
  BY KeySpecsAssumption DEF IsAttribute
<1>7. KeyFor(spec, first.name, first.payload) = KeyFor(spec, last.name, last.payload)
        <=> (spec.prefix => first.name = last.name) /\ Agree(spec, first.payload, last.payload)
  BY <1>2, <1>5, <1>6, KeysAgree
<1> QED BY <1>2, <1>3, <1>4, <1>7 DEF IsDuplicate

THEOREM KeysTell == KeySpec => []DuplicatesAgree
<1>1. KeySpec => []KeyIInv
  BY KeyInitial, KeySteps, PTL DEF KeySpec
<1> QED BY <1>1, KeyTells, PTL
================================================================================
