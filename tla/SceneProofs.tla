---------------------------- MODULE SceneProofs -----------------------------
(***************************************************************************)
(* Proofs about SceneHistory, for every set of sources, transforms and     *)
(* settings and every limit of the history, and about SceneComposition,    *)
(* for every geometry of the frames, outputs and previews: the arithmetic  *)
(* of the compositor, its crops, placements, sampling and cells, and the   *)
(* composition of any scene that is reached.                               *)
(***************************************************************************)
EXTENDS SceneComposition, SequenceTheorems, FiniteSetTheorems, WellFoundedInduction, TLAPS

----------------------------------------------------------------------------
(* Edits of a scene *)

(* A sequence without one of its places. *)
LEMMA RemovedAt ==
  ASSUME NEW S, NEW q \in Seq(S), NEW i \in 1 .. Len(q)
  PROVE  /\ RemoveAt(q, i) \in Seq(S)
         /\ Len(RemoveAt(q, i)) = Len(q) - 1
         /\ \A j \in 1 .. Len(q) - 1 : RemoveAt(q, i)[j] = q[IF j < i THEN j ELSE j + 1]
<1> DEFINE a == SubSeq(q, 1, i - 1)
           b == SubSeq(q, i + 1, Len(q))
<1>1. Len(q) \in Nat /\ \A j \in 1 .. Len(q) : q[j] \in S
  BY LenProperties, ElementOfSeq
<1>2. /\ a \in Seq(S) /\ Len(a) = i - 1
      /\ \A j \in 1 .. i - 1 : a[j] = q[j]
  BY <1>1, SubSeqProperties
<1>3. /\ b \in Seq(S) /\ Len(b) = Len(q) - i
      /\ \A j \in 1 .. Len(q) - i : b[j] = q[i + j]
  <2>1. \A j \in i + 1 .. Len(q) : q[j] \in S
    BY <1>1
  <2>2. /\ b \in Seq(S)
        /\ Len(b) = IF i + 1 <= Len(q) THEN Len(q) - (i + 1) + 1 ELSE 0
        /\ \A j \in 1 .. Len(q) - (i + 1) + 1 : b[j] = q[i + 1 + j - 1]
    BY <1>1, <2>1, SubSeqProperties
  <2> QED  BY <1>1, <2>2
<1> HIDE DEF a, b
<1>4. RemoveAt(q, i) = a \o b
  BY DEF RemoveAt, a, b
<1>5. /\ a \o b \in Seq(S) /\ Len(a \o b) = Len(a) + Len(b)
      /\ \A j \in 1 .. Len(a) + Len(b) : (a \o b)[j] = IF j <= Len(a) THEN a[j] ELSE b[j - Len(a)]
  BY <1>2, <1>3, ConcatProperties
<1>6. ASSUME NEW j \in 1 .. Len(q) - 1
      PROVE  (a \o b)[j] = q[IF j < i THEN j ELSE j + 1]
  <2>1. CASE j < i
    BY <1>1, <1>2, <1>3, <1>5, <2>1
  <2>2. CASE j >= i
    <3>1. (a \o b)[j] = b[j - (i - 1)]
      BY <1>1, <1>2, <1>3, <1>5, <2>2
    <3>2. b[j - (i - 1)] = q[i + (j - (i - 1))] /\ i + (j - (i - 1)) = j + 1
      BY <1>1, <1>3, <2>2
    <3> QED  BY <2>2, <3>1, <3>2
  <2>3. j < i \/ j >= i
    BY <1>1
  <2> QED  BY <2>1, <2>2, <2>3
<1>7. Len(a) + Len(b) = Len(q) - 1
  BY <1>1, <1>2, <1>3
<1> QED  BY <1>4, <1>5, <1>6, <1>7

(* It has no source twice if every source it is left with had one place. *)
LEMMA RemovedInjective ==
  ASSUME NEW q \in Seq(Sources), NEW i \in 1 .. Len(q),
         \A j, k \in 1 .. Len(q) : j # i /\ k # i /\ q[j] = q[k] => j = k
  PROVE  RemoveAt(q, i) \in Seq(Sources) /\ IsInjective(RemoveAt(q, i))
<1> DEFINE r == RemoveAt(q, i)
           from(j) == IF j < i THEN j ELSE j + 1
<1>1. Len(q) \in Nat
  BY LenProperties
<1>2. r \in Seq(Sources) /\ Len(r) = Len(q) - 1 /\ \A j \in 1 .. Len(q) - 1 : r[j] = q[from(j)]
  BY RemovedAt
<1>3. DOMAIN r = 1 .. Len(q) - 1
  BY <1>2, LenProperties
<1>4. ASSUME NEW j \in 1 .. Len(q) - 1, NEW k \in 1 .. Len(q) - 1, r[j] = r[k]
      PROVE  j = k
  <2>1. q[from(j)] = q[from(k)]
    BY <1>2, <1>4
  <2>2. from(j) \in 1 .. Len(q) /\ from(j) # i /\ from(k) \in 1 .. Len(q) /\ from(k) # i
    BY <1>1
  <2>3. from(j) = from(k)
    BY <2>1, <2>2
  <2> QED  BY <1>1, <2>3
<1> QED  BY <1>2, <1>3, <1>4 DEF IsInjective

LEMMA ContentFields ==
  ASSUME NEW c \in Content
  PROVE  /\ c.sources \in Seq(Sources) /\ IsInjective(c.sources)
         /\ DOMAIN c.sources = 1 .. Len(c.sources) /\ Len(c.sources) \in Nat
         /\ c.transforms \in [Sources -> Transforms] /\ c.style \in Styles
         /\ \A j, k \in 1 .. Len(c.sources) : c.sources[j] = c.sources[k] => j = k
<1>1. c.sources \in Seq(Sources) /\ IsInjective(c.sources)
      /\ c.transforms \in [Sources -> Transforms] /\ c.style \in Styles
  BY DEF Content
<1>2. DOMAIN c.sources = 1 .. Len(c.sources) /\ Len(c.sources) \in Nat
  BY <1>1, LenProperties
<1> QED  BY <1>1, <1>2 DEF IsInjective

LEMMA WithSources ==
  ASSUME NEW c \in Content, NEW q \in Seq(Sources), IsInjective(q)
  PROVE  [c EXCEPT !.sources = q] \in Content
  BY DEF Content

LEMMA WithTransforms ==
  ASSUME NEW c \in Content, NEW t \in [Sources -> Transforms]
  PROVE  [c EXCEPT !.transforms = t] \in Content
  BY DEF Content

LEMMA SelectionsAreContent ==
  ASSUME NEW c \in Content
  PROVE  Selections(c) \subseteq Content
<1> DEFINE q == c.sources
<1>1. /\ q \in Seq(Sources) /\ DOMAIN q = 1 .. Len(q) /\ Len(q) \in Nat
      /\ \A j, k \in 1 .. Len(q) : q[j] = q[k] => j = k
  BY ContentFields
<1>2. ASSUME NEW s \in Sources \ Range(q)
      PROVE  [c EXCEPT !.sources = Append(q, s)] \in Content
  <2> DEFINE r == Append(q, s)
  <2>1. /\ r \in Seq(Sources) /\ Len(r) = Len(q) + 1
        /\ \A j \in 1 .. Len(q) : r[j] = q[j]
        /\ r[Len(q) + 1] = s
    BY <1>1, AppendProperties
  <2>2. DOMAIN r = 1 .. Len(q) + 1
    BY <2>1, LenProperties
  <2>3. \A j \in 1 .. Len(q) : q[j] # s
    BY <1>1 DEF Range
  <2> HIDE DEF r
  <2>4. ASSUME NEW j \in 1 .. Len(q) + 1, NEW k \in 1 .. Len(q) + 1, r[j] = r[k]
        PROVE  j = k
    <3>1. j = Len(q) + 1 \/ j \in 1 .. Len(q)
      BY <1>1
    <3>2. k = Len(q) + 1 \/ k \in 1 .. Len(q)
      BY <1>1
    <3> QED  BY <1>1, <2>1, <2>3, <2>4, <3>1, <3>2
  <2>5. IsInjective(r)
    BY <2>2, <2>4 DEF IsInjective
  <2> QED  BY <2>1, <2>5, WithSources DEF r
<1>3. ASSUME NEW i \in DOMAIN q
      PROVE  [c EXCEPT !.sources = RemoveAt(q, i)] \in Content
  <2>1. RemoveAt(q, i) \in Seq(Sources) /\ IsInjective(RemoveAt(q, i))
    BY <1>1, RemovedInjective
  <2> QED  BY <2>1, WithSources
<1> QED  BY <1>2, <1>3 DEF Selections

LEMMA MovesAreContent ==
  ASSUME NEW c \in Content
  PROVE  Moves(c) \subseteq Content
<1> DEFINE q == c.sources
<1>1. /\ q \in Seq(Sources) /\ DOMAIN q = 1 .. Len(q) /\ Len(q) \in Nat
      /\ \A j, k \in 1 .. Len(q) : q[j] = q[k] => j = k
      /\ \A j \in 1 .. Len(q) : q[j] \in Sources
  BY ContentFields, ElementOfSeq
<1>2. ASSUME NEW i \in 1 .. Len(q) - 1
      PROVE  [c EXCEPT !.sources = Moved(q, i, i + 1)] \in Content
  <2> DEFINE r == Moved(q, i, i + 1)
  <2>1. i \in 1 .. Len(q) /\ i + 1 \in 1 .. Len(q)
    BY <1>1
  <2>2. /\ DOMAIN r = 1 .. Len(q)
        /\ \A j \in 1 .. Len(q) : r[j] = IF j = i + 1 THEN q[i] ELSE IF j = i THEN q[i + 1] ELSE q[j]
    BY <1>1, <2>1 DEF Moved
  <2>3. r \in [1 .. Len(q) -> Sources]
    BY <1>1, <2>1 DEF Moved
  <2>4. r \in Seq(Sources)
    BY <1>1, <2>3, SeqDef
  <2>5. IsInjective(r)
    BY <1>1, <2>1, <2>2 DEF IsInjective
  <2> QED  BY <2>4, <2>5, WithSources
<1> QED  BY <1>2 DEF Moves

LEMMA EditsAreContent ==
  ASSUME NEW c \in Content
  PROVE  EditsOf(c) \subseteq Content
<1>1. Transformations(c) \subseteq Content
  <2>1. ASSUME NEW s \in Sources, NEW t \in Transforms
        PROVE  [c EXCEPT !.transforms[s] = t] \in Content
    BY ContentFields DEF Content
  <2>2. Range(c.sources) \subseteq Sources
    BY ContentFields, RangeOfSeq
  <2> QED  BY <2>1, <2>2 DEF Transformations
<1>2. Settings(c) \subseteq Content
  BY DEF Settings, Content
<1> QED  BY <1>1, <1>2, SelectionsAreContent, MovesAreContent DEF EditsOf

(* A migration leaves every scene without a source twice, whether it had one *)
(* or both locators of the camera.                                           *)
LEMMA RemappedIsContent ==
  ASSUME NEW c \in Content
  PROVE  Remapped(c) \in Content
<1>1. CASE Legacy \notin Range(c.sources)
  BY <1>1 DEF Remapped
<1>2. CASE Legacy \in Range(c.sources)
  <2> DEFINE q == c.sources
             l == Place(c, Legacy)
             r == [q EXCEPT ![l] = Current]
             moved == IF Current \in Range(q) THEN RemoveAt(r, Second(c)) ELSE r
             x == IF c.transforms[Current] = NoTransform THEN c.transforms[Legacy]
                                                         ELSE c.transforms[Current]
             t == [c.transforms EXCEPT ![Legacy] = NoTransform, ![Current] = x]
  <2>1. /\ q \in Seq(Sources) /\ DOMAIN q = 1 .. Len(q) /\ Len(q) \in Nat
        /\ \A j, k \in 1 .. Len(q) : q[j] = q[k] => j = k
    BY ContentFields
  <2>2. l \in 1 .. Len(q) /\ q[l] = Legacy
    BY <1>2, <2>1 DEF Range, Place
  <2>3. r \in Seq(Sources) /\ Len(r) = Len(q)
        /\ \A j \in 1 .. Len(q) : r[j] = IF j = l THEN Current ELSE q[j]
    BY <2>1, <2>2, ExceptSeq, SceneAssumption
  <2>4. DOMAIN r = 1 .. Len(q)
    BY <2>3, LenProperties
  <2>5. moved \in Seq(Sources) /\ IsInjective(moved)
    <3>1. CASE Current \notin Range(q)
      <4>1. \A j \in 1 .. Len(q) : q[j] # Current
        BY <2>1, <3>1 DEF Range
      <4>2. IsInjective(r)
        BY <2>1, <2>2, <2>3, <2>4, <4>1 DEF IsInjective
      <4> QED  BY <2>3, <3>1, <4>2
    <3>2. CASE Current \in Range(q)
      <4> DEFINE k == Place(c, Current)
      <4>1. k \in 1 .. Len(q) /\ q[k] = Current
        BY <2>1, <3>2 DEF Range, Place
      <4>2. Second(c) \in {l, k}
        BY DEF Second
      <4>3. \A i, j \in 1 .. Len(q) : i # Second(c) /\ j # Second(c) /\ r[i] = r[j] => i = j
        BY <2>1, <2>2, <2>3, <4>1, <4>2
      <4> QED  BY <2>2, <2>3, <3>2, <4>1, <4>2, <4>3, RemovedInjective
    <3> QED  BY <3>1, <3>2
  <2>6. t \in [Sources -> Transforms]
    BY ContentFields, SceneAssumption
  <2>7. Remapped(c) = [c EXCEPT !.sources = moved, !.transforms = t]
    BY <1>2 DEF Remapped
  <2> HIDE DEF moved, t
  <2> QED  BY <2>5, <2>6, <2>7 DEF Content
<1> QED  BY <1>1, <1>2

----------------------------------------------------------------------------
(* The line of scenes *)

(* Timeline, for any two stacks and any scene shown. *)
Line(u, x, r) == ContentsOf(u) \o <<x>> \o Reverse(ContentsOf(r))

(* Its scenes: the undo stack from the bottom, the scene shown, the redo stack *)
(* from the top.                                                               *)
LEMMA LineElements ==
  ASSUME NEW u \in Seq(Snapshots), NEW r \in Seq(Snapshots), NEW x \in Content
  PROVE  /\ Line(u, x, r) \in Seq(Content)
         /\ Len(Line(u, x, r)) = Len(u) + 1 + Len(r)
         /\ Len(u) \in Nat /\ Len(r) \in Nat
         /\ \A j \in 1 .. Len(u) : Line(u, x, r)[j] = u[j].content
         /\ Line(u, x, r)[Len(u) + 1] = x
         /\ \A j \in 1 .. Len(r) :
              Line(u, x, r)[Len(u) + 1 + j] = r[Len(r) - j + 1].content
<1> DEFINE a == ContentsOf(u)
           b == <<x>>
           c == Reverse(ContentsOf(r))
<1>1. /\ Len(u) \in Nat /\ DOMAIN u = 1 .. Len(u) /\ \A j \in 1 .. Len(u) : u[j] \in Snapshots
      /\ Len(r) \in Nat /\ DOMAIN r = 1 .. Len(r) /\ \A j \in 1 .. Len(r) : r[j] \in Snapshots
  BY LenProperties, ElementOfSeq
<1>2. a \in Seq(Content) /\ Len(a) = Len(u) /\ \A j \in 1 .. Len(u) : a[j] = u[j].content
  BY <1>1 DEF ContentsOf, Snapshots
<1>3. b \in Seq(Content) /\ Len(b) = 1 /\ b[1] = x
  OBVIOUS
<1>4. /\ c \in Seq(Content) /\ Len(c) = Len(r)
      /\ \A j \in 1 .. Len(r) : c[j] = r[Len(r) - j + 1].content
  <2> DEFINE d == ContentsOf(r)
  <2>1. d \in Seq(Content) /\ Len(d) = Len(r) /\ \A j \in 1 .. Len(r) : d[j] = r[j].content
    BY <1>1 DEF ContentsOf, Snapshots
  <2>2. \A j \in 1 .. Len(r) : Len(r) - j + 1 \in 1 .. Len(r) /\ d[Len(r) - j + 1] \in Content
    BY <1>1, <2>1, ElementOfSeq
  <2> HIDE DEF d
  <2>3. c = [j \in 1 .. Len(r) |-> d[Len(r) - j + 1]]
    BY <2>1 DEF Reverse, d
  <2> QED  BY <1>1, <2>1, <2>2, <2>3
<1> HIDE DEF a, b, c
<1>5. /\ a \o b \in Seq(Content) /\ Len(a \o b) = Len(u) + 1
      /\ \A j \in 1 .. Len(u) + 1 : (a \o b)[j] = IF j <= Len(u) THEN a[j] ELSE b[j - Len(u)]
  <2>1. a \in Seq(Content) /\ b \in Seq(Content)
    BY <1>2, <1>3
  <2>2. /\ a \o b \in Seq(Content) /\ Len(a \o b) = Len(a) + Len(b)
        /\ \A j \in 1 .. Len(a) + Len(b) : (a \o b)[j] = IF j <= Len(a) THEN a[j] ELSE b[j - Len(a)]
    BY <2>1, ConcatProperties
  <2> QED  BY <1>2, <1>3, <2>2
<1>6. /\ (a \o b) \o c \in Seq(Content) /\ Len((a \o b) \o c) = Len(u) + 1 + Len(r)
      /\ \A j \in 1 .. Len(u) + 1 + Len(r) :
           ((a \o b) \o c)[j] = IF j <= Len(u) + 1 THEN (a \o b)[j] ELSE c[j - (Len(u) + 1)]
  <2> DEFINE d == a \o b
  <2>1. d \in Seq(Content) /\ c \in Seq(Content)
    BY <1>4, <1>5
  <2>2. Len(d) = Len(u) + 1 /\ Len(c) = Len(r)
    BY <1>4, <1>5
  <2> HIDE DEF d
  <2>3. /\ d \o c \in Seq(Content) /\ Len(d \o c) = Len(d) + Len(c)
        /\ \A j \in 1 .. Len(d) + Len(c) : (d \o c)[j] = IF j <= Len(d) THEN d[j] ELSE c[j - Len(d)]
    BY <2>1, ConcatProperties
  <2> QED  BY <2>2, <2>3 DEF d
<1>7. Line(u, x, r) = (a \o b) \o c
  BY DEF Line, a, b, c
<1>8. \A j \in 1 .. Len(u) : Line(u, x, r)[j] = u[j].content
  BY <1>1, <1>2, <1>5, <1>6, <1>7
<1>9. Line(u, x, r)[Len(u) + 1] = x
  BY <1>1, <1>3, <1>5, <1>6, <1>7
<1>10. \A j \in 1 .. Len(r) : Line(u, x, r)[Len(u) + 1 + j] = r[Len(r) - j + 1].content
  BY <1>1, <1>4, <1>6, <1>7
<1> QED  BY <1>1, <1>6, <1>7, <1>8, <1>9, <1>10

(* A stack without its top. *)
LEMMA FrontLast ==
  ASSUME NEW S, NEW q \in Seq(S), q # << >>
  PROVE  /\ Front(q) \in Seq(S) /\ Len(Front(q)) = Len(q) - 1 /\ Len(q) \in Nat \ {0}
         /\ \A j \in 1 .. Len(q) - 1 : Front(q)[j] = q[j]
         /\ Last(q) \in S /\ Last(q) = q[Len(q)]
<1> DEFINE n == Len(q) - 1
           f == SubSeq(q, 1, n)
<1>1. Len(q) \in Nat \ {0} /\ n \in Nat
  BY EmptySeq
<1>2. \A j \in 1 .. Len(q) : q[j] \in S
  BY ElementOfSeq
<1>3. /\ f \in Seq(S)
      /\ Len(f) = IF 1 <= n THEN n - 1 + 1 ELSE 0
      /\ \A j \in 1 .. n - 1 + 1 : f[j] = q[1 + j - 1]
  <2>1. 1 \in Int /\ n \in Int /\ \A j \in 1 .. n : q[j] \in S
    BY <1>1, <1>2
  <2> HIDE DEF n
  <2> QED  BY <2>1, SubSeqProperties
<1>4. Front(q) = f
  BY DEF Front
<1> HIDE DEF f
<1>5. f \in Seq(S) /\ Len(f) = n /\ \A j \in 1 .. n : f[j] = q[j]
  <2> HIDE DEF n
  <2> QED  BY <1>1, <1>3
<1> QED  BY <1>1, <1>2, <1>4, <1>5 DEF Last

(* A step back: the scene shown goes on the redo stack and the top of the undo *)
(* stack is shown.  The line is the same.                                      *)
LEMMA StepBack ==
  ASSUME NEW u \in Seq(Snapshots), NEW r \in Seq(Snapshots), NEW s \in Snapshots, u # << >>
  PROVE  Line(Front(u), Last(u).content, Append(r, s)) = Line(u, s.content, r)
<1> DEFINE f == Front(u)
           p == Append(r, s)
           m == Line(f, Last(u).content, p)
           n == Line(u, s.content, r)
<1>1. /\ f \in Seq(Snapshots) /\ Len(f) = Len(u) - 1 /\ Len(u) \in Nat \ {0}
      /\ \A j \in 1 .. Len(u) - 1 : f[j] = u[j]
      /\ Last(u) \in Snapshots /\ Last(u) = u[Len(u)]
  BY FrontLast
<1>2. /\ p \in Seq(Snapshots) /\ Len(p) = Len(r) + 1 /\ Len(r) \in Nat
      /\ \A j \in 1 .. Len(r) : p[j] = r[j]
      /\ p[Len(r) + 1] = s
  BY AppendProperties, LenProperties
<1>3. Last(u).content \in Content /\ s.content \in Content
  BY <1>1 DEF Snapshots
<1> HIDE DEF f, p
<1>4. /\ m \in Seq(Content) /\ Len(m) = Len(u) + 1 + Len(r)
      /\ \A j \in 1 .. Len(u) - 1 : m[j] = f[j].content
      /\ m[Len(u)] = Last(u).content
      /\ \A j \in 1 .. Len(r) + 1 : m[Len(u) + j] = p[Len(r) + 1 - j + 1].content
  <2>1. f \in Seq(Snapshots) /\ p \in Seq(Snapshots) /\ Last(u).content \in Content
    BY <1>1, <1>2, <1>3
  <2>3. /\ m \in Seq(Content) /\ Len(m) = Len(f) + 1 + Len(p)
        /\ \A j \in 1 .. Len(f) : m[j] = f[j].content
        /\ m[Len(f) + 1] = Last(u).content
        /\ \A j \in 1 .. Len(p) : m[Len(f) + 1 + j] = p[Len(p) - j + 1].content
    BY <2>1, LineElements
  <2>2. Len(f) + 1 = Len(u)
    BY <1>1
  <2> HIDE DEF m
  <2> QED  BY <1>1, <1>2, <2>2, <2>3
<1>5. /\ n \in Seq(Content) /\ Len(n) = Len(u) + 1 + Len(r)
      /\ \A j \in 1 .. Len(u) : n[j] = u[j].content
      /\ n[Len(u) + 1] = s.content
      /\ \A j \in 1 .. Len(r) : n[Len(u) + 1 + j] = r[Len(r) - j + 1].content
  BY <1>3, LineElements
<1> HIDE DEF m, n
<1>6. ASSUME NEW j \in 1 .. Len(m)
      PROVE  m[j] = n[j]
  <2>1. CASE j \in 1 .. Len(u) - 1
    <3>1. m[j] = f[j].content /\ f[j] = u[j]
      BY <1>1, <1>4, <2>1
    <3>2. n[j] = u[j].content
      BY <1>1, <1>5, <2>1
    <3> QED  BY <3>1, <3>2
  <2>2. CASE j = Len(u)
    BY <1>1, <1>4, <1>5, <2>2
  <2>3. CASE j = Len(u) + 1
    <3>1. m[Len(u) + 1] = p[Len(r) + 1 - 1 + 1].content
      BY <1>2, <1>4
    <3> QED  BY <1>2, <1>5, <2>3, <3>1
  <2>4. CASE j \in Len(u) + 2 .. Len(u) + 1 + Len(r)
    <3> DEFINE k == j - Len(u) - 1
    <3>1. k \in 1 .. Len(r) /\ k + 1 \in 1 .. Len(r) + 1 /\ j = Len(u) + 1 + k /\ j = Len(u) + (k + 1)
      BY <1>1, <1>2, <2>4
    <3>2. m[j] = p[Len(r) + 1 - (k + 1) + 1].content
      BY <1>4, <3>1
    <3>3. Len(r) + 1 - (k + 1) + 1 = Len(r) - k + 1 /\ Len(r) - k + 1 \in 1 .. Len(r)
      BY <1>2, <3>1
    <3>4. n[j] = r[Len(r) - k + 1].content
      BY <1>5, <3>1
    <3> QED  BY <1>2, <3>2, <3>3, <3>4
  <2>5. j \in 1 .. Len(u) + 1 + Len(r)
    BY <1>4
  <2>6. j \in 1 .. Len(u) - 1 \/ j = Len(u) \/ j = Len(u) + 1
        \/ j \in Len(u) + 2 .. Len(u) + 1 + Len(r)
    BY <1>1, <1>2, <2>5
  <2> QED  BY <2>1, <2>2, <2>3, <2>4, <2>6
<1>7. m = n
  BY <1>4, <1>5, <1>6, SeqEqual
<1> QED  BY <1>7 DEF m, n, f, p

(* A step forward: the other way round. *)
LEMMA StepForward ==
  ASSUME NEW u \in Seq(Snapshots), NEW r \in Seq(Snapshots), NEW s \in Snapshots, r # << >>
  PROVE  Line(Append(u, s), Last(r).content, Front(r)) = Line(u, s.content, r)
<1> DEFINE p == Append(u, s)
           f == Front(r)
           m == Line(p, Last(r).content, f)
           n == Line(u, s.content, r)
<1>1. /\ f \in Seq(Snapshots) /\ Len(f) = Len(r) - 1 /\ Len(r) \in Nat \ {0}
      /\ \A j \in 1 .. Len(r) - 1 : f[j] = r[j]
      /\ Last(r) \in Snapshots /\ Last(r) = r[Len(r)]
  BY FrontLast
<1>2. /\ p \in Seq(Snapshots) /\ Len(p) = Len(u) + 1 /\ Len(u) \in Nat
      /\ \A j \in 1 .. Len(u) : p[j] = u[j]
      /\ p[Len(u) + 1] = s
  BY AppendProperties, LenProperties
<1>3. Last(r).content \in Content /\ s.content \in Content
  BY <1>1 DEF Snapshots
<1> HIDE DEF f, p
<1>4. /\ m \in Seq(Content) /\ Len(m) = Len(u) + 1 + Len(r)
      /\ \A j \in 1 .. Len(u) + 1 : m[j] = p[j].content
      /\ m[Len(u) + 2] = Last(r).content
      /\ \A j \in 1 .. Len(r) - 1 : m[Len(u) + 2 + j] = f[Len(r) - 1 - j + 1].content
  <2>1. f \in Seq(Snapshots) /\ p \in Seq(Snapshots) /\ Last(r).content \in Content
    BY <1>1, <1>2, <1>3
  <2>3. /\ m \in Seq(Content) /\ Len(m) = Len(p) + 1 + Len(f)
        /\ \A j \in 1 .. Len(p) : m[j] = p[j].content
        /\ m[Len(p) + 1] = Last(r).content
        /\ \A j \in 1 .. Len(f) : m[Len(p) + 1 + j] = f[Len(f) - j + 1].content
    BY <2>1, LineElements
  <2>2. Len(p) + 1 = Len(u) + 2 /\ Len(u) + 2 + (Len(r) - 1) = Len(u) + 1 + Len(r)
    BY <1>1, <1>2
  <2> HIDE DEF m
  <2> QED  BY <1>1, <1>2, <2>2, <2>3
<1>5. /\ n \in Seq(Content) /\ Len(n) = Len(u) + 1 + Len(r)
      /\ \A j \in 1 .. Len(u) : n[j] = u[j].content
      /\ n[Len(u) + 1] = s.content
      /\ \A j \in 1 .. Len(r) : n[Len(u) + 1 + j] = r[Len(r) - j + 1].content
  BY <1>3, LineElements
<1> HIDE DEF m, n
<1>6. ASSUME NEW j \in 1 .. Len(m)
      PROVE  m[j] = n[j]
  <2>1. CASE j \in 1 .. Len(u)
    <3>1. m[j] = p[j].content /\ p[j] = u[j] /\ n[j] = u[j].content
      BY <1>2, <1>4, <1>5, <2>1
    <3> QED  BY <3>1
  <2>2. CASE j = Len(u) + 1
    BY <1>2, <1>4, <1>5, <2>2
  <2>3. CASE j = Len(u) + 2
    <3>1. n[Len(u) + 1 + 1] = r[Len(r) - 1 + 1].content
      BY <1>1, <1>5
    <3> QED  BY <1>1, <1>2, <1>4, <2>3, <3>1
  <2>4. CASE j \in Len(u) + 3 .. Len(u) + 1 + Len(r)
    <3> DEFINE k == j - Len(u) - 2
    <3>1. k \in 1 .. Len(r) - 1 /\ k + 1 \in 1 .. Len(r) /\ j = Len(u) + 2 + k /\ j = Len(u) + 1 + (k + 1)
      BY <1>1, <1>2, <2>4
    <3>2. m[j] = f[Len(r) - 1 - k + 1].content
      BY <1>4, <3>1
    <3>3. Len(r) - 1 - k + 1 = Len(r) - k /\ Len(r) - k \in 1 .. Len(r) - 1
      BY <1>1, <3>1
    <3>4. n[j] = r[Len(r) - (k + 1) + 1].content
      BY <1>5, <3>1
    <3>5. Len(r) - (k + 1) + 1 = Len(r) - k
      BY <1>1, <3>1
    <3> QED  BY <1>1, <3>2, <3>3, <3>4, <3>5
  <2>5. j \in 1 .. Len(u) \/ j = Len(u) + 1 \/ j = Len(u) + 2
        \/ j \in Len(u) + 3 .. Len(u) + 1 + Len(r)
    BY <1>1, <1>2, <1>4
  <2> QED  BY <2>1, <2>2, <2>3, <2>4, <2>5
<1>7. m = n
  BY <1>4, <1>5, <1>6, SeqEqual
<1> QED  BY <1>7 DEF m, n, f, p

(* An edit that becomes an entry cuts the line at the cursor. *)
LEMMA CutAndExtended ==
  ASSUME NEW u \in Seq(Snapshots), NEW r \in Seq(Snapshots), NEW s \in Snapshots, NEW y \in Content
  PROVE  Line(Append(u, s), y, << >>) = SubSeq(Line(u, s.content, r), 1, Len(u) + 1) \o <<y>>
<1> DEFINE p == Append(u, s)
           e == << >>
           n == Line(u, s.content, r)
           cut == SubSeq(n, 1, Len(u) + 1)
           b == <<y>>
           m == Line(p, y, e)
<1>1. /\ p \in Seq(Snapshots) /\ Len(p) = Len(u) + 1 /\ Len(u) \in Nat
      /\ \A j \in 1 .. Len(u) : p[j] = u[j]
      /\ p[Len(u) + 1] = s
  BY AppendProperties, LenProperties
<1>2. e \in Seq(Snapshots) /\ Len(e) = 0
  BY EmptySeq
<1>11. s.content \in Content
  BY DEF Snapshots
<1> HIDE DEF p, e
<1>3. /\ n \in Seq(Content) /\ Len(n) = Len(u) + 1 + Len(r) /\ Len(r) \in Nat
      /\ \A j \in 1 .. Len(u) : n[j] = u[j].content
      /\ n[Len(u) + 1] = s.content
  BY <1>11, LineElements
<1>4. /\ m \in Seq(Content) /\ Len(m) = Len(p) + 1 + Len(e)
      /\ \A j \in 1 .. Len(p) : m[j] = p[j].content
      /\ m[Len(p) + 1] = y
  <2>1. p \in Seq(Snapshots) /\ e \in Seq(Snapshots)
    BY <1>1, <1>2
  <2> QED  BY <2>1, LineElements
<1>5. b \in Seq(Content) /\ Len(b) = 1 /\ b[1] = y
  OBVIOUS
<1> HIDE DEF m, n, b
<1>6. /\ cut \in Seq(Content) /\ Len(cut) = Len(u) + 1
      /\ \A j \in 1 .. Len(u) + 1 : cut[j] = n[j]
  <2>1. \A j \in 1 .. Len(u) + 1 : n[j] \in Content
    BY <1>1, <1>3, ElementOfSeq
  <2>2. /\ cut \in Seq(Content)
        /\ Len(cut) = IF 1 <= Len(u) + 1 THEN Len(u) + 1 - 1 + 1 ELSE 0
        /\ \A j \in 1 .. Len(u) + 1 - 1 + 1 : cut[j] = n[1 + j - 1]
    BY <1>1, <2>1, SubSeqProperties
  <2> HIDE DEF cut
  <2> QED  BY <1>1, <2>2
<1> HIDE DEF cut
<1>7. /\ cut \o b \in Seq(Content) /\ Len(cut \o b) = Len(u) + 2
      /\ \A j \in 1 .. Len(u) + 2 :
           (cut \o b)[j] = IF j <= Len(u) + 1 THEN cut[j] ELSE b[j - (Len(u) + 1)]
  <2>1. cut \in Seq(Content) /\ b \in Seq(Content)
    BY <1>5, <1>6
  <2>2. Len(cut) = Len(u) + 1 /\ Len(b) = 1 /\ Len(u) + 1 + 1 = Len(u) + 2
    BY <1>1, <1>5, <1>6
  <2>3. /\ cut \o b \in Seq(Content) /\ Len(cut \o b) = Len(cut) + Len(b)
        /\ \A j \in 1 .. Len(cut) + Len(b) :
             (cut \o b)[j] = IF j <= Len(cut) THEN cut[j] ELSE b[j - Len(cut)]
    BY <2>1, ConcatProperties
  <2> QED  BY <2>2, <2>3
<1>8. ASSUME NEW j \in 1 .. Len(u) + 2
      PROVE  m[j] = (cut \o b)[j]
  <2>1. CASE j \in 1 .. Len(u)
    <3>1. m[j] = p[j].content /\ p[j] = u[j] /\ n[j] = u[j].content
      BY <1>1, <1>3, <1>4, <2>1
    <3>2. (cut \o b)[j] = n[j]
      BY <1>1, <1>6, <1>7, <2>1
    <3> QED  BY <3>1, <3>2
  <2>2. CASE j = Len(u) + 1
    BY <1>1, <1>3, <1>4, <1>6, <1>7, <2>2
  <2>3. CASE j = Len(u) + 2
    BY <1>1, <1>4, <1>5, <1>7, <2>3
  <2>4. j \in 1 .. Len(u) \/ j = Len(u) + 1 \/ j = Len(u) + 2
    BY <1>1
  <2> QED  BY <2>1, <2>2, <2>3, <2>4
<1>9. Len(m) = Len(u) + 2
  BY <1>1, <1>2, <1>4
<1>10. m = cut \o b
  BY <1>4, <1>7, <1>8, <1>9, SeqEqual
<1> QED  BY <1>10 DEF m, n, p, e, cut, b

(* Without the oldest entry the line is without its first scene. *)
LEMMA OldestDropped ==
  ASSUME NEW u \in Seq(Snapshots), NEW s \in Snapshots, NEW y \in Content, u # << >>
  PROVE  Line(Append(Tail(u), s), y, << >>) = Tail(Line(Append(u, s), y, << >>))
<1> DEFINE e == << >>
           p == Append(Tail(u), s)
           q == Append(u, s)
           m == Line(p, y, e)
           n == Line(q, y, e)
<1>1. /\ Tail(u) \in Seq(Snapshots) /\ Len(Tail(u)) = Len(u) - 1 /\ Len(u) \in Nat \ {0}
      /\ \A j \in 1 .. Len(u) - 1 : Tail(u)[j] = u[j + 1]
  BY HeadTailProperties, EmptySeq
<1>2. /\ q \in Seq(Snapshots) /\ Len(q) = Len(u) + 1
      /\ \A j \in 1 .. Len(u) : q[j] = u[j]
      /\ q[Len(u) + 1] = s
  BY AppendProperties
<1>3. /\ p \in Seq(Snapshots) /\ Len(p) = Len(u)
      /\ \A j \in 1 .. Len(u) : p[j] = q[j + 1]
  <2>1. /\ p \in Seq(Snapshots) /\ Len(p) = Len(Tail(u)) + 1
        /\ \A j \in 1 .. Len(Tail(u)) : p[j] = Tail(u)[j]
        /\ p[Len(Tail(u)) + 1] = s
    BY <1>1, AppendProperties
  <2> HIDE DEF p, q
  <2> QED  BY <1>1, <1>2, <2>1
<1>4. e \in Seq(Snapshots) /\ Len(e) = 0
  BY EmptySeq
<1> HIDE DEF p, q, e
<1>12. p \in Seq(Snapshots) /\ q \in Seq(Snapshots) /\ e \in Seq(Snapshots)
  BY <1>2, <1>3, <1>4
<1>5. /\ m \in Seq(Content) /\ Len(m) = Len(p) + 1 + Len(e)
      /\ \A j \in 1 .. Len(p) : m[j] = p[j].content
      /\ m[Len(p) + 1] = y
  BY <1>12, LineElements
<1>6. /\ n \in Seq(Content) /\ Len(n) = Len(q) + 1 + Len(e)
      /\ \A j \in 1 .. Len(q) : n[j] = q[j].content
      /\ n[Len(q) + 1] = y
  BY <1>12, LineElements
<1> HIDE DEF m, n
<1>7. n # << >>
  BY <1>1, <1>2, <1>4, <1>6, EmptySeq
<1>8. /\ Tail(n) \in Seq(Content) /\ Len(Tail(n)) = Len(u) + 1
      /\ \A j \in 1 .. Len(u) + 1 : Tail(n)[j] = n[j + 1]
  BY <1>1, <1>2, <1>4, <1>6, <1>7, HeadTailProperties
<1>9. ASSUME NEW j \in 1 .. Len(u) + 1
      PROVE  m[j] = Tail(n)[j]
  <2>1. CASE j \in 1 .. Len(u)
    <3>1. m[j] = p[j].content /\ p[j] = q[j + 1]
      BY <1>3, <1>5, <2>1
    <3>2. j + 1 \in 1 .. Len(q)
      BY <1>1, <1>2, <2>1
    <3>3. n[j + 1] = q[j + 1].content
      BY <1>6, <3>2
    <3>4. Tail(n)[j] = n[j + 1]
      BY <1>8
    <3> QED  BY <3>1, <3>3, <3>4
  <2>2. CASE j = Len(u) + 1
    BY <1>1, <1>2, <1>3, <1>5, <1>6, <1>8, <2>2
  <2>3. j \in 1 .. Len(u) \/ j = Len(u) + 1
    BY <1>1
  <2> QED  BY <2>1, <2>2, <2>3
<1>10. Len(m) = Len(u) + 1
  BY <1>1, <1>3, <1>4, <1>5
<1>11. m = Tail(n)
  BY <1>5, <1>8, <1>9, <1>10, SeqEqual
<1> QED  BY <1>11 DEF m, n, p, q, e

(* A scene shown that is replaced is replaced in its place. *)
LEMMA ShownReplaced ==
  ASSUME NEW u \in Seq(Snapshots), NEW r \in Seq(Snapshots), NEW x \in Content, NEW y \in Content
  PROVE  Line(u, y, r) = [Line(u, x, r) EXCEPT ![Len(u) + 1] = y]
<1> DEFINE m == Line(u, y, r)
           n == Line(u, x, r)
           w == [n EXCEPT ![Len(u) + 1] = y]
<1>1. /\ m \in Seq(Content) /\ Len(m) = Len(u) + 1 + Len(r)
      /\ Len(u) \in Nat /\ Len(r) \in Nat
      /\ \A j \in 1 .. Len(u) : m[j] = u[j].content
      /\ m[Len(u) + 1] = y
      /\ \A j \in 1 .. Len(r) : m[Len(u) + 1 + j] = r[Len(r) - j + 1].content
  BY LineElements
<1>2. /\ n \in Seq(Content) /\ Len(n) = Len(u) + 1 + Len(r)
      /\ \A j \in 1 .. Len(u) : n[j] = u[j].content
      /\ \A j \in 1 .. Len(r) : n[Len(u) + 1 + j] = r[Len(r) - j + 1].content
  BY LineElements
<1> HIDE DEF m, n
<1>3. Len(u) + 1 \in 1 .. Len(n)
  BY <1>1, <1>2
<1>4. /\ w \in Seq(Content) /\ Len(w) = Len(n)
      /\ \A j \in 1 .. Len(n) : w[j] = IF j = Len(u) + 1 THEN y ELSE n[j]
  BY <1>2, <1>3, ExceptSeq
<1> HIDE DEF w
<1>5. ASSUME NEW j \in 1 .. Len(m)
      PROVE  m[j] = w[j]
  <2>1. CASE j \in 1 .. Len(u)
    BY <1>1, <1>2, <1>4, <2>1
  <2>2. CASE j = Len(u) + 1
    BY <1>1, <1>2, <1>4, <2>2
  <2>3. CASE j \in Len(u) + 2 .. Len(u) + 1 + Len(r)
    <3> DEFINE k == j - Len(u) - 1
    <3>1. k \in 1 .. Len(r) /\ j = Len(u) + 1 + k
      BY <1>1, <2>3
    <3>2. m[j] = n[j]
      BY <1>1, <1>2, <3>1
    <3> QED  BY <1>1, <1>2, <1>4, <2>3, <3>2
  <2> QED  BY <1>1, <2>1, <2>2, <2>3
<1>6. m = w
  BY <1>1, <1>2, <1>4, <1>5, SeqEqual
<1> QED  BY <1>6 DEF m, n, w

----------------------------------------------------------------------------
(* The inductive invariant *)

(* A push keeps the limit, whatever it throws away. *)
LEMMA PushedFits ==
  ASSUME NEW stack \in Seq(Snapshots), NEW entry \in Snapshots, Len(stack) <= HistoryLimit
  PROVE  /\ Pushed(stack, entry) \in Seq(Snapshots)
         /\ Len(Pushed(stack, entry)) <= HistoryLimit
         /\ Len(stack) < HistoryLimit => Pushed(stack, entry) = Append(stack, entry)
         /\ Len(stack) = HistoryLimit =>
              stack # << >> /\ Pushed(stack, entry) = Append(Tail(stack), entry)
<1>1. Len(stack) \in Nat /\ HistoryLimit \in Nat \ {0}
  BY LenProperties, SceneAssumption
<1>2. CASE Len(stack) = HistoryLimit
  <2>1. stack # << >>
    BY <1>1, <1>2, EmptySeq
  <2>2. Tail(stack) \in Seq(Snapshots) /\ Len(Tail(stack)) = Len(stack) - 1
    BY <2>1, HeadTailProperties
  <2>3. /\ Append(Tail(stack), entry) \in Seq(Snapshots)
        /\ Len(Append(Tail(stack), entry)) = Len(Tail(stack)) + 1
    BY <2>2, AppendProperties
  <2>4. Pushed(stack, entry) = Append(Tail(stack), entry)
    BY <1>2 DEF Pushed
  <2> QED  BY <1>1, <1>2, <2>1, <2>2, <2>3, <2>4
<1>3. CASE Len(stack) < HistoryLimit
  <2>1. Append(stack, entry) \in Seq(Snapshots) /\ Len(Append(stack, entry)) = Len(stack) + 1
    BY AppendProperties
  <2>2. Pushed(stack, entry) = Append(stack, entry)
    BY <1>1, <1>3 DEF Pushed
  <2> QED  BY <1>1, <1>3, <2>1, <2>2
<1> QED  BY <1>1, <1>2, <1>3

LEMMA StacksFit ==
  ASSUME undo \in Seq(Snapshots), redo \in Seq(Snapshots), HistoryFits
  PROVE  /\ Len(undo) \in Nat /\ Len(redo) \in Nat /\ HistoryLimit \in Nat \ {0}
         /\ Len(undo) <= HistoryLimit /\ Len(redo) <= HistoryLimit
  BY LenProperties, SceneAssumption DEF HistoryFits

(* What a commit leaves. *)
LEMMA CommitFits ==
  ASSUME undo \in Seq(Snapshots), redo \in Seq(Snapshots), HistoryFits,
         active \in Names \cup {None}, NEW b \in Snapshots, Commit(b)
  PROVE  /\ undo' \in Seq(Snapshots) /\ redo' \in Seq(Snapshots) /\ HistoryFits'
         /\ active' \in Names \cup {None} /\ skip' = FALSE
<1>1. /\ Len(undo) \in Nat /\ Len(redo) \in Nat /\ HistoryLimit \in Nat \ {0}
      /\ Len(undo) <= HistoryLimit
  BY StacksFit
<1>2. CASE skip \/ b.content = content'
  BY <1>2 DEF Commit, HistoryFits
<1>3. CASE ~(skip \/ b.content = content')
  <2>1. undo' = Pushed(undo, b) /\ redo' = << >> /\ active' \in {active, None} /\ skip' = FALSE
    BY <1>3 DEF Commit
  <2>2. undo' \in Seq(Snapshots) /\ Len(undo') <= HistoryLimit /\ Len(undo') \in Nat
    BY <1>1, <2>1, PushedFits, LenProperties
  <2>3. redo' \in Seq(Snapshots) /\ Len(redo') = 0
    BY <2>1, EmptySeq
  <2> QED  BY <1>1, <2>1, <2>2, <2>3 DEF HistoryFits
<1> QED  BY <1>2, <1>3

(* A step back and a step forward take an entry from one stack to the other: *)
(* no push of theirs throws an entry away.                                   *)
LEMMA UndoFits ==
  ASSUME undo \in Seq(Snapshots), redo \in Seq(Snapshots), HistoryFits,
         Snapshot \in Snapshots, UndoSceneEdit
  PROVE  /\ undo # << >> /\ undo' = Front(undo) /\ redo' = Append(redo, Snapshot)
         /\ undo' \in Seq(Snapshots) /\ redo' \in Seq(Snapshots) /\ HistoryFits'
         /\ Len(undo') = Len(undo) - 1 /\ Len(undo) \in Nat \ {0}
         /\ content' = Last(undo).content /\ content' \in Content
         /\ active' \in Names \cup {None} /\ skip' = TRUE
<1>1. /\ undo # << >> /\ redo' = Pushed(redo, Snapshot) /\ undo' = Front(undo) /\ skip' = TRUE
      /\ content' = Last(undo).content /\ active' = Last(undo).active
  BY DEF UndoSceneEdit, Restored
<1>2. /\ Len(undo) \in Nat /\ Len(redo) \in Nat /\ HistoryLimit \in Nat \ {0}
      /\ Len(redo) <= HistoryLimit
  BY StacksFit
<1>3. /\ Front(undo) \in Seq(Snapshots) /\ Len(Front(undo)) = Len(undo) - 1
      /\ Len(undo) \in Nat \ {0} /\ Last(undo) \in Snapshots
  BY <1>1, FrontLast
<1>4. Len(redo) < HistoryLimit
  BY <1>2, <1>3 DEF HistoryFits
<1>5. redo' = Append(redo, Snapshot)
  BY <1>1, <1>2, <1>4, PushedFits
<1>6. redo' \in Seq(Snapshots) /\ Len(redo') = Len(redo) + 1
  BY <1>5, AppendProperties
<1>7. HistoryFits'
  BY <1>1, <1>2, <1>3, <1>6 DEF HistoryFits
<1>8. Last(undo).content \in Content /\ Last(undo).active \in Names \cup {None}
  BY <1>3 DEF Snapshots
<1> QED  BY <1>1, <1>3, <1>5, <1>6, <1>7, <1>8

LEMMA RedoFits ==
  ASSUME undo \in Seq(Snapshots), redo \in Seq(Snapshots), HistoryFits,
         Snapshot \in Snapshots, RedoSceneEdit
  PROVE  /\ redo # << >> /\ redo' = Front(redo) /\ undo' = Append(undo, Snapshot)
         /\ undo' \in Seq(Snapshots) /\ redo' \in Seq(Snapshots) /\ HistoryFits'
         /\ Len(undo') = Len(undo) + 1 /\ Len(undo) \in Nat
         /\ content' = Last(redo).content /\ content' \in Content
         /\ active' \in Names \cup {None} /\ skip' = TRUE
<1>1. /\ redo # << >> /\ undo' = Pushed(undo, Snapshot) /\ redo' = Front(redo) /\ skip' = TRUE
      /\ content' = Last(redo).content /\ active' = Last(redo).active
  BY DEF RedoSceneEdit, Restored
<1>2. /\ Len(undo) \in Nat /\ Len(redo) \in Nat /\ HistoryLimit \in Nat \ {0}
      /\ Len(undo) <= HistoryLimit
  BY StacksFit
<1>3. /\ Front(redo) \in Seq(Snapshots) /\ Len(Front(redo)) = Len(redo) - 1
      /\ Len(redo) \in Nat \ {0} /\ Last(redo) \in Snapshots
  BY <1>1, FrontLast
<1>4. Len(undo) < HistoryLimit
  BY <1>2, <1>3 DEF HistoryFits
<1>5. undo' = Append(undo, Snapshot)
  BY <1>1, <1>2, <1>4, PushedFits
<1>6. undo' \in Seq(Snapshots) /\ Len(undo') = Len(undo) + 1
  BY <1>5, AppendProperties
<1>7. HistoryFits'
  BY <1>1, <1>2, <1>3, <1>6 DEF HistoryFits
<1>8. Last(redo).content \in Content /\ Last(redo).active \in Names \cup {None}
  BY <1>3 DEF Snapshots
<1> QED  BY <1>1, <1>2, <1>3, <1>5, <1>6, <1>7, <1>8

(* What every action needs of the invariant. *)
LEMMA OrderFacts ==
  ASSUME SceneOrder
  PROVE  /\ Snapshot \in Snapshots /\ content \in Content /\ active \in Names \cup {None}
         /\ undo \in Seq(Snapshots) /\ redo \in Seq(Snapshots) /\ HistoryFits
         /\ Snapshot.content = content
  BY DEF SceneOrder, SceneInv, TypeOK, Snapshot, Snapshots

(* The rest of a frame's step: the snapshot `ui' takes is the scene. *)
LEMMA ToUiOrder ==
  ASSUME SceneOrder, ToUi, content' \in Content, active' \in Names \cup {None},
         undo' \in Seq(Snapshots), redo' \in Seq(Snapshots), HistoryFits', skip' \in BOOLEAN,
         edits' \in 0 .. MaxEdits
  PROVE  SceneOrder'
<1>1. /\ phase' = "ui" /\ UNCHANGED <<scenes, preview, pending, pointer>>
      /\ before' = [content |-> content', active |-> active']
  BY DEF ToUi
<1>2. before' \in Snapshots /\ before' # None /\ before' = Snapshot'
  BY <1>1, ContentAssumption DEF Snapshots, Snapshot
<1>3. TypeOK'
  BY <1>1, <1>2 DEF SceneOrder, SceneInv, TypeOK
<1> QED  BY <1>1, <1>2, <1>3 DEF SceneOrder, SceneInv, GestureClosed, SnapshotOfFrame

(* The step of a widget leaves the snapshot of its frame. *)
LEMMA InUiOrder ==
  ASSUME SceneOrder, InUi, content' \in Content, active' \in Names \cup {None},
         undo' \in Seq(Snapshots), redo' \in Seq(Snapshots), HistoryFits', skip' \in BOOLEAN,
         DOMAIN scenes' \subseteq Names, scenes' \in [DOMAIN scenes' -> Content],
         preview' \in Imports \cup {None}, edits' \in 0 .. MaxEdits
  PROVE  SceneOrder'
<1>1. phase = "ui" /\ phase' = "finish" /\ UNCHANGED <<pending, pointer, before>>
  BY DEF InUi
<1>2. Snapshot' \in Snapshots
  BY DEF Snapshot, Snapshots
<1>3. TypeOK'
  BY <1>1, <1>2 DEF SceneOrder, SceneInv, TypeOK
<1> QED  BY <1>1, <1>3 DEF SceneOrder, SceneInv, GestureClosed, SnapshotOfFrame

LEMMA StoredTyped ==
  ASSUME DOMAIN scenes \subseteq Names, scenes \in [DOMAIN scenes -> Content],
         NEW name \in Names, NEW scene \in Content
  PROVE  /\ DOMAIN Stored(name, scene) \subseteq Names
         /\ Stored(name, scene) \in [DOMAIN Stored(name, scene) -> Content]
  BY DEF Stored

LEMMA SceneDocumentTyped ==
  ASSUME NEW c \in Content
  PROVE  SceneDocument(c) \in Content
<1> DEFINE t == [s \in Sources |-> IF s \in Range(c.sources) THEN c.transforms[s] ELSE NoTransform]
<1>1. t \in [Sources -> Transforms]
  BY ContentFields, SceneAssumption
<1>2. SceneDocument(c) = [c EXCEPT !.transforms = t]
  BY DEF SceneDocument, Content
<1> QED  BY <1>1, <1>2, WithTransforms

LEMMA CountedTyped ==
  ASSUME TypeOK, UNCHANGED edits \/ Counted
  PROVE  edits' \in 0 .. MaxEdits
  BY SceneAssumption DEF TypeOK, Counted

(* The scene starts without a history, and every step keeps the types, the *)
(* bound of the stacks, the end of a gesture and the frame's snapshot.     *)
LEMMA InitOrder == Init => SceneOrder
<1> SUFFICES ASSUME Init PROVE SceneOrder
  OBVIOUS
<1>1. Snapshot \in Snapshots
  BY ContentAssumption DEF Init, Snapshot, Snapshots
<1>2. undo \in Seq(Snapshots) /\ Len(undo) = 0 /\ redo \in Seq(Snapshots) /\ Len(redo) = 0
  BY EmptySeq DEF Init
<1>3. DOMAIN scenes = {} /\ scenes \in [DOMAIN scenes -> Content]
  BY DEF Init
<1>4. /\ preview = None /\ pending = None /\ before = None /\ edits = 0
      /\ skip = FALSE /\ pointer = FALSE /\ phase = "rest"
  BY DEF Init
<1>5. TypeOK
  <2>1. edits \in 0 .. MaxEdits
    BY <1>4, SceneAssumption
  <2> QED  BY <1>1, <1>2, <1>3, <1>4, <2>1 DEF TypeOK
<1>6. HistoryFits /\ GestureClosed /\ SnapshotOfFrame
  BY <1>2, <1>4, SceneAssumption DEF HistoryFits, GestureClosed, SnapshotOfFrame
<1> QED  BY <1>5, <1>6 DEF SceneOrder, SceneInv

LEMMA NewFrameOrder ==
  ASSUME SceneOrder, NEW down \in BOOLEAN, NEW discovered \in BOOLEAN, NewFrame(down, discovered)
  PROVE  SceneOrder'
<1>1. /\ phase = "rest" /\ phase' = "logic" /\ pointer' = down
      /\ UNCHANGED <<active, preview, undo, redo, pending, skip, before>> /\ UNCHANGED edits
  BY DEF NewFrame
<1>2. content' \in Content
  BY OrderFacts, RemappedIsContent DEF NewFrame
<1>3. DOMAIN scenes' \subseteq Names /\ scenes' \in [DOMAIN scenes' -> Content]
  <2>1. DOMAIN scenes \subseteq Names /\ scenes \in [DOMAIN scenes -> Content]
    BY DEF SceneOrder, SceneInv, TypeOK
  <2>2. CASE discovered
    <3>1. scenes' = [n \in DOMAIN scenes |-> Remapped(scenes[n])]
      BY <2>2 DEF NewFrame
    <3>2. \A n \in DOMAIN scenes : Remapped(scenes[n]) \in Content
      BY <2>1, RemappedIsContent
    <3> QED  BY <2>1, <3>1, <3>2
  <2>3. CASE ~discovered
    BY <2>1, <2>3 DEF NewFrame
  <2> QED  BY <2>2, <2>3
<1>4. TypeOK'
  <2>1. Snapshot' \in Snapshots
    BY <1>1, <1>2, OrderFacts DEF Snapshot, Snapshots
  <2> QED  BY <1>1, <1>3, <2>1 DEF SceneOrder, SceneInv, TypeOK
<1> QED  BY <1>1, <1>4 DEF SceneOrder, SceneInv, HistoryFits, GestureClosed, SnapshotOfFrame

LEMMA ShortcutOrder ==
  ASSUME SceneOrder, Shortcut
  PROVE  SceneOrder'
<1>1. TypeOK /\ skip \in BOOLEAN
  BY DEF SceneOrder, SceneInv, TypeOK
<1>2. CASE NoShortcut
  <2>1. UNCHANGED <<content, active, undo, redo, skip>> /\ UNCHANGED edits /\ ToUi
    BY <1>2 DEF NoShortcut
  <2>2. HistoryFits' /\ edits' \in 0 .. MaxEdits
    BY <1>1, <2>1, OrderFacts, CountedTyped DEF HistoryFits
  <2> QED  BY <1>1, <2>1, <2>2, OrderFacts, ToUiOrder
<1>3. CASE UndoShortcut
  <2>1. UndoSceneEdit /\ ToUi /\ edits' \in 0 .. MaxEdits
    BY <1>1, <1>3, CountedTyped DEF UndoShortcut
  <2>2. /\ undo' \in Seq(Snapshots) /\ redo' \in Seq(Snapshots) /\ HistoryFits'
        /\ content' \in Content /\ active' \in Names \cup {None} /\ skip' = TRUE
    BY <2>1, OrderFacts, UndoFits
  <2> QED  BY <2>1, <2>2, ToUiOrder
<1>4. CASE RedoShortcut
  <2>1. RedoSceneEdit /\ ToUi /\ edits' \in 0 .. MaxEdits
    BY <1>1, <1>4, CountedTyped DEF RedoShortcut
  <2>2. /\ undo' \in Seq(Snapshots) /\ redo' \in Seq(Snapshots) /\ HistoryFits'
        /\ content' \in Content /\ active' \in Names \cup {None} /\ skip' = TRUE
    BY <2>1, OrderFacts, RedoFits
  <2> QED  BY <2>1, <2>2, ToUiOrder
<1>5. CASE MoveShortcut
  <2>1. content' \in Moves(content) /\ Commit(Snapshot) /\ ToUi /\ edits' \in 0 .. MaxEdits
    BY <1>1, <1>5, CountedTyped DEF MoveShortcut
  <2>2. content' \in Content
    BY <2>1, OrderFacts, MovesAreContent
  <2>3. /\ undo' \in Seq(Snapshots) /\ redo' \in Seq(Snapshots) /\ HistoryFits'
        /\ active' \in Names \cup {None} /\ skip' = FALSE
    BY <2>1, OrderFacts, CommitFits
  <2> QED  BY <2>1, <2>2, <2>3, ToUiOrder
<1> QED  BY <1>2, <1>3, <1>4, <1>5 DEF Shortcut

LEMMA WidgetOrder ==
  ASSUME SceneOrder, Widget
  PROVE  SceneOrder'
<1>1. /\ TypeOK /\ skip \in BOOLEAN /\ preview \in Imports \cup {None}
      /\ DOMAIN scenes \subseteq Names /\ scenes \in [DOMAIN scenes -> Content]
  BY DEF SceneOrder, SceneInv, TypeOK
<1>2. CASE NoWidget
  <2>1. InUi /\ UNCHANGED <<content, active, scenes, preview, undo, redo, skip>> /\ UNCHANGED edits
    BY <1>2 DEF NoWidget
  <2>2. HistoryFits' /\ edits' \in 0 .. MaxEdits
    BY <1>1, <2>1, OrderFacts, CountedTyped DEF HistoryFits
  <2> QED  BY <1>1, <2>1, <2>2, OrderFacts, InUiOrder
<1>3. CASE EditWidget
  <2>1. /\ InUi /\ content' \in EditsOf(content) /\ Counted
        /\ UNCHANGED <<active, scenes, preview, undo, redo, skip>>
    BY <1>3 DEF EditWidget
  <2>2. HistoryFits' /\ edits' \in 0 .. MaxEdits /\ content' \in Content
    BY <1>1, <2>1, OrderFacts, CountedTyped, EditsAreContent DEF HistoryFits
  <2> QED  BY <1>1, <2>1, <2>2, OrderFacts, InUiOrder
<1>4. CASE UndoButton
  <2>1. InUi /\ UndoSceneEdit /\ UNCHANGED <<scenes, preview>> /\ edits' \in 0 .. MaxEdits
    BY <1>1, <1>4, CountedTyped DEF UndoButton
  <2>2. /\ undo' \in Seq(Snapshots) /\ redo' \in Seq(Snapshots) /\ HistoryFits'
        /\ content' \in Content /\ active' \in Names \cup {None} /\ skip' = TRUE
    BY <2>1, OrderFacts, UndoFits
  <2> QED  BY <1>1, <2>1, <2>2, InUiOrder
<1>5. CASE RedoButton
  <2>1. InUi /\ RedoSceneEdit /\ UNCHANGED <<scenes, preview>> /\ edits' \in 0 .. MaxEdits
    BY <1>1, <1>5, CountedTyped DEF RedoButton
  <2>2. /\ undo' \in Seq(Snapshots) /\ redo' \in Seq(Snapshots) /\ HistoryFits'
        /\ content' \in Content /\ active' \in Names \cup {None} /\ skip' = TRUE
    BY <2>1, OrderFacts, RedoFits
  <2> QED  BY <1>1, <2>1, <2>2, InUiOrder
<1>6. ASSUME NEW name \in Names, SaveCurrentScene(name)
      PROVE  SceneOrder'
  <2>1. /\ InUi /\ Counted /\ active' = name
        /\ scenes' = Stored(name, SceneDocument(content))
        /\ UNCHANGED <<content, preview, undo, redo, skip>>
    BY <1>6 DEF SaveCurrentScene
  <2>2. HistoryFits' /\ edits' \in 0 .. MaxEdits
    BY <1>1, <2>1, OrderFacts, CountedTyped DEF HistoryFits
  <2>3. DOMAIN scenes' \subseteq Names /\ scenes' \in [DOMAIN scenes' -> Content]
    BY <1>1, <2>1, OrderFacts, SceneDocumentTyped, StoredTyped
  <2> QED  BY <1>1, <2>1, <2>2, <2>3, OrderFacts, InUiOrder
<1>7. ASSUME NEW name \in Names, ApplyScene(name)
      PROVE  SceneOrder'
  <2>1. /\ InUi /\ Counted /\ name \in DOMAIN scenes /\ content' = scenes[name] /\ active' = name
        /\ UNCHANGED <<scenes, preview, undo, redo, skip>>
    BY <1>7 DEF ApplyScene
  <2>2. HistoryFits' /\ edits' \in 0 .. MaxEdits /\ content' \in Content
    BY <1>1, <2>1, OrderFacts, CountedTyped DEF HistoryFits
  <2> QED  BY <1>1, <2>1, <2>2, OrderFacts, InUiOrder
<1>8. CASE ValidateSceneImport
  <2>1. /\ InUi /\ Counted /\ preview' \in Imports \cup {None}
        /\ UNCHANGED <<content, active, scenes, undo, redo, skip>>
    BY <1>8 DEF ValidateSceneImport
  <2>2. HistoryFits' /\ edits' \in 0 .. MaxEdits
    BY <1>1, <2>1, OrderFacts, CountedTyped DEF HistoryFits
  <2> QED  BY <1>1, <2>1, <2>2, OrderFacts, InUiOrder
<1>9. CASE AcceptSceneImport
  <2>1. /\ InUi /\ preview # None /\ preview' = None
        /\ scenes' = Stored(preview.name, preview.content)
        /\ UNCHANGED <<content, active, undo, redo, skip>> /\ UNCHANGED edits
    BY <1>9 DEF AcceptSceneImport
  <2>2. HistoryFits' /\ edits' \in 0 .. MaxEdits
    BY <1>1, <2>1, OrderFacts, CountedTyped DEF HistoryFits
  <2>3. preview.name \in Names /\ preview.content \in Content
    BY <1>1, <2>1, ContentAssumption
  <2>4. DOMAIN scenes' \subseteq Names /\ scenes' \in [DOMAIN scenes' -> Content]
    BY <1>1, <2>1, <2>3, StoredTyped
  <2> QED  BY <1>1, <2>1, <2>2, <2>4, OrderFacts, InUiOrder
<1> QED  BY <1>2, <1>3, <1>4, <1>5, <1>6, <1>7, <1>8, <1>9 DEF Widget

(* The snapshot a frame or a drag is compared with. *)
LEMMA BaselineTyped ==
  ASSUME SceneOrder, phase = "finish"
  PROVE  before \in Snapshots /\ before # None /\ BaselineAfterPointer \in Snapshots
  BY DEF SceneOrder, SceneInv, TypeOK, SnapshotOfFrame, BaselineAfterPointer

LEMMA FinishOrder ==
  ASSUME SceneOrder, FinishSceneHistory
  PROVE  SceneOrder'
<1>1. /\ phase = "finish" /\ phase' = "rest" /\ before' = None
      /\ UNCHANGED <<content, scenes, preview, pointer>> /\ UNCHANGED edits
  BY DEF FinishSceneHistory
<1>2. /\ undo' \in Seq(Snapshots) /\ redo' \in Seq(Snapshots) /\ HistoryFits'
      /\ active' \in Names \cup {None} /\ skip' \in BOOLEAN
      /\ pending' \in Snapshots \cup {None}
      /\ ~pointer => pending' = None /\ ~skip'
  <2>1. CASE pointer
    <3>1. UNCHANGED <<active, undo, redo, skip>> /\ pending' \in {BaselineAfterPointer, pending}
      BY <2>1 DEF FinishSceneHistory
    <3>2. HistoryFits'
      BY <3>1, OrderFacts DEF HistoryFits
    <3>3. pending \in Snapshots \cup {None} /\ skip \in BOOLEAN
      BY DEF SceneOrder, SceneInv, TypeOK
    <3> QED  BY <1>1, <2>1, <3>1, <3>2, <3>3, OrderFacts, BaselineTyped
  <2>2. CASE ~pointer
    <3>1. Commit(BaselineAfterPointer) /\ pending' = None
      BY <2>2 DEF FinishSceneHistory
    <3> QED  BY <1>1, <3>1, OrderFacts, BaselineTyped, CommitFits
  <2> QED  BY <2>1, <2>2
<1>3. TypeOK'
  <2>1. Snapshot' \in Snapshots
    BY <1>1, <1>2, OrderFacts DEF Snapshot, Snapshots
  <2> QED  BY <1>1, <1>2, <2>1 DEF SceneOrder, SceneInv, TypeOK
<1> QED  BY <1>1, <1>2, <1>3 DEF SceneOrder, SceneInv, GestureClosed, SnapshotOfFrame

LEMMA StepOrder == SceneOrder /\ [Next]_vars => SceneOrder'
<1> SUFFICES ASSUME SceneOrder, [Next]_vars PROVE SceneOrder'
  OBVIOUS
<1>1. ASSUME NEW down \in BOOLEAN, NEW discovered \in BOOLEAN, NewFrame(down, discovered)
      PROVE  SceneOrder'
  BY <1>1, NewFrameOrder
<1>2. CASE Shortcut
  BY <1>2, ShortcutOrder
<1>3. CASE Widget
  BY <1>3, WidgetOrder
<1>4. CASE FinishSceneHistory
  BY <1>4, FinishOrder
<1>5. CASE UNCHANGED vars
  BY <1>5 DEF vars, SceneOrder, SceneInv, TypeOK, Snapshot, HistoryFits, GestureClosed, SnapshotOfFrame
<1> QED  BY <1>1, <1>2, <1>3, <1>4, <1>5 DEF Next

LEMMA OrderHolds == Spec => []SceneOrder
  BY InitOrder, StepOrder, PTL DEF Spec

(* SceneInv: every scene kept anywhere, in the two stacks, a drag's baseline *)
(* and the named scenes, has its sources once, an undo and a redo never lose *)
(* an entry to the limit, and nothing of a gesture outlives it               *)
(* (undo_scene_edit, redo_scene_edit, finish_scene_history).                 *)
THEOREM SceneInvHolds == Spec => []SceneInv
<1>1. SceneOrder => SceneInv
  BY DEF SceneOrder
<1> QED  BY <1>1, OrderHolds, PTL

----------------------------------------------------------------------------
(* The history is a line with a cursor *)

LEMMA TimelineIsLine ==
  Timeline = Line(undo, Shown, redo) /\ Timeline' = Line(undo', Shown', redo')
  BY DEF Timeline, Line, ContentsOf, Reverse

(* Nothing happens to the line when the stacks and the scene shown stay. *)
LEMMA LineStays ==
  ASSUME undo \in Seq(Snapshots), undo' = undo, redo' = redo, Shown' = Shown
  PROVE  SameTimeline
<1>1. Len(undo) \in Nat
  BY LenProperties
<1> QED  BY <1>1, TimelineIsLine DEF SameTimeline, Position

(* Before a drag the scene counts as shown. *)
LEMMA ShownIsContent ==
  ASSUME SceneOrder, phase \in {"rest", "logic", "ui"}, skip \/ pending = None
  PROVE  Shown = content
<1>1. before # None => before.content = content
  BY OrderFacts DEF SceneOrder, SnapshotOfFrame
<1> QED  BY <1>1 DEF Shown, SceneOrder, SceneInv, TypeOK

(* What an undo or a redo leaves is shown at once. *)
LEMMA ShownAfterStep == skip' = TRUE => Shown' = content'
  BY DEF Shown

LEMMA UndoMovesCursor ==
  ASSUME SceneOrder, UndoSceneEdit, phase \in {"logic", "ui"}
  PROVE  SameTimeline \/ InterruptedDrag
<1>1. /\ undo # << >> /\ undo' = Front(undo) /\ redo' = Append(redo, Snapshot)
      /\ Len(undo') = Len(undo) - 1 /\ Len(undo) \in Nat \ {0}
      /\ content' = Last(undo).content /\ skip' = TRUE
  BY OrderFacts, UndoFits
<1>2. CASE skip \/ pending = None
  <2>1. Timeline = Line(undo, Snapshot.content, redo)
    BY <1>2, TimelineIsLine, ShownIsContent, OrderFacts
  <2>2. Timeline' = Line(Front(undo), Last(undo).content, Append(redo, Snapshot))
    BY <1>1, TimelineIsLine, ShownAfterStep
  <2>3. Timeline' = Timeline
    BY <1>1, <2>1, <2>2, OrderFacts, StepBack
  <2> QED  BY <1>1, <2>3 DEF SameTimeline, Position
<1>3. CASE ~skip /\ pending # None
  BY <1>1, <1>3 DEF InterruptedDrag
<1> QED  BY <1>2, <1>3

LEMMA RedoMovesCursor ==
  ASSUME SceneOrder, RedoSceneEdit, phase \in {"logic", "ui"}
  PROVE  SameTimeline \/ InterruptedDrag
<1>1. /\ redo # << >> /\ redo' = Front(redo) /\ undo' = Append(undo, Snapshot)
      /\ Len(undo') = Len(undo) + 1 /\ Len(undo) \in Nat
      /\ content' = Last(redo).content /\ skip' = TRUE
  BY OrderFacts, RedoFits
<1>2. CASE skip \/ pending = None
  <2>1. Timeline = Line(undo, Snapshot.content, redo)
    BY <1>2, TimelineIsLine, ShownIsContent, OrderFacts
  <2>2. Timeline' = Line(Append(undo, Snapshot), Last(redo).content, Front(redo))
    BY <1>1, TimelineIsLine, ShownAfterStep
  <2>3. Timeline' = Timeline
    BY <1>1, <2>1, <2>2, OrderFacts, StepForward
  <2> QED  BY <1>1, <2>3 DEF SameTimeline, Position
<1>3. CASE ~skip /\ pending # None
  BY <1>1, <1>3 DEF InterruptedDrag
<1> QED  BY <1>2, <1>3

(* An entry that is pushed is the scene that was shown: the line grows by one, *)
(* at its end, after what followed the cursor is cut.                          *)
LEMMA EntryExtends ==
  ASSUME SceneOrder, NEW b \in Snapshots, undo' = Pushed(undo, b), redo' = << >>,
         Shown = b.content, Shown' \in Content
  PROVE  Extended
<1> DEFINE y == Shown'
           longer == SubSeq(Timeline, 1, Position) \o <<y>>
<1>1. /\ undo \in Seq(Snapshots) /\ redo \in Seq(Snapshots) /\ Len(undo) \in Nat
      /\ HistoryLimit \in Nat \ {0} /\ Len(undo) <= HistoryLimit
  BY OrderFacts, StacksFit
<1>2. Timeline = Line(undo, b.content, redo) /\ Timeline' = Line(undo', y, << >>)
  BY TimelineIsLine
<1>3. longer = Line(Append(undo, b), y, << >>)
  <2>1. Line(Append(undo, b), y, << >>) = SubSeq(Line(undo, b.content, redo), 1, Len(undo) + 1) \o <<y>>
    BY <1>1, CutAndExtended
  <2> QED  BY <1>2, <2>1 DEF Position
<1>4. Timeline' = IF Position > HistoryLimit THEN Tail(longer) ELSE longer
  <2>1. CASE Len(undo) = HistoryLimit
    <3>1. undo # << >> /\ undo' = Append(Tail(undo), b)
      BY <1>1, <2>1, PushedFits
    <3>2. Timeline' = Tail(Line(Append(undo, b), y, << >>))
      BY <1>1, <1>2, <3>1, OldestDropped
    <3>3. Position > HistoryLimit
      BY <1>1, <2>1 DEF Position
    <3> QED  BY <1>3, <3>2, <3>3
  <2>2. CASE Len(undo) < HistoryLimit
    <3>1. undo' = Append(undo, b)
      BY <1>1, <2>2, PushedFits
    <3>2. ~(Position > HistoryLimit)
      BY <1>1, <2>2 DEF Position
    <3> QED  BY <1>2, <1>3, <3>1, <3>2
  <2>3. Len(undo) = HistoryLimit \/ Len(undo) < HistoryLimit
    BY <1>1
  <2> QED  BY <2>1, <2>2, <2>3
<1>5. Position' = Len(Timeline')
  <2> DEFINE u == undo'
             e == << >>
  <2>1. u \in Seq(Snapshots) /\ e \in Seq(Snapshots) /\ Len(e) = 0
    BY <1>1, PushedFits, EmptySeq
  <2>2. Position' = Len(u) + 1 /\ Timeline' = Line(u, y, e)
    BY <1>2 DEF Position
  <2> HIDE DEF u, e, y
  <2>3. Len(Line(u, y, e)) = Len(u) + 1 + Len(e) /\ Len(u) \in Nat
    BY <2>1, LineElements DEF y
  <2> QED  BY <2>1, <2>2, <2>3
<1> QED  BY <1>4, <1>5 DEF Extended

LEMMA NewFrameLinear ==
  ASSUME SceneOrder, NEW down \in BOOLEAN, NEW discovered \in BOOLEAN, NewFrame(down, discovered)
  PROVE  SameTimeline \/ Rewritten \/ EditWithUndo
<1>1. /\ phase = "rest" /\ before = None
      /\ UNCHANGED <<undo, redo, pending, skip, before>>
      /\ content' = content \/ content' = Remapped(content)
  BY DEF NewFrame, SceneOrder, SnapshotOfFrame
<1>2. CASE skip
  <2>1. Shown = content /\ Shown' = content'
    BY <1>1, <1>2 DEF Shown
  <2> QED  BY <1>1, <1>2, <2>1, OrderFacts, LineStays DEF EditWithUndo
<1>3. CASE ~skip /\ pending # None
  <2>1. Shown' = Shown
    BY <1>1, <1>3 DEF Shown
  <2> QED  BY <1>1, <2>1, OrderFacts, LineStays
<1>4. CASE ~skip /\ pending = None
  <2>1. Shown = content /\ Shown' = content'
    BY <1>1, <1>4 DEF Shown
  <2>2. CASE content' = content
    BY <1>1, <2>1, <2>2, OrderFacts, LineStays
  <2>3. CASE content' = Remapped(content)
    <3>1. Timeline = Line(undo, content, redo) /\ Timeline' = Line(undo, Remapped(content), redo)
      BY <1>1, <2>1, <2>3, TimelineIsLine
    <3>2. Timeline' = [Timeline EXCEPT ![Position] = Remapped(content)]
      BY <3>1, OrderFacts, RemappedIsContent, ShownReplaced DEF Position
    <3>3. Timeline[Position] = content
      BY <3>1, OrderFacts, LineElements DEF Position
    <3>4. Timeline' = [Timeline EXCEPT ![Position] = Remapped(@)]
      BY <3>2, <3>3
    <3> QED  BY <1>1, <3>4 DEF Rewritten, Position
  <2> QED  BY <1>1, <2>2, <2>3
<1> QED  BY <1>2, <1>3, <1>4

(* Two sources that change places give another scene. *)
LEMMA MovesChange ==
  ASSUME NEW c \in Content, NEW d \in Moves(c)
  PROVE  d # c
<1> DEFINE q == c.sources
<1>1. /\ DOMAIN q = 1 .. Len(q) /\ Len(q) \in Nat
      /\ \A j, k \in 1 .. Len(q) : q[j] = q[k] => j = k
  BY ContentFields
<1>2. PICK i \in 1 .. Len(q) - 1 : d = [c EXCEPT !.sources = Moved(q, i, i + 1)]
  BY DEF Moves
<1>3. i \in 1 .. Len(q) /\ i + 1 \in 1 .. Len(q) /\ i # i + 1
  BY <1>1
<1>4. Moved(q, i, i + 1)[i] = q[i + 1]
  BY <1>1, <1>3 DEF Moved
<1>5. Moved(q, i, i + 1) # q
  BY <1>1, <1>3, <1>4
<1>6. d.sources = Moved(q, i, i + 1)
  BY <1>2 DEF Content
<1> QED  BY <1>5, <1>6

LEMMA ShortcutLinear ==
  ASSUME SceneOrder, Shortcut
  PROVE  SameTimeline \/ Extended \/ InterruptedDrag \/ EditWithUndo
<1>1. /\ phase = "logic" /\ before = None
      /\ UNCHANGED pending /\ before' # None /\ before'.content = content'
  <2>1. ToUi
    BY DEF Shortcut, NoShortcut, UndoShortcut, RedoShortcut, MoveShortcut
  <2>2. before' = [content |-> content', active |-> active'] /\ phase' = "ui"
    BY <2>1 DEF ToUi
  <2>3. before' # None
    BY <2>2, ShortcutOrder DEF SceneOrder, SnapshotOfFrame
  <2> QED  BY <2>1, <2>2, <2>3 DEF ToUi, SceneOrder, SnapshotOfFrame
<1>2. CASE NoShortcut
  <2>1. UNCHANGED <<content, undo, redo, skip>>
    BY <1>2 DEF NoShortcut
  <2>2. Shown' = Shown
    BY <1>1, <2>1 DEF Shown
  <2> QED  BY <2>1, <2>2, OrderFacts, LineStays
<1>3. CASE UndoShortcut
  BY <1>1, <1>3, UndoMovesCursor DEF UndoShortcut
<1>4. CASE RedoShortcut
  BY <1>1, <1>4, RedoMovesCursor DEF RedoShortcut
<1>5. CASE MoveShortcut
  <2>1. Commit(Snapshot) /\ content' # content /\ content' \in Content
    BY <1>5, OrderFacts, MovesChange, MovesAreContent DEF MoveShortcut
  <2>2. CASE skip
    BY <2>1, <2>2 DEF EditWithUndo
  <2>3. CASE ~skip
    <3>1. undo' = Pushed(undo, Snapshot) /\ redo' = << >> /\ skip' = FALSE
      BY <2>1, <2>3, OrderFacts DEF Commit
    <3>2. CASE pending = None
      <4>1. Shown = Snapshot.content
        BY <1>1, <3>2, ShownIsContent, OrderFacts
      <4>2. Shown' = content'
        BY <1>1, <3>1, <3>2 DEF Shown
      <4> QED  BY <2>1, <3>1, <4>1, <4>2, OrderFacts, EntryExtends
    <3>3. CASE pending # None /\ undo' # undo
      BY <1>1, <3>3 DEF InterruptedDrag
    <3>4. CASE pending # None /\ undo' = undo
      <4>1. Len(undo) = HistoryLimit
        <5>1. Len(undo) \in Nat /\ Len(undo) <= HistoryLimit /\ HistoryLimit \in Nat
          BY OrderFacts, StacksFit
        <5>2. Len(Append(undo, Snapshot)) = Len(undo) + 1
          BY OrderFacts, AppendProperties
        <5>3. Append(undo, Snapshot) # undo
          BY <5>1, <5>2
        <5>4. ~(Len(undo) < HistoryLimit)
          BY <3>1, <3>4, <5>1, <5>3, OrderFacts, PushedFits
        <5> QED  BY <5>1, <5>4
      <4>2. redo = << >>
        <5>1. Len(redo) = 0
          BY <4>1, OrderFacts, StacksFit DEF HistoryFits
        <5> QED  BY <5>1, OrderFacts, EmptySeq
      <4>3. Shown' = Shown
        BY <1>1, <2>3, <3>1, <3>4 DEF Shown
      <4> QED  BY <3>1, <3>4, <4>2, <4>3, OrderFacts, LineStays
    <3> QED  BY <3>2, <3>3, <3>4
  <2> QED  BY <2>2, <2>3
<1> QED  BY <1>2, <1>3, <1>4, <1>5 DEF Shortcut

LEMMA WidgetLinear ==
  ASSUME SceneOrder, Widget
  PROVE  SameTimeline \/ InterruptedDrag \/ EditWithUndo
<1>1. phase = "ui" /\ before # None /\ UNCHANGED <<pending, before>>
  <2>1. InUi
    BY DEF Widget, NoWidget, EditWidget, UndoButton, RedoButton, SaveCurrentScene, ApplyScene,
           ValidateSceneImport, AcceptSceneImport
  <2> QED  BY <2>1 DEF InUi, SceneOrder, SnapshotOfFrame
<1>2. CASE UNCHANGED <<undo, redo, skip>>
  <2>1. CASE skip /\ content' # content
    BY <2>1 DEF EditWithUndo
  <2>2. CASE ~skip \/ content' = content
    <3>1. Shown' = Shown
      BY <1>1, <1>2, <2>2 DEF Shown
    <3> QED  BY <1>2, <3>1, OrderFacts, LineStays
  <2> QED  BY <2>1, <2>2
<1>3. CASE UndoButton
  BY <1>1, <1>3, UndoMovesCursor DEF UndoButton
<1>4. CASE RedoButton
  BY <1>1, <1>4, RedoMovesCursor DEF RedoButton
<1> QED  BY <1>2, <1>3, <1>4 DEF Widget, NoWidget, EditWidget, SaveCurrentScene, ApplyScene,
                                 ValidateSceneImport, AcceptSceneImport

LEMMA FinishLinear ==
  ASSUME SceneOrder, FinishSceneHistory
  PROVE  SameTimeline \/ Extended
<1>1. /\ before \in Snapshots /\ before # None /\ before' = None /\ UNCHANGED content
      /\ BaselineAfterPointer \in Snapshots
  BY BaselineTyped DEF FinishSceneHistory
<1>2. CASE pointer
  <2>1. /\ UNCHANGED <<undo, redo, skip>>
        /\ pending' = IF before.content # content THEN BaselineAfterPointer ELSE pending
    BY <1>2 DEF FinishSceneHistory
  <2>2. Shown' = Shown
    BY <1>1, <2>1 DEF Shown, BaselineAfterPointer
  <2> QED  BY <2>1, <2>2, OrderFacts, LineStays
<1>3. CASE ~pointer
  <2> DEFINE b == BaselineAfterPointer
  <2>1. Commit(b) /\ pending' = None
    BY <1>3 DEF FinishSceneHistory
  <2>2. Shown' = content
    BY <1>1, <2>1 DEF Shown
  <2>3. ~skip => Shown = b.content
    BY <1>1 DEF Shown, BaselineAfterPointer
  <2>4. CASE skip \/ b.content = content
    <3>1. undo' = undo /\ redo' = redo
      BY <1>1, <2>1, <2>4 DEF Commit
    <3>2. Shown = content
      BY <2>3, <2>4 DEF Shown
    <3> QED  BY <2>2, <3>1, <3>2, OrderFacts, LineStays
  <2>5. CASE ~(skip \/ b.content = content)
    <3>1. undo' = Pushed(undo, b) /\ redo' = << >>
      BY <1>1, <2>1, <2>5 DEF Commit
    <3> QED  BY <1>1, <2>2, <2>3, <2>5, <3>1, OrderFacts, EntryExtends
  <2> QED  BY <2>4, <2>5
<1> QED  BY <1>2, <1>3

(* LinearHistory: whatever the order of shortcuts, widgets, the pointer and  *)
(* the camera discovery, an undo and a redo only move the cursor of the      *)
(* history, an edit or a drag adds one scene behind it and nothing else      *)
(* touches it, except in the two cases the property names (undo_scene_edit,  *)
(* redo_scene_edit, commit_scene_history, finish_scene_history).             *)
THEOREM LinearHistoryHolds == Spec => LinearHistory
<1>1. ASSUME SceneOrder, [Next]_vars
      PROVE  [SameTimeline \/ Extended \/ Rewritten \/ InterruptedDrag \/ EditWithUndo]_vars
  <2>1. ASSUME NEW down \in BOOLEAN, NEW discovered \in BOOLEAN, NewFrame(down, discovered)
        PROVE  SameTimeline \/ Rewritten \/ EditWithUndo
    BY <1>1, <2>1, NewFrameLinear
  <2>2. CASE Shortcut
    BY <1>1, <2>2, ShortcutLinear
  <2>3. CASE Widget
    BY <1>1, <2>3, WidgetLinear
  <2>4. CASE FinishSceneHistory
    BY <1>1, <2>4, FinishLinear
  <2> QED  BY <1>1, <2>1, <2>2, <2>3, <2>4 DEF Next
<1> QED  BY <1>1, OrderHolds, PTL DEF Spec, LinearHistory

----------------------------------------------------------------------------
(* Arithmetic *)

(* Division rounds down. *)
LEMMA QuotientBounds ==
  ASSUME NEW a \in Int, NEW d \in Nat \ {0}
  PROVE  a \div d \in Int /\ d * (a \div d) <= a /\ a < d * (a \div d) + d
OBVIOUS

(* Multiplying by a number that is not negative keeps the order. *)
LEMMA ProductMonotone ==
  ASSUME NEW a \in Int, NEW b \in Int, a <= b, NEW c \in Nat
  PROVE  a * c <= b * c /\ c * a <= c * b
OBVIOUS

(* Cancelling a positive factor of a comparison. *)
LEMMA ProductCancels ==
  ASSUME NEW a \in Int, NEW b \in Int, NEW d \in Nat \ {0}, d * a < d * b + d
  PROVE  a <= b
<1>1. SUFFICES ASSUME b + 1 <= a PROVE FALSE
  OBVIOUS
<1>2. d * (b + 1) <= d * a
  BY <1>1, ProductMonotone
<1>3. d * (b + 1) = d * b + d
  OBVIOUS
<1> QED
  BY <1>2, <1>3

(* A quotient lies where its dividend does, between multiples of the divisor. *)
LEMMA QuotientRange ==
  ASSUME NEW a \in Int, NEW d \in Nat \ {0}, NEW low \in Int, NEW high \in Int
  PROVE  /\ d * low <= a => low <= a \div d
         /\ a <= d * high => a \div d <= high
         /\ a < d * high => a \div d < high
<1>1. a \div d \in Int /\ d * (a \div d) <= a /\ a < d * (a \div d) + d
  BY QuotientBounds
<1>2. ASSUME d * low <= a PROVE low <= a \div d
  BY <1>1, <1>2, ProductCancels
<1>3. ASSUME a <= d * high PROVE a \div d <= high
  BY <1>1, <1>3, ProductCancels
<1>4. ASSUME a < d * high PROVE a \div d < high
  <2>1. d * (high - 1) + d = d * high
    OBVIOUS
  <2>2. a \div d <= high - 1
    BY <1>1, <1>4, <2>1, ProductCancels
  <2> QED
    BY <1>1, <2>2
<1> QED
  BY <1>2, <1>3, <1>4

(* A larger dividend has no smaller quotient. *)
LEMMA QuotientMonotone ==
  ASSUME NEW a \in Int, NEW b \in Int, a <= b, NEW d \in Nat \ {0}
  PROVE  a \div d <= b \div d
<1>1. a \div d \in Int /\ b \div d \in Int /\ d * (a \div d) <= a
  BY QuotientBounds
<1> QED
  BY <1>1, QuotientRange

(* A multiple is divided exactly. *)
LEMMA QuotientExact ==
  ASSUME NEW b \in Int, NEW d \in Nat \ {0}
  PROVE  (d * b) \div d = b /\ (b * d) \div d = b
<1>1. (d * b) \div d \in Int /\ d * b = b * d
  BY QuotientBounds
<1> QED
  BY <1>1, QuotientRange

(* Part of a whole. *)
LEMMA ShareOf ==
  ASSUME NEW n \in Nat, NEW d \in Nat \ {0}, NEW i \in 0 .. d
  PROVE  (n * i) \div d \in 0 .. n /\ (i * n) \div d \in 0 .. n
<1>1. 0 <= n * i /\ n * i <= d * n /\ n * i = i * n
  BY ProductMonotone
<1>2. (n * i) \div d \in Int
  BY QuotientBounds
<1> QED
  BY <1>1, <1>2, QuotientRange

(* A proper part of a whole that is not empty is less than the whole. *)
LEMMA ProperShareOf ==
  ASSUME NEW n \in Nat \ {0}, NEW d \in Nat \ {0}, NEW i \in 0 .. d - 1
  PROVE  (n * i) \div d \in 0 .. n - 1 /\ (i * n) \div d \in 0 .. n - 1
<1>1. n * i <= n * (d - 1)
  BY ProductMonotone
<1>2. 0 <= n * i /\ n * i < d * n /\ n * i = i * n
  BY <1>1
<1>3. (n * i) \div d \in Int
  BY QuotientBounds
<1> QED
  BY <1>2, <1>3, QuotientRange

(* What is clamped lies between the two limits. *)
LEMMA ClampedRange ==
  ASSUME NEW low \in Int, NEW high \in Int, low <= high, NEW n \in Int
  PROVE  Clamped(low, high, n) \in low .. high
BY DEF Clamped, AtLeast, AtMost

(* Induction up to a bound, for a set. *)
LEMMA UpTo ==
  ASSUME NEW N \in Nat, NEW T, 0 \in T, \A n \in 0 .. N - 1 : n \in T => n + 1 \in T
  PROVE  0 .. N \subseteq T
<1> DEFINE Less == {ss \in Nat \X Nat : ss[1] < ss[2]}
           Bad == {n \in 0 .. N : n \notin T}
<1>1. IsWellFoundedOn(Less, Nat)
  BY NatLessThanWellFounded, Zenon DEF OpToRel
<1>2. SUFFICES ASSUME Bad # {} PROVE FALSE
  OBVIOUS
<1>3. Bad \subseteq Nat
  OBVIOUS
<1>4. PICK x \in Bad : \A y \in Bad : <<y, x>> \notin Less
  BY <1>1, <1>2, <1>3, WFMin, Zenon
<1>5. x # 0 /\ x - 1 \in 0 .. N - 1
  OBVIOUS
<1>6. x - 1 \in Bad
  BY <1>5
<1>7. <<x - 1, x>> \in Less
  BY <1>5
<1> QED
  BY <1>4, <1>6, <1>7

(* f starts at base and takes each value from the one before. *)
Steps(f, base, step, N) == f[0] = base /\ \A n \in 1 .. N : f[n] = step[<<n, f[n - 1]>>]

(* A recursive function up to a bound exists and keeps to its range. *)
LEMMA Recursion ==
  ASSUME NEW N \in Nat, NEW V, NEW base \in V, NEW step \in [(1 .. N) \X V -> V]
  PROVE  \E f \in [0 .. N -> V] : Steps(f, base, step, N)
<1> DEFINE Is(f, m) == \A n \in 0 .. m : f[n] = IF n = 0 THEN base ELSE step[<<n, f[n - 1]>>]
           T == {m \in 0 .. N : \E f \in [0 .. m -> V] : Is(f, m)}
<1>1. 0 \in T
  <2> DEFINE f == [n \in 0 .. 0 |-> base]
  <2>1. f \in [0 .. 0 -> V] /\ Is(f, 0)
    OBVIOUS
  <2> HIDE DEF f
  <2>2. \E h \in [0 .. 0 -> V] : Is(h, 0)
    BY <2>1
  <2> QED
    BY <2>2
<1>2. ASSUME NEW m \in 0 .. N - 1, m \in T PROVE m + 1 \in T
  <2>1. PICK f \in [0 .. m -> V] : Is(f, m)
    BY <1>2
  <2> DEFINE g == [n \in 0 .. m + 1 |-> IF n <= m THEN f[n] ELSE step[<<m + 1, f[m]>>]]
  <2>2. <<m + 1, f[m]>> \in (1 .. N) \X V
    OBVIOUS
  <2>3. g \in [0 .. m + 1 -> V]
    BY <2>2
  <2>4. ASSUME NEW n \in 0 .. m + 1
        PROVE  g[n] = IF n = 0 THEN base ELSE step[<<n, g[n - 1]>>]
    <3>1. CASE n <= m
      <4>1. n \in 0 .. m /\ (n # 0 => n - 1 \in 0 .. m)
        BY <3>1
      <4>2. g[n] = f[n] /\ (n # 0 => g[n - 1] = f[n - 1])
        BY <4>1
      <4>3. f[n] = IF n = 0 THEN base ELSE step[<<n, f[n - 1]>>]
        BY <2>1, <4>1
      <4> QED
        BY <4>2, <4>3
    <3>2. CASE n = m + 1
      BY <2>1, <3>2
    <3> QED
      BY <3>1, <3>2
  <2> HIDE DEF g
  <2>5. Is(g, m + 1)
    BY <2>4
  <2> QED
    BY <2>3, <2>5
<1> HIDE DEF T
<1>3. N \in T
  BY <1>1, <1>2, UpTo
<1> QED
  <2>1. PICK f \in [0 .. N -> V] : Is(f, N)
    BY <1>3 DEF T
  <2>2. f[0] = base
    <3>1. 0 \in 0 .. N
      OBVIOUS
    <3> QED
      BY <2>1, <3>1
  <2>3. ASSUME NEW n \in 1 .. N PROVE f[n] = step[<<n, f[n - 1]>>]
    <3>1. n \in 0 .. N /\ n # 0
      OBVIOUS
    <3> QED
      BY <2>1, <3>1
  <2> QED
    BY <2>2, <2>3 DEF Steps

----------------------------------------------------------------------------
(* The preview *)

(* The other side of a preview: preview_dimensions rounds it down, but not to nothing. *)
LEMMA ScaledDown ==
  ASSUME NEW along \in Nat \ {0}, NEW length \in Nat \ {0}, NEW breadth \in Nat \ {0}
  PROVE  LET across == AtLeast(1, (breadth * along) \div length) IN
         across \in Nat \ {0} /\ IsScaled(along, across, length, breadth)
<1> DEFINE q == (breadth * along) \div length
<1>1. 0 <= breadth * along /\ breadth * along = along * breadth
  BY ProductMonotone
<1>2. q \in Int /\ length * q <= breadth * along /\ breadth * along < length * q + length
  BY QuotientBounds
<1>3. 0 <= q
  BY <1>1, <1>2, QuotientRange
<1> HIDE DEF q
<1>4. length * q = q * length /\ q * length + length = (q + 1) * length
  BY <1>2
<1>5. CASE q = 0
  BY <1>1, <1>2, <1>4, <1>5 DEF AtLeast, IsScaled
<1>6. CASE q # 0
  <2>1. AtLeast(1, q) = q
    BY <1>2, <1>3, <1>6 DEF AtLeast
  <2> QED
    BY <1>1, <1>2, <1>3, <1>4, <1>6, <2>1 DEF IsScaled
<1> QED
  BY <1>5, <1>6 DEF q

(* preview_dimensions keeps to the limits and, but for rounding, to the shape. *)
LEMMA PreviewShape ==
  ASSUME NEW w \in Nat \ {0}, NEW h \in Nat \ {0}, NEW limits \in (Nat \ {0}) \X (Nat \ {0})
  PROVE  LET shown == PreviewDimensions(w, h, limits) IN
         /\ shown[1] \in 1 .. limits[1] /\ shown[2] \in 1 .. limits[2]
         /\ IsScaled(shown[1], shown[2], w, h) \/ IsScaled(shown[2], shown[1], h, w)
<1> DEFINE a == limits[1]
           b == limits[2]
           shown == PreviewDimensions(w, h, limits)
<1>1. a \in Nat \ {0} /\ b \in Nat \ {0} /\ AtLeast(1, a) = a /\ AtLeast(1, b) = b
  BY DEF AtLeast
<1>2. CASE w <= a /\ h <= b
  <2>1. shown = <<w, h>>
    BY <1>1, <1>2 DEF PreviewDimensions
  <2>2. IsScaled(w, h, w, h)
    BY DEF IsScaled
  <2> QED
    BY <1>1, <1>2, <2>1, <2>2
<1>3. CASE ~(w <= a /\ h <= b) /\ a * h <= b * w
  <2> DEFINE q == (h * a) \div w
  <2>1. shown = <<a, AtLeast(1, q)>>
    BY <1>1, <1>3 DEF PreviewDimensions
  <2>2. q \in Int /\ q <= b
    <3>1. h * a <= w * b /\ h * a \in Int
      BY <1>1, <1>3
    <3> QED
      BY <1>1, <3>1, QuotientBounds, QuotientRange
  <2>3. AtLeast(1, q) \in Nat \ {0} /\ IsScaled(a, AtLeast(1, q), w, h)
    BY <1>1, ScaledDown
  <2>4. AtLeast(1, q) <= b
    BY <1>1, <2>2 DEF AtLeast
  <2> HIDE DEF q
  <2> QED
    BY <1>1, <2>1, <2>3, <2>4
<1>4. CASE ~(w <= a /\ h <= b) /\ ~(a * h <= b * w)
  <2> DEFINE q == (w * b) \div h
  <2>1. shown = <<AtLeast(1, q), b>>
    BY <1>1, <1>4 DEF PreviewDimensions
  <2>2. q \in Int /\ q <= a
    <3>1. w * b <= h * a /\ w * b \in Int
      BY <1>1, <1>4
    <3> QED
      BY <1>1, <3>1, QuotientBounds, QuotientRange
  <2>3. AtLeast(1, q) \in Nat \ {0} /\ IsScaled(b, AtLeast(1, q), h, w)
    BY <1>1, ScaledDown
  <2>4. AtLeast(1, q) <= a
    BY <1>1, <2>2 DEF AtLeast
  <2> HIDE DEF q
  <2> QED
    BY <1>1, <2>1, <2>3, <2>4
<1> QED
  BY <1>2, <1>3, <1>4

(* PreviewCoordinateMap stays inside the frame and begins at its first pixel. *)
LEMMA PreviewReads ==
  ASSUME NEW w \in Nat \ {0}, NEW h \in Nat \ {0}, NEW shown \in (Nat \ {0}) \X (Nat \ {0})
  PROVE  LET from == PreviewPixels(w, h, shown) IN
         /\ Range(from) \subseteq Pixels(Rect(0, 0, w, h))
         /\ from[<<0, 0>>] = <<0, 0>>
<1> DEFINE from == PreviewPixels(w, h, shown)
<1>1. shown[1] \in Nat \ {0} /\ shown[2] \in Nat \ {0}
  OBVIOUS
<1>2. Pixels(Rect(0, 0, w, h)) = (0 .. w - 1) \X (0 .. h - 1)
  BY DEF Pixels, Columns, Rows, Rect
<1>3. Pixels(Rect(0, 0, shown[1], shown[2])) = (0 .. shown[1] - 1) \X (0 .. shown[2] - 1)
  BY DEF Pixels, Columns, Rows, Rect
<1>4. /\ DOMAIN from = (0 .. shown[1] - 1) \X (0 .. shown[2] - 1)
      /\ \A i \in 0 .. shown[1] - 1, j \in 0 .. shown[2] - 1 :
           from[<<i, j>>] = <<(i * w) \div shown[1], (j * h) \div shown[2]>>
  BY <1>3 DEF PreviewPixels, PreviewOffsets
<1>5. ASSUME NEW p \in DOMAIN from PROVE from[p] \in (0 .. w - 1) \X (0 .. h - 1)
  <2>1. PICK i \in 0 .. shown[1] - 1, j \in 0 .. shown[2] - 1 : p = <<i, j>>
    BY <1>4
  <2>2. (i * w) \div shown[1] \in 0 .. w - 1
    BY <1>1, ProperShareOf
  <2>3. (j * h) \div shown[2] \in 0 .. h - 1
    BY <1>1, ProperShareOf
  <2> QED
    BY <1>4, <2>1, <2>2, <2>3
<1>6. from[<<0, 0>>] = <<0, 0>>
  <2>1. 0 \in 0 .. shown[1] - 1 /\ 0 \in 0 .. shown[2] - 1
    BY <1>1
  <2>2. (0 * w) \div shown[1] = 0 /\ (0 * h) \div shown[2] = 0
    BY <1>1, QuotientExact
  <2> QED
    BY <1>4, <2>1, <2>2
<1>7. Range(from) \subseteq (0 .. w - 1) \X (0 .. h - 1)
  <2> HIDE DEF from
  <2> QED
    BY <1>5 DEF Range
<1> QED
  BY <1>2, <1>6, <1>7

(* The preview lies inside its limits and the composition, for all sizes. *)
LEMMA PreviewHolds == PreviewIsWhole
<1> SUFFICES ASSUME NEW size \in Outputs, NEW limits \in PreviewLimits
             PROVE  LET shown == PreviewDimensions(size[1], size[2], limits)
                        from == PreviewPixels(size[1], size[2], shown)
                    IN  /\ shown[1] \in 1 .. limits[1] /\ shown[2] \in 1 .. limits[2]
                        /\ \/ IsScaled(shown[1], shown[2], size[1], size[2])
                           \/ IsScaled(shown[2], shown[1], size[2], size[1])
                        /\ Range(from) \subseteq Pixels(Rect(0, 0, size[1], size[2]))
                        /\ from[<<0, 0>>] = <<0, 0>>
  BY DEF PreviewIsWhole
<1> DEFINE shown == PreviewDimensions(size[1], size[2], limits)
<1>1. size[1] \in Nat \ {0} /\ size[2] \in Nat \ {0}
      /\ limits \in (Nat \ {0}) \X (Nat \ {0})
  BY GeometryAssumption
<1>2. limits[1] \in Nat /\ limits[2] \in Nat
  BY <1>1
<1>3. /\ shown[1] \in 1 .. limits[1] /\ shown[2] \in 1 .. limits[2]
      /\ \/ IsScaled(shown[1], shown[2], size[1], size[2])
         \/ IsScaled(shown[2], shown[1], size[2], size[1])
  BY <1>1, PreviewShape
<1>4. shown = <<shown[1], shown[2]>>
  BY DEF PreviewDimensions
<1>5. shown \in (Nat \ {0}) \X (Nat \ {0})
  BY <1>2, <1>3, <1>4
<1> HIDE DEF shown
<1> QED
  BY <1>1, <1>3, <1>5, PreviewReads DEF shown

----------------------------------------------------------------------------
(* Transforms and contracts *)

(* What min and a limit leave. *)
LEMMA AtMostRange ==
  ASSUME NEW ceiling \in Nat, NEW n \in Nat
  PROVE  /\ AtMost(ceiling, n) \in 0 .. ceiling
         /\ n <= ceiling => AtMost(ceiling, n) = n
BY DEF AtMost

(* Clamping what lies between the limits changes nothing. *)
LEMMA ClampedInside ==
  ASSUME NEW low \in Int, NEW high \in Int, NEW n \in low .. high
  PROVE  Clamped(low, high, n) = n
BY DEF Clamped, AtLeast, AtMost

(* What was sanitized validates, and sanitizing it again changes nothing. *)
LEMMA SanitizedIsValid ==
  ASSUME NEW t \in Entered
  PROVE  /\ Sanitized(t) \in Entered /\ TransformIsValid(Sanitized(t))
         /\ Sanitized(Sanitized(t)) = Sanitized(t)
<1> DEFINE u == Sanitized(t)
           most == PerMille - 1
<1>1. /\ u.left = AtMost(most, t.left) /\ u.right = AtMost(most - AtMost(most, t.left), t.right)
      /\ u.top = AtMost(most, t.top) /\ u.bottom = AtMost(most - AtMost(most, t.top), t.bottom)
      /\ u.opacity = AtMost(PerMille, t.opacity)
      /\ u.x = Clamped(-PerMille, PerMille, t.x) /\ u.y = Clamped(-PerMille, PerMille, t.y)
  BY DEF Sanitized, Entered
<1>0. PerMille \in Nat /\ most \in Nat
  BY DEF PerMille
<1>2. /\ u.left \in 0 .. most /\ u.right \in 0 .. most - u.left
      /\ u.top \in 0 .. most /\ u.bottom \in 0 .. most - u.top
      /\ u.opacity \in 0 .. PerMille
      /\ u.x \in -PerMille .. PerMille /\ u.y \in -PerMille .. PerMille
  <2> HIDE DEF u, most
  <2>1. /\ t.left \in Nat /\ t.right \in Nat /\ t.top \in Nat /\ t.bottom \in Nat
        /\ t.opacity \in Nat /\ t.x \in Int /\ t.y \in Int
    BY DEF Entered
  <2>2. u.left \in 0 .. most /\ u.top \in 0 .. most /\ u.opacity \in 0 .. PerMille
    BY <1>0, <1>1, <2>1, AtMostRange
  <2>3. most - u.left \in Nat /\ most - u.top \in Nat
    BY <1>0, <2>2
  <2>4. u.right \in 0 .. most - u.left /\ u.bottom \in 0 .. most - u.top
    <3>1. u.right = AtMost(most - u.left, t.right) /\ u.bottom = AtMost(most - u.top, t.bottom)
      BY <1>1
    <3> QED
      BY <2>1, <2>3, <3>1, AtMostRange
  <2>5. u.x \in -PerMille .. PerMille /\ u.y \in -PerMille .. PerMille
    <3>1. -PerMille \in Int /\ PerMille \in Int /\ -PerMille <= PerMille
      BY <1>0
    <3> QED
      BY <1>1, <2>1, <3>1, ClampedRange
  <2> QED
    BY <2>2, <2>4, <2>5
<1>3. u \in Entered
  <2>1. u = [t EXCEPT !.left = u.left, !.right = u.right, !.top = u.top, !.bottom = u.bottom,
                      !.opacity = u.opacity, !.x = u.x, !.y = u.y]
    BY <1>1 DEF Sanitized, Entered
  <2>2. /\ u.left \in Nat /\ u.right \in Nat /\ u.top \in Nat /\ u.bottom \in Nat
        /\ u.opacity \in Nat /\ u.x \in Int /\ u.y \in Int
    BY <1>0, <1>2
  <2> HIDE DEF u
  <2> QED
    BY <2>1, <2>2 DEF Entered
<1>4. TransformIsValid(u)
  <2> HIDE DEF u
  <2> QED
    BY <1>0, <1>2 DEF TransformIsValid
<1>5. Sanitized(u) = u
  <2> HIDE DEF u
  <2>1. AtMost(most, u.left) = u.left /\ AtMost(most - u.left, u.right) = u.right
        /\ AtMost(most, u.top) = u.top /\ AtMost(most - u.top, u.bottom) = u.bottom
        /\ AtMost(PerMille, u.opacity) = u.opacity
        /\ Clamped(-PerMille, PerMille, u.x) = u.x /\ Clamped(-PerMille, PerMille, u.y) = u.y
    <3>1. /\ most - u.left \in Nat /\ most - u.top \in Nat
          /\ -PerMille \in Int /\ PerMille \in Int
      BY <1>0, <1>2
    <3>0. /\ u.left \in Nat /\ u.left <= most /\ u.right \in Nat /\ u.right <= most - u.left
          /\ u.top \in Nat /\ u.top <= most /\ u.bottom \in Nat /\ u.bottom <= most - u.top
      BY <1>0, <1>2
    <3>2. AtMost(most, u.left) = u.left /\ AtMost(most, u.top) = u.top
      BY <1>0, <3>0, AtMostRange
    <3>3. AtMost(most - u.left, u.right) = u.right /\ AtMost(most - u.top, u.bottom) = u.bottom
      BY <3>0, <3>1, AtMostRange
    <3>4. AtMost(PerMille, u.opacity) = u.opacity
      BY <1>0, <1>2, AtMostRange
    <3>5. Clamped(-PerMille, PerMille, u.x) = u.x /\ Clamped(-PerMille, PerMille, u.y) = u.y
      BY <1>2, <3>1, ClampedInside
    <3> QED
      BY <3>2, <3>3, <3>4, <3>5
  <2> QED
    BY <1>3, <2>1 DEF Sanitized, Entered
<1> QED
  BY <1>3, <1>4, <1>5 DEF u

(* A rectangle and its parts. *)
LEMMA RectFields ==
  ASSUME NEW x, NEW y, NEW w, NEW h
  PROVE  /\ Rect(x, y, w, h).x = x /\ Rect(x, y, w, h).y = y
         /\ Rect(x, y, w, h).width = w /\ Rect(x, y, w, h).height = h
BY DEF Rect


(* The pixels of a rectangle inside another one. *)
LEMMA PixelsInside ==
  ASSUME NEW r \in Rectangles, NEW s \in Rectangles,
         s.x <= r.x, r.x + r.width <= s.x + s.width,
         s.y <= r.y, r.y + r.height <= s.y + s.height
  PROVE  Pixels(r) \subseteq Pixels(s)
BY DEF Rectangles, Pixels, Columns, Rows

(* The fields of a frame that was made. *)
LEMMA FrameFields ==
  ASSUME NEW frame, IsFrame(frame)
  PROVE  LET a == frame.contract.aperture
             square == frame.contract.square
         IN  /\ frame.width \in Nat \ {0} /\ frame.height \in Nat \ {0}
             /\ a \in Rectangles
             /\ a.x \in Nat /\ a.y \in Nat /\ a.width \in Nat \ {0} /\ a.height \in Nat \ {0}
             /\ a.x + a.width <= frame.width /\ a.y + a.height <= frame.height
             /\ square[1] \in Nat \ {0} /\ square[2] \in Nat \ {0}
             /\ frame.contract.rotation \in 0 .. 3
             /\ frame.contract.mirrorH \in BOOLEAN /\ frame.contract.mirrorV \in BOOLEAN
BY DEF IsFrame, ContractIsValid, ApertureIsValid, IsEmpty, Rectangles

(* What a crop takes off a side leaves something of it. *)
LEMMA CropLeaves ==
  ASSUME NEW n \in Nat \ {0}, NEW a \in Nat, NEW b \in Nat, a + b < PerMille
  PROVE  LET l == (n * a) \div PerMille
             r == (n * b) \div PerMille
         IN  l \in Nat /\ r \in Nat /\ n - l - r \in Nat \ {0}
<1> DEFINE l == (n * a) \div PerMille
           r == (n * b) \div PerMille
<1>1. PerMille \in Nat \ {0} /\ a \in 0 .. PerMille /\ b \in 0 .. PerMille
  BY DEF PerMille
<1>2. l \in 0 .. n /\ r \in 0 .. n
  BY <1>1, ShareOf
<1>3. PerMille * l <= n * a /\ PerMille * r <= n * b
  BY <1>1, QuotientBounds
<1>4. n * a + n * b = n * (a + b) /\ n * (a + b) < n * PerMille
  BY <1>1
<1> HIDE DEF l, r
<1>5. PerMille * (l + r) < PerMille * n
  BY <1>1, <1>2, <1>3, <1>4
<1>6. l + r < n
  <2>1. SUFFICES ASSUME n <= l + r PROVE FALSE
    BY <1>2
  <2>2. PerMille * n <= PerMille * (l + r)
    BY <1>1, <1>2, <2>1, ProductMonotone
  <2> QED
    BY <1>1, <1>2, <1>5, <2>2
<1> QED
  BY <1>2, <1>6 DEF l, r

(* A transform that validates leaves every frame an aperture inside its own. *)
LEMMA CroppedAperture ==
  ASSUME NEW frame, IsFrame(frame), NEW t \in Entered, TransformIsValid(t)
  PROVE  LET c == ApplyToContract(t, frame.contract)
             a == c.aperture
             base == frame.contract.aperture
         IN  /\ a \in Rectangles
             /\ a.x \in Nat /\ a.y \in Nat /\ a.width \in Nat \ {0} /\ a.height \in Nat \ {0}
             /\ base.x <= a.x /\ a.x + a.width <= base.x + base.width
             /\ base.y <= a.y /\ a.y + a.height <= base.y + base.height
             /\ c.square = frame.contract.square /\ c.colorimetry = frame.contract.colorimetry
             /\ c.rotation \in 0 .. 3 /\ c.mirrorH \in BOOLEAN /\ c.mirrorV \in BOOLEAN
<1> DEFINE c == ApplyToContract(t, frame.contract)
           base == frame.contract.aperture
           left == (base.width * t.left) \div PerMille
           top == (base.height * t.top) \div PerMille
           right == (base.width * t.right) \div PerMille
           bottom == (base.height * t.bottom) \div PerMille
<1>1. /\ base.x \in Nat /\ base.y \in Nat
      /\ base.width \in Nat \ {0} /\ base.height \in Nat \ {0}
  BY FrameFields
<1>2. /\ t.left \in Nat /\ t.right \in Nat /\ t.top \in Nat /\ t.bottom \in Nat
      /\ t.rotation \in 0 .. 3
      /\ t.left + t.right < PerMille /\ t.top + t.bottom < PerMille
  BY DEF Entered, TransformIsValid
<1>3. left \in Nat /\ right \in Nat /\ base.width - left - right \in Nat \ {0}
  BY <1>1, <1>2, CropLeaves
<1>4. top \in Nat /\ bottom \in Nat /\ base.height - top - bottom \in Nat \ {0}
  BY <1>1, <1>2, CropLeaves
<1>5. /\ c.aperture = Rect(base.x + left, base.y + top,
                           base.width - left - right, base.height - top - bottom)
      /\ c.square = frame.contract.square /\ c.colorimetry = frame.contract.colorimetry
      /\ c.rotation = (frame.contract.rotation + t.rotation) % 4
      /\ c.mirrorH \in BOOLEAN /\ c.mirrorV \in BOOLEAN
  BY DEF ApplyToContract, IsFrame
<1>6. c.rotation \in 0 .. 3
  BY <1>2, <1>5, FrameFields
<1> HIDE DEF c, base, left, right, top, bottom
<1>7. /\ c.aperture.x = base.x + left /\ c.aperture.width = base.width - left - right
      /\ c.aperture.y = base.y + top /\ c.aperture.height = base.height - top - bottom
  BY <1>5, RectFields
<1>8. c.aperture \in Rectangles
  BY <1>1, <1>3, <1>4, <1>5 DEF Rect, Rectangles
<1> QED
  BY <1>1, <1>3, <1>4, <1>5, <1>6, <1>7, <1>8 DEF c, base

(* A valid transform of a frame that was made passes every validation of compose_with. *)
LEMMA CropIsAccepted ==
  ASSUME NEW frame, IsFrame(frame), NEW t \in Entered, TransformIsValid(t)
  PROVE  Accepts(frame, t)
<1> DEFINE c == ApplyToContract(t, frame.contract)
           a == c.aperture
           base == frame.contract.aperture
<1>1. /\ a.x \in Nat /\ a.y \in Nat /\ a.width \in Nat \ {0} /\ a.height \in Nat \ {0}
      /\ a.x + a.width <= base.x + base.width /\ a.y + a.height <= base.y + base.height
      /\ c.square = frame.contract.square
  BY CroppedAperture
<1>2. /\ base.x + base.width <= frame.width /\ base.y + base.height <= frame.height
      /\ base.x \in Nat /\ base.y \in Nat /\ base.width \in Nat /\ base.height \in Nat
      /\ frame.width \in Nat /\ frame.height \in Nat
      /\ frame.contract.square[1] # 0 /\ frame.contract.square[2] # 0
  BY FrameFields
<1> HIDE DEF c
<1>3. ApertureIsValid(a, frame.width, frame.height)
  BY <1>1, <1>2 DEF ApertureIsValid, IsEmpty
<1>4. ContractIsValid(c, frame)
  BY <1>1, <1>2, <1>3 DEF ContractIsValid
<1> QED
  BY <1>4 DEF Accepts, IsFrame, c

----------------------------------------------------------------------------
(* Sampling *)

(* saturating_sub, below and above nothing. *)
LEMMA MinusNat ==
  ASSUME NEW a \in Nat, NEW b \in Nat
  PROVE  Minus(a, b) \in Nat /\ (b <= a => Minus(a, b) = a - b) /\ (a <= b => Minus(a, b) = 0)
BY DEF Minus, AtLeast

(* max(1). *)
LEMMA AtLeastOne ==
  ASSUME NEW n \in Int
  PROVE  AtLeast(1, n) \in Nat \ {0} /\ (1 <= n => AtLeast(1, n) = n)
BY DEF AtLeast

(* A nearest coordinate is one of the source. *)
LEMMA NearestWithin ==
  ASSUME NEW size \in Nat \ {0}, NEW d \in Nat, NEW dest \in Nat
  PROVE  NearestSourceCoordinate(d, size, dest) \in 0 .. size - 1
<1> DEFINE q == (d * size) \div AtLeast(1, dest)
<1>1. 0 <= d * size /\ d * size \in Int
  BY ProductMonotone
<1>2. q \in Int /\ 0 <= q
  <2>1. AtLeast(1, dest) \in Nat \ {0}
    BY AtLeastOne
  <2>2. AtLeast(1, dest) * 0 = 0
    BY <2>1
  <2> QED
    BY <1>1, <2>1, <2>2, QuotientBounds, QuotientRange
<1>3. Minus(size, 1) = size - 1
  BY MinusNat
<1> HIDE DEF q
<1>4. AtMost(size - 1, q) \in 0 .. size - 1
  BY <1>2, AtMostRange
<1> QED
  BY <1>3, <1>4 DEF NearestSourceCoordinate, q

(* Both neighbours of a bilinear sample are coordinates of the source. *)
LEMMA LinearWithin ==
  ASSUME NEW size \in Nat \ {0}, NEW d \in Nat, NEW dest \in Nat \ {0}
  PROVE  LinearSample(d, size, dest) \subseteq 0 .. size - 1
<1> DEFINE q == ((2 * d + 1) * size - dest) \div (2 * dest)
           low == Clamped(0, size - 1, q)
<1>1. q \in Int
  BY QuotientBounds
<1> HIDE DEF q
<1>2. low \in 0 .. size - 1
  BY <1>1, ClampedRange
<1> HIDE DEF low
<1>3. AtMost(size - 1, low + 1) \in 0 .. size - 1
  BY <1>2, AtMostRange
<1> QED
  BY <1>2, <1>3 DEF LinearSample, low, q

(* SamplingCache::get maps every coordinate of the destination into the source. *)
LEMMA SamplingWithin ==
  ASSUME NEW filter, NEW size \in Nat \ {0}, NEW dest \in Nat \ {0}
  PROVE  LET map == SamplingMap(filter, size, dest) IN
         /\ DOMAIN map = 0 .. dest - 1
         /\ \A d \in 0 .. dest - 1 : map[d] \subseteq 0 .. size - 1
BY NearestWithin, LinearWithin DEF SamplingMap

(* A map shifted to the visible part stays inside what is displayed. *)
LEMMA ShiftedWithin ==
  ASSUME NEW filter, NEW size \in Nat \ {0}, NEW dest \in Nat \ {0}, NEW start \in Nat,
         NEW shown \in Nat, start + size <= shown
  PROVE  LET map == ShiftedMap(filter, start, size, dest) IN
         /\ DOMAIN map = 0 .. dest - 1
         /\ \A d \in 0 .. dest - 1 : map[d] \subseteq 0 .. shown - 1
<1> DEFINE sampled == SamplingMap(filter, size, dest)
           map == ShiftedMap(filter, start, size, dest)
<1>1. \A d \in 0 .. dest - 1 : sampled[d] \subseteq 0 .. size - 1
  BY SamplingWithin
<1> HIDE DEF sampled
<1>2. \A i \in 0 .. size - 1 : start + i \in 0 .. shown - 1
  OBVIOUS
<1>3. DOMAIN map = 0 .. dest - 1
      /\ \A d \in 0 .. dest - 1 : map[d] = {start + i : i \in sampled[d]}
  BY DEF ShiftedMap, sampled
<1> QED
  BY <1>1, <1>2, <1>3

(* A mirrored coordinate is one of the same side. *)
LEMMA MirroredWithin ==
  ASSUME NEW size \in Nat \ {0}, NEW c \in 0 .. size - 1, NEW mirror
  PROVE  MirroredCoordinate(c, size, mirror) \in 0 .. size - 1
<1>1. Minus(size, 1) = size - 1
  BY MinusNat
<1>2. Minus(size - 1, c) = size - 1 - c
  BY MinusNat
<1> QED
  BY <1>1, <1>2 DEF MirroredCoordinate

(* SamplingCache::get_transformed stays inside what is displayed. *)
LEMMA TransformedWithin ==
  ASSUME NEW filter, NEW size \in Nat \ {0}, NEW dest \in Nat \ {0}, NEW start \in Nat,
         NEW shown \in Nat \ {0}, start + size <= shown, NEW mirror
  PROVE  LET map == TransformedSamplingMap(filter, start, size, dest, shown, mirror) IN
         /\ DOMAIN map = 0 .. dest - 1
         /\ \A d \in 0 .. dest - 1 : map[d] \subseteq 0 .. shown - 1
<1> DEFINE shifted == ShiftedMap(filter, start, size, dest)
           Within(c) == IF filter = "Nearest" THEN AtMost(Minus(shown, 1), c) ELSE c
           map == TransformedSamplingMap(filter, start, size, dest, shown, mirror)
<1>1. /\ DOMAIN shifted = 0 .. dest - 1
      /\ \A d \in 0 .. dest - 1 : shifted[d] \subseteq 0 .. shown - 1
  BY ShiftedWithin
<1>2. ASSUME NEW c \in 0 .. shown - 1
      PROVE  MirroredCoordinate(Within(c), shown, mirror) \in 0 .. shown - 1
  <2>1. Minus(shown, 1) = shown - 1
    BY MinusNat
  <2>2. AtMost(shown - 1, c) \in 0 .. shown - 1
    BY AtMostRange
  <2>3. Within(c) \in 0 .. shown - 1
    BY <2>1, <2>2
  <2> QED
    BY <2>3, MirroredWithin
<1>3. DOMAIN map = DOMAIN shifted
      /\ \A d \in DOMAIN shifted :
           map[d] = {MirroredCoordinate(Within(s), shown, mirror) : s \in shifted[d]}
  BY DEF TransformedSamplingMap
<1> HIDE DEF shifted, Within, map
<1>4. ASSUME NEW d \in 0 .. dest - 1 PROVE map[d] \subseteq 0 .. shown - 1
  BY <1>1, <1>2, <1>3
<1> QED
  BY <1>1, <1>3, <1>4 DEF map

----------------------------------------------------------------------------
(* Displayed frames and their place in a cell *)

(* The contracts that the pastes get: a valid aperture, with the crop applied. *)
Pasteable(c) ==
  /\ c.aperture.x \in Nat /\ c.aperture.y \in Nat
  /\ c.aperture.width \in Nat \ {0} /\ c.aperture.height \in Nat \ {0}
  /\ c.square[1] \in Nat \ {0} /\ c.square[2] \in Nat \ {0}
  /\ c.rotation \in 0 .. 3

(* The contract a valid crop leaves of a frame can be pasted. *)
LEMMA CroppedIsPasteable ==
  ASSUME NEW frame, IsFrame(frame), NEW t \in Entered, TransformIsValid(t)
  PROVE  Pasteable(ApplyToContract(t, frame.contract))
BY CroppedAperture, FrameFields DEF Pasteable

(* No displayed side is empty; square pixels are displayed as they are. *)
LEMMA DisplayFacts ==
  ASSUME NEW c, Pasteable(c)
  PROVE  LET shown == DisplayDimensions(c) IN
         /\ shown[1] \in Nat \ {0} /\ shown[2] \in Nat \ {0}
         /\ c.square = <<1, 1>> =>
              shown = IF SwapsAxes(c) THEN <<c.aperture.height, c.aperture.width>>
                                      ELSE <<c.aperture.width, c.aperture.height>>
<1> DEFINE n == c.aperture.width * c.square[1] + c.square[2] \div 2
           wide == AtLeast(1, n \div c.square[2])
<1>1. n \in Int /\ n \div c.square[2] \in Int
  <2>1. c.square[2] \div 2 \in Int /\ c.aperture.width * c.square[1] \in Int
    BY QuotientBounds DEF Pasteable
  <2>2. n \in Int /\ c.square[2] \in Nat \ {0}
    BY <2>1 DEF Pasteable
  <2> HIDE DEF n
  <2> QED
    BY <2>2, QuotientBounds
<1>2. wide \in Nat \ {0}
  BY <1>1, AtLeastOne
<1>3. ASSUME c.square = <<1, 1>> PROVE wide = c.aperture.width
  <2>1. 1 \div 2 = 0 /\ c.square[1] = 1 /\ c.square[2] = 1
    BY <1>3
  <2>2. n = 1 * c.aperture.width
    BY <2>1 DEF Pasteable
  <2>3. n \div c.square[2] = c.aperture.width
    BY <2>1, <2>2, QuotientExact DEF Pasteable
  <2> QED
    BY <2>3, AtLeastOne DEF Pasteable
<1>4. DisplayDimensions(c) = IF SwapsAxes(c) THEN <<c.aperture.height, wide>>
                                             ELSE <<wide, c.aperture.height>>
  BY DEF DisplayDimensions
<1> HIDE DEF wide
<1> QED
  BY <1>2, <1>3, <1>4 DEF Pasteable

(* A position moves the picture within the space that is left. *)
LEMMA OffsetWithin ==
  ASSUME NEW space \in Nat, NEW position \in Int
  PROVE  PositionedOffset(space, position) \in 0 .. space
<1>1. PerMille \in Nat \ {0}
  BY DEF PerMille
<1>2. Clamped(-PerMille, PerMille, position) \in -PerMille .. PerMille
  BY <1>1, ClampedRange
<1>3. Clamped(-PerMille, PerMille, position) + PerMille \in 0 .. 2 * PerMille
  BY <1>1, <1>2
<1>4. 2 * PerMille \in Nat \ {0}
  BY <1>1
<1> QED
  BY <1>3, <1>4, ShareOf DEF PositionedOffset

(* An aspect fit has pixels and fits the cell. *)
LEMMA FitWithin ==
  ASSUME NEW wide \in Nat \ {0}, NEW high \in Nat \ {0}, NEW cell \in Rectangles, ~IsEmpty(cell)
  PROVE  LET size == FitSize(wide, high, cell) IN
         /\ size = <<size[1], size[2]>>
         /\ size[1] \in 1 .. cell.width /\ size[2] \in 1 .. cell.height
<1>1. cell.width \in Nat \ {0} /\ cell.height \in Nat \ {0}
  BY DEF Rectangles, IsEmpty
<1>2. /\ Rounded(wide * cell.width, wide) \in Int /\ Rounded(wide * cell.height, high) \in Int
      /\ Rounded(high * cell.width, wide) \in Int /\ Rounded(high * cell.height, high) \in Int
  <2>1. ASSUME NEW n \in Nat, NEW d \in Nat \ {0} PROVE Rounded(n, d) \in Int
    <3>1. 2 * n + d \in Int /\ 2 * d \in Nat \ {0}
      OBVIOUS
    <3> QED
      BY <3>1, QuotientBounds DEF Rounded
  <2>2. /\ wide * cell.width \in Nat /\ wide * cell.height \in Nat
        /\ high * cell.width \in Nat /\ high * cell.height \in Nat
    BY <1>1
  <2> QED
    BY <2>1, <2>2
<1>3. \A limit \in Nat \ {0}, n \in Int : Clamped(1, limit, n) \in 1 .. limit
  BY ClampedRange
<1> QED
  BY <1>1, <1>2, <1>3 DEF FitSize

(* What is written lies in the cell, what is read in the displayed frame. *)
LEMMA PlacementFacts ==
  ASSUME NEW c, Pasteable(c), NEW cell \in Rectangles, ~IsEmpty(cell), NEW t \in Entered
  PROVE  LET shown == DisplayDimensions(c)
             dest == Placement(c, cell, t).dest
             source == Placement(c, cell, t).source
         IN  /\ dest \in Rectangles /\ dest.width \in Nat \ {0} /\ dest.height \in Nat \ {0}
             /\ cell.x <= dest.x /\ dest.x + dest.width <= cell.x + cell.width
             /\ cell.y <= dest.y /\ dest.y + dest.height <= cell.y + cell.height
             /\ source.x \in Nat /\ source.width \in Nat \ {0}
             /\ source.x + source.width <= shown[1]
             /\ source.y \in Nat /\ source.height \in Nat \ {0}
             /\ source.y + source.height <= shown[2]
<1> DEFINE shown == DisplayDimensions(c)
           place == Placement(c, cell, t)
           size == FitSize(shown[1], shown[2], cell)
           wider == shown[1] * cell.height > shown[2] * cell.width
           seenW == IF wider THEN Clamped(1, shown[1], (shown[2] * cell.width) \div cell.height)
                             ELSE shown[1]
           seenH == IF wider THEN shown[2]
                             ELSE Clamped(1, shown[2], (shown[1] * cell.height) \div cell.width)
<1>1. /\ cell.x \in Nat /\ cell.y \in Nat
      /\ cell.width \in Nat \ {0} /\ cell.height \in Nat \ {0}
      /\ t.x \in Int /\ t.y \in Int
  BY DEF Rectangles, IsEmpty, Entered
<1>2. shown[1] \in Nat \ {0} /\ shown[2] \in Nat \ {0}
  BY DisplayFacts
<1> HIDE DEF shown
<1>3. size[1] \in 1 .. cell.width /\ size[2] \in 1 .. cell.height
  BY <1>2, FitWithin
<1>4. /\ (shown[2] * cell.width) \div cell.height \in Int
      /\ (shown[1] * cell.height) \div cell.width \in Int
  BY <1>1, <1>2, QuotientBounds
<1>5. seenW \in 1 .. shown[1] /\ seenH \in 1 .. shown[2]
  <2>1. /\ Clamped(1, shown[1], (shown[2] * cell.width) \div cell.height) \in 1 .. shown[1]
        /\ Clamped(1, shown[2], (shown[1] * cell.height) \div cell.width) \in 1 .. shown[2]
    <3>1. \A limit \in Nat \ {0}, n \in Int : Clamped(1, limit, n) \in 1 .. limit
      BY ClampedRange
    <3> QED
      BY <1>2, <1>4, <3>1
  <2> QED
    BY <1>2, <2>1
<1>6. place = IF t.fit = "Fit"
              THEN [dest |-> Rect(cell.x + PositionedOffset(cell.width - size[1], t.x),
                                  cell.y + PositionedOffset(cell.height - size[2], t.y),
                                  size[1], size[2]),
                    source |-> Rect(0, 0, shown[1], shown[2])]
              ELSE [dest |-> cell,
                    source |-> Rect(PositionedOffset(shown[1] - seenW, t.x),
                                    PositionedOffset(shown[2] - seenH, t.y), seenW, seenH)]
  BY DEF Placement, shown
<1> HIDE DEF place, size, seenW, seenH
<1>7. CASE t.fit = "Fit"
  <2> DEFINE dx == PositionedOffset(cell.width - size[1], t.x)
             dy == PositionedOffset(cell.height - size[2], t.y)
  <2>1. cell.width - size[1] \in Nat /\ cell.height - size[2] \in Nat
    BY <1>1, <1>3
  <2>2. dx \in 0 .. cell.width - size[1] /\ dy \in 0 .. cell.height - size[2]
    BY <1>1, <2>1, OffsetWithin
  <2> HIDE DEF dx, dy
  <2>3. /\ place.dest = Rect(cell.x + dx, cell.y + dy, size[1], size[2])
        /\ place.source = Rect(0, 0, shown[1], shown[2])
    BY <1>6, <1>7 DEF dx, dy
  <2> QED
    BY <1>1, <1>2, <1>3, <2>1, <2>2, <2>3 DEF Rect, Rectangles, place, shown
<1>8. CASE t.fit # "Fit"
  <2> DEFINE dx == PositionedOffset(shown[1] - seenW, t.x)
             dy == PositionedOffset(shown[2] - seenH, t.y)
  <2>1. shown[1] - seenW \in Nat /\ shown[2] - seenH \in Nat
    BY <1>2, <1>5
  <2>2. dx \in 0 .. shown[1] - seenW /\ dy \in 0 .. shown[2] - seenH
    BY <1>1, <2>1, OffsetWithin
  <2> HIDE DEF dx, dy
  <2>3. place.dest = cell /\ place.source = Rect(dx, dy, seenW, seenH)
    BY <1>6, <1>8 DEF dx, dy
  <2> QED
    BY <1>1, <1>2, <1>5, <2>1, <2>2, <2>3 DEF Rect, Rectangles, place, shown
<1> QED
  BY <1>7, <1>8

----------------------------------------------------------------------------
(* What a paste reads *)

(* A displayed aperture, before its rotation is undone. *)
RotatedSize(c) == IF SwapsAxes(c) THEN <<c.aperture.height, c.aperture.width>>
                                  ELSE <<c.aperture.width, c.aperture.height>>

(* Undoing the rotation ends inside the aperture. *)
LEMMA UnrotatedWithin ==
  ASSUME NEW c, Pasteable(c),
         NEW x \in 0 .. RotatedSize(c)[1] - 1, NEW y \in 0 .. RotatedSize(c)[2] - 1
  PROVE  LET p == Unrotated(c, x, y) IN
         p[1] \in 0 .. c.aperture.width - 1 /\ p[2] \in 0 .. c.aperture.height - 1
<1> DEFINE w == c.aperture.width
           h == c.aperture.height
<1>1. w \in Nat \ {0} /\ h \in Nat \ {0} /\ c.rotation \in {0, 1, 2, 3}
  BY DEF Pasteable
<1>0. \A n \in Nat \ {0} : \A i \in 0 .. n - 1 : Minus(n - 1, i) = n - 1 - i
  BY MinusNat
<1>2. CASE c.rotation = 0
  <2>1. x \in 0 .. w - 1 /\ y \in 0 .. h - 1 /\ Unrotated(c, x, y) = <<x, y>>
    BY <1>2 DEF RotatedSize, SwapsAxes, Unrotated
  <2> QED
    BY <2>1
<1>3. CASE c.rotation = 1
  <2>1. x \in 0 .. h - 1 /\ y \in 0 .. w - 1 /\ Unrotated(c, x, y) = <<y, Minus(h - 1, x)>>
    BY <1>3 DEF RotatedSize, SwapsAxes, Unrotated
  <2>2. Minus(h - 1, x) = h - 1 - x
    BY <1>0, <1>1, <2>1
  <2> QED
    BY <1>1, <2>1, <2>2
<1>4. CASE c.rotation = 2
  <2>1. /\ x \in 0 .. w - 1 /\ y \in 0 .. h - 1
        /\ Unrotated(c, x, y) = <<Minus(w - 1, x), Minus(h - 1, y)>>
    BY <1>4 DEF RotatedSize, SwapsAxes, Unrotated
  <2>2. Minus(w - 1, x) = w - 1 - x /\ Minus(h - 1, y) = h - 1 - y
    BY <1>0, <1>1, <2>1
  <2> QED
    BY <1>1, <2>1, <2>2
<1>5. CASE c.rotation = 3
  <2>1. x \in 0 .. h - 1 /\ y \in 0 .. w - 1 /\ Unrotated(c, x, y) = <<Minus(w - 1, y), x>>
    BY <1>5 DEF RotatedSize, SwapsAxes, Unrotated
  <2>2. Minus(w - 1, y) = w - 1 - y
    BY <1>0, <1>1, <2>1
  <2> QED
    BY <1>1, <2>1, <2>2
<1> QED
  BY <1>1, <1>2, <1>3, <1>4, <1>5

(* A pixel by its place in a rectangle. *)
LEMMA PixelOf ==
  ASSUME NEW r, r.x \in Nat, r.y \in Nat, r.width \in Nat, r.height \in Nat,
         NEW i \in 0 .. r.width - 1, NEW j \in 0 .. r.height - 1
  PROVE  <<r.x + i, r.y + j>> \in Pixels(r)
BY DEF Pixels, Columns, Rows

(* The place of a pixel in its rectangle. *)
LEMMA PlaceOfPixel ==
  ASSUME NEW r \in Rectangles, NEW p \in Pixels(r)
  PROVE  p[1] - r.x \in 0 .. r.width - 1 /\ p[2] - r.y \in 0 .. r.height - 1
BY DEF Pixels, Columns, Rows, Rectangles

(* The fast path: a mirrored position of the displayed frame. *)
LEMMA OffsetInAperture ==
  ASSUME NEW c, Pasteable(c), c.square = <<1, 1>>,
         NEW x \in 0 .. DisplayDimensions(c)[1] - 1, NEW y \in 0 .. DisplayDimensions(c)[2] - 1
  PROVE  TransformedSourceOffset(c, x, y) \in Pixels(c.aperture)
<1>1. DisplayDimensions(c) = RotatedSize(c)
  BY DisplayFacts DEF RotatedSize
<1> DEFINE p == Unrotated(c, x, y)
<1>2. p[1] \in 0 .. c.aperture.width - 1 /\ p[2] \in 0 .. c.aperture.height - 1
  BY <1>1, UnrotatedWithin
<1> HIDE DEF p
<1>3. <<c.aperture.x + p[1], c.aperture.y + p[2]>> \in Pixels(c.aperture)
  BY <1>2, PixelOf DEF Pasteable
<1> QED
  BY <1>3 DEF TransformedSourceOffset, p

(* The other path: the position is scaled to the aperture and then mirrored. *)
LEMMA CoordinateInAperture ==
  ASSUME NEW c, Pasteable(c),
         NEW x \in 0 .. DisplayDimensions(c)[1] - 1, NEW y \in 0 .. DisplayDimensions(c)[2] - 1
  PROVE  SourceCoordinate(c, x, y) \in Pixels(c.aperture)
<1> DEFINE shown == DisplayDimensions(c)
           rotated == RotatedSize(c)
           rawX == (x * rotated[1]) \div AtLeast(1, shown[1])
           rawY == (y * rotated[2]) \div AtLeast(1, shown[2])
           mx == MirroredCoordinate(rawX, rotated[1], c.mirrorH)
           my == MirroredCoordinate(rawY, rotated[2], c.mirrorV)
           p == Unrotated(c, mx, my)
<1>1. shown[1] \in Nat \ {0} /\ shown[2] \in Nat \ {0}
  BY DisplayFacts
<1>2. rotated[1] \in Nat \ {0} /\ rotated[2] \in Nat \ {0}
  BY DEF RotatedSize, Pasteable
<1>3. AtLeast(1, shown[1]) = shown[1] /\ AtLeast(1, shown[2]) = shown[2]
  BY <1>1, AtLeastOne
<1>4. SourceCoordinate(c, x, y) = <<c.aperture.x + AtMost(c.aperture.width - 1, p[1]),
                                    c.aperture.y + AtMost(c.aperture.height - 1, p[2])>>
  BY DEF SourceCoordinate, RotatedSize
<1>5. x \in 0 .. shown[1] - 1 /\ y \in 0 .. shown[2] - 1
  OBVIOUS
<1> HIDE DEF shown, rotated
<1>6. rawX \in 0 .. rotated[1] - 1 /\ rawY \in 0 .. rotated[2] - 1
  <2>1. (x * rotated[1]) \div shown[1] \in 0 .. rotated[1] - 1
    BY <1>1, <1>2, <1>5, ProperShareOf
  <2>2. (y * rotated[2]) \div shown[2] \in 0 .. rotated[2] - 1
    BY <1>1, <1>2, <1>5, ProperShareOf
  <2> QED
    BY <1>3, <2>1, <2>2
<1> HIDE DEF rawX, rawY
<1>7. mx \in 0 .. rotated[1] - 1 /\ my \in 0 .. rotated[2] - 1
  BY <1>2, <1>6, MirroredWithin
<1> HIDE DEF mx, my
<1>8. p[1] \in 0 .. c.aperture.width - 1 /\ p[2] \in 0 .. c.aperture.height - 1
  BY <1>7, UnrotatedWithin DEF rotated
<1> HIDE DEF p
<1>9. /\ AtMost(c.aperture.width - 1, p[1]) \in 0 .. c.aperture.width - 1
      /\ AtMost(c.aperture.height - 1, p[2]) \in 0 .. c.aperture.height - 1
  <2>1. /\ c.aperture.width - 1 \in Nat /\ c.aperture.height - 1 \in Nat
        /\ p[1] \in Nat /\ p[2] \in Nat
    BY <1>8 DEF Pasteable
  <2> QED
    BY <2>1, AtMostRange
<1> QED
  BY <1>4, <1>9, PixelOf DEF Pasteable

(* A paste writes the pixels of a rectangle and reads inside an aperture. *)
WritesAndReads(paste, dest, aperture) ==
  /\ DOMAIN paste = Pixels(dest)
  /\ \A p \in Pixels(dest) : paste[p] \subseteq Pixels(aperture)

(* paste_opaque_contract writes its destination and reads the aperture. *)
LEMMA OpaqueReads ==
  ASSUME NEW c, Pasteable(c), c.square = <<1, 1>>,
         NEW cell \in Rectangles, ~IsEmpty(cell), NEW t \in Entered, NEW filter
  PROVE  LET place == Placement(c, cell, t) IN
         WritesAndReads(PasteOpaqueContract(c, place, filter), place.dest, c.aperture)
<1> DEFINE place == Placement(c, cell, t)
           dest == place.dest
           source == place.source
           shown == DisplayDimensions(c)
           xs == TransformedSamplingMap(filter, source.x, source.width, dest.width, shown[1],
                                        c.mirrorH)
           ys == TransformedSamplingMap(filter, source.y, source.height, dest.height, shown[2],
                                        c.mirrorV)
           paste == PasteOpaqueContract(c, place, filter)
<1>1. /\ dest \in Rectangles /\ dest.width \in Nat \ {0} /\ dest.height \in Nat \ {0}
      /\ source.x \in Nat /\ source.width \in Nat \ {0} /\ source.x + source.width <= shown[1]
      /\ source.y \in Nat /\ source.height \in Nat \ {0} /\ source.y + source.height <= shown[2]
  BY PlacementFacts
<1>2. shown[1] \in Nat \ {0} /\ shown[2] \in Nat \ {0}
  BY DisplayFacts
<1>3. /\ DOMAIN paste = Pixels(dest)
      /\ \A p \in Pixels(dest) :
           paste[p] = {TransformedSourceOffset(c, sx, sy) :
                         sx \in xs[p[1] - dest.x], sy \in ys[p[2] - dest.y]}
  BY DEF PasteOpaqueContract
<1>4. \A sx \in 0 .. shown[1] - 1, sy \in 0 .. shown[2] - 1 :
        TransformedSourceOffset(c, sx, sy) \in Pixels(c.aperture)
  BY OffsetInAperture
<1> HIDE DEF place, shown, paste
<1>5. /\ \A d \in 0 .. dest.width - 1 : xs[d] \subseteq 0 .. shown[1] - 1
      /\ \A d \in 0 .. dest.height - 1 : ys[d] \subseteq 0 .. shown[2] - 1
  BY <1>1, <1>2, TransformedWithin
<1> HIDE DEF xs, ys
<1>6. ASSUME NEW p \in Pixels(dest) PROVE paste[p] \subseteq Pixels(c.aperture)
  <2>1. p[1] - dest.x \in 0 .. dest.width - 1 /\ p[2] - dest.y \in 0 .. dest.height - 1
    BY <1>1, PlaceOfPixel
  <2>2. /\ xs[p[1] - dest.x] \subseteq 0 .. shown[1] - 1
        /\ ys[p[2] - dest.y] \subseteq 0 .. shown[2] - 1
    BY <1>5, <2>1
  <2> QED
    BY <1>3, <1>4, <2>2
<1> QED
  BY <1>3, <1>6 DEF WritesAndReads, place, paste

(* paste_contract_transformed_generic does, too. *)
LEMMA GenericReads ==
  ASSUME NEW c, Pasteable(c), NEW cell \in Rectangles, ~IsEmpty(cell), NEW t \in Entered,
         NEW filter
  PROVE  LET place == Placement(c, cell, t) IN
         WritesAndReads(PasteGeneric(c, place, filter), place.dest, c.aperture)
<1> DEFINE place == Placement(c, cell, t)
           dest == place.dest
           source == place.source
           shown == DisplayDimensions(c)
           xs == ShiftedMap(filter, source.x, source.width, dest.width)
           ys == ShiftedMap(filter, source.y, source.height, dest.height)
           paste == PasteGeneric(c, place, filter)
<1>1. /\ dest \in Rectangles /\ dest.width \in Nat \ {0} /\ dest.height \in Nat \ {0}
      /\ source.x \in Nat /\ source.width \in Nat \ {0} /\ source.x + source.width <= shown[1]
      /\ source.y \in Nat /\ source.height \in Nat \ {0} /\ source.y + source.height <= shown[2]
  BY PlacementFacts
<1>2. shown[1] \in Nat \ {0} /\ shown[2] \in Nat \ {0}
  BY DisplayFacts
<1>3. /\ DOMAIN paste = Pixels(dest)
      /\ \A p \in Pixels(dest) :
           paste[p] = {SourceCoordinate(c, sx, sy) :
                         sx \in xs[p[1] - dest.x], sy \in ys[p[2] - dest.y]}
  BY DEF PasteGeneric
<1>4. \A sx \in 0 .. shown[1] - 1, sy \in 0 .. shown[2] - 1 :
        SourceCoordinate(c, sx, sy) \in Pixels(c.aperture)
  BY CoordinateInAperture
<1> HIDE DEF place, shown, paste
<1>5. /\ \A d \in 0 .. dest.width - 1 : xs[d] \subseteq 0 .. shown[1] - 1
      /\ \A d \in 0 .. dest.height - 1 : ys[d] \subseteq 0 .. shown[2] - 1
  BY <1>1, <1>2, ShiftedWithin
<1> HIDE DEF xs, ys
<1>6. ASSUME NEW p \in Pixels(dest) PROVE paste[p] \subseteq Pixels(c.aperture)
  <2>1. p[1] - dest.x \in 0 .. dest.width - 1 /\ p[2] - dest.y \in 0 .. dest.height - 1
    BY <1>1, PlaceOfPixel
  <2>2. /\ xs[p[1] - dest.x] \subseteq 0 .. shown[1] - 1
        /\ ys[p[2] - dest.y] \subseteq 0 .. shown[2] - 1
    BY <1>5, <2>1
  <2> QED
    BY <1>3, <1>4, <2>2
<1> QED
  BY <1>3, <1>6 DEF WritesAndReads, place, paste

----------------------------------------------------------------------------
(* The plain path *)

(* The plain path centres the picture in the cell. *)
LEMMA PlainWithin ==
  ASSUME NEW frame, IsFrame(frame), NEW cell \in Rectangles, ~IsEmpty(cell)
  PROVE  LET dest == PlainPlacement(frame, cell) IN
         /\ dest \in Rectangles /\ dest.width \in Nat \ {0} /\ dest.height \in Nat \ {0}
         /\ cell.x <= dest.x /\ dest.x + dest.width <= cell.x + cell.width
         /\ cell.y <= dest.y /\ dest.y + dest.height <= cell.y + cell.height
<1> DEFINE size == FitSize(frame.width, frame.height, cell)
           dx == (cell.width - size[1]) \div 2
           dy == (cell.height - size[2]) \div 2
<1>1. /\ cell.x \in Nat /\ cell.y \in Nat
      /\ cell.width \in Nat \ {0} /\ cell.height \in Nat \ {0}
  BY DEF Rectangles, IsEmpty
<1>2. size[1] \in 1 .. cell.width /\ size[2] \in 1 .. cell.height
  BY FrameFields, FitWithin
<1> HIDE DEF size
<1>3. dx \in 0 .. cell.width - size[1] /\ dy \in 0 .. cell.height - size[2]
  BY <1>1, <1>2
<1> HIDE DEF dx, dy
<1>4. PlainPlacement(frame, cell) = Rect(cell.x + dx, cell.y + dy, size[1], size[2])
  BY DEF PlainPlacement, size, dx, dy
<1> QED
  BY <1>1, <1>2, <1>3, <1>4 DEF Rect, Rectangles

(* paste_unscaled, paste_nearest and paste_bilinear stay inside a canonical frame. *)
LEMMA PlainReads ==
  ASSUME NEW frame, IsFrame(frame), NEW cell \in Rectangles, ~IsEmpty(cell), NEW filter
  PROVE  WritesAndReads(PastePlain(frame, cell, filter), PlainPlacement(frame, cell),
                        Rect(0, 0, frame.width, frame.height))
<1> DEFINE dest == PlainPlacement(frame, cell)
           whole == Rect(0, 0, frame.width, frame.height)
           xs == SamplingMap(filter, frame.width, dest.width)
           ys == SamplingMap(filter, frame.height, dest.height)
<1>1. frame.width \in Nat \ {0} /\ frame.height \in Nat \ {0}
  BY FrameFields
<1>2. dest \in Rectangles /\ dest.width \in Nat \ {0} /\ dest.height \in Nat \ {0}
  BY PlainWithin
<1> HIDE DEF dest
<1>3. Pixels(whole) = (0 .. frame.width - 1) \X (0 .. frame.height - 1)
  BY <1>1 DEF Pixels, Columns, Rows, Rect
<1> HIDE DEF whole
<1>4. \A p \in Pixels(dest) :
        p[1] - dest.x \in 0 .. dest.width - 1 /\ p[2] - dest.y \in 0 .. dest.height - 1
  BY <1>2, PlaceOfPixel
<1>5. CASE dest.width = frame.width /\ dest.height = frame.height
  <2>1. WritesAndReads(PasteUnscaled(dest), dest, whole)
    BY <1>3, <1>4, <1>5 DEF WritesAndReads, PasteUnscaled
  <2> QED
    BY <1>5, <2>1 DEF PastePlain, dest, whole
<1>6. CASE ~(dest.width = frame.width /\ dest.height = frame.height)
  <2>1. /\ \A d \in 0 .. dest.width - 1 : xs[d] \subseteq 0 .. frame.width - 1
        /\ \A d \in 0 .. dest.height - 1 : ys[d] \subseteq 0 .. frame.height - 1
    BY <1>1, <1>2, SamplingWithin
  <2> HIDE DEF xs, ys
  <2>2. WritesAndReads(PasteScaled(dest, xs, ys), dest, whole)
    BY <1>3, <1>4, <2>1 DEF WritesAndReads, PasteScaled
  <2> QED
    BY <1>6, <2>2 DEF PastePlain, dest, whole, xs, ys
<1> QED
  BY <1>5, <1>6

(* The identity leaves a canonical frame as it is. *)
LEMMA PlainAperture ==
  ASSUME NEW frame, IsFrame(frame), IsCanonical(frame)
  PROVE  /\ ApplyToContract(Identity, frame.contract).aperture
              = Rect(0, 0, frame.width, frame.height)
         /\ DisplayDimensions(ApplyToContract(Identity, frame.contract))
              = <<frame.width, frame.height>>
<1> DEFINE contract == CanonicalContract(frame.width, frame.height)
           c == ApplyToContract(Identity, contract)
           w == frame.width
           h == frame.height
<1>1. w \in Nat \ {0} /\ h \in Nat \ {0} /\ frame.contract = contract
  BY FrameFields DEF IsCanonical
<1>2. /\ contract.aperture = Rect(0, 0, w, h) /\ contract.square = <<1, 1>>
      /\ contract.rotation = 0
  BY DEF CanonicalContract
<1>3. /\ Identity.left = 0 /\ Identity.right = 0 /\ Identity.top = 0 /\ Identity.bottom = 0
      /\ Identity.rotation = 0
  BY DEF Identity
<1>4. PerMille \in Nat \ {0}
  BY DEF PerMille
<1>5. (w * 0) \div PerMille = 0 /\ (h * 0) \div PerMille = 0
  <2>1. w * 0 = PerMille * 0 /\ h * 0 = PerMille * 0 /\ 0 \in Int
    BY <1>1, <1>4
  <2> QED
    BY <1>4, <2>1, QuotientExact
<1>6. c.aperture = Rect(0, 0, w, h)
  <2>1. c.aperture = Rect(0 + (w * 0) \div PerMille, 0 + (h * 0) \div PerMille,
                          w - (w * 0) \div PerMille - (w * 0) \div PerMille,
                          h - (h * 0) \div PerMille - (h * 0) \div PerMille)
    BY <1>2, <1>3, RectFields DEF ApplyToContract, CanonicalContract
  <2> QED
    BY <1>1, <1>5, <2>1
<1>7. c.square = <<1, 1>> /\ c.rotation = 0
  BY <1>2, <1>3 DEF ApplyToContract, CanonicalContract
<1> HIDE DEF c, contract
<1>8. DisplayDimensions(c) = <<w, h>>
  <2>1. Pasteable(c) /\ ~SwapsAxes(c)
    BY <1>1, <1>6, <1>7, RectFields DEF Pasteable, SwapsAxes
  <2> QED
    BY <1>6, <1>7, <2>1, DisplayFacts, RectFields
<1> QED
  BY <1>1, <1>6, <1>8 DEF c

(* The rectangle that a paste writes. *)
WrittenBy(frame, cell, t) ==
  IF IsPlain(frame, t) THEN PlainPlacement(frame, cell)
                       ELSE Placement(ApplyToContract(t, frame.contract), cell, t).dest

(* paste_aspect_fit, whichever path it takes. *)
LEMMA PasteFacts ==
  ASSUME NEW frame, IsFrame(frame), NEW cell \in Rectangles, ~IsEmpty(cell),
         NEW t \in Entered, TransformIsValid(t), NEW filter
  PROVE  /\ WritesAndReads(Paste(frame, cell, t, filter), WrittenBy(frame, cell, t),
                           ApplyToContract(t, frame.contract).aperture)
         /\ WrittenBy(frame, cell, t) \in Rectangles
         /\ Pixels(WrittenBy(frame, cell, t)) \subseteq Pixels(cell)
<1> DEFINE c == ApplyToContract(t, frame.contract)
           dest == WrittenBy(frame, cell, t)
<1>1. CASE IsPlain(frame, t)
  <2>1. /\ Paste(frame, cell, t, filter) = PastePlain(frame, cell, filter)
        /\ dest = PlainPlacement(frame, cell)
    BY <1>1 DEF Paste, WrittenBy
  <2>2. c.aperture = Rect(0, 0, frame.width, frame.height)
    BY <1>1, PlainAperture DEF IsPlain
  <2>3. /\ dest \in Rectangles
        /\ cell.x <= dest.x /\ dest.x + dest.width <= cell.x + cell.width
        /\ cell.y <= dest.y /\ dest.y + dest.height <= cell.y + cell.height
    BY <2>1, PlainWithin
  <2> HIDE DEF dest, c
  <2>4. Pixels(dest) \subseteq Pixels(cell)
    BY <2>3, PixelsInside
  <2> QED
    BY <2>1, <2>2, <2>3, <2>4, PlainReads DEF dest, c
<1>2. CASE ~IsPlain(frame, t)
  <2>1. /\ Paste(frame, cell, t, filter) = PasteContractTransformed(c, cell, t, filter)
        /\ dest = Placement(c, cell, t).dest
    BY <1>2 DEF Paste, WrittenBy
  <2>2. Pasteable(c)
    BY CroppedIsPasteable
  <2> HIDE DEF dest, c
  <2>3. /\ dest \in Rectangles
        /\ cell.x <= dest.x /\ dest.x + dest.width <= cell.x + cell.width
        /\ cell.y <= dest.y /\ dest.y + dest.height <= cell.y + cell.height
    BY <2>1, <2>2, PlacementFacts
  <2>4. Pixels(dest) \subseteq Pixels(cell)
    BY <2>3, PixelsInside
  <2>5. CASE IsFast(c)
    <3>1. WritesAndReads(PasteContractTransformed(c, cell, t, filter), dest, c.aperture)
      BY <2>1, <2>2, <2>5, OpaqueReads DEF PasteContractTransformed, IsFast
    <3> QED
      BY <2>1, <2>3, <2>4, <3>1 DEF dest, c
  <2>6. CASE ~IsFast(c)
    <3>1. WritesAndReads(PasteContractTransformed(c, cell, t, filter), dest, c.aperture)
      BY <2>1, <2>2, <2>6, GenericReads DEF PasteContractTransformed
    <3> QED
      BY <2>1, <2>3, <2>4, <3>1 DEF dest, c
  <2> QED
    BY <2>5, <2>6
<1> QED
  BY <1>1, <1>2

(* Whatever the cell, also an empty one. *)
LEMMA ReadsInAperture ==
  ASSUME NEW frame, IsFrame(frame), NEW cell \in Rectangles,
         NEW t \in Entered, TransformIsValid(t), NEW filter
  PROVE  /\ ReadPixels(frame, cell, t, filter)
              \subseteq Pixels(ApplyToContract(t, frame.contract).aperture)
         /\ Pixels(ApplyToContract(t, frame.contract).aperture)
              \subseteq Pixels(frame.contract.aperture)
<1> DEFINE paste == Paste(frame, cell, t, filter)
           a == ApplyToContract(t, frame.contract).aperture
<1>1. ReadPixels(frame, cell, t, filter) \subseteq Pixels(a)
  <2>1. CASE IsEmpty(cell)
    <3>1. paste = << >>
      BY <2>1 DEF Paste
    <3>2. DOMAIN paste = {}
      BY <3>1
    <3> HIDE DEF paste
    <3> QED
      BY <3>2 DEF ReadPixels, paste
  <2>2. CASE ~IsEmpty(cell)
    <3>1. WritesAndReads(paste, WrittenBy(frame, cell, t), a)
      BY <2>2, PasteFacts
    <3> HIDE DEF paste
    <3> QED
      BY <3>1 DEF ReadPixels, WritesAndReads, paste
  <2> QED
    BY <2>1, <2>2
<1>2. Pixels(a) \subseteq Pixels(frame.contract.aperture)
  <2>1. /\ a \in Rectangles /\ frame.contract.aperture \in Rectangles
        /\ frame.contract.aperture.x <= a.x
        /\ a.x + a.width <= frame.contract.aperture.x + frame.contract.aperture.width
        /\ frame.contract.aperture.y <= a.y
        /\ a.y + a.height <= frame.contract.aperture.y + frame.contract.aperture.height
    BY CroppedAperture, FrameFields
  <2> HIDE DEF a
  <2> QED
    BY <2>1, PixelsInside
<1> QED
  BY <1>1, <1>2

(* A cell that is not filled is written by its paste, all of it. *)
LEMMA OverwrittenIsCell ==
  ASSUME NEW frame, IsFrame(frame), NEW cell \in Rectangles,
         NEW t \in Entered, TransformIsValid(t), NEW filter,
         FrameFullyOverwritesCell(frame, cell, t)
  PROVE  Overwritten(frame, cell, t, filter) = FillCell(cell)
<1> DEFINE c == ApplyToContract(t, frame.contract)
           paste == Paste(frame, cell, t, filter)
           kept == CASE IsPlain(frame, t) -> 0
                     [] ~IsPlain(frame, t) /\ IsFast(c) -> WeightedBackground(t.opacity)
                     [] OTHER -> PremultipliedBackground(c, t.opacity)
<1>1. Overwritten(frame, cell, t, filter) = IF kept = 0 THEN DOMAIN paste ELSE {}
  BY DEF Overwritten
<1>2. CASE IsEmpty(cell)
  <2>1. paste = << >>
    BY <1>2 DEF Paste
  <2>2. DOMAIN paste = {}
    BY <2>1
  <2> HIDE DEF paste, kept
  <2> QED
    BY <1>1, <1>2, <2>2 DEF FillCell
<1>3. CASE ~IsEmpty(cell)
  <2>1. /\ IsOpaque(frame.contract) /\ t.opacity = PerMille
        /\ Placement(c, cell, t).dest = cell
    BY <1>3 DEF FrameFullyOverwritesCell
  <2>2. IsOpaque(c)
    BY <2>1, CroppedAperture DEF IsOpaque
  <2>3. WeightedBackground(t.opacity) = 0 /\ PremultipliedBackground(c, t.opacity) = 0
    <3>1. PerMille \in Nat
      BY DEF PerMille
    <3>2. PerMille - AtMost(PerMille, PerMille) = 0
      BY <3>1 DEF AtMost
    <3> QED
      BY <2>1, <2>2, <3>2 DEF WeightedBackground, PremultipliedBackground
  <2>4. kept = 0
    BY <2>3
  <2>5. DOMAIN paste = Pixels(WrittenBy(frame, cell, t))
    BY <1>3, PasteFacts DEF WritesAndReads
  <2> HIDE DEF paste, kept
  <2>6. WrittenBy(frame, cell, t) = cell
    <3>1. CASE ~IsPlain(frame, t)
      BY <2>1, <3>1 DEF WrittenBy
    <3>2. CASE IsPlain(frame, t)
      <4> DEFINE size == FitSize(frame.width, frame.height, cell)
      <4>1. /\ t = Identity /\ t.fit = "Fit" /\ t.x = 0 /\ t.y = 0
            /\ DisplayDimensions(c) = <<frame.width, frame.height>>
        BY <3>2, PlainAperture DEF IsPlain, Identity
      <4>2. Placement(c, cell, t).dest
              = Rect(cell.x + PositionedOffset(cell.width - size[1], t.x),
                     cell.y + PositionedOffset(cell.height - size[2], t.y),
                     size[1], size[2])
        BY <4>1 DEF Placement
      <4>3. PlainPlacement(frame, cell)
              = Rect(cell.x + (cell.width - size[1]) \div 2,
                     cell.y + (cell.height - size[2]) \div 2, size[1], size[2])
        BY DEF PlainPlacement
      <4> HIDE DEF size, c
      <4>4. size[1] = cell.width /\ size[2] = cell.height
        BY <2>1, <4>2, RectFields
      <4>5. (cell.width - size[1]) \div 2 = 0 /\ (cell.height - size[2]) \div 2 = 0
        BY <4>4 DEF Rectangles
      <4>6. PlainPlacement(frame, cell) = cell
        BY <4>3, <4>4, <4>5 DEF Rect, Rectangles
      <4> QED
        BY <3>2, <4>6 DEF WrittenBy
    <3> QED
      BY <3>1, <3>2
  <2> QED
    BY <1>1, <1>3, <2>4, <2>5, <2>6 DEF FillCell
<1> QED
  BY <1>2, <1>3

(* What is drawn in a cell is the cell, whether its source is there or not. *)
DrawnIn(frame, cell, t, filter) ==
  IF frame # None /\ FrameFullyOverwritesCell(frame, cell, t)
  THEN Overwritten(frame, cell, t, filter) ELSE FillCell(cell)

(* A cell is drawn whole: by its paste alone, or by its fill. *)
LEMMA DrawnIsCell ==
  ASSUME NEW frame, frame # None => IsFrame(frame), NEW cell \in Rectangles,
         NEW t \in Entered, TransformIsValid(t), NEW filter
  PROVE  DrawnIn(frame, cell, t, filter) = Pixels(cell)
<1>1. FillCell(cell) = Pixels(cell)
  BY DEF FillCell, Pixels, Columns, Rows, IsEmpty, Rectangles
<1> QED
  BY <1>1, OverwrittenIsCell DEF DrawnIn

----------------------------------------------------------------------------
(* The cells of a layout *)

(* The grid lines begin at nothing, end at the side and never go back. *)
LEMMA EdgeFacts ==
  ASSUME NEW total \in Nat, NEW n \in Nat \ {0}
  PROVE  /\ Edge(total, n, 0) = 0 /\ Edge(total, n, n) = total
         /\ \A i \in Nat : Edge(total, n, i) \in Nat
         /\ \A i, j \in Nat : i <= j => Edge(total, n, i) <= Edge(total, n, j)
         /\ \A i \in 0 .. n : Edge(total, n, i) \in 0 .. total
<1>1. \A i \in Nat : Edge(total, n, i) = (i * total) \div n
  BY AtLeastOne DEF Edge
<1>2. Edge(total, n, 0) = 0 /\ Edge(total, n, n) = total
  <2>1. 0 * total = n * 0 /\ n \in Nat
    OBVIOUS
  <2> QED
    BY <1>1, <2>1, QuotientExact
<1>3. ASSUME NEW i \in Nat PROVE Edge(total, n, i) \in Nat
  <2>1. i * total \in Int /\ n * 0 <= i * total
    BY ProductMonotone
  <2>2. (i * total) \div n \in Int /\ 0 <= (i * total) \div n
    BY <2>1, QuotientBounds, QuotientRange
  <2> QED
    BY <1>1, <2>2
<1>4. ASSUME NEW i \in Nat, NEW j \in Nat, i <= j PROVE Edge(total, n, i) <= Edge(total, n, j)
  <2>1. i * total <= j * total /\ i * total \in Int /\ j * total \in Int
    BY <1>4, ProductMonotone
  <2> QED
    BY <1>1, <2>1, QuotientMonotone
<1>5. ASSUME NEW i \in 0 .. n PROVE Edge(total, n, i) \in 0 .. total
  BY <1>2, <1>3, <1>4
<1> QED
  BY <1>2, <1>3, <1>4, <1>5

(* Two neighbouring grid lines. *)
LEMMA EdgeSteps ==
  ASSUME NEW total \in Nat, NEW n \in Nat \ {0}, NEW i \in 0 .. n - 1
  PROVE  /\ Edge(total, n, i) \in 0 .. total /\ Edge(total, n, i + 1) \in 0 .. total
         /\ Edge(total, n, i) <= Edge(total, n, i + 1)
<1>1. i \in Nat /\ i + 1 \in Nat /\ i \in 0 .. n /\ i + 1 \in 0 .. n /\ i <= i + 1
  OBVIOUS
<1> QED
  BY <1>1, EdgeFacts

(* Every coordinate lies between two grid lines. *)
LEMMA BandOf ==
  ASSUME NEW total \in Nat, NEW n \in Nat \ {0}, NEW x \in 0 .. total - 1
  PROVE  \E k \in 0 .. n - 1 : Edge(total, n, k) <= x /\ x < Edge(total, n, k + 1)
<1> DEFINE T == {k \in 0 .. n : Edge(total, n, k) <= x}
<1>1. SUFFICES ASSUME \A k \in 0 .. n - 1 : Edge(total, n, k) <= x
                                             => ~(x < Edge(total, n, k + 1))
               PROVE  FALSE
  OBVIOUS
<1>2. 0 \in T
  BY EdgeFacts
<1>3. ASSUME NEW k \in 0 .. n - 1, k \in T PROVE k + 1 \in T
  <2>1. Edge(total, n, k + 1) \in Nat
    BY EdgeFacts
  <2> QED
    BY <1>1, <1>3, <2>1
<1> HIDE DEF T
<1>4. n \in T
  BY <1>2, <1>3, UpTo
<1> QED
  BY <1>4, EdgeFacts DEF T

(* A set of numbers has a least one. *)
LEMMA LeastOf ==
  ASSUME NEW S \in SUBSET Nat, S # {}
  PROVE  \E x \in S : \A y \in S : x <= y
<1> DEFINE Less == {ss \in Nat \X Nat : ss[1] < ss[2]}
<1>1. IsWellFoundedOn(Less, Nat)
  BY NatLessThanWellFounded, Zenon DEF OpToRel
<1>2. PICK x \in S : \A y \in S : <<y, x>> \notin Less
  BY <1>1, WFMin, Zenon
<1>3. \A y \in S : ~(y < x)
  BY <1>2
<1>4. \A y \in S : x <= y
  BY <1>3
<1> QED
  BY <1>4

(* The layouts that are grids. *)
Grids == {"Row", "Column", "Grid"}

(* The grid has room for every source, and no row is empty. *)
LEMMA GridFacts ==
  ASSUME NEW count \in Nat \ {0}, NEW layout \in Grids
  PROVE  LET grid == GridSize(count, layout) IN
         /\ grid.columns \in Nat \ {0} /\ grid.rows \in Nat \ {0}
         /\ count <= grid.columns * grid.rows
         /\ grid.columns * (grid.rows - 1) < count
<1>1. CASE layout = "Row"
  BY <1>1 DEF GridSize
<1>2. CASE layout = "Column"
  BY <1>2 DEF GridSize
<1>3. CASE layout = "Grid"
  <2> DEFINE columns == CHOOSE c \in 1 .. count :
                          /\ c * c >= count
                          /\ \A d \in 1 .. c - 1 : d * d < count
             rows == (count + columns - 1) \div columns
             S == {c \in 1 .. count : c * c >= count}
  <2>1. count \in S
    <3>1. 1 * count <= count * count
      BY ProductMonotone
    <3> QED
      BY <3>1
  <2>2. PICK c \in S : \A d \in S : c <= d
    <3>1. S \in SUBSET Nat /\ S # {}
      BY <2>1
    <3> HIDE DEF S
    <3> QED
      BY <3>1, LeastOf
  <2>3. \A d \in 1 .. c - 1 : d * d < count
    BY <2>2
  <2>4. columns \in 1 .. count
    BY <2>2, <2>3
  <2> HIDE DEF columns
  <2>5. /\ rows \in Int /\ columns * rows <= count + columns - 1
        /\ count + columns - 1 < columns * rows + columns
    BY <2>4, QuotientBounds
  <2>6. 1 <= rows
    BY <2>4, QuotientRange
  <2> HIDE DEF rows
  <2>7. columns * (rows - 1) = columns * rows - columns
    BY <2>4, <2>5
  <2>8. GridSize(count, layout) = [columns |-> columns, rows |-> rows]
    BY <1>3 DEF GridSize, columns, rows
  <2> QED
    BY <2>4, <2>5, <2>6, <2>7, <2>8
<1>4. layout = "Row" \/ layout = "Column" \/ layout = "Grid"
  BY DEF Grids
<1> QED
  BY <1>1, <1>2, <1>3, <1>4

(* Quotient and remainder. *)
LEMMA Division ==
  ASSUME NEW a \in Int, NEW d \in Nat \ {0}
  PROVE  a \div d \in Int /\ a % d \in 0 .. d - 1 /\ a = d * (a \div d) + (a % d)
OBVIOUS

(* The cell of source n stands in its column and row of the grid. *)
StandsAt(cell, w, h, C, R, n) ==
  LET column == (n - 1) % C
      row == (n - 1) \div C
  IN  /\ column \in 0 .. C - 1 /\ row \in 0 .. R - 1
      /\ n - 1 = C * row + column
      /\ cell.x = Edge(w, C, column)
      /\ cell.y = Edge(h, R, row)
      /\ cell.width = Edge(w, C, column + 1) - Edge(w, C, column)
      /\ cell.height = Edge(h, R, row + 1) - Edge(h, R, row)
      /\ cell = Rect(cell.x, cell.y, cell.width, cell.height)

(* Cells puts the cell of source n into its column and row. *)
LEMMA GridCell ==
  ASSUME NEW w \in Nat, NEW h \in Nat, NEW count \in Nat \ {0}, NEW layout \in Grids,
         NEW n \in 1 .. count
  PROVE  LET grid == GridSize(count, layout) IN
         StandsAt(Cells(w, h, count, layout)[n], w, h, grid.columns, grid.rows, n)
<1> DEFINE grid == GridSize(count, layout)
           C == grid.columns
           R == grid.rows
           column == (n - 1) % C
           row == (n - 1) \div C
<1>1. C \in Nat \ {0} /\ R \in Nat \ {0} /\ count <= C * R
  BY GridFacts
<1>2. Cells(w, h, count, layout)[n]
        = Rect(Edge(w, C, column), Edge(h, R, row),
               Edge(w, C, column + 1) - Edge(w, C, column),
               Edge(h, R, row + 1) - Edge(h, R, row))
  BY DEF Cells, Grids
<1> HIDE DEF grid
<1>3. column \in 0 .. C - 1 /\ row \in Int /\ n - 1 = C * row + column
  <2>1. n - 1 \in Int /\ C \in Nat \ {0}
    BY <1>1
  <2> HIDE DEF C
  <2> QED
    BY <2>1, Division
<1>4. row \in 0 .. R - 1
  BY <1>1, QuotientRange
<1> HIDE DEF row, column
<1> QED
  BY <1>2, <1>3, <1>4 DEF StandsAt, Rect, row, column, grid

(* c lies inside an output of this size. *)
InOutput(c, w, h) == c \in Rectangles /\ c.x + c.width <= w /\ c.y + c.height <= h

(* A cell of a grid lies in the output. *)
LEMMA GridCellInOutput ==
  ASSUME NEW w \in Nat, NEW h \in Nat, NEW count \in Nat \ {0}, NEW layout \in Grids,
         NEW n \in 1 .. count
  PROVE  InOutput(Cells(w, h, count, layout)[n], w, h)
<1> DEFINE grid == GridSize(count, layout)
           C == grid.columns
           R == grid.rows
           column == (n - 1) % C
           row == (n - 1) \div C
           cell == Cells(w, h, count, layout)[n]
<1>1. C \in Nat \ {0} /\ R \in Nat \ {0}
  BY GridFacts
<1>2. /\ column \in 0 .. C - 1 /\ row \in 0 .. R - 1
      /\ cell.x = Edge(w, C, column) /\ cell.width = Edge(w, C, column + 1) - Edge(w, C, column)
      /\ cell.y = Edge(h, R, row) /\ cell.height = Edge(h, R, row + 1) - Edge(h, R, row)
      /\ cell = Rect(cell.x, cell.y, cell.width, cell.height)
  <2>1. StandsAt(cell, w, h, C, R, n)
    BY GridCell
  <2> HIDE DEF cell, C, R
  <2> QED
    BY <2>1 DEF StandsAt
<1> HIDE DEF cell, column, row, grid
<1>3. /\ Edge(w, C, column) \in 0 .. w /\ Edge(w, C, column + 1) \in 0 .. w
      /\ Edge(w, C, column) <= Edge(w, C, column + 1)
  BY <1>1, <1>2, EdgeSteps
<1>4. /\ Edge(h, R, row) \in 0 .. h /\ Edge(h, R, row + 1) \in 0 .. h
      /\ Edge(h, R, row) <= Edge(h, R, row + 1)
  BY <1>1, <1>2, EdgeSteps
<1>5. /\ cell.x \in Nat /\ cell.y \in Nat /\ cell.width \in Nat /\ cell.height \in Nat
      /\ cell.x + cell.width <= w /\ cell.y + cell.height <= h
  BY <1>2, <1>3, <1>4
<1>6. Rect(cell.x, cell.y, cell.width, cell.height) \in Rectangles
  BY <1>5 DEF Rect, Rectangles
<1> QED
  BY <1>2, <1>5, <1>6 DEF InOutput, cell

LEMMA OverlayInOutput ==
  ASSUME NEW w \in Nat, NEW h \in Nat, NEW count \in Nat \ {0}, NEW n \in 2 .. count
  PROVE  InOutput(PictureInPictureCells(w, h, count)[n], w, h)
<1> DEFINE margin == AtMost(h \div 4, AtMost(w \div 4, AtMost(h, w) \div 50))
           overlays == count - 1
           room == Minus(h, 2 * margin)
           overlay == AtMost(Minus(w, 2 * margin), AtLeast(1, w \div 4))
           slot == overlays - (n - 2) - 1
           top == margin + Edge(room, overlays, slot)
           bottom == margin + Edge(room, overlays, slot + 1)
           high == AtMost(Minus(bottom, top), AtLeast(1, h \div 4))
<1>1. /\ PictureInPictureCells(w, h, count)[n]
           = Rect(Minus(Minus(w, margin), overlay), Minus(bottom, high), overlay, high)
  BY DEF PictureInPictureCells
<1>2. margin \in Nat /\ 2 * margin <= h /\ 2 * margin <= w
  <2>1. h \div 4 \in Nat /\ 2 * (h \div 4) <= h
    OBVIOUS
  <2>2. w \div 4 \in Nat /\ 2 * (w \div 4) <= w
    OBVIOUS
  <2>3. AtMost(h, w) \in Nat
    BY AtMostRange
  <2>4. AtMost(h, w) \div 50 \in Nat
    BY <2>3
  <2>5. AtMost(w \div 4, AtMost(h, w) \div 50) \in 0 .. w \div 4
    BY <2>2, <2>4, AtMostRange
  <2> DEFINE m == AtMost(w \div 4, AtMost(h, w) \div 50)
  <2> HIDE DEF m
  <2>6. m \in Nat /\ 2 * m <= w
    BY <2>2, <2>5 DEF m
  <2>7. AtMost(h \div 4, m) \in 0 .. h \div 4 /\ AtMost(h \div 4, m) <= m
    BY <2>1, <2>6 DEF AtMost
  <2>8. margin = AtMost(h \div 4, m)
    BY DEF m
  <2> HIDE DEF margin
  <2> QED
    BY <2>1, <2>6, <2>7, <2>8
<1> HIDE DEF margin
<1>3. room = h - 2 * margin /\ Minus(w, 2 * margin) = w - 2 * margin /\ Minus(w, margin) = w - margin
  BY <1>2, MinusNat
<1>4. room \in Nat /\ overlays \in Nat \ {0} /\ slot \in 0 .. overlays - 1
  BY <1>2, <1>3
<1>5. overlay \in 0 .. w - 2 * margin
  <2>1. w \div 4 \in Int /\ w - 2 * margin \in Nat
    BY <1>2
  <2> QED
    BY <1>3, <2>1, AtLeastOne, AtMostRange
<1> HIDE DEF room, overlay, overlays, slot
<1>6. /\ Edge(room, overlays, slot) \in 0 .. room /\ Edge(room, overlays, slot + 1) \in 0 .. room
      /\ Edge(room, overlays, slot) <= Edge(room, overlays, slot + 1)
  BY <1>4, EdgeFacts
<1>7. /\ top \in Nat /\ bottom \in Nat /\ top <= bottom /\ bottom <= h
  BY <1>2, <1>3, <1>4, <1>6
<1> HIDE DEF top, bottom
<1>8. Minus(bottom, top) = bottom - top /\ bottom - top \in Nat
  BY <1>7, MinusNat
<1>9. high \in 0 .. bottom - top
  <2>1. h \div 4 \in Int
    OBVIOUS
  <2> QED
    BY <1>8, <2>1, AtLeastOne, AtMostRange
<1> HIDE DEF high
<1>10. Minus(bottom, high) = bottom - high
  BY <1>7, <1>9, MinusNat
<1>11. Minus(Minus(w, margin), overlay) = w - margin - overlay
  <2>1. w - margin \in Nat /\ overlay \in Nat /\ overlay <= w - margin
    BY <1>2, <1>5
  <2> QED
    BY <1>3, <2>1, MinusNat
<1>12. PictureInPictureCells(w, h, count)[n]
         = Rect(w - margin - overlay, bottom - high, overlay, high)
  BY <1>1, <1>10, <1>11 DEF room, overlay, overlays, slot, top, bottom, high
<1>13. /\ w - margin - overlay \in Nat /\ bottom - high \in Nat /\ overlay \in Nat /\ high \in Nat
       /\ w - margin - overlay + overlay <= w /\ bottom - high + high <= h
  BY <1>2, <1>5, <1>7, <1>9
<1> HIDE DEF margin, room, overlay, overlays, slot, top, bottom, high
<1> QED
  BY <1>12, <1>13 DEF InOutput, Rect, Rectangles

Layouts == Grids \cup {"PictureInPicture"}

(* Every cell of every layout lies in the output. *)
LEMMA CellsInOutput ==
  ASSUME NEW w \in Nat, NEW h \in Nat, NEW count \in Nat \ {0}, NEW layout \in Layouts
  PROVE  LET cells == Cells(w, h, count, layout) IN
         /\ DOMAIN cells = 1 .. count
         /\ \A n \in 1 .. count : InOutput(cells[n], w, h)
<1> DEFINE cells == Cells(w, h, count, layout)
<1>1. CASE layout = "PictureInPicture"
  <2>1. cells = PictureInPictureCells(w, h, count)
    BY <1>1 DEF Cells
  <2>2. DOMAIN cells = 1 .. count /\ cells[1] = Rect(0, 0, w, h)
    BY <2>1 DEF PictureInPictureCells
  <2>3. InOutput(Rect(0, 0, w, h), w, h)
    BY DEF InOutput, Rect, Rectangles
  <2> HIDE DEF cells
  <2>4. ASSUME NEW n \in 1 .. count PROVE InOutput(cells[n], w, h)
    <3>1. CASE n = 1
      BY <2>2, <2>3, <3>1
    <3>2. CASE n # 1
      <4>1. n \in 2 .. count
        BY <3>2
      <4> QED
        BY <2>1, <4>1, OverlayInOutput
    <3> QED
      BY <3>1, <3>2
  <2> QED
    BY <2>2, <2>4 DEF cells
<1>2. CASE layout \in Grids
  <2>1. DOMAIN cells = 1 .. count
    BY <1>2 DEF Cells, Grids
  <2> QED
    BY <1>2, <2>1, GridCellInOutput
<1> QED
  BY <1>1, <1>2 DEF Layouts

----------------------------------------------------------------------------
(* The area of the cells *)

(* f sums the numbers of a up to N. *)
Sums(f, a, N) == f[0] = 0 /\ \A n \in 1 .. N : f[n] = f[n - 1] + a[n]

(* The sums of a sequence of numbers. *)
LEMMA SumExists ==
  ASSUME NEW N \in Nat, NEW a \in [1 .. N -> Nat]
  PROVE  \E f \in [0 .. N -> Nat] : Sums(f, a, N)
<1> DEFINE step == [p \in (1 .. N) \X Nat |-> p[2] + a[p[1]]]
<1>1. step \in [(1 .. N) \X Nat -> Nat] /\ 0 \in Nat
  OBVIOUS
<1>2. PICK f \in [0 .. N -> Nat] : Steps(f, 0, step, N)
  <2> HIDE DEF step
  <2> QED
    BY <1>1, Recursion
<1>3. ASSUME NEW n \in 1 .. N PROVE step[<<n, f[n - 1]>>] = f[n - 1] + a[n]
  <2>1. f[n - 1] \in Nat
    OBVIOUS
  <2> QED
    BY <2>1
<1> HIDE DEF step
<1> QED
  BY <1>2, <1>3 DEF Sums, Steps

(* Two sequences of sums of the same numbers end alike. *)
LEMMA SumIsUnique ==
  ASSUME NEW N \in Nat, NEW a, NEW f, Sums(f, a, N), NEW g, Sums(g, a, N)
  PROVE  f[N] = g[N]
<1> DEFINE T == {n \in 0 .. N : f[n] = g[n]}
<1>1. 0 \in T
  BY DEF Sums
<1>2. ASSUME NEW n \in 0 .. N - 1, n \in T PROVE n + 1 \in T
  <2>1. n + 1 \in 1 .. N /\ n + 1 - 1 = n
    OBVIOUS
  <2>2. f[n + 1] = f[n] + a[n + 1] /\ g[n + 1] = g[n] + a[n + 1]
    BY <2>1 DEF Sums
  <2> QED
    BY <1>2, <2>2
<1> HIDE DEF T
<1>3. N \in T
  BY <1>1, <1>2, UpTo
<1> QED
  BY <1>3 DEF T

(* What begins and grows like the area of the cells is the area of the cells. *)
LEMMA TotalAreaIs ==
  ASSUME NEW cells, NEW N \in Nat, Len(cells) = N,
         NEW a \in [1 .. N -> Nat],
         \A n \in 1 .. N : a[n] = cells[n].width * cells[n].height,
         NEW A, Sums(A, a, N)
  PROVE  TotalArea(cells) = A[N]
<1> DEFINE Is(g) == g = [n \in 0 .. N |-> IF n = 0 THEN 0
                                         ELSE g[n - 1] + cells[n].width * cells[n].height]
           f == CHOOSE g : Is(g)
<1>1. ASSUME NEW g \in [0 .. N -> Nat], Sums(g, a, N) PROVE Is(g)
  BY <1>1 DEF Sums
<1>2. ASSUME NEW g, Is(g) PROVE Sums(g, a, N)
  <2>1. g[0] = 0
    BY <1>2
  <2>2. ASSUME NEW n \in 1 .. N PROVE g[n] = g[n - 1] + a[n]
    BY <1>2, <2>2
  <2> QED
    BY <2>1, <2>2 DEF Sums
<1>3. TotalArea(cells) = f[N]
  BY DEF TotalArea
<1> HIDE DEF Is
<1>4. Is(f)
  BY <1>1, SumExists
<1>5. Sums(f, a, N)
  BY <1>2, <1>4
<1> HIDE DEF f
<1>6. f[N] = A[N]
  BY <1>5, SumIsUnique
<1> QED
  BY <1>3, <1>6

(* Quotient and remainder are the only numbers of their kind. *)
LEMMA DivisionIs ==
  ASSUME NEW a \in Int, NEW d \in Nat \ {0}, NEW q \in Int, NEW m \in 0 .. d - 1, a = d * q + m
  PROVE  a \div d = q /\ a % d = m
<1>1. a \div d \in Int /\ a % d \in 0 .. d - 1 /\ a = d * (a \div d) + (a % d)
  BY Division
<1>2. d * q <= a /\ a < d * (q + 1)
  <2>1. d * (q + 1) = d * q + d
    OBVIOUS
  <2> QED
    BY <2>1
<1>3. q <= a \div d /\ a \div d < q + 1
  BY <1>2, QuotientRange
<1>4. a \div d = q
  BY <1>1, <1>3
<1> QED
  BY <1>1, <1>4

(* The next cell is in the next column, or in the first of the next row. *)
LEMMA DivisionNext ==
  ASSUME NEW n \in Nat, NEW d \in Nat \ {0}
  PROVE  LET q == n \div d
             m == n % d
         IN  /\ m + 1 < d => (n + 1) \div d = q /\ (n + 1) % d = m + 1
             /\ m + 1 = d => (n + 1) \div d = q + 1 /\ (n + 1) % d = 0
<1> DEFINE q == n \div d
           m == n % d
<1>1. q \in Int /\ m \in 0 .. d - 1 /\ n = d * q + m
  BY Division
<1> HIDE DEF q, m
<1>2. ASSUME m + 1 < d PROVE (n + 1) \div d = q /\ (n + 1) % d = m + 1
  <2>1. n + 1 = d * q + (m + 1) /\ m + 1 \in 0 .. d - 1 /\ n + 1 \in Int
    BY <1>1, <1>2
  <2> QED
    BY <1>1, <2>1, DivisionIs
<1>3. ASSUME m + 1 = d PROVE (n + 1) \div d = q + 1 /\ (n + 1) % d = 0
  <2>1. d * (q + 1) = d * q + d
    BY <1>1
  <2>2. n + 1 = d * (q + 1) + 0 /\ 0 \in 0 .. d - 1 /\ n + 1 \in Int /\ q + 1 \in Int
    BY <1>1, <1>3, <2>1
  <2> QED
    BY <2>2, DivisionIs
<1> QED
  BY <1>2, <1>3 DEF q, m

(* The area of the first n cells of a grid of C columns and R rows: the full rows, and what *)
(* is there of the next.                                                                    *)
AreaBefore(w, h, C, R, n) ==
  LET row == n \div C
      top == Edge(h, R, row)
  IN  top * w + Edge(w, C, n % C) * (Edge(h, R, row + 1) - top)

(* The next cell adds its area to it. *)
Grows(w, h, C, R, n) ==
  LET row == n \div C
      column == n % C
  IN  AreaBefore(w, h, C, R, n + 1)
        = AreaBefore(w, h, C, R, n)
            + (Edge(w, C, column + 1) - Edge(w, C, column))
              * (Edge(h, R, row + 1) - Edge(h, R, row))

(* Each cell adds its area. *)
LEMMA AreaGrows ==
  ASSUME NEW w \in Nat, NEW h \in Nat, NEW C \in Nat \ {0}, NEW R \in Nat \ {0}, NEW n \in Nat
  PROVE  Grows(w, h, C, R, n)
<1> DEFINE row == n \div C
           column == n % C
           top == Edge(h, R, row)
           bottom == Edge(h, R, row + 1)
           left == Edge(w, C, column)
           right == Edge(w, C, column + 1)
<1>1. row \in Nat /\ column \in 0 .. C - 1
  <2>1. row \in Int /\ column \in 0 .. C - 1
    BY Division
  <2>2. C * 0 <= n
    OBVIOUS
  <2>3. 0 <= row
    BY <2>2, QuotientRange
  <2> QED
    BY <2>1, <2>3
<1> HIDE DEF row, column
<1>2. top \in Nat /\ bottom \in Nat /\ left \in Nat /\ right \in Nat
  <2>1. row + 1 \in Nat /\ column \in Nat /\ column + 1 \in Nat
    BY <1>1
  <2> QED
    BY <1>1, <2>1, EdgeFacts
<1>3. AreaBefore(w, h, C, R, n) = top * w + left * (bottom - top)
  BY DEF AreaBefore, row, column
<1>4. CASE column + 1 < C
  <2>1. (n + 1) \div C = row /\ (n + 1) % C = column + 1
    BY <1>4, DivisionNext DEF row, column
  <2>2. AreaBefore(w, h, C, R, n + 1) = top * w + right * (bottom - top)
    BY <2>1 DEF AreaBefore
  <2> HIDE DEF top, bottom, left, right
  <2>3. right * (bottom - top) = left * (bottom - top) + (right - left) * (bottom - top)
    BY <1>2
  <2> QED
    BY <1>2, <1>3, <2>2, <2>3 DEF Grows, row, column, top, bottom, left, right
<1>5. CASE column + 1 = C
  <2>1. (n + 1) \div C = row + 1 /\ (n + 1) % C = 0
    BY <1>5, DivisionNext DEF row, column
  <2>2. Edge(w, C, 0) = 0 /\ right = w
    BY <1>5, EdgeFacts
  <2>3. Edge(h, R, row + 1 + 1) \in Nat
    <3>1. row + 1 + 1 \in Nat
      BY <1>1
    <3> QED
      BY <3>1, EdgeFacts
  <2>4. AreaBefore(w, h, C, R, n + 1) = bottom * w + 0 * (Edge(h, R, row + 1 + 1) - bottom)
    BY <2>1, <2>2 DEF AreaBefore
  <2> HIDE DEF top, bottom, left, right
  <2>5. AreaBefore(w, h, C, R, n + 1) = bottom * w
    BY <1>2, <2>3, <2>4
  <2>6. bottom * w = top * w + left * (bottom - top) + (w - left) * (bottom - top)
    BY <1>2
  <2> QED
    BY <1>3, <2>2, <2>5, <2>6 DEF Grows, row, column, top, bottom, left, right
<1> QED
  BY <1>1, <1>4, <1>5 DEF row, column

(* The areas that cells_cover_output adds up, in closed form. *)
LEMMA GridArea ==
  ASSUME NEW w \in Nat, NEW h \in Nat, NEW count \in Nat \ {0}, NEW layout \in Grids
  PROVE  LET grid == GridSize(count, layout) IN
         TotalArea(Cells(w, h, count, layout)) = AreaBefore(w, h, grid.columns, grid.rows, count)
<1> DEFINE grid == GridSize(count, layout)
           C == grid.columns
           R == grid.rows
           cells == Cells(w, h, count, layout)
           A == [n \in 0 .. count |-> AreaBefore(w, h, C, R, n)]
           a == [n \in 1 .. count |-> cells[n].width * cells[n].height]
<1>1. C \in Nat \ {0} /\ R \in Nat \ {0}
  BY GridFacts
<1>2. Len(cells) = count
  BY DEF Cells, Grids
<1>3. ASSUME NEW n \in 1 .. count PROVE cells[n].width * cells[n].height \in Nat
  <2>1. cells[n].width \in Nat /\ cells[n].height \in Nat
    BY GridCellInOutput DEF InOutput, Rectangles
  <2>2. \A x, y \in Nat : x * y \in Nat
    OBVIOUS
  <2> HIDE DEF cells
  <2> QED
    BY <2>1, <2>2
<1>4. a \in [1 .. count -> Nat]
  BY <1>3
<1>5. AreaBefore(w, h, C, R, 0) = 0
  <2>1. 0 \div C = 0 /\ 0 % C = 0
    BY <1>1, DivisionIs
  <2> HIDE DEF C, R
  <2>2. Edge(w, C, 0) = 0 /\ Edge(h, R, 0) = 0 /\ Edge(h, R, 0 + 1) \in Nat
    <3>1. 0 + 1 \in Nat
      OBVIOUS
    <3> QED
      BY <1>1, <3>1, EdgeFacts
  <2> QED
    BY <2>1, <2>2 DEF AreaBefore
<1>6. ASSUME NEW n \in 1 .. count PROVE A[n] = A[n - 1] + a[n]
  <2> DEFINE m == n - 1
             row == m \div C
             column == m % C
  <2>1. m \in Nat /\ m \in 0 .. count /\ m + 1 = n
    OBVIOUS
  <2>2. /\ cells[n].width = Edge(w, C, column + 1) - Edge(w, C, column)
        /\ cells[n].height = Edge(h, R, row + 1) - Edge(h, R, row)
    <3>1. StandsAt(cells[n], w, h, C, R, n)
      BY GridCell
    <3> HIDE DEF cells, C, R
    <3> QED
      BY <3>1 DEF StandsAt
  <2> HIDE DEF m, C, R, cells
  <2>3. Grows(w, h, C, R, m)
    BY <1>1, <2>1, AreaGrows
  <2>4. AreaBefore(w, h, C, R, m + 1)
          = AreaBefore(w, h, C, R, m)
              + (Edge(w, C, column + 1) - Edge(w, C, column))
                * (Edge(h, R, row + 1) - Edge(h, R, row))
    BY <2>3 DEF Grows
  <2>5. /\ A[n] = AreaBefore(w, h, C, R, n) /\ A[n - 1] = AreaBefore(w, h, C, R, m)
        /\ a[n] = cells[n].width * cells[n].height
    BY <2>1 DEF m
  <2> HIDE DEF row, column, A, a
  <2> QED
    BY <2>1, <2>2, <2>4, <2>5
<1>7. Sums(A, a, count)
  <2>1. A[0] = 0
    BY <1>5
  <2> HIDE DEF A, a
  <2> QED
    BY <1>6, <2>1 DEF Sums
<1>8. \A n \in 1 .. count : a[n] = cells[n].width * cells[n].height
  OBVIOUS
<1> HIDE DEF a, cells
<1>9. TotalArea(cells) = A[count]
  <2> HIDE DEF A
  <2> QED
    BY <1>2, <1>4, <1>7, <1>8, TotalAreaIs
<1> QED
  BY <1>9 DEF cells

(* A product that reaches the whole: one of its sides does. *)
LEMMA NothingMissing ==
  ASSUME NEW w \in Nat, NEW h \in Nat, NEW x \in 0 .. w, NEW y \in 0 .. h,
         y * w + x * (h - y) = w * h
  PROVE  x = w \/ y = h
<1>1. SUFFICES ASSUME x # w, y # h PROVE FALSE
  OBVIOUS
<1> DEFINE p == w - x
           q == h - y
<1>2. p \in Nat \ {0} /\ q \in Nat \ {0} /\ w = x + p /\ h = y + q
  BY <1>1
<1> HIDE DEF p, q
<1>3. y * w + x * (h - y) = w * h - p * q
  BY <1>2
<1>4. p * q > 0
  BY <1>2
<1> QED
  BY <1>2, <1>3, <1>4

(* Cells whose areas add up to that of the output leave out no pixel of it. *)
LEMMA GridCovers ==
  ASSUME NEW w \in Nat, NEW h \in Nat, NEW count \in Nat \ {0}, NEW layout \in Grids,
         TotalArea(Cells(w, h, count, layout)) = w * h,
         NEW x \in 0 .. w - 1, NEW y \in 0 .. h - 1
  PROVE  \E n \in 1 .. count : <<x, y>> \in Pixels(Cells(w, h, count, layout)[n])
<1> DEFINE grid == GridSize(count, layout)
           C == grid.columns
           R == grid.rows
<1>1. C \in Nat \ {0} /\ R \in Nat \ {0} /\ count <= C * R /\ C * (R - 1) < count
  BY GridFacts
<1>2. AreaBefore(w, h, C, R, count) = w * h
  BY GridArea
<1>3. ASSUME NEW n \in 1 .. count
      PROVE  StandsAt(Cells(w, h, count, layout)[n], w, h, C, R, n)
  BY GridCell
<1> HIDE DEF grid, C, R
<1>4. PICK k \in 0 .. C - 1 : Edge(w, C, k) <= x /\ x < Edge(w, C, k + 1)
  BY <1>1, BandOf
<1>5. PICK l \in 0 .. R - 1 : Edge(h, R, l) <= y /\ y < Edge(h, R, l + 1)
  BY <1>1, BandOf
<1> DEFINE at == C * l + k
<1>6. at \in Nat /\ at \div C = l /\ at % C = k
  <2>1. C * l \in Nat
    BY <1>1
  <2> QED
    BY <1>1, <2>1, DivisionIs
<1>7. CASE at < count
  <2> DEFINE n == at + 1
             cell == Cells(w, h, count, layout)[n]
  <2>1. n \in 1 .. count /\ n - 1 = at
    BY <1>6, <1>7
  <2>2. StandsAt(cell, w, h, C, R, n)
    BY <1>3, <2>1
  <2> HIDE DEF cell, n
  <2>3. /\ cell.x = Edge(w, C, k) /\ cell.width = Edge(w, C, k + 1) - Edge(w, C, k)
        /\ cell.y = Edge(h, R, l) /\ cell.height = Edge(h, R, l + 1) - Edge(h, R, l)
    BY <1>6, <2>1, <2>2 DEF StandsAt
  <2>4. /\ Edge(w, C, k) \in Int /\ Edge(w, C, k + 1) \in Int
        /\ Edge(h, R, l) \in Int /\ Edge(h, R, l + 1) \in Int
    <3>1. k \in 0 .. C - 1 /\ l \in 0 .. R - 1 /\ C \in Nat \ {0} /\ R \in Nat \ {0}
      BY <1>1
    <3>2. /\ Edge(w, C, k) \in 0 .. w /\ Edge(w, C, k + 1) \in 0 .. w
      BY <3>1, EdgeSteps
    <3>3. /\ Edge(h, R, l) \in 0 .. h /\ Edge(h, R, l + 1) \in 0 .. h
      BY <3>1, EdgeSteps
    <3> QED
      BY <3>2, <3>3
  <2>5. x \in Columns(cell) /\ y \in Rows(cell)
    BY <1>4, <1>5, <2>3, <2>4 DEF Columns, Rows
  <2> QED
    BY <2>1, <2>5 DEF Pixels, cell
<1>8. CASE ~(at < count)
  <2> DEFINE r == count \div C
             c == count % C
             top == Edge(h, R, l)
  <2>1. l = R - 1
    <3>1. SUFFICES ASSUME l + 1 <= R - 1 PROVE FALSE
      BY <1>1
    <3>2. C * (l + 1) <= C * (R - 1)
      BY <1>1, <3>1, ProductMonotone
    <3>3. C * (l + 1) = C * l + C
      BY <1>1
    <3>4. C * l \in Int /\ C * (R - 1) \in Int
      BY <1>1
    <3> QED
      BY <1>1, <1>8, <3>2, <3>3, <3>4
  <2>2. r = l /\ c = count - C * l /\ c <= k
    <3>1. C * l \in Int
      BY <1>1
    <3>2. count - C * l \in 0 .. C - 1 /\ count = C * l + (count - C * l) /\ count - C * l <= k
      BY <1>1, <1>8, <2>1, <3>1
    <3> DEFINE m == count - C * l
    <3>3. m \in 0 .. C - 1 /\ count = C * l + m /\ m <= k
      BY <3>2
    <3> HIDE DEF m
    <3>4. C \in Nat \ {0} /\ l \in Int /\ count \in Int
      BY <1>1
    <3>5. r = l /\ c = m
      BY <3>3, <3>4, DivisionIs
    <3> QED
      BY <3>3, <3>5 DEF m
  <2>3. Edge(h, R, l + 1) = h /\ top \in 0 .. h
    <3>1. l + 1 = R /\ l \in 0 .. R
      BY <1>1, <2>1
    <3> QED
      BY <1>1, <3>1, EdgeFacts
  <2>4. c \in Nat /\ Edge(w, C, c) \in 0 .. w /\ Edge(w, C, c) <= Edge(w, C, k)
    <3>1. c \in 0 .. C - 1
      <4>1. C \in Nat \ {0} /\ count \in Int
        BY <1>1
      <4> QED
        BY <4>1, Division
    <3> HIDE DEF c
    <3>2. c \in Nat /\ c \in 0 .. C /\ k \in Nat
      BY <1>1, <3>1
    <3> QED
      BY <1>1, <2>2, <3>2, EdgeFacts
  <2>5. top * w + Edge(w, C, c) * (h - top) = w * h
    BY <1>2, <2>2, <2>3 DEF AreaBefore
  <2> HIDE DEF c, r, top
  <2>6. Edge(w, C, c) = w \/ top = h
    BY <2>3, <2>4, <2>5, NothingMissing
  <2>7. Edge(w, C, k) \in Int
    <3>1. k \in Nat
      BY <1>1
    <3> QED
      BY <1>1, <3>1, EdgeFacts
  <2> QED
    BY <1>4, <1>5, <2>3, <2>4, <2>6, <2>7 DEF top
<1> QED
  BY <1>7, <1>8

(* The pixels of a cell are pixels of the output. *)
LEMMA PixelsOfCell ==
  ASSUME NEW w \in Nat, NEW h \in Nat, NEW c, InOutput(c, w, h)
  PROVE  Pixels(c) \subseteq Pixels(Rect(0, 0, w, h))
BY DEF InOutput, Pixels, Columns, Rows, Rect, Rectangles

(* The composition covers the output. *)
LEMMA ComposedIsWhole ==
  ASSUME NEW w \in Nat, NEW h \in Nat, NEW count \in Nat \ {0}, NEW style,
         style.layout \in Layouts, NEW frames, NEW transforms, Len(frames) = count,
         \A i \in 1 .. count : /\ frames[i] # None => IsFrame(frames[i])
                               /\ transforms[i] \in Entered /\ TransformIsValid(transforms[i])
  PROVE  Composed(w, h, frames, transforms, style, None) = Pixels(Rect(0, 0, w, h))
<1> DEFINE full == Pixels(Rect(0, 0, w, h))
           cells == Cells(w, h, count, style.layout)
           drawn(i) == DrawnIn(frames[i], cells[i], transforms[i], style.filter)
           ground == IF CellsCoverOutput(cells, w, h) THEN {} ELSE FillCell(Rect(0, 0, w, h))
<1>1. /\ DOMAIN cells = 1 .. count
      /\ \A n \in 1 .. count : InOutput(cells[n], w, h)
  BY CellsInOutput
<1>2. Composed(w, h, frames, transforms, style, None)
        = ground \cup UNION {drawn(i) : i \in DOMAIN cells}
  BY DEF Composed, DrawnIn
<1>3. FillCell(Rect(0, 0, w, h)) = full
  BY DEF FillCell, Pixels, Columns, Rows, IsEmpty, Rect
<1>6. ASSUME CellsCoverOutput(cells, w, h), NEW p \in full
      PROVE  \E i \in 1 .. count : p \in Pixels(cells[i])
  <2>1. CASE \E i \in DOMAIN cells : cells[i] = Rect(0, 0, w, h)
    BY <1>1, <2>1
  <2>2. CASE TotalArea(cells) = w * h /\ style.layout \in Grids
    <3>1. PICK x \in 0 .. w - 1, y \in 0 .. h - 1 : p = <<x, y>>
      BY DEF Pixels, Columns, Rows, Rect
    <3> QED
      BY <2>2, <3>1, GridCovers
  <2>3. CASE style.layout = "PictureInPicture"
    <3>1. 1 \in 1 .. count /\ cells[1] = Rect(0, 0, w, h)
      BY <2>3 DEF Cells, PictureInPictureCells
    <3> QED
      BY <3>1
  <2>4. style.layout \in Grids \/ style.layout = "PictureInPicture"
    BY DEF Layouts
  <2> QED
    BY <1>6, <2>1, <2>2, <2>3, <2>4 DEF CellsCoverOutput
<1> HIDE DEF cells
<1>4. \A i \in 1 .. count : drawn(i) = Pixels(cells[i])
  <2> SUFFICES ASSUME NEW i \in 1 .. count PROVE drawn(i) = Pixels(cells[i])
    OBVIOUS
  <2>1. /\ cells[i] \in Rectangles
        /\ frames[i] # None => IsFrame(frames[i])
        /\ transforms[i] \in Entered /\ TransformIsValid(transforms[i])
    BY <1>1 DEF InOutput
  <2> DEFINE frame == frames[i]
             cell == cells[i]
             t == transforms[i]
             filter == style.filter
  <2>2. /\ frame # None => IsFrame(frame)
        /\ cell \in Rectangles /\ t \in Entered /\ TransformIsValid(t)
    BY <2>1
  <2> HIDE DEF frame, cell, t, filter
  <2>3. DrawnIn(frame, cell, t, filter) = Pixels(cell)
    BY <2>2, DrawnIsCell
  <2> QED
    BY <2>3 DEF frame, cell, t, filter
<1>5. \A i \in 1 .. count : Pixels(cells[i]) \subseteq full
  BY <1>1, PixelsOfCell
<1>7. UNION {drawn(i) : i \in DOMAIN cells} \subseteq full
  BY <1>1, <1>4, <1>5
<1>8. CellsCoverOutput(cells, w, h) => full \subseteq UNION {drawn(i) : i \in DOMAIN cells}
  BY <1>1, <1>4, <1>6
<1> QED
  BY <1>2, <1>3, <1>7, <1>8

----------------------------------------------------------------------------
(* The scenes that are composed *)

(* The loop of prepare_sources pushes sources of the scene. *)
LEMMA PushesSources ==
  ASSUME NEW S, NEW sources \in Seq(S), NEW hidden
  PROVE  Pushes(sources, hidden) \in Seq(S)
<1> DEFINE N == Len(sources)
           Is(g) == g = [n \in 0 .. N |->
                           IF n = 0 THEN << >>
                           ELSE IF sources[n] \in hidden THEN g[n - 1]
                                ELSE Append(g[n - 1], sources[n])]
           f == CHOOSE g : Is(g)
           step == [p \in (1 .. N) \X Seq(S) |->
                      IF sources[p[1]] \in hidden THEN p[2] ELSE Append(p[2], sources[p[1]])]
<1>1. N \in Nat /\ \A n \in 1 .. N : sources[n] \in S
  BY LenProperties, ElementOfSeq
<1>2. Pushes(sources, hidden) = f[N]
  BY DEF Pushes
<1> HIDE DEF N
<1>3. step \in [(1 .. N) \X Seq(S) -> Seq(S)]
  <2>1. ASSUME NEW p \in (1 .. N) \X Seq(S)
        PROVE  (IF sources[p[1]] \in hidden THEN p[2] ELSE Append(p[2], sources[p[1]])) \in Seq(S)
    <3>1. p[2] \in Seq(S) /\ sources[p[1]] \in S
      BY <1>1
    <3>2. Append(p[2], sources[p[1]]) \in Seq(S)
      BY <3>1, AppendProperties
    <3> QED
      BY <3>1, <3>2
  <2> QED
    BY <2>1
<1>4. << >> \in Seq(S)
  OBVIOUS
<1>5. PICK g \in [0 .. N -> Seq(S)] : Steps(g, << >>, step, N)
  <2> HIDE DEF step
  <2> QED
    BY <1>1, <1>3, <1>4, Recursion
<1>6. Is(g)
  <2>1. ASSUME NEW n \in 0 .. N, n # 0
        PROVE  g[n] = IF sources[n] \in hidden THEN g[n - 1] ELSE Append(g[n - 1], sources[n])
    <3>1. n \in 1 .. N /\ g[n - 1] \in Seq(S)
      BY <1>1, <2>1
    <3>2. g[n] = step[<<n, g[n - 1]>>]
      BY <1>5, <3>1 DEF Steps
    <3> QED
      BY <3>1, <3>2
  <2>2. g[0] = << >>
    BY <1>5 DEF Steps
  <2> QED
    BY <2>1, <2>2
<1> HIDE DEF Is
<1>7. Is(f)
  BY <1>6
<1> HIDE DEF f
<1> DEFINE T == {n \in 0 .. N : f[n] \in Seq(S)}
<1>8. 0 \in T
  BY <1>1, <1>4, <1>7 DEF Is
<1>9. ASSUME NEW n \in 0 .. N - 1, n \in T PROVE n + 1 \in T
  <2>1. n + 1 \in 0 .. N /\ n + 1 # 0 /\ n + 1 - 1 = n /\ n + 1 \in 1 .. N
    BY <1>1
  <2>2. f[n + 1] = IF sources[n + 1] \in hidden THEN f[n] ELSE Append(f[n], sources[n + 1])
    <3> DEFINE m == n + 1
    <3>1. m \in 0 .. N /\ m # 0 /\ m - 1 = n
      BY <2>1
    <3> HIDE DEF m
    <3>2. f[m] = IF sources[m] \in hidden THEN f[m - 1] ELSE Append(f[m - 1], sources[m])
      BY <1>7, <3>1 DEF Is
    <3> QED
      BY <3>1, <3>2 DEF m
  <2>3. f[n] \in Seq(S) /\ sources[n + 1] \in S
    BY <1>1, <1>9, <2>1
  <2>4. Append(f[n], sources[n + 1]) \in Seq(S)
    BY <2>3, AppendProperties
  <2> QED
    BY <2>1, <2>2, <2>3, <2>4
<1> HIDE DEF T
<1>10. N \in T
  <2>1. N \in Nat
    BY <1>1
  <2>2. 0 .. N \subseteq T
    BY <1>8, <1>9, <2>1, UpTo
  <2> QED
    BY <2>1, <2>2
<1> QED
  BY <1>2, <1>10 DEF T

(* What compose_with is handed: cells with the frame of a source or none, and transforms *)
(* that validate.                                                                        *)
IsPrepared(p) ==
  /\ Len(p.frames) \in Nat \ {0} /\ DOMAIN p.frames = 1 .. Len(p.frames)
  /\ \A i \in 1 .. Len(p.frames) : /\ p.frames[i] # None => IsFrame(p.frames[i])
                                   /\ p.transforms[i] \in Entered
                                   /\ TransformIsValid(p.transforms[i])

(* What prepare_sources hands over, whatever is missing. *)
LEMMA PreparedIs ==
  ASSUME NEW q \in Seq(Sources), NEW c \in ScenesOf(q), NEW p \in Resolutions(c)
  PROVE  IsPrepared(p)
<1>1. c.sources = q /\ c.transforms \in [Range(q) -> AllTransforms]
  BY DEF ScenesOf
<1>2. PICK fresh, frozen : p = PreparedSources(c, fresh, frozen) /\ p.frames # << >>
  BY DEF Resolutions
<1> DEFINE frame(s) == IF s \in fresh \/ (c.style.policy = "FreezeBriefly" /\ s \in frozen)
                       THEN Frames[s] ELSE None
           hidden == {s \in Range(c.sources) : c.style.policy = "HideCell" /\ frame(s) = None}
           kept == Pushes(c.sources, hidden)
<1>3. p = [frames |-> [i \in DOMAIN kept |-> frame(kept[i])],
           transforms |-> [i \in DOMAIN kept |-> c.transforms[kept[i]]]]
  BY <1>2 DEF PreparedSources
<1> HIDE DEF hidden
<1>4. q \in Seq(Range(q)) /\ Range(q) \subseteq Sources
  <2>1. Len(q) \in Nat /\ DOMAIN q = 1 .. Len(q) /\ \A i \in 1 .. Len(q) : q[i] \in Sources
    BY LenProperties, ElementOfSeq
  <2>2. q \in [1 .. Len(q) -> Range(q)]
    BY <2>1 DEF Range
  <2>3. q \in Seq(Range(q))
    BY <2>1, <2>2, SeqDef
  <2>4. Range(q) \subseteq Sources
    BY <2>1 DEF Range
  <2> QED
    BY <2>3, <2>4
<1>5. kept \in Seq(Range(q))
  BY <1>1, <1>4, PushesSources
<1> HIDE DEF kept
<1>6. Len(kept) \in Nat /\ DOMAIN kept = 1 .. Len(kept) /\ \A i \in 1 .. Len(kept) : kept[i] \in Range(q)
  BY <1>5, LenProperties, ElementOfSeq
<1>7. Len(p.frames) = Len(kept) /\ DOMAIN p.frames = 1 .. Len(kept)
  BY <1>3, <1>6
<1>8. Len(kept) # 0
  <2>1. SUFFICES ASSUME Len(kept) = 0 PROVE FALSE
    OBVIOUS
  <2>2. DOMAIN kept = {}
    BY <1>6, <2>1
  <2>3. p.frames = << >>
    BY <1>3, <2>2
  <2> QED
    BY <1>2, <2>3
<1>9. ASSUME NEW i \in 1 .. Len(kept)
      PROVE  /\ p.frames[i] # None => IsFrame(p.frames[i])
             /\ p.transforms[i] \in Entered
             /\ TransformIsValid(p.transforms[i])
  <2>1. kept[i] \in Range(q) /\ kept[i] \in Sources
    BY <1>4, <1>6
  <2>2. p.frames[i] = frame(kept[i]) /\ p.transforms[i] = c.transforms[kept[i]]
    BY <1>3, <1>6
  <2>3. c.transforms[kept[i]] \in AllTransforms
    BY <1>1, <2>1
  <2>4. p.transforms[i] \in Entered /\ Sanitized(p.transforms[i]) = p.transforms[i]
    BY <2>2, <2>3, GeometryAssumption
  <2>5. TransformIsValid(p.transforms[i])
    BY <2>4, SanitizedIsValid
  <2>6. p.frames[i] # None => IsFrame(p.frames[i])
    BY <2>1, <2>2, GeometryAssumption
  <2> QED
    BY <2>4, <2>5, <2>6
<1> QED
  BY <1>6, <1>7, <1>8, <1>9 DEF IsPrepared

(* compose_with covers the output for every resolution of a scene. *)
LEMMA SceneIsWhole ==
  ASSUME NEW q \in Seq(Sources), NEW c \in ScenesOf(q)
  PROVE  WholeOutput(c)
<1> SUFFICES ASSUME NEW p \in Resolutions(c), NEW size \in Outputs
             PROVE  Composed(size[1], size[2], p.frames, p.transforms, c.style, None)
                      = Pixels(Rect(0, 0, size[1], size[2]))
  BY DEF WholeOutput
<1>1. IsPrepared(p)
  BY PreparedIs
<1>2. size[1] \in Nat /\ size[2] \in Nat
  BY GeometryAssumption
<1>3. c.style.layout \in Layouts
  BY GeometryAssumption DEF ScenesOf, Layouts, Grids
<1> DEFINE count == Len(p.frames)
<1>4. /\ count \in Nat \ {0} /\ Len(p.frames) = count
      /\ \A i \in 1 .. count : /\ p.frames[i] # None => IsFrame(p.frames[i])
                               /\ p.transforms[i] \in Entered
                               /\ TransformIsValid(p.transforms[i])
  BY <1>1 DEF IsPrepared
<1> HIDE DEF count
<1> QED
  BY <1>2, <1>3, <1>4, ComposedIsWhole

(* Every paste of every resolution of a scene reads inside. *)
LEMMA SceneReadsInside ==
  ASSUME NEW q \in Seq(Sources), NEW c \in ScenesOf(q)
  PROVE  ReadsInside(c)
<1> SUFFICES ASSUME NEW p \in Resolutions(c), NEW size \in Outputs, NEW i \in Pasted(p)
             PROVE  LET aperture == ApplyToContract(p.transforms[i], p.frames[i].contract).aperture
                        cell == Cells(size[1], size[2], Len(p.frames), c.style.layout)[i]
                    IN  /\ Pixels(aperture) \subseteq Pixels(p.frames[i].contract.aperture)
                        /\ ReadPixels(p.frames[i], cell, p.transforms[i], c.style.filter)
                             \subseteq Pixels(aperture)
  BY DEF ReadsInside
<1>1. /\ Len(p.frames) \in Nat \ {0} /\ i \in 1 .. Len(p.frames) /\ IsFrame(p.frames[i])
      /\ p.transforms[i] \in Entered /\ TransformIsValid(p.transforms[i])
  BY PreparedIs DEF IsPrepared, Pasted
<1>2. size[1] \in Nat /\ size[2] \in Nat
  BY GeometryAssumption
<1>3. c.style.layout \in Layouts
  BY GeometryAssumption DEF ScenesOf, Layouts, Grids
<1> DEFINE cell == Cells(size[1], size[2], Len(p.frames), c.style.layout)[i]
<1>4. InOutput(cell, size[1], size[2])
  BY <1>1, <1>2, <1>3, CellsInOutput
<1>5. cell \in Rectangles
  BY <1>4 DEF InOutput
<1> HIDE DEF cell
<1> DEFINE frame == p.frames[i]
           t == p.transforms[i]
           filter == c.style.filter
<1>6. IsFrame(frame) /\ t \in Entered /\ TransformIsValid(t)
  BY <1>1
<1> HIDE DEF frame, t, filter
<1>7. /\ ReadPixels(frame, cell, t, filter)
           \subseteq Pixels(ApplyToContract(t, frame.contract).aperture)
      /\ Pixels(ApplyToContract(t, frame.contract).aperture)
           \subseteq Pixels(frame.contract.aperture)
  BY <1>5, <1>6, ReadsInAperture
<1> QED
  BY <1>7 DEF cell, frame, t, filter

(* No source of any resolution is refused. *)
LEMMA SceneIsAccepted ==
  ASSUME NEW q \in Seq(Sources), NEW c \in ScenesOf(q)
  PROVE  NoneRefused(c)
<1> SUFFICES ASSUME NEW p \in Resolutions(c), NEW i \in Pasted(p)
             PROVE  Accepts(p.frames[i], p.transforms[i])
  BY DEF NoneRefused
<1>1. /\ IsFrame(p.frames[i]) /\ p.transforms[i] \in Entered
      /\ TransformIsValid(p.transforms[i])
  BY PreparedIs DEF IsPrepared, Pasted
<1> QED
  BY <1>1, CropIsAccepted

(* The sources of an edited scene are one of the orders that are judged. *)
LEMMA ContentIsSelected ==
  ASSUME NEW q \in Seq(Sources), IsInjective(q)
  PROVE  q \in Selected
<1>1. Len(q) \in Nat /\ q \in [1 .. Len(q) -> Sources]
  BY LenProperties
<1>2. q \in Injection(1 .. Len(q), Sources)
  BY <1>1 DEF Injection
<1>3. IsFiniteSet(Sources) /\ Cardinality(Sources) \in Nat
  BY GeometryAssumption, FS_CardinalityType
<1>4. Cardinality(1 .. Len(q)) <= Cardinality(Sources)
  BY <1>2, <1>3, FS_Injection
<1>5. Cardinality(1 .. Len(q)) = Len(q)
  BY <1>1, FS_Interval
<1>6. Len(q) \in 0 .. Cardinality(Sources)
  BY <1>1, <1>3, <1>4, <1>5
<1> QED
  BY <1>1, <1>6 DEF Selected

(* So the sources of the scene are judged well. *)
LEMMA CompositionOfContent ==
  ASSUME content \in Content PROVE CompositionInv
<1>1. content.sources \in Seq(Sources) /\ content.sources \in Selected
  BY ContentIsSelected DEF Content
<1> DEFINE q == content.sources
<1>2. \A c \in ScenesOf(q) : WholeOutput(c)
  BY <1>1, SceneIsWhole
<1>3. \A c \in ScenesOf(q) : ReadsInside(c)
  BY <1>1, SceneReadsInside
<1>4. \A c \in ScenesOf(q) : NoneRefused(c)
  BY <1>1, SceneIsAccepted
<1> HIDE DEF q
<1>5. <<q, \A c \in ScenesOf(q) : WholeOutput(c)>> \in Whole
  BY <1>1 DEF Whole, q
<1>6. <<q, \A c \in ScenesOf(q) : ReadsInside(c)>> \in Inside
  BY <1>1 DEF Inside, q
<1>7. <<q, \A c \in ScenesOf(q) : NoneRefused(c)>> \in Accepted
  BY <1>1 DEF Accepted, q
<1>8. /\ (\A c \in ScenesOf(q) : WholeOutput(c)) = TRUE
      /\ (\A c \in ScenesOf(q) : ReadsInside(c)) = TRUE
      /\ (\A c \in ScenesOf(q) : NoneRefused(c)) = TRUE
  BY <1>2, <1>3, <1>4, Zenon
<1>9. /\ <<q, TRUE>> \in Whole /\ <<q, TRUE>> \in Inside /\ <<q, TRUE>> \in Accepted
  BY <1>5, <1>6, <1>7, <1>8, Zenon
<1> QED
  BY <1>9, PreviewHolds
     DEF CompositionInv, NoRecycledPixel, ReadsStayInside, NoSourceIsRefused, q

(* CompositionInv: whatever scene the editor reaches, and whichever of its   *)
(* sources are missing, compose_with leaves no pixel of the recycled output, *)
(* every paste reads inside the clean aperture its crop leaves, no source    *)
(* is refused, and the preview is whole (render.rs, source_transform.rs,     *)
(* layout.rs, render_worker.rs).                                             *)
THEOREM CompositionInvHolds == Spec => []CompositionInv
<1>1. SceneInv => CompositionInv
  BY CompositionOfContent DEF SceneInv, TypeOK, Snapshots, Snapshot
<1> QED
  BY <1>1, SceneInvHolds, PTL
=============================================================================
