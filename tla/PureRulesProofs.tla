--------------------------- MODULE PureRulesProofs ---------------------------
(***************************************************************************)
(* Proofs about the two pure rules of the system: what a folder drop is    *)
(* offered as (FolderDrop: every file has a role, the picked main file is  *)
(* not dominated, discs are imported whole) and the release format         *)
(* (ReleaseFormat: a rename does not change it).                           *)
(*                                                                         *)
(* Both rest on what sorting by a total order gives (SortedEnumerates).    *)
(* Loops and sums are recursive functions, so facts about them are proved  *)
(* by induction on the length of a list or the size of a set: the numbers  *)
(* for which the fact holds form a set that contains 0 and the successor   *)
(* of each of its members (Induction).                                     *)
(***************************************************************************)
EXTENDS FolderDrop, ReleaseFormat, FiniteSetTheorems, FunctionTheorems, SequenceTheorems,
        WellFoundedInduction, TLAPS

-----------------------------------------------------------------------------
(* Induction over the natural numbers, for a set of numbers.               *)

LEMMA Least ==
  ASSUME NEW T, T \subseteq Nat, T # {}
  PROVE  \E x \in T : \A y \in T : x <= y
<1>1. PICK x \in T : \A y \in T : ~(<<y, x>> \in OpToRel(<, Nat))
  BY NatLessThanWellFounded, WFMin
<1>2. \A y \in T : ~(y < x)
  BY <1>1 DEF OpToRel
<1> QED  BY <1>2

LEMMA Induction ==
  ASSUME NEW S, 0 \in S, \A n \in Nat : n \in S => n + 1 \in S
  PROVE  Nat \subseteq S
<1> SUFFICES ASSUME Nat \ S # {} PROVE FALSE
  OBVIOUS
<1>1. PICK x \in Nat \ S : \A y \in Nat \ S : x <= y
  BY Least
<1>2. x # 0 /\ x - 1 \in Nat
  OBVIOUS
<1>3. x - 1 \in S
  BY <1>1, <1>2
<1> QED  BY <1>2, <1>3

-----------------------------------------------------------------------------
(* Strict orders as sets of pairs, and what sorting by a total one gives.   *)

StrictOrder(R, S) ==
    /\ R \subseteq S \X S
    /\ \A x \in S : <<x, x>> \notin R
    /\ \A x, y, z \in S : <<x, y>> \in R /\ <<y, z>> \in R => <<x, z>> \in R
TotalOrder(R, S) ==
    /\ StrictOrder(R, S)
    /\ \A x, y \in S : x = y \/ <<x, y>> \in R \/ <<y, x>> \in R

LEMMA SortedEnumerates ==
  ASSUME NEW S, IsFiniteSet(S), NEW R, TotalOrder(R, S)
  PROVE  /\ Cardinality(S) \in Nat
         /\ Sorted(S, R) \in [1 .. Cardinality(S) -> S]
         /\ \A f \in S : \E i \in 1 .. Cardinality(S) : Sorted(S, R)[i] = f
         /\ \A i, j \in 1 .. Cardinality(S) : i < j => <<Sorted(S, R)[i], Sorted(S, R)[j]>> \in R
<1> DEFINE below(x) == {w \in S : <<w, x>> \in R}
           n == Cardinality(S)
           s == Sorted(S, R)
<1>1. n \in Nat
  BY FS_CardinalityType
<1>2. \A x \in S : below(x) \in SUBSET S /\ x \notin below(x)
  BY DEF TotalOrder, StrictOrder
<1>3. \A x, y \in S : <<x, y>> \in R => below(x) \in SUBSET below(y) /\ x \in below(y)
  BY DEF TotalOrder, StrictOrder
<1>4. s = [i \in 1 .. n |-> CHOOSE f \in S : Cardinality(below(f)) = i - 1]
  BY DEF Sorted
<1> HIDE DEF below, s
<1>a. \A x \in S : IsFiniteSet(below(x)) /\ Cardinality(below(x)) \in Nat
  BY <1>2, FS_Subset, FS_CardinalityType
<1>b. ASSUME NEW x \in S PROVE Cardinality(below(x)) < n
  BY <1>1, <1>2, <1>a, FS_Subset
<1>c. ASSUME NEW x \in S, NEW y \in S, <<x, y>> \in R PROVE Cardinality(below(x)) < Cardinality(below(y))
  BY <1>2, <1>3, <1>a, <1>c, FS_Subset
<1>5. ASSUME NEW x \in S, NEW y \in S, Cardinality(below(x)) = Cardinality(below(y)) PROVE x = y
  <2>1. x = y \/ <<x, y>> \in R \/ <<y, x>> \in R
    BY DEF TotalOrder
  <2> QED  BY <1>a, <1>c, <1>5, <2>1
<1> DEFINE rank == [x \in S |-> Cardinality(below(x))]
<1>6. rank \in Surjection(S, 0 .. (n - 1))
  <2>1. rank \in Injection(S, 0 .. (n - 1))
    BY <1>1, <1>a, <1>b, <1>5 DEF Injection, IsInjective
  <2>2. IsFiniteSet(0 .. (n - 1)) /\ Cardinality(0 .. (n - 1)) = n
    BY <1>1, FS_Interval
  <2> QED  BY <2>1, <2>2, FS_Injection
<1>7. ASSUME NEW i \in 1 .. n PROVE s[i] \in S /\ Cardinality(below(s[i])) = i - 1
  <2>1. i - 1 \in 0 .. (n - 1)
    BY <1>1
  <2>2. \E x \in S : Cardinality(below(x)) = i - 1
    BY <1>6, <2>1 DEF Surjection
  <2> QED  BY <1>4, <2>2
<1>8. \A f \in S : \E i \in 1 .. n : s[i] = f
  <2> SUFFICES ASSUME NEW f \in S PROVE \E i \in 1 .. n : s[i] = f
    OBVIOUS
  <2> DEFINE i == Cardinality(below(f)) + 1
  <2>1. i \in 1 .. n
    BY <1>1, <1>a, <1>b
  <2>2. Cardinality(below(s[i])) = Cardinality(below(f)) /\ s[i] \in S
    BY <1>1, <1>7, <1>a, <2>1
  <2>3. s[i] = f
    BY <1>5, <2>2
  <2> QED  BY <2>1, <2>3
<1>9. ASSUME NEW i \in 1 .. n, NEW j \in 1 .. n, i < j PROVE <<s[i], s[j]>> \in R
  <2>1. s[i] # s[j]
    BY <1>1, <1>7, <1>9
  <2>2. ~(<<s[j], s[i]>> \in R)
    BY <1>1, <1>7, <1>9, <1>c
  <2> QED  BY <1>7, <2>1, <2>2 DEF TotalOrder
<1>10. s \in [1 .. n -> S]
  BY <1>4, <1>7
<1> QED  BY <1>1, <1>8, <1>9, <1>10 DEF s

(* filepath.WalkDir's order of paths, name by name, is a total order.       *)
LEMMA BeforeIsTotal ==
  ASSUME NEW p \in Seq(Nat), NEW q \in Seq(Nat)
  PROVE  /\ ~Before(p, p)
         /\ p = q \/ Before(p, q) \/ Before(q, p)
<1>1. ~Before(p, p)
  BY DEF Before
<1>2. ASSUME p # q PROVE Before(p, q) \/ Before(q, p)
  <2> DEFINE differ == {k \in 1 .. Len(p) : k > Len(q) \/ p[k] # q[k]}
  <2>1. CASE differ = {}
    <3>1. Len(p) <= Len(q) /\ \A k \in 1 .. Len(p) : p[k] = q[k]
      <4>1. \A k \in 1 .. Len(p) : k <= Len(q) /\ p[k] = q[k]
        BY <2>1
      <4>2. Len(p) = 0 \/ Len(p) \in 1 .. Len(p)
        OBVIOUS
      <4> QED  BY <4>1, <4>2
    <3>2. Len(p) # Len(q)
      BY <1>2, <3>1
    <3> QED  BY <3>1, <3>2 DEF Before
  <2>2. CASE differ # {}
    <3>1. PICK k \in differ : \A j \in differ : k <= j
      <4>1. differ \subseteq Nat
        OBVIOUS
      <4> HIDE DEF differ
      <4> QED  BY <2>2, <4>1, Least
    <3>2. ASSUME NEW j \in 1 .. (k - 1) PROVE j <= Len(q) /\ p[j] = q[j]
      <4>1. j \in 1 .. Len(p) /\ ~(k <= j) /\ Len(q) \in Nat
        OBVIOUS
      <4>2. j \notin differ
        BY <3>1, <4>1
      <4> QED  BY <4>1, <4>2
    <3>3. k - 1 \in 0 .. Len(p) /\ k - 1 < Len(p) /\ (k - 1) + 1 = k
      OBVIOUS
    <3>4. k - 1 <= Len(q)
      <4>1. k - 1 = 0 \/ k - 1 \in 1 .. (k - 1)
        OBVIOUS
      <4> QED  BY <3>2, <4>1
    <3>5. CASE k > Len(q)
      <4>1. Len(q) = k - 1
        BY <3>4, <3>5
      <4> QED  BY <3>2, <3>3, <4>1 DEF Before
    <3>6. CASE k <= Len(q)
      <4>1. p[k] # q[k] /\ p[k] \in Nat /\ q[k] \in Nat
        BY <3>6
      <4>2. p[k] < q[k] \/ q[k] < p[k]
        BY <4>1
      <4>3. k - 1 \in 0 .. Len(q) /\ k - 1 < Len(q)
        BY <3>6
      <4> QED  BY <3>2, <3>3, <4>2, <4>3 DEF Before
    <3> QED  BY <3>5, <3>6
  <2> QED  BY <2>1, <2>2
<1> QED  BY <1>1, <1>2

LEMMA BeforeTransitive ==
  ASSUME NEW p \in Seq(Nat), NEW q \in Seq(Nat), NEW r \in Seq(Nat), Before(p, q), Before(q, r)
  PROVE  Before(p, r)
<1>1. PICK n \in 0 .. Len(p) : /\ n < Len(q) /\ \A k \in 1 .. n : p[k] = q[k]
                               /\ n < Len(p) => p[n + 1] < q[n + 1]
  BY DEF Before
<1>2. PICK m \in 0 .. Len(q) : /\ m < Len(r) /\ \A k \in 1 .. m : q[k] = r[k]
                               /\ m < Len(q) => q[m + 1] < r[m + 1]
  BY DEF Before
<1>3. CASE n <= m
  <2>1. \A k \in 1 .. n : p[k] = r[k]
    BY <1>1, <1>2, <1>3
  <2>2. n < Len(r)
    BY <1>2, <1>3
  <2>3. ASSUME n < Len(p) PROVE p[n + 1] < r[n + 1]
    <3>1. n + 1 \in 1 .. Len(p) /\ n + 1 \in 1 .. Len(q) /\ n + 1 \in 1 .. Len(r)
      BY <1>1, <2>2, <2>3
    <3>2. p[n + 1] \in Nat /\ q[n + 1] \in Nat /\ r[n + 1] \in Nat
      BY <3>1
    <3>3. q[n + 1] = r[n + 1] \/ q[n + 1] < r[n + 1]
      <4>1. CASE n = m
        BY <1>1, <1>2, <4>1
      <4>2. CASE n < m
        <5>1. n + 1 \in 1 .. m
          BY <4>2
        <5> QED  BY <1>2, <5>1
      <4> QED  BY <1>3, <4>1, <4>2
    <3>4. p[n + 1] < q[n + 1]
      BY <1>1, <2>3
    <3> DEFINE x == p[n + 1]  y == q[n + 1]  z == r[n + 1]
    <3>5. x \in Nat /\ y \in Nat /\ z \in Nat /\ x < y /\ (y = z \/ y < z)
      BY <3>2, <3>3, <3>4
    <3> HIDE DEF x, y, z
    <3>6. x < z
      BY <3>5
    <3> QED  BY <3>6 DEF x, z
  <2> QED  BY <2>1, <2>2, <2>3 DEF Before
<1>4. CASE m < n
  <2>1. \A k \in 1 .. m : p[k] = r[k]
    BY <1>1, <1>2, <1>4
  <2>2. m + 1 \in 1 .. n /\ m < Len(q) /\ m \in 0 .. Len(p)
    BY <1>1, <1>4
  <2>3. p[m + 1] < r[m + 1]
    BY <1>1, <1>2, <2>2
  <2> QED  BY <1>2, <2>1, <2>2, <2>3 DEF Before
<1> QED  BY <1>3, <1>4

LEMMA FileTyped ==
  ASSUME NEW f \in Contents
  PROVE  /\ f.dir \in Seq(Nat) /\ Path(f) \in Seq(Nat)
         /\ f.base \in Nat /\ f.size \in Nat /\ f.part \in Nat /\ f.chunk \in Nat
BY ContentsAssumption DEF MediaFiles, Path

LEMMA SamePath ==
  ASSUME NEW p \in Seq(Nat), NEW q \in Seq(Nat), NEW b \in Nat, NEW c \in Nat, Append(p, b) = Append(q, c)
  PROVE  p = q /\ b = c
BY AppendInjective

LEMMA PathsApart ==
  ASSUME NEW f \in Contents, NEW g \in Contents, Path(f) = Path(g)
  PROVE  f = g
<1>1. f.dir \in Seq(Nat) /\ g.dir \in Seq(Nat) /\ f.base \in Nat /\ g.base \in Nat
  BY FileTyped
<1>2. f.dir = g.dir /\ f.base = g.base
  <2>1. Append(f.dir, f.base) = Append(g.dir, g.base)
    BY DEF Path
  <2> QED  BY <1>1, <2>1, SamePath
<1> QED  BY <1>2, ContentsAssumption

LEMMA WalkOrderIsTotal ==
  ASSUME NEW S, S \subseteq Contents
  PROVE  TotalOrder(WalkOrder(S), S)
<1>1. \A f, g \in S : <<f, g>> \in WalkOrder(S) <=> Before(Path(f), Path(g))
  BY DEF WalkOrder
<1>2. \A f \in S : f \in Contents /\ Path(f) \in Seq(Nat)
  BY FileTyped
<1>3. \A f, g \in S : f = g \/ Before(Path(f), Path(g)) \/ Before(Path(g), Path(f))
  BY <1>2, BeforeIsTotal, PathsApart
<1>4. \A f \in S : ~Before(Path(f), Path(f))
  BY <1>2, BeforeIsTotal
<1>5. \A f, g, h \in S : Before(Path(f), Path(g)) /\ Before(Path(g), Path(h)) => Before(Path(f), Path(h))
  BY <1>2, BeforeTransitive
<1>6. WalkOrder(S) \subseteq S \X S
  BY DEF WalkOrder
<1> QED  BY <1>1, <1>3, <1>4, <1>5, <1>6 DEF TotalOrder, StrictOrder

LEMMA PartOrderIsTotal ==
  ASSUME NEW S, S \subseteq Contents
  PROVE  TotalOrder(PartOrder(S), S)
<1>1. \A f, g \in S : <<f, g>> \in PartOrder(S) <=>
                      f.part < g.part \/ (f.part = g.part /\ <<f, g>> \in WalkOrder(S))
  BY DEF PartOrder
<1>2. \A f \in S : f.part \in Nat
  BY FileTyped
<1>3. PartOrder(S) \subseteq S \X S
  BY DEF PartOrder
<1>4. TotalOrder(WalkOrder(S), S)
  BY WalkOrderIsTotal
<1> QED  BY <1>1, <1>2, <1>3, <1>4 DEF TotalOrder, StrictOrder

LEMMA DiscOrderIsTotal ==
  ASSUME NEW S, S \subseteq Contents
  PROVE  TotalOrder(DiscOrder(S), S)
<1> DEFINE later(f, g) == f.chunk < g.chunk \/ (f.chunk = g.chunk /\ f.base < g.base)
<1>1. \A f, g \in S : <<f, g>> \in DiscOrder(S) <=>
                      Before(f.dir, g.dir) \/ (f.dir = g.dir /\ later(f, g))
  BY DEF DiscOrder
<1>2. \A f \in S : f.dir \in Seq(Nat) /\ f.chunk \in Nat /\ f.base \in Nat
  BY FileTyped
<1>3. DiscOrder(S) \subseteq S \X S
  BY DEF DiscOrder
<1>4. \A f, g \in S : f.dir = g.dir => f = g \/ later(f, g) \/ later(g, f)
  BY <1>2, ContentsAssumption
<1>5. \A f, g, h \in S : later(f, g) /\ later(g, h) => later(f, h)
  BY <1>2
<1>6. \A f \in S : ~later(f, f)
  BY <1>2
<1> HIDE DEF later
<1>7. \A f, g \in S : f.dir = g.dir \/ Before(f.dir, g.dir) \/ Before(g.dir, f.dir)
  BY <1>2, BeforeIsTotal
<1>8. \A f, g \in S : f.dir = g.dir => ~Before(f.dir, g.dir)
  BY <1>2, BeforeIsTotal
<1>9. \A f, g, h \in S : Before(f.dir, g.dir) /\ Before(g.dir, h.dir) => Before(f.dir, h.dir)
  BY <1>2, BeforeTransitive
<1>10. \A f, g \in S : f = g \/ <<f, g>> \in DiscOrder(S) \/ <<g, f>> \in DiscOrder(S)
  BY <1>1, <1>4, <1>7
<1>11. \A f \in S : <<f, f>> \notin DiscOrder(S)
  BY <1>1, <1>6, <1>8
<1>12. \A f, g, h \in S : <<f, g>> \in DiscOrder(S) /\ <<g, h>> \in DiscOrder(S) => <<f, h>> \in DiscOrder(S)
  BY <1>1, <1>5, <1>9
<1> QED  BY <1>3, <1>10, <1>11, <1>12 DEF TotalOrder, StrictOrder

-----------------------------------------------------------------------------
(* What the loops that keep a leader end with.                              *)

LEMMA LeaderIsUnbettered ==
  ASSUME NEW S, NEW better, StrictOrder(better, S), NEW s \in Seq(S), s # <<>>
  PROVE  /\ Leader(s, better) \in S
         /\ \E i \in 1 .. Len(s) : Leader(s, better) = s[i]
         /\ \A i \in 1 .. Len(s) : <<s[i], Leader(s, better)>> \notin better
<1> DEFINE step(g, i) == IF i > 1 /\ <<s[i], g[i - 1]>> \notin better THEN g[i - 1] ELSE s[i]
           leads(g, n) == \A i \in 1 .. n : g[i] = step(g, i)
           Long == {n \in Nat : n <= Len(s) => \E g \in [1 .. n -> S] : leads(g, n)}
<1>1. Len(s) \in Nat /\ Len(s) >= 1 /\ \A i \in 1 .. Len(s) : s[i] \in S
  OBVIOUS
<1>2. \E g \in [1 .. Len(s) -> S] : leads(g, Len(s))
  <2>1. 0 \in Long
    <3> DEFINE g == [i \in 1 .. 0 |-> s[i]]
    <3>1. g \in [1 .. 0 -> S] /\ leads(g, 0)
      OBVIOUS
    <3> QED  BY <3>1
  <2>2. ASSUME NEW n \in Nat, n \in Long PROVE n + 1 \in Long
    <3> SUFFICES ASSUME n + 1 <= Len(s) PROVE \E g \in [1 .. n + 1 -> S] : leads(g, n + 1)
      OBVIOUS
    <3>1. PICK g \in [1 .. n -> S] : leads(g, n)
      BY <1>1, <2>2
    <3> DEFINE h == [i \in 1 .. n + 1 |-> IF i = n + 1 THEN step(g, n + 1) ELSE g[i]]
    <3>2. step(g, n + 1) \in S
      BY <1>1
    <3>3. h \in [1 .. n + 1 -> S]
      BY <3>2
    <3>4. ASSUME NEW i \in 1 .. n + 1 PROVE h[i] = step(h, i)
      <4>1. i > 1 => i - 1 \in 1 .. n /\ h[i - 1] = g[i - 1]
        OBVIOUS
      <4>2. step(h, i) = step(g, i)
        BY <4>1
      <4>3. CASE i = n + 1
        BY <4>2, <4>3
      <4>4. CASE i # n + 1
        BY <3>1, <4>2, <4>4
      <4> QED  BY <4>3, <4>4
    <3> QED  BY <3>3, <3>4
  <2> HIDE DEF Long
  <2>3. Len(s) \in Long
    BY <1>1, <2>1, <2>2, Induction
  <2> QED  BY <1>1, <2>3 DEF Long
<1> DEFINE made(g) == [i \in 1 .. Len(s) |-> step(g, i)]
           g == CHOOSE h : h = made(h)
<1>3. g = made(g)
  <2>1. PICK h \in [1 .. Len(s) -> S] : leads(h, Len(s))
    BY <1>2
  <2>2. h = made(h)
    BY <2>1
  <2> HIDE DEF made
  <2> QED  BY <2>2
<1>4. Leader(s, better) = g[Len(s)]
  BY DEF Leader
<1> HIDE DEF g
<1>5. \A i \in 1 .. Len(s) : g[i] = step(g, i)
  BY <1>3
<1> HIDE DEF made
<1> DEFINE Unbettered == {n \in Nat : n + 1 <= Len(s) =>
                            /\ \E i \in 1 .. n + 1 : g[n + 1] = s[i]
                            /\ \A i \in 1 .. n + 1 : <<s[i], g[n + 1]>> \notin better}
<1>6. 0 \in Unbettered
  <2>1. g[1] = s[1]
    <3>1. 1 \in 1 .. Len(s)
      BY <1>1
    <3>2. g[1] = step(g, 1)
      BY <1>5, <3>1
    <3> QED  BY <3>2
  <2> QED  BY <1>1, <2>1 DEF StrictOrder
<1>7. ASSUME NEW n \in Nat, n \in Unbettered PROVE n + 1 \in Unbettered
  <2> SUFFICES ASSUME n + 2 <= Len(s)
               PROVE  /\ \E i \in 1 .. n + 2 : g[n + 2] = s[i]
                      /\ \A i \in 1 .. n + 2 : <<s[i], g[n + 2]>> \notin better
    OBVIOUS
  <2>1. PICK j \in 1 .. n + 1 : g[n + 1] = s[j]
    BY <1>1, <1>7
  <2>2. \A i \in 1 .. n + 1 : <<s[i], g[n + 1]>> \notin better
    BY <1>1, <1>7
  <2>3. g[n + 2] = IF <<s[n + 2], g[n + 1]>> \notin better THEN g[n + 1] ELSE s[n + 2]
    <3>1. n + 2 \in 1 .. Len(s) /\ n + 2 > 1 /\ (n + 2) - 1 = n + 1
      BY <1>1
    <3> QED  BY <1>5, <3>1
  <2>4. \A i \in 1 .. n + 2 : s[i] \in S /\ (i = n + 2 \/ i \in 1 .. n + 1)
    BY <1>1
  <2>5. CASE <<s[n + 2], g[n + 1]>> \notin better
    BY <2>1, <2>2, <2>3, <2>4, <2>5
  <2>6. CASE <<s[n + 2], g[n + 1]>> \in better
    <3>1. g[n + 2] = s[n + 2] /\ n + 2 \in 1 .. n + 2 /\ s[n + 2] \in S /\ s[j] \in S
      BY <2>3, <2>4, <2>6
    <3>2. ASSUME NEW i \in 1 .. n + 1 PROVE <<s[i], s[n + 2]>> \notin better
      <4>1. s[i] \in S /\ <<s[i], s[j]>> \notin better /\ <<s[n + 2], s[j]>> \in better
        BY <2>1, <2>2, <2>4, <2>6
      <4> QED  BY <3>1, <4>1 DEF StrictOrder
    <3>3. <<s[n + 2], s[n + 2]>> \notin better
      BY <3>1 DEF StrictOrder
    <3> QED  BY <2>4, <3>1, <3>2, <3>3
  <2> QED  BY <2>5, <2>6
<1> HIDE DEF Unbettered
<1>8. Len(s) - 1 \in Nat /\ Len(s) - 1 \in Unbettered
  BY <1>1, <1>6, <1>7, Induction
<1>9. /\ \E i \in 1 .. Len(s) : g[Len(s)] = s[i]
      /\ \A i \in 1 .. Len(s) : <<s[i], g[Len(s)]>> \notin better
  BY <1>1, <1>8 DEF Unbettered
<1> QED  BY <1>1, <1>4, <1>9

LEMMA ListIsSorted ==
  ASSUME NEW S, S \subseteq Contents
  PROVE  /\ IsFiniteSet(S) /\ Cardinality(S) \in Nat /\ (S # {} => Cardinality(S) > 0)
         /\ CollectMediaFiles(S) \in Seq(S) /\ Len(CollectMediaFiles(S)) = Cardinality(S)
         /\ \A f \in S : \E i \in 1 .. Cardinality(S) : CollectMediaFiles(S)[i] = f
<1>1. IsFiniteSet(S)
  BY ContentsAssumption, FS_Subset
<1>2. Cardinality(S) \in Nat /\ (S # {} => Cardinality(S) > 0)
  BY <1>1, FS_CardinalityType, FS_EmptySet
<1>3. /\ CollectMediaFiles(S) \in [1 .. Cardinality(S) -> S]
      /\ \A f \in S : \E i \in 1 .. Cardinality(S) : CollectMediaFiles(S)[i] = f
  BY <1>1, WalkOrderIsTotal, SortedEnumerates DEF CollectMediaFiles
<1> QED  BY <1>1, <1>2, <1>3

LEMMA LargestIsPicked ==
  ASSUME NEW S, S \subseteq Contents, S # {}
  PROVE  PickLargest(S) \in S /\ \A f \in S : f.size <= PickLargest(S).size
<1> DEFINE s == CollectMediaFiles(S)
           m == Leader(s, Larger(S))
<1>1. s \in Seq(S) /\ s # <<>> /\ \A f \in S : \E i \in 1 .. Len(s) : s[i] = f
  <2>1. Len(s) > 0 /\ s \in Seq(S) /\ \A f \in S : \E i \in 1 .. Len(s) : s[i] = f
    BY ListIsSorted
  <2> QED  BY <2>1
<1>2. \A f \in S : f.size \in Nat
  BY FileTyped
<1>3. \A f, g \in S : <<f, g>> \in Larger(S) <=> f.size > g.size
  BY DEF Larger
<1>4. Larger(S) \subseteq S \X S
  BY DEF Larger
<1>5. StrictOrder(Larger(S), S)
  BY <1>2, <1>3, <1>4 DEF StrictOrder
<1>6. m = PickLargest(S)
  BY DEF PickLargest
<1> HIDE DEF s, m
<1>7. m \in S /\ \A i \in 1 .. Len(s) : <<s[i], m>> \notin Larger(S)
  BY <1>1, <1>5, LeaderIsUnbettered DEF m
<1>8. \A f \in S : f.size <= m.size
  <2> SUFFICES ASSUME NEW f \in S PROVE f.size <= m.size
    OBVIOUS
  <2>1. <<f, m>> \notin Larger(S)
    BY <1>1, <1>7
  <2> QED  BY <1>2, <1>3, <1>7, <2>1
<1> QED  BY <1>6, <1>7, <1>8

LEMMA TiebreakIsUnbettered ==
  ASSUME NEW S, S \subseteq Contents, S # {}
  PROVE  /\ PickLargestWithRootTiebreak(S) \in S
         /\ InBand(PickLargestWithRootTiebreak(S), PickLargest(S))
         /\ \A f \in S : InBand(f, PickLargest(S)) =>
                           ~BetterTiebreakMain(f, PickLargestWithRootTiebreak(S))
<1> DEFINE largest == PickLargest(S)
           close == {f \in S : InBand(f, largest)}
           s == CollectMediaFiles(close)
           list == <<largest>> \o s
           m == Leader(list, Preferable(S))
<1>1. largest \in S /\ largest.size \in Nat
  BY LargestIsPicked, FileTyped
<1>2. largest \in close
  BY <1>1 DEF InBand
<1>3. m = PickLargestWithRootTiebreak(S)
  BY DEF PickLargestWithRootTiebreak
<1>4. close \subseteq S /\ \A f \in close : InBand(f, largest)
  OBVIOUS
<1>5. \A f \in S : InBand(f, largest) => f \in close
  OBVIOUS
<1>6. s \in Seq(close) /\ \A f \in close : \E i \in 1 .. Len(s) : s[i] = f
  BY <1>4, ListIsSorted
<1>7. StrictOrder(Preferable(S), S)
  <2>1. \A f, g \in S : <<f, g>> \in Preferable(S) <=> BetterTiebreakMain(f, g)
    BY DEF Preferable
  <2>2. Preferable(S) \subseteq S \X S
    BY DEF Preferable
  <2> QED  BY <2>1, <2>2 DEF StrictOrder, BetterTiebreakMain
<1> HIDE DEF largest, close, s, m
<1>8. list \in Seq(close) /\ list # <<>> /\ Len(list) = Len(s) + 1
  BY <1>2, <1>6
<1>9. \A f \in close : \E i \in 1 .. Len(list) : list[i] = f
  <2> SUFFICES ASSUME NEW f \in close PROVE \E i \in 1 .. Len(list) : list[i] = f
    OBVIOUS
  <2>1. PICK i \in 1 .. Len(s) : s[i] = f
    BY <1>6
  <2>2. i + 1 \in 1 .. Len(list) /\ list[i + 1] = s[i]
    BY <1>6, <1>8
  <2> QED  BY <2>1, <2>2
<1>10. list \in Seq(S) /\ \A i \in 1 .. Len(list) : list[i] \in close
  BY <1>4, <1>8, SeqMonotonic
<1> HIDE DEF list
<1>11. /\ \E i \in 1 .. Len(list) : m = list[i]
       /\ \A i \in 1 .. Len(list) : <<list[i], m>> \notin Preferable(S)
  BY <1>7, <1>8, <1>10, LeaderIsUnbettered DEF m
<1>12. m \in close /\ m \in S
  BY <1>4, <1>10, <1>11
<1>13. \A f \in close : ~BetterTiebreakMain(f, m)
  BY <1>4, <1>9, <1>11, <1>12 DEF Preferable
<1> QED  BY <1>3, <1>4, <1>5, <1>12, <1>13 DEF largest

-----------------------------------------------------------------------------
(* The folder.                                                              *)

LEMMA FolderHolds == DropSpec => [](folder \subseteq Contents)
<1>1. DropInit => folder \subseteq Contents
  BY DEF DropInit
<1>2. folder \subseteq Contents /\ [DropNext]_folder => (folder \subseteq Contents)'
  BY DEF DropNext, Settle
<1> QED  BY <1>1, <1>2, PTL DEF DropSpec

(* Parts numbered in sorted order are the sorted files, each once.          *)
LEMMA PartsAreSorted ==
  ASSUME NEW S, IsFiniteSet(S), NEW R, TotalOrder(R, S), NEW X,
         NEW parts \in [1 .. Cardinality(S) -> X],
         \A i \in 1 .. Cardinality(S) : parts[i].file = Sorted(S, R)[i]
  PROVE  FilesOf(parts) = S /\ Cardinality(S) \in Nat /\ Len(parts) = Cardinality(S)
BY SortedEnumerates DEF FilesOf

LEMMA MarkedParts ==
  ASSUME NEW S, S \subseteq Contents, DetectParts(S) # <<>>
  PROVE  /\ FilesOf(DetectParts(S)) \subseteq S
         /\ Len(DetectParts(S)) \in Nat /\ Len(DetectParts(S)) >= 2
         /\ Cardinality(FilesOf(DetectParts(S))) = Len(DetectParts(S))
<1> DEFINE hits == {f \in S : f.part > 0}
           ranked == Sorted(hits, PartOrder(hits))
           n == Cardinality(hits)
           parts == [i \in 1 .. n |-> [file |-> ranked[i], index |-> ranked[i].part]]
<1>1. hits \subseteq S /\ DetectParts(S) = (IF n < 2 THEN <<>> ELSE parts)
  BY DEF DetectParts
<1> HIDE DEF hits
<1>2. IsFiniteSet(hits) /\ n \in Nat
  BY <1>1, ListIsSorted
<1>3. TotalOrder(PartOrder(hits), hits)
  BY <1>1, PartOrderIsTotal
<1>4. ~(n < 2) /\ DetectParts(S) = parts
  BY <1>1
<1>5. /\ parts \in [1 .. n -> {parts[i] : i \in 1 .. n}]
      /\ \A i \in 1 .. n : parts[i].file = ranked[i]
  OBVIOUS
<1> HIDE DEF parts
<1>6. FilesOf(parts) = hits /\ Len(parts) = n
  BY <1>2, <1>3, <1>5, PartsAreSorted
<1> QED  BY <1>1, <1>2, <1>4, <1>6

LEMMA NumberedVobs ==
  ASSUME NEW S, S \subseteq Contents
  PROVE  /\ FilesOf(DiscParts(S)) = ContentVobs(S)
         /\ Len(DiscParts(S)) \in Nat /\ DOMAIN DiscParts(S) = 1 .. Len(DiscParts(S))
         /\ Cardinality(FilesOf(DiscParts(S))) = Len(DiscParts(S))
         /\ \A i \in 1 .. Len(DiscParts(S)) :
              DiscParts(S)[i].index = i /\ DiscParts(S)[i].file \in ContentVobs(S)
         /\ \A i, j \in 1 .. Len(DiscParts(S)) :
              i < j => <<DiscParts(S)[i].file, DiscParts(S)[j].file>> \in DiscOrder(ContentVobs(S))
<1> DEFINE vobs == ContentVobs(S)
           ranked == Sorted(vobs, DiscOrder(vobs))
           n == Cardinality(vobs)
           parts == [i \in 1 .. n |-> [file |-> ranked[i], index |-> i]]
<1>1. vobs \subseteq S /\ DiscParts(S) = parts
  BY DEF DiscParts, ContentVobs, Filed
<1> HIDE DEF vobs
<1>2. IsFiniteSet(vobs) /\ n \in Nat
  BY <1>1, ListIsSorted
<1>3. TotalOrder(DiscOrder(vobs), vobs)
  BY <1>1, DiscOrderIsTotal
<1>4. /\ parts \in [1 .. n -> {parts[i] : i \in 1 .. n}]
      /\ \A i \in 1 .. n : parts[i].file = ranked[i] /\ parts[i].index = i
  OBVIOUS
<1> HIDE DEF parts
<1>5. FilesOf(parts) = vobs /\ Len(parts) = n /\ DOMAIN parts = 1 .. n
  BY <1>2, <1>3, <1>4, PartsAreSorted
<1>6. /\ \A i \in 1 .. n : ranked[i] \in vobs
      /\ \A i, j \in 1 .. n : i < j => <<ranked[i], ranked[j]>> \in DiscOrder(vobs)
  BY <1>2, <1>3, SortedEnumerates
<1> HIDE DEF ranked
<1>7. \A i, j \in 1 .. n : i < j => <<parts[i].file, parts[j].file>> \in DiscOrder(vobs)
  BY <1>4, <1>6
<1>8. \A i \in 1 .. n : parts[i].index = i /\ parts[i].file \in vobs
  BY <1>4, <1>6
<1> HIDE DEF n
<1> QED  BY <1>1, <1>2, <1>5, <1>7, <1>8 DEF vobs, n

-----------------------------------------------------------------------------
(* Nothing is left behind.                                                  *)

(* What EveryFileHasARole says of an offer for the given files.             *)
Complete(offer, media) ==
    LET parts == FilesOf(offer.parts)
        loops == offer.extras
    IN  /\ media = parts \cup offer.scaffolding \cup UNION Range(loops)
        /\ parts \cap offer.scaffolding = {}
        /\ \A i \in DOMAIN loops : loops[i] \cap (parts \cup offer.scaffolding) = {}
        /\ \A i, j \in DOMAIN loops : i # j => loops[i] \cap loops[j] = {}
        /\ Cardinality(parts) = Len(offer.parts)

LEMMA MainIsOne ==
  ASSUME NEW f
  PROVE  /\ FilesOf(Main(f)) = {f} /\ Cardinality(FilesOf(Main(f))) = Len(Main(f))
         /\ Len(Main(f)) = 1 /\ Main(f)[1].file = f
<1>1. FilesOf(Main(f)) = {f} /\ Len(Main(f)) = 1 /\ Main(f)[1].file = f
  BY DEF FilesOf, Main
<1> QED  BY <1>1, FS_Singleton

(* The branches of classifyFolder.                                          *)
LEMMA Branches ==
  ASSUME NEW media
  PROVE  \/ LooksLikeDVD(media) /\ ClassifyFolder(media) = ClassifyDVD(media)
         \/ ~LooksLikeDVD(media) /\ SplitCandidates(media) = {} /\ ClassifyFolder(media) = NoOffer
         \/ /\ ~LooksLikeDVD(media) /\ DetectParts(SplitCandidates(media)) # <<>>
            /\ ClassifyFolder(media) = OfferMarked(media)
         \/ /\ ~LooksLikeDVD(media) /\ SplitCandidates(media) # {}
            /\ RootVideos(SplitCandidates(media)) = {}
            /\ ClassifyFolder(media) = OfferNested(media)
         \/ /\ ~LooksLikeDVD(media) /\ ClassifyFolder(media) = OfferRootVideo(media)
            /\ \E f \in RootVideos(SplitCandidates(media)) : RootVideos(SplitCandidates(media)) = {f}
         \/ /\ ~LooksLikeDVD(media) /\ RootVideos(SplitCandidates(media)) # {}
            /\ ClassifyFolder(media) = OfferLargestRootVideo(media)
BY DEF ClassifyFolder

(* An offer that is no disc: two loops, or three.                           *)
LEMMA TwoLoops ==
  ASSUME NEW media, NEW parts, NEW A, NEW B, NEW ambiguous,
         Cardinality(FilesOf(parts)) = Len(parts),
         media = FilesOf(parts) \cup A \cup B,
         FilesOf(parts) \cap A = {}, FilesOf(parts) \cap B = {}, A \cap B = {}
  PROVE  Complete(Offer(parts, <<A, B>>, ambiguous), media)
<1> DEFINE loops == <<A, B>>
<1>1. /\ Offer(parts, loops, ambiguous).parts = parts
      /\ Offer(parts, loops, ambiguous).extras = loops
      /\ Offer(parts, loops, ambiguous).scaffolding = {}
  BY DEF Offer
<1>2. DOMAIN loops = {1, 2} /\ loops[1] = A /\ loops[2] = B
  OBVIOUS
<1> HIDE DEF loops
<1>3. Range(loops) = {A, B}
  BY <1>2 DEF Range
<1>4. UNION {A, B} = A \cup B
  OBVIOUS
<1>5. \A i \in DOMAIN loops : loops[i] \cap (FilesOf(parts) \cup {}) = {}
  BY <1>2
<1>6. \A i, j \in DOMAIN loops : i # j => loops[i] \cap loops[j] = {}
  BY <1>2
<1>7. media = FilesOf(parts) \cup {} \cup UNION Range(loops)
  BY <1>3, <1>4
<1> HIDE DEF loops
<1>8. Complete(Offer(parts, loops, ambiguous), media)
  BY <1>1, <1>5, <1>6, <1>7 DEF Complete
<1> QED  BY <1>8 DEF loops

LEMMA ThreeLoops ==
  ASSUME NEW media, NEW parts, NEW A, NEW B, NEW C, NEW ambiguous,
         Cardinality(FilesOf(parts)) = Len(parts),
         media = FilesOf(parts) \cup A \cup B \cup C,
         FilesOf(parts) \cap A = {}, FilesOf(parts) \cap B = {}, FilesOf(parts) \cap C = {},
         A \cap B = {}, A \cap C = {}, B \cap C = {}
  PROVE  Complete(Offer(parts, <<A, B, C>>, ambiguous), media)
<1> DEFINE loops == <<A, B, C>>
<1>1. /\ Offer(parts, loops, ambiguous).parts = parts
      /\ Offer(parts, loops, ambiguous).extras = loops
      /\ Offer(parts, loops, ambiguous).scaffolding = {}
  BY DEF Offer
<1>2. DOMAIN loops = {1, 2, 3} /\ loops[1] = A /\ loops[2] = B /\ loops[3] = C
  OBVIOUS
<1> HIDE DEF loops
<1>3. Range(loops) = {A, B, C}
  BY <1>2 DEF Range
<1>4. UNION {A, B, C} = A \cup B \cup C
  OBVIOUS
<1>5. \A i \in DOMAIN loops : loops[i] \cap (FilesOf(parts) \cup {}) = {}
  BY <1>2
<1>6. \A i, j \in DOMAIN loops : i # j => loops[i] \cap loops[j] = {}
  BY <1>2
<1>7. media = FilesOf(parts) \cup {} \cup UNION Range(loops)
  BY <1>3, <1>4
<1>8. Complete(Offer(parts, loops, ambiguous), media)
  BY <1>1, <1>5, <1>6, <1>7 DEF Complete
<1> QED  BY <1>8 DEF loops

(* Branch by branch: what the loops append is what the parts leave.         *)
LEMMA ClassifiedIsComplete ==
  ASSUME NEW media, media \subseteq Contents, ClassifyFolder(media).parts # <<>>
  PROVE  Complete(ClassifyFolder(media), media)
<1> DEFINE candidates == SplitCandidates(media)
           always == AlwaysExtras(media)
           rootVideos == RootVideos(candidates)
           others == Others(candidates)
<1>1. /\ candidates \subseteq media /\ rootVideos \subseteq candidates
      /\ media = candidates \cup always /\ candidates \cap always = {}
      /\ candidates = rootVideos \cup others /\ rootVideos \cap others = {}
  BY DEF SplitCandidates, AlwaysExtras, RootVideos, Others
<1>2. CASE ClassifyFolder(media) = ClassifyDVD(media)
  <2> DEFINE parts == DiscParts(media)
             extra == Filed(media, "extra")
             scaffolding == Filed(media, "scaffolding")
  <2>1. /\ FilesOf(parts) = Filed(media, "part")
        /\ Cardinality(FilesOf(parts)) = Len(parts)
    BY NumberedVobs DEF ContentVobs
  <2>2. \A f \in media : DiscRole(f) \in {"part", "extra", "scaffolding"}
    <3> SUFFICES ASSUME NEW f \in media PROVE DiscRole(f) \in {"part", "extra", "scaffolding"}
      OBVIOUS
    <3>1. CASE f.kind \in {"ifo", "toc", "vob", "menu"}
      BY <3>1 DEF DiscRole
    <3>2. CASE f.kind \notin {"ifo", "toc", "vob", "menu"}
      BY <3>2 DEF DiscRole
    <3> QED  BY <3>1, <3>2
  <2>3. /\ media = FilesOf(parts) \cup scaffolding \cup extra
        /\ FilesOf(parts) \cap scaffolding = {} /\ FilesOf(parts) \cap extra = {}
        /\ scaffolding \cap extra = {}
    BY <2>1, <2>2 DEF Filed
  <2> DEFINE loops == <<extra>>
  <2>4. /\ ClassifyFolder(media).parts = parts /\ ClassifyFolder(media).extras = loops
        /\ ClassifyFolder(media).scaffolding = scaffolding
    BY <1>2 DEF ClassifyDVD
  <2>5. DOMAIN loops = {1} /\ loops[1] = extra
    OBVIOUS
  <2> HIDE DEF parts, extra, scaffolding, loops
  <2>6. Range(loops) = {extra}
    BY <2>5 DEF Range
  <2>7. media = FilesOf(parts) \cup scaffolding \cup UNION Range(loops)
    BY <2>3, <2>6
  <2>8. \A i \in DOMAIN loops : loops[i] \cap (FilesOf(parts) \cup scaffolding) = {}
    BY <2>3, <2>5
  <2>9. \A i, j \in DOMAIN loops : i # j => loops[i] \cap loops[j] = {}
    BY <2>5
  <2> QED  BY <2>1, <2>3, <2>4, <2>7, <2>8, <2>9 DEF Complete
<1>3. CASE ClassifyFolder(media) = NoOffer
  BY <1>3 DEF NoOffer
<1>4. CASE DetectParts(candidates) # <<>> /\ ClassifyFolder(media) = OfferMarked(media)
  <2> DEFINE parts == DetectParts(candidates)
             unmarked == {f \in candidates : f \notin FilesOf(parts)}
  <2>1. /\ FilesOf(parts) \subseteq candidates
        /\ Cardinality(FilesOf(parts)) = Len(parts)
    BY <1>1, <1>4, MarkedParts
  <2>2. ClassifyFolder(media) = Offer(parts, <<unmarked, always>>, FALSE)
    BY <1>4 DEF OfferMarked
  <2>3. /\ unmarked \cup FilesOf(parts) = candidates /\ unmarked \cap FilesOf(parts) = {}
    BY <2>1
  <2> HIDE DEF parts, unmarked, candidates, always
  <2>4. media = FilesOf(parts) \cup unmarked \cup always
    BY <1>1, <2>3
  <2>5. FilesOf(parts) \cap unmarked = {} /\ FilesOf(parts) \cap always = {} /\ unmarked \cap always = {}
    BY <1>1, <2>1, <2>3
  <2>6. Complete(Offer(parts, <<unmarked, always>>, FALSE), media)
    BY ONLY <2>1, <2>4, <2>5, TwoLoops
  <2> QED  BY <2>2, <2>6
<1>5. CASE candidates # {} /\ ClassifyFolder(media) = OfferNested(media)
  <2> DEFINE main == PickLargestWithRootTiebreak(candidates)
  <2>1. main \in candidates
    BY <1>1, <1>5, TiebreakIsUnbettered
  <2>2. ClassifyFolder(media) = Offer(Main(main), <<Rest(candidates, main), always>>, FALSE)
    BY <1>5 DEF OfferNested
  <2> HIDE DEF main, candidates, always
  <2>3. Rest(candidates, main) \cup {main} = candidates /\ main \notin Rest(candidates, main)
    BY <2>1 DEF Rest
  <2> DEFINE parts == Main(main)
             rest == Rest(candidates, main)
  <2>4. FilesOf(parts) = {main} /\ Cardinality(FilesOf(parts)) = Len(parts)
    BY MainIsOne
  <2> HIDE DEF parts, rest
  <2>5. media = FilesOf(parts) \cup rest \cup always
    BY <1>1, <2>3, <2>4 DEF rest
  <2>6. FilesOf(parts) \cap rest = {} /\ FilesOf(parts) \cap always = {} /\ rest \cap always = {}
    BY <1>1, <2>1, <2>3, <2>4 DEF rest
  <2>7. Complete(Offer(parts, <<rest, always>>, FALSE), media)
    BY ONLY <2>4, <2>5, <2>6, TwoLoops
  <2> QED  BY <2>2, <2>7 DEF parts, rest
<1>6. CASE /\ ClassifyFolder(media) = OfferRootVideo(media)
           /\ \E f \in rootVideos : rootVideos = {f}
  <2> DEFINE main == CHOOSE f \in rootVideos : TRUE
  <2>1. rootVideos = {main}
    BY <1>6
  <2>2. ClassifyFolder(media) = Offer(Main(main), <<others, always>>, FALSE)
    BY <1>6 DEF OfferRootVideo
  <2> HIDE DEF main, candidates, always, rootVideos, others
  <2> DEFINE parts == Main(main)
  <2>3. FilesOf(parts) = {main} /\ Cardinality(FilesOf(parts)) = Len(parts)
    BY MainIsOne
  <2> HIDE DEF parts
  <2>4. media = FilesOf(parts) \cup others \cup always
    BY <1>1, <2>1, <2>3
  <2>5. FilesOf(parts) \cap others = {} /\ FilesOf(parts) \cap always = {} /\ others \cap always = {}
    BY <1>1, <2>1, <2>3
  <2>6. Complete(Offer(parts, <<others, always>>, FALSE), media)
    BY ONLY <2>3, <2>4, <2>5, TwoLoops
  <2> QED  BY <2>2, <2>6 DEF parts
<1>7. CASE rootVideos # {} /\ ClassifyFolder(media) = OfferLargestRootVideo(media)
  <2> DEFINE main == PickLargest(rootVideos)
  <2>1. main \in rootVideos
    BY <1>1, <1>7, LargestIsPicked
  <2>2. ClassifyFolder(media) =
          Offer(Main(main), <<Rest(rootVideos, main), others, always>>, AmbiguousRootVideos(rootVideos))
    BY <1>7 DEF OfferLargestRootVideo
  <2> HIDE DEF main, candidates, always, rootVideos, others
  <2>3. Rest(rootVideos, main) \cup {main} = rootVideos /\ main \notin Rest(rootVideos, main)
    BY <2>1 DEF Rest
  <2> DEFINE parts == Main(main)
             rest == Rest(rootVideos, main)
             ambiguous == AmbiguousRootVideos(rootVideos)
  <2>4. FilesOf(parts) = {main} /\ Cardinality(FilesOf(parts)) = Len(parts)
    BY MainIsOne
  <2> HIDE DEF parts, rest, ambiguous
  <2>5. media = FilesOf(parts) \cup rest \cup others \cup always
    BY <1>1, <2>3, <2>4 DEF rest
  <2>6. /\ FilesOf(parts) \cap rest = {} /\ FilesOf(parts) \cap others = {}
        /\ FilesOf(parts) \cap always = {}
    BY <1>1, <2>1, <2>3, <2>4 DEF rest
  <2>7. rest \cap others = {} /\ rest \cap always = {} /\ others \cap always = {}
    BY <1>1, <2>3 DEF rest
  <2>8. Complete(Offer(parts, <<rest, others, always>>, ambiguous), media)
    BY ONLY <2>4, <2>5, <2>6, <2>7, ThreeLoops
  <2> QED  BY <2>2, <2>8 DEF parts, rest, ambiguous
<1> QED  BY <1>2, <1>3, <1>4, <1>5, <1>6, <1>7, Branches

(* In every branch the loops append exactly what the parts leave, and no    *)
(* two of them the same file, whatever files settle in whatever order.      *)
THEOREM EveryFileHasARoleHolds == DropSpec => []EveryFileHasARole
<1>1. ASSUME folder \subseteq Contents PROVE EveryFileHasARole
  <2>1. SUFFICES ASSUME TheOffer.parts # <<>> PROVE Complete(TheOffer, folder)
    BY DEF EveryFileHasARole, Complete
  <2> QED  BY <1>1, <2>1, ClassifiedIsComplete DEF TheOffer
<1> QED  BY <1>1, FolderHolds, PTL

-----------------------------------------------------------------------------
(* The main file.                                                           *)

LEMMA BandOfTheLargest ==
  ASSUME NEW S, S \subseteq Contents, NEW m \in S, \A f \in S : f.size <= m.size, NEW f \in S
  PROVE  InBand(f, m) <=> \A g \in S : InBand(f, g)
<1>1. f.size \in Nat /\ m.size \in Nat
  BY FileTyped
<1>2. ASSUME InBand(f, m), NEW g \in S PROVE InBand(f, g)
  <2>1. g.size \in Nat /\ g.size <= m.size
    BY FileTyped
  <2>2. \A a, b \in Nat : a <= b => a - (a * 10) \div 100 <= b - (b * 10) \div 100
    OBVIOUS
  <2>3. \A a \in Nat : a - (a * 10) \div 100 \in Int
    OBVIOUS
  <2> QED  BY <1>1, <1>2, <2>1, <2>2, <2>3 DEF InBand
<1> QED  BY <1>2

(* The one main file is a root video when there is one, and then the        *)
(* largest; else it is close to the largest and nothing close is preferable *)
(* to it.                                                                   *)
THEOREM MainIsUndominatedHolds == DropSpec => []MainIsUndominated
<1>1. ASSUME folder \subseteq Contents PROVE MainIsUndominated
  <2> DEFINE main == TheOffer.parts[1].file
             candidates == {f \in folder : IsCandidate(f)}
             rootVideos == {f \in candidates : RootLevel(f) /\ IsVideo(f)}
             close == {f \in candidates : \A g \in candidates : InBand(f, g)}
  <2>1. SUFFICES ASSUME ~TheOffer.disc, Len(TheOffer.parts) = 1
                 PROVE  IF rootVideos # {}
                        THEN /\ main \in rootVideos
                             /\ \A f \in rootVideos : f.size <= main.size
                             /\ TheOffer.ambiguous <=> \E f \in rootVideos : f # main /\ InBand(f, main)
                        ELSE /\ main \in close
                             /\ (\E f \in close : RootLevel(f)) => RootLevel(main)
                             /\ (\E f \in close : RootLevel(f) = RootLevel(main) /\ IsVideo(f)) => IsVideo(main)
    BY DEF MainIsUndominated
  <2>2. /\ candidates = SplitCandidates(folder) /\ rootVideos = RootVideos(SplitCandidates(folder))
        /\ candidates \subseteq Contents /\ rootVideos \subseteq Contents
    BY <1>1 DEF SplitCandidates, RootVideos
  <2>3. TheOffer # ClassifyDVD(folder) /\ TheOffer # NoOffer
    BY <2>1 DEF ClassifyDVD, NoOffer
  <2>4. ASSUME DetectParts(SplitCandidates(folder)) # <<>>
        PROVE  TheOffer # OfferMarked(folder)
    <3>1. SplitCandidates(folder) \subseteq Contents
      BY <2>2
    <3>2. Len(DetectParts(SplitCandidates(folder))) # 1
      <4>1. Len(DetectParts(SplitCandidates(folder))) >= 2
        BY <2>4, <3>1, MarkedParts
      <4> QED  BY <4>1
    <3>3. OfferMarked(folder).parts = DetectParts(SplitCandidates(folder))
      BY DEF OfferMarked, Offer
    <3> QED  BY <2>1, <3>2, <3>3
  <2>5. CASE /\ rootVideos # {}
             /\ TheOffer = OfferLargestRootVideo(folder)
    <3>1. main = PickLargest(rootVideos) /\ TheOffer.ambiguous = AmbiguousRootVideos(rootVideos)
      BY <2>2, <2>5, MainIsOne DEF OfferLargestRootVideo, Offer
    <3>2. main \in rootVideos /\ \A f \in rootVideos : f.size <= main.size
      BY <2>2, <2>5, <3>1, LargestIsPicked
    <3>3. TheOffer.ambiguous <=> \E f \in rootVideos : f # main /\ InBand(f, main)
      BY <3>1 DEF AmbiguousRootVideos
    <3> QED  BY <2>5, <3>2, <3>3
  <2>6. CASE /\ rootVideos = {} /\ candidates # {}
             /\ TheOffer = OfferNested(folder)
    <3>1. main = PickLargestWithRootTiebreak(candidates)
      BY <2>2, <2>6, MainIsOne DEF OfferNested, Offer
    <3> DEFINE largest == PickLargest(candidates)
    <3>2. /\ main \in candidates /\ InBand(main, largest)
          /\ \A f \in candidates : InBand(f, largest) => ~BetterTiebreakMain(f, main)
      BY <2>2, <2>6, <3>1, TiebreakIsUnbettered
    <3>3. largest \in candidates /\ \A f \in candidates : f.size <= largest.size
      BY <2>2, <2>6, LargestIsPicked
    <3> HIDE DEF largest, candidates, main
    <3>4. \A f \in candidates : InBand(f, largest) <=> \A g \in candidates : InBand(f, g)
      BY <2>2, <3>3, BandOfTheLargest
    <3>5. main \in close /\ \A f \in close : ~BetterTiebreakMain(f, main)
      BY <3>2, <3>4
    <3>6. \A f \in close : RootLevel(f) => RootLevel(main)
      BY <3>5 DEF BetterTiebreakMain
    <3>7. \A f \in close : RootLevel(f) = RootLevel(main) /\ IsVideo(f) => IsVideo(main)
      BY <3>5 DEF BetterTiebreakMain
    <3> QED  BY <2>6, <3>5, <3>6, <3>7
  <2>7. CASE TheOffer = OfferRootVideo(folder) /\ \E f \in rootVideos : rootVideos = {f}
    <3>1. main = CHOOSE f \in rootVideos : TRUE
      BY <2>2, <2>7, MainIsOne DEF OfferRootVideo, Offer
    <3>2. TheOffer.ambiguous = FALSE
      BY <2>7 DEF OfferRootVideo, Offer
    <3>3. rootVideos = {main}
      BY <2>7, <3>1
    <3>4. main.size \in Nat
      BY <2>2, <3>3, FileTyped
    <3> HIDE DEF main, rootVideos
    <3> QED  BY <3>2, <3>3, <3>4
  <2> QED  BY <2>2, <2>3, <2>4, <2>5, <2>6, <2>7, Branches DEF TheOffer
<1> QED  BY <1>1, FolderHolds, PTL

-----------------------------------------------------------------------------
(* Discs.                                                                   *)

Below(p, d) == SubSeq(d, Len(p) + 1, Len(d))
Unnested(d) == \A k \in 1 .. Len(d) - 1 : d[k] = VideoTS => d[k + 1] # VideoTS

LEMMA PrefixSplits ==
  ASSUME NEW p \in Seq(Nat), NEW d \in Seq(Nat), IsPrefix(p, d)
  PROVE  Below(p, d) \in Seq(Nat) /\ d = p \o Below(p, d)
<1>1. Len(p) <= Len(d) /\ SubSeq(p, 1, Len(p)) = SubSeq(d, 1, Len(p))
  BY DEF IsPrefix
<1>2. Len(p) \in Nat /\ Len(d) \in Nat
  OBVIOUS
<1>3. SubSeq(d, 1, Len(p)) \o SubSeq(d, Len(p) + 1, Len(d)) = SubSeq(d, 1, Len(d))
  <2>1. 1 \in 1 .. Len(d) + 1 /\ Len(p) \in 1 - 1 .. Len(d) /\ Len(d) \in Len(p) .. Len(d)
    BY <1>1, <1>2
  <2> QED  BY <2>1, ConcatAdjacentSubSeq
<1>4. SubSeq(p, 1, Len(p)) = p /\ SubSeq(d, 1, Len(d)) = d
  BY SubSeqFull
<1>5. Below(p, d) \in Seq(Nat)
  BY <1>1, <1>2 DEF Below
<1> QED  BY <1>1, <1>3, <1>4, <1>5 DEF Below

LEMMA WithoutEmpty == WithoutVideoTS(<<>>) = <<>>
BY DEF WithoutVideoTS

LEMMA WithoutAppend ==
  ASSUME NEW f \in Seq(Nat), NEW v \in Nat
  PROVE  WithoutVideoTS(Append(f, v)) = IF v = VideoTS THEN f ELSE Append(f, v)
<1> DEFINE d == Append(f, v)
<1>1. d \in Seq(Nat) /\ d # <<>> /\ Len(d) = Len(f) + 1 /\ d[Len(d)] = v /\ \A k \in 1 .. Len(f) : d[k] = f[k]
  BY AppendProperties
<1> HIDE DEF d
<1>2. SubSeq(d, 1, Len(f)) = f
  <2>1. /\ SubSeq(d, 1, Len(f)) \in Seq(Nat) /\ Len(SubSeq(d, 1, Len(f))) = Len(f)
        /\ \A k \in 1 .. Len(f) : SubSeq(d, 1, Len(f))[k] = f[k]
    BY <1>1
  <2> QED  BY <2>1, SeqEqual
<1>3. Len(d) - 1 = Len(f)
  BY <1>1
<1>4. Front(d) = f /\ Last(d) = v
  BY <1>1, <1>2, <1>3 DEF Front, Last
<1>5. WithoutVideoTS(d) = IF v = VideoTS THEN f ELSE d
  BY <1>1, <1>4 DEF WithoutVideoTS
<1> QED  BY <1>5 DEF d

LEMMA WithoutBelow ==
  ASSUME NEW p \in Seq(Nat), NEW a \in Seq(Nat), a # <<>>
  PROVE  WithoutVideoTS(p \o a) = p \o WithoutVideoTS(a)
<1>1. PICK f \in Seq(Nat), v \in Nat : a = Append(f, v)
  BY SequenceEmptyOrAppend
<1>2. p \o Append(f, v) = Append(p \o f, v)
  <2>1. p \o f \in Seq(Nat) /\ Len(p \o f) = Len(p) + Len(f)
    BY ConcatProperties
  <2>2. Append(f, v) \in Seq(Nat) /\ Len(Append(f, v)) = Len(f) + 1
    BY AppendProperties
  <2> DEFINE l == p \o Append(f, v)  r == Append(p \o f, v)
  <2>3. l \in Seq(Nat) /\ Len(l) = Len(p) + Len(f) + 1
    BY <2>2, ConcatProperties
  <2>4. r \in Seq(Nat) /\ Len(r) = Len(p) + Len(f) + 1
    BY <2>1, AppendProperties
  <2>5. ASSUME NEW k \in 1 .. Len(l) PROVE l[k] = r[k]
    BY <2>1, <2>2, <2>3
  <2> HIDE DEF l, r
  <2>6. l = r
    BY <2>3, <2>4, <2>5, SeqEqual
  <2> QED  BY <2>6 DEF l, r
<1>3. WithoutVideoTS(a) = IF v = VideoTS THEN f ELSE Append(f, v)
  BY <1>1, WithoutAppend
<1>4. p \o f \in Seq(Nat)
  OBVIOUS
<1>5. WithoutVideoTS(Append(p \o f, v)) = IF v = VideoTS THEN p \o f ELSE Append(p \o f, v)
  BY <1>4, WithoutAppend
<1> QED  BY <1>1, <1>2, <1>3, <1>5

(* Directories that are below p only by a VIDEO_TS.                         *)
LEMMA WithoutAll ==
  ASSUME NEW p \in Seq(Nat), NEW a \in Seq(Nat), a # <<>>, WithoutVideoTS(a) = <<>>, Unnested(p \o a)
  PROVE  WithoutVideoTS(p \o a) = p /\ WithoutVideoTS(p) = p
<1>1. WithoutVideoTS(p \o a) = p
  BY WithoutBelow, ConcatEmptySeq
<1>2. PICK f \in Seq(Nat), v \in Nat : a = Append(f, v)
  BY SequenceEmptyOrAppend
<1>3. f = <<>> /\ v = VideoTS
  <2>1. WithoutVideoTS(a) = IF v = VideoTS THEN f ELSE a
    BY <1>2, WithoutAppend
  <2> QED  BY <2>1
<1>4. CASE p = <<>>
  BY <1>1, <1>4, WithoutEmpty
<1>5. CASE p # <<>>
  <2>1. PICK g \in Seq(Nat), w \in Nat : p = Append(g, w)
    BY <1>5, SequenceEmptyOrAppend
  <2>2. Len(p) = Len(g) + 1 /\ p[Len(g) + 1] = w /\ Len(g) \in Nat
    BY <2>1, AppendProperties
  <2>3. a = <<VideoTS>>
    BY <1>2, <1>3
  <2>4. VideoTS \in Nat
    BY ContentsAssumption
  <2>5. /\ Len(p \o a) = Len(g) + 2 /\ (p \o a)[Len(g) + 1] = w
        /\ (p \o a)[(Len(g) + 1) + 1] = VideoTS
    BY <2>2, <2>3, <2>4
  <2>6. w # VideoTS
    <3>1. Len(g) + 1 \in 1 .. Len(p \o a) - 1
      BY <2>2, <2>5
    <3> QED  BY <2>5, <3>1 DEF Unnested
  <2> QED  BY <1>1, <2>1, <2>6, WithoutAppend
<1> QED  BY <1>4, <1>5

(* Two directories below one parent that differ but for a VIDEO_TS at their *)
(* end still do when the parent is taken away.                              *)
LEMMA DestinationsApart ==
  ASSUME NEW p \in Seq(Nat), NEW d \in Seq(Nat), NEW e \in Seq(Nat),
         IsPrefix(p, d), IsPrefix(p, e), Unnested(d), Unnested(e),
         WithoutVideoTS(Below(p, d)) = WithoutVideoTS(Below(p, e))
  PROVE  WithoutVideoTS(d) = WithoutVideoTS(e)
<1>1. Below(p, d) \in Seq(Nat) /\ d = p \o Below(p, d)
  BY PrefixSplits
<1>2. Below(p, e) \in Seq(Nat) /\ e = p \o Below(p, e)
  BY PrefixSplits
<1>3. CASE Below(p, d) # <<>> /\ Below(p, e) # <<>>
  <2>1. WithoutVideoTS(d) = p \o WithoutVideoTS(Below(p, d))
    BY <1>1, <1>3, WithoutBelow
  <2>2. WithoutVideoTS(e) = p \o WithoutVideoTS(Below(p, e))
    BY <1>2, <1>3, WithoutBelow
  <2> QED  BY <2>1, <2>2
<1>4. CASE Below(p, d) = <<>> /\ Below(p, e) # <<>>
  <2>1. d = p
    BY <1>1, <1>4, ConcatEmptySeq
  <2>2. WithoutVideoTS(Below(p, e)) = <<>>
    BY <1>4, WithoutEmpty
  <2> QED  BY <1>2, <1>4, <2>1, <2>2, WithoutAll
<1>5. CASE Below(p, d) # <<>> /\ Below(p, e) = <<>>
  <2>1. e = p
    BY <1>2, <1>5, ConcatEmptySeq
  <2>2. WithoutVideoTS(Below(p, d)) = <<>>
    BY <1>5, WithoutEmpty
  <2> QED  BY <1>1, <1>5, <2>1, <2>2, WithoutAll
<1>6. CASE Below(p, d) = <<>> /\ Below(p, e) = <<>>
  BY <1>1, <1>2, <1>6
<1> QED  BY <1>3, <1>4, <1>5, <1>6

LEMMA CommonIsPrefix ==
  ASSUME NEW D, D \subseteq Seq(Nat), D # {}
  PROVE  LongestCommonPrefix(D) \in Seq(Nat) /\ \A d \in D : IsPrefix(LongestCommonPrefix(D), d)
<1> DEFINE C == CommonPrefixes(D)
           long == LongestCommonPrefix(D)
<1>1. PICK d \in D : TRUE
  OBVIOUS
<1>2. C \subseteq Seq(Nat) /\ \A c \in C : \A e \in D : IsPrefix(c, e)
  <2>1. \A e \in D : Prefixes(e) \subseteq Seq(Nat)
    BY DEF Prefixes
  <2> QED  BY <2>1 DEF CommonPrefixes
<1>3. <<>> \in C
  <2>1. <<>> \in Prefixes(d)
    <3>1. 0 \in 0 .. Len(d) /\ SubSeq(d, 1, 0) = <<>>
      BY <1>1, SubSeqEmpty
    <3> QED  BY <3>1 DEF Prefixes
  <2>2. \A e \in D : IsPrefix(<<>>, e)
    BY DEF IsPrefix
  <2> QED  BY <1>1, <2>1, <2>2 DEF CommonPrefixes
<1>4. long = CHOOSE c \in C : \A o \in C : Len(o) <= Len(c)
  BY DEF LongestCommonPrefix
<1>5. \A c \in C : Len(c) \in Nat /\ Len(c) <= Len(d) /\ Len(d) \in Nat
  BY <1>1, <1>2 DEF IsPrefix
<1> HIDE DEF C, long
<1>6. PICK c \in C : \A o \in C : Len(o) <= Len(c)
  <2> DEFINE shorter == {Len(d) - Len(c) : c \in C}
  <2>1. shorter \subseteq Nat /\ shorter # {}
    BY <1>3, <1>5
  <2>2. PICK x \in shorter : \A y \in shorter : x <= y
    <3> HIDE DEF shorter
    <3> QED  BY <2>1, Least
  <2>3. PICK c \in C : x = Len(d) - Len(c)
    OBVIOUS
  <2>4. \A o \in C : Len(d) - Len(c) <= Len(d) - Len(o)
    BY <2>2, <2>3
  <2>5. \A o \in C : Len(o) <= Len(c)
    BY <1>5, <2>4
  <2> QED  BY <2>5
<1>7. long \in C
  BY <1>4, <1>6
<1> QED  BY <1>2, <1>7 DEF long

LEMMA DestinationOf ==
  ASSUME NEW p, NEW f, IsPrefix(p, f.dir)
  PROVE  DvdDestSubfolderFor(p, f) = Append(WithoutVideoTS(Below(p, f.dir)), VideoTS)
BY DEF DvdDestSubfolderFor, Below

LEMMA WithoutTyped ==
  ASSUME NEW d \in Seq(Nat)
  PROVE  WithoutVideoTS(d) \in Seq(Nat)
<1>1. CASE d = <<>>
  BY <1>1, WithoutEmpty
<1>2. CASE d # <<>>
  <2>1. PICK f \in Seq(Nat), v \in Nat : d = Append(f, v)
    BY <1>2, SequenceEmptyOrAppend
  <2> QED  BY <2>1, WithoutAppend
<1> QED  BY <1>1, <1>2

(* Whatever has settled, a disc of two content VOBs or more passes the      *)
(* importer's validation, plays in order and keeps apart from the other     *)
(* discs of its drop.                                                       *)
THEOREM DiscsImportWholeHolds ==
  ASSUME VobsApart, NoNestedVideoTS
  PROVE  DropSpec => []DiscsImportWhole
<1>1. ASSUME folder \subseteq Contents PROVE DiscsImportWhole
  <2> DEFINE parts == TheOffer.parts
             vobs == ContentVobs(folder)
             source == SourceFolder(TheOffer)
  <2>1. SUFFICES ASSUME TheOffer.disc, Len(parts) >= 2
                 PROVE  /\ ValidateAssignments(parts)
                        /\ \A i, j \in DOMAIN parts :
                             LET f == parts[i].file  g == parts[j].file
                             IN  /\ parts[i].index < parts[j].index /\ f.dir = g.dir /\ f.title = g.title
                                       => f.chunk < g.chunk
                                 /\ \A k \in DOMAIN parts :
                                      i < k /\ k < j /\ f.dir = g.dir => parts[k].file.dir = f.dir
                                 /\ WithoutVideoTS(f.dir) # WithoutVideoTS(g.dir) =>
                                      DvdDestSubfolderFor(source, f) # DvdDestSubfolderFor(source, g)
    BY DEF DiscsImportWhole
  <2>2. TheOffer = ClassifyDVD(folder)
    <3>1. \A p, e, a : Offer(p, e, a).disc = FALSE
      BY DEF Offer
    <3>2. /\ OfferMarked(folder).disc = FALSE /\ OfferNested(folder).disc = FALSE
          /\ OfferRootVideo(folder).disc = FALSE /\ OfferLargestRootVideo(folder).disc = FALSE
      BY <3>1 DEF OfferMarked, OfferNested, OfferRootVideo, OfferLargestRootVideo
    <3>3. NoOffer.disc = FALSE
      BY DEF NoOffer
    <3> QED  BY <2>1, <3>2, <3>3, Branches DEF TheOffer
  <2>3. parts = DiscParts(folder) /\ UNION Range(TheOffer.extras) \subseteq folder
    <3>1. TheOffer.extras = <<Filed(folder, "extra")>> /\ parts = DiscParts(folder)
      BY <2>2 DEF ClassifyDVD
    <3>2. Range(<<Filed(folder, "extra")>>) = {Filed(folder, "extra")}
      BY DEF Range
    <3> QED  BY <3>1, <3>2 DEF Filed
  <2> DEFINE n == Len(parts)
  <2>4. /\ FilesOf(parts) = vobs /\ n \in Nat /\ DOMAIN parts = 1 .. n
        /\ \A i \in 1 .. n : parts[i].index = i /\ parts[i].file \in vobs
        /\ \A i, j \in 1 .. n : i < j => <<parts[i].file, parts[j].file>> \in DiscOrder(vobs)
    BY <1>1, <2>3, NumberedVobs
  <2>5. /\ vobs \subseteq Contents /\ vobs \subseteq folder
        /\ \A f, g \in vobs : f.dir = g.dir /\ f.title = g.title /\ f.chunk = g.chunk => f = g
    BY <1>1 DEF VobsApart, ContentVobs, Filed
  <2>6. \A f, g \in vobs : <<f, g>> \in DiscOrder(vobs) =>
           \/ Before(f.dir, g.dir)
           \/ f.dir = g.dir /\ f.chunk <= g.chunk /\ f # g
    <3>1. \A f \in vobs : f.chunk \in Nat /\ f.base \in Nat
      BY <2>5, FileTyped
    <3> HIDE DEF vobs
    <3> QED  BY <3>1 DEF DiscOrder
  <2>7. \A f \in Contents : f.dir \in Seq(Nat) /\ f.chunk \in Nat /\ Unnested(f.dir)
    BY FileTyped DEF NoNestedVideoTS, Unnested
  <2>8. source \in Seq(Nat) /\ \A f \in vobs : IsPrefix(source, f.dir)
    <3> DEFINE D == {f.dir : f \in FilesOf(parts) \cup UNION Range(TheOffer.extras)}
    <3>1. D \subseteq Seq(Nat)
      BY <1>1, <2>3, <2>4, <2>5, <2>7
    <3>2. \A f \in vobs : f.dir \in D
      BY <2>4
    <3>3. 1 \in 1 .. n
      BY <2>1, <2>4
    <3>4. D # {}
      BY <2>4, <3>2, <3>3
    <3>5. source = LongestCommonPrefix(D)
      BY DEF SourceFolder
    <3> HIDE DEF D
    <3> QED  BY <3>1, <3>2, <3>4, <3>5, CommonIsPrefix
  <2>9. ValidateAssignments(parts)
    <3>1. {parts[i].index : i \in DOMAIN parts} = 1 .. n
      BY <2>4
    <3> QED  BY <2>1, <3>1 DEF ValidateAssignments
  <2> HIDE DEF parts, vobs, source, n
  <2>10. ASSUME NEW i \in 1 .. n, NEW j \in 1 .. n, i < j, parts[i].file.dir = parts[j].file.dir,
                parts[i].file.title = parts[j].file.title
         PROVE  parts[i].file.chunk < parts[j].file.chunk
    <3> DEFINE f == parts[i].file  g == parts[j].file
    <3>1. f \in vobs /\ g \in vobs /\ <<f, g>> \in DiscOrder(vobs)
      BY <2>4, <2>10
    <3>2. ~Before(f.dir, g.dir)
      BY <2>5, <2>7, <2>10, <3>1, BeforeIsTotal
    <3>3. f.chunk <= g.chunk /\ f # g
      BY <2>6, <3>1, <3>2
    <3>4. f.chunk # g.chunk
      BY <2>5, <2>10, <3>1, <3>3
    <3>5. f.chunk \in Nat /\ g.chunk \in Nat
      BY <2>5, <2>7, <3>1
    <3> QED  BY <3>3, <3>4, <3>5
  <2>11. ASSUME NEW i \in 1 .. n, NEW j \in 1 .. n, NEW k \in 1 .. n, i < k, k < j,
                parts[i].file.dir = parts[j].file.dir
         PROVE  parts[k].file.dir = parts[i].file.dir
    <3> DEFINE f == parts[i].file  g == parts[j].file  h == parts[k].file
    <3>1. /\ f \in vobs /\ g \in vobs /\ h \in vobs
          /\ <<f, h>> \in DiscOrder(vobs) /\ <<h, g>> \in DiscOrder(vobs)
      BY <2>4, <2>11
    <3>2. f.dir \in Seq(Nat) /\ h.dir \in Seq(Nat)
      BY <2>5, <2>7, <3>1
    <3>3. (f.dir = h.dir \/ Before(f.dir, h.dir)) /\ (h.dir = f.dir \/ Before(h.dir, f.dir))
      BY <2>6, <2>11, <3>1
    <3>4. ~(Before(f.dir, h.dir) /\ Before(h.dir, f.dir))
      BY <3>2, BeforeIsTotal, BeforeTransitive
    <3> QED  BY <3>3, <3>4
  <2>12. ASSUME NEW i \in 1 .. n, NEW j \in 1 .. n,
                DvdDestSubfolderFor(source, parts[i].file) = DvdDestSubfolderFor(source, parts[j].file)
         PROVE  WithoutVideoTS(parts[i].file.dir) = WithoutVideoTS(parts[j].file.dir)
    <3> DEFINE d == parts[i].file.dir  e == parts[j].file.dir
    <3>1. /\ d \in Seq(Nat) /\ e \in Seq(Nat) /\ Unnested(d) /\ Unnested(e)
          /\ IsPrefix(source, d) /\ IsPrefix(source, e)
      BY <2>4, <2>5, <2>7, <2>8
    <3>2. Append(WithoutVideoTS(Below(source, d)), VideoTS) = Append(WithoutVideoTS(Below(source, e)), VideoTS)
      BY <2>12, <3>1, DestinationOf
    <3>3. WithoutVideoTS(Below(source, d)) \in Seq(Nat) /\ WithoutVideoTS(Below(source, e)) \in Seq(Nat)
      BY <2>8, <3>1, PrefixSplits, WithoutTyped
    <3>4. WithoutVideoTS(Below(source, d)) = WithoutVideoTS(Below(source, e))
      BY <3>2, <3>3, SamePath, ContentsAssumption
    <3> QED  BY <2>8, <3>1, <3>4, DestinationsApart
  <2> QED  BY <2>4, <2>9, <2>10, <2>11, <2>12
<1> QED  BY <1>1, FolderHolds, PTL

-----------------------------------------------------------------------------
(* Sums over finite sets of rows.                                           *)

Some(T) == CHOOSE x \in T : TRUE
SumStep(g, T, rows) == IF T = {} THEN 0 ELSE rows[Some(T)].size + g[T \ {Some(T)}]
Unfolds(g, S, rows) == g = [T \in SUBSET S |-> SumStep(g, T, rows)]
Sized(S, rows) == IsFiniteSet(S) /\ \A i \in S : rows[i].size \in Nat

LEMMA SizedSubset ==
  ASSUME NEW rows, NEW S, Sized(S, rows), NEW T \in SUBSET S
  PROVE  /\ Sized(T, rows) /\ Cardinality(T) \in Nat
         /\ T # {} => Some(T) \in T
         /\ T = {} <=> Cardinality(T) = 0
         /\ \A x \in T : Cardinality(T \ {x}) = Cardinality(T) - 1
BY FS_Subset, FS_CardinalityType, FS_EmptySet, FS_RemoveElement DEF Sized, Some

LEMMA SumExists ==
  ASSUME NEW rows, NEW S, Sized(S, rows)
  PROVE  \E g \in [SUBSET S -> Nat] : Unfolds(g, S, rows)
<1> DEFINE Upto(k) == {T \in SUBSET S : Cardinality(T) <= k}
           Ok(k) == \E g \in [Upto(k) -> Nat] : \A T \in Upto(k) : g[T] = SumStep(g, T, rows)
           Good == {k \in Nat : Ok(k)}
<1>0. \A T \in SUBSET S : /\ Cardinality(T) \in Nat
                          /\ T = {} <=> Cardinality(T) = 0
                          /\ T # {} => /\ Some(T) \in T /\ rows[Some(T)].size \in Nat
                                       /\ Cardinality(T \ {Some(T)}) = Cardinality(T) - 1
  BY SizedSubset DEF Sized
<1>00. \A T \in SUBSET S : Cardinality(T) \in Nat
  BY <1>0
<1>1. Ok(0)
  <2> DEFINE g == [T \in Upto(0) |-> 0]
  <2>1. ASSUME NEW T \in Upto(0) PROVE T = {}
    <3>1. T \in SUBSET S /\ Cardinality(T) <= 0 /\ Cardinality(T) \in Nat
      BY <1>00
    <3>2. Cardinality(T) = 0
      BY <3>1
    <3> QED  BY <1>0, <3>1, <3>2
  <2>2. \A T \in Upto(0) : g[T] = SumStep(g, T, rows)
    BY <2>1 DEF SumStep
  <2> QED  BY <2>2
<1>2. ASSUME NEW k \in Nat, Ok(k) PROVE Ok(k + 1)
  <2>1. PICK g \in [Upto(k) -> Nat] : \A T \in Upto(k) : g[T] = SumStep(g, T, rows)
    BY <1>2
  <2> DEFINE h == [T \in Upto(k + 1) |-> SumStep(g, T, rows)]
  <2>2. \A T \in Upto(k + 1) : T # {} => T \ {Some(T)} \in Upto(k)
    BY <1>0
  <2>3. h \in [Upto(k + 1) -> Nat]
    BY <1>0, <2>2 DEF SumStep
  <2>4. ASSUME NEW T \in Upto(k) PROVE T \in Upto(k + 1) /\ h[T] = g[T]
    <3>1. T \in Upto(k + 1)
      BY <1>00
    <3>2. h[T] = SumStep(g, T, rows)
      BY <3>1
    <3> QED  BY <2>1, <3>1, <3>2
  <2>5. \A T \in Upto(k + 1) : h[T] = SumStep(h, T, rows)
    BY <2>2, <2>4 DEF SumStep
  <2> QED  BY <2>3, <2>5
<1>3. Nat \subseteq Good
  <2> HIDE DEF Ok
  <2>1. 0 \in Good /\ \A k \in Nat : k \in Good => k + 1 \in Good
    BY <1>1, <1>2
  <2> HIDE DEF Good
  <2> QED  BY <2>1, Induction
<1>4. Ok(Cardinality(S))
  BY <1>0, <1>3
<1>5. Upto(Cardinality(S)) = SUBSET S
  BY <1>0, FS_Subset DEF Sized
<1>6. PICK g \in [SUBSET S -> Nat] : \A T \in SUBSET S : g[T] = SumStep(g, T, rows)
  BY <1>4, <1>5
<1> QED  BY <1>6 DEF Unfolds

LEMMA SumUnique ==
  ASSUME NEW rows, NEW S, Sized(S, rows), NEW V \in SUBSET S, NEW g, NEW h,
         Unfolds(g, S, rows), Unfolds(h, V, rows)
  PROVE  \A T \in SUBSET V : g[T] = h[T]
<1> DEFINE Good == {n \in Nat : \A T \in SUBSET V : Cardinality(T) = n => g[T] = h[T]}
<1>1. \A T \in SUBSET V : g[T] = SumStep(g, T, rows) /\ h[T] = SumStep(h, T, rows)
  BY DEF Unfolds
<1>2. \A T \in SUBSET V : /\ Cardinality(T) \in Nat
                          /\ T = {} <=> Cardinality(T) = 0
                          /\ T # {} => /\ Some(T) \in T
                                       /\ Cardinality(T \ {Some(T)}) = Cardinality(T) - 1
  BY SizedSubset
<1>3. 0 \in Good
  <2>1. \A T \in SUBSET V : Cardinality(T) = 0 => T = {}
    BY <1>2
  <2> QED  BY <1>1, <2>1 DEF SumStep
<1>4. ASSUME NEW n \in Nat, n \in Good PROVE n + 1 \in Good
  <2> SUFFICES ASSUME NEW T \in SUBSET V, Cardinality(T) = n + 1 PROVE g[T] = h[T]
    OBVIOUS
  <2>1. T # {}
    <3>1. n + 1 # 0
      OBVIOUS
    <3> QED  BY <1>2, <3>1
  <2>2. T \ {Some(T)} \in SUBSET V /\ Cardinality(T \ {Some(T)}) = n
    BY <1>2, <2>1
  <2>3. g[T \ {Some(T)}] = h[T \ {Some(T)}]
    BY <1>4, <2>2
  <2> QED  BY <1>1, <2>1, <2>3 DEF SumStep
<1> HIDE DEF Good
<1>5. Nat \subseteq Good
  BY <1>3, <1>4, Induction
<1> QED  BY <1>2, <1>5 DEF Good

LEMMA SumOfUnfolds ==
  ASSUME NEW rows, NEW S, Sized(S, rows)
  PROVE  /\ SumOf(S, rows) \in Nat
         /\ SumOf(S, rows) = IF S = {} THEN 0 ELSE rows[Some(S)].size + SumOf(S \ {Some(S)}, rows)
<1> DEFINE fold(T) == CHOOSE g : Unfolds(g, T, rows)
<1>1. \A T : SumOf(T, rows) = fold(T)[T]
  BY DEF SumOf, MapThenSumSet, MapThenFoldSet, Unfolds, SumStep, Some
<1> HIDE DEF fold
<1>2. \A T \in SUBSET S : Sized(T, rows) /\ Unfolds(fold(T), T, rows)
  BY SizedSubset, SumExists DEF fold
<1>3. SumOf(S, rows) \in Nat
  <2>1. PICK g \in [SUBSET S -> Nat] : Unfolds(g, S, rows)
    BY SumExists
  <2>2. S \in SUBSET S /\ Unfolds(fold(S), S, rows)
    BY <1>2
  <2>3. g[S] = fold(S)[S]
    <3>1. \A V \in SUBSET S : \A f, h :
             Unfolds(f, S, rows) /\ Unfolds(h, V, rows) => \A T \in SUBSET V : f[T] = h[T]
      BY SumUnique
    <3> QED  BY <2>1, <2>2, <3>1
  <2> QED  BY <1>1, <2>3
<1>4. fold(S)[S] = SumStep(fold(S), S, rows)
  BY <1>2 DEF Unfolds
<1>5. ASSUME NEW T \in SUBSET S PROVE fold(S)[T] = SumOf(T, rows)
  <2>1. Unfolds(fold(S), S, rows) /\ Unfolds(fold(T), T, rows)
    BY <1>2
  <2>2. \A V \in SUBSET T : fold(S)[V] = fold(T)[V]
    BY <2>1, SumUnique
  <2> QED  BY <1>1, <2>2
<1> QED  BY <1>1, <1>3, <1>4, <1>5 DEF SumStep

(* A sum whatever element is taken out.                                     *)
LEMMA SumWithout ==
  ASSUME NEW rows, NEW S, Sized(S, rows), NEW y \in S
  PROVE  SumOf(S, rows) = rows[y].size + SumOf(S \ {y}, rows)
<1> DEFINE without(T, x) == rows[x].size + SumOf(T \ {x}, rows)
           Good == {n \in Nat : \A T \in SUBSET S : Cardinality(T) = n =>
                                  \A x \in T : SumOf(T, rows) = without(T, x)}
<1>1. \A T \in SUBSET S : /\ Sized(T, rows) /\ Cardinality(T) \in Nat
                          /\ \A x \in T : Cardinality(T \ {x}) = Cardinality(T) - 1 /\ rows[x].size \in Nat
                          /\ T # {} => Some(T) \in T
  BY SizedSubset DEF Sized
<1>2. \A T \in SUBSET S : /\ SumOf(T, rows) \in Nat
                          /\ T # {} => SumOf(T, rows) = without(T, Some(T))
  BY <1>1, SumOfUnfolds
<1>3. 0 \in Good
  <2>1. \A T \in SUBSET S : Cardinality(T) = 0 => T = {}
    BY <1>1, SizedSubset
  <2> QED  BY <2>1
<1>4. ASSUME NEW n \in Nat, n \in Good PROVE n + 1 \in Good
  <2> SUFFICES ASSUME NEW T \in SUBSET S, Cardinality(T) = n + 1, NEW x \in T
               PROVE  SumOf(T, rows) = without(T, x)
    OBVIOUS
  <2> DEFINE c == Some(T)  U == (T \ {x}) \ {c}
  <2>1. c \in T /\ SumOf(T, rows) = without(T, c)
    BY <1>1, <1>2
  <2>2. CASE c = x
    <3> HIDE DEF c
    <3> QED  BY <2>1, <2>2
  <2>3. CASE c # x
    <3>1. /\ T \ {c} \in SUBSET S /\ x \in T \ {c} /\ Cardinality(T \ {c}) = n
          /\ T \ {x} \in SUBSET S /\ c \in T \ {x} /\ Cardinality(T \ {x}) = n
      BY <1>1, <2>1, <2>3
    <3>2. SumOf(T \ {c}, rows) = without(T \ {c}, x) /\ SumOf(T \ {x}, rows) = without(T \ {x}, c)
      BY <1>4, <3>1
    <3>3. (T \ {c}) \ {x} = U
      OBVIOUS
    <3>4. SumOf(U, rows) \in Nat /\ rows[c].size \in Nat /\ rows[x].size \in Nat
      <4>1. U \in SUBSET S
        OBVIOUS
      <4> QED  BY <1>1, <1>2, <2>1, <4>1
    <3> HIDE DEF c
    <3>5. SumOf(T \ {c}, rows) = rows[x].size + SumOf(U, rows)
      BY <3>2, <3>3
    <3>6. SumOf(T \ {x}, rows) = rows[c].size + SumOf(U, rows)
      BY <3>2
    <3>7. SumOf(T, rows) = rows[c].size + SumOf(T \ {c}, rows)
      BY <2>1
    <3> HIDE DEF U
    <3> QED  BY <3>4, <3>5, <3>6, <3>7
  <2> QED  BY <2>2, <2>3
<1>5. Nat \subseteq Good
  <2> HIDE DEF Good
  <2> QED  BY <1>3, <1>4, Induction
<1>6. S \in SUBSET S /\ Cardinality(S) \in Nat
  BY <1>1
<1> QED  BY <1>5, <1>6

(* A sum does not depend on how the rows are numbered.                      *)
Image(b, S) == {b[x] : x \in S}

Carries(b, S, rows, others) ==
    /\ \A x, y \in S : b[x] = b[y] => x = y
    /\ \A x \in S : others[b[x]].size = rows[x].size

LEMMA SumRenumbered ==
  ASSUME NEW rows, NEW others, NEW S, NEW T, NEW b \in [S -> T],
         Sized(S, rows), Carries(b, S, rows, others)
  PROVE  /\ SumOf(Image(b, S), others) = SumOf(S, rows)
         /\ Cardinality(Image(b, S)) = Cardinality(S)
<1> DEFINE image(Q) == {b[x] : x \in Q}
           Good == {n \in Nat : \A Q \in SUBSET S : Cardinality(Q) = n => SumOf(image(Q), others) = SumOf(Q, rows)}
<1>0. /\ \A x, y \in S : b[x] = b[y] => x = y
      /\ \A x \in S : others[b[x]].size = rows[x].size
  BY DEF Carries
<1>1. Sized(image(S), others) /\ Cardinality(image(S)) = Cardinality(S)
  <2>1. b \in Bijection(S, image(S))
    BY <1>0 DEF Bijection, Injection, Surjection, IsInjective
  <2>2. IsFiniteSet(image(S)) /\ Cardinality(image(S)) = Cardinality(S)
    BY <2>1, FS_Bijection DEF ExistsBijection, Sized
  <2> QED  BY <1>0, <2>2 DEF Sized
<1>2. \A Q \in SUBSET S : /\ Sized(Q, rows) /\ Cardinality(Q) \in Nat
                          /\ \A x \in Q : Cardinality(Q \ {x}) = Cardinality(Q) - 1
                          /\ Q = {} <=> Cardinality(Q) = 0
  BY SizedSubset
<1>3. \A Q \in SUBSET S : image(Q) \in SUBSET image(S) /\ Sized(image(Q), others)
  <2> SUFFICES ASSUME NEW Q \in SUBSET S PROVE image(Q) \in SUBSET image(S) /\ Sized(image(Q), others)
    OBVIOUS
  <2>1. image(Q) \in SUBSET image(S)
    OBVIOUS
  <2> HIDE DEF image
  <2> QED  BY <1>1, <2>1, SizedSubset
<1>4. 0 \in Good
  <2>1. \A Q \in SUBSET S : Cardinality(Q) = 0 => Q = {} /\ image(Q) = {}
    BY <1>2
  <2>2. Sized({}, rows) /\ Sized({}, others)
    BY FS_EmptySet DEF Sized
  <2>3. SumOf({}, rows) = 0 /\ SumOf({}, others) = 0
    BY <2>2, SumOfUnfolds
  <2> QED  BY <2>1, <2>3
<1>5. ASSUME NEW n \in Nat, n \in Good PROVE n + 1 \in Good
  <2> SUFFICES ASSUME NEW Q \in SUBSET S, Cardinality(Q) = n + 1
               PROVE  SumOf(image(Q), others) = SumOf(Q, rows)
    OBVIOUS
  <2>1. Q # {}
    BY <1>2
  <2>2. PICK x \in Q : TRUE
    BY <2>1
  <2>3. Q \ {x} \in SUBSET S /\ Cardinality(Q \ {x}) = n
    BY <1>2
  <2>4. SumOf(image(Q \ {x}), others) = SumOf(Q \ {x}, rows)
    BY <1>5, <2>3
  <2>5. image(Q \ {x}) = image(Q) \ {b[x]} /\ b[x] \in image(Q)
    BY <1>0
  <2>6. SumOf(Q, rows) = rows[x].size + SumOf(Q \ {x}, rows)
    BY <1>2, SumWithout
  <2> HIDE DEF image
  <2>7. SumOf(image(Q), others) = others[b[x]].size + SumOf(image(Q) \ {b[x]}, others)
    BY <1>3, <2>5, SumWithout
  <2> QED  BY <1>0, <2>4, <2>5, <2>6, <2>7
<1>6. Nat \subseteq Good
  <2> HIDE DEF Good
  <2> QED  BY <1>4, <1>5, Induction
<1>7. S \in SUBSET S /\ Cardinality(S) \in Nat
  BY <1>2
<1> QED  BY <1>1, <1>6, <1>7 DEF Image

-----------------------------------------------------------------------------
(* Renumbering the rows: b sends the positions of s to those of t.          *)

Renumbers(b, s, t) ==
    /\ b \in [DOMAIN s -> DOMAIN t]
    /\ \A i, j \in DOMAIN s : b[i] = b[j] => i = j
    /\ \A k \in DOMAIN t : \E i \in DOMAIN s : b[i] = k
    /\ \A i \in DOMAIN s : t[b[i]] = s[i]

LEMMA DomainOfSeq ==
  ASSUME NEW X, NEW s \in Seq(X)
  PROVE  /\ DOMAIN s = 1 .. Len(s) /\ Len(s) \in Nat /\ DOMAIN s \subseteq Nat
         /\ IsFiniteSet(DOMAIN s) /\ Cardinality(DOMAIN s) = Len(s)
         /\ \A i \in DOMAIN s : s[i] \in X
<1>1. DOMAIN s = 1 .. Len(s) /\ Len(s) \in Nat /\ \A i \in DOMAIN s : s[i] \in X
  OBVIOUS
<1>2. IsFiniteSet(1 .. Len(s)) /\ Cardinality(1 .. Len(s)) = Len(s)
  BY <1>1, FS_Interval
<1> QED  BY <1>1, <1>2

LEMMA ArrangedRenumbers ==
  ASSUME NEW X, NEW s \in Seq(X), NEW R, TotalOrder(R, DOMAIN s)
  PROVE  LET b == Sorted(DOMAIN s, R)
         IN  /\ Arranged(s, R) \in Seq(X) /\ Len(Arranged(s, R)) = Len(s) /\ DOMAIN Arranged(s, R) = DOMAIN s
             /\ Renumbers(b, Arranged(s, R), s)
             /\ \A i, j \in DOMAIN s : i < j => <<b[i], b[j]>> \in R
<1> DEFINE b == Sorted(DOMAIN s, R)
           D == DOMAIN s
<1>1. D = 1 .. Len(s) /\ Len(s) \in Nat /\ IsFiniteSet(D) /\ Cardinality(D) = Len(s) /\ \A i \in D : s[i] \in X
  BY DomainOfSeq
<1>2. /\ b \in [D -> D] /\ \A f \in D : \E i \in D : b[i] = f
      /\ \A i, j \in D : i < j => <<b[i], b[j]>> \in R
  <2>1. TotalOrder(R, D) /\ b = Sorted(D, R)
    OBVIOUS
  <2> HIDE DEF D, b
  <2>2. /\ b \in [1 .. Cardinality(D) -> D] /\ \A f \in D : \E i \in 1 .. Cardinality(D) : b[i] = f
        /\ \A i, j \in 1 .. Cardinality(D) : i < j => <<b[i], b[j]>> \in R
    BY <1>1, <2>1, SortedEnumerates
  <2>3. 1 .. Cardinality(D) = D
    BY <1>1
  <2> QED  BY <2>2, <2>3
<1>3. Arranged(s, R) = [n \in D |-> s[b[n]]]
  BY DEF Arranged
<1> HIDE DEF b
<1>4. Arranged(s, R) \in [1 .. Len(s) -> X]
  BY <1>1, <1>2, <1>3
<1>5. Arranged(s, R) \in Seq(X) /\ Len(Arranged(s, R)) = Len(s)
  BY <1>1, <1>4
<1>6. ASSUME NEW i \in D, NEW j \in D, b[i] = b[j] PROVE i = j
  <2>1. \A x \in D : <<x, x>> \notin R
    BY DEF TotalOrder, StrictOrder
  <2>2. ~(i < j) /\ ~(j < i)
    BY <1>2, <1>6, <2>1
  <2> QED  BY <1>1, <2>2
<1>7. Renumbers(b, Arranged(s, R), s)
  BY <1>2, <1>3, <1>6 DEF Renumbers
<1> QED  BY <1>2, <1>3, <1>5, <1>7 DEF b

(* The order of ListVersions and the order of Compose are total.            *)
LEMMA LargestFirstIsTotal ==
  ASSUME NEW rows \in Seq(VersionRow)
  PROVE  TotalOrder(LargestFirst(rows), DOMAIN rows)
<1>1. DOMAIN rows \subseteq Nat /\ \A i \in DOMAIN rows : rows[i].size \in Nat
  <2>1. DOMAIN rows \subseteq Nat /\ \A i \in DOMAIN rows : rows[i] \in VersionRow
    BY DomainOfSeq
  <2> QED  BY <2>1, FormatAssumption DEF VersionRow
<1> QED  BY <1>1 DEF TotalOrder, StrictOrder, LargestFirst

LEMMA BestFirstIsTotal ==
  ASSUME NEW X, NEW lines \in Seq(X), \A x \in X : x.height \in Nat
  PROVE  TotalOrder(BestFirst(lines), DOMAIN lines)
<1>1. DOMAIN lines \subseteq Nat /\ \A i \in DOMAIN lines : lines[i].height \in Nat
  BY DomainOfSeq
<1> QED  BY <1>1 DEF TotalOrder, StrictOrder, BestFirst

-----------------------------------------------------------------------------
(* The lines of a format, whatever the numbers of the rows.                 *)

Lines(rows) == {Line(rows, i) : i \in DOMAIN rows}
Of(rows, x) == {i \in DOMAIN rows : rows[i].format = x.format /\ rows[i].height = x.height}
Tied(rows) == \E i, j \in DOMAIN rows :
                  /\ ~SameGroup(rows[i], rows[j])
                  /\ rows[i].height = rows[j].height /\ rows[i].size = rows[j].size
(* The line x is above the line y: it is higher, or as high and holds a     *)
(* file larger than all of y's.                                             *)
Beats(rows, x, y) ==
    \/ x.height > y.height
    \/ /\ x.height = y.height
       /\ \E i \in Of(rows, x) : \A j \in Of(rows, y) : rows[i].size > rows[j].size

LEMMA RowTyped ==
  ASSUME NEW rows \in Seq(VersionRow), NEW i \in DOMAIN rows
  PROVE  /\ rows[i].size \in Nat /\ rows[i].height \in Nat
         /\ Line(rows, i).height = rows[i].height /\ Line(rows, i).format = rows[i].format
         /\ i \in Of(rows, Line(rows, i))
         /\ Mine(rows, i) \subseteq DOMAIN rows /\ Sized(Mine(rows, i), rows)
<1>1. /\ \A k \in DOMAIN rows : rows[k] \in VersionRow
      /\ IsFiniteSet(DOMAIN rows)
  BY DomainOfSeq
<1>2. \A k \in DOMAIN rows : rows[k].size \in Nat /\ rows[k].height \in Nat
  BY <1>1, FormatAssumption DEF VersionRow
<1>3. Mine(rows, i) \subseteq DOMAIN rows
  BY DEF Mine
<1>4. IsFiniteSet(Mine(rows, i))
  BY <1>1, <1>3, FS_Subset
<1> QED  BY <1>2, <1>3, <1>4 DEF Line, Of, Sized

LEMMA BeatsIsAsymmetric ==
  ASSUME NEW rows \in Seq(VersionRow), NEW x \in Lines(rows), NEW y \in Lines(rows), Beats(rows, x, y)
  PROVE  ~Beats(rows, y, x)
<1>1. x.height \in Nat /\ y.height \in Nat
  BY RowTyped DEF Lines
<1>2. \A z : Of(rows, z) \subseteq DOMAIN rows
  BY DEF Of
<1>3. \A i \in DOMAIN rows : rows[i].size \in Nat
  BY RowTyped
<1> QED  BY <1>1, <1>2, <1>3 DEF Beats

LEMMA LineRenumbered ==
  ASSUME NEW s, NEW t, NEW b, Renumbers(b, s, t), NEW i \in DOMAIN s, Sized(Mine(s, i), s)
  PROVE  Line(t, b[i]) = Line(s, i)
<1> DEFINE S == Mine(s, i)
           c == [x \in S |-> b[x]]
<1>1. S \subseteq DOMAIN s /\ Sized(S, s)
  BY DEF Mine
<1>2. /\ b \in [DOMAIN s -> DOMAIN t] /\ \A x, y \in DOMAIN s : b[x] = b[y] => x = y
      /\ \A k \in DOMAIN t : \E x \in DOMAIN s : b[x] = k
      /\ \A x \in DOMAIN s : t[b[x]] = s[x]
  BY DEF Renumbers
<1>3. Mine(t, b[i]) = Image(c, S)
  BY <1>2 DEF Mine, Image
<1> HIDE DEF S
<1>4. c \in [S -> DOMAIN t] /\ \A x, y \in S : c[x] = c[y] => x = y
  BY <1>1, <1>2
<1>5. \A x \in S : t[c[x]].size = s[x].size
  BY <1>1, <1>2
<1> HIDE DEF c
<1>6. SumOf(Image(c, S), t) = SumOf(S, s) /\ Cardinality(Image(c, S)) = Cardinality(S)
  <2> DEFINE V == DOMAIN t
  <2>1. c \in [S -> V] /\ Carries(c, S, s, t)
    BY <1>4, <1>5 DEF Carries
  <2> HIDE DEF V
  <2>2. Sized(S, s)
    BY <1>1
  <2>3. SumOf(Image(c, S), t) = SumOf(S, s)
    BY <2>1, <2>2, SumRenumbered
  <2>4. Cardinality(Image(c, S)) = Cardinality(S)
    BY <2>1, <2>2, SumRenumbered
  <2> QED  BY <2>3, <2>4
<1>7. t[b[i]] = s[i]
  BY <1>2
<1> QED  BY <1>3, <1>6, <1>7 DEF Line, S

LEMMA LinesRenumbered ==
  ASSUME NEW s \in Seq(VersionRow), NEW t \in Seq(VersionRow), NEW b, Renumbers(b, s, t)
  PROVE  /\ Lines(t) = Lines(s)
         /\ \A x, y : Beats(t, x, y) <=> Beats(s, x, y)
         /\ Tied(t) <=> Tied(s)
<1>1. /\ b \in [DOMAIN s -> DOMAIN t]
      /\ \A k \in DOMAIN t : \E x \in DOMAIN s : b[x] = k
      /\ \A x \in DOMAIN s : t[b[x]] = s[x]
  BY DEF Renumbers
<1>2. \A i \in DOMAIN s : Line(t, b[i]) = Line(s, i)
  BY LineRenumbered, RowTyped
<1>3. Lines(t) = Lines(s)
  BY <1>1, <1>2 DEF Lines
<1>4. \A x : \A i \in DOMAIN s : i \in Of(s, x) <=> b[i] \in Of(t, x)
  BY <1>1 DEF Of
<1>5. \A x : Of(s, x) \subseteq DOMAIN s /\ Of(t, x) \subseteq DOMAIN t
  BY DEF Of
<1>6. ASSUME NEW x, NEW y
      PROVE  (\E i \in Of(t, x) : \A j \in Of(t, y) : t[i].size > t[j].size)
             <=> (\E i \in Of(s, x) : \A j \in Of(s, y) : s[i].size > s[j].size)
  <2>1. ASSUME NEW i \in Of(t, x), \A j \in Of(t, y) : t[i].size > t[j].size
        PROVE  \E h \in Of(s, x) : \A j \in Of(s, y) : s[h].size > s[j].size
    <3>1. PICK h \in DOMAIN s : b[h] = i
      BY <1>1, <1>5
    <3>2. h \in Of(s, x) /\ t[i] = s[h]
      BY <1>1, <1>4, <3>1
    <3>3. ASSUME NEW j \in Of(s, y) PROVE s[h].size > s[j].size
      <4>1. j \in DOMAIN s /\ b[j] \in Of(t, y)
        BY <1>4, <1>5
      <4>2. t[i].size > t[b[j]].size /\ t[b[j]] = s[j]
        BY <1>1, <2>1, <4>1
      <4> QED  BY <3>2, <4>2
    <3> QED  BY <3>2, <3>3
  <2>2. ASSUME NEW i \in Of(s, x), \A j \in Of(s, y) : s[i].size > s[j].size
        PROVE  \E h \in Of(t, x) : \A j \in Of(t, y) : t[h].size > t[j].size
    <3>1. b[i] \in Of(t, x) /\ t[b[i]] = s[i]
      BY <1>1, <1>4, <1>5
    <3>2. ASSUME NEW j \in Of(t, y) PROVE t[b[i]].size > t[j].size
      <4>1. PICK h \in DOMAIN s : b[h] = j
        BY <1>1, <1>5
      <4>2. h \in Of(s, y) /\ t[j] = s[h]
        BY <1>1, <1>4, <4>1
      <4> QED  BY <2>2, <3>1, <4>2
    <3> QED  BY <3>1, <3>2
  <2> QED  BY <2>1, <2>2
<1>7. \A x, y : Beats(t, x, y) <=> Beats(s, x, y)
  BY <1>6 DEF Beats
<1>8. Tied(t) <=> Tied(s)
  <2>1. Tied(t) => Tied(s)
    BY <1>1 DEF Tied
  <2>2. ASSUME Tied(s) PROVE Tied(t)
    <3>1. PICK i, j \in DOMAIN s : /\ ~SameGroup(s[i], s[j])
                                  /\ s[i].height = s[j].height /\ s[i].size = s[j].size
      BY <2>2 DEF Tied
    <3>2. b[i] \in DOMAIN t /\ b[j] \in DOMAIN t /\ t[b[i]] = s[i] /\ t[b[j]] = s[j]
      BY <1>1
    <3> QED  BY <3>1, <3>2 DEF Tied
  <2> QED  BY <2>1, <2>2
<1> QED  BY <1>3, <1>7, <1>8

-----------------------------------------------------------------------------
(* The lines in their order, and that there is only one such list.          *)

Above(rows) == {p \in Lines(rows) \X Lines(rows) : Beats(rows, p[1], p[2])}
Enumerates(F, k, X, R) ==
    /\ F \in [1 .. k -> X]
    /\ \A x \in X : \E n \in 1 .. k : F[n] = x
    /\ \A m, n \in 1 .. k : m < n => <<F[m], F[n]>> \in R
Asymmetric(R) == \A x, y : <<x, y>> \in R => <<y, x>> \notin R

LEMMA EnumeratesOnce ==
  ASSUME NEW X, NEW R, Asymmetric(R), NEW k \in Nat, NEW F, Enumerates(F, k, X, R)
  PROVE  /\ \A m, n \in 1 .. k : F[m] = F[n] => m = n
         /\ Cardinality(X) = k
<1>1. ASSUME NEW m \in 1 .. k, NEW n \in 1 .. k, F[m] = F[n] PROVE m = n
  <2>1. ~(m < n)
    BY <1>1 DEF Enumerates, Asymmetric
  <2>2. ~(n < m)
    BY <1>1 DEF Enumerates, Asymmetric
  <2> QED  BY <2>1, <2>2
<1>2. F \in Bijection(1 .. k, X)
  BY <1>1 DEF Enumerates, Bijection, Injection, Surjection, IsInjective
<1>3. IsFiniteSet(1 .. k) /\ Cardinality(1 .. k) = k
  BY FS_Interval
<1>4. Cardinality(X) = k
  BY <1>2, <1>3, FS_Bijection DEF ExistsBijection
<1> QED  BY <1>1, <1>4

LEMMA EnumerationsAgree ==
  ASSUME NEW X, NEW R, Asymmetric(R), NEW k \in Nat, NEW l \in Nat, NEW F, NEW G,
         Enumerates(F, k, X, R), Enumerates(G, l, X, R)
  PROVE  F = G
<1>1. k = l
  BY EnumeratesOnce
<1> DEFINE Good == {n \in Nat : \A m \in 1 .. n : m <= k => F[m] = G[m]}
<1>2. 0 \in Good
  OBVIOUS
<1>3. ASSUME NEW n \in Nat, n \in Good PROVE n + 1 \in Good
  <2> DEFINE h == n + 1
  <2> SUFFICES ASSUME h <= k PROVE F[h] = G[h]
    BY <1>3
  <2>1. \A m \in 1 .. k : m < h => F[m] = G[m]
    BY <1>3
  <2>2. h \in 1 .. k
    OBVIOUS
  <2> HIDE DEF h
  <2>3. PICK p \in 1 .. k : G[p] = F[h]
    BY <1>1, <2>2 DEF Enumerates
  <2>4. PICK q \in 1 .. k : F[q] = G[h]
    BY <1>1, <2>2 DEF Enumerates
  <2>5. ~(p < h)
    BY <2>1, <2>2, <2>3, EnumeratesOnce
  <2>6. ~(q < h)
    BY <1>1, <2>1, <2>2, <2>4, EnumeratesOnce
  <2>7. ~(h < p /\ h < q)
    <3> SUFFICES ASSUME h < p, h < q PROVE FALSE
      OBVIOUS
    <3>1. <<G[h], G[p]>> \in R /\ <<F[h], F[q]>> \in R
      BY <1>1, <2>2 DEF Enumerates
    <3>2. <<G[h], F[h]>> \in R /\ <<F[h], G[h]>> \in R
      BY <2>3, <2>4, <3>1
    <3> QED  BY <3>2 DEF Asymmetric
  <2> QED  BY <2>2, <2>3, <2>4, <2>5, <2>6, <2>7
<1> HIDE DEF Good
<1>4. Nat \subseteq Good
  BY <1>2, <1>3, Induction
<1>5. \A m \in 1 .. k : F[m] = G[m]
  BY <1>4 DEF Good
<1>6. F \in [1 .. k -> X] /\ G \in [1 .. k -> X]
  BY <1>1 DEF Enumerates
<1> QED  BY <1>5, <1>6

LEMMA AboveIsAsymmetric ==
  ASSUME NEW rows \in Seq(VersionRow)
  PROVE  Asymmetric(Above(rows))
BY BeatsIsAsymmetric DEF Asymmetric, Above

LEMMA AscendingEnumerates ==
  ASSUME NEW S, S \subseteq Nat, IsFiniteSet(S)
  PROVE  /\ Cardinality(S) \in Nat
         /\ Ascending(S) \in [1 .. Cardinality(S) -> S]
         /\ \A x \in S : \E n \in 1 .. Cardinality(S) : Ascending(S)[n] = x
         /\ \A m, n \in 1 .. Cardinality(S) : m < n => Ascending(S)[m] < Ascending(S)[n]
<1> DEFINE R == {p \in S \X S : p[1] < p[2]}
<1>1. TotalOrder(R, S)
  BY DEF TotalOrder, StrictOrder
<1>2. Ascending(S) = Sorted(S, R)
  BY DEF Ascending
<1>3. \A x, y : <<x, y>> \in R => x < y
  OBVIOUS
<1> HIDE DEF R
<1>4. /\ Cardinality(S) \in Nat
      /\ Sorted(S, R) \in [1 .. Cardinality(S) -> S]
      /\ \A x \in S : \E n \in 1 .. Cardinality(S) : Sorted(S, R)[n] = x
      /\ \A m, n \in 1 .. Cardinality(S) : m < n => <<Sorted(S, R)[m], Sorted(S, R)[n]>> \in R
  BY <1>1, SortedEnumerates
<1> QED  BY <1>2, <1>3, <1>4

(* Every line is the line of a first occurrence.                            *)
LEMMA FirstOfEach ==
  ASSUME NEW rows \in Seq(VersionRow), NEW i \in DOMAIN rows
  PROVE  \E a \in Firsts(rows) : Line(rows, a) = Line(rows, i)
<1>1. DOMAIN rows = 1 .. Len(rows) /\ Len(rows) \in Nat
  BY DomainOfSeq
<1>2. Mine(rows, i) \subseteq Nat /\ i \in Mine(rows, i)
  BY <1>1 DEF Mine, SameGroup
<1>3. PICK a \in Mine(rows, i) : \A j \in Mine(rows, i) : a <= j
  BY <1>2, Least
<1>4. a \in DOMAIN rows /\ SameGroup(rows[i], rows[a])
  BY <1>3 DEF Mine
<1>5. Mine(rows, a) = Mine(rows, i)
  BY <1>4 DEF Mine, SameGroup
<1>6. a \in Firsts(rows)
  <2> SUFFICES ASSUME NEW j \in 1 .. a - 1, SameGroup(rows[a], rows[j]) PROVE FALSE
    BY <1>4 DEF Firsts
  <2>1. j \in DOMAIN rows /\ j < a
    BY <1>1, <1>4
  <2>2. j \in Mine(rows, i)
    BY <1>5, <2>1 DEF Mine
  <2> QED  BY <1>1, <1>3, <1>4, <2>1, <2>2
<1>7. Line(rows, a) = Line(rows, i)
  BY <1>4, <1>5 DEF Line, SameGroup
<1> QED  BY <1>6, <1>7

(* Between lines of one height, that of the earlier first occurrence is     *)
(* above the other: the rows come with the largest file first.              *)
LEMMA EarlierIsAbove ==
  ASSUME NEW rows \in Seq(VersionRow), ~Tied(rows),
         \A i, j \in DOMAIN rows : i < j => rows[i].size >= rows[j].size,
         NEW a \in Firsts(rows), NEW c \in Firsts(rows), a < c, rows[a].height = rows[c].height
  PROVE  Beats(rows, Line(rows, a), Line(rows, c))
<1>1. DOMAIN rows = 1 .. Len(rows) /\ Len(rows) \in Nat /\ a \in DOMAIN rows /\ c \in DOMAIN rows
  BY DomainOfSeq DEF Firsts
<1>2. a \in Of(rows, Line(rows, a)) /\ Line(rows, a).height = rows[a].height /\ Line(rows, c).height = rows[c].height
  BY <1>1, RowTyped
<1>3. ASSUME NEW j \in Of(rows, Line(rows, c)) PROVE rows[a].size > rows[j].size
  <2>1. j \in DOMAIN rows /\ SameGroup(rows[c], rows[j])
    BY <1>1, RowTyped DEF Of, SameGroup
  <2>2. ~(j < c)
    <3> SUFFICES ASSUME j < c PROVE FALSE
      OBVIOUS
    <3>1. j \in 1 .. c - 1
      BY <1>1, <2>1
    <3> QED  BY <2>1, <3>1 DEF Firsts
  <2>3. a < j
    BY <1>1, <2>1, <2>2
  <2>4. ~SameGroup(rows[a], rows[j])
    <3>1. a \in 1 .. c - 1
      BY <1>1
    <3>2. ~SameGroup(rows[c], rows[a])
      BY <3>1 DEF Firsts
    <3> QED  BY <2>1, <3>2 DEF SameGroup
  <2>5. rows[a].size # rows[j].size
    BY <1>1, <2>1, <2>4 DEF Tied, SameGroup
  <2>6. rows[a].size >= rows[j].size /\ rows[a].size \in Nat /\ rows[j].size \in Nat
    BY <1>1, <2>1, <2>3, RowTyped
  <2> QED  BY <2>5, <2>6
<1> QED  BY <1>2, <1>3 DEF Beats

LEMMA ListedRows ==
  ASSUME NEW rows \in Seq(VersionRow)
  PROVE  /\ ListVersions(rows) \in Seq(VersionRow)
         /\ \E b : Renumbers(b, ListVersions(rows), rows)
         /\ \A i, j \in DOMAIN ListVersions(rows) :
              i < j => ListVersions(rows)[i].size >= ListVersions(rows)[j].size
<1> DEFINE R == LargestFirst(rows)
           b == Sorted(DOMAIN rows, R)
           L == ListVersions(rows)
<1>1. /\ L \in Seq(VersionRow) /\ DOMAIN L = DOMAIN rows /\ Renumbers(b, L, rows)
      /\ \A i, j \in DOMAIN rows : i < j => <<b[i], b[j]>> \in R
  BY LargestFirstIsTotal, ArrangedRenumbers DEF ListVersions
<1>2. \A i, j : <<i, j>> \in R => rows[i].size >= rows[j].size
  <2>1. \A i \in DOMAIN rows : rows[i].size \in Nat
    BY RowTyped
  <2> QED  BY <2>1 DEF LargestFirst
<1>3. \A i \in DOMAIN L : rows[b[i]] = L[i]
  BY <1>1 DEF Renumbers
<1> HIDE DEF R, b, L
<1>4. \A i, j \in DOMAIN L : i < j => L[i].size >= L[j].size
  BY <1>1, <1>2, <1>3
<1> QED  BY <1>1, <1>4 DEF L

LEMMA FormatEnumerates ==
  ASSUME NEW rows \in Seq(VersionRow), ~Tied(rows)
  PROVE  \E k \in Nat : Enumerates(FormatOf(rows), k, Lines(rows), Above(rows))
<1> DEFINE L == ListVersions(rows)
           D == Firsts(L)
           first == Ascending(D)
           k == Cardinality(D)
           G == Grouped(L)
           R == BestFirst(G)
           t == Sorted(DOMAIN G, R)
           F == Compose(G)
           X == Lines(L)
<1>1. /\ L \in Seq(VersionRow) /\ ~Tied(L) /\ X = Lines(rows)
      /\ \A x, y : Beats(L, x, y) <=> Beats(rows, x, y)
      /\ \A i, j \in DOMAIN L : i < j => L[i].size >= L[j].size
  BY ListedRows, LinesRenumbered
<1> HIDE DEF L
<1>2. D \subseteq DOMAIN L /\ D \subseteq Nat /\ IsFiniteSet(D)
  <2>1. DOMAIN L \subseteq Nat /\ IsFiniteSet(DOMAIN L)
    BY <1>1, DomainOfSeq
  <2>2. D \subseteq DOMAIN L
    BY DEF Firsts
  <2> QED  BY <2>1, <2>2, FS_Subset
<1>3. /\ k \in Nat /\ first \in [1 .. k -> D] /\ \A x \in D : \E n \in 1 .. k : first[n] = x
      /\ \A m, n \in 1 .. k : m < n => first[m] < first[n]
  <2> HIDE DEF D
  <2> QED  BY <1>2, AscendingEnumerates
<1>4. G = [n \in 1 .. k |-> Line(L, first[n])]
  BY DEF Grouped
<1> HIDE DEF D, k, first, G
<1>5. G \in [1 .. k -> X]
  BY <1>2, <1>3, <1>4 DEF Lines
<1>6. G \in Seq(X) /\ DOMAIN G = 1 .. k
  BY <1>3, <1>5
<1>7. \A x \in X : x.height \in Nat
  BY <1>1, RowTyped DEF Lines
<1> HIDE DEF X
<1>8. /\ DOMAIN F = 1 .. k /\ Renumbers(t, F, G)
      /\ \A m, n \in 1 .. k : m < n => <<t[m], t[n]>> \in R
  <2>1. TotalOrder(R, DOMAIN G)
    BY <1>6, <1>7, BestFirstIsTotal
  <2> QED  BY <1>6, <2>1, ArrangedRenumbers DEF Compose
<1> HIDE DEF F, t
<1>9. /\ t \in [1 .. k -> 1 .. k] /\ \A n \in 1 .. k : \E m \in 1 .. k : t[m] = n
      /\ \A n \in 1 .. k : F[n] = G[t[n]]
  BY <1>6, <1>8 DEF Renumbers
<1>10. F \in [1 .. k -> X]
  <2>1. F = [n \in 1 .. k |-> F[n]]
    BY <1>8 DEF F, Compose, Arranged
  <2> QED  BY <1>5, <1>9, <2>1
<1>11. ASSUME NEW x \in X PROVE \E n \in 1 .. k : F[n] = x
  <2>1. PICK i \in DOMAIN L : x = Line(L, i)
    BY DEF X, Lines
  <2>2. PICK a \in D : Line(L, a) = x
    BY <1>1, <2>1, FirstOfEach DEF D
  <2>3. PICK n \in 1 .. k : first[n] = a
    BY <1>3
  <2>4. G[n] = x
    BY <1>4, <2>2, <2>3
  <2>5. PICK m \in 1 .. k : t[m] = n
    BY <1>9
  <2>6. F[m] = x
    BY <1>9, <2>4, <2>5
  <2> QED  BY <2>6
<1>12. ASSUME NEW m \in 1 .. k, NEW n \in 1 .. k, m < n PROVE Beats(L, F[m], F[n])
  <2> DEFINE i == t[m]
             j == t[n]
             a == first[i]
             c == first[j]
  <2>1. i \in 1 .. k /\ j \in 1 .. k /\ <<i, j>> \in R /\ F[m] = G[i] /\ F[n] = G[j]
    BY <1>8, <1>9, <1>12
  <2>2. a \in D /\ c \in D /\ G[i] = Line(L, a) /\ G[j] = Line(L, c)
    BY <1>3, <1>4, <2>1
  <2>3. G[i].height > G[j].height \/ (G[i].height = G[j].height /\ i < j)
    BY <2>1 DEF BestFirst
  <2>4. CASE G[i].height > G[j].height
    BY <2>1, <2>4 DEF Beats
  <2>5. CASE G[i].height = G[j].height /\ i < j
    <3>1. a < c
      BY <1>3, <2>1, <2>5
    <3> HIDE DEF a, c, i, j
    <3>2. L[a].height = L[c].height
      BY <1>1, <1>2, <2>2, <2>5, RowTyped
    <3>3. Beats(L, Line(L, a), Line(L, c))
      BY <1>1, <2>2, <3>1, <3>2, EarlierIsAbove DEF D
    <3> QED  BY <2>1, <2>2, <3>3
  <2> QED  BY <2>3, <2>4, <2>5
<1>13. Enumerates(F, k, X, Above(rows))
  BY <1>1, <1>3, <1>10, <1>11, <1>12 DEF Enumerates, Above
<1>14. F = FormatOf(rows)
  BY DEF F, G, L, FormatOf
<1> QED  BY <1>1, <1>3, <1>13, <1>14

(* The format depends on the rows and not on their numbers.                 *)
LEMMA FormatRenumbered ==
  ASSUME NEW s \in Seq(VersionRow), NEW t \in Seq(VersionRow), NEW b, Renumbers(b, s, t), ~Tied(s)
  PROVE  FormatOf(t) = FormatOf(s)
<1>1. ~Tied(t) /\ Lines(t) = Lines(s) /\ Above(t) = Above(s)
  BY LinesRenumbered DEF Above
<1>2. PICK k \in Nat : Enumerates(FormatOf(s), k, Lines(s), Above(s))
  BY FormatEnumerates
<1>3. PICK l \in Nat : Enumerates(FormatOf(t), l, Lines(s), Above(s))
  BY <1>1, FormatEnumerates
<1>4. Asymmetric(Above(s))
  BY AboveIsAsymmetric
<1> QED  BY <1>2, <1>3, <1>4, EnumerationsAgree

LEMMA WithoutIsSeq ==
  ASSUME versions \in Seq(VersionRow), NEW i \in DOMAIN versions
  PROVE  /\ Without(i) \in Seq(VersionRow) /\ Len(Without(i)) = Len(versions) - 1
         /\ \A n \in 1 .. Len(versions) - 1 :
              Without(i)[n] = IF n < i THEN versions[n] ELSE versions[n + 1]
<1> DEFINE l == Len(versions) - 1
<1>1. /\ DOMAIN versions = 1 .. Len(versions) /\ l \in Nat /\ i \in 1 .. Len(versions)
      /\ \A n \in 1 .. Len(versions) : versions[n] \in VersionRow
  BY DomainOfSeq
<1>2. Without(i) = [n \in 1 .. l |-> IF n < i THEN versions[n] ELSE versions[n + 1]]
  BY DEF Without
<1>3. Without(i) \in [1 .. l -> VersionRow]
  BY <1>1, <1>2
<1> QED  BY <1>1, <1>2, <1>3

RowsTyped == versions \in Seq(VersionRow)

LEMMA FormatTyped == FormatSpec => []RowsTyped
<1>1. FormatInit => RowsTyped
  BY DEF FormatInit, RowsTyped
<1>2. ASSUME RowsTyped, [FormatNext]_versions PROVE RowsTyped'
  <2> USE DEF RowsTyped
  <2>1. CASE Insert
    BY <1>2, <2>1 DEF Insert
  <2>2. CASE \E i \in DOMAIN versions : Reprobe(i)
    BY <1>2, <2>2 DEF Reprobe
  <2>3. CASE \E i \in DOMAIN versions : Delete(i)
    BY <1>2, <2>3, WithoutIsSeq DEF Delete
  <2>4. CASE \E i \in DOMAIN versions : Reinsert(i)
    <3>1. PICK i \in DOMAIN versions : Reinsert(i)
      BY <2>4
    <3>2. Without(i) \in Seq(VersionRow) /\ versions[i] \in VersionRow
      BY <1>2, DomainOfSeq, WithoutIsSeq
    <3> QED  BY <3>1, <3>2 DEF Reinsert
  <2>5. CASE UNCHANGED versions
    BY <1>2, <2>5
  <2> QED  BY <1>2, <2>1, <2>2, <2>3, <2>4, <2>5 DEF FormatNext
<1> QED  BY <1>1, <1>2, PTL DEF FormatSpec

LEMMA ReinsertRenumbers ==
  ASSUME versions \in Seq(VersionRow), NEW i \in DOMAIN versions, Reinsert(i)
  PROVE  versions' \in Seq(VersionRow) /\ \E b : Renumbers(b, versions, versions')
<1> DEFINE l == Len(versions)
           b == [n \in 1 .. l |-> IF n < i THEN n ELSE IF n = i THEN l ELSE n - 1]
           t == Append(Without(i), versions[i])
<1>1. /\ DOMAIN versions = 1 .. l /\ l \in Nat /\ i \in 1 .. l /\ versions[i] \in VersionRow
  BY DomainOfSeq
<1>2. /\ Without(i) \in Seq(VersionRow) /\ Len(Without(i)) = l - 1
      /\ \A n \in 1 .. l - 1 : Without(i)[n] = IF n < i THEN versions[n] ELSE versions[n + 1]
  BY WithoutIsSeq
<1> HIDE DEF l
<1>3. /\ t \in Seq(VersionRow) /\ DOMAIN t = 1 .. l
      /\ t[l] = versions[i] /\ \A n \in 1 .. l - 1 : t[n] = Without(i)[n]
  BY <1>1, <1>2
<1> HIDE DEF t
<1>4. /\ b \in [1 .. l -> 1 .. l] /\ \A m, n \in 1 .. l : b[m] = b[n] => m = n
  BY <1>1
<1>5. ASSUME NEW k \in 1 .. l PROVE \E n \in 1 .. l : b[n] = k
  <2>1. CASE k < i
    BY <1>1, <2>1
  <2>2. CASE k = l
    BY <1>1, <2>2
  <2>3. CASE i <= k /\ k < l
    <3>1. k + 1 \in 1 .. l /\ b[k + 1] = k
      BY <1>1, <2>3
    <3> QED  BY <3>1
  <2> QED  BY <1>1, <2>1, <2>2, <2>3
<1>6. ASSUME NEW n \in 1 .. l PROVE t[b[n]] = versions[n]
  <2>1. CASE n < i
    BY <1>1, <1>2, <1>3, <2>1
  <2>2. CASE n = i
    BY <1>1, <1>3, <2>2
  <2>3. CASE n > i
    <3>1. b[n] = n - 1 /\ n - 1 \in 1 .. l - 1 /\ ~(n - 1 < i) /\ (n - 1) + 1 = n
      BY <1>1, <2>3
    <3> QED  BY <1>2, <1>3, <3>1
  <2> QED  BY <1>1, <2>1, <2>2, <2>3
<1>7. versions' = t
  BY DEF Reinsert, t
<1> HIDE DEF b
<1>8. Renumbers(b, versions, t)
  BY <1>1, <1>3, <1>4, <1>5, <1>6 DEF Renumbers
<1> QED  BY <1>3, <1>7, <1>8

(* FormatSurvivesRename: a rename gives its row a new id and so a new place *)
(* in every list the format is computed from; without two files of one     *)
(* height and one size in different formats the string stays the same.     *)
THEOREM FormatSurvivesRenameHolds == FormatSpec => FormatSurvivesRename
<1>1. ASSUME versions \in Seq(VersionRow), NEW i \in DOMAIN versions, Reinsert(i), ~Ties
      PROVE  FormatOf(versions') = FormatOf(versions)
  <2>1. ~Tied(versions)
    BY <1>1 DEF Ties, Tied
  <2>2. versions' \in Seq(VersionRow) /\ \E b : Renumbers(b, versions, versions')
    BY <1>1, ReinsertRenumbers
  <2> QED  BY <1>1, <2>1, <2>2, FormatRenumbered
<1>2. RowsTyped =>
        [(\E i \in DOMAIN versions : Reinsert(i)) /\ ~Ties => FormatOf(versions') = FormatOf(versions)]_versions
  BY <1>1 DEF RowsTyped
<1> QED  BY <1>2, FormatTyped, PTL DEF FormatSurvivesRename
==============================================================================
