---------------------------- MODULE Hands_proofs ----------------------------
(***************************************************************************)
(* Proofs about Hands: what the two judges decide, for every deck of real  *)
(* tiles and every hand drawn from it.                                     *)
(***************************************************************************)
EXTENDS Hands, FiniteSetTheorems, SequenceTheorems, WellFoundedInduction, TLAPS

USE DEF Laizi, Tiao1, Tong9, Chun, Tiles, Natural

(* A set of numbers has a least one, so that what every step keeps is kept. *)
LEMMA LeastNumber ==
    ASSUME NEW T \in SUBSET Nat, T # {}
    PROVE  \E x \in T : \A y \in T : x <= y
<1> DEFINE R == {ss \in Nat \X Nat : ss[1] < ss[2]}
<1>1. IsWellFoundedOn(R, Nat)  BY NatLessThanWellFounded DEF OpToRel
<1>2. \A x, y \in Nat : y < x => <<y, x>> \in R  OBVIOUS
<1> HIDE DEF R
<1>3. PICK x \in T : \A y \in T : ~ (<<y, x>> \in R)  BY <1>1, WFMin
<1>4. \A y \in T : ~ (y < x)  BY <1>2, <1>3
<1> QED BY <1>4

LEMMA UpTo ==
    ASSUME NEW n \in Nat, NEW T, 0 \in T, \A k \in 0 .. n - 1 : k \in T => k + 1 \in T
    PROVE  \A k \in 0 .. n : k \in T
<1>1. PICK B \in SUBSET Nat : B = {k \in 0 .. n : k \notin T}
  <2>1. {k \in 0 .. n : k \notin T} \in SUBSET Nat  OBVIOUS
  <2> QED BY <2>1
<1>2. SUFFICES ASSUME B # {} PROVE FALSE  BY <1>1
<1>3. PICK b \in B : \A y \in B : b <= y  BY <1>2, LeastNumber
<1>4. b \in 1 .. n /\ b - 1 \in 0 .. n - 1 /\ b - 1 \notin B  BY <1>1, <1>3
<1>5. b - 1 \in T  BY <1>1, <1>4
<1>6. (b - 1) + 1 \in T  BY <1>4, <1>5
<1> QED BY <1>1, <1>3, <1>4, <1>6

-----------------------------------------------------------------------------
(* The recursive functions are what their definitions say. *)
DealsRound(deeper, k) ==
    [m \in Judges |-> [pai \in Nat |-> IF k = 0 THEN Fail(m) ELSE TripleOrRun(deeper, m, pai)]]

DealsTo(n, g) == g = [k \in 0 .. n |-> DealsRound(g[k - 1], k)]

LEMMA DealsExist == \E g : DealsTo(Rounds, g)
<1>1. Rounds \in Nat  BY DEF Rounds
<1>2. PICK T : T = {k \in 0 .. Rounds : \E g : DealsTo(k, g)}  OBVIOUS
<1>3. 0 \in T
  <2>1. PICK none : none = [k \in {} |-> 0]  OBVIOUS
  <2>2. PICK g : g = [k \in 0 .. 0 |-> DealsRound(none, k)]  OBVIOUS
  <2>3. DealsRound(g[0 - 1], 0) = DealsRound(none, 0)  BY DEF DealsRound
  <2>4. DealsTo(0, g)  BY <2>2, <2>3 DEF DealsTo
  <2> QED BY <1>1, <1>2, <2>4
<1>4. ASSUME NEW k \in 0 .. Rounds - 1, k \in T PROVE k + 1 \in T
  <2>1. PICK g : DealsTo(k, g)  BY <1>2, <1>4
  <2>2. PICK h : h = [i \in 0 .. k + 1 |-> IF i = k + 1 THEN DealsRound(g[k], k + 1) ELSE g[i]]  OBVIOUS
  <2>3. h[k + 1] = DealsRound(g[k], k + 1) /\ \A i \in 0 .. k : h[i] = g[i]  BY <2>2
  <2>4. ASSUME NEW i \in 0 .. k + 1
        PROVE  h[i] = DealsRound(h[i - 1], i)
    <3>1. CASE i = k + 1
      <4>1. h[i - 1] = g[k]  BY <2>3, <3>1
      <4> QED BY <2>3, <3>1, <4>1
    <3>2. CASE i # k + 1
      <4>1. i \in 0 .. k /\ h[i] = g[i]  BY <2>3, <3>2
      <4>2. g[i] = DealsRound(g[i - 1], i)  BY <2>1, <4>1 DEF DealsTo
      <4>3. CASE i = 0  BY <4>1, <4>2, <4>3 DEF DealsRound
      <4>4. CASE i # 0
        <5>1. i - 1 \in 0 .. k  BY <4>1, <4>4
        <5>2. h[i - 1] = g[i - 1]  BY <2>3, <5>1
        <5> QED BY <4>1, <4>2, <5>2
      <4> QED BY <4>3, <4>4
    <3> QED BY <3>1, <3>2
  <2>5. h = [i \in 0 .. k + 1 |-> DealsRound(h[i - 1], i)]
    <3>1. h = [i \in 0 .. k + 1 |-> h[i]]  BY <2>2
    <3> QED BY <2>4, <3>1
  <2> QED BY <1>1, <1>2, <2>5 DEF DealsTo
<1>5. Rounds \in T  BY <1>1, <1>3, <1>4, UpTo
<1> QED BY <1>2, <1>5

LEMMA DealsAre == DealsTo(Rounds, Deals)
<1>1. PICK h : h = CHOOSE g : DealsTo(Rounds, g)  OBVIOUS
<1>2. DealsTo(Rounds, h)  BY <1>1, DealsExist
<1>3. Deals = h  BY <1>1 DEF Deals, DealsTo, DealsRound
<1> QED BY <1>2, <1>3

LEMMA DealsUnfold ==
    ASSUME NEW k \in 0 .. Rounds, NEW m \in Judges, NEW p \in Nat
    PROVE  Deals[k][m][p] = IF k = 0 THEN Fail(m) ELSE TripleOrRun(Deals[k - 1], m, p)
<1>1. Deals[k] = DealsRound(Deals[k - 1], k)  BY DealsAre DEF DealsTo
<1> QED BY <1>1 DEF DealsRound

(* What the loop of hu233 came to after each tile. *)
Tried(m, n, g) == g = [k \in 0 .. n |-> IF k = 0 THEN Fail(m) ELSE Pair(g[k - 1], k - 1)]

LEMMA TriedExists ==
    ASSUME NEW m
    PROVE  \E g : Tried(m, 41, g)
<1>1. PICK T : T = {k \in 0 .. 41 : \E g : Tried(m, k, g)}  OBVIOUS
<1>2. 0 \in T
  <2>1. Tried(m, 0, [k \in 0 .. 0 |-> Fail(m)])  BY DEF Tried
  <2> QED BY <1>1, <2>1
<1>3. ASSUME NEW k \in 0 .. 40, k \in T PROVE k + 1 \in T
  <2>1. PICK g : Tried(m, k, g)  BY <1>1, <1>3
  <2>2. PICK h : h = [i \in 0 .. k + 1 |-> IF i = k + 1 THEN Pair(g[k], k) ELSE g[i]]  OBVIOUS
  <2>3. h[k + 1] = Pair(g[k], k) /\ \A i \in 0 .. k : h[i] = g[i]  BY <2>2
  <2>4. ASSUME NEW i \in 0 .. k + 1
        PROVE  h[i] = IF i = 0 THEN Fail(m) ELSE Pair(h[i - 1], i - 1)
    <3>1. CASE i = k + 1
      <4>1. h[i - 1] = g[k] /\ i # 0 /\ i - 1 = k  BY <2>3, <3>1
      <4> QED BY <2>3, <3>1, <4>1
    <3>2. CASE i # k + 1
      <4>1. i \in 0 .. k /\ h[i] = g[i]  BY <2>3, <3>2
      <4>2. g[i] = IF i = 0 THEN Fail(m) ELSE Pair(g[i - 1], i - 1)  BY <2>1, <4>1 DEF Tried
      <4>3. i # 0 => i - 1 \in 0 .. k  BY <4>1
      <4> QED BY <2>3, <4>1, <4>2, <4>3
    <3> QED BY <3>1, <3>2
  <2>5. h = [i \in 0 .. k + 1 |-> IF i = 0 THEN Fail(m) ELSE Pair(h[i - 1], i - 1)]
    <3>1. h = [i \in 0 .. k + 1 |-> h[i]]  BY <2>2
    <3> QED BY <2>4, <3>1
  <2> QED BY <1>1, <2>5 DEF Tried
<1>4. 41 \in T  BY <1>2, <1>3, UpTo
<1> QED BY <1>1, <1>4

LEMMA hu233Tries ==
    ASSUME NEW m
    PROVE  \E g : Tried(m, 41, g) /\ hu233(m) = g[41]
<1>1. PICK h : h = CHOOSE g : Tried(m, 41, g)  OBVIOUS
<1>2. Tried(m, 41, h)  BY <1>1, TriedExists
<1>3. hu233(m) = h[41]  BY <1>1 DEF hu233, Tried
<1> QED BY <1>2, <1>3

(* The sums of the first tiles. *)
Sums(n, k, g) == g = [i \in 0 .. k |-> IF i = 0 THEN 0 ELSE g[i - 1] + n[i - 1]]

LEMMA SumsExist ==
    ASSUME NEW n
    PROVE  \E g : Sums(n, 41, g)
<1>1. PICK T : T = {k \in 0 .. 41 : \E g : Sums(n, k, g)}  OBVIOUS
<1>2. 0 \in T
  <2>1. Sums(n, 0, [k \in 0 .. 0 |-> 0])  BY DEF Sums
  <2> QED BY <1>1, <2>1
<1>3. ASSUME NEW k \in 0 .. 40, k \in T PROVE k + 1 \in T
  <2>1. PICK g : Sums(n, k, g)  BY <1>1, <1>3
  <2>2. PICK h : h = [i \in 0 .. k + 1 |-> IF i = k + 1 THEN g[k] + n[k] ELSE g[i]]  OBVIOUS
  <2>3. h[k + 1] = g[k] + n[k] /\ \A i \in 0 .. k : h[i] = g[i]  BY <2>2
  <2>4. ASSUME NEW i \in 0 .. k + 1
        PROVE  h[i] = IF i = 0 THEN 0 ELSE h[i - 1] + n[i - 1]
    <3>1. CASE i = k + 1
      <4>1. h[i - 1] = g[k] /\ i # 0 /\ i - 1 = k  BY <2>3, <3>1
      <4> QED BY <2>3, <3>1, <4>1
    <3>2. CASE i # k + 1
      <4>1. i \in 0 .. k /\ h[i] = g[i]  BY <2>3, <3>2
      <4>2. g[i] = IF i = 0 THEN 0 ELSE g[i - 1] + n[i - 1]  BY <2>1, <4>1 DEF Sums
      <4>3. i # 0 => i - 1 \in 0 .. k  BY <4>1
      <4> QED BY <2>3, <4>1, <4>2, <4>3
    <3> QED BY <3>1, <3>2
  <2>5. h = [i \in 0 .. k + 1 |-> IF i = 0 THEN 0 ELSE h[i - 1] + n[i - 1]]
    <3>1. h = [i \in 0 .. k + 1 |-> h[i]]  BY <2>2
    <3> QED BY <2>4, <3>1
  <2>6. Sums(n, k + 1, h)  BY <2>5 DEF Sums
  <2> QED BY <1>1, <2>6
<1>4. 41 \in T  BY <1>2, <1>3, UpTo
<1> QED BY <1>1, <1>4

LEMMA TotalSums ==
    ASSUME NEW n
    PROVE  \E g : Sums(n, 41, g) /\ Total(n) = g[41]
<1>1. PICK h : h = CHOOSE g : Sums(n, 41, g)  OBVIOUS
<1>2. Sums(n, 41, h)  BY <1>1, SumsExist
<1>3. Total(n) = h[41]  BY <1>1 DEF Total, Sums
<1> QED BY <1>2, <1>3

-----------------------------------------------------------------------------
(* Where a search goes on: the first tile left, none before it. *)
NoneBefore(num, p) == \A t \in Tiles : t < p /\ t # Laizi => num[t] <= 0
At(num, p) == /\ p \in 0 .. Tong9 + 1 /\ NoneBefore(num, p)
              /\ p <= Tong9 => p # Laizi /\ num[p] > 0

LEMMA NextIs ==
    ASSUME NEW num \in [Tiles -> Int], NEW p \in 0 .. 40, NoneBefore(num, p)
    PROVE  At(num, next(num, p)) /\ next(num, p) >= p
<1>1. PICK S \in SUBSET Nat : S = {q \in p .. 40 : q > 39 \/ (q # 8 /\ num[q] > 0)}
  <2>1. {q \in p .. 40 : q > 39 \/ (q # 8 /\ num[q] > 0)} \in SUBSET Nat  OBVIOUS
  <2> QED BY <2>1
<1>2. 40 \in S  BY <1>1
<1>3. PICK x \in S : \A y \in S : x <= y  BY <1>2, LeastNumber
<1>4. x = Min(S)
  <2>1. Min(S) = CHOOSE y \in S : \A z \in S : y <= z  BY DEF Min
  <2>2. Min(S) \in S /\ \A z \in S : Min(S) <= z  BY <1>3, <2>1
  <2>3. PICK z \in Nat : z = Min(S)  BY <2>2
  <2>4. x <= z /\ z <= x  BY <1>3, <2>2, <2>3
  <2> QED BY <2>3, <2>4
<1>5. next(num, p) = x
  <2>1. next(num, p) = Min({q \in p .. 40 : q > 39 \/ (q # 8 /\ num[q] > 0)})  BY DEF next
  <2> QED BY <1>1, <1>4, <2>1
<1>6. x \in p .. 40 /\ (x > 39 \/ (x # 8 /\ num[x] > 0))  BY <1>1
<1>7. ASSUME NEW t \in Tiles, t < x, t # Laizi PROVE num[t] <= 0
  <2>1. CASE t < p  BY <1>7, <2>1 DEF NoneBefore
  <2>2. CASE t >= p
    <3>1. t \notin S  BY <1>3, <1>6, <1>7
    <3> QED BY <1>1, <1>6, <1>7, <2>2, <3>1
  <2> QED BY <2>1, <2>2
<1> QED BY <1>5, <1>6, <1>7 DEF At, NoneBefore

(* Two places of a run. *)
LEMMA CountOfTwo ==
    ASSUME NEW p \in Int, NEW X
    PROVE  Cardinality({q \in p .. p + 2 \ {p} : q \in X})
             = (IF p + 1 \in X THEN 1 ELSE 0) + (IF p + 2 \in X THEN 1 ELSE 0)
<1>1. PICK S : S = {q \in p .. p + 2 \ {p} : q \in X}  OBVIOUS
<1>2. p .. p + 2 \ {p} = {p + 1, p + 2} /\ p + 1 # p + 2  OBVIOUS
<1>3. /\ Cardinality({}) = 0 /\ IsFiniteSet({p + 1})
      /\ Cardinality({p + 1}) = 1 /\ Cardinality({p + 2}) = 1
      BY FS_EmptySet, FS_Singleton
<1>4. CASE p + 1 \in X /\ p + 2 \in X
  <2>1. S = {p + 1} \cup {p + 2}  BY <1>1, <1>2, <1>4
  <2>2. Cardinality(S) = 2  BY <1>2, <1>3, <2>1, FS_AddElement
  <2> QED BY <1>1, <1>4, <2>2
<1>5. CASE p + 1 \in X /\ p + 2 \notin X
  <2>1. S = {p + 1}  BY <1>1, <1>2, <1>5
  <2>2. Cardinality(S) = 1  BY <1>3, <2>1
  <2> QED BY <1>1, <1>5, <2>2
<1>6. CASE p + 1 \notin X /\ p + 2 \in X
  <2>1. S = {p + 2}  BY <1>1, <1>2, <1>6
  <2>2. Cardinality(S) = 1  BY <1>3, <2>1
  <2> QED BY <1>1, <1>6, <2>2
<1>7. CASE p + 1 \notin X /\ p + 2 \notin X
  <2>1. S = {}  BY <1>1, <1>2, <1>7
  <2> QED BY <1>1, <1>3, <1>7, <2>1
<1> QED BY <1>4, <1>5, <1>6, <1>7

-----------------------------------------------------------------------------
(* What a search gives back: every tile, and no wild tile that was not there.  While there *)
(* are at most two wild tiles, and one when a count is below zero, all of them.            *)
Groups == [op : Nat, val : Nat]
Lists == Seq(Groups)

Shallow(num) == num[Laizi] <= 2 /\ (\A t \in Natural : num[t] >= 0 \/ num[Laizi] <= 1)

GivenBack(m, r) ==
    /\ r \in [ok : BOOLEAN, m : Judges]
    /\ r.m.laizi = m.laizi /\ r.m.pai = m.pai
    /\ \A t \in Natural : r.m.num[t] = m.num[t]
    /\ 0 <= r.m.num[Laizi] /\ r.m.num[Laizi] <= m.num[Laizi]
    /\ ~ r.ok => r.m.groups = m.groups
    /\ Shallow(m.num) => r.m.num[Laizi] = m.num[Laizi]

(* n is f without what was taken, or with what is given back. *)
Without(n, f, tiles, wild) ==
    \A t \in Tiles : n[t] = f[t] - tiles[t] - (IF t = Laizi THEN wild ELSE 0)
WithBack(n, f, tiles, wild) ==
    \A t \in Tiles : n[t] = f[t] + tiles[t] + (IF t = Laizi THEN wild ELSE 0)

LEMMA LessIs ==
    ASSUME NEW f \in [Tiles -> Int], NEW tiles \in [Tiles -> Int], NEW wild \in Int,
           NEW n, n = [t \in Tiles |-> f[t] - tiles[t] - (IF t = Laizi THEN wild ELSE 0)]
    PROVE  n \in [Tiles -> Int] /\ Without(n, f, tiles, wild)
<1>1. ASSUME NEW t \in Tiles
      PROVE  f[t] - tiles[t] - (IF t = Laizi THEN wild ELSE 0) \in Int
  <2>1. f[t] \in Int /\ tiles[t] \in Int  OBVIOUS
  <2> QED BY <2>1
<1> QED BY <1>1 DEF Without

LEMMA MoreIs ==
    ASSUME NEW f \in [Tiles -> Int], NEW tiles \in [Tiles -> Int], NEW wild \in Int,
           NEW n, n = [t \in Tiles |-> f[t] + tiles[t] + (IF t = Laizi THEN wild ELSE 0)]
    PROVE  n \in [Tiles -> Int] /\ WithBack(n, f, tiles, wild)
<1>1. ASSUME NEW t \in Tiles
      PROVE  f[t] + tiles[t] + (IF t = Laizi THEN wild ELSE 0) \in Int
  <2>1. f[t] \in Int /\ tiles[t] \in Int  OBVIOUS
  <2> QED BY <2>1
<1> QED BY <1>1 DEF WithBack

LEMMA JudgeIs ==
    ASSUME NEW m \in Judges
    PROVE  /\ m.num \in [Tiles -> Int] /\ m.groups \in Lists /\ m.laizi \in Nat /\ m.pai \in Nat
           /\ m = [num |-> m.num, groups |-> m.groups, laizi |-> m.laizi, pai |-> m.pai]
BY DEF Judges, Groups, Lists

Taken(a, m, tiles, wild, g) ==
    /\ a \in Judges /\ a.laizi = m.laizi /\ a.pai = m.pai
    /\ Without(a.num, m.num, tiles, wild) /\ a.groups = Append(m.groups, g)

LEMMA TakeOutIs ==
    ASSUME NEW m \in Judges, NEW tiles \in [Tiles -> Int], NEW wild \in Int, NEW g \in Groups,
           NEW a, a = TakeOut(m, tiles, wild, g)
    PROVE  Taken(a, m, tiles, wild, g)
<1>1. PICK f \in [Tiles -> Int], gs \in Lists, l \in Nat, p \in Nat :
        m = [num |-> f, groups |-> gs, laizi |-> l, pai |-> p]  BY JudgeIs
<1>2. PICK n : n = [t \in Tiles |-> f[t] - tiles[t] - (IF t = Laizi THEN wild ELSE 0)]  OBVIOUS
<1>3. n \in [Tiles -> Int] /\ Without(n, f, tiles, wild)  BY <1>2, LessIs
<1>4. Append(gs, g) \in Lists  BY DEF Lists
<1>5. a = [num |-> n, groups |-> Append(gs, g), laizi |-> l, pai |-> p]
      BY <1>1, <1>2 DEF TakeOut
<1>6. a \in Judges  BY <1>3, <1>4, <1>5 DEF Judges, Groups, Lists
<1>7. a.num = n /\ a.laizi = l /\ a.pai = p /\ a.groups = Append(gs, g)  BY <1>5
<1>8. m.num = f /\ m.laizi = l /\ m.pai = p /\ m.groups = gs  BY <1>1
<1> QED BY <1>3, <1>6, <1>7, <1>8 DEF Taken

LEMMA BackIs ==
    ASSUME NEW m \in Judges, NEW tiles \in [Tiles -> Int], NEW wild \in Int, NEW g \in Groups,
           NEW a, a = TakeOut(m, tiles, wild, g), tiles[Laizi] = 0,
           NEW r, GivenBack(a, r), NEW back \in 0 .. wild,
           Shallow(m.num) => Shallow(a.num) /\ back = wild
    PROVE  GivenBack(m, Back(r, tiles, back)) /\ Back(r, tiles, back).ok = r.ok
<1>1. /\ a \in Judges /\ a.laizi = m.laizi /\ a.pai = m.pai
      /\ Without(a.num, m.num, tiles, wild) /\ a.groups = Append(m.groups, g)
  <2>1. Taken(a, m, tiles, wild, g)  BY TakeOutIs
  <2> QED BY <2>1 DEF Taken
<1>2. PICK f \in [Tiles -> Int], gs \in Lists, l \in Nat, p \in Nat :
        m = [num |-> f, groups |-> gs, laizi |-> l, pai |-> p]  BY JudgeIs
<1>3. r.ok \in BOOLEAN /\ r.m \in Judges /\ r = [ok |-> r.ok, m |-> r.m]  BY DEF GivenBack
<1>4. PICK rf \in [Tiles -> Int], rg \in Lists :
        r.m = [num |-> rf, groups |-> rg, laizi |-> l, pai |-> p]
  <2>1. r.m.laizi = l /\ r.m.pai = p  BY <1>1, <1>2 DEF GivenBack
  <2> QED BY <1>3, <2>1, JudgeIs
<1>5. PICK af \in [Tiles -> Int] : af = a.num  BY <1>1, JudgeIs
<1>6. /\ \A t \in Natural : rf[t] = af[t]
      /\ 0 <= rf[Laizi] /\ rf[Laizi] <= af[Laizi]
      /\ ~ r.ok => rg = a.groups
      /\ Shallow(af) => rf[Laizi] = af[Laizi]
      BY <1>4, <1>5 DEF GivenBack
<1>7. \A t \in Tiles : af[t] = f[t] - tiles[t] - (IF t = Laizi THEN wild ELSE 0)
      BY <1>1, <1>2, <1>5 DEF Without
<1>8. PICK n : n = [t \in Tiles |-> rf[t] + tiles[t] + (IF t = Laizi THEN back ELSE 0)]  OBVIOUS
<1>9. /\ n \in [Tiles -> Int]
      /\ \A t \in Tiles : n[t] = rf[t] + tiles[t] + (IF t = Laizi THEN back ELSE 0)
  <2>1. back \in Int  OBVIOUS
  <2>2. n \in [Tiles -> Int] /\ WithBack(n, rf, tiles, back)  BY <1>8, <2>1, MoreIs
  <2> QED BY <2>2 DEF WithBack
<1>10. PICK s : s = IF r.ok THEN rg ELSE Front(rg)  OBVIOUS
<1>11. PICK b : b = Back(r, tiles, back)  OBVIOUS
<1>12. b = [ok |-> r.ok, m |-> [num |-> n, groups |-> s, laizi |-> l, pai |-> p]]
  <2>1. PICK q : q = r.m  OBVIOUS
  <2>2. q = [num |-> rf, groups |-> rg, laizi |-> l, pai |-> p]  BY <1>4, <2>1
  <2>3. q.num = rf /\ q.groups = rg  BY <2>2
  <2>4. PICK e : e = [q EXCEPT !.num = n, !.groups = s]  OBVIOUS
  <2>5. e = [num |-> n, groups |-> s, laizi |-> l, pai |-> p]  BY <2>2, <2>4
  <2>6. b = [ok |-> r.ok, m |-> e]  BY <1>8, <1>10, <1>11, <2>1, <2>4, <2>3 DEF Back
  <2> QED BY <2>5, <2>6
<1>13. ~ r.ok => s = gs
  <2>1. Front(Append(gs, g)) = gs  BY DEF Front, Lists
  <2> QED BY <1>1, <1>2, <1>6, <1>10, <2>1
<1>14. s \in Lists  BY <1>10, <1>13
<1>15. \A t \in Natural : n[t] = f[t]
  <2> SUFFICES ASSUME NEW t \in Natural PROVE n[t] = f[t]  OBVIOUS
  <2>1. t \in Tiles /\ t # Laizi  OBVIOUS
  <2>2. n[t] = rf[t] + tiles[t] + 0 /\ af[t] = f[t] - tiles[t] - 0  BY <1>7, <1>9, <2>1
  <2>3. rf[t] = af[t]  BY <1>6
  <2>4. f[t] \in Int /\ tiles[t] \in Int  BY <2>1
  <2> QED BY <2>2, <2>3, <2>4
<1>16. /\ n[Laizi] = rf[Laizi] + back /\ af[Laizi] = f[Laizi] - wild
       /\ rf[Laizi] \in Int /\ f[Laizi] \in Int /\ af[Laizi] \in Int /\ n[Laizi] \in Int
  <2>1. Laizi \in Tiles  OBVIOUS
  <2>2. rf[Laizi] \in Int /\ f[Laizi] \in Int /\ af[Laizi] \in Int /\ n[Laizi] \in Int  BY <1>9, <2>1
  <2>3. n[Laizi] = rf[Laizi] + 0 + back /\ af[Laizi] = f[Laizi] - 0 - wild  BY <1>7, <1>9, <2>1
  <2> QED BY <2>2, <2>3
<1>17. 0 <= n[Laizi] /\ n[Laizi] <= f[Laizi]  BY <1>6, <1>16
<1>18. Shallow(f) => n[Laizi] = f[Laizi]  BY <1>2, <1>5, <1>6, <1>16
<1>19. b.m = [num |-> n, groups |-> s, laizi |-> l, pai |-> p] /\ b.ok = r.ok  BY <1>12
<1>20. b.m.num = n /\ b.m.groups = s /\ b.m.laizi = l /\ b.m.pai = p  BY <1>19
<1>21. b \in [ok : BOOLEAN, m : Judges]
  <2>1. [num |-> n, groups |-> s, laizi |-> l, pai |-> p] \in Judges  BY <1>9, <1>14 DEF Judges, Groups, Lists
  <2> QED BY <1>3, <1>12, <2>1
<1>22. m.num = f /\ m.groups = gs /\ m.laizi = l /\ m.pai = p  BY <1>2
<1>23. GivenBack(m, b)  BY <1>13, <1>15, <1>17, <1>18, <1>19, <1>20, <1>21, <1>22 DEF GivenBack
<1> QED BY <1>11, <1>19, <1>23

(* Taking a triple of p, a pair of p or a run from p. *)
Goes(f, n, p, wild) ==
    /\ wild \in 0 .. f[Laizi] /\ n[Laizi] = f[Laizi] - wild
    /\ NoneBefore(f, p) => NoneBefore(n, p)
    /\ Shallow(f) => Shallow(n)

Same(n, f, p, c) == n[p] = f[p] - c /\ \A t \in Natural : t # p => n[t] = f[t]

LEMMA SameTileGoes ==
    ASSUME NEW f \in [Tiles -> Int], NEW p \in Natural, f[Laizi] >= 0,
           NEW c \in 2 .. 3, f[p] > 0, f[p] + f[Laizi] >= c,
           NEW wild, wild = Short(f[p] - c), NEW n \in [Tiles -> Int], Without(n, f, Of(c, {p}), wild)
    PROVE  Goes(f, n, p, wild) /\ Same(n, f, p, c)
<1>1. f[p] \in Int /\ f[Laizi] \in Int  OBVIOUS
<1>2. wild = IF f[p] >= c THEN 0 ELSE c - f[p]  BY <1>1 DEF Short
<1>3. wild \in 0 .. f[Laizi]  BY <1>1, <1>2
<1>4. \A t \in Tiles : Of(c, {p})[t] = IF t = p THEN c ELSE 0  BY DEF Of
<1>5. \A t \in Tiles : n[t] = f[t] - (IF t = p THEN c ELSE 0) - (IF t = Laizi THEN wild ELSE 0)
      BY <1>4 DEF Without
<1>6. n[Laizi] = f[Laizi] - wild
  <2>1. n[Laizi] = f[Laizi] - 0 - wild  BY <1>5
  <2> QED BY <1>1, <1>3, <2>1
<1>7. \A t \in Natural : n[t] = IF t = p THEN f[t] - c ELSE f[t]
  <2> SUFFICES ASSUME NEW t \in Natural PROVE n[t] = IF t = p THEN f[t] - c ELSE f[t]  OBVIOUS
  <2>1. f[t] \in Int /\ n[t] = f[t] - (IF t = p THEN c ELSE 0) - 0  BY <1>5
  <2> QED BY <2>1
<1>8. NoneBefore(f, p) => NoneBefore(n, p)  BY <1>7 DEF NoneBefore
<1>9. ASSUME Shallow(f) PROVE Shallow(n)
  <2>1. f[Laizi] <= 2 /\ \A t \in Natural : f[t] >= 0 \/ f[Laizi] <= 1  BY <1>9 DEF Shallow
  <2>2. n[Laizi] <= 2  BY <1>1, <1>3, <1>6, <2>1
  <2>3. ASSUME NEW t \in Natural PROVE n[t] >= 0 \/ n[Laizi] <= 1
    <3>1. CASE t = p
      <4>1. n[t] = f[p] - c  BY <1>7, <3>1
      <4> QED BY <1>1, <1>2, <1>6, <2>1, <4>1
    <3>2. CASE t # p
      <4>1. n[t] = f[t]  BY <1>7, <3>2
      <4> QED BY <1>1, <1>3, <1>6, <2>1, <4>1
    <3> QED BY <3>1, <3>2
  <2> QED BY <2>2, <2>3 DEF Shallow
<1>10. Goes(f, n, p, wild)  BY <1>3, <1>6, <1>8, <1>9 DEF Goes
<1>11. Same(n, f, p, c)  BY <1>7 DEF Same
<1> QED BY <1>10, <1>11

GivesBack(deeper) ==
    \A m \in Judges : \A p \in 0 .. 40 :
        m.num[Laizi] >= 0 /\ At(m.num, p) => GivenBack(m, deeper[m][p])

LEMMA AsIs ==
    ASSUME NEW m \in Judges, m.num[Laizi] >= 0
    PROVE  GivenBack(m, Won(m)) /\ GivenBack(m, Fail(m))
<1>1. m.num[Laizi] \in Int  BY JudgeIs
<1> QED BY <1>1 DEF GivenBack, Won, Fail

(* The judge a after c tiles p are taken from m, and the tile q where the search goes on. *)
SameTileStep(m, p, c, op, from, a, q, wild) ==
    /\ wild = Short(m.num[p] - c) /\ a = TakeOut(m, Of(c, {p}), wild, Group(op, p)) /\ a \in Judges
    /\ q = next(a.num, from) /\ At(a.num, q)
    /\ Goes(m.num, a.num, p, wild) /\ Same(a.num, m.num, p, c)

LEMMA SameTileSteps ==
    ASSUME NEW m \in Judges, NEW p \in Natural, m.num[Laizi] >= 0, m.num[p] > 0, NEW c \in 2 .. 3,
           m.num[p] + m.num[Laizi] >= c, NEW op \in Nat, NEW from \in 0 .. p, NoneBefore(m.num, from)
    PROVE  \E a \in Judges, q \in 0 .. 40, wild \in Int : SameTileStep(m, p, c, op, from, a, q, wild)
<1>1. PICK f \in [Tiles -> Int] : f = m.num  BY JudgeIs
<1>2. f[p] > 0 /\ f[p] + f[Laizi] >= c /\ f[Laizi] >= 0 /\ f[p] \in Int  BY <1>1
<1>3. PICK wild : wild = Short(f[p] - c)  OBVIOUS
<1>4. wild \in Int  BY <1>2, <1>3 DEF Short
<1>5. PICK tiles : tiles = Of(c, {p})  OBVIOUS
<1>6. tiles \in [Tiles -> Int]  BY <1>5 DEF Of
<1>7. PICK g \in Groups : g = Group(op, p)
  <2>1. Group(op, p) \in Groups  BY DEF Group, Groups
  <2> QED BY <2>1
<1>8. PICK a : a = TakeOut(m, tiles, wild, g)  OBVIOUS
<1>9. Taken(a, m, tiles, wild, g)  BY <1>4, <1>6, <1>8, TakeOutIs
<1>10. PICK n \in [Tiles -> Int] : n = a.num  BY <1>9, JudgeIs DEF Taken
<1>11. a \in Judges /\ Without(n, f, Of(c, {p}), wild)  BY <1>1, <1>5, <1>9, <1>10 DEF Taken
<1>12. Goes(f, n, p, wild) /\ Same(n, f, p, c)  BY <1>2, <1>3, <1>11, SameTileGoes
<1>13. NoneBefore(n, from)
  <2> SUFFICES ASSUME NEW t \in Tiles, t < from, t # Laizi PROVE n[t] <= 0  BY DEF NoneBefore
  <2>1. t \in Natural /\ t # p  OBVIOUS
  <2>2. n[t] = f[t] /\ f[t] <= 0  BY <1>1, <1>12, <2>1 DEF Same, NoneBefore
  <2> QED BY <2>2
<1>14. PICK q \in 0 .. 40 : q = next(n, from) /\ At(n, q)
  <2>1. from \in 0 .. 40  OBVIOUS
  <2>2. At(n, next(n, from))  BY <1>13, <2>1, NextIs
  <2> QED BY <2>2 DEF At
<1>15. SameTileStep(m, p, c, op, from, a, q, wild)
       BY <1>1, <1>3, <1>5, <1>7, <1>8, <1>10, <1>11, <1>12, <1>14 DEF SameTileStep
<1> QED BY <1>4, <1>11, <1>14, <1>15

LEMMA SameTileGivesBack ==
    ASSUME NEW m \in Judges, NEW p \in Natural, NEW c \in 2 .. 3, NEW op \in Nat, NEW from, m.num[Laizi] >= 0,
           NEW a, NEW q, NEW wild \in Int, SameTileStep(m, p, c, op, from, a, q, wild), NEW r, GivenBack(a, r)
    PROVE  GivenBack(m, Back(r, Of(c, {p}), wild)) /\ Back(r, Of(c, {p}), wild).ok = r.ok
<1>1. PICK tiles : tiles = Of(c, {p})  OBVIOUS
<1>2. tiles \in [Tiles -> Int] /\ tiles[Laizi] = 0  BY <1>1 DEF Of
<1>3. PICK g \in Groups : g = Group(op, p)
  <2>1. Group(op, p) \in Groups  BY DEF Group, Groups
  <2> QED BY <2>1
<1>4. a = TakeOut(m, tiles, wild, g)  BY <1>1, <1>3 DEF SameTileStep
<1>5. wild \in 0 .. wild /\ (Shallow(m.num) => Shallow(a.num) /\ wild = wild)
      BY DEF SameTileStep, Goes
<1> QED BY <1>1, <1>2, <1>4, <1>5, BackIs

(* The search that takes a triple goes on with what is left of it. *)
LEMMA TripleGoesOn ==
    ASSUME NEW deeper, NEW m, NEW p, ~ (p > 39), ~ (m.num[p] + m.num[Laizi] < 3),
           NEW a, NEW q, NEW wild, SameTileStep(m, p, 3, Ke, p, a, q, wild)
    PROVE  deal_kezi(deeper, m, p) = Back(deeper[a][q], Of(3, {p}), wild)
<1>1. wild = Short(m.num[p] - 3) /\ a = TakeOut(m, Of(3, {p}), wild, Group(Ke, p)) /\ q = next(a.num, p)
      BY DEF SameTileStep
<1>2. deal_kezi(deeper, m, p) =
        LET w == Short(m.num[p] - 3)
            b == TakeOut(m, Of(3, {p}), w, Group(Ke, p))
        IN  Back(deeper[b][next(b.num, p)], Of(3, {p}), w)
      BY DEF deal_kezi
<1> QED BY <1>1, <1>2

LEMMA TripleGivesBack ==
    ASSUME NEW deeper, GivesBack(deeper), NEW m \in Judges, NEW p \in 0 .. 40,
           m.num[Laizi] >= 0, At(m.num, p)
    PROVE  GivenBack(m, deal_kezi(deeper, m, p))
<1>1. CASE p > 39  BY <1>1, AsIs DEF deal_kezi
<1>2. CASE p <= 39 /\ m.num[p] + m.num[Laizi] < 3  BY <1>2, AsIs DEF deal_kezi
<1>3. CASE p <= 39 /\ ~ (m.num[p] + m.num[Laizi] < 3)
  <2>1. PICK f \in [Tiles -> Int] : f = m.num  BY JudgeIs
  <2>2. p \in Natural /\ f[p] > 0 /\ NoneBefore(f, p)  BY <1>3, <2>1 DEF At
  <2>3. f[p] + f[Laizi] >= 3  BY <1>3, <2>1, <2>2
  <2>4. PICK a \in Judges, q \in 0 .. 40, wild \in Int : SameTileStep(m, p, 3, Ke, p, a, q, wild)
    <3>1. 3 \in 2 .. 3 /\ Ke \in Nat /\ p \in 0 .. p  BY DEF Ke
    <3> QED BY <2>1, <2>2, <2>3, <3>1, SameTileSteps
  <2>5. a.num[Laizi] >= 0
    <3>1. f[Laizi] \in Int  OBVIOUS
    <3> QED BY <2>1, <2>4, <3>1 DEF SameTileStep, Goes
  <2>6. GivenBack(a, deeper[a][q])  BY <2>4, <2>5 DEF GivesBack, SameTileStep
  <2>7. deal_kezi(deeper, m, p) = Back(deeper[a][q], Of(3, {p}), wild)
    <3>1. ~ (p > 39) /\ ~ (m.num[p] + m.num[Laizi] < 3)  BY <1>3
    <3> QED BY <2>4, <3>1, TripleGoesOn
  <2>8. GivenBack(m, Back(deeper[a][q], Of(3, {p}), wild))
    <3>1. 3 \in 2 .. 3 /\ Ke \in Nat  BY DEF Ke
    <3> QED BY <2>2, <2>4, <2>6, <3>1, SameTileGivesBack
  <2> QED BY <2>7, <2>8
<1> QED BY <1>1, <1>2, <1>3

(* Taking a run from p: a wild tile for one of the two places after p at most. *)
RunAt(f, p) ==
    /\ p \in Tiao1 .. 37 /\ f[p] >= 1
    /\ \/ f[p + 1] + f[Laizi] >= 1 /\ f[p + 2] >= 1
       \/ f[p + 1] >= 1 /\ f[p + 2] + f[Laizi] >= 1

OneOfEach(n, f, p) == \A t \in Natural : n[t] = f[t] - (IF t \in p .. p + 2 THEN 1 ELSE 0)

OfRun(p) == Of(1, p .. p + 2)
MissingIn(f, p)   == Cardinality({q \in p .. p + 2 \ {p} : f[q] < 1})
NegativeIn(rn, p) == Cardinality({q \in p .. p + 2 \ {p} : rn[q] = -1})

LEMMA RunTakes ==
    ASSUME NEW f \in [Tiles -> Int], NEW p \in Natural, RunAt(f, p), NEW took,
           took = MissingIn(f, p)
    PROVE  /\ took = (IF f[p + 1] < 1 THEN 1 ELSE 0) + (IF f[p + 2] < 1 THEN 1 ELSE 0)
           /\ took \in 0 .. 1 /\ (took <= f[Laizi] \/ took = 0)
           /\ p + 1 \in Natural /\ p + 2 \in Natural
<1>1. p + 1 \in Natural /\ p + 2 \in Natural /\ f[p + 1] \in Int /\ f[p + 2] \in Int /\ f[Laizi] \in Int
      BY DEF RunAt
<1>2. PICK X : X = {q \in Tiles : f[q] < 1}  OBVIOUS
<1>3. {q \in p .. p + 2 \ {p} : f[q] < 1} = {q \in p .. p + 2 \ {p} : q \in X}  BY <1>1, <1>2
<1>4. took = (IF p + 1 \in X THEN 1 ELSE 0) + (IF p + 2 \in X THEN 1 ELSE 0)  BY <1>3, CountOfTwo DEF MissingIn
<1>5. took = (IF f[p + 1] < 1 THEN 1 ELSE 0) + (IF f[p + 2] < 1 THEN 1 ELSE 0)  BY <1>1, <1>2, <1>4
<1> QED BY <1>1, <1>5 DEF RunAt

LEMMA RunGoes ==
    ASSUME NEW f \in [Tiles -> Int], NEW p \in Natural, RunAt(f, p), NoneBefore(f, p), f[Laizi] >= 0,
           NEW took, took = MissingIn(f, p),
           NEW n \in [Tiles -> Int], Without(n, f, OfRun(p), took)
    PROVE  Goes(f, n, p, took) /\ OneOfEach(n, f, p)
<1>1. /\ took = (IF f[p + 1] < 1 THEN 1 ELSE 0) + (IF f[p + 2] < 1 THEN 1 ELSE 0)
      /\ took \in 0 .. 1 /\ (took <= f[Laizi] \/ took = 0)
      /\ p + 1 \in Natural /\ p + 2 \in Natural
      BY RunTakes
<1>2. f[p + 1] \in Int /\ f[p + 2] \in Int /\ f[Laizi] \in Int /\ took \in 0 .. f[Laizi]  BY <1>1
<1>3. \A t \in Tiles : n[t] = f[t] - (IF t \in p .. p + 2 THEN 1 ELSE 0) - (IF t = Laizi THEN took ELSE 0)
  <2>1. \A t \in Tiles : Of(1, p .. p + 2)[t] = IF t \in p .. p + 2 THEN 1 ELSE 0  BY DEF Of
  <2> QED BY <2>1 DEF Without, OfRun
<1>4. n[Laizi] = f[Laizi] - took
  <2>1. Laizi \notin p .. p + 2  BY DEF RunAt
  <2>2. n[Laizi] = f[Laizi] - 0 - took  BY <1>3, <2>1
  <2> QED BY <1>2, <2>2
<1>5. OneOfEach(n, f, p)
  <2> SUFFICES ASSUME NEW t \in Natural PROVE n[t] = f[t] - (IF t \in p .. p + 2 THEN 1 ELSE 0)
      BY DEF OneOfEach
  <2>1. f[t] \in Int /\ n[t] = f[t] - (IF t \in p .. p + 2 THEN 1 ELSE 0) - 0  BY <1>3
  <2> QED BY <2>1
<1>6. NoneBefore(n, p)
  <2> SUFFICES ASSUME NEW t \in Tiles, t < p, t # Laizi PROVE n[t] <= 0  BY DEF NoneBefore
  <2>1. t \in Natural /\ t \notin p .. p + 2 /\ f[t] <= 0 /\ f[t] \in Int  BY DEF NoneBefore
  <2>2. n[t] = f[t] - 0  BY <1>5, <2>1 DEF OneOfEach
  <2> QED BY <2>1, <2>2
<1>7. ASSUME Shallow(f) PROVE Shallow(n)
  <2>1. f[Laizi] <= 2 /\ \A t \in Natural : f[t] >= 0 \/ f[Laizi] <= 1  BY <1>7 DEF Shallow
  <2>2. n[Laizi] <= 2  BY <1>2, <1>4, <2>1
  <2>3. ASSUME NEW t \in Natural PROVE n[t] >= 0 \/ n[Laizi] <= 1
    <3>1. f[t] \in Int /\ (f[t] >= 0 \/ f[Laizi] <= 1)  BY <2>1
    <3>2. CASE t \notin p .. p + 2
      <4>1. n[t] = f[t] - 0  BY <1>5, <3>2 DEF OneOfEach
      <4> QED BY <1>2, <1>4, <3>1, <4>1
    <3>3. CASE t \in p .. p + 2
      <4>1. n[t] = f[t] - 1  BY <1>5, <3>3 DEF OneOfEach
      <4>2. CASE f[t] >= 1  BY <3>1, <4>1, <4>2
      <4>3. CASE f[t] < 1
        <5>1. t # p  BY <4>3 DEF RunAt
        <5>2. t = p + 1 \/ t = p + 2  BY <3>3, <5>1
        <5>3. took = 1  BY <1>1, <1>2, <4>3, <5>2
        <5> QED BY <1>2, <1>4, <2>1, <5>3
      <4> QED BY <3>1, <4>2, <4>3
    <3> QED BY <3>2, <3>3
  <2> QED BY <2>2, <2>3 DEF Shallow
<1> QED BY <1>2, <1>4, <1>5, <1>6, <1>7 DEF Goes

(* What is given back for the run: as many wild tiles as the counts of 0 it took from. *)
LEMMA RunBack ==
    ASSUME NEW f \in [Tiles -> Int], NEW p \in Natural, RunAt(f, p), f[Laizi] >= 0,
           NEW took, took = MissingIn(f, p),
           NEW n, OneOfEach(n, f, p), NEW rn, \A t \in Natural : rn[t] = n[t],
           NEW back, back = NegativeIn(rn, p)
    PROVE  back \in 0 .. took /\ (Shallow(f) => back = took)
<1>1. /\ took = (IF f[p + 1] < 1 THEN 1 ELSE 0) + (IF f[p + 2] < 1 THEN 1 ELSE 0)
      /\ p + 1 \in Natural /\ p + 2 \in Natural
      BY RunTakes
<1>2. /\ f[p + 1] \in Int /\ f[p + 2] \in Int /\ f[Laizi] \in Int /\ f[p] \in Int
      /\ rn[p + 1] = f[p + 1] - 1 /\ rn[p + 2] = f[p + 2] - 1
      BY <1>1 DEF OneOfEach
<1>3. PICK X : X = {q \in {p + 1, p + 2} : rn[q] = -1}  OBVIOUS
<1>4. {q \in p .. p + 2 \ {p} : rn[q] = -1} = {q \in p .. p + 2 \ {p} : q \in X}
  <2>1. p .. p + 2 \ {p} = {p + 1, p + 2}  OBVIOUS
  <2> QED BY <1>3, <2>1
<1>5. back = (IF p + 1 \in X THEN 1 ELSE 0) + (IF p + 2 \in X THEN 1 ELSE 0)  BY <1>4, CountOfTwo DEF NegativeIn
<1>6. back = (IF f[p + 1] = 0 THEN 1 ELSE 0) + (IF f[p + 2] = 0 THEN 1 ELSE 0)  BY <1>2, <1>3, <1>5
<1>7. back \in 0 .. took  BY <1>1, <1>2, <1>6
<1>8. ASSUME Shallow(f) PROVE back = took
  <2>1. (f[p + 1] >= 0 \/ f[Laizi] <= 1) /\ (f[p + 2] >= 0 \/ f[Laizi] <= 1)  BY <1>1, <1>8 DEF Shallow
  <2>2. f[p + 1] >= 0 /\ f[p + 2] >= 0  BY <1>2, <2>1 DEF RunAt
  <2> QED BY <1>1, <1>2, <1>6, <2>2
<1> QED BY <1>7, <1>8

(* The judge a after a run from p is taken from m. *)
RunStep(m, p, a, q, took) ==
    /\ took = MissingIn(m.num, p) /\ a = TakeOut(m, OfRun(p), took, Group(Shun, p)) /\ a \in Judges
    /\ q = next(a.num, p) /\ At(a.num, q)
    /\ Goes(m.num, a.num, p, took) /\ OneOfEach(a.num, m.num, p)

LEMMA RunSteps ==
    ASSUME NEW m \in Judges, NEW p \in Natural, m.num[Laizi] >= 0, NoneBefore(m.num, p), RunAt(m.num, p)
    PROVE  \E a \in Judges, q \in 0 .. 40, took \in 0 .. 1 : RunStep(m, p, a, q, took)
<1>1. PICK f \in [Tiles -> Int] : f = m.num  BY JudgeIs
<1>2. PICK took \in 0 .. 1 : took = MissingIn(f, p)  BY <1>1, RunTakes
<1>3. PICK tiles : tiles = OfRun(p)  OBVIOUS
<1>4. tiles \in [Tiles -> Int]  BY <1>3 DEF Of, OfRun
<1>5. PICK g \in Groups : g = Group(Shun, p)
  <2>1. Group(Shun, p) \in Groups  BY DEF Group, Groups, Shun
  <2> QED BY <2>1
<1>6. PICK a : a = TakeOut(m, tiles, took, g)  OBVIOUS
<1>7. Taken(a, m, tiles, took, g)
  <2>1. took \in Int  OBVIOUS
  <2> QED BY <1>4, <1>6, <2>1, TakeOutIs
<1>8. PICK n \in [Tiles -> Int] : n = a.num  BY <1>7, JudgeIs DEF Taken
<1>9. a \in Judges /\ Without(n, f, OfRun(p), took)  BY <1>1, <1>3, <1>7, <1>8 DEF Taken
<1>10. Goes(f, n, p, took) /\ OneOfEach(n, f, p)  BY <1>1, <1>2, <1>9, RunGoes
<1>11. PICK q \in 0 .. 40 : q = next(n, p) /\ At(n, q)
  <2>1. NoneBefore(n, p) /\ p \in 0 .. 40  BY <1>1, <1>10 DEF Goes
  <2>2. At(n, next(n, p))  BY <2>1, NextIs
  <2> QED BY <2>2 DEF At
<1>12. RunStep(m, p, a, q, took)
       BY <1>1, <1>2, <1>3, <1>5, <1>6, <1>8, <1>9, <1>10, <1>11 DEF RunStep
<1> QED BY <1>9, <1>11, <1>12

LEMMA RunStepGivesBack ==
    ASSUME NEW m \in Judges, NEW p \in Natural, m.num[Laizi] >= 0, RunAt(m.num, p),
           NEW a, NEW q, NEW took \in 0 .. 1, RunStep(m, p, a, q, took), NEW r, GivenBack(a, r)
    PROVE  LET b == Back(r, OfRun(p), NegativeIn(r.m.num, p)) IN GivenBack(m, b) /\ b.ok = r.ok
<1>1. PICK f \in [Tiles -> Int] : f = m.num  BY JudgeIs
<1>2. PICK tiles : tiles = OfRun(p)  OBVIOUS
<1>3. tiles \in [Tiles -> Int] /\ tiles[Laizi] = 0
  <2>1. Laizi \notin p .. p + 2  BY DEF RunAt
  <2> QED BY <1>2, <2>1 DEF Of, OfRun
<1>4. PICK g \in Groups : g = Group(Shun, p)
  <2>1. Group(Shun, p) \in Groups  BY DEF Group, Groups, Shun
  <2> QED BY <2>1
<1>5. a = TakeOut(m, tiles, took, g) /\ took \in Int  BY <1>2, <1>4 DEF RunStep
<1>6. PICK rn : rn = r.m.num  OBVIOUS
<1>7. PICK n : n = a.num  OBVIOUS
<1>8. \A t \in Natural : rn[t] = n[t]  BY <1>6, <1>7 DEF GivenBack
<1>9. PICK back : back = NegativeIn(rn, p)  OBVIOUS
<1>10. back \in 0 .. took /\ (Shallow(f) => back = took)
  <2>1. took = MissingIn(f, p) /\ OneOfEach(n, f, p) /\ RunAt(f, p) /\ f[Laizi] >= 0
        BY <1>1, <1>7 DEF RunStep
  <2> QED BY <1>8, <1>9, <2>1, RunBack
<1>11. Shallow(m.num) => Shallow(a.num) /\ back = took  BY <1>1, <1>10 DEF RunStep, Goes
<1> QED BY <1>2, <1>3, <1>5, <1>6, <1>9, <1>10, <1>11, BackIs

LEMMA RunIs ==
    ASSUME NEW deeper, NEW m \in Judges, NEW p \in 11 .. 39, IsRun(m, p),
           NEW a, NEW q, NEW took, RunStep(m, p, a, q, took), NEW r, r = deeper[a][q]
    PROVE  deal_shunzi(deeper, m, p) = Back(r, OfRun(p), NegativeIn(r.m.num, p))
<1>1. ~ (p < 11) /\ ~ (p > 39)  OBVIOUS
<1>2. a = TakeOut(m, OfRun(p), MissingIn(m.num, p), Group(Shun, p)) /\ q = next(a.num, p)
      BY DEF RunStep
<1>3. deal_shunzi(deeper, m, p) =
        LET b == TakeOut(m, OfRun(p), MissingIn(m.num, p), Group(Shun, p))
            g == deeper[b][next(b.num, p)]
        IN  Back(g, OfRun(p), NegativeIn(g.m.num, p))
      BY <1>1 DEF deal_shunzi, OfRun, MissingIn, NegativeIn
<1> QED BY <1>2, <1>3

LEMMA RunGivesBack ==
    ASSUME NEW deeper, GivesBack(deeper), NEW m \in Judges, NEW p \in 0 .. 40,
           m.num[Laizi] >= 0, At(m.num, p)
    PROVE  GivenBack(m, deal_shunzi(deeper, m, p))
<1>1. CASE p < 11 \/ p > 39  BY <1>1, AsIs DEF deal_shunzi
<1>2. CASE p \in 11 .. 39 /\ ~ IsRun(m, p)  BY <1>2, AsIs DEF deal_shunzi
<1>3. CASE p \in 11 .. 39 /\ IsRun(m, p)
  <2>1. PICK f \in [Tiles -> Int] : f = m.num  BY JudgeIs
  <2>2. p \in Natural /\ NoneBefore(f, p) /\ RunAt(f, p) /\ f[Laizi] >= 0
        BY <1>3, <2>1 DEF At, IsRun, RunAt
  <2>3. PICK a \in Judges, q \in 0 .. 40, took \in 0 .. 1 : RunStep(m, p, a, q, took)
        BY <2>1, <2>2, RunSteps
  <2>4. a.num[Laizi] >= 0
    <3>1. f[Laizi] \in Int  OBVIOUS
    <3> QED BY <2>1, <2>3, <3>1 DEF RunStep, Goes
  <2>5. PICK r : r = deeper[a][q]  OBVIOUS
  <2>6. GivenBack(a, r)  BY <2>3, <2>4, <2>5 DEF GivesBack, RunStep
  <2>7. GivenBack(m, Back(r, OfRun(p), NegativeIn(r.m.num, p)))
        BY <2>1, <2>2, <2>3, <2>6, RunStepGivesBack
  <2> QED BY <1>3, <2>3, <2>5, <2>7, RunIs
<1> QED BY <1>1, <1>2, <1>3

(* A search after one that failed. *)
LEMMA ThenBack ==
    ASSUME NEW m \in Judges, NEW k, GivenBack(m, k), ~ k.ok, NEW s, GivenBack(k.m, s)
    PROVE  GivenBack(m, s)
<1>1. PICK c \in Judges : c = k.m  BY DEF GivenBack
<1>2. PICK f \in [Tiles -> Int] : f = m.num  BY JudgeIs
<1>3. PICK h \in [Tiles -> Int] : h = c.num  BY JudgeIs
<1>4. /\ c.laizi = m.laizi /\ c.pai = m.pai /\ c.groups = m.groups
      /\ \A t \in Natural : h[t] = f[t]
      /\ 0 <= h[Laizi] /\ h[Laizi] <= f[Laizi] /\ (Shallow(f) => h[Laizi] = f[Laizi])
      BY <1>1, <1>2, <1>3 DEF GivenBack
<1>5. Shallow(f) => Shallow(h)  BY <1>4 DEF Shallow
<1>6. /\ s \in [ok : BOOLEAN, m : Judges] /\ s.m.laizi = c.laizi /\ s.m.pai = c.pai
      /\ \A t \in Natural : s.m.num[t] = h[t]
      /\ 0 <= s.m.num[Laizi] /\ s.m.num[Laizi] <= h[Laizi]
      /\ ~ s.ok => s.m.groups = c.groups
      /\ Shallow(h) => s.m.num[Laizi] = h[Laizi]
      BY <1>1, <1>3 DEF GivenBack
<1>7. PICK sn \in [Tiles -> Int] : sn = s.m.num
  <2>1. s.m \in Judges  BY <1>6
  <2> QED BY <2>1, JudgeIs
<1>8. sn[Laizi] \in Int /\ h[Laizi] \in Int /\ f[Laizi] \in Int  OBVIOUS
<1>9. sn[Laizi] <= f[Laizi]  BY <1>4, <1>6, <1>7, <1>8
<1> QED BY <1>2, <1>4, <1>5, <1>6, <1>7, <1>9 DEF GivenBack

LEMMA SearchGivesBack ==
    ASSUME NEW deeper, GivesBack(deeper), NEW m \in Judges, NEW p \in 0 .. 40,
           m.num[Laizi] >= 0, At(m.num, p)
    PROVE  GivenBack(m, TripleOrRun(deeper, m, p))
<1>1. PICK k : k = deal_kezi(deeper, m, p)  OBVIOUS
<1>2. GivenBack(m, k)  BY <1>1, TripleGivesBack
<1>3. CASE k.ok  BY <1>1, <1>2, <1>3 DEF TripleOrRun
<1>4. CASE ~ k.ok
  <2>1. PICK c \in Judges : c = k.m  BY <1>2 DEF GivenBack
  <2>2. (\A t \in Natural : c.num[t] = m.num[t]) /\ c.num[Laizi] >= 0  BY <1>2, <2>1 DEF GivenBack
  <2>3. At(c.num, p)  BY <2>2 DEF At, NoneBefore
  <2>4. GivenBack(c, deal_shunzi(deeper, c, p))  BY <2>2, <2>3, RunGivesBack
  <2>5. GivenBack(m, deal_shunzi(deeper, c, p))  BY <1>2, <1>4, <2>1, <2>4, ThenBack
  <2> QED BY <1>1, <1>4, <2>1, <2>5 DEF TripleOrRun
<1> QED BY <1>3, <1>4

LEMMA DealsGiveBack == \A k \in 0 .. Rounds : GivesBack(Deals[k])
<1>1. Rounds \in Nat  BY DEF Rounds
<1>2. PICK T : T = {k \in 0 .. Rounds : GivesBack(Deals[k])}  OBVIOUS
<1>3. ASSUME NEW k \in 0 .. Rounds, k = 0 \/ GivesBack(Deals[k - 1]) PROVE GivesBack(Deals[k])
  <2> SUFFICES ASSUME NEW m \in Judges, NEW p \in 0 .. 40, m.num[Laizi] >= 0, At(m.num, p)
               PROVE  GivenBack(m, Deals[k][m][p])
      BY DEF GivesBack
  <2>1. Deals[k][m][p] = IF k = 0 THEN Fail(m) ELSE TripleOrRun(Deals[k - 1], m, p)  BY DealsUnfold
  <2>2. CASE k = 0  BY <2>1, <2>2, AsIs
  <2>3. CASE k # 0
    <3>1. GivesBack(Deals[k - 1])  BY <1>3, <2>3
    <3>2. GivenBack(m, TripleOrRun(Deals[k - 1], m, p))  BY <3>1, SearchGivesBack
    <3> QED BY <2>1, <2>3, <3>2
  <2> QED BY <2>2, <2>3
<1>4. 0 \in T  BY <1>1, <1>2, <1>3
<1>5. ASSUME NEW k \in 0 .. Rounds - 1, k \in T PROVE k + 1 \in T
  <2>1. k + 1 \in 0 .. Rounds /\ (k + 1) - 1 = k  BY <1>1
  <2> QED BY <1>2, <1>3, <1>5, <2>1
<1> QED BY <1>1, <1>2, <1>4, <1>5, UpTo
LEMMA PairGivesBack ==
    ASSUME NEW m \in Judges, m.num[Laizi] >= 0, NEW i \in Tiles
    PROVE  GivenBack(m, Pair(Fail(m), i))
<1>1. PICK r : r = Fail(m)  OBVIOUS
<1>2. r.m = m /\ r.ok = FALSE  BY <1>1 DEF Fail
<1>3. CASE i = Laizi \/ m.num[i] <= 0 \/ m.num[i] + m.num[Laizi] < 2
      BY <1>1, <1>2, <1>3, AsIs DEF Pair
<1>4. CASE ~ (i = Laizi \/ m.num[i] <= 0 \/ m.num[i] + m.num[Laizi] < 2)
  <2>1. PICK f \in [Tiles -> Int] : f = m.num  BY JudgeIs
  <2>2. i \in Natural /\ f[i] > 0 /\ f[i] + f[Laizi] >= 2 /\ f[Laizi] >= 0
    <3>1. i \in Natural  BY <1>4
    <3>2. f[i] \in Int /\ f[Laizi] \in Int  BY <3>1
    <3> QED BY <1>4, <2>1, <3>1, <3>2
  <2>3. PICK a \in Judges, q \in 0 .. 40, wild \in Int : SameTileStep(m, i, 2, Jiang, 0, a, q, wild)
    <3>1. 2 \in 2 .. 3 /\ Jiang \in Nat /\ 0 \in 0 .. i  BY <2>2 DEF Jiang
    <3>2. NoneBefore(f, 0)  BY DEF NoneBefore
    <3> QED BY <2>1, <2>2, <3>1, <3>2, SameTileSteps
  <2>4. a.num[Laizi] >= 0
    <3>1. f[Laizi] \in Int  OBVIOUS
    <3> QED BY <2>1, <2>3, <3>1 DEF SameTileStep, Goes
  <2>5. GivenBack(a, Deal(a, q))
    <3>1. Rounds \in 0 .. Rounds  BY DEF Rounds
    <3> QED BY <2>3, <2>4, <3>1, DealsGiveBack DEF GivesBack, Deal, SameTileStep
  <2>6. Pair(r, i) = Back(Deal(a, q), Of(2, {i}), wild)  BY <1>2, <1>4, <2>3 DEF Pair, SameTileStep
  <2>7. GivenBack(m, Back(Deal(a, q), Of(2, {i}), wild))
    <3>1. 2 \in 2 .. 3 /\ Jiang \in Nat  BY DEF Jiang
    <3> QED BY <2>2, <2>3, <2>5, <3>1, SameTileGivesBack
  <2> QED BY <1>1, <2>6, <2>7
<1> QED BY <1>3, <1>4

LEMMA hu233GivesBack ==
    ASSUME NEW m \in Judges, m.num[Laizi] >= 0
    PROVE  GivenBack(m, hu233(m))
<1>1. PICK g : Tried(m, 41, g) /\ hu233(m) = g[41]  BY hu233Tries
<1>2. PICK T : T = {k \in 0 .. 41 : GivenBack(m, g[k])}  OBVIOUS
<1>3. 0 \in T
  <2>1. g[0] = Fail(m)  BY <1>1 DEF Tried
  <2> QED BY <1>2, <2>1, AsIs
<1>4. ASSUME NEW k \in 0 .. 40, k \in T PROVE k + 1 \in T
  <2>1. PICK r : r = g[k]  OBVIOUS
  <2>2. GivenBack(m, r)  BY <1>2, <1>4, <2>1
  <2>3. g[k + 1] = Pair(r, k)
    <3>1. k + 1 \in 0 .. 41 /\ k + 1 # 0 /\ (k + 1) - 1 = k  OBVIOUS
    <3> QED BY <1>1, <2>1, <3>1 DEF Tried
  <2>4. CASE r.ok  BY <1>2, <2>2, <2>3, <2>4 DEF Pair
  <2>5. CASE ~ r.ok
    <3>1. PICK c \in Judges : c = r.m  BY <2>2 DEF GivenBack
    <3>2. r = Fail(c)  BY <2>2, <2>5, <3>1 DEF GivenBack, Fail
    <3>3. c.num[Laizi] >= 0  BY <2>2, <3>1 DEF GivenBack
    <3>4. GivenBack(c, Pair(r, k))  BY <3>2, <3>3, PairGivesBack
    <3>5. GivenBack(m, Pair(r, k))  BY <2>2, <2>5, <3>1, <3>4, ThenBack
    <3> QED BY <1>2, <2>3, <3>5
  <2> QED BY <2>4, <2>5
<1>5. 41 \in T  BY <1>3, <1>4, UpTo
<1> QED BY <1>1, <1>2, <1>5

-----------------------------------------------------------------------------
(* The hands that are drawn. *)
LEMMA PlayedIs ==
    /\ Laizi \notin Played /\ Played \subseteq 0 .. 39 /\ Played \subseteq Tiles
    /\ 20 \notin Played /\ 30 \notin Played /\ 40 \notin Played
    /\ \A t \in 11 .. 39 : t # 20 /\ t # 30 => t \in Played
BY DEF Played, Wan1, Tong1

HandInv ==
    /\ hand \in [Deck \cup {Laizi} -> Nat]
    /\ \A t \in Deck : hand[t] <= 4
    /\ hand[Laizi] <= MaxWild

LEMMA HandIsDrawn == HandSpec => []HandInv
<1>1. Laizi \notin Deck /\ MaxWild \in 0 .. 4  BY HandsAssumption, PlayedIs
<1>2. HandInit => HandInv  BY <1>1 DEF HandInit, HandInv
<1>3. HandInv /\ [HandNext]_hand => HandInv'
  <2>1. ASSUME HandInv, NEW t \in Deck \cup {Laizi}, Draw(t) PROVE HandInv'
    <3>1. /\ hand[t] < (IF t = Laizi THEN MaxWild ELSE 4)
          /\ hand' = [hand EXCEPT ![t] = @ + 1]
          BY <2>1 DEF Draw
    <3>2. hand[t] \in Nat  BY <2>1 DEF HandInv
    <3>3. hand' \in [Deck \cup {Laizi} -> Nat]  BY <2>1, <3>1, <3>2 DEF HandInv
    <3>4. \A u \in Deck \cup {Laizi} : hand'[u] = IF u = t THEN hand[t] + 1 ELSE hand[u]
          BY <2>1, <3>1 DEF HandInv
    <3>5. \A u \in Deck : hand'[u] <= 4
      <4> SUFFICES ASSUME NEW u \in Deck PROVE hand'[u] <= 4  OBVIOUS
      <4>1. CASE u = t  BY <1>1, <3>1, <3>2, <3>4, <4>1
      <4>2. CASE u # t  BY <2>1, <3>4, <4>2 DEF HandInv
      <4> QED BY <4>1, <4>2
    <3>6. hand'[Laizi] <= MaxWild
      <4>1. CASE Laizi = t  BY <1>1, <3>1, <3>2, <3>4, <4>1
      <4>2. CASE Laizi # t  BY <2>1, <3>4, <4>2 DEF HandInv
      <4> QED BY <4>1, <4>2
    <3> QED BY <3>3, <3>5, <3>6 DEF HandInv
  <2>2. ASSUME HandInv, UNCHANGED hand PROVE HandInv'  BY <2>2 DEF HandInv
  <2> QED BY <2>1, <2>2 DEF HandNext
<1> QED BY <1>2, <1>3, PTL DEF HandSpec

LEMMA FullIs ==
    ASSUME HandInv
    PROVE  /\ Full \in [Tiles -> Nat] /\ Judge \in Judges
           /\ Judge.num = Full /\ Full[Laizi] = hand[Laizi]
           /\ \A t \in Natural : Full[t] <= 4 /\ (Full[t] > 0 => t \in Deck)
<1>1. Laizi \notin Deck /\ Deck \subseteq 0 .. 39  BY HandsAssumption, PlayedIs
<1>2. DOMAIN hand = Deck \cup {Laizi} /\ \A t \in Deck \cup {Laizi} : hand[t] \in Nat  BY DEF HandInv
<1>3. Full \in [Tiles -> Nat]  BY <1>2 DEF Full
<1>4. Full[Laizi] = hand[Laizi]  BY <1>2 DEF Full
<1>5. \A t \in Natural : Full[t] <= 4 /\ (Full[t] > 0 => t \in Deck)
  <2> SUFFICES ASSUME NEW t \in Natural PROVE Full[t] <= 4 /\ (Full[t] > 0 => t \in Deck)
      OBVIOUS
  <2>1. CASE t \in Deck
    <3>1. Full[t] = hand[t] /\ hand[t] <= 4  BY <1>2, <2>1 DEF Full, HandInv
    <3> QED BY <2>1, <3>1
  <2>2. CASE t \notin Deck
    <3>1. Full[t] = 0  BY <1>2, <2>2 DEF Full
    <3> QED BY <3>1
  <2> QED BY <2>1, <2>2
<1>6. Judge \in Judges
  <2>1. Full \in [Tiles -> Int]  BY <1>3
  <2>2. <<>> \in Seq([op : Nat, val : Nat])  OBVIOUS
  <2> QED BY <2>1, <2>2 DEF Judge, Judges
<1>7. Judge.num = Full  BY DEF Judge
<1> QED BY <1>3, <1>4, <1>5, <1>6, <1>7

(* hu233 leaves a hand with at most two wild tiles as it found it, however its searches took *)
(* and gave back: every search it makes does.                                                *)
THEOREM JudgeGivesBackAlways == HandSpec => []JudgeGivesBack
<1>1. HandInv => JudgeGivesBack
  <2> SUFFICES ASSUME HandInv, hand[Laizi] <= 2 PROVE hu233(Judge).m.num = Full
      BY DEF JudgeGivesBack
  <2>1. PICK j \in Judges, f \in [Tiles -> Nat] :
          j = Judge /\ f = Full /\ j.num = f /\ f[Laizi] = hand[Laizi]
        BY FullIs
  <2>2. PICK r : r = hu233(j)  OBVIOUS
  <2>3. GivenBack(j, r)
    <3>1. f[Laizi] \in Nat  OBVIOUS
    <3>2. j.num[Laizi] >= 0  BY <2>1, <3>1
    <3> QED BY <2>2, <3>2, hu233GivesBack
  <2>4. Shallow(f)  BY <2>1 DEF Shallow
  <2>5. PICK rn \in [Tiles -> Int] : rn = r.m.num
    <3>1. r.m \in Judges  BY <2>3 DEF GivenBack
    <3> QED BY <3>1, JudgeIs
  <2>6. \A t \in Tiles : rn[t] = f[t]
    <3>1. rn[Laizi] = f[Laizi]  BY <2>1, <2>3, <2>4, <2>5 DEF GivenBack
    <3>2. \A t \in Natural : rn[t] = f[t]  BY <2>1, <2>3, <2>5 DEF GivenBack
    <3> QED BY <3>1, <3>2
  <2>7. rn = f  BY <2>6
  <2> QED BY <2>1, <2>2, <2>5, <2>7
<1> QED BY <1>1, HandIsDrawn, PTL

(* Counts of tiles, with c more of one and with one more of every tile of a run. *)
Counts == [Tiles -> Nat]
Plus(n, q, c)  == [t \in Tiles |-> n[t] + (IF t = q THEN c ELSE 0)]
PlusRun(n, p)  == [t \in Tiles |-> n[t] + (IF t \in p .. p + 2 THEN 1 ELSE 0)]

LEMMA PlusIs ==
    ASSUME NEW n \in Counts, NEW q, NEW c \in Nat
    PROVE  Plus(n, q, c) \in Counts
<1>1. \A t \in Tiles : n[t] \in Nat  BY DEF Counts
<1> QED BY <1>1 DEF Plus, Counts

LEMMA PlusRunIs ==
    ASSUME NEW n \in Counts, NEW p \in Int
    PROVE  /\ PlusRun(n, p) \in Counts
           /\ PlusRun(n, p) = Plus(Plus(Plus(n, p, 1), p + 1, 1), p + 2, 1)
<1>1. \A t \in Tiles : n[t] \in Nat  BY DEF Counts
<1>2. PlusRun(n, p) \in Counts  BY <1>1 DEF PlusRun, Counts
<1>3. \A t \in Tiles : PlusRun(n, p)[t] = n[t] + (IF t \in p .. p + 2 THEN 1 ELSE 0)  BY DEF PlusRun
<1>4. PICK h \in Counts : h = Plus(Plus(Plus(n, p, 1), p + 1, 1), p + 2, 1)
  <2>1. Plus(n, p, 1) \in Counts  BY PlusIs
  <2>2. Plus(Plus(n, p, 1), p + 1, 1) \in Counts  BY <2>1, PlusIs
  <2>3. Plus(Plus(Plus(n, p, 1), p + 1, 1), p + 2, 1) \in Counts  BY <2>2, PlusIs
  <2> QED BY <2>3
<1>5. PICK g \in Counts : g = PlusRun(n, p)  BY <1>2
<1>6. ASSUME NEW t \in Tiles PROVE g[t] = h[t]
  <2>1. n[t] \in Nat /\ g[t] = n[t] + (IF t \in p .. p + 2 THEN 1 ELSE 0)  BY <1>1, <1>3, <1>5
  <2>2. h[t] = n[t] + (IF t = p THEN 1 ELSE 0) + (IF t = p + 1 THEN 1 ELSE 0) + (IF t = p + 2 THEN 1 ELSE 0)
        BY <1>4 DEF Plus
  <2>3. t \in p .. p + 2 <=> t = p \/ t = p + 1 \/ t = p + 2  OBVIOUS
  <2> QED BY <2>1, <2>2, <2>3
<1>7. g = h  BY <1>6 DEF Counts
<1> QED BY <1>2, <1>4, <1>5, <1>7

LEMMA PlusTwice ==
    ASSUME NEW n \in Counts, NEW q, NEW c \in Nat, NEW d \in Nat
    PROVE  Plus(Plus(n, q, c), q, d) = Plus(n, q, c + d)
<1>1. \A t \in Tiles : n[t] \in Nat  BY DEF Counts
<1>2. PICK g \in Counts : g = Plus(n, q, c)  BY PlusIs
<1>3. PICK h \in Counts : h = Plus(g, q, d)  BY PlusIs
<1>4. PICK e \in Counts : e = Plus(n, q, c + d)
  <2>1. c + d \in Nat  OBVIOUS
  <2> QED BY <2>1, PlusIs
<1>5. ASSUME NEW t \in Tiles PROVE h[t] = e[t]
  <2>1. /\ n[t] \in Nat /\ g[t] = n[t] + (IF t = q THEN c ELSE 0)
        /\ h[t] = g[t] + (IF t = q THEN d ELSE 0) /\ e[t] = n[t] + (IF t = q THEN c + d ELSE 0)
        BY <1>1, <1>2, <1>3, <1>4 DEF Plus
  <2> QED BY <2>1
<1>6. h = e  BY <1>5 DEF Counts
<1> QED BY <1>2, <1>3, <1>4, <1>6

-----------------------------------------------------------------------------
(* How many tiles. *)
LEMMA TotalIs ==
    ASSUME NEW n \in Counts
    PROVE  Total(n) \in Nat
<1>1. PICK g : Sums(n, 41, g) /\ Total(n) = g[41]  BY TotalSums
<1>2. PICK T : T = {k \in 0 .. 41 : g[k] \in Nat}  OBVIOUS
<1>3. 0 \in T  BY <1>1, <1>2 DEF Sums
<1>4. ASSUME NEW k \in 0 .. 40, k \in T PROVE k + 1 \in T
  <2>1. k + 1 \in 0 .. 41 /\ k + 1 # 0 /\ (k + 1) - 1 = k  OBVIOUS
  <2>2. g[k + 1] = g[k] + n[k]  BY <1>1, <2>1 DEF Sums
  <2>3. n[k] \in Nat  BY DEF Counts
  <2> QED BY <1>2, <1>4, <2>1, <2>2, <2>3
<1>5. 41 \in T  BY <1>3, <1>4, UpTo
<1> QED BY <1>1, <1>2, <1>5

LEMMA TotalPlus ==
    ASSUME NEW n \in Counts, NEW q \in Tiles, NEW c \in Nat
    PROVE  Total(Plus(n, q, c)) = Total(n) + c
<1>1. PICK h \in Counts : h = Plus(n, q, c)  BY PlusIs
<1>2. PICK g : Sums(n, 41, g) /\ Total(n) = g[41]  BY TotalSums
<1>3. PICK e : Sums(h, 41, e) /\ Total(h) = e[41]  BY TotalSums
<1>4. PICK T : T = {k \in 0 .. 41 : g[k] \in Nat /\ e[k] = g[k] + (IF k > q THEN c ELSE 0)}  OBVIOUS
<1>5. 0 \in T  BY <1>2, <1>3, <1>4 DEF Sums
<1>6. ASSUME NEW k \in 0 .. 40, k \in T PROVE k + 1 \in T
  <2>1. k + 1 \in 0 .. 41 /\ k + 1 # 0 /\ (k + 1) - 1 = k  OBVIOUS
  <2>2. g[k + 1] = g[k] + n[k] /\ e[k + 1] = e[k] + h[k]  BY <1>2, <1>3, <2>1 DEF Sums
  <2>3. n[k] \in Nat /\ h[k] = n[k] + (IF k = q THEN c ELSE 0)  BY <1>1 DEF Counts, Plus
  <2>4. g[k] \in Nat /\ e[k] = g[k] + (IF k > q THEN c ELSE 0)  BY <1>4, <1>6
  <2>5. e[k + 1] = g[k + 1] + (IF k + 1 > q THEN c ELSE 0)  BY <2>2, <2>3, <2>4
  <2> QED BY <1>4, <2>1, <2>2, <2>3, <2>4, <2>5
<1>7. 41 \in T  BY <1>5, <1>6, UpTo
<1> QED BY <1>1, <1>2, <1>3, <1>4, <1>7

LEMMA TotalRun ==
    ASSUME NEW n \in Counts, NEW p \in 0 .. 38
    PROVE  Total(PlusRun(n, p)) = Total(n) + 3
<1>1. PICK a \in Counts : a = Plus(n, p, 1)  BY PlusIs
<1>2. PICK b \in Counts : b = Plus(a, p + 1, 1)  BY PlusIs
<1>3. PlusRun(n, p) = Plus(b, p + 2, 1)  BY <1>1, <1>2, PlusRunIs
<1>4. PICK u \in Tiles, v \in Tiles, one \in Nat : u = p + 1 /\ v = p + 2 /\ one = 1
  <2>1. p + 1 \in Tiles /\ p + 2 \in Tiles /\ 1 \in Nat  OBVIOUS
  <2> QED BY <2>1
<1>5. p \in Tiles  OBVIOUS
<1>6. a = Plus(n, p, one) /\ b = Plus(a, u, one) /\ PlusRun(n, p) = Plus(b, v, one)
  <2> HIDE DEF Tiles
  <2> QED BY <1>1, <1>2, <1>3, <1>4
<1>7. Total(Plus(n, p, one)) = Total(n) + one  BY <1>5, TotalPlus
<1>8. Total(Plus(a, u, one)) = Total(a) + one  BY TotalPlus
<1>9. Total(Plus(b, v, one)) = Total(b) + one  BY TotalPlus
<1>10. PICK x \in Nat : x = Total(n)  BY TotalIs
<1>11. Total(PlusRun(n, p)) = ((x + one) + one) + one  BY <1>6, <1>7, <1>8, <1>9, <1>10
<1> QED BY <1>4, <1>10, <1>11

LEMMA TotalBound ==
    ASSUME NEW n \in Counts, \A t \in Tiles : n[t] <= 4
    PROVE  Total(n) <= Rounds
<1>1. PICK g : Sums(n, 41, g) /\ Total(n) = g[41]  BY TotalSums
<1>2. PICK T : T = {k \in 0 .. 41 : g[k] \in Nat /\ g[k] <= 4 * k}  OBVIOUS
<1>3. 0 \in T  BY <1>1, <1>2 DEF Sums
<1>4. ASSUME NEW k \in 0 .. 40, k \in T PROVE k + 1 \in T
  <2>1. k + 1 \in 0 .. 41 /\ k + 1 # 0 /\ (k + 1) - 1 = k  OBVIOUS
  <2>2. g[k + 1] = g[k] + n[k]  BY <1>1, <2>1 DEF Sums
  <2>3. n[k] \in Nat /\ n[k] <= 4  BY DEF Counts
  <2> QED BY <1>2, <1>4, <2>1, <2>2, <2>3
<1>5. 41 \in T  BY <1>3, <1>4, UpTo
<1> QED BY <1>1, <1>2, <1>5 DEF Rounds

-----------------------------------------------------------------------------
(* Tiles in groups: r runs from every tile and c triples of it besides. *)
Runs == {r \in [-2 .. 40 -> Nat] : \A t \in -2 .. 40 : t \notin 11 .. 38 => r[t] = 0}
Split(n, r, c) == \A t \in Tiles : n[t] = r[t - 2] + r[t - 1] + r[t] + 3 * c[t]
Grouped(n) == \E r \in Runs, c \in Counts : Split(n, r, c)

LEMMA GroupedNone ==
    ASSUME NEW n \in Counts, \A t \in Tiles : n[t] = 0
    PROVE  Grouped(n)
<1>1. PICK r : r = [t \in -2 .. 40 |-> 0]  OBVIOUS
<1>2. r \in Runs  BY <1>1 DEF Runs
<1>3. PICK c \in Counts : c = [t \in Tiles |-> 0]
  <2>1. [t \in Tiles |-> 0] \in Counts  BY DEF Counts
  <2> QED BY <2>1
<1>4. Split(n, r, c)  BY <1>1, <1>3 DEF Split
<1> QED BY <1>2, <1>4 DEF Grouped

LEMMA GroupedTriple ==
    ASSUME NEW n \in Counts, NEW p \in Tiles, Grouped(n)
    PROVE  Grouped(Plus(n, p, 3))
<1>1. PICK r \in Runs, c \in Counts : Split(n, r, c)  BY DEF Grouped
<1>2. PICK h \in Counts : h = Plus(n, p, 3)  BY PlusIs
<1>3. PICK d \in Counts : d = Plus(c, p, 1)  BY PlusIs
<1>4. ASSUME NEW t \in Tiles PROVE h[t] = r[t - 2] + r[t - 1] + r[t] + 3 * d[t]
  <2>1. r[t - 2] \in Nat /\ r[t - 1] \in Nat /\ r[t] \in Nat
    <3>1. t - 2 \in -2 .. 40 /\ t - 1 \in -2 .. 40 /\ t \in -2 .. 40  OBVIOUS
    <3> QED BY <3>1 DEF Runs
  <2>2. c[t] \in Nat /\ d[t] = c[t] + (IF t = p THEN 1 ELSE 0)  BY <1>3 DEF Counts, Plus
  <2>3. n[t] = r[t - 2] + r[t - 1] + r[t] + 3 * c[t]  BY <1>1 DEF Split
  <2>4. h[t] = n[t] + (IF t = p THEN 3 ELSE 0)  BY <1>2 DEF Plus
  <2> QED BY <2>1, <2>2, <2>3, <2>4
<1>5. Split(h, r, d)  BY <1>4 DEF Split
<1> QED BY <1>2, <1>5 DEF Grouped

LEMMA GroupedRun ==
    ASSUME NEW n \in Counts, NEW p \in 11 .. 38, Grouped(n)
    PROVE  Grouped(PlusRun(n, p))
<1>1. PICK r \in Runs, c \in Counts : Split(n, r, c)  BY DEF Grouped
<1>2. PICK h \in Counts : h = PlusRun(n, p)  BY PlusRunIs
<1>3. PICK s : s = [t \in -2 .. 40 |-> r[t] + (IF t = p THEN 1 ELSE 0)]  OBVIOUS
<1>4. \A t \in -2 .. 40 : r[t] \in Nat /\ (t \notin 11 .. 38 => r[t] = 0)  BY DEF Runs
<1>5. \A t \in -2 .. 40 : s[t] = r[t] + (IF t = p THEN 1 ELSE 0)  BY <1>3
<1>6. s \in Runs  BY <1>3, <1>4 DEF Runs
<1>7. ASSUME NEW t \in Tiles PROVE h[t] = s[t - 2] + s[t - 1] + s[t] + 3 * c[t]
  <2>1. t - 2 \in -2 .. 40 /\ t - 1 \in -2 .. 40 /\ t \in -2 .. 40  OBVIOUS
  <2>2. r[t - 2] \in Nat /\ r[t - 1] \in Nat /\ r[t] \in Nat  BY <1>4, <2>1
  <2>3. /\ s[t - 2] = r[t - 2] + (IF t - 2 = p THEN 1 ELSE 0)
        /\ s[t - 1] = r[t - 1] + (IF t - 1 = p THEN 1 ELSE 0) /\ s[t] = r[t] + (IF t = p THEN 1 ELSE 0)
        BY <1>5, <2>1
  <2>4. c[t] \in Nat /\ n[t] = r[t - 2] + r[t - 1] + r[t] + 3 * c[t]  BY <1>1 DEF Split, Counts
  <2>5. h[t] = n[t] + (IF t \in p .. p + 2 THEN 1 ELSE 0)  BY <1>2 DEF PlusRun
  <2>6. t \in p .. p + 2 <=> t - 2 = p \/ t - 1 = p \/ t = p  OBVIOUS
  <2> QED BY <2>2, <2>3, <2>4, <2>5, <2>6
<1>8. Split(h, s, c)  BY <1>7 DEF Split
<1> QED BY <1>2, <1>6, <1>8 DEF Grouped

(* Conversely, the lowest tile is in a triple or begins a run. *)
IsTripleAnd(n, p, e) == e \in Counts /\ Grouped(e) /\ n = Plus(e, p, 3)
IsRunAnd(n, p, e)    == p \in 11 .. 38 /\ e \in Counts /\ Grouped(e) /\ n = PlusRun(e, p)

LEMMA GroupedLow ==
    ASSUME NEW n \in Counts, Grouped(n), NEW p \in Tiles, n[p] > 0, \A t \in Tiles : t < p => n[t] = 0
    PROVE  (\E e : IsTripleAnd(n, p, e)) \/ (\E e : IsRunAnd(n, p, e))
<1>1. PICK r \in Runs, c \in Counts : Split(n, r, c)  BY DEF Grouped
<1>2. \A t \in -2 .. 40 : r[t] \in Nat /\ (t \notin 11 .. 38 => r[t] = 0)  BY DEF Runs
<1>3. \A t \in Tiles : c[t] \in Nat /\ n[t] \in Nat /\ n[t] = r[t - 2] + r[t - 1] + r[t] + 3 * c[t]
      BY <1>1 DEF Split, Counts
<1>4. \A t \in -2 .. 40 : t < p => r[t] = 0
  <2> SUFFICES ASSUME NEW t \in -2 .. 40, t < p PROVE r[t] = 0  OBVIOUS
  <2>1. CASE t < 0  BY <1>2, <2>1
  <2>2. CASE t >= 0
    <3>1. n[t] = 0 /\ n[t] = r[t - 2] + r[t - 1] + r[t] + 3 * c[t] /\ c[t] \in Nat
      <4>1. t \in Tiles /\ t < p  BY <2>2
      <4> QED BY <1>3, <4>1
    <3>2. r[t - 2] \in Nat /\ r[t - 1] \in Nat /\ r[t] \in Nat
      <4>1. t - 2 \in -2 .. 40 /\ t - 1 \in -2 .. 40  BY <2>2
      <4> QED BY <1>2, <4>1
    <3>3. PICK a, b, d, e \in Nat : a = r[t - 2] /\ b = r[t - 1] /\ d = r[t] /\ e = c[t]
          BY <3>1, <3>2
    <3>4. a + b + d + 3 * e = 0  BY <3>1, <3>3
    <3>5. d = 0  BY <3>4
    <3> QED BY <3>3, <3>5
  <2> QED BY <2>1, <2>2
<1>5. n[p] = r[p] + 3 * c[p]
  <2>1. p - 2 \in -2 .. 40 /\ p - 1 \in -2 .. 40  OBVIOUS
  <2>2. r[p - 2] = 0 /\ r[p - 1] = 0 /\ r[p] \in Nat  BY <1>2, <1>4, <2>1
  <2>3. c[p] \in Nat /\ n[p] = r[p - 2] + r[p - 1] + r[p] + 3 * c[p]  BY <1>3
  <2> QED BY <2>2, <2>3
<1>6. CASE c[p] > 0
  <2>1. PICK d : d = [t \in Tiles |-> IF t = p THEN c[t] - 1 ELSE c[t]]  OBVIOUS
  <2>2. d \in Counts  BY <1>3, <1>6, <2>1 DEF Counts
  <2>3. PICK e : e = [t \in Tiles |-> IF t = p THEN n[t] - 3 ELSE n[t]]  OBVIOUS
  <2>4. n[p] >= 3
    <3>1. r[p] \in Nat /\ c[p] \in Nat  BY <1>2, <1>3
    <3> QED BY <1>5, <1>6, <3>1
  <2>5. e \in Counts  BY <1>3, <2>3, <2>4 DEF Counts
  <2>6. ASSUME NEW t \in Tiles PROVE e[t] = r[t - 2] + r[t - 1] + r[t] + 3 * d[t]
    <3>1. t - 2 \in -2 .. 40 /\ t - 1 \in -2 .. 40 /\ t \in -2 .. 40  OBVIOUS
    <3>2. r[t - 2] \in Nat /\ r[t - 1] \in Nat /\ r[t] \in Nat  BY <1>2, <3>1
    <3>3. c[t] \in Nat /\ n[t] = r[t - 2] + r[t - 1] + r[t] + 3 * c[t]  BY <1>3
    <3>4. CASE t = p
      <4>1. e[t] = n[t] - 3 /\ d[t] = c[t] - 1  BY <2>1, <2>3, <3>4
      <4> QED BY <3>2, <3>3, <4>1
    <3>5. CASE t # p
      <4>1. e[t] = n[t] /\ d[t] = c[t]  BY <2>1, <2>3, <3>5
      <4> QED BY <3>3, <4>1
    <3> QED BY <3>4, <3>5
  <2>7. Grouped(e)
    <3>1. Split(e, r, d)  BY <2>6 DEF Split
    <3> QED BY <2>2, <3>1 DEF Grouped
  <2>8. PICK h \in Counts : h = Plus(e, p, 3)  BY <2>5, PlusIs
  <2>9. ASSUME NEW t \in Tiles PROVE h[t] = n[t]
    <3>1. n[t] \in Nat /\ h[t] = e[t] + (IF t = p THEN 3 ELSE 0)  BY <1>3, <2>8 DEF Plus
    <3>2. e[t] = IF t = p THEN n[t] - 3 ELSE n[t]  BY <2>3
    <3> QED BY <3>1, <3>2
  <2>10. n = h  BY <2>9 DEF Counts
  <2> QED BY <2>5, <2>7, <2>8, <2>10 DEF IsTripleAnd
<1>7. CASE c[p] = 0
  <2>1. r[p] > 0 /\ p \in 11 .. 38  BY <1>2, <1>5, <1>7
  <2>2. PICK s : s = [t \in -2 .. 40 |-> IF t = p THEN r[t] - 1 ELSE r[t]]  OBVIOUS
  <2>3. s \in Runs  BY <1>2, <2>1, <2>2 DEF Runs
  <2>4. PICK e : e = [t \in Tiles |-> IF t \in p .. p + 2 THEN n[t] - 1 ELSE n[t]]  OBVIOUS
  <2>5. ASSUME NEW t \in Tiles, t \in p .. p + 2 PROVE n[t] > 0
    <3>1. t - 2 \in -2 .. 40 /\ t - 1 \in -2 .. 40 /\ t \in -2 .. 40  OBVIOUS
    <3>2. r[t - 2] \in Nat /\ r[t - 1] \in Nat /\ r[t] \in Nat  BY <1>2, <3>1
    <3>3. c[t] \in Nat /\ n[t] = r[t - 2] + r[t - 1] + r[t] + 3 * c[t]  BY <1>3
    <3>4. t = p \/ t - 1 = p \/ t - 2 = p  BY <2>5
    <3>5. r[t] > 0 \/ r[t - 1] > 0 \/ r[t - 2] > 0  BY <2>1, <3>4
    <3> QED BY <3>2, <3>3, <3>5
  <2>6. e \in Counts  BY <1>3, <2>4, <2>5 DEF Counts
  <2>7. ASSUME NEW t \in Tiles PROVE e[t] = s[t - 2] + s[t - 1] + s[t] + 3 * c[t]
    <3>1. t - 2 \in -2 .. 40 /\ t - 1 \in -2 .. 40 /\ t \in -2 .. 40  OBVIOUS
    <3>2. r[t - 2] \in Nat /\ r[t - 1] \in Nat /\ r[t] \in Nat  BY <1>2, <3>1
    <3>3. /\ s[t - 2] = (IF t - 2 = p THEN r[t - 2] - 1 ELSE r[t - 2])
          /\ s[t - 1] = (IF t - 1 = p THEN r[t - 1] - 1 ELSE r[t - 1])
          /\ s[t] = (IF t = p THEN r[t] - 1 ELSE r[t])
          BY <2>2, <3>1
    <3>4. c[t] \in Nat /\ n[t] = r[t - 2] + r[t - 1] + r[t] + 3 * c[t]  BY <1>3
    <3>5. e[t] = IF t \in p .. p + 2 THEN n[t] - 1 ELSE n[t]  BY <2>4
    <3>6. t \in p .. p + 2 <=> t - 2 = p \/ t - 1 = p \/ t = p  OBVIOUS
    <3>7. CASE t \in p .. p + 2
      <4>1. e[t] = n[t] - 1  BY <3>5, <3>7
      <4>2. s[t - 2] + s[t - 1] + s[t] = r[t - 2] + r[t - 1] + r[t] - 1
        <5>1. CASE t - 2 = p
          <6>1. s[t - 2] = r[t - 2] - 1 /\ s[t - 1] = r[t - 1] /\ s[t] = r[t]  BY <3>3, <5>1
          <6> QED BY <3>2, <6>1
        <5>2. CASE t - 1 = p
          <6>1. s[t - 2] = r[t - 2] /\ s[t - 1] = r[t - 1] - 1 /\ s[t] = r[t]  BY <3>3, <5>2
          <6> QED BY <3>2, <6>1
        <5>3. CASE t = p
          <6>1. s[t - 2] = r[t - 2] /\ s[t - 1] = r[t - 1] /\ s[t] = r[t] - 1  BY <3>3, <5>3
          <6> QED BY <3>2, <6>1
        <5> QED BY <3>6, <3>7, <5>1, <5>2, <5>3
      <4>3. s[t - 2] \in Int /\ s[t - 1] \in Int /\ s[t] \in Int  BY <3>2, <3>3
      <4> QED BY <3>2, <3>4, <4>1, <4>2, <4>3
    <3>8. CASE t \notin p .. p + 2
      <4>1. e[t] = n[t]  BY <3>5, <3>8
      <4>2. s[t - 2] = r[t - 2] /\ s[t - 1] = r[t - 1] /\ s[t] = r[t]  BY <3>3, <3>6, <3>8
      <4> QED BY <3>4, <4>1, <4>2
    <3> QED BY <3>7, <3>8
  <2>8. Grouped(e)
    <3>1. Split(e, s, c)  BY <2>7 DEF Split
    <3> QED BY <2>3, <3>1 DEF Grouped
  <2>9. PICK h \in Counts : h = PlusRun(e, p)  BY <2>1, <2>6, PlusRunIs
  <2>10. ASSUME NEW t \in Tiles PROVE h[t] = n[t]
    <3>1. n[t] \in Nat /\ h[t] = e[t] + (IF t \in p .. p + 2 THEN 1 ELSE 0)  BY <1>3, <2>9 DEF PlusRun
    <3>2. e[t] = IF t \in p .. p + 2 THEN n[t] - 1 ELSE n[t]  BY <2>4
    <3> QED BY <3>1, <3>2
  <2>11. n = h  BY <2>10 DEF Counts
  <2> QED BY <2>1, <2>6, <2>8, <2>9, <2>11 DEF IsRunAnd
<1>8. c[p] \in Nat  BY <1>3
<1> QED BY <1>6, <1>7, <1>8

LEMMA GroupedTotal ==
    ASSUME NEW n \in Counts, Grouped(n)
    PROVE  \E x \in Nat : Total(n) = 3 * x
<1>1. PICK r \in Runs, c \in Counts : Split(n, r, c)  BY DEF Grouped
<1>2. \A t \in -2 .. 40 : r[t] \in Nat /\ (t \notin 11 .. 38 => r[t] = 0)  BY DEF Runs
<1>3. PICK g : Sums(n, 41, g) /\ Total(n) = g[41]  BY TotalSums
<1>4. PICK T : T = {k \in 0 .. 41 : \E x \in Nat : g[k] = 3 * x + 2 * r[k - 2] + r[k - 1]}  OBVIOUS
<1>5. 0 \in T
  <2>1. g[0] = 0  BY <1>3 DEF Sums
  <2>2. r[0 - 2] = 0 /\ r[0 - 1] = 0  BY <1>2
  <2>3. g[0] = 3 * 0 + 2 * r[0 - 2] + r[0 - 1]  BY <2>1, <2>2
  <2> QED BY <1>4, <2>3
<1>6. ASSUME NEW k \in 0 .. 40, k \in T PROVE k + 1 \in T
  <2>1. PICK x \in Nat : g[k] = 3 * x + 2 * r[k - 2] + r[k - 1]  BY <1>4, <1>6
  <2>2. k + 1 \in 0 .. 41 /\ k + 1 # 0 /\ (k + 1) - 1 = k /\ (k + 1) - 2 = k - 1  OBVIOUS
  <2>3. g[k + 1] = g[k] + n[k]  BY <1>3, <2>2 DEF Sums
  <2>4. k - 2 \in -2 .. 40 /\ k - 1 \in -2 .. 40 /\ k \in -2 .. 40  OBVIOUS
  <2>5. r[k - 2] \in Nat /\ r[k - 1] \in Nat /\ r[k] \in Nat  BY <1>2, <2>4
  <2>6. c[k] \in Nat /\ n[k] = r[k - 2] + r[k - 1] + r[k] + 3 * c[k]  BY <1>1 DEF Split, Counts
  <2>7. x + c[k] + r[k - 2] \in Nat  BY <2>5, <2>6
  <2>8. g[k + 1] = 3 * (x + c[k] + r[k - 2]) + 2 * r[k - 1] + r[k]  BY <2>1, <2>3, <2>5, <2>6
  <2>9. \E y \in Nat : g[k + 1] = 3 * y + 2 * r[(k + 1) - 2] + r[(k + 1) - 1]
    <3> WITNESS x + c[k] + r[k - 2] \in Nat
    <3> QED BY <2>2, <2>8
  <2> QED BY <1>4, <2>2, <2>9
<1>7. 41 \in T  BY <1>5, <1>6, UpTo
<1>8. PICK x \in Nat : g[41] = 3 * x + 2 * r[41 - 2] + r[41 - 1]  BY <1>4, <1>7
<1>9. r[41 - 2] = 0 /\ r[41 - 1] = 0  BY <1>2
<1> QED BY <1>3, <1>8, <1>9

(* The reference counts runs from a tile up to three, and asks for multiples of three. *)
LEMMA ByThree ==
    ASSUME NEW x \in Nat
    PROVE  /\ x \div 3 \in Nat /\ x % 3 \in 0 .. 2 /\ x = 3 * (x \div 3) + (x % 3)
           /\ (3 * x) % 3 = 0
OBVIOUS

LEMMA StartsAre ==
    ASSUME NEW n \in Counts
    PROVE  /\ Starts(n) \subseteq 11 .. 38
           /\ \A t \in 11 .. 38 : n[t] > 0 /\ n[t + 1] > 0 /\ n[t + 2] > 0 => t \in Starts(n)
<1>1. \A t \in Starts(n) : t \in 11 .. 41 /\ t .. t + 2 \subseteq Held(n)  BY DEF Starts
<1>2. Held(n) \subseteq 0 .. 40  BY DEF Held
<1>3. ASSUME NEW t \in Starts(n) PROVE t \in 11 .. 38
  <2>1. t \in 11 .. 41 /\ t + 2 \in t .. t + 2  BY <1>1
  <2>2. t + 2 \in 0 .. 40  BY <1>1, <1>2, <2>1
  <2> QED BY <2>1, <2>2
<1>4. ASSUME NEW t \in 11 .. 38, n[t] > 0, n[t + 1] > 0, n[t + 2] > 0 PROVE t \in Starts(n)
  <2>1. ASSUME NEW u \in t .. t + 2 PROVE u \in Held(n)
    <3>1. (u = t \/ u = t + 1 \/ u = t + 2) /\ u \in 0 .. 40  OBVIOUS
    <3> QED BY <1>4, <3>1 DEF Held
  <2> QED BY <2>1 DEF Starts
<1> QED BY <1>3, <1>4

LEMMA GroupsAreGrouped ==
    ASSUME NEW n \in Counts, InGroups(n)
    PROVE  Grouped(n)
<1>1. PICK runs \in [Starts(n) -> 0 .. 2] :
        \A t \in Tiles : n[t] >= Through(runs, t) /\ (n[t] - Through(runs, t)) % 3 = 0
      BY DEF InGroups
<1>2. PICK r : r = [t \in -2 .. 40 |-> From(runs, t)]  OBVIOUS
<1>3. ASSUME NEW t \in -2 .. 40 PROVE r[t] \in 0 .. 2 /\ (t \notin 11 .. 38 => r[t] = 0)
  <2>1. r[t] = IF t \in Starts(n) THEN runs[t] ELSE 0  BY <1>2 DEF From
  <2>2. CASE t \in Starts(n)  BY <2>1, <2>2, StartsAre
  <2>3. CASE t \notin Starts(n)  BY <2>1, <2>3
  <2> QED BY <2>2, <2>3
<1>4. r \in Runs
  <2>1. r \in [-2 .. 40 -> Nat]  BY <1>2, <1>3
  <2> QED BY <1>3, <2>1 DEF Runs
<1>5. PICK c : c = [t \in Tiles |-> (n[t] - Through(runs, t)) \div 3]  OBVIOUS
<1>6. ASSUME NEW t \in Tiles PROVE c[t] \in Nat /\ n[t] = r[t - 2] + r[t - 1] + r[t] + 3 * c[t]
  <2>1. t - 2 \in -2 .. 40 /\ t - 1 \in -2 .. 40 /\ t \in -2 .. 40  OBVIOUS
  <2>2. PICK x : x = Through(runs, t)  OBVIOUS
  <2>3. x = r[t - 2] + r[t - 1] + r[t]  BY <1>2, <2>1, <2>2 DEF Through
  <2>4. r[t - 2] \in Nat /\ r[t - 1] \in Nat /\ r[t] \in Nat  BY <1>3, <2>1
  <2>5. x \in Nat  BY <2>3, <2>4
  <2>6. n[t] \in Nat  BY DEF Counts
  <2>7. n[t] - x \in Nat /\ (n[t] - x) % 3 = 0  BY <1>1, <2>2, <2>5, <2>6
  <2>8. PICK y \in Nat : y = n[t] - x  BY <2>7
  <2>9. c[t] = y \div 3 /\ y % 3 = 0  BY <1>5, <2>2, <2>7, <2>8
  <2>10. y \div 3 \in Nat /\ y = 3 * (y \div 3) + (y % 3)  BY ByThree
  <2>11. c[t] \in Nat /\ y = 3 * c[t]  BY <2>9, <2>10
  <2>12. n[t] = x + 3 * c[t]  BY <2>5, <2>6, <2>8, <2>11
  <2> QED BY <2>3, <2>11, <2>12
<1>7. c \in Counts  BY <1>5, <1>6 DEF Counts
<1>8. Split(n, r, c)  BY <1>6 DEF Split
<1> QED BY <1>4, <1>7, <1>8 DEF Grouped

LEMMA GroupedAreGroups ==
    ASSUME NEW n \in Counts, Grouped(n)
    PROVE  InGroups(n)
<1>1. PICK r \in Runs, c \in Counts : Split(n, r, c)  BY DEF Grouped
<1>2. \A t \in -2 .. 40 : r[t] \in Nat /\ (t \notin 11 .. 38 => r[t] = 0)  BY DEF Runs
<1>3. ASSUME NEW t \in Tiles
      PROVE  /\ n[t] \in Nat /\ c[t] \in Nat /\ n[t] = r[t - 2] + r[t - 1] + r[t] + 3 * c[t]
             /\ r[t - 2] \in Nat /\ r[t - 1] \in Nat /\ r[t] \in Nat
  <2>1. t - 2 \in -2 .. 40 /\ t - 1 \in -2 .. 40 /\ t \in -2 .. 40  OBVIOUS
  <2> QED BY <1>1, <1>2, <2>1 DEF Split, Counts
<1>4. PICK runs : runs = [t \in Starts(n) |-> r[t] % 3]  OBVIOUS
<1>5. runs \in [Starts(n) -> 0 .. 2]
  <2>1. ASSUME NEW t \in Starts(n) PROVE r[t] % 3 \in 0 .. 2
    <3>1. t \in 11 .. 38  BY StartsAre
    <3>2. r[t] \in Nat  BY <1>2, <3>1
    <3> QED BY <3>2, ByThree
  <2> QED BY <1>4, <2>1
<1>6. ASSUME NEW t \in -2 .. 40 PROVE From(runs, t) = r[t] % 3
  <2>1. CASE t \in Starts(n)  BY <1>4, <2>1 DEF From
  <2>2. CASE t \notin Starts(n)
    <3>1. From(runs, t) = 0  BY <1>4, <2>2 DEF From
    <3>2. r[t] \in Nat  BY <1>2
    <3>3. ASSUME r[t] > 0 PROVE FALSE
      <4>1. t \in 11 .. 38  BY <1>2, <3>3
      <4>2. n[t] > 0
        <5>1. t \in Tiles  BY <4>1
        <5>2. PICK a, b, d, e \in Nat :
                a = r[t - 2] /\ b = r[t - 1] /\ d = r[t] /\ e = c[t] /\ n[t] = a + b + d + 3 * e
              BY <1>3, <5>1
        <5> QED BY <3>3, <5>2
      <4>3. n[t + 1] > 0
        <5>1. PICK u \in Tiles : u = t + 1 /\ u - 1 = t  BY <4>1
        <5>2. PICK a, b, d, e \in Nat :
                a = r[u - 2] /\ b = r[u - 1] /\ d = r[u] /\ e = c[u] /\ n[u] = a + b + d + 3 * e
              BY <1>3
        <5>3. b > 0 /\ n[u] = n[t + 1]  BY <3>3, <5>1, <5>2
        <5> QED BY <5>2, <5>3
      <4>4. n[t + 2] > 0
        <5>1. PICK u \in Tiles : u = t + 2 /\ u - 2 = t  BY <4>1
        <5>2. PICK a, b, d, e \in Nat :
                a = r[u - 2] /\ b = r[u - 1] /\ d = r[u] /\ e = c[u] /\ n[u] = a + b + d + 3 * e
              BY <1>3
        <5>3. a > 0 /\ n[u] = n[t + 2]  BY <3>3, <5>1, <5>2
        <5> QED BY <5>2, <5>3
      <4> QED BY <2>2, <4>1, <4>2, <4>3, <4>4, StartsAre
    <3>4. r[t] = 0  BY <3>2, <3>3
    <3>5. 0 % 3 = 0  OBVIOUS
    <3> QED BY <3>1, <3>4, <3>5
  <2> QED BY <2>1, <2>2
<1>7. ASSUME NEW t \in Tiles PROVE n[t] >= Through(runs, t) /\ (n[t] - Through(runs, t)) % 3 = 0
  <2>1. t - 2 \in -2 .. 40 /\ t - 1 \in -2 .. 40 /\ t \in -2 .. 40  OBVIOUS
  <2>2. Through(runs, t) = (r[t - 2] % 3) + (r[t - 1] % 3) + (r[t] % 3)  BY <1>6, <2>1 DEF Through
  <2>3. PICK a, b, d, e \in Nat :
          a = r[t - 2] /\ b = r[t - 1] /\ d = r[t] /\ e = c[t] /\ n[t] = a + b + d + 3 * e
        BY <1>3
  <2>4. PICK a1 \in Nat, a2 \in 0 .. 2 : a2 = a % 3 /\ a = 3 * a1 + a2  BY ByThree
  <2>5. PICK b1 \in Nat, b2 \in 0 .. 2 : b2 = b % 3 /\ b = 3 * b1 + b2  BY ByThree
  <2>6. PICK d1 \in Nat, d2 \in 0 .. 2 : d2 = d % 3 /\ d = 3 * d1 + d2  BY ByThree
  <2>7. Through(runs, t) = a2 + b2 + d2  BY <2>2, <2>3, <2>4, <2>5, <2>6
  <2>8. n[t] - (a2 + b2 + d2) = 3 * (a1 + b1 + d1 + e)  BY <2>3, <2>4, <2>5, <2>6
  <2>9. a1 + b1 + d1 + e \in Nat  OBVIOUS
  <2>10. (3 * (a1 + b1 + d1 + e)) % 3 = 0  BY <2>9, ByThree
  <2>11. n[t] >= a2 + b2 + d2  BY <2>3, <2>4, <2>5, <2>6
  <2> QED BY <2>7, <2>8, <2>10, <2>11
<1> QED BY <1>5, <1>7 DEF InGroups

-----------------------------------------------------------------------------
(* h is n with k tiles of S besides: what wild tiles are made. *)
Makings(k, S) == [1 .. k -> S]
Adds(n, S, k, h) == \E made \in Makings(k, S) : h = Made(n, made) /\ Total(h) = Total(n) + k
HowMany(made, t) == Cardinality({i \in DOMAIN made : made[i] = t})

LEMMA HowManyIs ==
    ASSUME NEW k \in Nat, NEW S, NEW made \in Makings(k, S), NEW t
    PROVE  HowMany(made, t) \in Nat
<1>1. IsFiniteSet(1 .. k)  BY FS_Interval
<1>2. {i \in DOMAIN made : made[i] = t} \subseteq 1 .. k  BY DEF Makings
<1>3. IsFiniteSet({i \in DOMAIN made : made[i] = t})  BY <1>1, <1>2, FS_Subset
<1> QED BY <1>3, FS_CardinalityType DEF HowMany

MadeAt(g, n, made) == \A t \in Tiles : g[t] = n[t] + HowMany(made, t)

LEMMA MadeIs ==
    ASSUME NEW n \in Counts, NEW k \in Nat, NEW S, NEW made \in Makings(k, S)
    PROVE  Made(n, made) \in Counts /\ MadeAt(Made(n, made), n, made)
<1>1. PICK x : x = [t \in Tiles |-> HowMany(made, t)]  OBVIOUS
<1>2. x \in Counts  BY <1>1, HowManyIs DEF Counts
<1>3. Made(n, made) = [t \in Tiles |-> n[t] + x[t]]  BY <1>1 DEF Made, HowMany
<1>4. \A t \in Tiles : n[t] \in Nat /\ x[t] \in Nat /\ x[t] = HowMany(made, t)  BY <1>1, <1>2 DEF Counts
<1>5. Made(n, made) \in Counts  BY <1>3, <1>4 DEF Counts
<1>6. MadeAt(Made(n, made), n, made)  BY <1>3, <1>4 DEF MadeAt
<1> QED BY <1>5, <1>6

LEMMA AddsNone ==
    ASSUME NEW n \in Counts, NEW S
    PROVE  Adds(n, S, 0, n)
<1>1. PICK made : made = [i \in 1 .. 0 |-> 0]  OBVIOUS
<1>2. made \in Makings(0, S) /\ DOMAIN made = {}  BY <1>1 DEF Makings
<1>3. ASSUME NEW t \in Tiles PROVE HowMany(made, t) = 0
  <2>1. {i \in DOMAIN made : made[i] = t} = {}  BY <1>2
  <2> QED BY <2>1, FS_EmptySet DEF HowMany
<1>4. PICK h \in Counts : h = Made(n, made) /\ MadeAt(h, n, made)
  <2>1. 0 \in Nat  OBVIOUS
  <2> QED BY <1>2, <2>1, MadeIs
<1>5. ASSUME NEW t \in Tiles PROVE h[t] = n[t]
  <2>1. n[t] \in Nat  BY DEF Counts
  <2>2. h[t] = n[t] + 0  BY <1>3, <1>4 DEF MadeAt
  <2> QED BY <2>1, <2>2
<1>6. h = n  BY <1>5 DEF Counts
<1>7. Total(n) = Total(n) + 0  BY TotalIs
<1> QED BY <1>2, <1>4, <1>6, <1>7 DEF Adds

LEMMA AddsOne ==
    ASSUME NEW n \in Counts, NEW S \in SUBSET Tiles, NEW k \in Nat, NEW h, Adds(n, S, k, h), NEW q \in S
    PROVE  Adds(n, S, k + 1, Plus(h, q, 1))
<1>1. PICK made \in Makings(k, S) : h = Made(n, made) /\ Total(h) = Total(n) + k  BY DEF Adds
<1>2. PICK more : more = [i \in 1 .. k + 1 |-> IF i = k + 1 THEN q ELSE made[i]]  OBVIOUS
<1>3. /\ more \in Makings(k + 1, S) /\ DOMAIN more = 1 .. k + 1 /\ DOMAIN made = 1 .. k
      /\ \A i \in 1 .. k + 1 : more[i] = IF i = k + 1 THEN q ELSE made[i]
      BY <1>2 DEF Makings
<1>4. ASSUME NEW t \in Tiles PROVE HowMany(more, t) = HowMany(made, t) + (IF t = q THEN 1 ELSE 0)
  <2>1. PICK X : X = {i \in DOMAIN made : made[i] = t}  OBVIOUS
  <2>2. X \subseteq 1 .. k /\ k + 1 \notin X  BY <1>3, <2>1
  <2>3. IsFiniteSet(X)
    <3>1. IsFiniteSet(1 .. k)  BY FS_Interval
    <3> QED BY <2>2, <3>1, FS_Subset
  <2>4. Cardinality(X) \in Nat  BY <2>3, FS_CardinalityType
  <2>5. CASE t = q
    <3>1. {i \in DOMAIN more : more[i] = t} = X \cup {k + 1}
      <4>1. \A i \in 1 .. k + 1 : more[i] = t <=> i = k + 1 \/ i \in X  BY <1>3, <2>1, <2>5
      <4>2. DOMAIN more = 1 .. k + 1 /\ X \cup {k + 1} \subseteq 1 .. k + 1  BY <1>3, <2>2
      <4> QED BY <4>1, <4>2
    <3>2. Cardinality(X \cup {k + 1}) = Cardinality(X) + 1  BY <2>2, <2>3, FS_AddElement
    <3> QED BY <2>1, <2>5, <3>1, <3>2 DEF HowMany
  <2>6. CASE t # q
    <3>1. {i \in DOMAIN more : more[i] = t} = X
      <4>1. \A i \in 1 .. k + 1 : more[i] = t <=> i \in X  BY <1>3, <2>1, <2>2, <2>6
      <4>2. DOMAIN more = 1 .. k + 1 /\ X \subseteq 1 .. k + 1  BY <1>3, <2>2
      <4> QED BY <4>1, <4>2
    <3>2. HowMany(more, t) = HowMany(made, t) /\ HowMany(made, t) \in Nat
          BY <2>1, <2>4, <3>1 DEF HowMany
    <3> QED BY <2>6, <3>2
  <2> QED BY <2>5, <2>6
<1>5. h \in Counts  BY <1>1, MadeIs
<1>6. PICK g \in Counts : g = Made(n, more) /\ MadeAt(g, n, more)
  <2>1. k + 1 \in Nat  OBVIOUS
  <2> QED BY <1>3, <2>1, MadeIs
<1>7. PICK e \in Counts : e = Plus(h, q, 1)  BY <1>5, PlusIs
<1>8. ASSUME NEW t \in Tiles PROVE g[t] = e[t]
  <2>1. g[t] = n[t] + HowMany(more, t) /\ h[t] = n[t] + HowMany(made, t)
        BY <1>1, <1>6, MadeIs DEF MadeAt
  <2>2. e[t] = h[t] + (IF t = q THEN 1 ELSE 0)  BY <1>7 DEF Plus
  <2>3. HowMany(made, t) \in Nat  BY HowManyIs
  <2>4. n[t] \in Nat  BY DEF Counts
  <2> QED BY <1>4, <2>1, <2>2, <2>3, <2>4
<1>9. g = e  BY <1>8 DEF Counts
<1>10. Total(e) = Total(n) + (k + 1)
  <2>1. Total(e) = Total(h) + 1  BY <1>5, <1>7, TotalPlus
  <2>2. Total(n) \in Nat  BY TotalIs
  <2> QED BY <1>1, <2>1, <2>2
<1> QED BY <1>3, <1>6, <1>7, <1>9, <1>10 DEF Adds

LEMMA AddsBoth ==
    ASSUME NEW n \in Counts, NEW S, NEW k \in Nat, NEW h, Adds(n, S, k, h), NEW q \in Tiles, NEW c \in Nat
    PROVE  Adds(Plus(n, q, c), S, k, Plus(h, q, c))
<1>1. PICK made \in Makings(k, S) : h = Made(n, made) /\ Total(h) = Total(n) + k  BY DEF Adds
<1>2. h \in Counts  BY <1>1, MadeIs
<1>3. PICK b \in Counts : b = Plus(n, q, c)  BY PlusIs
<1>4. PICK g \in Counts : g = Made(b, made) /\ MadeAt(g, b, made)  BY MadeIs
<1>5. PICK e \in Counts : e = Plus(h, q, c)  BY <1>2, PlusIs
<1>6. ASSUME NEW t \in Tiles PROVE g[t] = e[t]
  <2>1. PICK x : x = HowMany(made, t)  OBVIOUS
  <2>2. g[t] = b[t] + x /\ h[t] = n[t] + x  BY <1>1, <1>4, <2>1, MadeIs DEF MadeAt
  <2>3. e[t] = h[t] + (IF t = q THEN c ELSE 0) /\ b[t] = n[t] + (IF t = q THEN c ELSE 0)
        BY <1>3, <1>5 DEF Plus
  <2>4. n[t] \in Nat /\ h[t] \in Nat  BY <1>2 DEF Counts
  <2>5. x \in Nat  BY <2>1, HowManyIs
  <2> QED BY <2>2, <2>3, <2>4, <2>5
<1>7. g = e  BY <1>6 DEF Counts
<1>8. Total(e) = Total(b) + k
  <2>1. Total(e) = Total(h) + c /\ Total(b) = Total(n) + c  BY <1>2, <1>3, <1>5, TotalPlus
  <2>2. Total(n) \in Nat  BY TotalIs
  <2> QED BY <1>1, <2>1, <2>2
<1> QED BY <1>3, <1>4, <1>5, <1>7, <1>8 DEF Adds

LEMMA AddsWider ==
    ASSUME NEW n, NEW S, NEW T, S \subseteq T, NEW k \in Nat, NEW h, Adds(n, S, k, h)
    PROVE  Adds(n, T, k, h)
<1>1. PICK made \in Makings(k, S) : h = Made(n, made) /\ Total(h) = Total(n) + k  BY DEF Adds
<1>2. made \in Makings(k, T)  BY DEF Makings
<1> QED BY <1>1, <1>2 DEF Adds

(* One more tile q, which is wild or held. *)
HeldOr(n, q, wild) == IF wild = 1 THEN n ELSE Plus(n, q, 1)

LEMMA AddsEither ==
    ASSUME NEW n \in Counts, NEW S \in SUBSET Tiles, NEW k \in Nat, NEW h \in Counts, Adds(n, S, k, h),
           NEW q \in S, NEW wild \in 0 .. 1
    PROVE  /\ HeldOr(n, q, wild) \in Counts /\ Plus(h, q, 1) \in Counts
           /\ Adds(HeldOr(n, q, wild), S, k + wild, Plus(h, q, 1))
<1>1. Plus(h, q, 1) \in Counts /\ Plus(n, q, 1) \in Counts  BY PlusIs
<1>2. CASE wild = 1  BY <1>1, <1>2, AddsOne DEF HeldOr
<1>3. CASE wild = 0
  <2>1. k + wild = k /\ 1 \in Nat /\ q \in Tiles  BY <1>3
  <2>2. Adds(Plus(n, q, 1), S, k, Plus(h, q, 1))  BY <2>1, AddsBoth
  <2> QED BY <1>1, <1>3, <2>1, <2>2 DEF HeldOr
<1> QED BY <1>2, <1>3

(* The tiles that are held, the wild ones and the counts below zero apart. *)
Positive(f) == [t \in Tiles |-> IF t # Laizi /\ f[t] > 0 THEN f[t] ELSE 0]

LEMMA PositiveIs ==
    ASSUME NEW f \in [Tiles -> Int]
    PROVE  Positive(f) \in Counts
<1>1. \A t \in Tiles : f[t] \in Int  OBVIOUS
<1> QED BY <1>1 DEF Positive, Counts

LEMMA NearIs ==
    ASSUME NEW n \in Counts, NEW u \in Tiles, n[u] > 0, NEW t \in Played, NEW d \in -2 .. 2, u = t + d
    PROVE  t \in Near(n)
BY DEF Near, Held

LEMMA NearGrows ==
    ASSUME NEW n, NEW e, \A t \in Tiles : e[t] > 0 => n[t] > 0
    PROVE  Near(e) \subseteq Near(n)
BY DEF Near, Held

LEMMA SameTileAdds ==
    ASSUME NEW f \in [Tiles -> Int], NEW n \in [Tiles -> Int], NEW p \in Natural, p \in Played,
           NEW c \in 2 .. 3, f[p] > 0, f[p] + f[Laizi] >= c, NEW wild, wild = Short(f[p] - c),
           Goes(f, n, p, wild), Same(n, f, p, c), NEW k \in 0 .. n[Laizi], NEW h \in Counts,
           Adds(Positive(n), Near(Positive(n)), k, h)
    PROVE  /\ Adds(Positive(f), Near(Positive(f)), k + wild, Plus(h, p, c))
           /\ k + wild \in 0 .. f[Laizi]
<1>1. f[p] \in Int /\ f[Laizi] \in Int /\ n[Laizi] \in Int /\ p \in Tiles  OBVIOUS
<1>2. wild = (IF f[p] >= c THEN 0 ELSE c - f[p])  BY <1>1 DEF Short
<1>3. k + wild \in 0 .. f[Laizi]  BY <1>1 DEF Goes
<1>4. PICK P \in Counts, N \in Counts : P = Positive(f) /\ N = Positive(n)  BY PositiveIs
<1>5. /\ P[p] = f[p] /\ N[p] = IF f[p] >= c THEN f[p] - c ELSE 0
      /\ \A t \in Tiles : t # p => N[t] = P[t]
  <2>1. P[p] = f[p] /\ N[p] = IF n[p] > 0 THEN n[p] ELSE 0  BY <1>4 DEF Positive
  <2>2. n[p] = f[p] - c  BY DEF Same
  <2>3. ASSUME NEW t \in Tiles, t # p PROVE N[t] = P[t]
    <3>1. CASE t = Laizi  BY <1>4, <3>1 DEF Positive
    <3>2. CASE t # Laizi
      <4>1. t \in Natural  BY <3>2
      <4>2. n[t] = f[t]  BY <2>3, <4>1 DEF Same
      <4> QED BY <1>4, <4>2 DEF Positive
    <3> QED BY <3>1, <3>2
  <2>4. N[p] = IF f[p] >= c THEN f[p] - c ELSE 0  BY <1>1, <2>1, <2>2
  <2> QED BY <2>1, <2>3, <2>4
<1>6. PICK S \in SUBSET Tiles : S = Near(P)
  <2>1. Near(P) \in SUBSET Tiles  BY PlayedIs DEF Near
  <2> QED BY <2>1
<1>7. p \in S
  <2>1. p = p + 0 /\ 0 \in -2 .. 2 /\ P[p] > 0  BY <1>5
  <2> QED BY <1>1, <1>6, <2>1, NearIs
<1>8. Adds(N, S, k, h)
  <2>1. \A t \in Tiles : N[t] > 0 => P[t] > 0  BY <1>1, <1>5
  <2>2. Near(N) \subseteq S  BY <1>6, <2>1, NearGrows
  <2> QED BY <1>1, <1>4, <2>2, AddsWider
<1>9. k \in Nat /\ 0 \in 0 .. 1 /\ k + 0 = k  BY <1>1
<1>10. PICK n1 \in Counts, h1 \in Counts :
         n1 = Plus(N, p, 1) /\ h1 = Plus(h, p, 1) /\ Adds(n1, S, k, h1)
  <2>1. /\ HeldOr(N, p, 0) \in Counts /\ Plus(h, p, 1) \in Counts
        /\ Adds(HeldOr(N, p, 0), S, k + 0, Plus(h, p, 1))
        BY <1>7, <1>8, <1>9, AddsEither
  <2> QED BY <1>9, <2>1 DEF HeldOr
<1>11. PICK b \in 0 .. 1 : b = IF f[p] >= 2 THEN 0 ELSE 1  OBVIOUS
<1>12. PICK n2 \in Counts, h2 \in Counts :
         n2 = HeldOr(n1, p, b) /\ h2 = Plus(h1, p, 1) /\ Adds(n2, S, k + b, h2)
  <2>1. /\ HeldOr(n1, p, b) \in Counts /\ Plus(h1, p, 1) \in Counts
        /\ Adds(HeldOr(n1, p, b), S, k + b, Plus(h1, p, 1))
        BY <1>7, <1>9, <1>10, AddsEither
  <2> QED BY <2>1
<1>13. h2 = Plus(h, p, 2)
  <2>1. 1 + 1 = 2 /\ 1 \in Nat  OBVIOUS
  <2>2. Plus(Plus(h, p, 1), p, 1) = Plus(h, p, 1 + 1)  BY <2>1, PlusTwice
  <2> QED BY <1>10, <1>12, <2>1, <2>2
<1>14. \A t \in Tiles : n2[t] = N[t] + (IF t = p THEN 2 - b ELSE 0)
  <2> SUFFICES ASSUME NEW t \in Tiles PROVE n2[t] = N[t] + (IF t = p THEN 2 - b ELSE 0)  OBVIOUS
  <2>1. N[t] \in Nat /\ n1[t] = N[t] + (IF t = p THEN 1 ELSE 0)  BY <1>10 DEF Counts, Plus
  <2>2. CASE b = 1
    <3>1. n2 = n1  BY <1>12, <2>2 DEF HeldOr
    <3> QED BY <2>1, <2>2, <3>1
  <2>3. CASE b = 0
    <3>1. n2[t] = n1[t] + (IF t = p THEN 1 ELSE 0)  BY <1>12, <2>3 DEF HeldOr, Plus
    <3> QED BY <2>1, <2>3, <3>1
  <2> QED BY <2>2, <2>3
<1>15. CASE c = 2
  <2>1. b = wild  BY <1>1, <1>2, <1>11, <1>15
  <2>2. ASSUME NEW t \in Tiles PROVE n2[t] = P[t]
    <3>1. n2[t] = N[t] + (IF t = p THEN 2 - b ELSE 0) /\ N[t] \in Nat  BY <1>14 DEF Counts
    <3>2. CASE t = p  BY <1>1, <1>5, <1>11, <1>15, <3>1, <3>2
    <3>3. CASE t # p  BY <1>5, <3>1, <3>3
    <3> QED BY <3>2, <3>3
  <2>3. n2 = P  BY <2>2 DEF Counts
  <2> QED BY <1>3, <1>4, <1>6, <1>12, <1>13, <1>15, <2>1, <2>3
<1>16. CASE c = 3
  <2>1. PICK d \in 0 .. 1 : d = IF f[p] >= 3 THEN 0 ELSE 1  OBVIOUS
  <2>2. wild = b + d  BY <1>1, <1>2, <1>11, <1>16, <2>1
  <2>3. PICK i \in Nat : i = k + b  BY <1>9
  <2>4. PICK n3 \in Counts, h3 \in Counts :
          n3 = HeldOr(n2, p, d) /\ h3 = Plus(h2, p, 1) /\ Adds(n3, S, i + d, h3)
    <3>1. Adds(n2, S, i, h2)  BY <1>12, <2>3
    <3>2. /\ HeldOr(n2, p, d) \in Counts /\ Plus(h2, p, 1) \in Counts
          /\ Adds(HeldOr(n2, p, d), S, i + d, Plus(h2, p, 1))
          BY <1>7, <3>1, AddsEither
    <3> QED BY <3>2
  <2>5. h3 = Plus(h, p, 3)
    <3>1. 2 + 1 = 3 /\ 1 \in Nat /\ 2 \in Nat  OBVIOUS
    <3>2. Plus(Plus(h, p, 2), p, 1) = Plus(h, p, 2 + 1)  BY <3>1, PlusTwice
    <3> QED BY <1>13, <2>4, <3>1, <3>2
  <2>6. ASSUME NEW t \in Tiles PROVE n3[t] = P[t]
    <3>1. n2[t] = N[t] + (IF t = p THEN 2 - b ELSE 0) /\ N[t] \in Nat /\ n2[t] \in Nat  BY <1>14 DEF Counts
    <3>2. n3[t] = n2[t] + (IF t = p THEN 1 - d ELSE 0)
      <4>1. CASE d = 1
        <5>1. n3 = n2  BY <2>4, <4>1 DEF HeldOr
        <5> QED BY <3>1, <4>1, <5>1
      <4>2. CASE d = 0
        <5>1. n3[t] = n2[t] + (IF t = p THEN 1 ELSE 0)  BY <2>4, <4>2 DEF HeldOr, Plus
        <5> QED BY <3>1, <4>2, <5>1
      <4> QED BY <4>1, <4>2
    <3>3. CASE t = p  BY <1>1, <1>5, <1>11, <1>16, <2>1, <3>1, <3>2, <3>3
    <3>4. CASE t # p  BY <1>5, <3>1, <3>2, <3>4
    <3> QED BY <3>3, <3>4
  <2>7. n3 = P  BY <2>6 DEF Counts
  <2>8. i + d = k + wild  BY <1>9, <2>2, <2>3
  <2> QED BY <1>3, <1>4, <1>6, <1>16, <2>4, <2>5, <2>7, <2>8
<1> QED BY <1>15, <1>16

(* P is N with a run, but for the places of it that are wild. *)
RunOf(P, N, x, y, z, a, b, d) ==
    /\ P[x] = N[x] + (1 - a) /\ P[y] = N[y] + (1 - b) /\ P[z] = N[z] + (1 - d)
    /\ \A t \in Tiles : t # x /\ t # y /\ t # z => N[t] = P[t]

LEMMA RunAddsAt ==
    ASSUME NEW P \in Counts, NEW N \in Counts, NEW S \in SUBSET Tiles, NEW k \in Nat, NEW h \in Counts,
           Adds(N, S, k, h), NEW x \in S, NEW y \in S, NEW z \in S, y = x + 1, z = x + 2,
           NEW a \in 0 .. 1, NEW b \in 0 .. 1, NEW d \in 0 .. 1, NEW took, took = a + b + d,
           RunOf(P, N, x, y, z, a, b, d)
    PROVE  Adds(P, S, k + took, PlusRun(h, x))
<1>1. PICK n1 \in Counts, h1 \in Counts :
        n1 = HeldOr(N, x, a) /\ h1 = Plus(h, x, 1) /\ Adds(n1, S, k + a, h1)
  <2>1. /\ HeldOr(N, x, a) \in Counts /\ Plus(h, x, 1) \in Counts
        /\ Adds(HeldOr(N, x, a), S, k + a, Plus(h, x, 1))
        BY AddsEither
  <2> QED BY <2>1
<1>2. PICK i \in Nat : i = k + a  OBVIOUS
<1>3. PICK n2 \in Counts, h2 \in Counts :
        n2 = HeldOr(n1, y, b) /\ h2 = Plus(h1, y, 1) /\ Adds(n2, S, i + b, h2)
  <2>1. Adds(n1, S, i, h1)  BY <1>1, <1>2
  <2>2. /\ HeldOr(n1, y, b) \in Counts /\ Plus(h1, y, 1) \in Counts
        /\ Adds(HeldOr(n1, y, b), S, i + b, Plus(h1, y, 1))
        BY <2>1, AddsEither
  <2> QED BY <2>2
<1>4. PICK j \in Nat : j = i + b  OBVIOUS
<1>5. PICK n3 \in Counts, h3 \in Counts :
        n3 = HeldOr(n2, z, d) /\ h3 = Plus(h2, z, 1) /\ Adds(n3, S, j + d, h3)
  <2>1. Adds(n2, S, j, h2)  BY <1>3, <1>4
  <2>2. /\ HeldOr(n2, z, d) \in Counts /\ Plus(h2, z, 1) \in Counts
        /\ Adds(HeldOr(n2, z, d), S, j + d, Plus(h2, z, 1))
        BY <2>1, AddsEither
  <2> QED BY <2>2
<1>6. h3 = PlusRun(h, x)
  <2>1. x \in Int  OBVIOUS
  <2>2. PlusRun(h, x) = Plus(Plus(Plus(h, x, 1), x + 1, 1), x + 2, 1)  BY <2>1, PlusRunIs
  <2> QED BY <1>1, <1>3, <1>5, <2>2
<1>7. ASSUME NEW t \in Tiles PROVE n3[t] = P[t]
  <2>1. N[t] \in Nat /\ n1[t] \in Nat /\ n2[t] \in Nat  BY DEF Counts
  <2>2. n1[t] = N[t] + (IF t = x THEN 1 - a ELSE 0)
    <3>1. CASE a = 1
      <4>1. n1 = N  BY <1>1, <3>1 DEF HeldOr
      <4> QED BY <2>1, <3>1, <4>1
    <3>2. CASE a = 0
      <4>1. n1[t] = N[t] + (IF t = x THEN 1 ELSE 0)  BY <1>1, <3>2 DEF HeldOr, Plus
      <4> QED BY <2>1, <3>2, <4>1
    <3> QED BY <3>1, <3>2
  <2>3. n2[t] = n1[t] + (IF t = y THEN 1 - b ELSE 0)
    <3>1. CASE b = 1
      <4>1. n2 = n1  BY <1>3, <3>1 DEF HeldOr
      <4> QED BY <2>1, <3>1, <4>1
    <3>2. CASE b = 0
      <4>1. n2[t] = n1[t] + (IF t = y THEN 1 ELSE 0)  BY <1>3, <3>2 DEF HeldOr, Plus
      <4> QED BY <2>1, <3>2, <4>1
    <3> QED BY <3>1, <3>2
  <2>4. n3[t] = n2[t] + (IF t = z THEN 1 - d ELSE 0)
    <3>1. CASE d = 1
      <4>1. n3 = n2  BY <1>5, <3>1 DEF HeldOr
      <4> QED BY <2>1, <3>1, <4>1
    <3>2. CASE d = 0
      <4>1. n3[t] = n2[t] + (IF t = z THEN 1 ELSE 0)  BY <1>5, <3>2 DEF HeldOr, Plus
      <4> QED BY <2>1, <3>2, <4>1
    <3> QED BY <3>1, <3>2
  <2>5. x # y /\ x # z /\ y # z  OBVIOUS
  <2>6. CASE t = x  BY <2>1, <2>2, <2>3, <2>4, <2>5, <2>6 DEF RunOf
  <2>7. CASE t = y  BY <2>1, <2>2, <2>3, <2>4, <2>5, <2>7 DEF RunOf
  <2>8. CASE t = z  BY <2>1, <2>2, <2>3, <2>4, <2>5, <2>8 DEF RunOf
  <2>9. CASE t # x /\ t # y /\ t # z  BY <2>1, <2>2, <2>3, <2>4, <2>9 DEF RunOf
  <2> QED BY <2>6, <2>7, <2>8, <2>9
<1>8. n3 = P  BY <1>7 DEF Counts
<1>9. j + d = k + took  BY <1>2, <1>4
<1> QED BY <1>5, <1>6, <1>8, <1>9

(* Nothing but tiles of the game, and with a wild tile not both ends of the gap between two *)
(* suits.                                                                                   *)
Fair(f) ==
    /\ \A t \in Natural : f[t] > 0 => t \in Played
    /\ f[Laizi] > 0 => ~ (f[19] > 0 /\ f[21] > 0) /\ ~ (f[29] > 0 /\ f[31] > 0)

LEMMA FairLess ==
    ASSUME NEW f \in [Tiles -> Int], NEW n \in [Tiles -> Int], \A t \in Tiles : n[t] <= f[t], Fair(f)
    PROVE  Fair(n)
<1>1. \A t \in Tiles : f[t] \in Int /\ n[t] \in Int  OBVIOUS
<1>2. \A t \in Natural : n[t] > 0 => t \in Played  BY <1>1 DEF Fair
<1>3. /\ n[Laizi] <= f[Laizi] /\ n[19] <= f[19] /\ n[21] <= f[21] /\ n[29] <= f[29] /\ n[31] <= f[31]
      OBVIOUS
<1>4. n[Laizi] > 0 => ~ (n[19] > 0 /\ n[21] > 0) /\ ~ (n[29] > 0 /\ n[31] > 0)
      BY <1>1, <1>3 DEF Fair
<1> QED BY <1>2, <1>4 DEF Fair

(* Where the wild tile would be past the end of its suit it is made the tile before the run. *)
LEMMA RunAdds ==
    ASSUME NEW f \in [Tiles -> Int], Fair(f), NEW n \in [Tiles -> Int], NEW p \in Natural, RunAt(f, p),
           NEW took, took = MissingIn(f, p), Goes(f, n, p, took), OneOfEach(n, f, p),
           NEW k \in 0 .. n[Laizi], NEW h \in Counts, Adds(Positive(n), Near(Positive(n)), k, h),
           Grouped(h)
    PROVE  /\ \E g \in Counts : Adds(Positive(f), Near(Positive(f)), k + took, g) /\ Grouped(g)
           /\ k + took \in 0 .. f[Laizi]
<1>1. PICK b \in 0 .. 1, d \in 0 .. 1 :
        /\ b = (IF f[p + 1] < 1 THEN 1 ELSE 0) /\ d = (IF f[p + 2] < 1 THEN 1 ELSE 0)
        /\ took = b + d /\ p + 1 \in Natural /\ p + 2 \in Natural
  <2>1. /\ took = (IF f[p + 1] < 1 THEN 1 ELSE 0) + (IF f[p + 2] < 1 THEN 1 ELSE 0)
        /\ p + 1 \in Natural /\ p + 2 \in Natural
        BY RunTakes
  <2>2. PICK x \in 0 .. 1 : x = IF f[p + 1] < 1 THEN 1 ELSE 0  OBVIOUS
  <2>3. PICK y \in 0 .. 1 : y = IF f[p + 2] < 1 THEN 1 ELSE 0  OBVIOUS
  <2>4. took = x + y  BY <2>1, <2>2, <2>3
  <2> QED BY <2>1, <2>2, <2>3, <2>4
<1>2. PICK u \in Natural, v \in Natural : u = p + 1 /\ v = p + 2  BY <1>1
<1>3. f[p] \in Int /\ f[u] \in Int /\ f[v] \in Int /\ f[Laizi] \in Int /\ n[Laizi] \in Int  OBVIOUS
<1>4. f[p] > 0 /\ p \in 11 .. 37  BY <1>3 DEF RunAt
<1>5. k + took \in 0 .. f[Laizi]  BY <1>3 DEF Goes
<1>6. PICK P \in Counts, N \in Counts : P = Positive(f) /\ N = Positive(n)  BY PositiveIs
<1>7. /\ P[p] = N[p] + 1 /\ P[u] = N[u] + (1 - b) /\ P[v] = N[v] + (1 - d) /\ P[p] > 0
      /\ \A t \in Tiles : t # p /\ t # u /\ t # v => N[t] = P[t]
  <2>1. n[p] = f[p] - 1 /\ n[u] = f[u] - 1 /\ n[v] = f[v] - 1
    <3>1. p \in p .. p + 2 /\ u \in p .. p + 2 /\ v \in p .. p + 2  BY <1>2
    <3> QED BY <3>1 DEF OneOfEach
  <2>2. P[p] = f[p] /\ N[p] = IF n[p] > 0 THEN n[p] ELSE 0  BY <1>4, <1>6 DEF Positive
  <2>3. /\ P[u] = (IF f[u] > 0 THEN f[u] ELSE 0) /\ N[u] = (IF n[u] > 0 THEN n[u] ELSE 0)
        /\ P[v] = (IF f[v] > 0 THEN f[v] ELSE 0) /\ N[v] = (IF n[v] > 0 THEN n[v] ELSE 0)
        BY <1>6 DEF Positive
  <2>4. P[p] = N[p] + 1 /\ P[p] > 0  BY <1>3, <1>4, <2>1, <2>2
  <2>5. P[u] = N[u] + (1 - b)
    <3>1. b = IF f[u] < 1 THEN 1 ELSE 0  BY <1>1, <1>2
    <3>2. f[u] \in Int /\ n[u] = f[u] - 1  BY <1>3, <2>1
    <3>3. P[u] = (IF f[u] > 0 THEN f[u] ELSE 0) /\ N[u] = (IF n[u] > 0 THEN n[u] ELSE 0)  BY <2>3
    <3> QED BY <3>1, <3>2, <3>3
  <2>6. P[v] = N[v] + (1 - d)
    <3>1. d = IF f[v] < 1 THEN 1 ELSE 0  BY <1>1, <1>2
    <3>2. f[v] \in Int /\ n[v] = f[v] - 1  BY <1>3, <2>1
    <3>3. P[v] = (IF f[v] > 0 THEN f[v] ELSE 0) /\ N[v] = (IF n[v] > 0 THEN n[v] ELSE 0)  BY <2>3
    <3> QED BY <3>1, <3>2, <3>3
  <2>7. ASSUME NEW t \in Tiles, t # p, t # u, t # v PROVE N[t] = P[t]
    <3>1. CASE t = Laizi  BY <1>6, <3>1 DEF Positive
    <3>2. CASE t # Laizi
      <4>1. t \in Natural /\ t \notin p .. p + 2  BY <1>2, <2>7, <3>2
      <4>2. n[t] = f[t] - 0 /\ f[t] \in Int  BY <4>1 DEF OneOfEach
      <4>3. n[t] = f[t]  BY <4>2
      <4> QED BY <1>6, <4>3 DEF Positive
    <3> QED BY <3>1, <3>2
  <2> QED BY <2>4, <2>5, <2>6, <2>7
<1>8. PICK S \in SUBSET Tiles : S = Near(P)
  <2>1. Near(P) \in SUBSET Tiles  BY PlayedIs DEF Near
  <2> QED BY <2>1
<1>9. Adds(N, S, k, h)
  <2>1. \A t \in Tiles : P[t] \in Nat /\ N[t] \in Nat  BY DEF Counts
  <2>2. ASSUME NEW t \in Tiles, N[t] > 0 PROVE P[t] > 0
    <3>1. N[t] \in Nat /\ P[t] \in Nat  BY <2>1
    <3>2. CASE t = p  BY <1>7, <3>2
    <3>3. CASE t = u  BY <1>7, <2>2, <3>1, <3>3
    <3>4. CASE t = v  BY <1>7, <2>2, <3>1, <3>4
    <3>5. CASE t # p /\ t # u /\ t # v
      <4>1. N[t] = P[t]  BY <1>7, <3>5
      <4> QED BY <2>2, <4>1
    <3> QED BY <3>2, <3>3, <3>4, <3>5
  <2>3. Near(N) \subseteq S  BY <1>8, <2>2, NearGrows
  <2> QED BY <1>3, <1>6, <2>3, AddsWider
<1>10. k \in Nat /\ p \in Tiles /\ u \in Tiles /\ v \in Tiles  BY <1>3
<1>11. p \in Played /\ p \in S
  <2>1. p \in Played  BY <1>4 DEF Fair
  <2>2. p = p + 0 /\ 0 \in -2 .. 2  OBVIOUS
  <2> QED BY <1>7, <1>8, <1>10, <2>1, <2>2, NearIs
<1>12. CASE u \in Played /\ v \in Played
  <2>1. u \in S /\ v \in S
    <3>1. p = u + (-1) /\ p = v + (-2) /\ -1 \in -2 .. 2 /\ -2 \in -2 .. 2  BY <1>2
    <3> QED BY <1>7, <1>8, <1>10, <1>12, <3>1, NearIs
  <2>2. PICK a \in 0 .. 1 : a = 0 /\ took = a + b + d  BY <1>1
  <2>3. RunOf(P, N, p, u, v, a, b, d)
    <3>1. P[p] = N[p] + (1 - a)  BY <1>7, <2>2
    <3> QED BY <1>7, <3>1 DEF RunOf
  <2>4. Adds(P, S, k + took, PlusRun(h, p))
        BY <1>2, <1>9, <1>10, <1>11, <2>1, <2>2, <2>3, RunAddsAt
  <2>5. p \in 11 .. 38 /\ p \in Int  BY <1>4
  <2>6. PlusRun(h, p) \in Counts /\ Grouped(PlusRun(h, p))  BY <2>5, PlusRunIs, GroupedRun
  <2> QED BY <1>5, <1>6, <1>8, <2>4, <2>6
<1>13. u \in Played
  <2>1. SUFFICES ASSUME u \notin Played PROVE FALSE  OBVIOUS
  <2>2. u = 20 \/ u = 30
    <3>1. u \in 11 .. 39  BY <1>2, <1>4
    <3> QED BY <2>1, <3>1, PlayedIs
  <2>3. ~ (f[u] > 0)  BY <2>1 DEF Fair
  <2>4. ~ (f[u] >= 1)  BY <1>3, <2>3
  <2>5. f[u] + f[Laizi] >= 1 /\ f[v] >= 1  BY <1>2, <2>4 DEF RunAt
  <2>6. f[Laizi] > 0 /\ f[v] > 0  BY <1>3, <2>4, <2>5
  <2>7. (p = 19 /\ v = 21) \/ (p = 29 /\ v = 31)  BY <1>2, <2>2
  <2> QED BY <1>4, <2>6, <2>7 DEF Fair
<1>14. CASE v \notin Played
  <2>1. v = 20 \/ v = 30
    <3>1. v \in 11 .. 39  BY <1>2, <1>4
    <3> QED BY <1>14, <3>1, PlayedIs
  <2>2. ~ (f[v] > 0)  BY <1>14 DEF Fair
  <2>3. f[u] >= 1 /\ f[v] < 1
    <3>1. ~ (f[v] >= 1)  BY <1>3, <2>2
    <3>2. f[u] >= 1  BY <1>2, <3>1 DEF RunAt
    <3> QED BY <1>3, <3>1, <3>2
  <2>4. b = 0 /\ d = 1 /\ took = 1  BY <1>1, <1>2, <1>3, <2>3
  <2>5. PICK x \in Tiles : x = p - 1 /\ p = x + 1 /\ u = x + 2 /\ x \in 12 .. 38
    <3>1. p - 1 \in Tiles  BY <1>2, <2>1
    <3> QED BY <1>2, <2>1, <3>1
  <2>6. x \in S
    <3>1. x \in 11 .. 39 /\ x # 20 /\ x # 30  BY <1>2, <2>1, <2>5
    <3>2. x \in Played  BY <3>1, PlayedIs
    <3>3. p = x + 1 /\ 1 \in -2 .. 2  BY <2>5
    <3> QED BY <1>7, <1>8, <1>10, <3>2, <3>3, NearIs
  <2>7. u \in S
    <3>1. p = u + (-1) /\ -1 \in -2 .. 2  BY <1>2
    <3> QED BY <1>7, <1>8, <1>10, <1>13, <3>1, NearIs
  <2>8. P[p] = N[p] + (1 - 0) /\ P[u] = N[u] + (1 - 0)  BY <1>7, <2>4
  <2>9. ASSUME NEW t \in Tiles, t # p, t # u PROVE N[t] = P[t]
    <3>1. CASE t = v
      <4>1. N[v] \in Nat /\ P[v] \in Nat  BY DEF Counts
      <4>2. P[v] = N[v] + 0  BY <1>7, <2>4
      <4> QED BY <3>1, <4>1, <4>2
    <3>2. CASE t # v  BY <1>7, <2>9, <3>2
    <3> QED BY <3>1, <3>2
  <2>10. P[x] = N[x] + (1 - 1)
    <3>1. N[x] \in Nat /\ x # p /\ x # u  BY <2>5 DEF Counts
    <3>2. N[x] = P[x]  BY <2>9, <3>1
    <3> QED BY <3>1, <3>2
  <2>11. PICK a \in 0 .. 1, e \in 0 .. 1 : a = 1 /\ e = 0 /\ took = a + e + e /\ RunOf(P, N, x, p, u, a, e, e)
    <3>1. /\ 0 \in 0 .. 1 /\ 1 \in 0 .. 1 /\ took = 1 + 0 + 0
          /\ \A t \in Tiles : t # x /\ t # p /\ t # u => N[t] = P[t]
          BY <2>4, <2>9
    <3>2. RunOf(P, N, x, p, u, 1, 0, 0)  BY <2>8, <2>10, <3>1 DEF RunOf
    <3> QED BY <3>1, <3>2
  <2>12. Adds(P, S, k + took, PlusRun(h, x))
         BY <1>9, <1>10, <1>11, <2>5, <2>6, <2>7, <2>11, RunAddsAt
  <2>13. x \in 11 .. 38 /\ x \in Int  BY <2>5
  <2>14. PlusRun(h, x) \in Counts /\ Grouped(PlusRun(h, x))  BY <2>13, PlusRunIs, GroupedRun
  <2> QED BY <1>5, <1>6, <1>8, <2>12, <2>14
<1> QED BY <1>12, <1>13, <1>14

(* What a search finds is there: with some of the wild tiles the counts are in groups. *)
Found(f) ==
    \E k \in 0 .. f[Laizi], h \in Counts : Adds(Positive(f), Near(Positive(f)), k, h) /\ Grouped(h)

FindsOnly(deeper) ==
    \A m \in Judges : \A p \in 0 .. 40 :
        m.num[Laizi] >= 0 /\ Fair(m.num) /\ At(m.num, p) /\ deeper[m][p].ok => Found(m.num)

LEMMA FoundNone ==
    ASSUME NEW m \in Judges, m.num[Laizi] >= 0, Fair(m.num), At(m.num, 40)
    PROVE  Found(m.num)
<1>1. PICK f \in [Tiles -> Int] : f = m.num  BY JudgeIs
<1>2. PICK P \in Counts : P = Positive(f)  BY PositiveIs
<1>3. ASSUME NEW t \in Tiles PROVE P[t] = 0
  <2>1. t < 40 \/ t = 40  OBVIOUS
  <2>2. t # Laizi => f[t] <= 0
    <3>1. CASE t < 40  BY <1>1, <3>1 DEF At, NoneBefore
    <3>2. CASE t = 40
      <4>1. ~ (f[40] > 0) /\ f[40] \in Int  BY <1>1, PlayedIs DEF Fair
      <4> QED BY <3>2, <4>1
    <3> QED BY <2>1, <3>1, <3>2
  <2>3. P[t] = (IF t # Laizi /\ f[t] > 0 THEN f[t] ELSE 0)  BY <1>2 DEF Positive
  <2>4. f[t] \in Int  OBVIOUS
  <2> QED BY <2>2, <2>3, <2>4
<1>4. Grouped(P)  BY <1>3, GroupedNone
<1>5. Adds(P, Near(P), 0, P)  BY AddsNone
<1>6. 0 \in 0 .. f[Laizi]
  <2>1. f[Laizi] \in Int  OBVIOUS
  <2> QED BY <1>1, <2>1
<1> QED BY <1>1, <1>2, <1>4, <1>5, <1>6 DEF Found

LEMMA TripleFinds ==
    ASSUME NEW deeper, FindsOnly(deeper), NEW m \in Judges, NEW p \in 0 .. 40,
           m.num[Laizi] >= 0, Fair(m.num), At(m.num, p), deal_kezi(deeper, m, p).ok
    PROVE  Found(m.num)
<1>1. CASE p > 39
  <2>1. p = 40  BY <1>1
  <2> QED BY <2>1, FoundNone
<1>2. CASE p <= 39 /\ m.num[p] + m.num[Laizi] < 3  BY <1>2 DEF deal_kezi, Fail
<1>3. CASE p <= 39 /\ ~ (m.num[p] + m.num[Laizi] < 3)
  <2>1. PICK f \in [Tiles -> Int] : f = m.num  BY JudgeIs
  <2>2. p \in Natural /\ f[p] > 0 /\ NoneBefore(f, p) /\ p \in Played
    <3>1. p \in Natural /\ f[p] > 0 /\ NoneBefore(f, p)  BY <1>3, <2>1 DEF At
    <3> QED BY <2>1, <3>1 DEF Fair
  <2>3. f[p] + f[Laizi] >= 3  BY <1>3, <2>1, <2>2
  <2>4. PICK a \in Judges, q \in 0 .. 40, wild \in Int : SameTileStep(m, p, 3, Ke, p, a, q, wild)
    <3>1. 3 \in 2 .. 3 /\ Ke \in Nat /\ p \in 0 .. p  BY DEF Ke
    <3> QED BY <2>1, <2>2, <2>3, <3>1, SameTileSteps
  <2>5. PICK n \in [Tiles -> Int] : n = a.num  BY JudgeIs
  <2>6. /\ wild = Short(f[p] - 3) /\ At(n, q) /\ Goes(f, n, p, wild) /\ Same(n, f, p, 3)
        BY <2>1, <2>4, <2>5 DEF SameTileStep
  <2>7. n[Laizi] >= 0
    <3>1. f[Laizi] \in Int  OBVIOUS
    <3> QED BY <2>6, <3>1 DEF Goes
  <2>8. Fair(n)
    <3>1. f[p] \in Int /\ f[Laizi] \in Int /\ n[p] <= f[p] /\ n[Laizi] <= f[Laizi]
          BY <2>2, <2>6 DEF Same, Goes
    <3>2. ASSUME NEW t \in Tiles PROVE n[t] <= f[t]
      <4>1. f[t] \in Int  OBVIOUS
      <4>2. CASE t = Laizi \/ t = p  BY <3>1, <4>2
      <4>3. CASE t # Laizi /\ t # p  BY <2>6, <4>1, <4>3 DEF Same
      <4> QED BY <4>2, <4>3
    <3> QED BY <2>1, <3>2, FairLess
  <2>9. deal_kezi(deeper, m, p) = Back(deeper[a][q], Of(3, {p}), wild)
    <3>1. ~ (p > 39) /\ ~ (m.num[p] + m.num[Laizi] < 3)  BY <1>3
    <3> QED BY <2>4, <3>1, TripleGoesOn
  <2>10. deeper[a][q].ok  BY <2>9 DEF Back
  <2>11. Found(n)  BY <2>5, <2>6, <2>7, <2>8, <2>10 DEF FindsOnly
  <2>12. PICK k \in 0 .. n[Laizi], h \in Counts : Adds(Positive(n), Near(Positive(n)), k, h) /\ Grouped(h)
         BY <2>11 DEF Found
  <2>13. PICK g \in Counts : g = Plus(h, p, 3)  BY PlusIs
  <2>14. Adds(Positive(f), Near(Positive(f)), k + wild, g) /\ k + wild \in 0 .. f[Laizi]
    <3>1. 3 \in 2 .. 3  OBVIOUS
    <3> QED BY <2>2, <2>3, <2>6, <2>12, <2>13, <3>1, SameTileAdds
  <2>15. Grouped(g)  BY <2>2, <2>12, <2>13, GroupedTriple
  <2> QED BY <2>1, <2>14, <2>15 DEF Found
<1> QED BY <1>1, <1>2, <1>3

LEMMA RunFinds ==
    ASSUME NEW deeper, FindsOnly(deeper), NEW m \in Judges, NEW p \in 0 .. 40,
           m.num[Laizi] >= 0, Fair(m.num), At(m.num, p), deal_shunzi(deeper, m, p).ok
    PROVE  Found(m.num)
<1>1. CASE p > 39
  <2>1. p = 40  BY <1>1
  <2> QED BY <2>1, FoundNone
<1>2. CASE p < 11  BY <1>2 DEF deal_shunzi, Fail
<1>3. CASE p \in 11 .. 39 /\ ~ IsRun(m, p)
  <2>1. ~ (p < 11) /\ ~ (p > 39)  BY <1>3
  <2> QED BY <1>3, <2>1 DEF deal_shunzi, Fail
<1>4. CASE p \in 11 .. 39 /\ IsRun(m, p)
  <2>1. PICK f \in [Tiles -> Int] : f = m.num  BY JudgeIs
  <2>2. p \in Natural /\ NoneBefore(f, p) /\ RunAt(f, p) /\ f[Laizi] >= 0
        BY <1>4, <2>1 DEF At, IsRun, RunAt
  <2>3. PICK a \in Judges, q \in 0 .. 40, took \in 0 .. 1 : RunStep(m, p, a, q, took)
        BY <2>1, <2>2, RunSteps
  <2>4. PICK n \in [Tiles -> Int] : n = a.num  BY JudgeIs
  <2>5. took = MissingIn(f, p) /\ At(n, q) /\ Goes(f, n, p, took) /\ OneOfEach(n, f, p)
        BY <2>1, <2>3, <2>4 DEF RunStep
  <2>6. n[Laizi] >= 0
    <3>1. f[Laizi] \in Int  OBVIOUS
    <3> QED BY <2>5, <3>1 DEF Goes
  <2>7. Fair(n)
    <3>1. f[Laizi] \in Int /\ n[Laizi] <= f[Laizi]  BY <2>5 DEF Goes
    <3>2. ASSUME NEW t \in Tiles PROVE n[t] <= f[t]
      <4>1. f[t] \in Int  OBVIOUS
      <4>2. CASE t = Laizi  BY <3>1, <4>2
      <4>3. CASE t # Laizi
        <5>1. t \in Natural  BY <4>3
        <5>2. n[t] = f[t] - (IF t \in p .. p + 2 THEN 1 ELSE 0)  BY <2>5, <5>1 DEF OneOfEach
        <5> QED BY <4>1, <5>2
      <4> QED BY <4>2, <4>3
    <3> QED BY <2>1, <3>2, FairLess
  <2>8. deeper[a][q].ok
    <3>1. PICK r : r = deeper[a][q]  OBVIOUS
    <3>2. deal_shunzi(deeper, m, p) = Back(r, OfRun(p), NegativeIn(r.m.num, p))
      <4>1. p \in 11 .. 39 /\ IsRun(m, p)  BY <1>4
      <4> QED BY <2>3, <3>1, <4>1, RunIs
    <3> QED BY <3>1, <3>2 DEF Back
  <2>9. Found(n)  BY <2>4, <2>5, <2>6, <2>7, <2>8 DEF FindsOnly
  <2>10. PICK k \in 0 .. n[Laizi], h \in Counts : Adds(Positive(n), Near(Positive(n)), k, h) /\ Grouped(h)
         BY <2>9 DEF Found
  <2>11. /\ \E g \in Counts : Adds(Positive(f), Near(Positive(f)), k + took, g) /\ Grouped(g)
         /\ k + took \in 0 .. f[Laizi]
    <3>1. Fair(f)  BY <2>1
    <3> QED BY <2>2, <2>5, <2>10, <3>1, RunAdds
  <2> QED BY <2>1, <2>11 DEF Found
<1> QED BY <1>1, <1>3, <1>4, <1>2

LEMMA FoundMore ==
    ASSUME NEW f \in [Tiles -> Int], NEW g \in [Tiles -> Int], \A t \in Natural : g[t] = f[t],
           g[Laizi] <= f[Laizi], Found(g)
    PROVE  Found(f)
<1>1. PICK P \in Counts, N \in Counts : P = Positive(f) /\ N = Positive(g)  BY PositiveIs
<1>2. ASSUME NEW t \in Tiles PROVE N[t] = P[t]  BY <1>1 DEF Positive
<1>3. N = P  BY <1>2 DEF Counts
<1>4. PICK k \in 0 .. g[Laizi], h \in Counts : Adds(N, Near(N), k, h) /\ Grouped(h)
      BY <1>1 DEF Found
<1>5. k \in 0 .. f[Laizi]
  <2>1. f[Laizi] \in Int /\ g[Laizi] \in Int  OBVIOUS
  <2> QED BY <2>1
<1> QED BY <1>1, <1>3, <1>4, <1>5 DEF Found

LEMMA SearchFinds ==
    ASSUME NEW deeper, FindsOnly(deeper), GivesBack(deeper), NEW m \in Judges, NEW p \in 0 .. 40,
           m.num[Laizi] >= 0, Fair(m.num), At(m.num, p), TripleOrRun(deeper, m, p).ok
    PROVE  Found(m.num)
<1>1. PICK k : k = deal_kezi(deeper, m, p)  OBVIOUS
<1>2. CASE k.ok  BY <1>1, <1>2, TripleFinds
<1>3. CASE ~ k.ok
  <2>1. GivenBack(m, k)  BY <1>1, TripleGivesBack
  <2>2. PICK c \in Judges : c = k.m  BY <2>1 DEF GivenBack
  <2>3. PICK f \in [Tiles -> Int], g \in [Tiles -> Int] : f = m.num /\ g = c.num  BY JudgeIs
  <2>4. (\A t \in Natural : g[t] = f[t]) /\ g[Laizi] >= 0 /\ g[Laizi] <= f[Laizi]
        BY <2>1, <2>2, <2>3 DEF GivenBack
  <2>5. At(g, p)  BY <2>3, <2>4 DEF At, NoneBefore
  <2>6. Fair(g)
    <3>1. \A t \in Tiles : t = Laizi \/ t \in Natural  OBVIOUS
    <3>2. ASSUME NEW t \in Tiles PROVE g[t] <= f[t]
      <4>1. f[t] \in Int  OBVIOUS
      <4> QED BY <2>4, <3>1, <4>1
    <3> QED BY <2>3, <3>2, FairLess
  <2>7. deal_shunzi(deeper, c, p).ok  BY <1>1, <1>3, <2>2 DEF TripleOrRun
  <2>8. Found(g)  BY <2>3, <2>4, <2>5, <2>6, <2>7, RunFinds
  <2> QED BY <2>3, <2>4, <2>8, FoundMore
<1> QED BY <1>2, <1>3

LEMMA DealsFindOnly == \A k \in 0 .. Rounds : FindsOnly(Deals[k])
<1>1. Rounds \in Nat  BY DEF Rounds
<1>2. PICK T : T = {k \in 0 .. Rounds : FindsOnly(Deals[k])}  OBVIOUS
<1>3. ASSUME NEW k \in 0 .. Rounds, k = 0 \/ FindsOnly(Deals[k - 1]) PROVE FindsOnly(Deals[k])
  <2> SUFFICES ASSUME NEW m \in Judges, NEW p \in 0 .. 40, m.num[Laizi] >= 0, Fair(m.num),
                      At(m.num, p), Deals[k][m][p].ok
               PROVE  Found(m.num)
      BY DEF FindsOnly
  <2>1. Deals[k][m][p] = IF k = 0 THEN Fail(m) ELSE TripleOrRun(Deals[k - 1], m, p)  BY DealsUnfold
  <2>2. k # 0  BY <2>1 DEF Fail
  <2>3. k - 1 \in 0 .. Rounds  BY <1>1, <2>2
  <2>4. FindsOnly(Deals[k - 1]) /\ GivesBack(Deals[k - 1])  BY <1>3, <2>2, <2>3, DealsGiveBack
  <2>5. TripleOrRun(Deals[k - 1], m, p).ok  BY <2>1, <2>2
  <2> QED BY <2>4, <2>5, SearchFinds
<1>4. 0 \in T  BY <1>1, <1>2, <1>3
<1>5. ASSUME NEW k \in 0 .. Rounds - 1, k \in T PROVE k + 1 \in T
  <2>1. k + 1 \in 0 .. Rounds /\ (k + 1) - 1 = k  BY <1>1
  <2> QED BY <1>2, <1>3, <1>5, <2>1
<1> QED BY <1>1, <1>2, <1>4, <1>5, UpTo

(* The same with a pair. *)
PairFound(f) ==
    \E i \in Natural, k \in 0 .. f[Laizi], h \in Counts :
        /\ Adds(Positive(f), Near(Positive(f)), k, Plus(h, i, 2)) /\ Grouped(h)
        /\ i \in Near(Positive(f))

LEMMA PairFoundMore ==
    ASSUME NEW f \in [Tiles -> Int], NEW g \in [Tiles -> Int], \A t \in Natural : g[t] = f[t],
           g[Laizi] <= f[Laizi], PairFound(g)
    PROVE  PairFound(f)
<1>1. PICK P \in Counts, N \in Counts : P = Positive(f) /\ N = Positive(g)  BY PositiveIs
<1>2. ASSUME NEW t \in Tiles PROVE N[t] = P[t]  BY <1>1 DEF Positive
<1>3. N = P  BY <1>2 DEF Counts
<1>4. PICK i \in Natural, k \in 0 .. g[Laizi], h \in Counts :
        Adds(N, Near(N), k, Plus(h, i, 2)) /\ Grouped(h) /\ i \in Near(N)
      BY <1>1 DEF PairFound
<1>5. k \in 0 .. f[Laizi]
  <2>1. f[Laizi] \in Int /\ g[Laizi] \in Int  OBVIOUS
  <2> QED BY <2>1
<1> QED BY <1>1, <1>3, <1>4, <1>5 DEF PairFound

LEMMA PairFinds ==
    ASSUME NEW m \in Judges, m.num[Laizi] >= 0, Fair(m.num), NEW i \in Tiles, Pair(Fail(m), i).ok
    PROVE  PairFound(m.num)
<1>1. PICK r : r = Fail(m)  OBVIOUS
<1>2. r.m = m /\ r.ok = FALSE  BY <1>1 DEF Fail
<1>3. ~ (i = Laizi \/ m.num[i] <= 0 \/ m.num[i] + m.num[Laizi] < 2)  BY <1>1, <1>2 DEF Pair
<1>4. PICK f \in [Tiles -> Int] : f = m.num  BY JudgeIs
<1>5. i \in Natural /\ f[i] > 0 /\ f[i] + f[Laizi] >= 2 /\ f[Laizi] >= 0
  <2>1. i \in Natural  BY <1>3
  <2>2. f[i] \in Int /\ f[Laizi] \in Int  BY <2>1
  <2> QED BY <1>3, <1>4, <2>1, <2>2
<1>6. PICK a \in Judges, q \in 0 .. 40, wild \in Int : SameTileStep(m, i, 2, Jiang, 0, a, q, wild)
  <2>1. 2 \in 2 .. 3 /\ Jiang \in Nat /\ 0 \in 0 .. i  BY <1>5 DEF Jiang
  <2>2. NoneBefore(f, 0)  BY DEF NoneBefore
  <2> QED BY <1>4, <1>5, <2>1, <2>2, SameTileSteps
<1>7. PICK n \in [Tiles -> Int] : n = a.num  BY JudgeIs
<1>8. wild = Short(f[i] - 2) /\ At(n, q) /\ Goes(f, n, i, wild) /\ Same(n, f, i, 2)
      BY <1>4, <1>6, <1>7 DEF SameTileStep
<1>9. n[Laizi] >= 0
  <2>1. f[Laizi] \in Int  OBVIOUS
  <2> QED BY <1>8, <2>1 DEF Goes
<1>10. Fair(n) /\ i \in Played
  <2>1. f[i] \in Int /\ f[Laizi] \in Int /\ n[i] <= f[i] /\ n[Laizi] <= f[Laizi]
        BY <1>5, <1>8 DEF Same, Goes
  <2>2. ASSUME NEW t \in Tiles PROVE n[t] <= f[t]
    <3>1. f[t] \in Int  OBVIOUS
    <3>2. CASE t = Laizi \/ t = i  BY <2>1, <3>2
    <3>3. CASE t # Laizi /\ t # i  BY <1>8, <3>1, <3>3 DEF Same
    <3> QED BY <3>2, <3>3
  <2>3. i \in Played  BY <1>4, <1>5 DEF Fair
  <2> QED BY <1>4, <2>2, <2>3, FairLess
<1>11. Pair(r, i) = Back(Deal(a, q), Of(2, {i}), wild)  BY <1>2, <1>3, <1>6 DEF Pair, SameTileStep
<1>12. Deal(a, q).ok  BY <1>1, <1>11 DEF Back
<1>13. Found(n)
  <2>1. Rounds \in 0 .. Rounds  BY DEF Rounds
  <2> QED BY <1>7, <1>8, <1>9, <1>10, <1>12, <2>1, DealsFindOnly DEF FindsOnly, Deal
<1>14. PICK k \in 0 .. n[Laizi], h \in Counts : Adds(Positive(n), Near(Positive(n)), k, h) /\ Grouped(h)
       BY <1>13 DEF Found
<1>15. Adds(Positive(f), Near(Positive(f)), k + wild, Plus(h, i, 2)) /\ k + wild \in 0 .. f[Laizi]
  <2>1. 2 \in 2 .. 3  OBVIOUS
  <2> QED BY <1>5, <1>8, <1>10, <1>14, <2>1, SameTileAdds
<1>16. i \in Near(Positive(f))
  <2>1. PICK P \in Counts : P = Positive(f)  BY PositiveIs
  <2>2. P[i] > 0 /\ i = i + 0 /\ 0 \in -2 .. 2 /\ i \in Tiles  BY <1>5, <2>1 DEF Positive
  <2> QED BY <1>10, <2>1, <2>2, NearIs
<1> QED BY <1>4, <1>5, <1>14, <1>15, <1>16 DEF PairFound

LEMMA hu233Finds ==
    ASSUME NEW m \in Judges, m.num[Laizi] >= 0, Fair(m.num), hu233(m).ok
    PROVE  PairFound(m.num)
<1>1. PICK g : Tried(m, 41, g) /\ hu233(m) = g[41]  BY hu233Tries
<1>2. PICK T : T = {k \in 0 .. 41 : GivenBack(m, g[k]) /\ (g[k].ok => PairFound(m.num))}  OBVIOUS
<1>3. 0 \in T
  <2>1. g[0] = Fail(m)  BY <1>1 DEF Tried
  <2>2. ~ Fail(m).ok  BY DEF Fail
  <2> QED BY <1>2, <2>1, <2>2, AsIs
<1>4. ASSUME NEW k \in 0 .. 40, k \in T PROVE k + 1 \in T
  <2>1. PICK r : r = g[k]  OBVIOUS
  <2>2. GivenBack(m, r) /\ (r.ok => PairFound(m.num))  BY <1>2, <1>4, <2>1
  <2>3. g[k + 1] = Pair(r, k)
    <3>1. k + 1 \in 0 .. 41 /\ k + 1 # 0 /\ (k + 1) - 1 = k  OBVIOUS
    <3> QED BY <1>1, <2>1, <3>1 DEF Tried
  <2>4. CASE r.ok  BY <1>2, <2>2, <2>3, <2>4 DEF Pair
  <2>5. CASE ~ r.ok
    <3>1. PICK c \in Judges : c = r.m  BY <2>2 DEF GivenBack
    <3>2. r = Fail(c)  BY <2>2, <2>5, <3>1 DEF GivenBack, Fail
    <3>3. PICK f \in [Tiles -> Int], h \in [Tiles -> Int] : f = m.num /\ h = c.num  BY JudgeIs
    <3>4. (\A t \in Natural : h[t] = f[t]) /\ h[Laizi] >= 0 /\ h[Laizi] <= f[Laizi]
          BY <2>2, <3>1, <3>3 DEF GivenBack
    <3>5. GivenBack(c, Pair(r, k))  BY <3>2, <3>3, <3>4, PairGivesBack
    <3>6. GivenBack(m, Pair(r, k))  BY <2>2, <2>5, <3>1, <3>5, ThenBack
    <3>7. ASSUME Pair(r, k).ok PROVE PairFound(m.num)
      <4>1. Fair(h)
        <5>1. \A t \in Tiles : t = Laizi \/ t \in Natural  OBVIOUS
        <5>2. ASSUME NEW t \in Tiles PROVE h[t] <= f[t]
          <6>1. f[t] \in Int  OBVIOUS
          <6> QED BY <3>4, <5>1, <6>1
        <5> QED BY <3>3, <5>2, FairLess
      <4>2. PairFound(h)  BY <3>2, <3>3, <3>4, <3>7, <4>1, PairFinds
      <4> QED BY <3>3, <3>4, <4>2, PairFoundMore
    <3> QED BY <1>2, <2>3, <3>6, <3>7
  <2> QED BY <2>4, <2>5
<1>5. 41 \in T  BY <1>3, <1>4, UpTo
<1> QED BY <1>1, <1>2, <1>5

-----------------------------------------------------------------------------
(* A pair and groups are a win of the reference, with exactly the wild tiles there are. *)
LEMMA PairAndGroups ==
    ASSUME NEW h \in Counts, NEW i \in Tiles
    PROVE  WinsWithPair(Plus(h, i, 2), i) <=> Grouped(h)
<1>1. PICK e \in Counts : e = Plus(h, i, 2)  BY PlusIs
<1>2. e[i] = h[i] + 2 /\ h[i] \in Nat /\ e[i] >= 2  BY <1>1 DEF Plus, Counts
<1>3. PICK g : g = [e EXCEPT ![i] = @ - 2]  OBVIOUS
<1>4. g \in Counts
  <2>1. e[i] - 2 \in Nat  BY <1>2
  <2> QED BY <1>3, <2>1 DEF Counts
<1>5. ASSUME NEW t \in Tiles PROVE g[t] = h[t]
  <2>1. g[t] = IF t = i THEN e[i] - 2 ELSE e[t]  BY <1>3 DEF Counts
  <2>2. h[t] \in Nat /\ e[t] = h[t] + (IF t = i THEN 2 ELSE 0)  BY <1>1 DEF Plus, Counts
  <2> QED BY <2>1, <2>2
<1>6. g = h  BY <1>4, <1>5 DEF Counts
<1>7. WinsWithPair(e, i) <=> InGroups(h)  BY <1>2, <1>3, <1>6 DEF WinsWithPair
<1> QED BY <1>1, <1>7, GroupsAreGrouped, GroupedAreGroups

LEMMA AddsWin ==
    ASSUME NEW n \in Counts, NEW wild \in Nat, NEW h \in Counts, NEW i \in Tiles,
           Adds(n, Near(n), wild, Plus(h, i, 2)), Grouped(h)
    PROVE  IsWin(n, wild)
<1>1. PICK made \in Makings(wild, Near(n)) : Plus(h, i, 2) = Made(n, made)  BY DEF Adds
<1>2. WinsWithPair(Made(n, made), i)  BY <1>1, PairAndGroups
<1> QED BY <1>1, <1>2 DEF IsWin, Makings

LEMMA PlainIs ==
    ASSUME HandInv
    PROVE  /\ Plain \in Counts /\ Plain = Positive(Full) /\ Full = Plus(Plain, Laizi, hand[Laizi])
           /\ Plain[Laizi] = 0 /\ hand[Laizi] \in 0 .. 4
           /\ Total(Full) = Total(Plain) + hand[Laizi]
<1>1. PICK f \in Counts : f = Full /\ f[Laizi] = hand[Laizi]  BY FullIs DEF Counts
<1>2. \A t \in Tiles : f[t] \in Nat  BY DEF Counts
<1>3. PICK n : n = Plain  OBVIOUS
<1>4. /\ n = [f EXCEPT ![Laizi] = 0] /\ n \in Counts
      /\ \A t \in Tiles : n[t] = IF t = Laizi THEN 0 ELSE f[t]
      BY <1>1, <1>3 DEF Plain, Counts
<1>5. n = Positive(f)
  <2>1. f \in [Tiles -> Int]  BY <1>2 DEF Counts
  <2>2. PICK P \in Counts : P = Positive(f)  BY <2>1, PositiveIs
  <2>3. ASSUME NEW t \in Tiles PROVE P[t] = n[t]
    <3>1. P[t] = IF t # Laizi /\ f[t] > 0 THEN f[t] ELSE 0  BY <2>2 DEF Positive
    <3> QED BY <1>2, <1>4, <3>1
  <2>4. P = n  BY <1>4, <2>3 DEF Counts
  <2> QED BY <2>2, <2>4
<1>6. hand[Laizi] \in 0 .. 4
  <2>1. MaxWild \in 0 .. 4 /\ hand[Laizi] \in Nat /\ hand[Laizi] <= MaxWild
        BY HandsAssumption DEF HandInv
  <2> QED BY <2>1
<1>7. f = Plus(n, Laizi, f[Laizi])
  <2>1. PICK e \in Counts : e = Plus(n, Laizi, f[Laizi])  BY <1>2, <1>4, PlusIs
  <2>2. ASSUME NEW t \in Tiles PROVE e[t] = f[t]
    <3>1. e[t] = n[t] + (IF t = Laizi THEN f[Laizi] ELSE 0)  BY <2>1 DEF Plus
    <3> QED BY <1>2, <1>4, <3>1
  <2>3. e = f  BY <2>2 DEF Counts
  <2> QED BY <2>1, <2>3
<1>8. Total(f) = Total(n) + f[Laizi]
  <2>1. Laizi \in Tiles /\ f[Laizi] \in Nat  BY <1>2
  <2> QED BY <1>4, <1>7, <2>1, TotalPlus
<1>9. n[Laizi] = 0 /\ n \in Counts  BY <1>4
<1>10. Plain \in Counts /\ Plain = Positive(Full) /\ Plain[Laizi] = 0  BY <1>1, <1>3, <1>5, <1>9
<1>11. Full = Plus(Plain, Laizi, hand[Laizi]) /\ Total(Full) = Total(Plain) + hand[Laizi]
       BY <1>1, <1>3, <1>7, <1>8
<1> QED BY <1>6, <1>10, <1>11

(* Unless it is bridged no hand is called a win that is none: what is found is a pair and groups with   *)
(* some of the wild tiles, and the hand being of the size it has, those left are none or a  *)
(* group.                                                                                   *)
LEMMA JudgeFindsOnly ==
    ASSUME HandInv, Judged, ~ Bridged, hu233(Judge).ok
    PROVE  IsWin(Plain, hand[Laizi])
<1>1. PICK j \in Judges, f \in Counts :
        j = Judge /\ f = Full /\ j.num = f /\ f[Laizi] = hand[Laizi]
      BY FullIs DEF Counts
<1>2. PICK n \in Counts, w \in 0 .. 4 :
        n = Plain /\ n = Positive(f) /\ w = hand[Laizi] /\ Total(f) = Total(n) + w
      BY <1>1, PlainIs
<1>3. Fair(f)
  <2>1. ASSUME NEW t \in Natural, f[t] > 0 PROVE t \in Played
    <3>1. t \in Deck  BY <1>1, <2>1, FullIs
    <3> QED BY <3>1, HandsAssumption
  <2>2. ASSUME f[Laizi] > 0, NEW t \in {19, 29} PROVE ~ (f[t] > 0 /\ f[t + 2] > 0)
    <3>1. t \in Tiles /\ t + 2 \in Tiles /\ t + 1 \notin Played  BY PlayedIs
    <3> QED BY <1>1, <2>2, <3>1 DEF Bridged, Held
  <2>3. f[Laizi] > 0 => ~ (f[19] > 0 /\ f[21] > 0) /\ ~ (f[29] > 0 /\ f[31] > 0)
    <3>1. 19 \in {19, 29} /\ 29 \in {19, 29} /\ 19 + 2 = 21 /\ 29 + 2 = 31  OBVIOUS
    <3>2. ASSUME f[Laizi] > 0 PROVE ~ (f[19] > 0 /\ f[19 + 2] > 0) /\ ~ (f[29] > 0 /\ f[29 + 2] > 0)
          BY <2>2, <3>1, <3>2
    <3> QED BY <3>1, <3>2
  <2> QED BY <2>1, <2>3 DEF Fair
<1>4. PairFound(f)
  <2>1. f[Laizi] >= 0  BY <1>1, <1>2
  <2> QED BY <1>1, <1>3, <2>1, hu233Finds
<1>5. PICK i \in Natural, k \in 0 .. w, h \in Counts :
        Adds(n, Near(n), k, Plus(h, i, 2)) /\ Grouped(h) /\ i \in Near(n)
      BY <1>1, <1>2, <1>4 DEF PairFound
<1>6. i \in Tiles  OBVIOUS
<1>7. PICK x \in Nat : Total(h) = 3 * x  BY <1>5, GroupedTotal
<1>8. 3 * x + 2 = Total(n) + k
  <2>1. Total(Plus(h, i, 2)) = Total(n) + k  BY <1>5 DEF Adds
  <2>2. 2 \in Nat  OBVIOUS
  <2>3. Total(Plus(h, i, 2)) = Total(h) + 2  BY <1>6, <2>2, TotalPlus
  <2> QED BY <1>7, <2>1, <2>3
<1>9. PICK y \in Nat : Total(n) + w = 3 * y + 2
  <2>1. PICK s \in Nat : s = Total(f)  BY TotalIs
  <2>2. s % 3 = 2  BY <1>1, <2>1 DEF Judged, Size
  <2>3. s = 3 * (s \div 3) + (s % 3) /\ s \div 3 \in Nat  BY ByThree
  <2> QED BY <1>2, <2>1, <2>2, <2>3
<1>10. w = k \/ w = k + 3
  <2>1. PICK s \in Nat : s = Total(n)  BY TotalIs
  <2>2. w - k = 3 * (y - x) /\ w - k \in 0 .. 4  BY <1>8, <1>9, <2>1
  <2> QED BY <2>2
<1>11. CASE w = k
  <2>1. w \in Nat  OBVIOUS
  <2> QED BY <1>2, <1>5, <1>6, <1>11, <2>1, AddsWin
<1>12. CASE w = k + 3
  <2>1. PICK S \in SUBSET Tiles : S = Near(n)
    <3>1. Near(n) \in SUBSET Tiles  BY PlayedIs DEF Near
    <3> QED BY <3>1
  <2>2. i \in S /\ k \in Nat /\ k + 1 \in Nat /\ k + 2 \in Nat /\ (k + 1) + 1 = k + 2 /\ (k + 2) + 1 = w
        BY <1>5, <1>12, <2>1
  <2>3. /\ 1 \in Nat /\ 2 \in Nat /\ 3 \in Nat /\ 4 \in Nat
        /\ 2 + 1 = 3 /\ 3 + 1 = 4 /\ 4 + 1 = 5 /\ 3 + 2 = 5
        OBVIOUS
  <2>4. Adds(n, S, k + 1, Plus(h, i, 3))
    <3>1. Adds(n, S, k + 1, Plus(Plus(h, i, 2), i, 1))  BY <1>5, <2>1, <2>2, AddsOne
    <3>2. Plus(Plus(h, i, 2), i, 1) = Plus(h, i, 2 + 1)  BY <2>3, PlusTwice
    <3> QED BY <2>3, <3>1, <3>2
  <2>5. Adds(n, S, k + 2, Plus(h, i, 4))
    <3>1. Adds(n, S, (k + 1) + 1, Plus(Plus(h, i, 3), i, 1))  BY <2>2, <2>4, AddsOne
    <3>2. Plus(Plus(h, i, 3), i, 1) = Plus(h, i, 3 + 1)  BY <2>3, PlusTwice
    <3> QED BY <2>2, <2>3, <3>1, <3>2
  <2>6. Adds(n, S, w, Plus(h, i, 5))
    <3>1. Adds(n, S, (k + 2) + 1, Plus(Plus(h, i, 4), i, 1))  BY <2>2, <2>5, AddsOne
    <3>2. Plus(Plus(h, i, 4), i, 1) = Plus(h, i, 4 + 1)  BY <2>3, PlusTwice
    <3> QED BY <2>2, <2>3, <3>1, <3>2
  <2>7. PICK g \in Counts : g = Plus(h, i, 3)  BY <2>3, PlusIs
  <2>8. Plus(g, i, 2) = Plus(h, i, 5)
    <3>1. Plus(Plus(h, i, 3), i, 2) = Plus(h, i, 3 + 2)  BY <2>3, PlusTwice
    <3> QED BY <2>3, <2>7, <3>1
  <2>9. Grouped(g)  BY <1>5, <1>6, <2>7, GroupedTriple
  <2>10. w \in Nat  OBVIOUS
  <2> QED BY <1>2, <1>6, <2>1, <2>6, <2>8, <2>9, <2>10, AddsWin
<1> QED BY <1>10, <1>11, <1>12

-----------------------------------------------------------------------------
(* What a search must not miss: groups without a wild tile, or with one made w.  With a wild *)
(* tile left no count is below zero, and the end of the last suit, where IsRun sees no run,  *)
(* is not held.                                                                              *)
Ready(f) ==
    \/ f[Laizi] = 0 /\ f[40] <= 0 /\ Grouped(Positive(f))
    \/ /\ f[Laizi] = 1 /\ (\A t \in Natural : f[t] >= 0) /\ f[38] = 0 /\ f[39] = 0 /\ f[40] = 0
       /\ \E w \in Natural : Grouped(Plus(Positive(f), w, 1))

(* What n leaves to find is e: with no wild tile, and with one made w.                       *)
LeavesNone(n, e) ==
    /\ n[Laizi] = 0 /\ n[40] <= 0 /\ e[Laizi] = 0
    /\ \A t \in Natural : e[t] = IF n[t] > 0 THEN n[t] ELSE 0
LeavesOne(n, e, w) ==
    /\ n[Laizi] = 1 /\ n[38] = 0 /\ n[39] = 0 /\ n[40] = 0 /\ e[Laizi] = 0
    /\ \A t \in Natural : n[t] >= 0 /\ e[t] = n[t] + (IF t = w THEN 1 ELSE 0)

LEMMA ReadyNone ==
    ASSUME NEW n \in [Tiles -> Int], NEW e \in Counts, Grouped(e), LeavesNone(n, e)
    PROVE  Ready(n)
<1>0. /\ n[Laizi] = 0 /\ n[40] <= 0 /\ e[Laizi] = 0
      /\ \A t \in Natural : e[t] = IF n[t] > 0 THEN n[t] ELSE 0
      BY DEF LeavesNone
<1>1. PICK N \in Counts : N = Positive(n)  BY PositiveIs
<1>2. ASSUME NEW t \in Tiles PROVE N[t] = e[t]
  <2>1. N[t] = IF t # Laizi /\ n[t] > 0 THEN n[t] ELSE 0  BY <1>1 DEF Positive
  <2>2. CASE t = Laizi  BY <1>0, <2>1, <2>2
  <2>3. CASE t # Laizi
    <3>1. t \in Natural  BY <2>3
    <3> QED BY <1>0, <2>1, <2>3, <3>1
  <2> QED BY <2>2, <2>3
<1>3. N = e  BY <1>2 DEF Counts
<1>4. Grouped(Positive(n))  BY <1>1, <1>3
<1> QED BY <1>0, <1>4 DEF Ready

LEMMA ReadyOne ==
    ASSUME NEW n \in [Tiles -> Int], NEW e \in Counts, Grouped(e), NEW w \in Natural, LeavesOne(n, e, w)
    PROVE  Ready(n)
<1>0. /\ n[Laizi] = 1 /\ n[38] = 0 /\ n[39] = 0 /\ n[40] = 0 /\ e[Laizi] = 0
      /\ \A t \in Natural : n[t] >= 0 /\ e[t] = n[t] + (IF t = w THEN 1 ELSE 0)
      BY DEF LeavesOne
<1>1. PICK N \in Counts : N = Positive(n)  BY PositiveIs
<1>2. PICK g \in Counts : g = Plus(N, w, 1)  BY PlusIs
<1>3. ASSUME NEW t \in Tiles PROVE g[t] = e[t]
  <2>1. N[t] = (IF t # Laizi /\ n[t] > 0 THEN n[t] ELSE 0) /\ g[t] = N[t] + (IF t = w THEN 1 ELSE 0)
        BY <1>1, <1>2 DEF Positive, Plus
  <2>2. CASE t = Laizi  BY <1>0, <2>1, <2>2
  <2>3. CASE t # Laizi
    <3>1. t \in Natural /\ n[t] \in Int  BY <2>3
    <3>2. n[t] >= 0 /\ e[t] = n[t] + (IF t = w THEN 1 ELSE 0)  BY <1>0, <3>1
    <3> QED BY <2>1, <2>3, <3>1, <3>2
  <2> QED BY <2>2, <2>3
<1>4. g = e  BY <1>3 DEF Counts
<1>5. Grouped(Plus(Positive(n), w, 1))  BY <1>1, <1>2, <1>4
<1> QED BY <1>0, <1>5 DEF Ready

(* After a triple, or after a run, as much is left to find. *)
TripleReady(f, p) ==
    /\ f[p] + f[Laizi] >= 3
    /\ \A n \in [Tiles -> Int] : Goes(f, n, p, Short(f[p] - 3)) /\ Same(n, f, p, 3) => Ready(n)
RunReady(f, p) ==
    /\ RunAt(f, p)
    /\ \A n \in [Tiles -> Int] : Goes(f, n, p, MissingIn(f, p)) /\ OneOfEach(n, f, p) => Ready(n)

AtTile(f, p) == p \in Natural /\ f[p] > 0 /\ (\A t \in Natural : t < p => f[t] <= 0)

TripleGone(n, f, p) ==
    /\ n[Laizi] = f[Laizi] - (IF f[p] >= 3 THEN 0 ELSE 3 - f[p])
    /\ \A t \in Natural : n[t] = f[t] - (IF t = p THEN 3 ELSE 0)

LEMMA TripleIs ==
    ASSUME NEW f \in [Tiles -> Int], NEW p \in Natural, NEW n \in [Tiles -> Int],
           Goes(f, n, p, Short(f[p] - 3)), Same(n, f, p, 3)
    PROVE  TripleGone(n, f, p)
<1>1. f[p] \in Int  OBVIOUS
<1>2. n[Laizi] = f[Laizi] - (IF f[p] >= 3 THEN 0 ELSE 3 - f[p])  BY <1>1 DEF Goes, Short
<1>3. ASSUME NEW t \in Natural PROVE n[t] = f[t] - (IF t = p THEN 3 ELSE 0)
  <2>1. f[t] \in Int  OBVIOUS
  <2> QED BY <2>1 DEF Same
<1> QED BY <1>2, <1>3 DEF TripleGone

RunGone(n, f, p, u, v) ==
    /\ n[Laizi] = f[Laizi] - ((IF f[u] < 1 THEN 1 ELSE 0) + (IF f[v] < 1 THEN 1 ELSE 0))
    /\ \A t \in Natural : n[t] = f[t] - (IF t = p \/ t = u \/ t = v THEN 1 ELSE 0)

LEMMA RunLeaves ==
    ASSUME NEW f \in [Tiles -> Int], NEW p \in Natural, RunAt(f, p), NEW n \in [Tiles -> Int],
           Goes(f, n, p, MissingIn(f, p)), OneOfEach(n, f, p),
           NEW u \in Natural, NEW v \in Natural, u = p + 1, v = p + 2
    PROVE  RunGone(n, f, p, u, v)
<1>1. PICK took : took = MissingIn(f, p)  OBVIOUS
<1>2. took = (IF f[u] < 1 THEN 1 ELSE 0) + (IF f[v] < 1 THEN 1 ELSE 0)
  <2>1. took = (IF f[p + 1] < 1 THEN 1 ELSE 0) + (IF f[p + 2] < 1 THEN 1 ELSE 0)  BY <1>1, RunTakes
  <2> QED BY <2>1
<1>3. n[Laizi] = f[Laizi] - took  BY <1>1 DEF Goes
<1>4. ASSUME NEW t \in Natural
      PROVE  n[t] = f[t] - (IF t = p \/ t = u \/ t = v THEN 1 ELSE 0)
  <2>1. t \in p .. p + 2 <=> t = p \/ t = u \/ t = v  OBVIOUS
  <2> QED BY <2>1 DEF OneOfEach
<1> QED BY <1>2, <1>3, <1>4 DEF RunGone

LEMMA LeadsOnNone ==
    ASSUME NEW f \in [Tiles -> Int], NEW p \in 0 .. 39, AtTile(f, p),
           f[Laizi] = 0, f[40] <= 0, Grouped(Positive(f))
    PROVE  TripleReady(f, p) \/ RunReady(f, p)
<1>1. PICK P \in Counts : P = Positive(f)  BY PositiveIs
<1>2. /\ P[Laizi] = 0 /\ \A t \in Natural : P[t] = IF f[t] > 0 THEN f[t] ELSE 0
      BY <1>1 DEF Positive
<1>3. p \in Natural /\ f[p] > 0 /\ (\A t \in Natural : t < p => f[t] <= 0)  BY DEF AtTile
<1>4. P[p] > 0 /\ \A t \in Tiles : t < p => P[t] = 0
  <2>1. ASSUME NEW t \in Tiles, t < p PROVE P[t] = 0
    <3>1. CASE t = Laizi  BY <1>2, <3>1
    <3>2. CASE t # Laizi
      <4>1. t \in Natural /\ f[t] \in Int  BY <3>2
      <4>2. f[t] <= 0 /\ P[t] = IF f[t] > 0 THEN f[t] ELSE 0  BY <1>2, <1>3, <2>1, <4>1
      <4> QED BY <4>1, <4>2
    <3> QED BY <3>1, <3>2
  <2> QED BY <1>2, <1>3, <2>1
<1>5. (\E e : IsTripleAnd(P, p, e)) \/ (\E e : IsRunAnd(P, p, e))
  <2>1. p \in Tiles  OBVIOUS
  <2> QED BY <1>1, <1>4, <2>1, GroupedLow
<1>6. ASSUME NEW e, IsTripleAnd(P, p, e) PROVE TripleReady(f, p)
  <2>1. e \in Counts /\ Grouped(e) /\ P = Plus(e, p, 3)  BY <1>6 DEF IsTripleAnd
  <2>2. \A t \in Tiles : e[t] \in Nat /\ P[t] = e[t] + (IF t = p THEN 3 ELSE 0)  BY <2>1 DEF Plus, Counts
  <2>3. f[p] >= 3  BY <1>2, <1>3, <2>2
  <2>4. ASSUME NEW n \in [Tiles -> Int], Goes(f, n, p, Short(f[p] - 3)), Same(n, f, p, 3)
        PROVE  Ready(n)
    <3>1. /\ n[Laizi] = f[Laizi] - (IF f[p] >= 3 THEN 0 ELSE 3 - f[p])
          /\ \A t \in Natural : n[t] = f[t] - (IF t = p THEN 3 ELSE 0)
      <4>1. p \in Natural  BY <1>3
      <4>2. TripleGone(n, f, p)  BY <2>4, <4>1, TripleIs
      <4> QED BY <4>2 DEF TripleGone
    <3>2. n[Laizi] = 0
      <4>1. n[Laizi] = f[Laizi] - (IF f[p] >= 3 THEN 0 ELSE 3 - f[p])  BY <3>1
      <4>2. n[Laizi] = 0 - 0  BY <2>3, <4>1
      <4> QED BY <4>2
    <3>3. n[40] <= 0
      <4>1. 40 \in Natural /\ 40 # p /\ f[40] \in Int  OBVIOUS
      <4> QED BY <3>1, <4>1
    <3>4. e[Laizi] = 0
      <4>1. Laizi \in Tiles /\ Laizi # p  BY <1>3
      <4> QED BY <1>2, <2>2, <4>1
    <3>5. ASSUME NEW t \in Natural PROVE e[t] = IF n[t] > 0 THEN n[t] ELSE 0
      <4>1. f[t] \in Int /\ e[t] \in Nat /\ n[t] = f[t] - (IF t = p THEN 3 ELSE 0)  BY <2>2, <3>1
      <4>2. P[t] = e[t] + (IF t = p THEN 3 ELSE 0) /\ P[t] = IF f[t] > 0 THEN f[t] ELSE 0  BY <1>2, <2>2
      <4> QED BY <2>3, <4>1, <4>2
    <3>6. LeavesNone(n, e)  BY <3>2, <3>3, <3>4, <3>5 DEF LeavesNone
    <3> QED BY <2>1, <3>6, ReadyNone
  <2>5. f[p] + f[Laizi] >= 3
    <3>1. f[p] \in Int  OBVIOUS
    <3> QED BY <2>3, <3>1
  <2> QED BY <2>4, <2>5 DEF TripleReady
<1>7. ASSUME NEW e, IsRunAnd(P, p, e) PROVE RunReady(f, p)
  <2>1. p \in 11 .. 38 /\ e \in Counts /\ Grouped(e) /\ P = PlusRun(e, p)  BY <1>7 DEF IsRunAnd
  <2>2. \A t \in Tiles : e[t] \in Nat /\ P[t] = e[t] + (IF t \in p .. p + 2 THEN 1 ELSE 0)
        BY <2>1 DEF PlusRun, Counts
  <2>3. PICK u \in Natural, v \in Natural : u = p + 1 /\ v = p + 2  BY <2>1
  <2>4. f[p] >= 1 /\ f[u] >= 1 /\ f[v] >= 1
    <3>1. p \in p .. p + 2 /\ u \in p .. p + 2 /\ v \in p .. p + 2  BY <2>3
    <3>2. P[p] >= 1 /\ P[u] >= 1 /\ P[v] >= 1  BY <2>2, <3>1
    <3>3. f[p] \in Int /\ f[u] \in Int /\ f[v] \in Int  OBVIOUS
    <3> QED BY <1>2, <1>3, <3>2, <3>3
  <2>5. v # 40  BY <2>4
  <2>6. RunAt(f, p)  BY <2>1, <2>3, <2>4, <2>5 DEF RunAt
  <2>7. ASSUME NEW n \in [Tiles -> Int], Goes(f, n, p, MissingIn(f, p)), OneOfEach(n, f, p)
        PROVE  Ready(n)
    <3>1. /\ n[Laizi] = f[Laizi] - ((IF f[u] < 1 THEN 1 ELSE 0) + (IF f[v] < 1 THEN 1 ELSE 0))
          /\ \A t \in Natural : n[t] = f[t] - (IF t = p \/ t = u \/ t = v THEN 1 ELSE 0)
          BY <1>3, <2>3, <2>6, <2>7, RunLeaves DEF RunGone
    <3>2. n[Laizi] = 0
      <4>1. f[u] \in Int /\ f[v] \in Int  OBVIOUS
      <4> QED BY <2>4, <3>1, <4>1
    <3>3. n[40] <= 0
      <4>1. 40 \in Natural /\ 40 # p /\ 40 # u /\ 40 # v /\ f[40] \in Int  BY <2>3, <2>5
      <4> QED BY <3>1, <4>1
    <3>4. e[Laizi] = 0
      <4>1. Laizi \in Tiles /\ Laizi \notin p .. p + 2  BY <2>1
      <4> QED BY <1>2, <2>2, <4>1
    <3>5. ASSUME NEW t \in Natural PROVE e[t] = IF n[t] > 0 THEN n[t] ELSE 0
      <4>1. f[t] \in Int /\ e[t] \in Nat /\ n[t] = f[t] - (IF t = p \/ t = u \/ t = v THEN 1 ELSE 0)
            BY <2>2, <3>1
      <4>2. P[t] = e[t] + (IF t \in p .. p + 2 THEN 1 ELSE 0) /\ P[t] = IF f[t] > 0 THEN f[t] ELSE 0
            BY <1>2, <2>2
      <4>3. t \in p .. p + 2 <=> t = p \/ t = u \/ t = v  BY <2>3
      <4>4. t = p \/ t = u \/ t = v => f[t] >= 1  BY <2>4
      <4> QED BY <4>1, <4>2, <4>3, <4>4
    <3>6. LeavesNone(n, e)  BY <3>2, <3>3, <3>4, <3>5 DEF LeavesNone
    <3> QED BY <2>1, <3>6, ReadyNone
  <2> QED BY <2>6, <2>7 DEF RunReady
<1> QED BY <1>5, <1>6, <1>7

(* With one wild tile, that is made w.  Made lower than the tiles held, it begins a run. *)
LEMMA LeadsOnBelow ==
    ASSUME NEW f \in [Tiles -> Int], NEW p \in 0 .. 39, AtTile(f, p), f[Laizi] = 1,
           \A t \in Natural : f[t] >= 0, f[38] = 0, f[39] = 0, f[40] = 0,
           NEW w \in Natural, w < p, Grouped(Plus(Positive(f), w, 1))
    PROVE  RunReady(f, p)
<1>1. PICK P \in Counts : P = Positive(f)  BY PositiveIs
<1>2. PICK H \in Counts : H = Plus(P, w, 1)  BY PlusIs
<1>3. p \in Natural /\ f[p] > 0 /\ (\A t \in Natural : t < p => f[t] <= 0)  BY DEF AtTile
<1>4. /\ H[Laizi] = 0 /\ P[Laizi] = 0
      /\ \A t \in Natural : f[t] \in Nat /\ P[t] = f[t] /\ H[t] = f[t] + (IF t = w THEN 1 ELSE 0)
  <2>1. P[Laizi] = 0  BY <1>1 DEF Positive
  <2>2. H[Laizi] = 0
    <3>1. Laizi \in Tiles /\ Laizi # w  OBVIOUS
    <3>2. H[Laizi] = P[Laizi] + 0  BY <1>2, <3>1 DEF Plus
    <3> QED BY <2>1, <3>2
  <2>3. ASSUME NEW t \in Natural
        PROVE  f[t] \in Nat /\ P[t] = f[t] /\ H[t] = f[t] + (IF t = w THEN 1 ELSE 0)
    <3>1. f[t] \in Int /\ f[t] >= 0  OBVIOUS
    <3>2. P[t] = IF f[t] > 0 THEN f[t] ELSE 0  BY <1>1 DEF Positive
    <3>3. H[t] = P[t] + (IF t = w THEN 1 ELSE 0)  BY <1>2 DEF Plus
    <3> QED BY <3>1, <3>2, <3>3
  <2> QED BY <2>1, <2>2, <2>3
<1>5. H[w] = 1 /\ \A t \in Tiles : t < w => H[t] = 0
  <2>1. f[w] = 0  BY <1>3, <1>4
  <2>2. ASSUME NEW t \in Tiles, t < w PROVE H[t] = 0
    <3>1. CASE t = Laizi  BY <1>4, <3>1
    <3>2. CASE t # Laizi
      <4>1. t \in Natural /\ t < p /\ t # w  BY <2>2, <3>2
      <4> QED BY <1>3, <1>4, <4>1
    <3> QED BY <3>1, <3>2
  <2> QED BY <1>4, <2>1, <2>2
<1>6. PICK e : IsRunAnd(H, w, e)
  <2>1. w \in Tiles /\ H[w] > 0 /\ Grouped(H)  BY <1>1, <1>2, <1>5
  <2>2. (\E e : IsTripleAnd(H, w, e)) \/ (\E e : IsRunAnd(H, w, e))  BY <1>5, <2>1, GroupedLow
  <2>3. ASSUME NEW e, IsTripleAnd(H, w, e) PROVE FALSE
    <3>1. e \in Counts /\ H = Plus(e, w, 3)  BY <2>3 DEF IsTripleAnd
    <3>2. e[w] \in Nat /\ H[w] = e[w] + 3  BY <2>1, <3>1 DEF Plus, Counts
    <3> QED BY <1>5, <3>2
  <2> QED BY <2>2, <2>3
<1>7. w \in 11 .. 38 /\ e \in Counts /\ Grouped(e) /\ H = PlusRun(e, w)  BY <1>6 DEF IsRunAnd
<1>8. \A t \in Tiles : e[t] \in Nat /\ H[t] = e[t] + (IF t \in w .. w + 2 THEN 1 ELSE 0)
      BY <1>7 DEF PlusRun, Counts
<1>9. f[w + 1] >= 1 /\ f[w + 2] >= 1
  <2>1. PICK u \in Natural, v \in Natural : u = w + 1 /\ v = w + 2  BY <1>7
  <2>2. u \in w .. w + 2 /\ v \in w .. w + 2 /\ u # w /\ v # w  BY <2>1
  <2>3. H[u] >= 1 /\ H[v] >= 1  BY <1>8, <2>2
  <2>4. H[u] = f[u] /\ H[v] = f[v]
    <3>1. f[u] \in Nat /\ f[v] \in Nat /\ H[u] = f[u] + 0 /\ H[v] = f[v] + 0  BY <1>4, <2>2
    <3> QED BY <3>1
  <2> QED BY <2>1, <2>3, <2>4
<1>10. p = w + 1 /\ p \in 12 .. 36
  <2>1. PICK u \in Natural, v \in Natural : u = w + 1 /\ v = w + 2  BY <1>7
  <2>2. ~ (u < p)  BY <1>3, <1>9, <2>1
  <2>3. v \notin {38, 39, 40}  BY <1>9, <2>1
  <2> QED BY <1>7, <2>1, <2>2, <2>3
<1>11. PICK u \in Natural, v \in Natural : u = p + 1 /\ v = p + 2  BY <1>10
<1>12. f[p] >= 1 /\ f[u] >= 1 /\ f[v] >= 0 /\ f[w] = 0
  <2>1. u = w + 2  BY <1>10, <1>11
  <2> QED BY <1>3, <1>4, <1>9, <1>10, <2>1
<1>13. RunAt(f, p)
  <2>1. f[v] \in Int /\ f[v] + f[Laizi] >= 1  BY <1>12
  <2> QED BY <1>10, <1>11, <1>12, <2>1 DEF RunAt
<1>14. e[Laizi] = 0
  <2>1. Laizi \in Tiles /\ Laizi \notin w .. w + 2  BY <1>7
  <2> QED BY <1>4, <1>8, <2>1
<1>15. ASSUME NEW t \in Natural
       PROVE  e[t] \in Nat /\ e[t] = f[t] - (IF t = p \/ t = u THEN 1 ELSE 0)
  <2>1. t \in w .. w + 2 <=> t = w \/ t = p \/ t = u  BY <1>10, <1>11
  <2>2. e[t] \in Nat /\ H[t] = e[t] + (IF t \in w .. w + 2 THEN 1 ELSE 0)  BY <1>8
  <2>3. f[t] \in Nat /\ H[t] = f[t] + (IF t = w THEN 1 ELSE 0)  BY <1>4
  <2>4. w # p /\ w # u  BY <1>10, <1>11
  <2> QED BY <1>12, <2>1, <2>2, <2>3, <2>4
<1>16. ASSUME NEW n \in [Tiles -> Int], Goes(f, n, p, MissingIn(f, p)), OneOfEach(n, f, p)
       PROVE  Ready(n)
  <2>1. /\ n[Laizi] = f[Laizi] - ((IF f[u] < 1 THEN 1 ELSE 0) + (IF f[v] < 1 THEN 1 ELSE 0))
        /\ \A t \in Natural : n[t] = f[t] - (IF t = p \/ t = u \/ t = v THEN 1 ELSE 0)
    <3>1. RunGone(n, f, p, u, v)  BY <1>3, <1>11, <1>13, <1>16, RunLeaves
    <3> QED BY <3>1 DEF RunGone
  <2>2. p # u /\ p # v /\ u # v /\ f[u] \in Int /\ f[v] \in Int  BY <1>11
  <2>3. CASE f[v] = 0
    <3>1. n[Laizi] = 0
      <4>1. n[Laizi] = f[Laizi] - ((IF f[u] < 1 THEN 1 ELSE 0) + (IF f[v] < 1 THEN 1 ELSE 0))  BY <2>1
      <4>2. ~ (f[u] < 1) /\ f[v] < 1  BY <1>12, <2>2, <2>3
      <4>3. n[Laizi] = f[Laizi] - (0 + 1)  BY <4>1, <4>2
      <4> QED BY <4>3
    <3>2. n[40] <= 0
      <4>1. 40 \in Natural /\ 40 # p /\ 40 # u /\ 40 # v  BY <1>10, <1>11
      <4> QED BY <2>1, <4>1
    <3>3. ASSUME NEW t \in Natural PROVE e[t] = IF n[t] > 0 THEN n[t] ELSE 0
      <4>1. /\ e[t] \in Nat /\ e[t] = f[t] - (IF t = p \/ t = u THEN 1 ELSE 0) /\ f[t] \in Nat
            /\ n[t] = f[t] - (IF t = p \/ t = u \/ t = v THEN 1 ELSE 0)
            BY <1>4, <1>15, <2>1
      <4>2. CASE t = v  BY <2>2, <2>3, <4>1, <4>2
      <4>3. CASE t # v  BY <4>1, <4>3
      <4> QED BY <4>2, <4>3
    <3>4. LeavesNone(n, e)  BY <1>14, <3>1, <3>2, <3>3 DEF LeavesNone
    <3> QED BY <1>7, <3>4, ReadyNone
  <2>4. CASE f[v] > 0
    <3>1. n[Laizi] = 1  BY <1>12, <2>1, <2>2, <2>4
    <3>2. ASSUME NEW t \in Natural PROVE n[t] >= 0 /\ e[t] = n[t] + (IF t = v THEN 1 ELSE 0)
      <4>1. /\ e[t] \in Nat /\ e[t] = f[t] - (IF t = p \/ t = u THEN 1 ELSE 0) /\ f[t] \in Nat
            /\ n[t] = f[t] - (IF t = p \/ t = u \/ t = v THEN 1 ELSE 0)
            BY <1>4, <1>15, <2>1
      <4>2. CASE t = v  BY <2>2, <2>4, <4>1, <4>2
      <4>3. CASE t # v  BY <4>1, <4>3
      <4> QED BY <4>2, <4>3
    <3>3. n[38] = 0 /\ n[39] = 0 /\ n[40] = 0
      <4>1. v # 38  BY <2>4
      <4>2. ASSUME NEW t \in 38 .. 40 PROVE n[t] = f[t]
        <5>1. t \in Natural /\ f[t] \in Int /\ t # p /\ t # u /\ t # v  BY <1>10, <1>11, <4>1
        <5> QED BY <2>1, <5>1
      <4> QED BY <4>2
    <3>4. LeavesOne(n, e, v)  BY <1>14, <3>1, <3>2, <3>3 DEF LeavesOne
    <3> QED BY <1>7, <3>4, ReadyOne
  <2> QED BY <1>12, <2>2, <2>3, <2>4
<1> QED BY <1>13, <1>16 DEF RunReady

LEMMA LeadsOnAbove ==
    ASSUME NEW f \in [Tiles -> Int], NEW p \in 0 .. 39, AtTile(f, p), f[Laizi] = 1,
           \A t \in Natural : f[t] >= 0, f[38] = 0, f[39] = 0, f[40] = 0,
           NEW w \in Natural, w >= p, Grouped(Plus(Positive(f), w, 1))
    PROVE  TripleReady(f, p) \/ RunReady(f, p)
<1>1. PICK P \in Counts : P = Positive(f)  BY PositiveIs
<1>2. PICK H \in Counts : H = Plus(P, w, 1)  BY PlusIs
<1>3. p \in Natural /\ f[p] > 0 /\ (\A t \in Natural : t < p => f[t] <= 0)  BY DEF AtTile
<1>4. /\ H[Laizi] = 0 /\ P[Laizi] = 0
      /\ \A t \in Natural : f[t] \in Nat /\ P[t] = f[t] /\ H[t] = f[t] + (IF t = w THEN 1 ELSE 0)
  <2>1. P[Laizi] = 0  BY <1>1 DEF Positive
  <2>2. H[Laizi] = 0
    <3>1. Laizi \in Tiles /\ Laizi # w  OBVIOUS
    <3>2. H[Laizi] = P[Laizi] + 0  BY <1>2, <3>1 DEF Plus
    <3> QED BY <2>1, <3>2
  <2>3. ASSUME NEW t \in Natural
        PROVE  f[t] \in Nat /\ P[t] = f[t] /\ H[t] = f[t] + (IF t = w THEN 1 ELSE 0)
    <3>1. f[t] \in Int /\ f[t] >= 0  OBVIOUS
    <3>2. P[t] = IF f[t] > 0 THEN f[t] ELSE 0  BY <1>1 DEF Positive
    <3>3. H[t] = P[t] + (IF t = w THEN 1 ELSE 0)  BY <1>2 DEF Plus
    <3> QED BY <3>1, <3>2, <3>3
  <2> QED BY <2>1, <2>2, <2>3
<1>5. H[p] > 0 /\ \A t \in Tiles : t < p => H[t] = 0
  <2>1. ASSUME NEW t \in Tiles, t < p PROVE H[t] = 0
    <3>1. CASE t = Laizi  BY <1>4, <3>1
    <3>2. CASE t # Laizi
      <4>1. t \in Natural /\ t # w  BY <2>1, <3>2
      <4>2. f[t] \in Nat /\ f[t] <= 0 /\ H[t] = f[t] + 0  BY <1>3, <1>4, <2>1, <4>1
      <4> QED BY <4>2
    <3> QED BY <3>1, <3>2
  <2> QED BY <1>3, <1>4, <2>1
<1>6. (\E e : IsTripleAnd(H, p, e)) \/ (\E e : IsRunAnd(H, p, e))
  <2>1. p \in Tiles /\ Grouped(H)  BY <1>1, <1>2
  <2> QED BY <1>5, <2>1, GroupedLow
<1>7. p \in 0 .. 37
  <2>1. p # 38 /\ p # 39  BY <1>3
  <2> QED BY <2>1
<1>8. ASSUME NEW e, IsTripleAnd(H, p, e) PROVE TripleReady(f, p)
  <2>1. e \in Counts /\ Grouped(e) /\ H = Plus(e, p, 3)  BY <1>8 DEF IsTripleAnd
  <2>2. \A t \in Tiles : e[t] \in Nat /\ H[t] = e[t] + (IF t = p THEN 3 ELSE 0)  BY <2>1 DEF Plus, Counts
  <2>3. f[p] \in Nat /\ H[p] = f[p] + (IF p = w THEN 1 ELSE 0) /\ H[p] >= 3
    <3>1. p \in Natural /\ p \in Tiles  BY <1>3
    <3>2. f[p] \in Nat /\ H[p] = f[p] + (IF p = w THEN 1 ELSE 0)  BY <1>4, <3>1
    <3>3. e[p] \in Nat /\ H[p] = e[p] + 3  BY <2>2, <3>1
    <3> QED BY <3>2, <3>3
  <2>4. f[p] >= 3 \/ (f[p] = 2 /\ p = w)  BY <2>3
  <2>5. e[Laizi] = 0
    <3>1. Laizi \in Tiles /\ Laizi # p  BY <1>3
    <3> QED BY <1>4, <2>2, <3>1
  <2>6. ASSUME NEW t \in Natural
        PROVE  /\ e[t] \in Nat /\ f[t] \in Nat
               /\ e[t] = f[t] + (IF t = w THEN 1 ELSE 0) - (IF t = p THEN 3 ELSE 0)
    <3>1. e[t] \in Nat /\ H[t] = e[t] + (IF t = p THEN 3 ELSE 0)  BY <2>2
    <3>2. f[t] \in Nat /\ H[t] = f[t] + (IF t = w THEN 1 ELSE 0)  BY <1>4
    <3> QED BY <3>1, <3>2
  <2>7. ASSUME NEW n \in [Tiles -> Int], Goes(f, n, p, Short(f[p] - 3)), Same(n, f, p, 3)
        PROVE  Ready(n)
    <3>1. /\ n[Laizi] = f[Laizi] - (IF f[p] >= 3 THEN 0 ELSE 3 - f[p])
          /\ \A t \in Natural : n[t] = f[t] - (IF t = p THEN 3 ELSE 0)
      <4>1. p \in Natural  BY <1>3
      <4>2. TripleGone(n, f, p)  BY <2>7, <4>1, TripleIs
      <4> QED BY <4>2 DEF TripleGone
    <3>2. n[38] = 0 /\ n[39] = 0 /\ n[40] = 0
      <4>1. ASSUME NEW t \in 38 .. 40 PROVE n[t] = f[t]
        <5>1. t \in Natural /\ f[t] \in Int /\ t # p  BY <1>7
        <5> QED BY <3>1, <5>1
      <4> QED BY <4>1
    <3>3. CASE f[p] >= 3
      <4>1. n[Laizi] = 1  BY <3>1, <3>3
      <4>2. ASSUME NEW t \in Natural PROVE n[t] >= 0 /\ e[t] = n[t] + (IF t = w THEN 1 ELSE 0)
        <5>1. /\ e[t] \in Nat /\ f[t] \in Nat /\ n[t] = f[t] - (IF t = p THEN 3 ELSE 0)
              /\ e[t] = f[t] + (IF t = w THEN 1 ELSE 0) - (IF t = p THEN 3 ELSE 0)
              BY <2>6, <3>1
        <5> QED BY <3>3, <5>1
      <4>3. LeavesOne(n, e, w)  BY <2>5, <3>2, <4>1, <4>2 DEF LeavesOne
      <4> QED BY <2>1, <4>3, ReadyOne
    <3>4. CASE f[p] = 2 /\ p = w
      <4>1. n[Laizi] = 0  BY <3>1, <3>4
      <4>2. ASSUME NEW t \in Natural PROVE e[t] = IF n[t] > 0 THEN n[t] ELSE 0
        <5>1. /\ e[t] \in Nat /\ f[t] \in Nat /\ n[t] = f[t] - (IF t = p THEN 3 ELSE 0)
              /\ e[t] = f[t] + (IF t = w THEN 1 ELSE 0) - (IF t = p THEN 3 ELSE 0)
              BY <2>6, <3>1
        <5> QED BY <3>4, <5>1
      <4>3. n[40] <= 0  BY <3>2
      <4>4. LeavesNone(n, e)  BY <2>5, <4>1, <4>2, <4>3 DEF LeavesNone
      <4> QED BY <2>1, <4>4, ReadyNone
    <3> QED BY <2>4, <3>3, <3>4
  <2>8. f[p] + f[Laizi] >= 3  BY <2>3, <2>4
  <2> QED BY <2>7, <2>8 DEF TripleReady
<1>9. ASSUME NEW e, IsRunAnd(H, p, e) PROVE RunReady(f, p)
  <2>1. p \in 11 .. 38 /\ e \in Counts /\ Grouped(e) /\ H = PlusRun(e, p)  BY <1>9 DEF IsRunAnd
  <2>2. \A t \in Tiles : e[t] \in Nat /\ H[t] = e[t] + (IF t \in p .. p + 2 THEN 1 ELSE 0)
        BY <2>1 DEF PlusRun, Counts
  <2>3. PICK u \in Natural, v \in Natural : u = p + 1 /\ v = p + 2  BY <2>1
  <2>4. p # u /\ p # v /\ u # v  BY <2>3
  <2>5. f[u] \in Nat /\ f[v] \in Nat /\ (f[u] >= 1 \/ w = u) /\ (f[v] >= 1 \/ w = v)
    <3>1. u \in p .. p + 2 /\ v \in p .. p + 2  BY <2>3
    <3>2. H[u] >= 1 /\ H[v] >= 1  BY <2>2, <3>1
    <3>3. f[u] \in Nat /\ H[u] = f[u] + (IF u = w THEN 1 ELSE 0)  BY <1>4
    <3>4. f[v] \in Nat /\ H[v] = f[v] + (IF v = w THEN 1 ELSE 0)  BY <1>4
    <3> QED BY <3>2, <3>3, <3>4
  <2>6. RunAt(f, p)
    <3>1. \/ f[u] + f[Laizi] >= 1 /\ f[v] >= 1
          \/ f[u] >= 1 /\ f[v] + f[Laizi] >= 1
          BY <2>4, <2>5
    <3>2. f[p] >= 1  BY <1>3, <1>4
    <3> QED BY <1>7, <2>1, <2>3, <3>1, <3>2 DEF RunAt
  <2>7. e[Laizi] = 0
    <3>1. Laizi \in Tiles /\ Laizi \notin p .. p + 2  BY <2>1
    <3> QED BY <1>4, <2>2, <3>1
  <2>8. ASSUME NEW t \in Natural
        PROVE  /\ e[t] \in Nat /\ f[t] \in Nat
               /\ e[t] = f[t] + (IF t = w THEN 1 ELSE 0) - (IF t = p \/ t = u \/ t = v THEN 1 ELSE 0)
    <3>1. e[t] \in Nat /\ H[t] = e[t] + (IF t \in p .. p + 2 THEN 1 ELSE 0)  BY <2>2
    <3>2. f[t] \in Nat /\ H[t] = f[t] + (IF t = w THEN 1 ELSE 0)  BY <1>4
    <3>3. t \in p .. p + 2 <=> t = p \/ t = u \/ t = v  BY <2>3
    <3> QED BY <3>1, <3>2, <3>3
  <2>9. ASSUME NEW n \in [Tiles -> Int], Goes(f, n, p, MissingIn(f, p)), OneOfEach(n, f, p)
        PROVE  Ready(n)
    <3>1. /\ n[Laizi] = f[Laizi] - ((IF f[u] < 1 THEN 1 ELSE 0) + (IF f[v] < 1 THEN 1 ELSE 0))
          /\ \A t \in Natural : n[t] = f[t] - (IF t = p \/ t = u \/ t = v THEN 1 ELSE 0)
      <4>1. RunGone(n, f, p, u, v)  BY <1>3, <2>3, <2>6, <2>9, RunLeaves
      <4> QED BY <4>1 DEF RunGone
    <3>2. CASE f[u] >= 1 /\ f[v] >= 1
      <4>1. n[Laizi] = 1  BY <2>5, <3>1, <3>2
      <4>2. ASSUME NEW t \in Natural PROVE n[t] >= 0 /\ e[t] = n[t] + (IF t = w THEN 1 ELSE 0)
        <5>1. /\ e[t] \in Nat /\ f[t] \in Nat
              /\ n[t] = f[t] - (IF t = p \/ t = u \/ t = v THEN 1 ELSE 0)
              /\ e[t] = f[t] + (IF t = w THEN 1 ELSE 0) - (IF t = p \/ t = u \/ t = v THEN 1 ELSE 0)
              BY <2>8, <3>1
        <5>2. t = p \/ t = u \/ t = v => f[t] >= 1  BY <1>3, <3>2, <5>1
        <5> QED BY <5>1, <5>2
      <4>3. n[38] = 0 /\ n[39] = 0 /\ n[40] = 0
        <5>1. v \notin {38, 39} /\ u # 38  BY <3>2
        <5>2. ASSUME NEW t \in 38 .. 40 PROVE n[t] = f[t]
          <6>1. t \in Natural /\ f[t] \in Int /\ t # p /\ t # u /\ t # v  BY <1>7, <2>3, <5>1
          <6> QED BY <3>1, <6>1
        <5> QED BY <5>2
      <4>4. LeavesOne(n, e, w)  BY <2>7, <4>1, <4>2, <4>3 DEF LeavesOne
      <4> QED BY <2>1, <4>4, ReadyOne
    <3>3. CASE ~ (f[u] >= 1 /\ f[v] >= 1)
      <4>1. (w = u /\ f[u] = 0 /\ f[v] >= 1) \/ (w = v /\ f[v] = 0 /\ f[u] >= 1)  BY <2>4, <2>5, <3>3
      <4>2. n[Laizi] = 0  BY <3>1, <4>1
      <4>3. ASSUME NEW t \in Natural PROVE e[t] = IF n[t] > 0 THEN n[t] ELSE 0
        <5>1. /\ e[t] \in Nat /\ f[t] \in Nat
              /\ n[t] = f[t] - (IF t = p \/ t = u \/ t = v THEN 1 ELSE 0)
              /\ e[t] = f[t] + (IF t = w THEN 1 ELSE 0) - (IF t = p \/ t = u \/ t = v THEN 1 ELSE 0)
              BY <2>8, <3>1
        <5>2. CASE t = w  BY <4>1, <5>1, <5>2
        <5>3. CASE t # w  BY <5>1, <5>3
        <5> QED BY <5>2, <5>3
      <4>4. n[40] <= 0
        <5>1. 40 \in Natural /\ 40 # p /\ 40 # u /\ 40 # v  BY <1>7, <2>3
        <5> QED BY <3>1, <5>1
      <4>5. LeavesNone(n, e)  BY <2>7, <4>2, <4>3, <4>4 DEF LeavesNone
      <4> QED BY <2>1, <4>5, ReadyNone
    <3> QED BY <3>2, <3>3
  <2> QED BY <2>6, <2>9 DEF RunReady
<1> QED BY <1>6, <1>8, <1>9

LEMMA LeadsOn ==
    ASSUME NEW f \in [Tiles -> Int], NEW p \in 0 .. 39, AtTile(f, p), Ready(f)
    PROVE  TripleReady(f, p) \/ RunReady(f, p)
<1>1. CASE f[Laizi] = 0 /\ f[40] <= 0 /\ Grouped(Positive(f))  BY <1>1, LeadsOnNone
<1>2. CASE /\ f[Laizi] = 1 /\ (\A t \in Natural : f[t] >= 0) /\ f[38] = 0 /\ f[39] = 0 /\ f[40] = 0
           /\ \E w \in Natural : Grouped(Plus(Positive(f), w, 1))
  <2>1. PICK w \in Natural : Grouped(Plus(Positive(f), w, 1))  BY <1>2
  <2>2. CASE w < p  BY <1>2, <2>1, <2>2, LeadsOnBelow
  <2>3. CASE w >= p  BY <1>2, <2>1, <2>3, LeadsOnAbove
  <2> QED BY <2>2, <2>3
<1> QED BY <1>1, <1>2 DEF Ready

-----------------------------------------------------------------------------
(* Every group takes a tile that is held, so that the search comes to an end before Rounds. *)
LEMMA TotalLess ==
    ASSUME NEW n \in Counts, NEW e \in Counts, \A t \in Tiles : n[t] <= e[t], NEW p \in Tiles, n[p] < e[p]
    PROVE  Total(n) < Total(e)
<1>1. PICK g : Sums(n, 41, g) /\ Total(n) = g[41]  BY TotalSums
<1>2. PICK h : Sums(e, 41, h) /\ Total(e) = h[41]  BY TotalSums
<1>3. PICK T : T = {k \in 0 .. 41 : g[k] \in Nat /\ h[k] \in Nat /\ h[k] >= g[k] + (IF k > p THEN 1 ELSE 0)}
      OBVIOUS
<1>4. 0 \in T
  <2>1. g[0] = 0  BY <1>1 DEF Sums
  <2>2. h[0] = 0  BY <1>2 DEF Sums
  <2> QED BY <1>3, <2>1, <2>2
<1>5. ASSUME NEW k \in 0 .. 40, k \in T PROVE k + 1 \in T
  <2>1. k + 1 \in 0 .. 41 /\ k + 1 # 0 /\ (k + 1) - 1 = k  OBVIOUS
  <2>2. g[k + 1] = g[k] + n[k] /\ h[k + 1] = h[k] + e[k]  BY <1>1, <1>2, <2>1 DEF Sums
  <2>3. n[k] \in Nat /\ e[k] \in Nat /\ n[k] <= e[k]  BY DEF Counts
  <2>4. g[k] \in Nat /\ h[k] \in Nat /\ h[k] >= g[k] + (IF k > p THEN 1 ELSE 0)  BY <1>3, <1>5
  <2>5. k = p => n[k] < e[k]  OBVIOUS
  <2>6. h[k + 1] >= g[k + 1] + (IF k + 1 > p THEN 1 ELSE 0)  BY <2>2, <2>3, <2>4, <2>5
  <2> QED BY <1>3, <2>1, <2>2, <2>3, <2>4, <2>6
<1>6. 41 \in T  BY <1>4, <1>5, UpTo
<1> QED BY <1>1, <1>2, <1>3, <1>6

LEMMA LessLeft ==
    ASSUME NEW f \in [Tiles -> Int], NEW n \in [Tiles -> Int], NEW p \in Natural, f[p] > 0, n[p] < f[p],
           \A t \in Natural : n[t] <= f[t]
    PROVE  Total(Positive(n)) < Total(Positive(f))
<1>1. PICK P \in Counts, N \in Counts : P = Positive(f) /\ N = Positive(n)  BY PositiveIs
<1>2. ASSUME NEW t \in Tiles PROVE N[t] <= P[t] /\ (t = p => N[t] < P[t])
  <2>1. /\ P[t] = (IF t # Laizi /\ f[t] > 0 THEN f[t] ELSE 0)
        /\ N[t] = (IF t # Laizi /\ n[t] > 0 THEN n[t] ELSE 0)
        BY <1>1 DEF Positive
  <2>2. CASE t = Laizi  BY <2>1, <2>2
  <2>3. CASE t # Laizi
    <3>1. t \in Natural /\ f[t] \in Int /\ n[t] \in Int  BY <2>3
    <3>2. n[t] <= f[t]  BY <3>1
    <3> QED BY <2>1, <2>3, <3>1, <3>2
  <2> QED BY <2>2, <2>3
<1>3. p \in Tiles /\ N[p] < P[p]  BY <1>2
<1> QED BY <1>1, <1>2, <1>3, TotalLess

-----------------------------------------------------------------------------
(* What a search k groups deep does not miss. *)
Left(f) == Total(Positive(f))

FindsAll(deeper, k) ==
    \A m \in Judges : \A p \in 0 .. 40 :
        At(m.num, p) /\ Ready(m.num) /\ Left(m.num) < k => deeper[m][p].ok

LEMMA TripleFindsAll ==
    ASSUME NEW k \in Nat, NEW deeper, FindsAll(deeper, k), NEW m \in Judges, NEW p \in 0 .. 39,
           m.num[Laizi] >= 0, At(m.num, p), TripleReady(m.num, p), Left(m.num) <= k
    PROVE  deal_kezi(deeper, m, p).ok
<1>1. PICK f \in [Tiles -> Int] : f = m.num  BY JudgeIs
<1>2. p \in Natural /\ f[p] > 0 /\ NoneBefore(f, p)  BY <1>1 DEF At
<1>3. f[p] + f[Laizi] >= 3  BY <1>1 DEF TripleReady
<1>4. PICK a \in Judges, q \in 0 .. 40, wild \in Int : SameTileStep(m, p, 3, Ke, p, a, q, wild)
  <2>1. 3 \in 2 .. 3 /\ Ke \in Nat /\ p \in 0 .. p  BY DEF Ke
  <2> QED BY <1>1, <1>2, <1>3, <2>1, SameTileSteps
<1>5. PICK n \in [Tiles -> Int] : n = a.num  BY JudgeIs
<1>6. /\ wild = Short(f[p] - 3) /\ At(n, q) /\ Goes(f, n, p, wild) /\ Same(n, f, p, 3)
      BY <1>1, <1>4, <1>5 DEF SameTileStep
<1>7. Ready(n)  BY <1>1, <1>6 DEF TripleReady
<1>8. Left(n) < k
  <2>1. f[p] \in Int /\ n[p] = f[p] - 3 /\ n[p] < f[p]  BY <1>2, <1>6 DEF Same
  <2>2. ASSUME NEW t \in Natural PROVE n[t] <= f[t]
    <3>1. f[t] \in Int  OBVIOUS
    <3> QED BY <1>6, <2>1, <3>1 DEF Same
  <2>3. Left(n) < Left(f)  BY <1>2, <2>1, <2>2, LessLeft DEF Left
  <2>4. Left(n) \in Nat /\ Left(f) \in Nat  BY PositiveIs, TotalIs DEF Left
  <2> QED BY <1>1, <2>3, <2>4
<1>9. deeper[a][q].ok  BY <1>5, <1>6, <1>7, <1>8 DEF FindsAll
<1>10. ~ (p > 39) /\ ~ (f[p] + f[Laizi] < 3)
  <2>1. f[p] \in Int /\ f[Laizi] \in Int  BY <1>2
  <2> QED BY <1>3, <2>1
<1>11. deal_kezi(deeper, m, p) = Back(deeper[a][q], Of(3, {p}), wild)
  <2>1. ~ (p > 39) /\ ~ (m.num[p] + m.num[Laizi] < 3)  BY <1>1, <1>10
  <2> QED BY <1>4, <2>1, TripleGoesOn
<1> QED BY <1>9, <1>11 DEF Back

LEMMA RunFindsAll ==
    ASSUME NEW k \in Nat, NEW deeper, FindsAll(deeper, k), NEW m \in Judges, NEW p \in 0 .. 39,
           m.num[Laizi] >= 0, At(m.num, p), RunReady(m.num, p), Left(m.num) <= k
    PROVE  deal_shunzi(deeper, m, p).ok
<1>1. PICK f \in [Tiles -> Int] : f = m.num  BY JudgeIs
<1>2. p \in Natural /\ f[p] > 0 /\ NoneBefore(f, p)  BY <1>1 DEF At
<1>3. RunAt(f, p)  BY <1>1 DEF RunReady
<1>4. PICK a \in Judges, q \in 0 .. 40, took \in 0 .. 1 : RunStep(m, p, a, q, took)
      BY <1>1, <1>2, <1>3, RunSteps
<1>5. PICK n \in [Tiles -> Int] : n = a.num  BY JudgeIs
<1>6. took = MissingIn(f, p) /\ At(n, q) /\ Goes(f, n, p, took) /\ OneOfEach(n, f, p)
      BY <1>1, <1>4, <1>5 DEF RunStep
<1>7. Ready(n)  BY <1>1, <1>6 DEF RunReady
<1>8. Left(n) < k
  <2>1. n[p] < f[p]
    <3>1. p \in p .. p + 2 /\ f[p] \in Int  BY <1>2
    <3>2. n[p] = f[p] - 1  BY <1>2, <1>6, <3>1 DEF OneOfEach
    <3> QED BY <3>1, <3>2
  <2>2. ASSUME NEW t \in Natural PROVE n[t] <= f[t]
    <3>1. f[t] \in Int  OBVIOUS
    <3>2. n[t] = f[t] - (IF t \in p .. p + 2 THEN 1 ELSE 0)  BY <1>6 DEF OneOfEach
    <3> QED BY <3>1, <3>2
  <2>3. Left(n) < Left(f)  BY <1>2, <2>1, <2>2, LessLeft DEF Left
  <2>4. Left(n) \in Nat /\ Left(f) \in Nat  BY PositiveIs, TotalIs DEF Left
  <2> QED BY <1>1, <2>3, <2>4
<1>9. deeper[a][q].ok  BY <1>5, <1>6, <1>7, <1>8 DEF FindsAll
<1>10. p \in 11 .. 39 /\ IsRun(m, p)
  <2>1. p <= 37 /\ p \in 11 .. 39  BY <1>3 DEF RunAt
  <2> QED BY <1>1, <1>3, <2>1 DEF RunAt, IsRun
<1>11. PICK r : r = deeper[a][q]  OBVIOUS
<1>12. deal_shunzi(deeper, m, p) = Back(r, OfRun(p), NegativeIn(r.m.num, p))
  <2>1. p \in 11 .. 39  BY <1>10
  <2> QED BY <1>4, <1>10, <1>11, <2>1, RunIs
<1> QED BY <1>9, <1>11, <1>12 DEF Back

LEMMA SearchFindsAll ==
    ASSUME NEW k \in Nat, NEW deeper, FindsAll(deeper, k), GivesBack(deeper),
           NEW m \in Judges, NEW p \in 0 .. 40, At(m.num, p), Ready(m.num), Left(m.num) <= k
    PROVE  TripleOrRun(deeper, m, p).ok
<1>1. PICK f \in [Tiles -> Int] : f = m.num  BY JudgeIs
<1>2. f[Laizi] \in 0 .. 1  BY <1>1 DEF Ready
<1>3. PICK s : s = deal_kezi(deeper, m, p)  OBVIOUS
<1>4. CASE s.ok  BY <1>3, <1>4 DEF TripleOrRun
<1>5. CASE ~ s.ok
  <2>1. p \in 0 .. 39
    <3>1. ~ (p > 39)  BY <1>3, <1>5 DEF deal_kezi, Won
    <3> QED BY <3>1
  <2>2. AtTile(f, p)
    <3>1. p \in Natural /\ f[p] > 0 /\ NoneBefore(f, p)  BY <1>1, <2>1 DEF At
    <3> QED BY <3>1 DEF AtTile, NoneBefore
  <2>3. ~ TripleReady(f, p)  BY <1>1, <1>2, <1>3, <1>5, <2>1, TripleFindsAll
  <2>4. RunReady(f, p)  BY <1>1, <2>1, <2>2, <2>3, LeadsOn
  <2>5. GivenBack(m, s)  BY <1>1, <1>2, <1>3, TripleGivesBack
  <2>6. PICK c \in Judges : c = s.m  BY <2>5 DEF GivenBack
  <2>7. PICK g \in [Tiles -> Int] : g = c.num  BY JudgeIs
  <2>8. Shallow(f)
    <3>1. f[Laizi] <= 1 /\ f[Laizi] <= 2  BY <1>2
    <3> QED BY <3>1 DEF Shallow
  <2>9. g[Laizi] = f[Laizi] /\ \A t \in Natural : g[t] = f[t]  BY <1>1, <2>5, <2>6, <2>7, <2>8 DEF GivenBack
  <2>10. g = f
    <3>1. \A t \in Tiles : t = Laizi \/ t \in Natural  OBVIOUS
    <3>2. \A t \in Tiles : g[t] = f[t]  BY <2>9, <3>1
    <3> QED BY <3>2
  <2>11. deal_shunzi(deeper, c, p).ok
    <3>1. c.num = m.num  BY <1>1, <2>7, <2>10
    <3>2. m.num[Laizi] >= 0  BY <1>1, <1>2
    <3>3. c.num[Laizi] >= 0 /\ At(c.num, p) /\ RunReady(c.num, p) /\ Left(c.num) <= k
          BY <1>1, <2>4, <3>1, <3>2
    <3> QED BY <2>1, <3>3, RunFindsAll
  <2> QED BY <1>3, <1>5, <2>6, <2>11 DEF TripleOrRun
<1> QED BY <1>4, <1>5

LEMMA DealsFindAll == \A k \in 0 .. Rounds : FindsAll(Deals[k], k)
<1>1. Rounds \in Nat  BY DEF Rounds
<1>2. PICK T : T = {k \in 0 .. Rounds : FindsAll(Deals[k], k)}  OBVIOUS
<1>3. 0 \in T
  <2> SUFFICES ASSUME NEW m \in Judges, Left(m.num) < 0 PROVE FALSE
    <3>1. FindsAll(Deals[0], 0)  BY DEF FindsAll
    <3> QED BY <1>1, <1>2, <3>1
  <2>1. PICK P \in Counts : P = Positive(m.num)  BY PositiveIs, JudgeIs
  <2>2. Left(m.num) \in Nat  BY <2>1, TotalIs DEF Left
  <2> QED BY <2>2
<1>4. ASSUME NEW k \in 0 .. Rounds - 1, k \in T PROVE k + 1 \in T
  <2>1. k + 1 \in 0 .. Rounds /\ k + 1 # 0 /\ (k + 1) - 1 = k /\ k \in Nat  BY <1>1
  <2>2. FindsAll(Deals[k], k) /\ GivesBack(Deals[k])  BY <1>2, <1>4, DealsGiveBack
  <2>3. ASSUME NEW m \in Judges, NEW p \in 0 .. 40, At(m.num, p), Ready(m.num), Left(m.num) < k + 1
        PROVE  Deals[k + 1][m][p].ok
    <3>1. Deals[k + 1][m][p] = TripleOrRun(Deals[k], m, p)
      <4>1. p \in Nat  OBVIOUS
      <4> QED BY <2>1, <4>1, DealsUnfold
    <3>2. Left(m.num) <= k
      <4>1. PICK P \in Counts : P = Positive(m.num)  BY PositiveIs, JudgeIs
      <4>2. Left(m.num) \in Nat  BY <4>1, TotalIs DEF Left
      <4> QED BY <2>1, <2>3, <4>2
    <3> QED BY <2>1, <2>2, <2>3, <3>1, <3>2, SearchFindsAll
  <2>4. FindsAll(Deals[k + 1], k + 1)  BY <2>3 DEF FindsAll
  <2> QED BY <1>2, <2>1, <2>4
<1> QED BY <1>1, <1>2, <1>3, <1>4, UpTo

-----------------------------------------------------------------------------
(* After the pair i as much is left to find. *)
PairReady(f, i) ==
    /\ i \in Natural /\ f[i] > 0 /\ f[i] + f[Laizi] >= 2
    /\ \A n \in [Tiles -> Int] : Goes(f, n, i, Short(f[i] - 2)) /\ Same(n, f, i, 2) => Ready(n)

PairGone(n, f, p) ==
    /\ n[Laizi] = f[Laizi] - (IF f[p] >= 2 THEN 0 ELSE 2 - f[p])
    /\ \A t \in Natural : n[t] = f[t] - (IF t = p THEN 2 ELSE 0)

LEMMA PairLeaves ==
    ASSUME NEW f \in [Tiles -> Int], NEW p \in Natural, NEW n \in [Tiles -> Int],
           Goes(f, n, p, Short(f[p] - 2)), Same(n, f, p, 2)
    PROVE  PairGone(n, f, p)
<1>1. f[p] \in Int  OBVIOUS
<1>2. n[Laizi] = f[Laizi] - (IF f[p] >= 2 THEN 0 ELSE 2 - f[p])  BY <1>1 DEF Goes, Short
<1>3. ASSUME NEW t \in Natural PROVE n[t] = f[t] - (IF t = p THEN 2 ELSE 0)
  <2>1. f[t] \in Int  OBVIOUS
  <2> QED BY <2>1 DEF Same
<1> QED BY <1>2, <1>3 DEF PairGone

LEMMA PairReadyNone ==
    ASSUME NEW f \in [Tiles -> Int], \A t \in Natural : f[t] >= 0, f[Laizi] = 0, f[40] = 0,
           NEW i \in Tiles, NEW h \in Counts, Grouped(h), Positive(f) = Plus(h, i, 2)
    PROVE  PairReady(f, i)
<1>1. PICK P \in Counts : P = Positive(f)  BY PositiveIs
<1>2. \A t \in Tiles : h[t] \in Nat /\ P[t] = h[t] + (IF t = i THEN 2 ELSE 0)  BY <1>1 DEF Plus, Counts
<1>3. P[Laizi] = 0 /\ \A t \in Natural : P[t] = IF f[t] > 0 THEN f[t] ELSE 0  BY <1>1 DEF Positive
<1>4. i \in Natural /\ h[Laizi] = 0
  <2>1. Laizi \in Tiles  OBVIOUS
  <2>2. Laizi # i  BY <1>2, <1>3, <2>1
  <2> QED BY <1>2, <1>3, <2>1, <2>2
<1>5. f[i] >= 2 /\ i # 40  BY <1>2, <1>3, <1>4
<1>6. ASSUME NEW n \in [Tiles -> Int], Goes(f, n, i, Short(f[i] - 2)), Same(n, f, i, 2)
      PROVE  Ready(n)
  <2>1. /\ n[Laizi] = f[Laizi] - (IF f[i] >= 2 THEN 0 ELSE 2 - f[i])
        /\ \A t \in Natural : n[t] = f[t] - (IF t = i THEN 2 ELSE 0)
    <3>1. PairGone(n, f, i)  BY <1>4, <1>6, PairLeaves
    <3> QED BY <3>1 DEF PairGone
  <2>2. n[Laizi] = 0  BY <1>5, <2>1
  <2>3. n[40] <= 0
    <3>1. 40 \in Natural /\ 40 # i  BY <1>5
    <3> QED BY <2>1, <3>1
  <2>4. ASSUME NEW t \in Natural PROVE h[t] = IF n[t] > 0 THEN n[t] ELSE 0
    <3>1. f[t] \in Int /\ h[t] \in Nat /\ n[t] = f[t] - (IF t = i THEN 2 ELSE 0)  BY <1>2, <2>1
    <3>2. P[t] = h[t] + (IF t = i THEN 2 ELSE 0) /\ P[t] = IF f[t] > 0 THEN f[t] ELSE 0  BY <1>2, <1>3
    <3> QED BY <1>5, <3>1, <3>2
  <2>5. LeavesNone(n, h)  BY <1>4, <2>2, <2>3, <2>4 DEF LeavesNone
  <2> QED BY <2>5, ReadyNone
<1>7. f[i] > 0 /\ f[i] + f[Laizi] >= 2
  <2>1. f[i] \in Int  OBVIOUS
  <2> QED BY <1>5, <2>1
<1> QED BY <1>4, <1>6, <1>7 DEF PairReady

LEMMA PairReadyOne ==
    ASSUME NEW f \in [Tiles -> Int], \A t \in Natural : f[t] >= 0, f[Laizi] = 1,
           f[38] = 0, f[39] = 0, f[40] = 0, NEW w \in Natural,
           NEW i \in Tiles, NEW h \in Counts, Grouped(h), Plus(Positive(f), w, 1) = Plus(h, i, 2)
    PROVE  PairReady(f, i)
<1>1. PICK P \in Counts : P = Positive(f)  BY PositiveIs
<1>2. PICK H \in Counts : H = Plus(P, w, 1)  BY PlusIs
<1>3. \A t \in Tiles : h[t] \in Nat /\ H[t] = h[t] + (IF t = i THEN 2 ELSE 0)
  <2>1. H = Plus(h, i, 2)  BY <1>1, <1>2
  <2> QED BY <2>1 DEF Plus, Counts
<1>4. H[Laizi] = 0 /\ \A t \in Natural : f[t] \in Nat /\ H[t] = f[t] + (IF t = w THEN 1 ELSE 0)
  <2>1. P[Laizi] = 0  BY <1>1 DEF Positive
  <2>2. H[Laizi] = 0
    <3>1. Laizi \in Tiles /\ Laizi # w  OBVIOUS
    <3>2. H[Laizi] = P[Laizi] + 0  BY <1>2, <3>1 DEF Plus
    <3> QED BY <2>1, <3>2
  <2>3. ASSUME NEW t \in Natural PROVE f[t] \in Nat /\ H[t] = f[t] + (IF t = w THEN 1 ELSE 0)
    <3>1. f[t] \in Int /\ f[t] >= 0  OBVIOUS
    <3>2. P[t] = IF f[t] > 0 THEN f[t] ELSE 0  BY <1>1 DEF Positive
    <3>3. H[t] = P[t] + (IF t = w THEN 1 ELSE 0)  BY <1>2 DEF Plus
    <3> QED BY <3>1, <3>2, <3>3
  <2> QED BY <2>2, <2>3
<1>5. i \in Natural /\ h[Laizi] = 0
  <2>1. Laizi \in Tiles  OBVIOUS
  <2>2. Laizi # i  BY <1>3, <1>4, <2>1
  <2> QED BY <1>3, <1>4, <2>1, <2>2
<1>6. f[i] \in Nat /\ (f[i] >= 2 \/ (f[i] = 1 /\ i = w))
  <2>1. H[i] = f[i] + (IF i = w THEN 1 ELSE 0) /\ f[i] \in Nat  BY <1>4, <1>5
  <2>2. H[i] = h[i] + 2 /\ h[i] \in Nat  BY <1>3
  <2> QED BY <2>1, <2>2
<1>7. i # 38 /\ i # 39 /\ i # 40  BY <1>6
<1>8. ASSUME NEW t \in Natural
      PROVE  h[t] \in Nat /\ h[t] = f[t] + (IF t = w THEN 1 ELSE 0) - (IF t = i THEN 2 ELSE 0)
  <2>1. f[t] \in Nat /\ H[t] = f[t] + (IF t = w THEN 1 ELSE 0)  BY <1>4
  <2>2. h[t] \in Nat /\ H[t] = h[t] + (IF t = i THEN 2 ELSE 0)  BY <1>3
  <2> QED BY <2>1, <2>2
<1>9. ASSUME NEW n \in [Tiles -> Int], Goes(f, n, i, Short(f[i] - 2)), Same(n, f, i, 2)
      PROVE  Ready(n)
  <2>1. /\ n[Laizi] = f[Laizi] - (IF f[i] >= 2 THEN 0 ELSE 2 - f[i])
        /\ \A t \in Natural : n[t] = f[t] - (IF t = i THEN 2 ELSE 0)
    <3>1. PairGone(n, f, i)  BY <1>5, <1>9, PairLeaves
    <3> QED BY <3>1 DEF PairGone
  <2>2. n[38] = 0 /\ n[39] = 0 /\ n[40] = 0
    <3>1. ASSUME NEW t \in 38 .. 40 PROVE n[t] = f[t]
      <4>1. t \in Natural /\ f[t] \in Int /\ t # i  BY <1>7
      <4> QED BY <2>1, <4>1
    <3> QED BY <3>1
  <2>3. CASE f[i] >= 2
    <3>1. n[Laizi] = 1  BY <2>1, <2>3
    <3>2. ASSUME NEW t \in Natural PROVE n[t] >= 0 /\ h[t] = n[t] + (IF t = w THEN 1 ELSE 0)
      <4>1. f[t] \in Nat /\ n[t] = f[t] - (IF t = i THEN 2 ELSE 0)  BY <1>4, <2>1
      <4>2. h[t] = f[t] + (IF t = w THEN 1 ELSE 0) - (IF t = i THEN 2 ELSE 0)  BY <1>8
      <4> QED BY <2>3, <4>1, <4>2
    <3>3. LeavesOne(n, h, w)  BY <1>5, <2>2, <3>1, <3>2 DEF LeavesOne
    <3> QED BY <3>3, ReadyOne
  <2>4. CASE f[i] = 1 /\ i = w
    <3>1. n[Laizi] = 0  BY <2>1, <2>4
    <3>2. ASSUME NEW t \in Natural PROVE h[t] = IF n[t] > 0 THEN n[t] ELSE 0
      <4>1. f[t] \in Nat /\ n[t] = f[t] - (IF t = i THEN 2 ELSE 0)  BY <1>4, <2>1
      <4>2. h[t] = f[t] + (IF t = w THEN 1 ELSE 0) - (IF t = i THEN 2 ELSE 0)  BY <1>8
      <4>3. CASE t = i  BY <2>4, <4>1, <4>2, <4>3
      <4>4. CASE t # i  BY <2>4, <4>1, <4>2, <4>4
      <4> QED BY <4>3, <4>4
    <3>3. n[40] <= 0  BY <2>2
    <3>4. LeavesNone(n, h)  BY <1>5, <3>1, <3>2, <3>3 DEF LeavesNone
    <3> QED BY <3>4, ReadyNone
  <2> QED BY <1>6, <2>3, <2>4
<1>10. f[i] > 0 /\ f[i] + f[Laizi] >= 2  BY <1>6
<1> QED BY <1>5, <1>9, <1>10 DEF PairReady

LEMMA PairFindsAll ==
    ASSUME NEW m \in Judges, m.num[Laizi] >= 0, NEW i \in Tiles, PairReady(m.num, i),
           Left(m.num) <= Rounds
    PROVE  Pair(Fail(m), i).ok
<1>1. PICK f \in [Tiles -> Int] : f = m.num  BY JudgeIs
<1>2. i \in Natural /\ f[i] > 0 /\ f[i] + f[Laizi] >= 2 /\ f[Laizi] >= 0  BY <1>1 DEF PairReady
<1>3. PICK a \in Judges, q \in 0 .. 40, wild \in Int : SameTileStep(m, i, 2, Jiang, 0, a, q, wild)
  <2>1. 2 \in 2 .. 3 /\ Jiang \in Nat /\ 0 \in 0 .. i  BY <1>2 DEF Jiang
  <2>2. NoneBefore(f, 0)  BY DEF NoneBefore
  <2> QED BY <1>1, <1>2, <2>1, <2>2, SameTileSteps
<1>4. PICK n \in [Tiles -> Int] : n = a.num  BY JudgeIs
<1>5. wild = Short(f[i] - 2) /\ At(n, q) /\ Goes(f, n, i, wild) /\ Same(n, f, i, 2)
      BY <1>1, <1>3, <1>4 DEF SameTileStep
<1>6. Ready(n)  BY <1>1, <1>5 DEF PairReady
<1>7. Left(n) < Rounds
  <2>1. f[i] \in Int /\ n[i] = f[i] - 2 /\ n[i] < f[i]  BY <1>2, <1>5 DEF Same
  <2>2. ASSUME NEW t \in Natural PROVE n[t] <= f[t]
    <3>1. f[t] \in Int  OBVIOUS
    <3> QED BY <1>5, <2>1, <3>1 DEF Same
  <2>3. Left(n) < Left(f)  BY <1>2, <2>1, <2>2, LessLeft DEF Left
  <2>4. Left(n) \in Nat /\ Left(f) \in Nat /\ Rounds \in Nat  BY PositiveIs, TotalIs DEF Left, Rounds
  <2> QED BY <1>1, <2>3, <2>4
<1>8. Deal(a, q).ok
  <2>1. Rounds \in 0 .. Rounds  BY DEF Rounds
  <2> QED BY <1>4, <1>5, <1>6, <1>7, <2>1, DealsFindAll DEF FindsAll, Deal
<1>9. PICK r : r = Fail(m)  OBVIOUS
<1>10. r.m = m /\ r.ok = FALSE  BY <1>9 DEF Fail
<1>11. ~ (r.ok \/ i = Laizi \/ m.num[i] <= 0 \/ m.num[i] + m.num[Laizi] < 2)
  <2>1. i # Laizi /\ f[i] \in Int /\ f[Laizi] \in Int  BY <1>2
  <2> QED BY <1>1, <1>2, <1>10, <2>1
<1>12. Pair(r, i) = Back(Deal(a, q), Of(2, {i}), wild)  BY <1>3, <1>10, <1>11 DEF Pair, SameTileStep
<1> QED BY <1>8, <1>9, <1>12 DEF Back

LEMMA hu233FindsAll ==
    ASSUME NEW m \in Judges, m.num[Laizi] \in 0 .. 1, NEW i \in Tiles, PairReady(m.num, i),
           Left(m.num) <= Rounds
    PROVE  hu233(m).ok
<1>1. PICK g : Tried(m, 41, g) /\ hu233(m) = g[41]  BY hu233Tries
<1>2. PICK T : T = {k \in 0 .. 41 : GivenBack(m, g[k]) /\ (k > i => g[k].ok)}  OBVIOUS
<1>3. PICK f \in [Tiles -> Int] : f = m.num  BY JudgeIs
<1>4. 0 \in T
  <2>1. g[0] = Fail(m)  BY <1>1 DEF Tried
  <2>2. ~ (0 > i)  OBVIOUS
  <2>3. GivenBack(m, Fail(m))  BY AsIs
  <2> QED BY <1>2, <2>1, <2>2, <2>3
<1>5. ASSUME NEW k \in 0 .. 40, k \in T PROVE k + 1 \in T
  <2>1. PICK r : r = g[k]  OBVIOUS
  <2>2. GivenBack(m, r) /\ (k > i => r.ok)  BY <1>2, <1>5, <2>1
  <2>3. g[k + 1] = Pair(r, k) /\ k + 1 \in 0 .. 41
    <3>1. k + 1 \in 0 .. 41 /\ k + 1 # 0 /\ (k + 1) - 1 = k  OBVIOUS
    <3> QED BY <1>1, <2>1, <3>1 DEF Tried
  <2>4. CASE r.ok  BY <1>2, <2>2, <2>3, <2>4 DEF Pair
  <2>5. CASE ~ r.ok
    <3>1. PICK c \in Judges : c = r.m  BY <2>2 DEF GivenBack
    <3>2. r = Fail(c)  BY <2>2, <2>5, <3>1 DEF GivenBack, Fail
    <3>3. PICK h \in [Tiles -> Int] : h = c.num  BY JudgeIs
    <3>4. h = f
      <4>1. f[Laizi] <= 1 /\ f[Laizi] <= 2  BY <1>3
      <4>2. Shallow(f)  BY <4>1 DEF Shallow
      <4>3. h[Laizi] = f[Laizi] /\ \A t \in Natural : h[t] = f[t]
            BY <1>3, <2>2, <3>1, <3>3, <4>2 DEF GivenBack
      <4>4. \A t \in Tiles : t = Laizi \/ t \in Natural  OBVIOUS
      <4>5. \A t \in Tiles : h[t] = f[t]  BY <4>3, <4>4
      <4> QED BY <4>5
    <3>5. c.num = m.num /\ c.num[Laizi] >= 0  BY <1>3, <3>3, <3>4
    <3>6. GivenBack(c, Pair(r, k))  BY <3>2, <3>5, PairGivesBack
    <3>7. GivenBack(m, Pair(r, k))  BY <2>2, <2>5, <3>1, <3>6, ThenBack
    <3>8. ASSUME k + 1 > i PROVE Pair(r, k).ok
      <4>1. k = i  BY <2>2, <2>5, <3>8
      <4>2. Pair(Fail(c), i).ok
        <5>1. PairReady(c.num, i) /\ Left(c.num) <= Rounds  BY <3>5
        <5> QED BY <3>5, <5>1, PairFindsAll
      <4> QED BY <3>2, <4>1, <4>2
    <3> QED BY <1>2, <2>3, <3>7, <3>8
  <2> QED BY <2>4, <2>5
<1>6. 41 \in T  BY <1>4, <1>5, UpTo
<1> QED BY <1>1, <1>2, <1>6

-----------------------------------------------------------------------------
LEMMA PairIs ==
    ASSUME NEW H \in Counts, NEW i \in Tiles, WinsWithPair(H, i)
    PROVE  \E h \in Counts : H = Plus(h, i, 2) /\ Grouped(h)
<1>1. PICK h : h = [H EXCEPT ![i] = @ - 2]  OBVIOUS
<1>2. H[i] >= 2 /\ InGroups(h)  BY <1>1 DEF WinsWithPair
<1>3. h \in Counts /\ \A t \in Tiles : h[t] = IF t = i THEN H[i] - 2 ELSE H[t]
  <2>1. H[i] \in Nat /\ H[i] - 2 \in Nat  BY <1>2 DEF Counts
  <2> QED BY <1>1, <2>1 DEF Counts
<1>4. PICK e \in Counts : e = Plus(h, i, 2)  BY <1>3, PlusIs
<1>5. ASSUME NEW t \in Tiles PROVE e[t] = H[t]
  <2>1. e[t] = h[t] + (IF t = i THEN 2 ELSE 0)  BY <1>4 DEF Plus
  <2>2. H[t] \in Nat  BY DEF Counts
  <2> QED BY <1>3, <2>1, <2>2
<1>6. e = H  BY <1>5 DEF Counts
<1> QED BY <1>2, <1>3, <1>4, <1>6, GroupsAreGrouped

LEMMA MadeNone ==
    ASSUME NEW n \in Counts, NEW S \in SUBSET Tiles, NEW made \in Makings(0, S)
    PROVE  Made(n, made) = n
<1>1. PICK H \in Counts : H = Made(n, made) /\ MadeAt(H, n, made)
  <2>1. 0 \in Nat  OBVIOUS
  <2> QED BY <2>1, MadeIs
<1>2. ASSUME NEW t \in Tiles PROVE H[t] = n[t]
  <2>1. {i \in DOMAIN made : made[i] = t} = {}  BY DEF Makings
  <2>2. HowMany(made, t) = 0  BY <2>1, FS_EmptySet DEF HowMany
  <2>3. H[t] = n[t] + HowMany(made, t) /\ n[t] \in Nat  BY <1>1 DEF MadeAt, Counts
  <2> QED BY <2>2, <2>3
<1>3. H = n  BY <1>2 DEF Counts
<1> QED BY <1>1, <1>3

LEMMA MadeOne ==
    ASSUME NEW n \in Counts, NEW S \in SUBSET Tiles, NEW made \in Makings(1, S)
    PROVE  made[1] \in S /\ Made(n, made) = Plus(n, made[1], 1)
<1>1. PICK H \in Counts : H = Made(n, made) /\ MadeAt(H, n, made)
  <2>1. 1 \in Nat  OBVIOUS
  <2> QED BY <2>1, MadeIs
<1>2. DOMAIN made = {1} /\ made[1] \in S
  <2>1. 1 .. 1 = {1}  OBVIOUS
  <2> QED BY <2>1 DEF Makings
<1>3. PICK e \in Counts : e = Plus(n, made[1], 1)  BY PlusIs
<1>4. ASSUME NEW t \in Tiles PROVE H[t] = e[t]
  <2>1. HowMany(made, t) = IF t = made[1] THEN 1 ELSE 0
    <3>1. CASE t = made[1]
      <4>1. {i \in DOMAIN made : made[i] = t} = {1}  BY <1>2, <3>1
      <4>2. HowMany(made, t) = 1  BY <4>1, FS_Singleton DEF HowMany
      <4> QED BY <3>1, <4>2
    <3>2. CASE t # made[1]
      <4>1. {i \in DOMAIN made : made[i] = t} = {}  BY <1>2, <3>2
      <4>2. HowMany(made, t) = 0  BY <4>1, FS_EmptySet DEF HowMany
      <4> QED BY <3>2, <4>2
    <3> QED BY <3>1, <3>2
  <2>2. H[t] = n[t] + HowMany(made, t)  BY <1>1 DEF MadeAt
  <2>3. e[t] = n[t] + (IF t = made[1] THEN 1 ELSE 0)  BY <1>3 DEF Plus
  <2> QED BY <2>1, <2>2, <2>3
<1>5. H = e  BY <1>4 DEF Counts
<1> QED BY <1>1, <1>2, <1>3, <1>5

(* hulz.go finds every win without wild tiles, and with one unless a tile of the end of the *)
(* last suit is in hand: while a win is left, the lowest tile leads to one that is smaller. *)
LEMMA JudgeFindsAll ==
    ASSUME HandInv, IsWin(Plain, hand[Laizi]),
           hand[Laizi] = 0 \/ (hand[Laizi] = 1 /\ Held(Full) \cap {38, 39} = {})
    PROVE  hu233(Judge).ok
<1>1. PICK j \in Judges, f \in Counts :
        j = Judge /\ f = Full /\ j.num = f /\ f[Laizi] = hand[Laizi]
      BY FullIs DEF Counts
<1>2. PICK n \in Counts : n = Plain /\ n = Positive(f)  BY <1>1, PlainIs
<1>3. f \in [Tiles -> Int] /\ \A t \in Tiles : f[t] \in Nat  BY DEF Counts
<1>4. f[40] = 0
  <2>1. Full[40] > 0 => 40 \in Deck  BY FullIs
  <2>2. 40 \notin Deck  BY HandsAssumption, PlayedIs
  <2>3. f[40] \in Nat  BY DEF Counts
  <2> QED BY <1>1, <2>1, <2>2, <2>3
<1>5. Left(f) <= Rounds
  <2>1. ASSUME NEW t \in Tiles PROVE n[t] <= 4
    <3>1. n[t] = IF t # Laizi /\ f[t] > 0 THEN f[t] ELSE 0  BY <1>2 DEF Positive
    <3>2. CASE t = Laizi  BY <3>1, <3>2
    <3>3. CASE t # Laizi
      <4>1. t \in Natural  BY <3>3
      <4>2. f[t] <= 4  BY <1>1, <4>1, FullIs
      <4>3. f[t] \in Nat  BY <1>3
      <4> QED BY <3>1, <4>2, <4>3
    <3> QED BY <3>2, <3>3
  <2> QED BY <1>2, <2>1, TotalBound DEF Left
<1>6. PICK S \in SUBSET Tiles : S = Near(n) /\ S \subseteq Natural
  <2>1. Near(n) \in SUBSET Tiles /\ Near(n) \subseteq Natural  BY PlayedIs DEF Near
  <2> QED BY <2>1
<1>7. PICK made \in Makings(hand[Laizi], S), i \in Tiles : WinsWithPair(Made(n, made), i)
      BY <1>2, <1>6 DEF IsWin, Makings
<1>8. PairReady(f, i)
  <2>1. CASE hand[Laizi] = 0
    <3>1. Made(n, made) = n  BY <2>1, MadeNone
    <3>2. PICK h \in Counts : n = Plus(h, i, 2) /\ Grouped(h)  BY <1>7, <3>1, PairIs
    <3>3. \A t \in Natural : f[t] >= 0
      <4>1. \A t \in Natural : t \in Tiles  OBVIOUS
      <4> QED BY <1>3, <4>1
    <3>4. f[Laizi] = 0 /\ Positive(f) = Plus(h, i, 2)  BY <1>1, <1>2, <1>7, <2>1, <3>2
    <3> QED BY <1>3, <1>4, <3>2, <3>3, <3>4, PairReadyNone
  <2>2. CASE hand[Laizi] = 1 /\ Held(Full) \cap {38, 39} = {}
    <3>1. PICK v \in Natural : Made(n, made) = Plus(n, v, 1)  BY <1>6, <2>2, MadeOne
    <3>2. PICK H \in Counts : H = Plus(n, v, 1)  BY PlusIs
    <3>3. PICK h \in Counts : H = Plus(h, i, 2) /\ Grouped(h)  BY <1>7, <3>1, <3>2, PairIs
    <3>4. \A t \in Natural : f[t] >= 0
      <4>1. \A t \in Natural : t \in Tiles  OBVIOUS
      <4> QED BY <1>3, <4>1
    <3>5. f[38] = 0 /\ f[39] = 0
      <4>1. ~ (f[38] > 0) /\ ~ (f[39] > 0)  BY <1>1, <2>2 DEF Held
      <4>2. f[38] \in Nat /\ f[39] \in Nat  BY <1>3
      <4> QED BY <4>1, <4>2
    <3>6. f[Laizi] = 1 /\ Plus(Positive(f), v, 1) = Plus(h, i, 2)  BY <1>1, <1>2, <1>7, <2>2, <3>2, <3>3
    <3> QED BY <1>3, <1>4, <3>3, <3>4, <3>5, <3>6, PairReadyOne
  <2> QED BY <2>1, <2>2
<1>9. f[Laizi] \in 0 .. 1  BY <1>1
<1> QED BY <1>1, <1>5, <1>8, <1>9, hu233FindsAll

-----------------------------------------------------------------------------
(* hu.go: the recursive function is what its definition says. *)
mjSearch(deeper, val, num, i) == mj!deal_kezi(deeper, val, num, i) \/ mj!deal_shunzi(deeper, val, num, i)

mjRound(deeper, k) ==
    [val \in Seq(Nat) |-> [num \in Seq(Int) |-> [i \in Nat |-> k > 0 /\ mjSearch(deeper, val, num, i)]]]

mjTo(n, g) == g = [k \in 0 .. n |-> mjRound(g[k - 1], k)]

LEMMA mjNone ==
    ASSUME NEW d, NEW e
    PROVE  mjRound(d, 0) = mjRound(e, 0)
<1>1. ASSUME NEW val, NEW num, NEW i
      PROVE  (0 > 0 /\ mjSearch(d, val, num, i)) = (0 > 0 /\ mjSearch(e, val, num, i))
      OBVIOUS
<1> QED BY <1>1 DEF mjRound

LEMMA mjExist == \E g : mjTo(Rounds, g)
<1>1. Rounds \in Nat  BY DEF Rounds
<1>2. PICK T : T = {k \in 0 .. Rounds : \E g : mjTo(k, g)}  OBVIOUS
<1>3. 0 \in T
  <2>1. PICK none : none = [k \in {} |-> 0]  OBVIOUS
  <2>2. PICK g : g = [k \in 0 .. 0 |-> mjRound(none, k)]  OBVIOUS
  <2>3. mjRound(g[0 - 1], 0) = mjRound(none, 0)  BY mjNone
  <2>4. mjTo(0, g)  BY <2>2, <2>3 DEF mjTo
  <2> QED BY <1>1, <1>2, <2>4
<1>4. ASSUME NEW k \in 0 .. Rounds - 1, k \in T PROVE k + 1 \in T
  <2>1. PICK g : mjTo(k, g)  BY <1>2, <1>4
  <2>2. PICK h : h = [i \in 0 .. k + 1 |-> IF i = k + 1 THEN mjRound(g[k], k + 1) ELSE g[i]]  OBVIOUS
  <2>3. h[k + 1] = mjRound(g[k], k + 1) /\ \A i \in 0 .. k : h[i] = g[i]  BY <2>2
  <2>4. ASSUME NEW i \in 0 .. k + 1
        PROVE  h[i] = mjRound(h[i - 1], i)
    <3>1. CASE i = k + 1
      <4>1. h[i - 1] = g[k]  BY <2>3, <3>1
      <4> QED BY <2>3, <3>1, <4>1
    <3>2. CASE i # k + 1
      <4>1. i \in 0 .. k /\ h[i] = g[i]  BY <2>3, <3>2
      <4>2. g[i] = mjRound(g[i - 1], i)  BY <2>1, <4>1 DEF mjTo
      <4>3. CASE i = 0  BY <4>1, <4>2, <4>3, mjNone
      <4>4. CASE i # 0
        <5>1. i - 1 \in 0 .. k  BY <4>1, <4>4
        <5>2. h[i - 1] = g[i - 1]  BY <2>3, <5>1
        <5> QED BY <4>1, <4>2, <5>2
      <4> QED BY <4>3, <4>4
    <3> QED BY <3>1, <3>2
  <2>5. h = [i \in 0 .. k + 1 |-> mjRound(h[i - 1], i)]
    <3>1. h = [i \in 0 .. k + 1 |-> h[i]]  BY <2>2
    <3> QED BY <2>4, <3>1
  <2> QED BY <1>1, <1>2, <2>5 DEF mjTo
<1>5. Rounds \in T  BY <1>1, <1>3, <1>4, UpTo
<1> QED BY <1>2, <1>5

LEMMA mjAre == mjTo(Rounds, mj!Deals)
<1>1. PICK h : h = CHOOSE g : mjTo(Rounds, g)  OBVIOUS
<1>2. mjTo(Rounds, h)  BY <1>1, mjExist
<1>3. mj!Deals = h  BY <1>1 DEF mj!Deals, mj!Rounds, mj!Chun, Rounds, mjTo, mjRound, mjSearch
<1> QED BY <1>2, <1>3

LEMMA mjUnfold ==
    ASSUME NEW k \in 0 .. Rounds, NEW val \in Seq(Nat), NEW num \in Seq(Int), NEW i \in Nat
    PROVE  mj!Deals[k][val][num][i] = (k > 0 /\ mjSearch(mj!Deals[k - 1], val, num, i))
<1>1. mj!Deals[k] = mjRound(mj!Deals[k - 1], k)  BY mjAre DEF mjTo
<1> QED BY <1>1 DEF mjRound

-----------------------------------------------------------------------------
(* Its counts n by place: val has the tiles in order, num how many there are of each. *)
Ordered(val, L) ==
    /\ val \in Seq(Nat) /\ Len(val) = L /\ \A j \in 1 .. L : val[j] \in Tiles
    /\ \A j \in 1 .. L : \A i \in 1 .. L : j < i => val[j] < val[i]
Counted(num, L) == num \in Seq(Int) /\ Len(num) = L /\ \A j \in 1 .. L : num[j] \in Nat
Placed(n, val, num, L) ==
    /\ \A j \in 1 .. L : n[val[j]] = num[j]
    /\ \A t \in Tiles : n[t] > 0 => \E j \in 1 .. L : val[j] = t

NoneTo(num, i, L) == \A j \in 1 .. L : j < i => num[j] = 0
FirstLeft(num, i, L) == i \in 1 .. L + 1 /\ NoneTo(num, i, L) /\ (i <= L => num[i] > 0)

LEMMA mjNextIs ==
    ASSUME NEW L \in Nat, NEW num, Counted(num, L), NEW i \in 1 .. L + 1, NoneTo(num, i, L)
    PROVE  FirstLeft(num, mj!next(num, i), L)
<1>1. Len(num) = L /\ \A j \in 1 .. L : num[j] \in Nat  BY DEF Counted
<1>2. PICK S \in SUBSET Nat : S = {j \in i .. L + 1 : j > L \/ num[j] # 0}
  <2>1. {j \in i .. L + 1 : j > L \/ num[j] # 0} \in SUBSET Nat  OBVIOUS
  <2> QED BY <2>1
<1>3. L + 1 \in S  BY <1>2
<1>4. PICK x \in S : \A y \in S : x <= y  BY <1>3, LeastNumber
<1>5. x = mj!Min(S)
  <2>1. mj!Min(S) = CHOOSE y \in S : \A z \in S : y <= z  BY DEF mj!Min
  <2>2. mj!Min(S) \in S /\ \A z \in S : mj!Min(S) <= z  BY <1>4, <2>1
  <2>3. PICK z \in Nat : z = mj!Min(S)  BY <2>2
  <2>4. x <= z /\ z <= x  BY <1>4, <2>2, <2>3
  <2> QED BY <2>3, <2>4
<1>6. mj!next(num, i) = x  BY <1>1, <1>2, <1>5 DEF mj!next
<1>7. x \in i .. L + 1 /\ (x > L \/ num[x] # 0)  BY <1>2
<1>8. ASSUME NEW j \in 1 .. L, j < x PROVE num[j] = 0
  <2>1. CASE j < i  BY <1>8, <2>1 DEF NoneTo
  <2>2. CASE j >= i
    <3>1. j \notin S  BY <1>4, <1>7, <1>8
    <3> QED BY <1>2, <1>7, <1>8, <2>2, <3>1
  <2> QED BY <2>1, <2>2
<1>9. x <= L => num[x] > 0
  <2> SUFFICES ASSUME x <= L PROVE num[x] > 0  OBVIOUS
  <2>1. x \in 1 .. L /\ num[x] # 0  BY <1>7
  <2>2. num[x] \in Nat  BY <1>1, <2>1
  <2> QED BY <2>1, <2>2
<1> QED BY <1>6, <1>7, <1>8, <1>9 DEF FirstLeft, NoneTo

LessAt(m, num, i, c, L) == m[i] = num[i] - c /\ \A j \in 1 .. L : j # i => m[j] = num[j]

LEMMA mjLessIs ==
    ASSUME NEW L \in Nat, NEW num, Counted(num, L), NEW i \in 1 .. L, NEW c \in Nat, num[i] >= c,
           NEW m, m = mj!Less(num, i, c)
    PROVE  Counted(m, L) /\ LessAt(m, num, i, c, L)
<1>1. num \in Seq(Int) /\ Len(num) = L /\ \A j \in 1 .. L : num[j] \in Nat  BY DEF Counted
<1>2. num[i] \in Nat /\ num[i] - c \in Int /\ num[i] - c \in Nat  BY <1>1
<1>3. m = [num EXCEPT ![i] = num[i] - c]  BY DEF mj!Less
<1>4. /\ m \in Seq(Int) /\ Len(m) = L
      /\ \A j \in 1 .. L : m[j] = IF j = i THEN num[i] - c ELSE num[j]
  <2>1. PICK e \in Int : e = num[i] - c  BY <1>2
  <2>2. /\ [num EXCEPT ![i] = e] \in Seq(Int) /\ Len([num EXCEPT ![i] = e]) = Len(num)
        /\ \A j \in 1 .. Len(num) : [num EXCEPT ![i] = e][j] = IF j = i THEN e ELSE num[j]
    <3>1. i \in 1 .. Len(num)  BY <1>1
    <3> QED BY <1>1, <3>1, ExceptSeq
  <2> QED BY <1>1, <1>3, <2>1, <2>2
<1>5. \A j \in 1 .. L : m[j] \in Nat  BY <1>1, <1>2, <1>4
<1> QED BY <1>4, <1>5 DEF Counted, LessAt

LEMMA PlacedLess ==
    ASSUME NEW L \in Nat, NEW val, Ordered(val, L), NEW num, Counted(num, L),
           NEW n \in Counts, Placed(n, val, num, L), NEW i \in 1 .. L, NEW c \in Nat, num[i] >= c,
           NEW m, LessAt(m, num, i, c, L)
    PROVE  \E e \in Counts : n = Plus(e, val[i], c) /\ Placed(e, val, m, L)
<1>1. PICK p \in Tiles : p = val[i]  BY DEF Ordered
<1>2. n[p] = num[i] /\ num[i] \in Nat  BY <1>1 DEF Placed, Counted
<1>3. PICK e : e = [t \in Tiles |-> n[t] - (IF t = p THEN c ELSE 0)]  OBVIOUS
<1>4. \A t \in Tiles : n[t] \in Nat /\ e[t] = n[t] - (IF t = p THEN c ELSE 0)  BY <1>3 DEF Counts
<1>5. e \in Counts
  <2>1. ASSUME NEW t \in Tiles PROVE e[t] \in Nat  BY <1>2, <1>4
  <2> QED BY <1>3, <2>1 DEF Counts
<1>6. n = Plus(e, p, c)
  <2>1. PICK h \in Counts : h = Plus(e, p, c)  BY <1>5, PlusIs
  <2>2. ASSUME NEW t \in Tiles PROVE h[t] = n[t]
    <3>1. h[t] = e[t] + (IF t = p THEN c ELSE 0)  BY <2>1 DEF Plus
    <3> QED BY <1>4, <3>1
  <2>3. h = n  BY <2>2 DEF Counts
  <2> QED BY <2>1, <2>3
<1>7. ASSUME NEW j \in 1 .. L PROVE e[val[j]] = m[j]
  <2>1. PICK t \in Tiles : t = val[j]  BY DEF Ordered
  <2>2. n[t] = num[j]  BY <2>1 DEF Placed
  <2>3. CASE j = i  BY <1>1, <1>2, <1>4, <2>1, <2>2, <2>3 DEF LessAt
  <2>4. CASE j # i
    <3>1. t # p
      <4>1. j < i \/ i < j  BY <2>4
      <4>2. t < p \/ p < t  BY <1>1, <2>1, <4>1 DEF Ordered
      <4> QED BY <4>2
    <3>2. m[j] = num[j]  BY <2>4 DEF LessAt
    <3>3. e[t] = n[t]  BY <1>4, <3>1
    <3> QED BY <2>1, <2>2, <3>2, <3>3
  <2> QED BY <2>3, <2>4
<1>8. ASSUME NEW t \in Tiles, e[t] > 0 PROVE \E j \in 1 .. L : val[j] = t
  <2>1. n[t] > 0  BY <1>4, <1>8
  <2> QED BY <2>1 DEF Placed
<1> QED BY <1>1, <1>5, <1>6, <1>7, <1>8 DEF Placed

LEMMA PlusSame ==
    ASSUME NEW e \in Counts, NEW g \in Counts, NEW p, NEW c \in Nat, Plus(e, p, c) = Plus(g, p, c)
    PROVE  e = g
<1>1. ASSUME NEW t \in Tiles PROVE e[t] = g[t]
  <2>1. e[t] \in Nat /\ g[t] \in Nat  BY DEF Counts
  <2>2. PICK h \in Counts : h = Plus(e, p, c) /\ h = Plus(g, p, c)  BY PlusIs
  <2>3. h[t] = e[t] + (IF t = p THEN c ELSE 0) /\ h[t] = g[t] + (IF t = p THEN c ELSE 0)
    <3>1. h[t] = e[t] + (IF t = p THEN c ELSE 0)
      <4>1. h = Plus(e, p, c)  BY <2>2
      <4> QED BY <4>1 DEF Plus
    <3>2. h[t] = g[t] + (IF t = p THEN c ELSE 0)
      <4>1. h = Plus(g, p, c)  BY <2>2
      <4> QED BY <4>1 DEF Plus
    <3> QED BY <3>1, <3>2
  <2> QED BY <2>1, <2>3
<1> QED BY <1>1 DEF Counts

(* What a search k groups deep comes to. *)
mjFinds(deeper, k, val, L) ==
    \A num \in Seq(Int) : \A i \in 1 .. L + 1 : \A n \in Counts :
        Counted(num, L) /\ FirstLeft(num, i, L) /\ Placed(n, val, num, L) /\ Total(n) < k
            => (deeper[val][num][i] <=> Grouped(n))

LEMMA mjTriple ==
    ASSUME NEW L \in Nat, NEW val, Ordered(val, L), NEW k \in Nat, NEW deeper, mjFinds(deeper, k, val, L),
           NEW num, Counted(num, L), NEW i \in 1 .. L, NoneTo(num, i, L),
           NEW n \in Counts, Placed(n, val, num, L), Total(n) <= k
    PROVE  mj!deal_kezi(deeper, val, num, i) <=> \E e : IsTripleAnd(n, val[i], e)
<1>1. PICK p \in Tiles : p = val[i]  BY DEF Ordered
<1>2. num \in Seq(Int) /\ Len(num) = L /\ num[i] \in Nat /\ n[p] = num[i]  BY <1>1 DEF Counted, Placed
<1>3. CASE num[i] >= 3
  <2>1. PICK m : m = mj!Less(num, i, 3)  OBVIOUS
  <2>2. Counted(m, L) /\ LessAt(m, num, i, 3, L)  BY <1>3, <2>1, mjLessIs
  <2>3. PICK e \in Counts : n = Plus(e, p, 3) /\ Placed(e, val, m, L)
        BY <1>1, <1>3, <2>2, PlacedLess
  <2>4. PICK q : q = mj!next(m, i)  OBVIOUS
  <2>5. FirstLeft(m, q, L)
    <3>1. NoneTo(m, i, L)
      <4> SUFFICES ASSUME NEW j \in 1 .. L, j < i PROVE m[j] = 0  BY DEF NoneTo
      <4>1. j # i  OBVIOUS
      <4> QED BY <2>2, <4>1 DEF NoneTo, LessAt
    <3>2. i \in 1 .. L + 1  OBVIOUS
    <3> QED BY <2>2, <2>4, <3>1, <3>2, mjNextIs
  <2>6. Total(e) < k
    <3>1. Total(e) \in Nat /\ Total(n) = Total(e) + 3  BY <2>3, TotalIs, TotalPlus
    <3> QED BY <3>1
  <2>7. deeper[val][m][q] <=> Grouped(e)
    <3>1. m \in Seq(Int) /\ q \in 1 .. L + 1  BY <2>2, <2>5 DEF Counted, FirstLeft
    <3> QED BY <2>2, <2>3, <2>5, <2>6, <3>1 DEF mjFinds
  <2>8. mj!deal_kezi(deeper, val, num, i) <=> deeper[val][m][q]
    <3>1. ~ (i > Len(num))  BY <1>2
    <3> QED BY <1>3, <2>1, <2>4, <3>1 DEF mj!deal_kezi
  <2>9. (\E g : IsTripleAnd(n, p, g)) <=> Grouped(e)
    <3>1. ASSUME NEW g, IsTripleAnd(n, p, g) PROVE Grouped(e)
      <4>1. g \in Counts /\ Grouped(g) /\ n = Plus(g, p, 3)  BY <3>1 DEF IsTripleAnd
      <4>2. 3 \in Nat /\ Plus(g, p, 3) = Plus(e, p, 3)  BY <2>3, <4>1
      <4>3. g = e  BY <4>1, <4>2, PlusSame
      <4> QED BY <4>1, <4>3
    <3>2. ASSUME Grouped(e) PROVE IsTripleAnd(n, p, e)  BY <2>3, <3>2 DEF IsTripleAnd
    <3> QED BY <3>1, <3>2
  <2> QED BY <1>1, <2>7, <2>8, <2>9
<1>4. CASE ~ (num[i] >= 3)
  <2>1. ~ mj!deal_kezi(deeper, val, num, i)
    <3>1. ~ (i > Len(num))  BY <1>2
    <3> QED BY <1>4, <3>1 DEF mj!deal_kezi
  <2>2. ASSUME NEW e, IsTripleAnd(n, p, e) PROVE FALSE
    <3>1. e \in Counts /\ n = Plus(e, p, 3)  BY <2>2 DEF IsTripleAnd
    <3>2. e[p] \in Nat /\ n[p] = e[p] + 3  BY <3>1 DEF Plus, Counts
    <3> QED BY <1>2, <1>4, <3>2
  <2> QED BY <1>1, <2>1, <2>2
<1> QED BY <1>3, <1>4

-----------------------------------------------------------------------------
(* The run that deal_shunzi takes, in places that follow each other. *)
mjRunAt(val, num, i, L) ==
    /\ i + 2 <= L /\ val[i] >= 11
    /\ num[i] >= 1 /\ num[i + 1] >= 1 /\ num[i + 2] >= 1
    /\ val[i + 1] = val[i] + 1 /\ val[i + 2] = val[i] + 2

LEMMA mjRunLess ==
    ASSUME NEW L \in Nat, NEW val, Ordered(val, L), NEW num, Counted(num, L), NEW i \in 1 .. L,
           NoneTo(num, i, L), mjRunAt(val, num, i, L), NEW n \in Counts, Placed(n, val, num, L),
           NEW m, m = mj!Less(mj!Less(mj!Less(num, i, 1), i + 1, 1), i + 2, 1)
    PROVE  /\ Counted(m, L) /\ NoneTo(m, i, L) /\ val[i] \in 11 .. 38
           /\ \E e \in Counts : n = PlusRun(e, val[i]) /\ Placed(e, val, m, L)
<1>1. PICK x \in 1 .. L : x = i + 1  BY DEF mjRunAt
<1>2. PICK y \in 1 .. L : y = i + 2  BY DEF mjRunAt
<1>3. num[i] >= 1 /\ num[x] >= 1 /\ num[y] >= 1 /\ i # x /\ i # y /\ x # y
      BY <1>1, <1>2 DEF mjRunAt
<1>4. PICK p \in Tiles : p = val[i]  BY DEF Ordered
<1>5. val[x] = p + 1 /\ val[y] = p + 2 /\ p \in 11 .. 38
  <2>1. val[y] \in Tiles  BY DEF Ordered
  <2>2. val[x] = p + 1 /\ val[y] = p + 2 /\ p >= 11  BY <1>1, <1>2, <1>4 DEF mjRunAt
  <2> QED BY <2>1, <2>2
<1>6. PICK a : a = mj!Less(num, i, 1)  OBVIOUS
<1>7. PICK b : b = mj!Less(a, x, 1)  OBVIOUS
<1>8. m = mj!Less(b, y, 1)  BY <1>1, <1>2, <1>6, <1>7
<1>9. Counted(a, L) /\ LessAt(a, num, i, 1, L)  BY <1>3, <1>6, mjLessIs
<1>10. a[x] >= 1 /\ a[y] >= 1  BY <1>3, <1>9 DEF LessAt
<1>11. Counted(b, L) /\ LessAt(b, a, x, 1, L)  BY <1>7, <1>9, <1>10, mjLessIs
<1>12. b[y] >= 1  BY <1>3, <1>10, <1>11 DEF LessAt
<1>13. Counted(m, L) /\ LessAt(m, b, y, 1, L)  BY <1>8, <1>11, <1>12, mjLessIs
<1>14. NoneTo(m, i, L)
  <2> SUFFICES ASSUME NEW j \in 1 .. L, j < i PROVE m[j] = 0  BY DEF NoneTo
  <2>1. j # i /\ j # x /\ j # y  BY <1>1, <1>2
  <2>2. num[j] = 0  BY DEF NoneTo
  <2> QED BY <1>9, <1>11, <1>13, <2>1, <2>2 DEF LessAt
<1>15. PICK d \in Counts : n = Plus(d, p, 1) /\ Placed(d, val, a, L)
       BY <1>3, <1>4, <1>9, PlacedLess
<1>16. PICK f \in Counts : d = Plus(f, p + 1, 1) /\ Placed(f, val, b, L)
       BY <1>5, <1>9, <1>10, <1>11, <1>15, PlacedLess
<1>17. PICK e \in Counts : f = Plus(e, p + 2, 1) /\ Placed(e, val, m, L)
       BY <1>5, <1>11, <1>12, <1>13, <1>16, PlacedLess
<1>18. n = PlusRun(e, p)
  <2>1. PICK h \in Counts : h = PlusRun(e, p)  BY PlusRunIs
  <2>2. ASSUME NEW t \in Tiles PROVE h[t] = n[t]
    <3>1. h[t] = e[t] + (IF t \in p .. p + 2 THEN 1 ELSE 0) /\ e[t] \in Nat  BY <2>1 DEF PlusRun, Counts
    <3>2. f[t] = e[t] + (IF t = p + 2 THEN 1 ELSE 0)  BY <1>17 DEF Plus
    <3>3. d[t] = f[t] + (IF t = p + 1 THEN 1 ELSE 0)  BY <1>16 DEF Plus
    <3>4. n[t] = d[t] + (IF t = p THEN 1 ELSE 0)  BY <1>15 DEF Plus
    <3> QED BY <3>1, <3>2, <3>3, <3>4
  <2>3. h = n  BY <2>2 DEF Counts
  <2> QED BY <2>1, <2>3
<1> QED BY <1>4, <1>5, <1>13, <1>14, <1>17, <1>18

LEMMA mjRunIs ==
    ASSUME NEW L \in Nat, NEW val, Ordered(val, L), NEW num, Counted(num, L), NEW i \in 1 .. L,
           NEW n \in Counts, Placed(n, val, num, L), NEW e, IsRunAnd(n, val[i], e)
    PROVE  mjRunAt(val, num, i, L)
<1>1. PICK p \in Tiles : p = val[i]  BY DEF Ordered
<1>2. p \in 11 .. 38 /\ e \in Counts /\ n = PlusRun(e, p)  BY <1>1 DEF IsRunAnd
<1>3. ASSUME NEW t \in Tiles, t \in p .. p + 2
      PROVE  n[t] >= 1
  <2>1. n[t] = e[t] + 1 /\ e[t] \in Nat  BY <1>2, <1>3 DEF PlusRun, Counts
  <2> QED BY <2>1
<1>4. n[p] >= 1 /\ n[p + 1] >= 1 /\ n[p + 2] >= 1 /\ p + 1 \in Tiles /\ p + 2 \in Tiles  BY <1>2, <1>3
<1>5. PICK x \in 1 .. L : val[x] = p + 1
  <2>1. PICK t \in Tiles : t = p + 1  BY <1>4
  <2>2. n[t] \in Nat /\ n[t] >= 1  BY <1>4, <2>1 DEF Counts
  <2>3. \E k \in 1 .. L : val[k] = t  BY <2>2 DEF Placed
  <2> QED BY <2>1, <2>3
<1>6. PICK y \in 1 .. L : val[y] = p + 2
  <2>1. PICK t \in Tiles : t = p + 2  BY <1>4
  <2>2. n[t] \in Nat /\ n[t] >= 1  BY <1>4, <2>1 DEF Counts
  <2>3. \E k \in 1 .. L : val[k] = t  BY <2>2 DEF Placed
  <2> QED BY <2>1, <2>3
<1>7. ASSUME NEW j \in 1 .. L, NEW l \in 1 .. L, val[j] < val[l]
      PROVE  j < l
  <2>1. val[j] \in Tiles /\ val[l] \in Tiles  BY DEF Ordered
  <2>2. ~ (l < j)
    <3>1. ~ (val[l] < val[j])  BY <1>7, <2>1
    <3> QED BY <3>1 DEF Ordered
  <2>3. j # l  BY <1>7, <2>1
  <2> QED BY <2>2, <2>3
<1>8. i < x /\ x < y
  <2>1. val[i] < val[x] /\ val[x] < val[y]  BY <1>1, <1>5, <1>6
  <2> QED BY <1>7, <2>1
<1>9. x = i + 1
  <2> SUFFICES ASSUME i + 1 < x PROVE FALSE  BY <1>8
  <2>1. PICK j \in 1 .. L : j = i + 1  OBVIOUS
  <2>2. i < j /\ j < x  BY <2>1
  <2>3. val[i] < val[j] /\ val[j] < val[x] /\ val[j] \in Tiles  BY <2>2 DEF Ordered
  <2> QED BY <1>1, <1>5, <2>3
<1>10. y = i + 2
  <2> SUFFICES ASSUME i + 2 < y PROVE FALSE  BY <1>8, <1>9
  <2>1. PICK j \in 1 .. L : j = i + 2  OBVIOUS
  <2>2. x < j /\ j < y  BY <1>9, <2>1
  <2>3. val[x] < val[j] /\ val[j] < val[y] /\ val[j] \in Tiles  BY <2>2 DEF Ordered
  <2> QED BY <1>5, <1>6, <2>3
<1>11. num[i] = n[p] /\ num[x] = n[p + 1] /\ num[y] = n[p + 2]  BY <1>1, <1>5, <1>6 DEF Placed
<1>12. num[i] >= 1 /\ num[i + 1] >= 1 /\ num[i + 2] >= 1  BY <1>4, <1>9, <1>10, <1>11
<1>13. val[i + 1] = val[i] + 1 /\ val[i + 2] = val[i] + 2  BY <1>1, <1>5, <1>6, <1>9, <1>10
<1>14. i + 2 <= L /\ val[i] >= 11  BY <1>1, <1>2, <1>10
<1> QED BY <1>12, <1>13, <1>14 DEF mjRunAt

LEMMA mjRun ==
    ASSUME NEW L \in Nat, NEW val, Ordered(val, L), NEW k \in Nat, NEW deeper, mjFinds(deeper, k, val, L),
           NEW num, Counted(num, L), NEW i \in 1 .. L, NoneTo(num, i, L),
           NEW n \in Counts, Placed(n, val, num, L), Total(n) <= k
    PROVE  mj!deal_shunzi(deeper, val, num, i) <=> \E e : IsRunAnd(n, val[i], e)
<1>1. PICK p \in Tiles : p = val[i]  BY DEF Ordered
<1>2. num \in Seq(Int) /\ Len(num) = L /\ ~ (i > Len(num))  BY DEF Counted
<1>3. PICK m : m = mj!Less(mj!Less(mj!Less(num, i, 1), i + 1, 1), i + 2, 1)  OBVIOUS
<1>4. PICK q : q = mj!next(m, i)  OBVIOUS
<1>5. mj!deal_shunzi(deeper, val, num, i) <=> mjRunAt(val, num, i, L) /\ deeper[val][m][q]
  <2>1. (\A c \in 0 .. 2 : num[i + c] >= 1 /\ val[i + c] = val[i] + c)
          <=> /\ num[i] >= 1 /\ num[i + 1] >= 1 /\ num[i + 2] >= 1
              /\ val[i + 1] = val[i] + 1 /\ val[i + 2] = val[i] + 2
    <3>1. 0 .. 2 = {0, 1, 2} /\ i + 0 = i /\ p + 0 = p  OBVIOUS
    <3> QED BY <1>1, <3>1
  <2>2. mj!deal_shunzi(deeper, val, num, i) <=>
          /\ i + 2 <= L /\ val[i] >= 11
          /\ \A c \in 0 .. 2 : num[i + c] >= 1 /\ val[i + c] = val[i] + c
          /\ deeper[val][m][q]
        BY <1>2, <1>3, <1>4 DEF mj!deal_shunzi, mj!Tiao1
  <2> QED BY <2>1, <2>2 DEF mjRunAt
<1>6. CASE mjRunAt(val, num, i, L)
  <2>1. /\ Counted(m, L) /\ NoneTo(m, i, L) /\ val[i] \in 11 .. 38
        /\ \E e \in Counts : n = PlusRun(e, val[i]) /\ Placed(e, val, m, L)
        BY <1>3, <1>6, mjRunLess
  <2>2. PICK e \in Counts : n = PlusRun(e, p) /\ Placed(e, val, m, L)  BY <1>1, <2>1
  <2>3. p \in 11 .. 38  BY <1>1, <2>1
  <2>4. FirstLeft(m, q, L)
    <3>1. i \in 1 .. L + 1  OBVIOUS
    <3> QED BY <1>4, <2>1, <3>1, mjNextIs
  <2>5. Total(e) < k
    <3>1. Total(e) \in Nat /\ Total(n) = Total(e) + 3
      <4>1. p \in 0 .. 38  BY <2>3
      <4> QED BY <2>2, <4>1, TotalIs, TotalRun
    <3> QED BY <3>1
  <2>6. deeper[val][m][q] <=> Grouped(e)
    <3>1. m \in Seq(Int) /\ q \in 1 .. L + 1  BY <2>1, <2>4 DEF Counted, FirstLeft
    <3> QED BY <2>1, <2>2, <2>4, <2>5, <3>1 DEF mjFinds
  <2>7. (\E g : IsRunAnd(n, p, g)) <=> Grouped(e)
    <3>1. ASSUME NEW g, IsRunAnd(n, p, g) PROVE Grouped(e)
      <4>1. g \in Counts /\ Grouped(g) /\ n = PlusRun(g, p)  BY <3>1 DEF IsRunAnd
      <4>2. ASSUME NEW t \in Tiles PROVE g[t] = e[t]
        <5>1. g[t] \in Nat /\ e[t] \in Nat  BY <4>1 DEF Counts
        <5>2. n[t] = g[t] + (IF t \in p .. p + 2 THEN 1 ELSE 0)  BY <4>1 DEF PlusRun
        <5>3. n[t] = e[t] + (IF t \in p .. p + 2 THEN 1 ELSE 0)  BY <2>2 DEF PlusRun
        <5> QED BY <5>1, <5>2, <5>3
      <4>3. g = e  BY <4>1, <4>2 DEF Counts
      <4> QED BY <4>1, <4>3
    <3>2. ASSUME Grouped(e) PROVE IsRunAnd(n, p, e)  BY <2>2, <2>3, <3>2 DEF IsRunAnd
    <3> QED BY <3>1, <3>2
  <2> QED BY <1>1, <1>5, <1>6, <2>6, <2>7
<1>7. CASE ~ mjRunAt(val, num, i, L)
  <2>1. ASSUME NEW e, IsRunAnd(n, val[i], e) PROVE FALSE  BY <1>7, <2>1, mjRunIs
  <2> QED BY <1>5, <1>7, <2>1
<1> QED BY <1>6, <1>7

-----------------------------------------------------------------------------
(* The first tile left is in a triple or in a run that begins with it. *)
LEMMA mjSearchFinds ==
    ASSUME NEW L \in Nat, NEW val, Ordered(val, L), NEW k \in Nat, NEW deeper, mjFinds(deeper, k, val, L),
           NEW num, Counted(num, L), NEW i \in 1 .. L + 1, FirstLeft(num, i, L),
           NEW n \in Counts, Placed(n, val, num, L), Total(n) <= k
    PROVE  mjSearch(deeper, val, num, i) <=> Grouped(n)
<1>1. CASE i = L + 1
  <2>1. mjSearch(deeper, val, num, i)
    <3>1. i > Len(num)  BY <1>1 DEF Counted
    <3> QED BY <3>1 DEF mjSearch, mj!deal_kezi
  <2>2. ASSUME NEW t \in Tiles PROVE n[t] = 0
    <3>1. n[t] \in Nat  BY DEF Counts
    <3>2. ASSUME n[t] > 0 PROVE FALSE
      <4>1. PICK j \in 1 .. L : val[j] = t  BY <3>2 DEF Placed
      <4>2. num[j] = 0  BY <1>1 DEF FirstLeft, NoneTo
      <4> QED BY <3>2, <4>1, <4>2 DEF Placed
    <3> QED BY <3>1, <3>2
  <2> QED BY <2>1, <2>2, GroupedNone
<1>2. CASE i # L + 1
  <2>1. i \in 1 .. L /\ NoneTo(num, i, L) /\ num[i] > 0  BY <1>2 DEF FirstLeft
  <2>2. PICK p \in Tiles : p = val[i]  BY <2>1 DEF Ordered
  <2>3. mjSearch(deeper, val, num, i) <=>
          (\E e : IsTripleAnd(n, p, e)) \/ (\E e : IsRunAnd(n, p, e))
    <3>1. mj!deal_kezi(deeper, val, num, i) <=> \E e : IsTripleAnd(n, p, e)  BY <2>1, <2>2, mjTriple
    <3>2. mj!deal_shunzi(deeper, val, num, i) <=> \E e : IsRunAnd(n, p, e)  BY <2>1, <2>2, mjRun
    <3> QED BY <3>1, <3>2 DEF mjSearch
  <2>4. ASSUME Grouped(n)
        PROVE  (\E e : IsTripleAnd(n, p, e)) \/ (\E e : IsRunAnd(n, p, e))
    <3>1. n[p] > 0  BY <2>1, <2>2 DEF Placed
    <3>2. ASSUME NEW t \in Tiles, t < p PROVE n[t] = 0
      <4>1. n[t] \in Nat  BY DEF Counts
      <4>2. ASSUME n[t] > 0 PROVE FALSE
        <5>1. PICK j \in 1 .. L : val[j] = t  BY <4>2 DEF Placed
        <5>2. j < i
          <6>1. j # i  BY <2>2, <3>2, <5>1
          <6>2. ~ (i < j)
            <7>1. ~ (p < t)  BY <3>2
            <7> QED BY <2>1, <2>2, <5>1, <7>1 DEF Ordered
          <6> QED BY <6>1, <6>2
        <5>3. num[j] = 0  BY <2>1, <5>2 DEF NoneTo
        <5> QED BY <4>2, <5>1, <5>3 DEF Placed
      <4> QED BY <4>1, <4>2
    <3> QED BY <2>4, <3>1, <3>2, GroupedLow
  <2>5. ASSUME NEW e, IsTripleAnd(n, p, e) PROVE Grouped(n)
    <3>1. e \in Counts /\ Grouped(e) /\ n = Plus(e, p, 3)  BY <2>5 DEF IsTripleAnd
    <3> QED BY <3>1, GroupedTriple
  <2>6. ASSUME NEW e, IsRunAnd(n, p, e) PROVE Grouped(n)
    <3>1. p \in 11 .. 38 /\ e \in Counts /\ Grouped(e) /\ n = PlusRun(e, p)  BY <2>6 DEF IsRunAnd
    <3> QED BY <3>1, GroupedRun
  <2> QED BY <2>3, <2>4, <2>5, <2>6
<1> QED BY <1>1, <1>2

LEMMA mjDealsFind ==
    ASSUME NEW L \in Nat, NEW val, Ordered(val, L)
    PROVE  \A k \in 0 .. Rounds : mjFinds(mj!Deals[k], k, val, L)
<1>1. Rounds \in Nat  BY DEF Rounds
<1>2. PICK T : T = {k \in 0 .. Rounds : mjFinds(mj!Deals[k], k, val, L)}  OBVIOUS
<1>3. 0 \in T
  <2>1. ASSUME NEW n \in Counts, Total(n) < 0 PROVE FALSE
    <3>1. Total(n) \in Nat  BY TotalIs
    <3> QED BY <2>1, <3>1
  <2>2. mjFinds(mj!Deals[0], 0, val, L)  BY <2>1 DEF mjFinds
  <2> QED BY <1>1, <1>2, <2>2
<1>4. ASSUME NEW k \in 0 .. Rounds - 1, k \in T PROVE k + 1 \in T
  <2>1. mjFinds(mj!Deals[k], k, val, L)  BY <1>2, <1>4
  <2>2. ASSUME NEW num \in Seq(Int), NEW i \in 1 .. L + 1, NEW n \in Counts,
               Counted(num, L), FirstLeft(num, i, L), Placed(n, val, num, L), Total(n) < k + 1
        PROVE  mj!Deals[k + 1][val][num][i] <=> Grouped(n)
    <3>1. Total(n) <= k
      <4>1. Total(n) \in Nat  BY TotalIs
      <4> QED BY <2>2, <4>1
    <3>2. mjSearch(mj!Deals[k], val, num, i) <=> Grouped(n)
      <4>1. k \in Nat  OBVIOUS
      <4> QED BY <2>1, <2>2, <3>1, <4>1, mjSearchFinds
    <3>3. mj!Deals[k + 1][val][num][i] <=> mjSearch(mj!Deals[k], val, num, i)
      <4>1. PICK l \in 0 .. Rounds : l = k + 1 /\ l > 0  BY <1>1
      <4>2. val \in Seq(Nat) /\ i \in Nat  BY DEF Ordered
      <4>3. mj!Deals[l][val][num][i] = (l > 0 /\ mjSearch(mj!Deals[l - 1], val, num, i))
            BY <4>2, mjUnfold
      <4>4. mj!Deals[l][val][num][i] <=> mjSearch(mj!Deals[l - 1], val, num, i)  BY <4>1, <4>3
      <4>5. l - 1 = k  BY <4>1
      <4> QED BY <4>1, <4>4, <4>5
    <3> QED BY <3>2, <3>3
  <2>3. mjFinds(mj!Deals[k + 1], k + 1, val, L)  BY <2>2 DEF mjFinds
  <2> QED BY <1>1, <1>2, <2>3
<1>5. \A k \in 0 .. Rounds : k \in T
  <2>1. \A k \in 0 .. Rounds - 1 : k \in T => k + 1 \in T  BY <1>4
  <2> QED BY <1>1, <1>3, <2>1, UpTo
<1> QED BY <1>2, <1>5

-----------------------------------------------------------------------------
(* The judge made of a hand: val and num after the tiles below k. *)
NoneYet == [val |-> <<>>, num |-> <<>>]
Have(n, t) == n[t] + (IF 0 > 0 /\ t = 0 THEN 1 ELSE 0)
WithTile(n, r, t) ==
    IF Have(n, t) = 0 THEN r
    ELSE [val |-> Append(r.val, t), num |-> Append(r.num, Have(n, t))]
Lots(n, k, g) == g = [i \in 0 .. k |-> IF i = 0 THEN NoneYet ELSE WithTile(n, g[i - 1], i - 1)]

LEMMA LotsExist ==
    ASSUME NEW n
    PROVE  \E g : Lots(n, 41, g)
<1>1. PICK T : T = {k \in 0 .. 41 : \E g : Lots(n, k, g)}  OBVIOUS
<1>2. 0 \in T
  <2>1. Lots(n, 0, [k \in 0 .. 0 |-> NoneYet])  BY DEF Lots
  <2> QED BY <1>1, <2>1
<1>3. ASSUME NEW k \in 0 .. 40, k \in T PROVE k + 1 \in T
  <2>1. PICK g : Lots(n, k, g)  BY <1>1, <1>3
  <2>2. PICK h : h = [i \in 0 .. k + 1 |-> IF i = k + 1 THEN WithTile(n, g[k], k) ELSE g[i]]  OBVIOUS
  <2>3. h[k + 1] = WithTile(n, g[k], k) /\ \A i \in 0 .. k : h[i] = g[i]  BY <2>2
  <2>4. ASSUME NEW i \in 0 .. k + 1
        PROVE  h[i] = IF i = 0 THEN NoneYet ELSE WithTile(n, h[i - 1], i - 1)
    <3>1. CASE i = k + 1
      <4>1. h[i - 1] = g[k] /\ i # 0 /\ i - 1 = k  BY <2>3, <3>1
      <4> QED BY <2>3, <3>1, <4>1
    <3>2. CASE i # k + 1
      <4>1. i \in 0 .. k /\ h[i] = g[i]  BY <2>3, <3>2
      <4>2. g[i] = IF i = 0 THEN NoneYet ELSE WithTile(n, g[i - 1], i - 1)  BY <2>1, <4>1 DEF Lots
      <4>3. i # 0 => i - 1 \in 0 .. k  BY <4>1
      <4> QED BY <2>3, <4>1, <4>2, <4>3
    <3> QED BY <3>1, <3>2
  <2>5. h = [i \in 0 .. k + 1 |-> IF i = 0 THEN NoneYet ELSE WithTile(n, h[i - 1], i - 1)]
    <3>1. h = [i \in 0 .. k + 1 |-> h[i]]  BY <2>2
    <3> QED BY <2>4, <3>1
  <2>6. Lots(n, k + 1, h)  BY <2>5 DEF Lots
  <2> QED BY <1>1, <2>6
<1>4. 41 \in T  BY <1>2, <1>3, UpTo
<1> QED BY <1>1, <1>4

LEMMA NewLots ==
    ASSUME NEW n
    PROVE  \E g : Lots(n, 41, g) /\ mj!New(n, 0, <<>>).val = g[41].val /\ mj!New(n, 0, <<>>).num = g[41].num
<1>1. PICK h : h = CHOOSE g : Lots(n, 41, g)  OBVIOUS
<1>2. Lots(n, 41, h)  BY <1>1, LotsExist
<1>3. mj!New(n, 0, <<>>).val = h[41].val /\ mj!New(n, 0, <<>>).num = h[41].num
      BY <1>1 DEF mj!New, mj!Chun, Lots, WithTile, Have, NoneYet
<1> QED BY <1>2, <1>3

-----------------------------------------------------------------------------
(* r has the tiles below k of the hand n, L of them. *)
Filled(n, r, k, L) ==
    /\ Ordered(r.val, L) /\ Counted(r.num, L)
    /\ \A j \in 1 .. L : n[r.val[j]] = r.num[j] /\ r.num[j] > 0 /\ r.val[j] < k
    /\ \A t \in Tiles : t < k /\ n[t] > 0 => \E j \in 1 .. L : r.val[j] = t

LEMMA FilledOne ==
    ASSUME NEW n \in Counts, NEW r, NEW k \in Tiles, NEW L \in Nat, Filled(n, r, k, L), n[k] > 0,
           NEW s, s.val = Append(r.val, k), s.num = Append(r.num, n[k])
    PROVE  Filled(n, s, k + 1, L + 1)
<1>1. r.val \in Seq(Nat) /\ Len(r.val) = L /\ k \in Nat  BY DEF Filled, Ordered
<1>2. r.num \in Seq(Int) /\ Len(r.num) = L /\ n[k] \in Nat /\ n[k] \in Int
  <2>1. n[k] \in Nat  BY DEF Counts
  <2>2. r.num \in Seq(Int) /\ Len(r.num) = L  BY DEF Filled, Counted
  <2> QED BY <2>1, <2>2
<1>3. /\ s.val \in Seq(Nat) /\ Len(s.val) = L + 1
      /\ (\A j \in 1 .. L : s.val[j] = r.val[j]) /\ s.val[L + 1] = k
      BY <1>1, AppendProperties
<1>4. /\ s.num \in Seq(Int) /\ Len(s.num) = L + 1
      /\ (\A j \in 1 .. L : s.num[j] = r.num[j]) /\ s.num[L + 1] = n[k]
      BY <1>2, AppendProperties
<1>5. ASSUME NEW j \in 1 .. L + 1
      PROVE  /\ s.val[j] \in Tiles /\ s.num[j] \in Nat
             /\ n[s.val[j]] = s.num[j] /\ s.num[j] > 0 /\ s.val[j] < k + 1
  <2>1. PICK x, y : x = s.val[j] /\ y = s.num[j]  OBVIOUS
  <2>2. CASE j = L + 1
    <3>1. x = k /\ y = n[k]  BY <1>3, <1>4, <2>1, <2>2
    <3>2. x < k + 1 /\ x \in Tiles /\ y \in Nat /\ n[x] = y /\ y > 0  BY <1>2, <3>1
    <3> QED BY <2>1, <3>2
  <2>3. CASE j # L + 1
    <3>1. j \in 1 .. L  BY <2>3
    <3>2. r.val[j] \in Tiles /\ r.num[j] \in Nat  BY <3>1 DEF Filled, Ordered, Counted
    <3>3. n[r.val[j]] = r.num[j] /\ r.num[j] > 0 /\ r.val[j] < k  BY <3>1 DEF Filled
    <3>4. x = r.val[j] /\ y = r.num[j]  BY <1>3, <1>4, <2>1, <3>1
    <3>5. x \in Tiles /\ y \in Nat /\ n[x] = y /\ y > 0 /\ x < k  BY <3>2, <3>3, <3>4
    <3>6. x < k + 1  BY <3>5
    <3> QED BY <2>1, <3>5, <3>6
  <2> QED BY <2>2, <2>3
<1>6. ASSUME NEW j \in 1 .. L + 1, NEW i \in 1 .. L + 1, j < i
      PROVE  s.val[j] < s.val[i]
  <2>1. j \in 1 .. L /\ s.val[j] = r.val[j]  BY <1>3, <1>6
  <2>2. r.val[j] < k  BY <2>1 DEF Filled
  <2>3. CASE i = L + 1  BY <1>3, <2>1, <2>2, <2>3
  <2>4. CASE i # L + 1
    <3>1. i \in 1 .. L /\ s.val[i] = r.val[i]  BY <1>3, <2>4
    <3> QED BY <1>6, <2>1, <3>1 DEF Filled, Ordered
  <2> QED BY <2>3, <2>4
<1>7. ASSUME NEW t \in Tiles, t < k + 1, n[t] > 0
      PROVE  \E j \in 1 .. L + 1 : s.val[j] = t
  <2>1. CASE t = k
    <3>1. L + 1 \in 1 .. L + 1  OBVIOUS
    <3> QED BY <1>3, <2>1, <3>1
  <2>2. CASE t # k
    <3>1. t < k  BY <1>7, <2>2
    <3>2. PICK j \in 1 .. L : r.val[j] = t  BY <1>7, <3>1 DEF Filled
    <3>3. j \in 1 .. L + 1 /\ s.val[j] = t  BY <1>3, <3>2
    <3> QED BY <3>3
  <2> QED BY <2>1, <2>2
<1>8. Ordered(s.val, L + 1)  BY <1>3, <1>5, <1>6 DEF Ordered
<1>9. Counted(s.num, L + 1)  BY <1>4, <1>5 DEF Counted
<1> QED BY <1>5, <1>7, <1>8, <1>9 DEF Filled

LEMMA LotsFilled ==
    ASSUME NEW n \in Counts, NEW g, Lots(n, 41, g)
    PROVE  \E L \in Nat : Filled(n, g[41], 41, L)
<1>1. PICK T : T = {k \in 0 .. 41 : \E L \in Nat : Filled(n, g[k], k, L)}  OBVIOUS
<1>2. 0 \in T
  <2>1. g[0] = NoneYet  BY DEF Lots
  <2>2. PICK v : v = <<>>  OBVIOUS
  <2>3. g[0].val = v /\ g[0].num = v  BY <2>1, <2>2 DEF NoneYet
  <2>4. v \in Seq(Nat) /\ v \in Seq(Int) /\ Len(v) = 0  BY <2>2, EmptySeq
  <2>5. Ordered(v, 0) /\ Counted(v, 0)  BY <2>4 DEF Ordered, Counted
  <2>6. ASSUME NEW t \in Tiles, t < 0 PROVE FALSE  BY <2>6
  <2>7. Filled(n, g[0], 0, 0)  BY <2>3, <2>5, <2>6 DEF Filled
  <2> QED BY <1>1, <2>7
<1>3. ASSUME NEW k \in 0 .. 40, k \in T PROVE k + 1 \in T
  <2>1. PICK L \in Nat : Filled(n, g[k], k, L)  BY <1>1, <1>3
  <2>2. g[k + 1] = WithTile(n, g[k], k)
    <3>1. PICK i \in 0 .. 41 : i = k + 1  OBVIOUS
    <3>2. i # 0 /\ i - 1 = k  BY <3>1
    <3>3. g[i] = WithTile(n, g[i - 1], i - 1)  BY <3>2 DEF Lots
    <3> QED BY <3>1, <3>2, <3>3
  <2>3. k \in Tiles /\ n[k] \in Nat  BY DEF Counts
  <2>4. Have(n, k) = n[k]  BY <2>3 DEF Have
  <2>5. CASE n[k] = 0
    <3>1. g[k + 1] = g[k]  BY <2>2, <2>4, <2>5 DEF WithTile
    <3>2. ASSUME NEW t \in Tiles, t < k + 1, n[t] > 0
          PROVE  \E j \in 1 .. L : g[k].val[j] = t
      <4>1. t # k  BY <2>3, <2>5, <3>2
      <4>2. t < k  BY <3>2, <4>1
      <4> QED BY <2>1, <3>2, <4>2 DEF Filled
    <3>3. ASSUME NEW j \in 1 .. L PROVE g[k].val[j] < k + 1
      <4>1. g[k].val[j] < k /\ g[k].val[j] \in Tiles  BY <2>1 DEF Filled, Ordered
      <4> QED BY <4>1
    <3>4. Ordered(g[k].val, L) /\ Counted(g[k].num, L)  BY <2>1 DEF Filled
    <3>5. \A j \in 1 .. L : n[g[k].val[j]] = g[k].num[j] /\ g[k].num[j] > 0  BY <2>1 DEF Filled
    <3>6. Filled(n, g[k], k + 1, L)  BY <3>2, <3>3, <3>4, <3>5 DEF Filled
    <3>7. Filled(n, g[k + 1], k + 1, L)  BY <3>1, <3>6
    <3> QED BY <1>1, <3>7
  <2>6. CASE n[k] # 0
    <3>1. g[k + 1] = [val |-> Append(g[k].val, k), num |-> Append(g[k].num, n[k])]
          BY <2>2, <2>4, <2>6 DEF WithTile
    <3>2. PICK r, x, y : r = g[k + 1] /\ x = Append(g[k].val, k) /\ y = Append(g[k].num, n[k])  OBVIOUS
    <3>3. r = [val |-> x, num |-> y]  BY <3>1, <3>2
    <3>4. r.val = x /\ r.num = y  BY <3>3
    <3>5. n[k] > 0  BY <2>3, <2>6
    <3>6. Filled(n, r, k + 1, L + 1)  BY <2>1, <2>3, <3>2, <3>4, <3>5, FilledOne
    <3>7. Filled(n, g[k + 1], k + 1, L + 1)  BY <3>2, <3>6
    <3>8. L + 1 \in Nat  OBVIOUS
    <3> QED BY <1>1, <3>7, <3>8
  <2> QED BY <2>5, <2>6
<1>4. 41 \in T  BY <1>2, <1>3, UpTo
<1> QED BY <1>1, <1>4

LEMMA NewIs ==
    ASSUME NEW n \in Counts, NEW m, m = mj!New(n, 0, <<>>)
    PROVE  \E L \in Nat : /\ Ordered(m.val, L) /\ Counted(m.num, L) /\ Placed(n, m.val, m.num, L)
                          /\ \A j \in 1 .. L : m.num[j] > 0
<1>1. PICK g : Lots(n, 41, g) /\ m.val = g[41].val /\ m.num = g[41].num  BY NewLots
<1>2. PICK r : r = g[41]  OBVIOUS
<1>3. PICK L \in Nat : Filled(n, r, 41, L)  BY <1>1, <1>2, LotsFilled
<1>4. m.val = r.val /\ m.num = r.num  BY <1>1, <1>2
<1>5. Ordered(r.val, L) /\ Counted(r.num, L)  BY <1>3 DEF Filled
<1>6. \A j \in 1 .. L : n[r.val[j]] = r.num[j] /\ r.num[j] > 0  BY <1>3 DEF Filled
<1>7. ASSUME NEW t \in Tiles, n[t] > 0 PROVE \E j \in 1 .. L : r.val[j] = t
  <2>1. t < 41  OBVIOUS
  <2> QED BY <1>3, <1>7, <2>1 DEF Filled
<1>8. Placed(n, r.val, r.num, L)  BY <1>6, <1>7 DEF Placed
<1>9. Ordered(m.val, L) /\ Counted(m.num, L) /\ Placed(n, m.val, m.num, L)  BY <1>4, <1>5, <1>8
<1>10. \A j \in 1 .. L : m.num[j] > 0  BY <1>4, <1>6
<1> QED BY <1>9, <1>10

-----------------------------------------------------------------------------
(* With its tile gone from the first place both searches fail there: the pair is not tried. *)
LEMMA mjPair ==
    ASSUME NEW L \in Nat, NEW val, Ordered(val, L), NEW num, Counted(num, L), \A j \in 1 .. L : num[j] > 0,
           NEW n \in Counts, Placed(n, val, num, L), Total(n) <= Rounds, NEW i \in 1 .. L, num[i] >= 2
    PROVE  mj!Deal(val, mj!Less(num, i, 2), 1) <=> WinsWithPair(n, val[i]) /\ (i # 1 \/ num[i] > 2)
<1>1. PICK p \in Tiles : p = val[i]  BY DEF Ordered
<1>2. PICK m : m = mj!Less(num, i, 2)  OBVIOUS
<1>3. Counted(m, L) /\ LessAt(m, num, i, 2, L)  BY <1>2, mjLessIs
<1>4. PICK h \in Counts : n = Plus(h, p, 2) /\ Placed(h, val, m, L)  BY <1>1, <1>3, PlacedLess
<1>5. WinsWithPair(n, p) <=> Grouped(h)  BY <1>4, PairAndGroups
<1>6. Rounds \in Nat /\ Rounds > 0 /\ Rounds \in 0 .. Rounds  BY DEF Rounds
<1>7. val \in Seq(Nat) /\ m \in Seq(Int) /\ Len(m) = L /\ 1 \in 1 .. L + 1 /\ 1 \in Nat
      BY <1>3 DEF Ordered, Counted
<1>8. mj!Deal(val, m, 1) <=> mj!Deals[Rounds][val][m][1]
      BY DEF mj!Deal, mj!Rounds, mj!Chun, Rounds
<1>9. CASE i # 1 \/ num[i] > 2
  <2>1. m[1] > 0
    <3>1. 1 \in 1 .. L  OBVIOUS
    <3>2. CASE i = 1
      <4>1. num[1] > 2 /\ m[1] = num[1] - 2 /\ num[1] \in Nat  BY <1>3, <1>9, <3>1, <3>2 DEF LessAt, Counted
      <4> QED BY <4>1
    <3>3. CASE i # 1  BY <1>3, <3>1, <3>3 DEF LessAt
    <3> QED BY <3>2, <3>3
  <2>2. FirstLeft(m, 1, L)
    <3>1. NoneTo(m, 1, L)  BY DEF NoneTo
    <3> QED BY <1>7, <2>1, <3>1 DEF FirstLeft
  <2>3. Total(h) < Rounds
    <3>1. Total(h) \in Nat /\ Total(n) = Total(h) + 2  BY <1>4, TotalIs, TotalPlus
    <3> QED BY <1>6, <3>1
  <2>4. mjFinds(mj!Deals[Rounds], Rounds, val, L)  BY <1>6, mjDealsFind
  <2>5. mj!Deals[Rounds][val][m][1] <=> Grouped(h)
        BY <1>3, <1>4, <1>7, <2>2, <2>3, <2>4 DEF mjFinds
  <2> QED BY <1>1, <1>2, <1>5, <1>8, <1>9, <2>5
<1>10. CASE ~ (i # 1 \/ num[i] > 2)
  <2>1. m[1] = 0
    <3>1. i = 1 /\ num[1] = 2  BY <1>10 DEF Counted
    <3> QED BY <1>3, <3>1 DEF LessAt
  <2>2. ~ (1 > Len(m))  BY <1>7
  <2>3. ASSUME NEW deeper PROVE ~ mj!deal_kezi(deeper, val, m, 1)
        BY <2>1, <2>2 DEF mj!deal_kezi
  <2>4. ASSUME NEW deeper PROVE ~ mj!deal_shunzi(deeper, val, m, 1)
    <3>1. SUFFICES ASSUME mj!deal_shunzi(deeper, val, m, 1) PROVE FALSE  OBVIOUS
    <3>2. \A c \in 0 .. 2 : m[1 + c] >= 1  BY <2>2, <3>1 DEF mj!deal_shunzi
    <3>3. m[1 + 0] >= 1  BY <3>2
    <3> QED BY <2>1, <3>3
  <2>5. ~ mjSearch(mj!Deals[Rounds - 1], val, m, 1)  BY <2>3, <2>4 DEF mjSearch
  <2>6. mj!Deals[Rounds][val][m][1] = (Rounds > 0 /\ mjSearch(mj!Deals[Rounds - 1], val, m, 1))
        BY <1>6, <1>7, mjUnfold
  <2>7. ~ mj!Deals[Rounds][val][m][1]  BY <2>5, <2>6
  <2> QED BY <1>2, <1>8, <1>10, <2>7
<1> QED BY <1>9, <1>10

LEMMA LowestIs ==
    ASSUME NEW L \in Nat, L # 0, NEW val, Ordered(val, L), NEW num, Counted(num, L),
           \A j \in 1 .. L : num[j] > 0, NEW n \in Counts, Placed(n, val, num, L)
    PROVE  Min(Held(n) \cup {Chun}) = val[1]
<1>1. 1 \in 1 .. L  OBVIOUS
<1>2. PICK p \in Tiles : p = val[1]  BY <1>1 DEF Ordered
<1>3. p \in Held(n) \cup {Chun}
  <2>1. n[p] > 0  BY <1>1, <1>2 DEF Placed
  <2> QED BY <2>1 DEF Held
<1>4. ASSUME NEW t \in Held(n) \cup {Chun} PROVE p <= t
  <2>1. CASE t = Chun  BY <2>1
  <2>2. CASE t # Chun
    <3>1. t \in Tiles /\ n[t] > 0  BY <2>2 DEF Held
    <3>2. PICK j \in 1 .. L : val[j] = t  BY <3>1 DEF Placed
    <3>3. CASE j = 1  BY <1>2, <3>1, <3>2, <3>3
    <3>4. CASE j # 1
      <4>1. 1 < j  BY <3>4
      <4>2. val[1] < val[j]  BY <1>1, <4>1 DEF Ordered
      <4> QED BY <1>2, <3>1, <3>2, <4>2
    <3> QED BY <3>3, <3>4
  <2> QED BY <2>1, <2>2
<1>5. PICK S \in SUBSET Nat : S = Held(n) \cup {Chun}
  <2>1. Held(n) \cup {Chun} \in SUBSET Nat  BY DEF Held
  <2> QED BY <2>1
<1>6. PICK x : x = Min(S)  OBVIOUS
<1>7. x \in S /\ \A y \in S : x <= y
  <2>1. Min(S) = CHOOSE y \in S : \A z \in S : y <= z  BY DEF Min
  <2>2. p \in S /\ \A y \in S : p <= y  BY <1>3, <1>4, <1>5
  <2> QED BY <1>6, <2>1, <2>2
<1>8. x <= p /\ p <= x  BY <1>3, <1>4, <1>5, <1>7
<1>9. x = p
  <2>1. x \in Nat  BY <1>7
  <2> QED BY <1>8, <2>1
<1> QED BY <1>2, <1>5, <1>6, <1>9

LEMMA mjDecides ==
    ASSUME NEW n \in Counts, Total(n) <= Rounds
    PROVE  mj!hu233(mj!New(n, 0, <<>>)) <=>
             \E p \in Held(n) : WinsWithPair(n, p) /\ (p # Min(Held(n) \cup {Chun}) \/ n[p] > 2)
<1>1. PICK m : m = mj!New(n, 0, <<>>)  OBVIOUS
<1>2. PICK L \in Nat : /\ Ordered(m.val, L) /\ Counted(m.num, L) /\ Placed(n, m.val, m.num, L)
                       /\ \A j \in 1 .. L : m.num[j] > 0
      BY <1>1, NewIs
<1>3. mj!Places(m) = 1 .. L
  <2>1. m.val \in Seq(Nat) /\ Len(m.val) = L  BY <1>2 DEF Ordered
  <2>2. DOMAIN m.val = 1 .. L  BY <2>1, LenProperties
  <2> QED BY <2>2 DEF mj!Places
<1>4. mj!hu233(m) <=> \E i \in 1 .. L : m.num[i] >= 2 /\ mj!Deal(m.val, mj!Less(m.num, i, 2), 1)
      BY <1>3 DEF mj!hu233
<1>5. ASSUME NEW i \in 1 .. L, m.num[i] >= 2
      PROVE  mj!Deal(m.val, mj!Less(m.num, i, 2), 1)
               <=> WinsWithPair(n, m.val[i]) /\ (i # 1 \/ m.num[i] > 2)
  <2>1. PICK val, num : val = m.val /\ num = m.num  OBVIOUS
  <2>2. mj!Deal(val, mj!Less(num, i, 2), 1) <=> WinsWithPair(n, val[i]) /\ (i # 1 \/ num[i] > 2)
        BY <1>2, <1>5, <2>1, mjPair
  <2> QED BY <2>1, <2>2
<1>6. ASSUME NEW i \in 1 .. L
      PROVE  (i # 1) <=> (m.val[i] # Min(Held(n) \cup {Chun}))
  <2>1. Min(Held(n) \cup {Chun}) = m.val[1]
    <3>1. L # 0  BY <1>6
    <3> QED BY <1>2, <3>1, LowestIs
  <2>2. i # 1 => m.val[1] < m.val[i] /\ m.val[1] \in Tiles /\ m.val[i] \in Tiles
    <3>1. 1 \in 1 .. L /\ (i # 1 => 1 < i)  BY <1>6
    <3> QED BY <1>2, <3>1 DEF Ordered
  <2>3. i # 1 => m.val[1] # m.val[i]  BY <2>2
  <2> QED BY <2>1, <2>3
<1>7. ASSUME NEW i \in 1 .. L
      PROVE  m.val[i] \in Held(n) /\ n[m.val[i]] = m.num[i]
  <2>1. m.val[i] \in Tiles /\ n[m.val[i]] = m.num[i] /\ m.num[i] > 0  BY <1>2 DEF Ordered, Placed
  <2> QED BY <2>1 DEF Held
<1>8. ASSUME NEW p \in Held(n) PROVE \E i \in 1 .. L : m.val[i] = p
  <2>1. p \in Tiles /\ n[p] > 0  BY DEF Held
  <2> QED BY <1>2, <2>1 DEF Placed
<1>9. ASSUME NEW p, WinsWithPair(n, p) PROVE n[p] >= 2  BY <1>9 DEF WinsWithPair
<1>10. ASSUME NEW i \in 1 .. L, m.num[i] >= 2, mj!Deal(m.val, mj!Less(m.num, i, 2), 1)
       PROVE  \E p \in Held(n) : WinsWithPair(n, p) /\ (p # Min(Held(n) \cup {Chun}) \/ n[p] > 2)
  <2>1. WinsWithPair(n, m.val[i]) /\ (i # 1 \/ m.num[i] > 2)  BY <1>5, <1>10
  <2> QED BY <1>6, <1>7, <2>1
<1>11. ASSUME NEW p \in Held(n), WinsWithPair(n, p), p # Min(Held(n) \cup {Chun}) \/ n[p] > 2
       PROVE  \E i \in 1 .. L : m.num[i] >= 2 /\ mj!Deal(m.val, mj!Less(m.num, i, 2), 1)
  <2>1. PICK i \in 1 .. L : m.val[i] = p  BY <1>8
  <2>2. m.num[i] = n[p] /\ n[p] >= 2  BY <1>7, <1>9, <1>11, <2>1
  <2>3. i # 1 \/ m.num[i] > 2  BY <1>6, <1>11, <2>1, <2>2
  <2>4. mj!Deal(m.val, mj!Less(m.num, i, 2), 1)  BY <1>5, <1>11, <2>1, <2>2, <2>3
  <2> QED BY <2>2, <2>4
<1> QED BY <1>1, <1>4, <1>10, <1>11

(* hulz.go and hu.go: on every hand that can be drawn the first finds nothing that is no win *)
(* unless the hand is bridged, and every win without wild tiles or with one away from the   *)
(* end of the last suit; the second finds exactly the wins whose pair is not all there is   *)
(* of the lowest tile.                                                                      *)
THEOREM JudgesFindDecompositionsAlways == HandSpec => []JudgesFindDecompositions
<1>1. ASSUME HandInv, Judged
      PROVE  hu233(Judge).ok => IsWin(Plain, hand[Laizi]) \/ Bridged
      BY <1>1, JudgeFindsOnly
<1>2. ASSUME HandInv, hand[Laizi] = 0 \/ (hand[Laizi] = 1 /\ Held(Full) \cap {38, 39} = {})
      PROVE  IsWin(Plain, hand[Laizi]) => hu233(Judge).ok
      BY <1>2, JudgeFindsAll
<1>3. ASSUME HandInv, hand[Laizi] = 0
      PROVE  mj!hu233(mj!New(Full, 0, <<>>)) =
               \E p \in Held(Full) : WinsWithPair(Full, p) /\ (p # Min(Held(Full) \cup {Chun}) \/ Full[p] > 2)
  <2>1. Full \in Counts  BY <1>3, FullIs DEF Counts
  <2>2. Total(Full) <= Rounds
    <3>1. ASSUME NEW t \in Tiles PROVE Full[t] <= 4
      <4>1. CASE t = Laizi  BY <1>3, <4>1, FullIs
      <4>2. CASE t # Laizi
        <5>1. t \in Natural  BY <4>2
        <5> QED BY <1>3, <5>1, FullIs
      <4> QED BY <4>1, <4>2
    <3> QED BY <2>1, <3>1, TotalBound
  <2>3. mj!hu233(mj!New(Full, 0, <<>>)) <=>
          \E p \in Held(Full) : WinsWithPair(Full, p) /\ (p # Min(Held(Full) \cup {Chun}) \/ Full[p] > 2)
        BY <2>1, <2>2, mjDecides
  <2>4. mj!hu233(mj!New(Full, 0, <<>>)) \in BOOLEAN  BY DEF mj!hu233
  <2> QED BY <2>3, <2>4
<1>4. HandInv => JudgesFindDecompositions
      BY <1>1, <1>2, <1>3 DEF JudgesFindDecompositions
<1> QED BY <1>4, HandIsDrawn, PTL
=============================================================================
