-------------------------------- MODULE Hulz --------------------------------
(***************************************************************************)
(* When a hand is a win and what it is worth: mj/hulz.go, the judge with   *)
(* laizi (wild tiles) that the game server uses.                           *)
(*                                                                         *)
(* The searches of the code count tiles down and up again in place, and    *)
(* what they give back is not always what they took.  So a judge is a      *)
(* value, [num, groups, laizi, pai], that every search returns changed.    *)
(* The flags of a win are a set of names instead of bits.                  *)
(***************************************************************************)
EXTENDS Mj, Sequences, FiniteSets, FiniteSetsExt, SequencesExt

HasGroup(m, ops) == \E i \in DOMAIN m.groups : m.groups[i].op \in ops

(* The tiles in hand by count, pai with them; those of the laizi are counted under Laizi. *)
Newlz(mj, pai, laizi, groups) ==
    LET have(t) == mj[t] + (IF pai > 0 /\ t = pai THEN 1 ELSE 0) IN
    [num |-> [t \in Tiles |-> IF laizi = 0 \/ t \notin {Laizi, laizi} THEN have(t)
                              ELSE IF t = Laizi THEN have(laizi) ELSE 0],
     groups |-> groups, laizi |-> laizi, pai |-> pai]

next(num, pai) == Min({p \in pai .. Tong9 + 1 : p > Tong9 \/ (p # Laizi /\ num[p] > 0)})

-----------------------------------------------------------------------------
(* hu233: a pair and groups of three.  A result is [ok, m]. *)
Fail(m) == [ok |-> FALSE, m |-> m]
Won(m)  == [ok |-> TRUE, m |-> m]

(* Mutant: at most one wild tile is given back. *)
BackOneWild(r, tiles, wild) ==
    [ok |-> r.ok,
     m  |-> [r.m EXCEPT !.num = [t \in Tiles |-> @[t] + tiles[t] + (IF t = Laizi /\ wild > 0 THEN 1 ELSE 0)],
                        !.groups = IF r.ok THEN @ ELSE Front(@)]]

(* r gives back the tiles (and wild tiles) it took; a group stays only where it succeeded. *)
Back(r, tiles, wild) ==
    [ok |-> r.ok,
     m  |-> [r.m EXCEPT !.num = [t \in Tiles |-> @[t] + tiles[t] + (IF t = Laizi THEN wild ELSE 0)],
                        !.groups = IF r.ok THEN @ ELSE Front(@)]]

TakeOut(m, tiles, wild, g) ==
    [m EXCEPT !.num = [t \in Tiles |-> @[t] - tiles[t] - (IF t = Laizi THEN wild ELSE 0)],
              !.groups = Append(@, g)]

Of(n, S) == [t \in Tiles |-> IF t \in S THEN n ELSE 0]
Short(n) == IF n < 0 THEN -n ELSE 0

deal_kezi(deeper, m, pai) ==
    IF pai > Tong9 THEN Won(m)
    ELSE IF m.num[pai] + m.num[Laizi] < 3 THEN Fail(m)
    ELSE LET wild == Short(m.num[pai] - 3)
             a    == TakeOut(m, Of(3, {pai}), wild, Group(Ke, pai))
         IN  Back(deeper[a][next(a.num, pai)], Of(3, {pai}), wild)

(* Mutant: a wild tile may only be the last of a run. *)
IsRunToTheEnd(m, pai) ==
    pai <= 37 /\ m.num[pai] >= 1 /\ m.num[pai + 1] >= 1 /\ m.num[pai + 2] + m.num[Laizi] >= 1

IsRun(m, pai) ==
    LET n == m.num IN
    /\ pai <= 37 /\ n[pai] >= 1
    /\ \/ n[pai + 1] + n[Laizi] >= 1 /\ n[pai + 2] >= 1
       \/ n[pai + 1] >= 1 /\ n[pai + 2] + n[Laizi] >= 1

(* Wild tiles are taken for counts that fall below 0 and given back for counts of 0. *)
deal_shunzi(deeper, m, pai) ==
    IF pai < Tiao1 THEN Fail(m)
    ELSE IF pai > Tong9 THEN Won(m)
    ELSE IF ~IsRun(m, pai) THEN Fail(m)
    ELSE LET run  == pai .. pai + 2
             took == Cardinality({q \in run \ {pai} : m.num[q] < 1})
             a    == TakeOut(m, Of(1, run), took, Group(Shun, pai))
             r    == deeper[a][next(a.num, pai)]
         IN  Back(r, Of(1, run), Cardinality({q \in run \ {pai} : r.m.num[q] = -1}))

(* A triple of the tile pai or, where that leads nowhere, a run from it. *)
TripleOrRun(deeper, m, pai) ==
    LET k == deal_kezi(deeper, m, pai) IN IF k.ok THEN k ELSE deal_shunzi(deeper, k.m, pai)

(* The two searches call each other; Deals[k] goes k groups deep.  Every group takes a tile *)
(* that is in hand at most four times, so that Rounds is more than any hand needs.          *)
Judges == [num : [Tiles -> Int], groups : Seq([op : Nat, val : Nat]), laizi : Nat, pai : Nat]
Rounds == 4 * Chun

Deals[k \in 0 .. Rounds] ==
    [m \in Judges |-> [pai \in Nat |-> IF k = 0 THEN Fail(m) ELSE TripleOrRun(Deals[k - 1], m, pai)]]

Deal(m, pai) == Deals[Rounds][m][pai]

(* The tile i as the pair, unless one before it was: r is what those came to. *)
Pair(r, i) ==
    LET m == r.m IN
    IF r.ok \/ i = Laizi \/ m.num[i] <= 0 \/ m.num[i] + m.num[Laizi] < 2 THEN r
    ELSE LET wild == Short(m.num[i] - 2)
             a    == TakeOut(m, Of(2, {i}), wild, Group(Jiang, i))
         IN  Back(Deal(a, next(a.num, 0)), Of(2, {i}), wild)

hu233(m) ==
    LET tried[n \in 0 .. Chun] == IF n = 0 THEN Fail(m) ELSE Pair(tried[n - 1], n - 1)
    IN  tried[Chun]

-----------------------------------------------------------------------------
(* The other kinds of win, judged on what hu233 left in m. *)
InHand(m) == {t \in Natural : m.num[t] > 0}

(* Seven pairs: a wild tile completes one tile or three. *)
huQd(m) ==
    LET had[n \in 0 .. Chun] ==
            IF n = 0 THEN [pairs |-> 0, wild |-> m.num[Laizi]]
            ELSE LET h    == had[n - 1]
                     held == IF n - 1 = Laizi THEN 0 ELSE m.num[n - 1]
                     odd  == held \in {1, 3} /\ h.wild > 0
                 IN  [pairs |-> h.pairs + (IF odd THEN (held + 1) \div 2
                                           ELSE IF held \in {2, 4} THEN held \div 2 ELSE 0),
                      wild  |-> IF odd THEN h.wild - 1 ELSE h.wild]
    IN  had[Chun].pairs = 7

IsJiang(val) == Suit(val) \in 1 .. 3 /\ val % 10 \in {2, 5, 8}

huJys(m) ==
    /\ \A i \in DOMAIN m.groups : LET g == m.groups[i] IN
           g.op \notin {Ke, Shun} => g.op \notin Chis /\ IsJiang(g.val)
    /\ \A t \in InHand(m) : IsJiang(t)

huHh(m) ==
    Cardinality({i \in DOMAIN m.groups : m.groups[i].op = AGang})
    + Cardinality({t \in Natural : m.num[t] = 4})

(* The first tile with a suit other than 0 sets the suit, tiles of suit 0 (winds, the wild  *)
(* tiles) before it are passed over.                                                        *)
huQys(m) ==
    LET suits == {Suit(t) : t \in {t \in Tiles : m.num[t] > 0}}
        c     == IF suits \subseteq {0} THEN 0 ELSE Min(suits \ {0})
    IN  suits \subseteq {0, c} /\ \A i \in DOMAIN m.groups : Suit(m.groups[i].val) = c

(* Every count but the smallest is made a triple, a count of 4 being a triple and a single. *)
huPph(m) ==
    LET ones == Cardinality({t \in Natural : m.num[t] \in {1, 4}})
        twos == Cardinality({t \in Natural : m.num[t] = 2})
        cost == IF ones > 0 THEN 1 + 2 * (ones - 1) + twos ELSE IF twos > 0 THEN twos - 1 ELSE 0
    IN  ~HasGroup(m, Chis \cup {Shun}) /\ cost <= m.num[Laizi]

huQqr(m) == m.pai > 0 /\ ~HasGroup(m, {Ke, Shun}) /\ m.num[m.pai] = 2
huMqq(m) == m.pai = 0 /\ ~HasGroup(m, Chis \cup {Peng, MGang, BGang})
huYh(m)  == m.num[Laizi] = 0

CanHu(m) == LET r == hu233(m) IN r.ok \/ huQd(r.m) \/ huJys(r.m)

(* What a hand may do by itself, and with the tile val that another has played. *)
CanOpSelf(m) ==
    {Group(AGang, t) : t \in {t \in Natural : m.num[t] = 4}}
    \cup (IF CanHu(m) THEN {Group(HuPaiOp, 0)} ELSE {})

CanOpOther(m, val, op) ==
    LET held(d) == val + d \in Tiles /\ m.num[val + d] > 0
        fits(o) == CASE o = LChi  -> val >= Tiao1 /\ held(1) /\ held(2)
                     [] o = MChi  -> val > Tiao1 /\ held(-1) /\ held(1)
                     [] o = RChi  -> val > Tiao1 + 1 /\ held(-2) /\ held(-1)
                     [] o = Peng  -> m.num[val] >= 3
                     [] o = MGang -> m.num[val] >= 4
    IN  {Group(o, val) : o \in {o \in Chis \cup {Peng, MGang} : op = ChuPai /\ fits(o)}
                              \cup (IF CanHu(m) THEN {HuPaiOp} ELSE {})}

-----------------------------------------------------------------------------
(* The type of a win, and the judge afterwards: hu233 leaves its groups in it. *)
huType(m) ==
    LET r    == hu233(m)
        w    == r.m
        base == (IF r.ok THEN {"PH"} ELSE IF huQd(w) THEN {"QD"} ELSE {})
                \cup (IF huJys(w) THEN {"JYS"} ELSE {})
        more == base \cup (IF "PH" \in base /\ huPph(w) THEN {"PPH"} ELSE {})
                     \cup (IF huQys(w) THEN {"QYS"} ELSE {})
                     \cup (IF huQqr(w) THEN {"QQR"} ELSE {})
        mqq  == IF huMqq(w) /\ more = {"PH"} THEN {"MQQ"} ELSE {}
        hh   == CASE huHh(w) = 1 -> {"HH"} [] huHh(w) = 2 -> {"HH2"} [] huHh(w) = 3 -> {"HH3"}
                  [] OTHER -> {}
        zm   == IF w.pai = 0 /\ mqq = {} THEN {"ZM"} ELSE {}
        yh   == IF huYh(w) THEN {"YH"} ELSE {}
    IN  [hus |-> IF base = {} THEN {} ELSE more \cup mqq \cup hh \cup zm \cup yh, m |-> w]

huScore(hus) ==
    (IF hus \cap {"QD", "JYS", "QYS", "QQR", "PPH"} # {} THEN 8 ELSE IF "MQQ" \in hus THEN 6 ELSE 2)
    * (IF "HH" \in hus THEN 2 ELSE 1) * (IF "HH2" \in hus THEN 4 ELSE 1)
    * (IF "HH3" \in hus THEN 8 ELSE 1) * (IF "YH" \in hus THEN 2 ELSE 1)

(* The better of the win with wild tiles and the win with them as what they are.  The second *)
(* is never tried: Newlz has cleared num[laizi].                                             *)
HuPai(m) ==
    LET lz   == huType(m)
        w    == lz.m
        hard == huType([w EXCEPT !.num[m.laizi] = w.num[Laizi], !.num[Laizi] = 0]).hus
    IN  IF m.laizi > 0 /\ w.num[m.laizi] > 0 /\ huScore(hard) >= huScore(lz.hus)
          THEN [hus |-> hard, score |-> huScore(hard)]
          ELSE [hus |-> lz.hus, score |-> huScore(lz.hus)]

(* FanShu doubles for every group whose operation has a bit in common with 1011, the three *)
(* gang operations or-ed: every operation that forms a group has.                          *)
FanShu(groups) ==
    LET meets(op) == op % 2 = 1 \/ (op \div 2) % 2 = 1 \/ (op \div 8) % 2 = 1
    IN  2 ^ Cardinality({i \in DOMAIN groups : meets(groups[i].op)})
=============================================================================
