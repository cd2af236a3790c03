--------------------------------- MODULE Hu ---------------------------------
(***************************************************************************)
(* mj/hu.go, the judge without laizi, which the tests use.  A judge is     *)
(* [val, num, groups, pai]: the different tiles of the hand in order, how  *)
(* many there are of each, the groups.  Its searches restore what they     *)
(* take, so they are written as predicates on the counts.                  *)
(***************************************************************************)
EXTENDS Mj, Sequences, FiniteSets, FiniteSetsExt, SequencesExt

(* Tile by tile in their order, those that are held. *)
New(mj, p, groups) ==
    LET have(t) == mj[t] + (IF p > 0 /\ t = p THEN 1 ELSE 0)
        upTo[n \in 0 .. Chun] ==
            IF n = 0 THEN [val |-> <<>>, num |-> <<>>]
            ELSE LET r == upTo[n - 1]
                 IN  IF have(n - 1) = 0 THEN r
                     ELSE [val |-> Append(r.val, n - 1), num |-> Append(r.num, have(n - 1))]
    IN  [val |-> upTo[Chun].val, num |-> upTo[Chun].num, groups |-> groups, pai |-> p]

Places(m) == DOMAIN m.val
Less(num, i, k) == [num EXCEPT ![i] = @ - k]
next(num, i) == Min({j \in i .. Len(num) + 1 : j > Len(num) \/ num[j] # 0})

deal_kezi(deeper, val, num, i) ==
    \/ i > Len(num)
    \/ num[i] >= 3 /\ LET n == Less(num, i, 3) IN deeper[val][n][next(n, i)]

deal_shunzi(deeper, val, num, i) ==
    \/ i > Len(num)
    \/ /\ i + 2 <= Len(num) /\ val[i] >= Tiao1
       /\ \A k \in 0 .. 2 : num[i + k] >= 1 /\ val[i + k] = val[i] + k
       /\ LET n == Less(Less(Less(num, i, 1), i + 1, 1), i + 2, 1) IN deeper[val][n][next(n, i)]

(* The two call each other, for as many groups as there can be (see Hulz). *)
Rounds == 4 * Chun

Deals[k \in 0 .. Rounds] ==
    [val \in Seq(Nat) |-> [num \in Seq(Int) |-> [i \in Nat |->
        k > 0 /\ (deal_kezi(Deals[k - 1], val, num, i) \/ deal_shunzi(Deals[k - 1], val, num, i))]]]

Deal(val, num, i) == Deals[Rounds][val][num][i]

(* The groups are looked for from the first place, whether its tiles are left or not. *)
hu233(m) == \E i \in Places(m) : m.num[i] >= 2 /\ Deal(m.val, Less(m.num, i, 2), 1)

huQd(m) == Len(m.num) = 7 /\ \A i \in Places(m) : m.num[i] \in {2, 4}

IsJiang(val) == Suit(val) \in 1 .. 3 /\ val % 10 \in {2, 5, 8}
huJys(m) == \A i \in Places(m) : IsJiang(m.val[i])

huHh(m) == Cardinality({i \in DOMAIN m.groups : m.groups[i].op = AGang})
           + Cardinality({i \in Places(m) : m.num[i] = 4})

huQys(m) == /\ \A i \in Places(m) : Suit(m.val[i]) = Suit(m.val[1])
            /\ \A i \in DOMAIN m.groups : Suit(m.groups[i].val) = Suit(m.val[1])

huPph(m) == /\ \A i \in DOMAIN m.groups : m.groups[i].op \notin Chis
            /\ \A i \in Places(m) : m.num[i] % 3 # 1

huQqr(m) == m.pai # 0 /\ m.num = <<2>>

CanHu(m) == hu233(m) \/ huQd(m) \/ huJys(m)

HdlPai == 2

CanOpSelf(m, op) ==
    LET gangs == {Group(AGang, m.val[i]) : i \in {i \in Places(m) : m.num[i] = 4}}
        penged == {m.groups[i].val : i \in {i \in DOMAIN m.groups : m.groups[i].op = Peng}}
        added == {Group(BGang, m.val[i]) : i \in {i \in Places(m) : m.val[i] \in penged /\ m.num[i] > 0}}
    IN  (IF op = HdlPai THEN {} ELSE gangs \cup added)
        \cup (IF op \notin Chis \cup {Peng} /\ CanHu(m) THEN {Group(HuPaiOp, 0)} ELSE {})

CanOpOther(m, val, op) ==
    LET at(i, v) == i \in Places(m) /\ m.val[i] = v
        fits(o, i) == CASE o = LChi  -> at(i + 1, val + 1) /\ at(i + 2, val + 2)
                        [] o = MChi  -> at(i - 1, val - 1) /\ at(i + 1, val + 1)
                        [] o = RChi  -> at(i - 2, val - 2) /\ at(i - 1, val - 1)
                        [] o = Peng  -> m.num[i] >= 3
                        [] o = MGang -> m.num[i] >= 4
        claims == {o \in Chis \cup {Peng, MGang} :
                     op = ChuPai /\ \E i \in Places(m) : at(i, val) /\ fits(o, i)}
    IN  {Group(o, val) : o \in claims \cup (IF CanHu(m) THEN {HuPaiOp} ELSE {})}

HuPai(m) ==
    LET base == (IF hu233(m) THEN {"PH"} ELSE IF huQd(m) THEN {"QD"} ELSE {})
                \cup (IF huJys(m) THEN {"JYS"} ELSE {})
        hh   == CASE huHh(m) = 1 -> {"HH"} [] huHh(m) = 2 -> {"HH2"} [] huHh(m) = 3 -> {"HH3"}
                  [] OTHER -> {}
    IN  IF base = {} THEN {}
        ELSE base \cup (IF huPph(m) THEN {"PPH"} ELSE {}) \cup (IF huQys(m) THEN {"QYS"} ELSE {})
                  \cup (IF huQqr(m) THEN {"QQR"} ELSE {}) \cup hh
=============================================================================
