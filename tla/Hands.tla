-------------------------------- MODULE Hands --------------------------------
(***************************************************************************)
(* What the two judges of mj/ are meant to decide, and hands to ask them   *)
(* about.  The judge with laizi is extended; the one without, which shares *)
(* most of its names, is the instance mj.                                  *)
(*                                                                         *)
(* A hand is drawn tile by tile; it is judged when it has a pair and       *)
(* groups of three.                                                        *)
(***************************************************************************)
EXTENDS Hulz

CONSTANTS
    Deck,          \* the tiles that are drawn, the wild one apart
    MaxHand,        \* bound: tiles in hand
    MaxWild         \* bound: wild tiles in hand

(* The tiles of the game, every one of which is there four times: BanBiShanMJ. *)
Played == 1 .. 7 \cup Tiao1 .. 19 \cup Wan1 .. 29 \cup Tong1 .. Tong9

ASSUME HandsAssumption == Deck \subseteq Played /\ MaxHand \in Nat /\ MaxWild \in 0 .. 4

VARIABLE hand       \* tile -> how many

mj == INSTANCE Hu

Full    == [t \in Tiles |-> IF t \in DOMAIN hand THEN hand[t] ELSE 0]
Plain   == [Full EXCEPT ![Laizi] = 0]
Total(n) == LET upTo[i \in 0 .. Chun] == IF i = 0 THEN 0 ELSE upTo[i - 1] + n[i - 1] IN upTo[Chun]
Size    == Total(Full)
Judged  == Size % 3 = 2
Judge   == [num |-> Full, groups |-> <<>>, laizi |-> 0, pai |-> 0]

HandInit == hand = [t \in Deck \cup {Laizi} |-> 0]

Draw(t) ==
    /\ Size < MaxHand /\ hand[t] < (IF t = Laizi THEN MaxWild ELSE 4)
    /\ hand' = [hand EXCEPT ![t] = @ + 1]

HandNext == \E t \in Deck \cup {Laizi} : Draw(t)

HandSpec == HandInit /\ [][HandNext]_hand

-----------------------------------------------------------------------------
(* The reference: a pair, some runs, and of every tile a multiple of three besides.  A run *)
(* starts at a tile at most twice, three equal runs being three triples.                   *)
Held(n) == {t \in Tiles : n[t] > 0}
Starts(n) == {t \in Tiao1 .. Chun : t .. t + 2 \subseteq Held(n)}
From(runs, t) == IF t \in DOMAIN runs THEN runs[t] ELSE 0
Through(runs, t) == From(runs, t - 2) + From(runs, t - 1) + From(runs, t)

InGroups(n) ==
    \E runs \in [Starts(n) -> 0 .. 2] :
        \A t \in Tiles : n[t] >= Through(runs, t) /\ (n[t] - Through(runs, t)) % 3 = 0

WinsWithPair(n, p) == n[p] >= 2 /\ InGroups([n EXCEPT ![p] = @ - 2])

(* The wild tiles are made any tiles, those near the hand being enough. *)
Near(n) == {t \in Played : \E d \in -2 .. 2 : t + d \in Held(n)}
Made(n, made) == [t \in Tiles |-> n[t] + Cardinality({i \in DOMAIN made : made[i] = t})]
IsWin(n, wild) == \E made \in [1 .. wild -> Near(n)] : \E p \in Tiles : WinsWithPair(Made(n, made), p)

(* The last tile of a suit and the first of the next are two apart, and IsRun does not see *)
(* that the wild tile between them would be no tile.                                       *)
Bridged == hand[Laizi] > 0 /\ \E t \in Held(Full) : t + 1 \notin Played /\ t + 2 \in Held(Full)

(* Unless a hand is bridged hulz.go never calls it a win when it is none, whatever its wild *)
(* tiles.  It finds every win without wild tiles, and with one unless a tile of the end of  *)
(* the last suit is in hand (IsRun has no run above 37).  (With two it misses those that    *)
(* need both in one run.)  hu.go finds exactly the wins whose pair is not all there is of   *)
(* the lowest tile.                                                                         *)
JudgesFindDecompositions ==
    Judged =>
      LET won  == IsWin(Plain, hand[Laizi])
          wild == hand[Laizi]
          lowest == Min(Held(Full) \cup {Chun})
      IN  /\ hu233(Judge).ok => won \/ Bridged
          /\ (wild = 0 \/ (wild = 1 /\ Held(Full) \cap {38, 39} = {})) => (won => hu233(Judge).ok)
          /\ wild = 0 =>
                mj!hu233(mj!New(Full, 0, <<>>)) =
                    \E p \in Held(Full) : WinsWithPair(Full, p) /\ (p # lowest \/ Full[p] > 2)

(* The searches of hulz.go, which count tiles down and up in place, leave a hand with at   *)
(* most two wild tiles as they found it, whether it is a win or not, so that the kinds of   *)
(* win judged afterwards see the real hand.                                                *)
JudgeGivesBack == Judged /\ hand[Laizi] <= 2 => hu233(Judge).m.num = Full
=============================================================================
