--------------------------------- MODULE Mj ---------------------------------
(* Tiles, operations and groups of mj/mj.go. *)
EXTENDS Integers

Zhong == 5
Laizi == 8
Tiao1 == 11
Wan1  == 21
Tong1 == 31
Tong9 == 39
Chun  == 41

ChuPai == 3
LChi == 5
MChi == 6
RChi == 7
Peng == 8
MGang == 9
BGang == 10
AGang == 11
HuPaiOp == 12
Jiang == 13
Shun == 14
Ke == 15

Chis == {LChi, MChi, RChi}
Suit(t) == t \div 10
Group(op, val) == [op |-> op, val |-> val]
Tiles == 0 .. Chun - 1
Natural == Tiles \ {Laizi}            \* what is not a wild tile

(* The wild tile is the one after the tile that is turned over. *)
GetLaizi(pizi) ==
    CASE pizi = 4 -> 1 [] pizi = 7 -> Zhong
      [] pizi % 10 = 9 -> pizi - 8
      [] OTHER -> pizi + 1
=============================================================================
