-------------------------------- MODULE Slots --------------------------------
(***************************************************************************)
(* The slot machine of the hall: examples/hall/slots (template_slots.go,   *)
(* struct.go), its handlers in examples/hall/route/route.go and the money  *)
(* of examples/db/redis.go.  The hall runs one handler at a time.          *)
(*                                                                         *)
(* A user id is never the id of a game (ids start at 100000, SlotsFu is    *)
(* 50).  The machine a user plays on is stored under the game and looked   *)
(* for under the user.  Its Uid is never set: every spin is charged to and *)
(* paid to user 0, and the money of the players does not change.           *)
(***************************************************************************)
EXTENDS Integers, Sequences, FiniteSets, FiniteSetsExt, SequencesExt

CONSTANTS
    Players,
    Boards,         \* the boards that shuffle may leave: functions from 0 .. 9 to elements
    MaxSpins        \* bound

ASSUME SlotAssumption == Boards \subseteq [0 .. 9 -> 1 .. 10] /\ MaxSpins \in Nat

SlotsFu == 50
ElemFree == 8
ElemBonus == 9
ElemWild == 10

Multi3 == <<1, 2, 3, 6, 8, 9, 10, 0, 0, 0>>                          \* by element
Lines  == <<<<1, 4, 7>>, <<1, 5, 9>>, <<2, 5, 8>>, <<3, 5, 7>>, <<3, 6, 9>>>>
Weights == <<30, 20, 20, 10, 10, 10, 10, 3, 3, 3>>                    \* of every reel
Bets   == <<1000>>
Levels == <<1, 2, 4, 8, 16, 32, 64>>
BonusMulti   == <<8, 16, 32>>
BonusWeights == <<10, 4, 1>>
FirstBoard == [p \in 0 .. 9 |-> p + 1]

VARIABLES
    data,           \* data: user or game -> board, a partial function
    money,          \* what redis holds for uid 0, the Uid of every machine
    spins,
    last            \* history: the last spin [board, bet, win, lines, bonus, paid], the money
                    \*   before it (from), and whether the player was sent the result (sent)

slotVars == <<data, money, spins, last>>

Sum(weights) == FoldLeft(LAMBDA a, b : a + b, 0, weights)

(* The place that a random number below the sum of the weights falls on. *)
reelGet(weights, random) ==
    FoldLeft(LAMBDA s, i : IF s.at > 0 THEN s
                           ELSE IF s.left < weights[i] THEN [s EXCEPT !.at = i]
                           ELSE [s EXCEPT !.left = @ - weights[i]],
             [left |-> random, at |-> 0], [i \in DOMAIN weights |-> i]).at

shuffle ==
    LET elements == {reelGet(Weights, r) : r \in 0 .. Sum(Weights) - 1}
    IN  {b \in Boards : \A p \in DOMAIN b : b[p] \in elements}

(* BonusConf.Rand, the multiple it returns. *)
Rand == {BonusMulti[i] : i \in {i \in DOMAIN BonusMulti :
                                   \E r \in 0 .. Sum(BonusWeights) - 1 : reelGet(BonusWeights, r) = i}}

(* Valid looks at as many levels as there are bets. *)
Valid(bet, level) ==
    /\ \E i \in DOMAIN Bets : Bets[i] = bet
    /\ \E i \in DOMAIN Bets : Levels[i] = level

NoSpin == [board |-> FirstBoard, bet |-> 0, win |-> 0, lines |-> {}, bonus |-> 0, paid |-> 0,
           from |-> 0, sent |-> FALSE]

SlotInit == data = <<>> /\ money = 0 /\ spins = 0 /\ last = NoSpin

(* GetSlotsData: the key that is looked up, and what is stored when nothing is there. *)
GetSlotsData(uid) ==
    IF uid \in DOMAIN data THEN data
    ELSE [k \in DOMAIN data \cup {SlotsFu} |-> IF k = SlotsFu THEN FirstBoard ELSE data[k]]

-----------------------------------------------------------------------------
(* A line: dest is what its elements have to be, wild until another one is met. *)
Blocks(e) == e \in {ElemFree, ElemBonus}

Along(dest, e) ==
    IF dest = 0 \/ Blocks(e) \/ (dest # ElemWild /\ e \notin {dest, ElemWild}) THEN 0
    ELSE IF dest = ElemWild THEN e ELSE dest

FirstOf(e) == IF Blocks(e) THEN 0 ELSE e

(* Mutant: a wild first element is never replaced. *)
AlongFirst(dest, e) == IF Blocks(e) \/ e \notin {dest, ElemWild} THEN 0 ELSE dest
WinsOfFirst(board, pos) ==
    AlongFirst(AlongFirst(FirstOf(board[pos[1]]), board[pos[2]]), board[pos[3]])

(* The element a line wins with, 0 when it does not win. *)
WinsOf(board, pos) == Along(Along(FirstOf(board[pos[1]]), board[pos[2]]), board[pos[3]])

OverLines(f) == f[1] + f[2] + f[3] + f[4] + f[5]

Elem(board, e) == Cardinality({p \in DOMAIN board : board[p] = e})

(* HINCRBY.  When redis fails the change is not made, or made and its answer lost. *)
UpdateMoney(change, ok) == money' \in {money + change} \cup (IF ok THEN {} ELSE {money})

(* Spin.  Three to five Free elements make GetSpin read the FreeConf that the machine lacks: *)
(* the handler panics before money is touched.  rsp.Win is without the bonus.  After an      *)
(* error of UpdateMoney the new board stays and the player hears nothing.                   *)
Spin(board, bet, m1) ==
    LET won   == {i \in DOMAIN Lines : WinsOf(board, Lines[i]) > 0}
        win   == OverLines([i \in DOMAIN Lines |->
                     IF i \in won THEN Multi3[WinsOf(board, Lines[i])] * bet ELSE 0])
        bonus == IF Elem(board, ElemBonus) >= 3 THEN bet * m1 ELSE 0
    IN  \E ok \in BOOLEAN :
          /\ last' = [board |-> board, bet |-> bet, win |-> win, lines |-> won, bonus |-> bonus,
                      paid |-> win + bonus - bet, from |-> money, sent |-> ok]
          /\ UpdateMoney(win + bonus - bet, ok)

SpinPanics(board) == Elem(board, ElemFree) \in 3 .. 5

spinSlots(u) ==
    /\ spins < MaxSpins /\ spins' = spins + 1
    /\ \/ /\ \E i \in DOMAIN Bets, j \in DOMAIN Levels : ~Valid(Bets[i], Levels[j])
          /\ data' = GetSlotsData(u) /\ UNCHANGED <<money, last>>
       \/ \E board \in shuffle, i \in DOMAIN Bets, j \in DOMAIN Levels, m1 \in Rand :
             /\ Valid(Bets[i], Levels[j])
             /\ Elem(board, ElemBonus) < 3 => m1 = Min(Rand)
             /\ data' = [GetSlotsData(u) EXCEPT ![IF u \in DOMAIN data THEN u ELSE SlotsFu] = board]
             /\ IF SpinPanics(board) THEN UNCHANGED <<money, last>>
                ELSE Spin(board, Bets[i] * Levels[j], m1)

enterSlots(u) == data' = GetSlotsData(u) /\ UNCHANGED <<money, spins, last>>

leaveSlots(u) ==
    data' = [k \in DOMAIN data \ {u} |-> data[k]] /\ UNCHANGED <<money, spins, last>>

SlotNext == \E u \in Players : enterSlots(u) \/ spinSlots(u) \/ leaveSlots(u)

SlotSpec == SlotInit /\ [][SlotNext]_slotVars

-----------------------------------------------------------------------------
(* What a line is worth, said without an order: nothing when Free or Bonus lies on it;     *)
(* else the elements that are not wild are all alike and it pays three of them.  (A line   *)
(* of wild elements wins and pays nothing.)                                                *)
Alike(board, pos) == {board[pos[i]] : i \in 1 .. 3} \ {ElemWild}
Worth(board, pos) ==
    IF \E e \in Alike(board, pos) : Alike(board, pos) = {e}
      THEN Multi3[CHOOSE e \in Alike(board, pos) : TRUE] ELSE 0

(* A spin wins, line by line, what the pay table says, whatever order the wild elements are *)
(* met in.  It changes the money of user 0, who stands in for every player, by lines and     *)
(* bonus less the bet or not at all, never twice; and a result that is sent has been paid.  *)
SpinPaysItsLines ==
    LET worths == [i \in DOMAIN Lines |-> Worth(last.board, Lines[i])] IN
    /\ last.bet > 0 =>
          /\ last.win = last.bet * OverLines(worths)
          /\ \A i \in DOMAIN Lines : worths[i] > 0 => i \in last.lines
    /\ money \in {last.from, last.from + last.paid}
    /\ last.sent => money = last.from + last.paid
=============================================================================
