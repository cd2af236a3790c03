------------------------------ MODULE GameRoom ------------------------------
(***************************************************************************)
(* One mahjong table of the game server: examples/game/route/room.go and   *)
(* user.go, with the client of examples/wsclient as the environment.       *)
(*                                                                         *)
(* The business goroutine runs the handlers one at a time, so an action is *)
(* one whole handler: an answer of a player (optGame -> MjOp), a player    *)
(* who is ready for the next game (continueGame), a reconnect.  A hand is  *)
(* the number of its tiles; which claims a tile offers to a hand is a      *)
(* nondeterministic choice (module Hulz computes it).  The three chi       *)
(* operations are one.  BGang is left out: CanOpSelf never offers it.      *)
(*                                                                         *)
(* A message of the room reaches a client that is online at once; a client *)
(* answers later, once per message that carries offers (told), and sends   *)
(* one Continue for every GameOver, and one for a snapshot of a finished   *)
(* game (due counts them).                                                 *)
(*                                                                         *)
(* A handler that indexes past the wall panics; Route recovers it, and the *)
(* room is left as the handler had it at that point (overrun).             *)
(***************************************************************************)
EXTENDS Integers, FiniteSets, FiniteSetsExt

CONSTANTS
    TileCount,    \* len(r.mj): 136 in the code
    Plays         \* the ways the room is played, see below

Seats == 0 .. 3
HuangZhuang == 10                  \* tiles that are left at haidilao
Dealt == 53                        \* 3 * 4 * 4 + 5 tiles of MajFaPai

ChuPai == 3                        \* the operations, as numbered in mj.go
GuoPai == 4
Chi    == 5
Peng   == 8
MGang  == 9
AGang  == 11
HuPai  == 12
Ops    == {ChuPai, GuoPai, Chi, Peng, MGang, AGang, HuPai}

(* A way the room is played bounds what happens in it: the claims a discard may offer to one *)
(* hand, and a tile to the hand that draws it; what the four hands may do with the last four *)
(* tiles, by seat; the groups made in one game; the games in the room, the last of which is  *)
(* not continued; and the clients that lose their connection.  One of the ways is chosen for *)
(* the room and kept.                                                                        *)
AnyPlay ==
    [claims : {c \in SUBSET SUBSET {Chi, Peng, MGang, HuPai} : {} \in c},
     selfClaims : {c \in SUBSET SUBSET {AGang, HuPai} : {} \in c},
     lastClaims : SUBSET [Seats -> SUBSET {AGang, HuPai}],
     maxGroups : Nat, maxDeals : Nat, maxDrops : Nat]

ASSUME RoomAssumption ==
    /\ TileCount \in Nat /\ TileCount > Dealt + HuangZhuang
    /\ Plays \subseteq AnyPlay

VARIABLES
    play,                          \* the way the room is played
    turn, waitMulti, mjIndex, playing, moved,    \* Room; moved: history # []
    waiting, waitOp, canOps, hand, groups, prepare,    \* User, per seat
    online, told, due,             \* the clients
    deals, drops,                  \* bounded counters
    settled, failed, overrun,      \* history of this game: times huPai ran; a handler stopped
    gangs,                         \*   midway; it did so at the end of the wall; gangs made
    twice                          \* history of the room: a game was settled twice

table   == <<turn, waitMulti, mjIndex, playing, prepare>>
players == <<waiting, canOps, hand, groups>>
clients == <<online, due>>
ghosts  == <<settled, failed, overrun, gangs, twice>>
score   == <<playing, prepare, due, settled, twice>>    \* what the end of a game changes
whole   == <<failed, overrun>>
vars == <<play, table, moved, players, waitOp, clients, told, deals, drops, ghosts>>

All(v)  == [s \in Seats |-> v]
Next4(s) == (s + 1) % 4

Init ==
    /\ play \in Plays
    /\ turn = 0 /\ waitMulti = FALSE /\ mjIndex = 0 /\ playing = FALSE /\ moved = FALSE
    /\ waiting = All(FALSE) /\ waitOp = All(0) /\ canOps = All({})
    /\ hand = All(0) /\ groups = All(0) /\ prepare = All(FALSE)
    /\ online = All(TRUE) /\ told = All(FALSE) /\ due = All(0)
    /\ deals = 0 /\ drops = 0 /\ settled = 0 /\ gangs = 0
    /\ failed = FALSE /\ overrun = FALSE /\ twice = FALSE

(* What a hand of n tiles may do by itself: CanOpSelf of a user who has just drawn. *)
RoomForGroup == MapThenSumSet(LAMBDA s : groups[s], Seats) < play.maxGroups

SelfClaims(n) == {c \in play.selfClaims : AGang \in c => n >= 4 /\ RoomForGroup}

(* The claims a discard can offer together: num[val] of the hand counts the discard, so  *)
(* MGang comes with Peng, and only one hand can hold two of the three other tiles.       *)
Offers(s) ==
    {f \in [Seats -> play.claims] :
        /\ f[s] = {}
        /\ \A t \in Seats : /\ f[t] \cap {Chi, Peng} # {} => hand[t] >= 2 /\ RoomForGroup
                            /\ MGang \in f[t] => Peng \in f[t] /\ hand[t] >= 3
        /\ Cardinality({t \in Seats : Peng \in f[t]}) <= 1}

-----------------------------------------------------------------------------
(* DealMj: the tiles an operation takes out of the hand, and the group it makes. *)
Taken(op) ==
    CASE op = ChuPai -> 1 [] op \in {Chi, Peng} -> 2 [] op = MGang -> 3 [] op = AGang -> 4
      [] OTHER -> 0

(* Mutant: the tile that is played stays in the hand. *)
HandsKeepPlayed(s, op) == [hand EXCEPT ![s] = @ - (IF op = ChuPai THEN 0 ELSE Taken(op))]

Hands(s, op)  == [hand EXCEPT ![s] = @ - Taken(op)]
(* Mutant: a gang forms no group. *)
GroupsNoGang(s, op) == [groups EXCEPT ![s] = @ + (IF Taken(op) = 2 THEN 1 ELSE 0)]

Groups(s, op) == [groups EXCEPT ![s] = @ + (IF Taken(op) > 1 THEN 1 ELSE 0)]
Gangs(op)     == gangs + (IF op \in {MGang, AGang} THEN 1 ELSE 0)
Spent(s)      == [canOps EXCEPT ![s] = {}]

(* s has answered: it is waited for no more, and its message is spent. *)
Answered(s, f) == [f EXCEPT ![s] = FALSE]

(* Mutant: CanOpSelf leaves waitMulti as it was. *)
CanOpSelfKeepsMulti(s, t, h, f, claims) ==
    /\ turn' = t /\ waitMulti' = waitMulti /\ hand' = h
    /\ \E c \in claims : canOps' = [f EXCEPT ![t] = c \cup {ChuPai}]
    /\ waiting' = [Answered(s, waiting) EXCEPT ![t] = TRUE]
    /\ told' = [Answered(s, told) EXCEPT ![t] = online[t]]
    /\ UNCHANGED <<score, whole>>

(* Mutant: the early return of CanOpSelf is taken, and nobody is waited for. *)
CanOpSelfEarly(s, t, h, f, claims) ==
    /\ turn' = t /\ waitMulti' = FALSE /\ hand' = h
    /\ \E c \in claims : canOps' = [f EXCEPT ![t] = c \cup {ChuPai}]
    /\ waiting' = Answered(s, waiting)
    /\ told' = [Answered(s, told) EXCEPT ![t] = online[t]]
    /\ UNCHANGED <<score, whole>>

(* After the answer of s, t, whose turn it is now, is asked what to do with its hand h[t]; *)
(* f are the flags.                                                                        *)
CanOpSelf(s, t, h, f, claims) ==
    /\ turn' = t /\ waitMulti' = FALSE /\ hand' = h
    /\ \E c \in claims : canOps' = [f EXCEPT ![t] = c \cup {ChuPai}]
    /\ waiting' = [Answered(s, waiting) EXCEPT ![t] = TRUE]
    /\ told' = [Answered(s, told) EXCEPT ![t] = online[t]]
    /\ UNCHANGED <<score, whole>>

(* Nothing is dealt after the answer of s: h are the hands, f the flags. *)
Rest(s, t, h, f) ==
    /\ turn' = t /\ hand' = h /\ canOps' = f /\ waitMulti' = FALSE
    /\ waiting' = Answered(s, waiting) /\ told' = Answered(s, told)
    /\ UNCHANGED mjIndex

(* The handler panics at r.mj[r.mjIndex]: what it has not done yet is not done. *)
Overrun == failed' = TRUE /\ overrun' = TRUE /\ UNCHANGED score

(* FaPai: t draws the next tile of the wall, if there is one. *)
FaPai(s, t, h, f) ==
    \/ /\ mjIndex < TileCount
       /\ mjIndex' = mjIndex + 1
       /\ CanOpSelf(s, t, [h EXCEPT ![t] = @ + 1], f, SelfClaims(h[t] + 1))
    \/ mjIndex >= TileCount /\ Overrun /\ Rest(s, t, h, f)

(* A client that hears GameOver will send one more Continue. *)
Continues == [s \in Seats |-> due[s] + (IF online[s] THEN 1 ELSE 0)]

(* Mutants: the users stay prepared; GameOver is not sent. *)
GameOverKeepsPrepare == prepare' = prepare /\ due' = Continues
GameOverUnsent == prepare' = All(FALSE) /\ due' = due

(* GameOver goes to everybody, and every client answers it with Continue. *)
GameOver == prepare' = All(FALSE) /\ due' = Continues

huPai ==
    /\ playing' = FALSE /\ GameOver
    /\ settled' = settled + 1 /\ twice' = (twice \/ settled > 0)

(* Mutant: one more tile is drawn before haidilao. *)
canHDLLate == HuangZhuang + mjIndex > TileCount

canHDL == HuangZhuang + mjIndex >= TileCount

(* doHDL: the last four tiles; the first user with any flag is settled as the winner, and  *)
(* without one GameOver is sent while playing stays TRUE.  Gangs may have left fewer than   *)
(* four: then it panics after the users who drew them.                                      *)
doHDL(t, h, f) ==
    LET left == TileCount - mjIndex
        drew == {u \in Seats : (u - Next4(t) + 4) % 4 < left}
    IN
    /\ turn' = Next4(t) /\ waitMulti' = TRUE
    /\ mjIndex' = IF left >= 4 THEN mjIndex + 4 ELSE TileCount
    /\ hand' = [u \in Seats |-> IF u \in drew THEN h[u] + 1 ELSE h[u]]
    /\ waiting' = [u \in Seats |-> u \in drew]
    /\ \E c \in play.lastClaims :
           canOps' = [u \in Seats |-> IF u \in drew THEN {op \in c[u] : op = AGang => hand'[u] >= 4}
                                                   ELSE f[u]]
    /\ told' = [u \in Seats |-> u \in drew /\ online[u] /\ canOps'[u] # {}]
    /\ \/ left < 4 /\ Overrun
       \/ left >= 4 /\ (\E u \in Seats : canOps'[u] # {}) /\ huPai /\ UNCHANGED whole
       \/ /\ left >= 4 /\ (\A u \in Seats : canOps'[u] = {})
          /\ GameOver /\ UNCHANGED <<playing, settled, twice, whole>>

(* MjOpSelf, 出牌: every other user is asked; without a claim the turn moves on.  Towards  *)
(* haidilao the turn moves on once more than in MjOpOther.                                 *)
Discard(s) ==
    LET h == Hands(s, ChuPai)
        t == Next4(turn)
    IN  \E f \in Offers(s) :
            IF f = All({})
              THEN IF canHDL THEN doHDL(t, h, All({})) ELSE FaPai(s, t, h, All({}))
              ELSE /\ hand' = h
                   /\ waitMulti' = TRUE
                   /\ canOps' = [u \in Seats |-> f[u] \cup (IF f[u] = {} THEN {} ELSE {GuoPai})]
                   /\ waiting' = [u \in Seats |-> f[u] # {}]
                   /\ told' = [u \in Seats |-> online[u] /\ f[u] # {}]
                   /\ UNCHANGED <<turn, mjIndex, score, whole>>

MjOpSelf(s, op) ==
    /\ groups' = Groups(s, op) /\ gangs' = Gangs(op)
    /\ \/ op = ChuPai /\ Discard(s)
       \/ op = AGang /\ FaPai(s, turn, Hands(s, op), Spent(s))
       \/ op = HuPai /\ huPai /\ Rest(s, turn, hand, Spent(s)) /\ UNCHANGED whole

(* getOpUser: the best answer, the nearest after the turn; but without waitMulti, the user *)
(* who answered last.  MjOp clears waitMulti before it calls MjOpOther.                    *)
getOpUser(s, ops, multi) ==
    LET best == {t \in Seats : \A u \in Seats : ops[u] <= ops[t]}
        dis(t) == (t - turn + 4) % 4
    IN  IF multi THEN CHOOSE t \in best : \A u \in best : dis(t) <= dis(u) ELSE s

(* MjOpOther: the claim that is carried out.  AGang can only be among the answers at       *)
(* haidilao; DealMj moves its tiles, and the switch has no case for it.                    *)
MjOpOther(s, op) ==
    LET ops == [waitOp EXCEPT ![s] = op] IN
    \E t \in {getOpUser(s, ops, FALSE)} :
        LET h == Hands(t, ops[t]) IN
        /\ groups' = Groups(t, ops[t]) /\ gangs' = Gangs(ops[t])
        /\ \/ ops[t] = GuoPai /\ IF canHDL THEN doHDL(turn, h, Spent(t))
                                         ELSE FaPai(s, Next4(turn), h, Spent(t))
           \/ ops[t] = MGang /\ FaPai(s, t, h, Spent(t))
           \/ /\ ops[t] \in {Chi, Peng}
              /\ CanOpSelf(s, t, h, Spent(t), SelfClaims(h[t])) /\ UNCHANGED mjIndex
           \/ ops[t] = HuPai /\ huPai /\ Rest(s, turn, h, Spent(t)) /\ UNCHANGED whole
           \/ ops[t] = AGang /\ Rest(s, turn, h, Spent(t)) /\ UNCHANGED <<score, whole>>

(* DealMj fails: the tile of the answer is not in the hand.  MjOp has already counted the  *)
(* answer and nobody is asked again; a chi may have lost its first tile.                   *)
DealFails(s, op) ==
    /\ op \notin {GuoPai, HuPai}
    /\ failed' = TRUE
    /\ \E lost \in {0} \cup (IF op = Chi THEN {1} ELSE {}) :
           Rest(s, turn, [hand EXCEPT ![s] = @ - lost], canOps)
    /\ UNCHANGED <<score, groups, overrun, gangs>>

(* Mutant: the first answer of a round carries it out. *)
WaitingForNobody(s) == FALSE

(* Room.Waiting, after s has answered. *)
Waiting(s) == \E t \in Seats \ {s} : waiting[t]

(* optGame -> MjOp: an answer counts when it was waited for and offered; the last one of a *)
(* round carries it out.  Between two rounds nothing reads waitOp: the model clears it.    *)
MjOp(s, op) ==
    /\ told[s] /\ waiting[s] /\ op \in canOps[s]
    /\ moved' = TRUE
    /\ IF Waiting(s)
         THEN /\ waitOp' = [waitOp EXCEPT ![s] = op]
              /\ waiting' = [waiting EXCEPT ![s] = FALSE]
              /\ told' = [told EXCEPT ![s] = FALSE]
              /\ UNCHANGED <<table, canOps, hand, groups, due, ghosts>>
         ELSE /\ waitOp' = All(0)
              /\ \/ IF waitMulti THEN MjOpOther(s, op) ELSE MjOpSelf(s, op)
                 \/ DealFails(s, op)
    /\ UNCHANGED <<play, online, deals, drops>>

-----------------------------------------------------------------------------
(* Reset and MajFaPai: three rounds of four tiles, one more each and one for the turn user. *)
MajFaPai ==
    /\ deals' = deals + 1
    /\ playing' = TRUE /\ moved' = FALSE /\ waitMulti' = FALSE
    /\ mjIndex' = Dealt
    /\ prepare' = All(TRUE) /\ waitOp' = All(0) /\ groups' = All(0)
    /\ hand' = [s \in Seats |-> IF s = turn THEN 14 ELSE 13]
    /\ \E c \in SelfClaims(14) : canOps' = [All({}) EXCEPT ![turn] = c \cup {ChuPai}]
    /\ waiting' = [s \in Seats |-> s = turn]
    /\ told' = [s \in Seats |-> s = turn /\ online[s]]
    /\ settled' = 0 /\ gangs' = 0 /\ failed' = FALSE /\ overrun' = FALSE
    /\ UNCHANGED <<play, turn, online, drops, twice>>

startGame == deals = 0 /\ deals < play.maxDeals /\ MajFaPai /\ UNCHANGED due

(* continueGame does not look at playing: when every user is prepared, and Reset prepares  *)
(* them all for the game it deals, one Continue deals again.                               *)
continueGame(s) ==
    /\ due[s] > 0 /\ deals < play.maxDeals
    /\ due' = [due EXCEPT ![s] = @ - 1]
    /\ IF \A t \in Seats \ {s} : prepare[t]
         THEN MajFaPai
         ELSE /\ prepare' = [prepare EXCEPT ![s] = TRUE]
              /\ UNCHANGED <<play, turn, waitMulti, mjIndex, playing, moved, players, waitOp, online,
                             told, deals, drops, ghosts>>

(* The connection of a client is lost, and with it what the client was about to answer. *)
Drop(s) ==
    /\ online[s] /\ deals > 0 /\ drops < play.maxDrops
    /\ drops' = drops + 1
    /\ online' = [online EXCEPT ![s] = FALSE]
    /\ told' = [told EXCEPT ![s] = FALSE]
    /\ due' = [due EXCEPT ![s] = 0]
    /\ UNCHANGED <<play, table, moved, players, waitOp, deals, ghosts>>

(* A client with a snapshot answers the offers in it, or sends Continue when the snapshot  *)
(* says that nobody is playing; without one it does nothing.                               *)
Snapshot(s, sent) ==
    /\ told' = [told EXCEPT ![s] = sent /\ playing /\ canOps[s] # {}]
    /\ due' = [due EXCEPT ![s] = IF sent /\ ~playing THEN 1 ELSE 0]

(* Reconnect reads the last element of history and panics before the first move: the       *)
(* client is back but gets no snapshot.                                                    *)
Reconnect(s) ==
    /\ ~online[s]
    /\ online' = [online EXCEPT ![s] = TRUE]
    /\ Snapshot(s, moved)
    /\ UNCHANGED <<play, table, moved, players, waitOp, deals, drops, ghosts>>

Answer(s) == \E op \in Ops : MjOp(s, op)

Next ==
    \/ startGame
    \/ \E s \in Seats : Answer(s) \/ continueGame(s) \/ Drop(s) \/ Reconnect(s)

Spec == Init /\ [][Next]_vars

(* While players can answer, continue or come back, some of them do; the code itself has no *)
(* timeout for them.                                                                       *)
FairSpec ==
    /\ Spec /\ WF_vars(startGame)
    /\ WF_vars(\E s \in Seats : Answer(s)) /\ WF_vars(\E s \in Seats : continueGame(s))
    /\ WF_vars(\E s \in Seats : Reconnect(s))

-----------------------------------------------------------------------------
(* Type correctness; in particular no hand exceeds 14 tiles, whatever is claimed and drawn,  *)
(* also after a panic, and nobody makes a fifth group.                                       *)
TypeOK ==
    /\ play \in Plays /\ turn \in Seats /\ mjIndex \in 0 .. TileCount
    /\ waitMulti \in BOOLEAN /\ playing \in BOOLEAN /\ moved \in BOOLEAN /\ failed \in BOOLEAN
    /\ overrun \in BOOLEAN /\ twice \in BOOLEAN
    /\ waiting \in [Seats -> BOOLEAN] /\ prepare \in [Seats -> BOOLEAN]
    /\ online \in [Seats -> BOOLEAN] /\ told \in [Seats -> BOOLEAN] /\ due \in [Seats -> Nat]
    /\ waitOp \in [Seats -> Ops \cup {0}] /\ canOps \in [Seats -> SUBSET Ops]
    /\ hand \in [Seats -> 0 .. 14] /\ groups \in [Seats -> 0 .. 4]
    /\ deals \in Nat /\ drops \in Nat /\ settled \in Nat /\ gangs \in Nat

(* A game is in progress from MajFaPai to GameOver, which clears prepare. *)
InPlay == playing /\ \A s \in Seats : prepare[s]

(* waitMulti, which decides how MjOp reads the last answer, agrees with who is waited for:   *)
(* with it, users other than the one whose turn it is, who may all pass; without it, the     *)
(* turn user alone, who may play a tile.  So a game in progress always waits for somebody    *)
(* who can move, unless a DealMj has failed (room.go:365,441).                               *)
RoundIsWellFormed ==
    InPlay /\ ~failed =>
        IF waitMulti
          THEN /\ \E s \in Seats : waiting[s]
               /\ \A s \in Seats : waiting[s] => s # turn /\ GuoPai \in canOps[s]
          ELSE /\ \A s \in Seats : waiting[s] <=> s = turn
               /\ ChuPai \in canOps[turn]

(* Draws, claims and gangs keep every hand at 13 tiles, a group counting three, and at 14    *)
(* for the user who is to play.                                                              *)
HandsBalance ==
    InPlay /\ ~failed =>
        \A s \in Seats : hand[s] + 3 * groups[s] = IF ~waitMulti /\ s = turn THEN 14 ELSE 13

(* huPai settles a game once, except after haidilao: doHDL leaves four users waiting, and    *)
(* when every one of them had an offer their answers settle the game a second time; a third  *)
(* time there never is.                                                                      *)
SettledOnce == settled <= IF mjIndex >= TileCount - 6 THEN 2 ELSE 1

(* Room.FaPai and Room.MoPai index the wall without looking at its end.  canHDL leaves ten   *)
(* tiles and haidilao takes four, but every gang draws one more: the wall is overrun, and    *)
(* the handler panics, only in a game with at least seven gangs (room.go:174,257,403,507).   *)
WallLasts == overrun => gangs >= 7

(* continueGame does not look at playing, and a game in progress has everybody prepared:     *)
(* one Continue too many deals it again.  While no connection is lost there is none, until a *)
(* haidilao in which all four users have an offer is settled twice: it sends two GameOvers,  *)
(* each client answers both, and the second answers deal the next games again midway.        *)
NoMidGameRedeal == [][drops = 0 /\ ~twice /\ InPlay => deals' = deals]_vars

(* getOpUser is there to get the best of the answers (room.go:360): when a user has claimed  *)
(* the win and the round is over, the game is settled.                                       *)
HuClaimIsPaid ==
    [][InPlay /\ waitMulti /\ ~waitMulti' /\ ~failed' /\ (\E s \in Seats : waitOp[s] = HuPai)
         => ~playing']_vars

(* A game ends when the players answer: the turn moves on until somebody wins or the wall is *)
(* used up.  The exceptions: a DealMj that fails or a panic at the end of the wall, and a    *)
(* connection lost before the first move, when Reconnect panics on the empty history and the *)
(* client is not told that it may play.                                                      *)
GameEnds == InPlay ~> (~InPlay \/ failed \/ (drops > 0 /\ ~moved))

(* After a game, four Continues deal the next one, unless a client lost its connection: a    *)
(* draw leaves playing set, so the snapshot does not tell the client to continue.            *)
NextGame == (deals \in 1 .. play.maxDeals - 1 /\ ~InPlay) ~> (InPlay \/ drops > 0)
=============================================================================
