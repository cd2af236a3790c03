--------------------------- MODULE GameRoom_proofs ---------------------------
(***************************************************************************)
(* One table (module GameRoom), for any wall, any claims and any number of *)
(* groups, games and lost connections: while a game is in progress and no  *)
(* handler has stopped midway, the round waits for who can move and every  *)
(* hand has the tiles it should have; a game is settled twice only after   *)
(* haidilao; and until then, without a lost connection, no game is dealt   *)
(* again while it lasts.  From the same invariant and from what the claims *)
(* of the users who are waited for need: no hand and no number of groups   *)
(* leaves its bounds, and the wall is overrun only after seven gangs.      *)
(***************************************************************************)
EXTENDS GameRoom, TLAPS

Flags == [Seats -> BOOLEAN]

RoomTypes ==
    /\ play \in Plays /\ turn \in Seats /\ mjIndex \in Int /\ settled \in Nat /\ gangs \in Nat
    /\ deals \in Nat /\ drops \in Nat
    /\ waitMulti \in BOOLEAN /\ playing \in BOOLEAN
    /\ failed \in BOOLEAN /\ overrun \in BOOLEAN /\ twice \in BOOLEAN
    /\ waiting \in Flags /\ prepare \in Flags /\ online \in Flags /\ told \in Flags
    /\ due \in [Seats -> Nat]
    /\ waitOp \in [Seats -> Int] /\ canOps \in [Seats -> SUBSET Ops]
    /\ hand \in [Seats -> Int] /\ groups \in [Seats -> Int]

(* What holds between two answers of a game in progress.  The last conjunct is needed       *)
(* because MjOpOther has no case for the gang out of the own hand.                         *)
Playable ==
    /\ IF waitMulti
         THEN /\ \E s \in Seats : waiting[s]
              /\ \A s \in Seats : waiting[s] => s # turn /\ GuoPai \in canOps[s]
         ELSE /\ \A s \in Seats : waiting[s] <=> s = turn
              /\ ChuPai \in canOps[turn]
    /\ \A s \in Seats : hand[s] + 3 * groups[s] = IF ~waitMulti /\ s = turn THEN 14 ELSE 13
    /\ waitMulti => \A s \in Seats : canOps[s] \subseteq {GuoPai, Chi, Peng, MGang, HuPai}

PlayInv == InPlay /\ ~failed => Playable

(* Somebody is waited for in a game in progress that is not settled yet, or after haidilao,  *)
(* when an offer means that the game has been settled.                                       *)
SomebodyWaits == \E s \in Seats : waiting[s]

AskedInPlay == InPlay /\ settled = 0

AskedAtEnd ==
    /\ waitMulti /\ settled <= 1 /\ mjIndex >= TileCount - 6
    /\ \A s \in Seats :
           waiting[s] => canOps[s] \subseteq {AGang, HuPai} /\ (canOps[s] # {} => settled = 1)

AskInv == SomebodyWaits => AskedInPlay \/ AskedAtEnd

(* As long as no connection is lost and no game is settled twice, whoever will send Continue *)
(* is not prepared, and will send one.                                                       *)
OneContinueEach == \A s \in Seats : due[s] <= 1 /\ (due[s] > 0 => ~prepare[s])

RedealInv ==
    drops = 0 => /\ \A s \in Seats : online[s]
                 /\ deals = 0 => ~playing /\ \A s \in Seats : ~told[s] /\ due[s] = 0
                 /\ twice \/ OneContinueEach

RoomInv == RoomTypes /\ PlayInv /\ SettledOnce /\ AskInv /\ RedealInv

-----------------------------------------------------------------------------
(* Whatever way the room is played, this is what may be claimed. *)
LEMMA PlayTypes ==
    ASSUME RoomTypes
    PROVE  /\ play.claims \subseteq SUBSET {Chi, Peng, MGang, HuPai}
           /\ play.selfClaims \subseteq SUBSET {AGang, HuPai}
           /\ play.lastClaims \subseteq [Seats -> SUBSET {AGang, HuPai}]
<1>1. play \in AnyPlay  BY RoomAssumption DEF RoomTypes, RoomAssumption
<1> QED BY <1>1 DEF AnyPlay

(* The tiles an operation takes and the group it makes keep 13 in balance with the tile     *)
(* that is drawn or claimed.                                                               *)
LEMMA TakenIs ==
    /\ Taken(ChuPai) = 1 /\ Taken(Chi) = 2 /\ Taken(Peng) = 2 /\ Taken(MGang) = 3 /\ Taken(AGang) = 4
    /\ Taken(GuoPai) = 0 /\ Taken(HuPai) = 0
BY DEF Taken, ChuPai, Chi, Peng, MGang, AGang, GuoPai, HuPai

LEMMA HandsIs ==
    ASSUME RoomTypes, NEW s \in Seats, NEW op \in Ops
    PROVE  /\ Taken(op) \in Int
           /\ Hands(s, op) \in [Seats -> Int] /\ Groups(s, op) \in [Seats -> Int]
           /\ \A t \in Seats : Hands(s, op)[t] = hand[t] - (IF t = s THEN Taken(op) ELSE 0)
           /\ \A t \in Seats : Groups(s, op)[t] = groups[t] + (IF t = s /\ Taken(op) > 1 THEN 1 ELSE 0)
           /\ Spent(s) \in [Seats -> SUBSET Ops]
<1>1. Taken(op) \in Int  BY TakenIs DEF Ops
<1> QED BY <1>1 DEF RoomTypes, Hands, Groups, Spent

LEMMA GangsNat == ASSUME RoomTypes, NEW op PROVE Gangs(op) \in Nat /\ Gangs(op) >= gangs
BY DEF RoomTypes, Gangs

LEMMA Next4Seat == \A t \in Seats : Next4(t) \in Seats
BY DEF Seats, Next4

LEMMA SelfClaimsType ==
    ASSUME RoomTypes PROVE \A n : SelfClaims(n) \subseteq SUBSET {AGang, HuPai}
BY PlayTypes DEF SelfClaims

(* What asking t leaves behind, after the answer of s. *)
LEMMA CanOpSelfStep ==
    ASSUME RoomTypes, NEW s \in Seats, NEW t \in Seats, NEW h \in [Seats -> Int],
           NEW f \in [Seats -> SUBSET Ops], NEW claims \in SUBSET SUBSET {AGang, HuPai},
           CanOpSelf(s, t, h, f, claims)
    PROVE  /\ turn' = t /\ waitMulti' = FALSE /\ hand' = h
           /\ canOps' \in [Seats -> SUBSET Ops] /\ ChuPai \in canOps'[t]
           /\ waiting' \in Flags /\ told' \in Flags
           /\ \A u \in Seats : waiting'[u] <=> u = t \/ (waiting[u] /\ u # s)
           /\ UNCHANGED <<score, whole>>
<1>1. PICK c \in claims : canOps' = [f EXCEPT ![t] = c \cup {ChuPai}]  BY DEF CanOpSelf
<1>2. c \cup {ChuPai} \in SUBSET Ops  BY DEF Ops
<1>3. canOps' \in [Seats -> SUBSET Ops] /\ ChuPai \in canOps'[t]  BY <1>1, <1>2
<1>4. /\ waiting' = [Answered(s, waiting) EXCEPT ![t] = TRUE]
      /\ told' = [Answered(s, told) EXCEPT ![t] = online[t]]
      /\ turn' = t /\ waitMulti' = FALSE /\ hand' = h
      /\ UNCHANGED <<score, whole>>
      BY DEF CanOpSelf
<1>5. /\ waiting' \in Flags /\ told' \in Flags
      /\ \A u \in Seats : waiting'[u] <=> u = t \/ (waiting[u] /\ u # s)
      BY <1>4 DEF RoomTypes, Flags, Answered
<1> QED BY <1>3, <1>4, <1>5

LEMMA FaPaiStep ==
    ASSUME RoomTypes, NEW s \in Seats, NEW t \in Seats, NEW h \in [Seats -> Int],
           NEW f \in [Seats -> SUBSET Ops], FaPai(s, t, h, f), mjIndex < TileCount
    PROVE  /\ turn' = t /\ waitMulti' = FALSE /\ hand' = [h EXCEPT ![t] = @ + 1]
           /\ hand' \in [Seats -> Int] /\ mjIndex' = mjIndex + 1
           /\ canOps' \in [Seats -> SUBSET Ops] /\ ChuPai \in canOps'[t]
           /\ waiting' \in Flags /\ told' \in Flags
           /\ \A u \in Seats : waiting'[u] <=> u = t \/ (waiting[u] /\ u # s)
           /\ UNCHANGED <<score, whole>>
<1> DEFINE g == [h EXCEPT ![t] = @ + 1]
<1>1. g \in [Seats -> Int]  OBVIOUS
<1>2. CanOpSelf(s, t, g, f, SelfClaims(h[t] + 1)) /\ mjIndex' = mjIndex + 1
  <2>1. mjIndex \in Int /\ TileCount \in Int  BY RoomAssumption DEF RoomTypes, RoomAssumption
  <2>2. ~(mjIndex >= TileCount)  BY <2>1
  <2> QED BY <2>2 DEF FaPai
<1>3. SelfClaims(h[t] + 1) \in SUBSET SUBSET {AGang, HuPai}  BY SelfClaimsType
<1> HIDE DEF g
<1>4. /\ turn' = t /\ waitMulti' = FALSE /\ hand' = g
      /\ canOps' \in [Seats -> SUBSET Ops] /\ ChuPai \in canOps'[t]
      /\ waiting' \in Flags /\ told' \in Flags
      /\ \A u \in Seats : waiting'[u] <=> u = t \/ (waiting[u] /\ u # s)
      /\ UNCHANGED <<score, whole>>
      BY <1>1, <1>2, <1>3, CanOpSelfStep
<1> QED BY <1>1, <1>2, <1>4 DEF g

LEMMA FaPaiEnds ==
    ASSUME RoomTypes, NEW s, NEW t, NEW h, NEW f, FaPai(s, t, h, f), ~(mjIndex < TileCount)
    PROVE  mjIndex >= TileCount /\ Overrun /\ Rest(s, t, h, f)
BY DEF FaPai

(* Nobody is asked after the answer of s. *)
LEMMA RestStep ==
    ASSUME RoomTypes, NEW s \in Seats, NEW t \in Seats, NEW h \in [Seats -> Int],
           NEW f \in [Seats -> SUBSET Ops], Rest(s, t, h, f)
    PROVE  /\ turn' = t /\ hand' = h /\ canOps' = f /\ waitMulti' = FALSE /\ mjIndex' = mjIndex
           /\ waiting' \in Flags /\ told' \in Flags
           /\ \A u \in Seats : waiting'[u] => waiting[u] /\ u # s
<1>1. /\ turn' = t /\ hand' = h /\ canOps' = f /\ waitMulti' = FALSE /\ mjIndex' = mjIndex
      /\ waiting' = [waiting EXCEPT ![s] = FALSE] /\ told' = [told EXCEPT ![s] = FALSE]
      BY DEF Rest, Answered
<1>2. /\ waiting' \in Flags /\ told' \in Flags
      /\ \A u \in Seats : waiting'[u] => waiting[u] /\ u # s
      BY <1>1 DEF RoomTypes, Flags
<1> QED BY <1>1, <1>2

(* GameOver: nobody is prepared, and whoever is online will send one more Continue. *)
LEMMA GameOverStep ==
    ASSUME RoomTypes, GameOver
    PROVE  /\ prepare' = [u \in Seats |-> FALSE] /\ prepare' \in Flags
           /\ due' \in [Seats -> Nat] /\ ~InPlay'
           /\ \A u \in Seats : due'[u] <= due[u] + 1
<1>1. 0 \in Seats  BY DEF Seats
<1>2. prepare' = [u \in Seats |-> FALSE] /\ prepare' \in Flags /\ ~InPlay'
      BY <1>1 DEF GameOver, All, Flags, InPlay
<1>3. due' = [u \in Seats |-> due[u] + (IF online[u] THEN 1 ELSE 0)]  BY DEF GameOver, Continues
<1>4. \A u \in Seats : due[u] \in Nat  BY DEF RoomTypes
<1>5. \A u \in Seats : due[u] + (IF online[u] THEN 1 ELSE 0) \in Nat  BY <1>4
<1> QED BY <1>2, <1>3, <1>4, <1>5

LEMMA huPaiStep ==
    ASSUME RoomTypes, huPai
    PROVE  /\ playing' = FALSE /\ settled' = settled + 1 /\ settled' \in Nat
           /\ prepare' \in Flags /\ due' \in [Seats -> Nat] /\ ~InPlay' /\ GameOver
           /\ twice' \in BOOLEAN /\ (~twice' => ~twice /\ settled = 0)
<1>1. settled \in Nat /\ twice \in BOOLEAN  BY DEF RoomTypes
<1>2. playing' = FALSE /\ GameOver /\ settled' = settled + 1 /\ twice' = (twice \/ settled > 0)
      BY DEF huPai
<1>3. prepare' \in Flags /\ due' \in [Seats -> Nat] /\ ~InPlay'  BY <1>2, GameOverStep
<1>4. twice' \in BOOLEAN /\ (~twice' => ~twice /\ ~(settled > 0))
  <2>1. (twice \/ settled > 0) \in BOOLEAN  OBVIOUS
  <2> QED BY <1>2, <2>1
<1>5. ~(settled > 0) => settled = 0  BY <1>1
<1>6. settled + 1 \in Nat  BY <1>1
<1> QED BY <1>2, <1>3, <1>4, <1>5, <1>6

(* Haidilao: the last tiles are dealt, and nobody can do more than win or show four of a     *)
(* kind.                                                                                     *)
LEMMA doHDLTypes ==
    ASSUME RoomTypes, NEW t \in Seats, NEW h \in [Seats -> Int],
           NEW f \in [Seats -> SUBSET Ops], doHDL(t, h, f)
    PROVE  /\ turn' \in Seats /\ waitMulti' = TRUE /\ hand' \in [Seats -> Int]
           /\ mjIndex' \in Int /\ waiting' \in Flags /\ told' \in Flags
           /\ canOps' \in [Seats -> SUBSET Ops]
           /\ \A u \in Seats :
                  waiting'[u] => /\ canOps'[u] \subseteq {AGang, HuPai}
                                 /\ (AGang \in canOps'[u] => hand'[u] >= 4)
                                 /\ hand'[u] = h[u] + 1
           /\ \A u \in Seats : ~waiting'[u] => hand'[u] = h[u]
<1> DEFINE drew == {u \in Seats : (u - Next4(t) + 4) % 4 < TileCount - mjIndex}
<1>1. /\ turn' = Next4(t) /\ waitMulti' = TRUE
      /\ mjIndex' = IF TileCount - mjIndex >= 4 THEN mjIndex + 4 ELSE TileCount
      /\ hand' = [u \in Seats |-> IF u \in drew THEN h[u] + 1 ELSE h[u]]
      /\ waiting' = [u \in Seats |-> u \in drew]
      /\ told' = [u \in Seats |-> u \in drew /\ online[u] /\ canOps'[u] # {}]
      BY DEF doHDL
<1>2. PICK c \in play.lastClaims :
          canOps' = [u \in Seats |-> IF u \in drew THEN {op \in c[u] : op = AGang => hand'[u] >= 4}
                                                  ELSE f[u]]
      BY DEF doHDL
<1> HIDE DEF drew
<1>3. turn' \in Seats  BY <1>1, Next4Seat
<1>4. mjIndex' \in Int  BY <1>1, RoomAssumption DEF RoomAssumption, RoomTypes
<1>5. waiting' \in Flags /\ told' \in Flags
  <2>1. \A u \in Seats : (u \in drew) \in BOOLEAN /\ (u \in drew /\ online[u] /\ canOps'[u] # {}) \in BOOLEAN
        BY DEF RoomTypes, Flags
  <2> QED BY <1>1, <2>1 DEF Flags
<1>6. c \in [Seats -> SUBSET {AGang, HuPai}]  BY PlayTypes
<1>7. ASSUME NEW u \in Seats, u \in drew
      PROVE  /\ canOps'[u] \subseteq {AGang, HuPai} /\ (AGang \in canOps'[u] => hand'[u] >= 4)
             /\ hand'[u] = h[u] + 1
      BY <1>1, <1>2, <1>6, <1>7
<1>8. ASSUME NEW u \in Seats, u \notin drew
      PROVE  canOps'[u] = f[u] /\ hand'[u] = h[u]
      BY <1>1, <1>2, <1>8
<1>9. canOps' \in [Seats -> SUBSET Ops]
  <2>1. {AGang, HuPai} \subseteq Ops  BY DEF Ops
  <2>2. \A u \in Seats : canOps'[u] \subseteq Ops  BY <1>7, <1>8, <2>1
  <2> QED BY <1>2, <2>2
<1>10. hand' \in [Seats -> Int]
  <2>1. \A u \in Seats : h[u] \in Int /\ h[u] + 1 \in Int  OBVIOUS
  <2> QED BY <1>1, <2>1
<1>11. \A u \in Seats : waiting'[u] <=> u \in drew  BY <1>1
<1> QED BY <1>1, <1>3, <1>4, <1>5, <1>7, <1>8, <1>9, <1>10, <1>11

(* With four tiles left it ends the game; with fewer it panics. *)
LEMMA doHDLEnds ==
    ASSUME RoomTypes, NEW t, NEW h, NEW f, doHDL(t, h, f), canHDL
    PROVE  \/ mjIndex > TileCount - 4 /\ mjIndex' = TileCount /\ Overrun
           \/ /\ mjIndex' = mjIndex + 4 /\ mjIndex' <= TileCount /\ mjIndex' >= TileCount - 6
              /\ UNCHANGED whole
              /\ \/ huPai
                 \/ GameOver /\ UNCHANGED <<playing, settled, twice>>
                    /\ \A u \in Seats : canOps'[u] = {}
<1>1. mjIndex \in Int /\ TileCount \in Int  BY RoomAssumption DEF RoomAssumption, RoomTypes
<1>2. mjIndex >= TileCount - 10  BY <1>1 DEF canHDL, HuangZhuang
<1>3. /\ mjIndex' = IF TileCount - mjIndex >= 4 THEN mjIndex + 4 ELSE TileCount
      /\ \/ TileCount - mjIndex < 4 /\ Overrun
         \/ TileCount - mjIndex >= 4 /\ huPai /\ UNCHANGED whole
         \/ /\ TileCount - mjIndex >= 4 /\ (\A u \in Seats : canOps'[u] = {})
            /\ GameOver /\ UNCHANGED <<playing, settled, twice, whole>>
      BY DEF doHDL
<1>4. CASE TileCount - mjIndex < 4
  <2>1. mjIndex > TileCount - 4 /\ mjIndex' = TileCount /\ ~(TileCount - mjIndex >= 4)
        BY <1>1, <1>3, <1>4
  <2> QED BY <1>3, <2>1
<1>5. CASE TileCount - mjIndex >= 4
  <2>1. /\ mjIndex' = mjIndex + 4 /\ mjIndex' <= TileCount /\ mjIndex' >= TileCount - 6
        /\ ~(TileCount - mjIndex < 4)
        BY <1>1, <1>2, <1>3, <1>5
  <2> QED BY <1>3, <2>1
<1> QED BY <1>1, <1>4, <1>5

-----------------------------------------------------------------------------
(* Who has offers other than those of haidilao is asked in a game in progress. *)
LEMMA WhoIsAsked ==
    ASSUME RoomInv, NEW s \in Seats, waiting[s], NEW op \in canOps[s],
           ~waitMulti \/ op \notin {AGang, HuPai}
    PROVE  AskedInPlay
BY DEF RoomInv, AskInv, SomebodyWaits, AskedAtEnd

LEMMA AskStays ==
    ASSUME AskedInPlay, UNCHANGED score
    PROVE  AskInv'
BY DEF AskedInPlay, AskInv, InPlay, score

LEMMA NobodyAsked ==
    ASSUME \A u \in Seats : ~waiting'[u]
    PROVE  AskInv'
BY DEF AskInv, SomebodyWaits

(* Who can answer has been dealt a game. *)
LEMMA RedealStays ==
    ASSUME RoomInv, NEW s \in Seats, told[s], UNCHANGED <<play, score, online, deals, drops>>
    PROVE  RedealInv'
BY DEF RoomInv, RedealInv, OneContinueEach, score

(* The game has sent no GameOver before: every user is prepared. *)
LEMMA RedealAtEnd ==
    ASSUME RoomInv, NEW s \in Seats, told[s], GameOver, UNCHANGED <<play, online, deals, drops>>,
           twice' \in BOOLEAN, ~twice' => ~twice /\ InPlay
    PROVE  RedealInv'
<1> SUFFICES ASSUME drops = 0 PROVE RedealInv'  BY DEF RedealInv
<1>1. (\A u \in Seats : online'[u]) /\ deals' # 0  BY DEF RoomInv, RedealInv
<1>2. ASSUME ~twice' PROVE OneContinueEach'
  <2>1. OneContinueEach /\ \A u \in Seats : prepare[u]  BY <1>2 DEF RoomInv, RedealInv, InPlay
  <2>2. \A u \in Seats : due[u] \in Nat  BY DEF RoomInv, RoomTypes
  <2>3. \A u \in Seats : due[u] = 0  BY <2>1, <2>2 DEF OneContinueEach
  <2>4. \A u \in Seats : due'[u] <= due[u] + 1 /\ ~prepare'[u]  BY GameOverStep DEF RoomInv
  <2>5. \A u \in Seats : due'[u] <= 1  BY <2>3, <2>4
  <2> QED BY <2>4, <2>5 DEF OneContinueEach
<1> QED BY <1>1, <1>2 DEF RedealInv

(* An answer that leaves the game going, and one that ends it. *)
LEMMA GoesOn ==
    ASSUME RoomInv, NEW s \in Seats, told[s], RoomTypes', AskInv',
           UNCHANGED <<play, score, failed, online, deals, drops>>,
           mjIndex' >= mjIndex, InPlay /\ ~failed => Playable'
    PROVE  RoomInv'
<1>1. PlayInv'  BY DEF PlayInv, InPlay, score
<1>2. SettledOnce'
  <2>1. mjIndex \in Int /\ mjIndex' \in Int /\ TileCount \in Int /\ settled \in Nat
        BY RoomAssumption DEF RoomInv, RoomTypes, RoomAssumption
  <2>2. settled' = settled  BY DEF score
  <2> QED BY <2>1, <2>2 DEF RoomInv, SettledOnce
<1>3. RedealInv'  BY RedealStays
<1> QED BY <1>1, <1>2, <1>3 DEF RoomInv

LEMMA Ends ==
    ASSUME RoomTypes', ~InPlay', SettledOnce', AskInv', RedealInv'
    PROVE  RoomInv'
BY DEF RoomInv, PlayInv

(* The handler has panicked at the end of the wall. *)
LEMMA Panics ==
    ASSUME RoomInv, NEW s \in Seats, told[s], AskedInPlay, RoomTypes', Overrun,
           UNCHANGED <<play, online, deals, drops>>
    PROVE  RoomInv'
<1>1. failed' = TRUE /\ UNCHANGED score  BY DEF Overrun
<1>2. PlayInv'  BY <1>1 DEF PlayInv
<1>3. AskInv' /\ RedealInv'  BY <1>1, AskStays, RedealStays
<1>4. SettledOnce'  BY <1>1 DEF AskedInPlay, score, SettledOnce
<1> QED BY <1>2, <1>3, <1>4 DEF RoomInv

(* The last answer of a round, before it is carried out. *)
LastAnswer(s) ==
    /\ told[s] /\ waiting[s] /\ ~Waiting(s) /\ canOps[s] # {}
    /\ waitOp' = All(0) /\ UNCHANGED <<play, online, deals, drops>>

LEMMA AfterLast ==
    ASSUME NEW s \in Seats, LastAnswer(s)
    PROVE  /\ waitOp' \in [Seats -> Int] /\ UNCHANGED <<play, online, deals, drops>>
           /\ told[s] /\ waiting[s] /\ canOps[s] # {}
           /\ \A u \in Seats : waiting[u] => u = s
BY DEF LastAnswer, Waiting, All

LEMMA HuPaiEnds ==
    ASSUME RoomInv, NEW s \in Seats, LastAnswer(s), huPai, NEW h \in [Seats -> Int],
           groups' \in [Seats -> Int], gangs' \in Nat, Rest(s, turn, h, Spent(s)), UNCHANGED whole
    PROVE  RoomInv'
<1>1. RoomTypes  BY DEF RoomInv
<1>2. /\ playing' = FALSE /\ settled' = settled + 1 /\ settled' \in Nat
      /\ prepare' \in Flags /\ due' \in [Seats -> Nat] /\ ~InPlay' /\ GameOver
      /\ twice' \in BOOLEAN /\ (~twice' => ~twice /\ settled = 0)
      BY <1>1, huPaiStep
<1>3. turn \in Seats /\ Spent(s) \in [Seats -> SUBSET Ops]  BY <1>1 DEF RoomTypes, Spent
<1>4. /\ turn' = turn /\ hand' = h /\ canOps' = Spent(s) /\ waitMulti' = FALSE /\ mjIndex' = mjIndex
      /\ waiting' \in Flags /\ told' \in Flags
      /\ \A u \in Seats : waiting'[u] => waiting[u] /\ u # s
      BY <1>1, <1>3, RestStep
<1>5. /\ waitOp' \in [Seats -> Int] /\ UNCHANGED <<play, online, deals, drops>>
      /\ told[s] /\ waiting[s] /\ canOps[s] # {} /\ \A u \in Seats : waiting[u] => u = s
      BY AfterLast
<1>6. RoomTypes'  BY <1>1, <1>2, <1>3, <1>4, <1>5 DEF RoomTypes, whole
<1>7. AskInv'  BY <1>4, <1>5, NobodyAsked
<1>8. AskedInPlay \/ (settled = 1 /\ mjIndex >= TileCount - 6)
      BY <1>5 DEF RoomInv, AskInv, SomebodyWaits, AskedAtEnd
<1>9. SettledOnce'
  <2>1. settled' = 1 \/ (settled' = 2 /\ mjIndex' >= TileCount - 6)
        BY <1>2, <1>4, <1>8 DEF AskedInPlay
  <2> QED BY <2>1 DEF SettledOnce
<1>10. ~twice' => ~twice /\ InPlay  BY <1>2, <1>8 DEF AskedInPlay
<1>11. RedealInv'  BY <1>2, <1>5, <1>10, RedealAtEnd
<1> QED BY <1>2, <1>6, <1>7, <1>9, <1>11, Ends

LEMMA HDLEnds ==
    ASSUME RoomInv, NEW s \in Seats, LastAnswer(s), AskedInPlay, canHDL, NEW t \in Seats,
           NEW h \in [Seats -> Int], NEW f \in [Seats -> SUBSET Ops],
           groups' \in [Seats -> Int], gangs' \in Nat, doHDL(t, h, f)
    PROVE  RoomInv'
<1>1. RoomTypes  BY DEF RoomInv
<1>2. /\ turn' \in Seats /\ waitMulti' = TRUE /\ hand' \in [Seats -> Int]
      /\ mjIndex' \in Int /\ waiting' \in Flags /\ told' \in Flags
      /\ canOps' \in [Seats -> SUBSET Ops]
      /\ \A u \in Seats : waiting'[u] => canOps'[u] \subseteq {AGang, HuPai}
      BY <1>1, doHDLTypes
<1>3. waitOp' \in [Seats -> Int] /\ UNCHANGED <<play, online, deals, drops>> /\ told[s]
      BY AfterLast
<1>4. /\ mjIndex \in Int /\ TileCount \in Int /\ settled = 0 /\ InPlay /\ twice \in BOOLEAN
      /\ playing \in BOOLEAN /\ settled \in Nat
      BY <1>1, RoomAssumption DEF RoomTypes, RoomAssumption, AskedInPlay
<1>5. CASE Overrun
  <2>1. RoomTypes'  BY <1>1, <1>2, <1>3, <1>5 DEF RoomTypes, Overrun, score
  <2> QED BY <1>3, <1>5, <2>1, Panics
<1>6. CASE ~Overrun
  <2>1. /\ mjIndex' >= TileCount - 6 /\ UNCHANGED whole
        /\ \/ huPai
           \/ GameOver /\ UNCHANGED <<playing, settled, twice>> /\ \A u \in Seats : canOps'[u] = {}
        BY <1>1, <1>6, doHDLEnds
  <2>2. GameOver /\ prepare' \in Flags /\ due' \in [Seats -> Nat] /\ ~InPlay'
        BY <1>1, <2>1, GameOverStep DEF huPai
  <2>3. /\ playing' \in BOOLEAN /\ settled' \in Nat /\ twice' \in BOOLEAN /\ (~twice' => ~twice)
        /\ settled' = 1 \/ (settled' = 0 /\ \A u \in Seats : canOps'[u] = {})
    <3>1. CASE huPai  BY <1>1, <1>4, <3>1, huPaiStep
    <3>2. CASE ~huPai  BY <1>4, <2>1, <3>2
    <3> QED BY <3>1, <3>2
  <2>4. RoomTypes'  BY <1>1, <1>2, <1>3, <2>1, <2>2, <2>3 DEF RoomTypes, whole
  <2>5. SettledOnce'  BY <2>3 DEF SettledOnce
  <2>6. AskInv'  BY <1>2, <2>1, <2>3 DEF AskInv, AskedAtEnd
  <2>7. RedealInv'  BY <1>3, <1>4, <2>2, <2>3, RedealAtEnd
  <2> QED BY <2>2, <2>4, <2>5, <2>6, <2>7, Ends
<1> QED BY <1>5, <1>6

(* t draws after the answer of s: h are the hands, t's is at 13 before the draw. *)
LEMMA DrawGoesOn ==
    ASSUME RoomInv, NEW s \in Seats, LastAnswer(s), AskedInPlay, NEW t \in Seats,
           NEW h \in [Seats -> Int], NEW f \in [Seats -> SUBSET Ops], FaPai(s, t, h, f),
           groups' \in [Seats -> Int], gangs' \in Nat,
           InPlay /\ ~failed => \A u \in Seats : h[u] + 3 * groups'[u] = 13
    PROVE  RoomInv'
<1>1. RoomTypes  BY DEF RoomInv
<1>2. /\ waitOp' \in [Seats -> Int] /\ UNCHANGED <<play, online, deals, drops>> /\ told[s] /\ waiting[s]
      /\ \A u \in Seats : waiting[u] => u = s
      BY AfterLast
<1>3. CASE ~(mjIndex < TileCount)
  <2>1. Overrun /\ Rest(s, t, h, f)  BY <1>1, <1>3, FaPaiEnds
  <2>2. /\ turn' = t /\ hand' = h /\ canOps' = f /\ waitMulti' = FALSE /\ mjIndex' = mjIndex
        /\ waiting' \in Flags /\ told' \in Flags
        BY <1>1, <2>1, RestStep
  <2>3. RoomTypes'  BY <1>1, <1>2, <2>1, <2>2 DEF RoomTypes, Overrun, score
  <2> QED BY <1>2, <2>1, <2>3, Panics
<1>4. CASE mjIndex < TileCount
  <2>1. /\ turn' = t /\ waitMulti' = FALSE /\ hand' = [h EXCEPT ![t] = @ + 1]
        /\ hand' \in [Seats -> Int] /\ mjIndex' = mjIndex + 1
        /\ canOps' \in [Seats -> SUBSET Ops] /\ ChuPai \in canOps'[t]
        /\ waiting' \in Flags /\ told' \in Flags
        /\ \A u \in Seats : waiting'[u] <=> u = t \/ (waiting[u] /\ u # s)
        /\ UNCHANGED <<score, whole>>
        BY <1>1, <1>4, FaPaiStep
  <2>2. mjIndex' \in Int /\ mjIndex' >= mjIndex  BY <1>1, <2>1 DEF RoomTypes
  <2>3. RoomTypes'  BY <1>1, <1>2, <2>1, <2>2 DEF RoomTypes, score, whole
  <2>4. ASSUME InPlay, ~failed PROVE Playable'
    <3>1. \A u \in Seats : waiting'[u] <=> u = t  BY <1>2, <2>1
    <3>2. \A u \in Seats : hand'[u] = IF u = t THEN h[u] + 1 ELSE h[u]  BY <2>1
    <3>3. \A u \in Seats : hand'[u] + 3 * groups'[u] = IF u = t THEN 14 ELSE 13
      <4> SUFFICES ASSUME NEW u \in Seats PROVE hand'[u] + 3 * groups'[u] = IF u = t THEN 14 ELSE 13
          OBVIOUS
      <4>1. h[u] \in Int /\ groups'[u] \in Int /\ h[u] + 3 * groups'[u] = 13  BY <2>4
      <4> QED BY <4>1, <3>2
    <3> QED BY <3>1, <3>3, <2>1 DEF Playable
  <2>5. AskInv'  BY <2>1, AskStays
  <2>6. failed' = failed  BY <2>1 DEF whole
  <2> QED BY <1>2, <2>1, <2>2, <2>3, <2>4, <2>5, <2>6, GoesOn
<1> QED BY <1>3, <1>4

(* The user whose turn it is plays a tile. *)
LEMMA DiscardStep ==
    ASSUME RoomInv, NEW s \in Seats, LastAnswer(s), ~waitMulti, Discard(s), AskedInPlay,
           groups' = Groups(s, ChuPai), gangs' \in Nat
    PROVE  RoomInv'
<1> DEFINE h == Hands(s, ChuPai)
           t == Next4(turn)
<1>1. RoomTypes  BY DEF RoomInv
<1>2. ChuPai \in Ops /\ Taken(ChuPai) = 1  BY TakenIs DEF Ops
<1>3. /\ h \in [Seats -> Int] /\ groups' \in [Seats -> Int]
      /\ \A u \in Seats : h[u] = hand[u] - (IF u = s THEN 1 ELSE 0)
      /\ \A u \in Seats : groups'[u] = groups[u]
      BY <1>1, <1>2, HandsIs DEF RoomTypes
<1>4. t \in Seats /\ turn \in Seats  BY <1>1, Next4Seat DEF RoomTypes
<1>5. ASSUME InPlay, ~failed
      PROVE  s = turn /\ \A u \in Seats : h[u] + 3 * groups'[u] = 13
  <2>1. Playable  BY <1>5 DEF RoomInv, PlayInv
  <2>2. s = turn  BY <2>1 DEF Playable, LastAnswer
  <2>3. ASSUME NEW u \in Seats PROVE h[u] + 3 * groups'[u] = 13
    <3>1. hand[u] \in Int /\ groups[u] \in Int  BY <1>1 DEF RoomTypes
    <3>2. hand[u] + 3 * groups[u] = IF u = turn THEN 14 ELSE 13  BY <2>1 DEF Playable
    <3> QED BY <3>1, <3>2, <1>3, <2>2
  <2> QED BY <2>2, <2>3
<1>6. PICK f \in Offers(s) :
          IF f = All({})
            THEN IF canHDL THEN doHDL(t, h, All({})) ELSE FaPai(s, t, h, All({}))
            ELSE /\ hand' = h
                 /\ waitMulti' = TRUE
                 /\ canOps' = [u \in Seats |-> f[u] \cup (IF f[u] = {} THEN {} ELSE {GuoPai})]
                 /\ waiting' = [u \in Seats |-> f[u] # {}]
                 /\ told' = [u \in Seats |-> online[u] /\ f[u] # {}]
                 /\ UNCHANGED <<turn, mjIndex, score, whole>>
      BY DEF Discard
<1> HIDE DEF h, t
<1>7. All({}) \in [Seats -> SUBSET Ops]  BY DEF All
<1>8. CASE f = All({}) /\ canHDL
      BY <1>3, <1>4, <1>6, <1>7, <1>8, HDLEnds
<1>9. CASE f = All({}) /\ ~canHDL
      BY <1>3, <1>4, <1>5, <1>6, <1>7, <1>9, DrawGoesOn
<1>10. CASE f # All({})
  <2>1. f \in [Seats -> play.claims] /\ f[s] = {}  BY DEF Offers
  <2>2. \A u \in Seats : f[u] \subseteq {Chi, Peng, MGang, HuPai}  BY <2>1, PlayTypes DEF RoomInv
  <2>3. \E u \in Seats : f[u] # {}  BY <2>1, <1>10 DEF All
  <2>4. /\ hand' = h /\ waitMulti' = TRUE
        /\ canOps' = [u \in Seats |-> f[u] \cup (IF f[u] = {} THEN {} ELSE {GuoPai})]
        /\ waiting' = [u \in Seats |-> f[u] # {}]
        /\ told' = [u \in Seats |-> online[u] /\ f[u] # {}]
        /\ UNCHANGED <<turn, mjIndex, score, whole>>
        BY <1>6, <1>10
  <2>5. /\ canOps' \in [Seats -> SUBSET Ops]
        /\ \A u \in Seats : canOps'[u] \subseteq {GuoPai, Chi, Peng, MGang, HuPai}
    <3>1. \A u \in Seats : f[u] \cup (IF f[u] = {} THEN {} ELSE {GuoPai})
                               \subseteq {GuoPai, Chi, Peng, MGang, HuPai}
          BY <2>2
    <3>2. {GuoPai, Chi, Peng, MGang, HuPai} \subseteq Ops  BY DEF Ops
    <3> QED BY <2>4, <3>1, <3>2
  <2>6. waiting' \in Flags /\ told' \in Flags  BY <1>1, <2>4 DEF RoomTypes, Flags
  <2>7. waitOp' \in [Seats -> Int] /\ UNCHANGED <<play, online, deals, drops>> /\ told[s] /\ waiting[s]
        BY AfterLast
  <2>8. RoomTypes'  BY <1>1, <1>3, <2>4, <2>5, <2>6, <2>7 DEF RoomTypes, score, whole
  <2>9. ASSUME InPlay, ~failed PROVE Playable'
    <3>1. s = turn /\ \A u \in Seats : h[u] + 3 * groups'[u] = 13  BY <1>5, <2>9
    <3>2. \E u \in Seats : waiting'[u]  BY <2>3, <2>4
    <3>3. \A u \in Seats : waiting'[u] => u # turn' /\ GuoPai \in canOps'[u]  BY <2>1, <2>4, <3>1
    <3>4. \A u \in Seats : hand'[u] + 3 * groups'[u] = 13  BY <2>4, <3>1
    <3> QED BY <3>2, <3>3, <3>4, <2>4, <2>5 DEF Playable
  <2>10. mjIndex' >= mjIndex /\ failed' = failed  BY <1>1, <2>4 DEF RoomTypes, whole
  <2>11. AskInv'  BY <2>4, AskStays
  <2> QED BY <2>4, <2>7, <2>8, <2>9, <2>10, <2>11, GoesOn
<1> QED BY <1>8, <1>9, <1>10

LEMMA MjOpSelfStep ==
    ASSUME RoomInv, NEW s \in Seats, NEW op \in Ops, LastAnswer(s), ~waitMulti, MjOpSelf(s, op)
    PROVE  RoomInv'
<1>1. RoomTypes /\ AskedInPlay
  <2>1. waiting[s] /\ canOps[s] # {}  BY AfterLast
  <2> QED BY <2>1, WhoIsAsked DEF RoomInv
<1>2. /\ groups' = Groups(s, op) /\ groups' \in [Seats -> Int] /\ gangs' \in Nat
      /\ Hands(s, op) \in [Seats -> Int] /\ Spent(s) \in [Seats -> SUBSET Ops]
      BY <1>1, HandsIs, GangsNat DEF MjOpSelf
<1>3. CASE op = ChuPai /\ Discard(s)
      BY <1>1, <1>2, <1>3, DiscardStep
<1>4. CASE op = AGang /\ FaPai(s, turn, Hands(s, op), Spent(s))
  <2>1. turn \in Seats  BY <1>1 DEF RoomTypes
  <2>2. ASSUME InPlay, ~failed, NEW u \in Seats
        PROVE  Hands(s, op)[u] + 3 * groups'[u] = 13
    <3>1. Playable  BY <2>2 DEF RoomInv, PlayInv
    <3>2. s = turn  BY <3>1 DEF Playable, LastAnswer
    <3>3. hand[u] \in Int /\ groups[u] \in Int  BY <1>1 DEF RoomTypes
    <3>4. hand[u] + 3 * groups[u] = IF u = turn THEN 14 ELSE 13  BY <3>1 DEF Playable
    <3>5. Taken(op) = 4  BY <1>4, TakenIs
    <3>6. Hands(s, op)[u] = hand[u] - (IF u = s THEN 4 ELSE 0)  BY <1>1, <3>5, HandsIs
    <3>7. groups'[u] = groups[u] + (IF u = s THEN 1 ELSE 0)  BY <1>1, <1>2, <3>5, HandsIs
    <3> QED BY <3>2, <3>3, <3>4, <3>6, <3>7
  <2> QED BY <1>1, <1>2, <1>4, <2>1, <2>2, DrawGoesOn
<1>5. CASE op = HuPai /\ huPai /\ Rest(s, turn, hand, Spent(s)) /\ UNCHANGED whole
  <2>1. hand \in [Seats -> Int]  BY <1>1 DEF RoomTypes
  <2> QED BY <1>2, <1>5, <2>1, HuPaiEnds
<1> QED BY <1>3, <1>4, <1>5 DEF MjOpSelf

(* Without waitMulti, which MjOp has cleared, the last user to answer is the one carried out. *)
LEMMA LastAnswerWins == \A s, ops : getOpUser(s, ops, FALSE) = s
BY DEF getOpUser

LEMMA MjOpOtherStep ==
    ASSUME RoomInv, NEW s \in Seats, NEW op \in Ops, op \in canOps[s], LastAnswer(s), waitMulti,
           MjOpOther(s, op)
    PROVE  RoomInv'
<1> DEFINE h == Hands(s, op)
<1>1. RoomTypes  BY DEF RoomInv
<1>2. /\ groups' = Groups(s, op) /\ gangs' = Gangs(op)
      /\ \/ op = GuoPai /\ IF canHDL THEN doHDL(turn, h, Spent(s)) ELSE FaPai(s, Next4(turn), h, Spent(s))
         \/ op = MGang /\ FaPai(s, s, h, Spent(s))
         \/ /\ op \in {Chi, Peng}
            /\ CanOpSelf(s, s, h, Spent(s), SelfClaims(h[s])) /\ UNCHANGED mjIndex
         \/ op = HuPai /\ huPai /\ Rest(s, turn, h, Spent(s)) /\ UNCHANGED whole
         \/ op = AGang /\ Rest(s, turn, h, Spent(s)) /\ UNCHANGED <<score, whole>>
  <2>1. [waitOp EXCEPT ![s] = op][s] = op  BY <1>1 DEF RoomTypes
  <2> QED BY <2>1, LastAnswerWins DEF MjOpOther
<1>3. /\ groups' \in [Seats -> Int] /\ h \in [Seats -> Int] /\ Spent(s) \in [Seats -> SUBSET Ops]
      /\ Taken(op) \in Int /\ gangs' \in Nat
      /\ \A u \in Seats : h[u] = hand[u] - (IF u = s THEN Taken(op) ELSE 0)
      /\ \A u \in Seats : groups'[u] = groups[u] + (IF u = s /\ Taken(op) > 1 THEN 1 ELSE 0)
      BY <1>1, <1>2, HandsIs, GangsNat
<1>4. ASSUME InPlay, ~failed
      PROVE  /\ op # AGang /\ \A u \in Seats : hand[u] + 3 * groups[u] = 13
             /\ \A u \in Seats : hand[u] \in Int /\ groups[u] \in Int
  <2>1. Playable  BY <1>4 DEF RoomInv, PlayInv
  <2>2. op \in {GuoPai, Chi, Peng, MGang, HuPai}  BY <2>1 DEF Playable
  <2> QED BY <1>1, <2>1, <2>2 DEF Playable, RoomTypes, GuoPai, Chi, Peng, MGang, HuPai, AGang
<1>5. turn \in Seats /\ Next4(turn) \in Seats  BY <1>1, Next4Seat DEF RoomTypes
<1>0. op \notin {AGang, HuPai} => AskedInPlay
  <2>1. waiting[s]  BY AfterLast
  <2> QED BY <2>1, WhoIsAsked
<1> HIDE DEF h
<1>6. CASE op = GuoPai /\ canHDL
  <2>1. doHDL(turn, h, Spent(s)) /\ op \notin {AGang, HuPai}
        BY <1>2, <1>6 DEF GuoPai, Chi, Peng, MGang, HuPai, AGang
  <2> QED BY <1>0, <1>3, <1>5, <1>6, <2>1, HDLEnds
<1>7. CASE op = GuoPai /\ ~canHDL
  <2>1. FaPai(s, Next4(turn), h, Spent(s)) /\ op \notin {AGang, HuPai}
        BY <1>2, <1>7 DEF GuoPai, Chi, Peng, MGang, HuPai, AGang
  <2>2. ASSUME InPlay, ~failed, NEW u \in Seats PROVE h[u] + 3 * groups'[u] = 13
    <3>1. Taken(op) = 0  BY <1>7, TakenIs
    <3> QED BY <1>3, <1>4, <2>2, <3>1
  <2> QED BY <1>0, <1>3, <1>5, <2>1, <2>2, DrawGoesOn
<1>8. CASE op = MGang
  <2>1. FaPai(s, s, h, Spent(s)) /\ op \notin {AGang, HuPai}
        BY <1>2, <1>8 DEF GuoPai, Chi, Peng, MGang, HuPai, AGang
  <2>2. ASSUME InPlay, ~failed, NEW u \in Seats PROVE h[u] + 3 * groups'[u] = 13
    <3>1. Taken(op) = 3  BY <1>8, TakenIs
    <3>2. /\ h[u] = hand[u] - (IF u = s THEN 3 ELSE 0)
          /\ groups'[u] = groups[u] + (IF u = s THEN 1 ELSE 0)
          BY <1>3, <3>1
    <3>3. hand[u] \in Int /\ groups[u] \in Int /\ hand[u] + 3 * groups[u] = 13  BY <1>4, <2>2
    <3> QED BY <3>2, <3>3
  <2> QED BY <1>0, <1>3, <2>1, <2>2, DrawGoesOn
<1>9. CASE op \in {Chi, Peng}
  <2>1. /\ CanOpSelf(s, s, h, Spent(s), SelfClaims(h[s])) /\ mjIndex' = mjIndex
        /\ op \notin {AGang, HuPai}
        BY <1>2, <1>9 DEF GuoPai, Chi, Peng, MGang, HuPai, AGang
  <2>2. SelfClaims(h[s]) \in SUBSET SUBSET {AGang, HuPai}  BY SelfClaimsType DEF RoomInv
  <2>3. /\ turn' = s /\ waitMulti' = FALSE /\ hand' = h
        /\ canOps' \in [Seats -> SUBSET Ops] /\ ChuPai \in canOps'[s]
        /\ waiting' \in Flags /\ told' \in Flags
        /\ \A u \in Seats : waiting'[u] <=> u = s \/ (waiting[u] /\ u # s)
        /\ UNCHANGED <<score, whole>>
        BY <1>1, <1>3, <2>1, <2>2, CanOpSelfStep
  <2>4. /\ waitOp' \in [Seats -> Int] /\ UNCHANGED <<play, online, deals, drops>> /\ told[s] /\ waiting[s]
        /\ \A u \in Seats : waiting[u] => u = s
        BY AfterLast
  <2>5. RoomTypes'  BY <1>1, <1>3, <2>1, <2>3, <2>4 DEF RoomTypes, score, whole
  <2>6. ASSUME InPlay, ~failed PROVE Playable'
    <3>1. \A u \in Seats : waiting'[u] <=> u = turn'  BY <2>3, <2>4
    <3>2. Taken(op) = 2  BY <1>9, TakenIs
    <3>3. \A u \in Seats : hand'[u] + 3 * groups'[u] = IF u = turn' THEN 14 ELSE 13
          BY <1>3, <1>4, <2>3, <2>6, <3>2
    <3> QED BY <3>1, <3>3, <2>3 DEF Playable
  <2>7. mjIndex' >= mjIndex /\ failed' = failed  BY <1>1, <2>1, <2>3 DEF RoomTypes, whole
  <2>8. AskInv'  BY <1>0, <2>1, <2>3, AskStays
  <2> QED BY <2>3, <2>4, <2>5, <2>6, <2>7, <2>8, GoesOn
<1>10. CASE op = HuPai
  <2>1. huPai /\ Rest(s, turn, h, Spent(s)) /\ UNCHANGED whole
        BY <1>2, <1>10 DEF GuoPai, Chi, Peng, MGang, HuPai, AGang
  <2> QED BY <1>3, <2>1, HuPaiEnds
<1>11. CASE op = AGang
  <2>1. Rest(s, turn, h, Spent(s)) /\ UNCHANGED <<score, whole>>
        BY <1>2, <1>11 DEF GuoPai, Chi, Peng, MGang, HuPai, AGang
  <2>2. /\ turn' = turn /\ hand' = h /\ canOps' = Spent(s) /\ waitMulti' = FALSE /\ mjIndex' = mjIndex
        /\ waiting' \in Flags /\ told' \in Flags
        /\ \A u \in Seats : waiting'[u] => waiting[u] /\ u # s
        BY <1>1, <1>3, <1>5, <2>1, RestStep
  <2>3. /\ waitOp' \in [Seats -> Int] /\ UNCHANGED <<play, online, deals, drops>> /\ told[s]
        /\ \A u \in Seats : waiting[u] => u = s
        BY AfterLast
  <2>4. RoomTypes'  BY <1>1, <1>3, <2>1, <2>2, <2>3 DEF RoomTypes, score, whole
  <2>5. mjIndex' >= mjIndex /\ failed' = failed  BY <1>1, <2>1, <2>2 DEF RoomTypes, whole
  <2>6. InPlay /\ ~failed => Playable'  BY <1>4, <1>11
  <2>7. AskInv'  BY <2>2, <2>3, NobodyAsked
  <2> QED BY <2>1, <2>3, <2>4, <2>5, <2>6, <2>7, GoesOn
<1> QED BY <1>2, <1>6, <1>7, <1>8, <1>9, <1>10, <1>11

LEMMA DealFailsStep ==
    ASSUME RoomInv, NEW s \in Seats, NEW op \in Ops, LastAnswer(s), DealFails(s, op)
    PROVE  RoomInv'
<1>1. RoomTypes  BY DEF RoomInv
<1>2. PICK lost \in {0} \cup (IF op = Chi THEN {1} ELSE {}) :
          Rest(s, turn, [hand EXCEPT ![s] = @ - lost], canOps)
      BY DEF DealFails
<1>3. /\ [hand EXCEPT ![s] = @ - lost] \in [Seats -> Int] /\ canOps \in [Seats -> SUBSET Ops]
      /\ turn \in Seats
  <2>1. lost \in Int  OBVIOUS
  <2> QED BY <1>1, <2>1 DEF RoomTypes
<1>4. /\ turn' = turn /\ hand' \in [Seats -> Int] /\ canOps' = canOps /\ waitMulti' = FALSE
      /\ mjIndex' = mjIndex /\ waiting' \in Flags /\ told' \in Flags
      /\ \A u \in Seats : waiting'[u] => waiting[u] /\ u # s
      BY <1>1, <1>2, <1>3, RestStep
<1>5. failed' = TRUE /\ UNCHANGED <<score, groups, overrun, gangs>>  BY DEF DealFails
<1>6. /\ waitOp' \in [Seats -> Int] /\ UNCHANGED <<play, online, deals, drops>> /\ told[s]
      /\ \A u \in Seats : waiting[u] => u = s
      BY AfterLast
<1>7. RoomTypes'  BY <1>1, <1>4, <1>5, <1>6 DEF RoomTypes, score
<1>8. PlayInv'  BY <1>5 DEF PlayInv
<1>9. SettledOnce'  BY <1>4, <1>5 DEF RoomInv, SettledOnce, score
<1>10. RedealInv'  BY <1>5, <1>6, RedealStays
<1>11. AskInv'  BY <1>4, <1>6, NobodyAsked
<1> QED BY <1>7, <1>8, <1>9, <1>10, <1>11 DEF RoomInv

(* An answer that is not the last of its round is only stored. *)
LEMMA StoredStep ==
    ASSUME RoomInv, NEW s \in Seats, NEW op \in Ops, MjOp(s, op), Waiting(s)
    PROVE  RoomInv'
<1>1. RoomTypes  BY DEF RoomInv
<1>2. told[s] /\ waiting[s] /\ op \in canOps[s] /\ UNCHANGED <<play, online, deals, drops>>  BY DEF MjOp
<1>3. /\ waitOp' = [waitOp EXCEPT ![s] = op] /\ waiting' = [waiting EXCEPT ![s] = FALSE]
      /\ told' = [told EXCEPT ![s] = FALSE]
      /\ UNCHANGED <<play, turn, waitMulti, mjIndex, playing, prepare, canOps, hand, groups, due,
                     settled, failed, overrun, gangs, twice>>
      BY DEF MjOp, table, ghosts
<1>4. UNCHANGED score  BY <1>3 DEF score
<1>5. op \in Int  BY DEF Ops, ChuPai, GuoPai, Chi, Peng, MGang, AGang, HuPai
<1>6. /\ waiting' \in Flags /\ told' \in Flags /\ waitOp' \in [Seats -> Int]
      /\ \A u \in Seats : waiting'[u] => waiting[u]
      BY <1>1, <1>3, <1>5 DEF RoomTypes, Flags
<1>7. RoomTypes'  BY <1>1, <1>2, <1>3, <1>6 DEF RoomTypes
<1>8. ASSUME InPlay, ~failed PROVE Playable'
  <2>1. Playable  BY <1>8 DEF RoomInv, PlayInv
  <2>2. PICK t \in Seats \ {s} : waiting[t]  BY DEF Waiting
  <2>3. waitMulti  BY <1>2, <2>1, <2>2 DEF Playable
  <2>4. waiting'[t]  BY <1>1, <1>3, <2>2 DEF RoomTypes, Flags
  <2> QED BY <1>3, <1>6, <2>1, <2>3, <2>4 DEF Playable
<1>9. mjIndex' >= mjIndex  BY <1>1, <1>3 DEF RoomTypes
<1>10. AskInv'
  <2>1. AskedInPlay \/ AskedAtEnd  BY <1>2 DEF RoomInv, AskInv, SomebodyWaits
  <2>2. CASE AskedInPlay  BY <1>4, <2>2, AskStays
  <2>3. CASE AskedAtEnd
    <3>1. AskedAtEnd'  BY <1>3, <1>6, <2>3 DEF AskedAtEnd
    <3> QED BY <3>1 DEF AskInv
  <2> QED BY <2>1, <2>2, <2>3
<1> QED BY <1>2, <1>3, <1>4, <1>7, <1>8, <1>9, <1>10, GoesOn

LEMMA MjOpStep ==
    ASSUME RoomInv, NEW s \in Seats, NEW op \in Ops, MjOp(s, op)
    PROVE  RoomInv' /\ UNCHANGED <<play, deals, drops, online>>
<1>1. told[s] /\ waiting[s] /\ op \in canOps[s] /\ UNCHANGED <<play, online, deals, drops>>  BY DEF MjOp
<1>2. CASE Waiting(s)  BY <1>1, <1>2, StoredStep
<1>3. CASE ~Waiting(s)
  <2>1. /\ waitOp' = All(0)
        /\ \/ IF waitMulti THEN MjOpOther(s, op) ELSE MjOpSelf(s, op)
           \/ DealFails(s, op)
        BY <1>3 DEF MjOp
  <2>2. LastAnswer(s)  BY <1>1, <1>3, <2>1 DEF LastAnswer
  <2> QED BY <1>1, <2>1, <2>2, DealFailsStep, MjOpSelfStep, MjOpOtherStep
<1> QED BY <1>2, <1>3

-----------------------------------------------------------------------------
(* MajFaPai deals a game that is well-formed, whatever came before. *)
LEMMA MajFaPaiStep ==
    ASSUME RoomTypes, MajFaPai
    PROVE  /\ deals' = deals + 1 /\ UNCHANGED <<play, online, drops>> /\ prepare' = [u \in Seats |-> TRUE]
           /\ due' \in [Seats -> Nat] => RoomTypes'
           /\ Playable' /\ SettledOnce' /\ AskInv' /\ twice' = twice
<1>1. /\ deals' = deals + 1 /\ playing' = TRUE /\ waitMulti' = FALSE /\ mjIndex' = Dealt
      /\ prepare' = [u \in Seats |-> TRUE] /\ waitOp' = [u \in Seats |-> 0] /\ groups' = [u \in Seats |-> 0]
      /\ hand' = [u \in Seats |-> IF u = turn THEN 14 ELSE 13]
      /\ waiting' = [u \in Seats |-> u = turn] /\ told' = [u \in Seats |-> u = turn /\ online[u]]
      /\ settled' = 0 /\ gangs' = 0 /\ failed' = FALSE /\ overrun' = FALSE
      /\ UNCHANGED <<play, turn, online, drops, twice>>
      BY DEF MajFaPai, All
<1>2. PICK c \in SelfClaims(14) : canOps' = [All({}) EXCEPT ![turn] = c \cup {ChuPai}]
      BY DEF MajFaPai
<1>3. c \cup {ChuPai} \in SUBSET Ops
  <2>1. c \subseteq {AGang, HuPai}  BY SelfClaimsType
  <2> QED BY <2>1 DEF Ops
<1>4. canOps' \in [Seats -> SUBSET Ops] /\ ChuPai \in canOps'[turn]
      BY <1>2, <1>3 DEF RoomTypes, All
<1>5. waiting' \in Flags /\ told' \in Flags /\ prepare' \in Flags /\ Dealt \in Int
      BY <1>1 DEF RoomTypes, Flags, Dealt
<1>6. /\ hand' \in [Seats -> Int] /\ groups' \in [Seats -> Int] /\ waitOp' \in [Seats -> Int]
      /\ turn' \in Seats /\ deals' \in Nat /\ drops' \in Nat /\ online' \in Flags
      BY <1>1 DEF RoomTypes
<1>7. due' \in [Seats -> Nat] => RoomTypes'  BY <1>1, <1>4, <1>5, <1>6 DEF RoomTypes
<1>8. Playable'
  <2>1. /\ ~waitMulti' /\ ChuPai \in canOps'[turn']
        /\ \A s \in Seats : waiting'[s] <=> s = turn'
        BY <1>1, <1>4
  <2>2. \A s \in Seats : hand'[s] + 3 * groups'[s] = IF s = turn' THEN 14 ELSE 13
        BY <1>1
  <2> QED BY <2>1, <2>2 DEF Playable
<1>9. SettledOnce'  BY <1>1 DEF SettledOnce
<1>10. AskInv'
  <2>1. AskedInPlay'  BY <1>1 DEF AskedInPlay, InPlay
  <2> QED BY <2>1 DEF AskInv
<1> QED BY <1>1, <1>7, <1>8, <1>9, <1>10

LEMMA startGameStep == ASSUME RoomInv, startGame PROVE RoomInv'
<1>1. RoomTypes /\ MajFaPai /\ due' = due /\ deals = 0  BY DEF RoomInv, startGame
<1>2. /\ deals' = deals + 1 /\ UNCHANGED <<play, online, drops>> /\ prepare' = [u \in Seats |-> TRUE]
      /\ RoomTypes' /\ Playable' /\ SettledOnce' /\ AskInv' /\ twice' = twice
      BY <1>1, MajFaPaiStep DEF RoomTypes
<1>3. PlayInv'  BY <1>2 DEF PlayInv
<1>4. RedealInv'
  <2> SUFFICES ASSUME drops = 0 PROVE RedealInv'  BY <1>2 DEF RedealInv
  <2>1. (\A u \in Seats : online[u]) /\ \A u \in Seats : due[u] = 0  BY <1>1 DEF RedealInv, RoomInv
  <2>2. \A u \in Seats : due'[u] = 0  BY <1>1, <2>1
  <2>3. OneContinueEach'  BY <2>2 DEF OneContinueEach
  <2>4. deals' # 0  BY <1>1, <1>2
  <2> QED BY <1>2, <2>1, <2>3, <2>4 DEF RedealInv
<1> QED BY <1>2, <1>3, <1>4 DEF RoomInv

(* Whoever continues is not prepared: a game in progress is not dealt again. *)
LEMMA continueGameStep ==
    ASSUME RoomInv, NEW s \in Seats, continueGame(s)
    PROVE  RoomInv' /\ (drops = 0 /\ ~twice /\ InPlay => deals' = deals)
<1>1. RoomTypes /\ due[s] > 0 /\ due' = [due EXCEPT ![s] = @ - 1]  BY DEF RoomInv, continueGame
<1>2. /\ due' \in [Seats -> Nat] /\ due'[s] = due[s] - 1
      /\ \A t \in Seats \ {s} : due'[t] = due[t]
  <2>1. due[s] \in Nat /\ due[s] - 1 \in Nat  BY <1>1 DEF RoomTypes
  <2> QED BY <1>1, <2>1 DEF RoomTypes
<1>3. drops = 0 => deals # 0  BY <1>1 DEF RoomInv, RedealInv
<1>4. drops = 0 /\ ~twice => OneContinueEach  BY DEF RoomInv, RedealInv
<1>5. drops = 0 /\ ~twice => ~prepare[s] /\ due'[s] = 0 /\ ~InPlay
  <2>1. due[s] \in Nat  BY <1>1 DEF RoomTypes
  <2> QED BY <1>1, <1>2, <1>4, <2>1 DEF OneContinueEach, InPlay
<1>6. CASE \A t \in Seats \ {s} : prepare[t]
  <2>1. MajFaPai  BY <1>6 DEF continueGame
  <2>2. /\ deals' = deals + 1 /\ UNCHANGED <<play, online, drops>> /\ prepare' = [u \in Seats |-> TRUE]
        /\ RoomTypes' /\ Playable' /\ SettledOnce' /\ AskInv' /\ twice' = twice
        BY <1>1, <1>2, <2>1, MajFaPaiStep
  <2>3. PlayInv'  BY <2>2 DEF PlayInv
  <2>4. drops = 0 /\ ~twice => OneContinueEach'
    <3> SUFFICES ASSUME drops = 0, ~twice PROVE OneContinueEach'  OBVIOUS
    <3>1. \A t \in Seats \ {s} : due[t] = 0
      <4>1. \A t \in Seats : due[t] \in Nat  BY <1>1 DEF RoomTypes
      <4> QED BY <1>4, <1>6, <4>1 DEF OneContinueEach
    <3>2. \A t \in Seats : due'[t] = 0  BY <1>2, <1>5, <3>1
    <3> QED BY <3>2 DEF OneContinueEach
  <2>5. deals' # 0  BY <1>1, <2>2 DEF RoomTypes
  <2>6. RedealInv'  BY <2>2, <2>4, <2>5 DEF RedealInv, RoomInv
  <2> QED BY <1>5, <2>2, <2>3, <2>6 DEF RoomInv
<1>7. CASE ~(\A t \in Seats \ {s} : prepare[t])
  <2>1. /\ prepare' = [prepare EXCEPT ![s] = TRUE]
        /\ UNCHANGED <<play, turn, waitMulti, mjIndex, playing, waiting, canOps, hand, groups, waitOp, online,
                       told, deals, drops, settled, failed, overrun, gangs, twice>>
        BY <1>7 DEF continueGame, players, ghosts
  <2>2. prepare' \in Flags /\ \A t \in Seats \ {s} : prepare'[t] = prepare[t]
        BY <1>1, <2>1 DEF RoomTypes, Flags
  <2>3. RoomTypes'  BY <1>1, <1>2, <2>1, <2>2 DEF RoomTypes
  <2>4. ~InPlay /\ ~InPlay'  BY <1>7, <2>2 DEF InPlay
  <2>5. SettledOnce'  BY <2>1 DEF RoomInv, SettledOnce
  <2>6. AskInv'
    <3>1. AskedAtEnd => AskedAtEnd'  BY <2>1 DEF AskedAtEnd
    <3>2. SomebodyWaits' => SomebodyWaits  BY <2>1 DEF SomebodyWaits
    <3> QED BY <2>4, <3>1, <3>2 DEF RoomInv, AskInv, AskedInPlay
  <2>7. drops = 0 /\ ~twice => OneContinueEach'
    <3> SUFFICES ASSUME drops = 0, ~twice PROVE OneContinueEach'  OBVIOUS
    <3> QED BY <1>2, <1>4, <1>5, <2>2 DEF OneContinueEach
  <2>8. RedealInv'  BY <1>3, <2>1, <2>7 DEF RoomInv, RedealInv
  <2> QED BY <2>1, <2>3, <2>4, <2>5, <2>6, <2>8 DEF RoomInv, PlayInv
<1> QED BY <1>6, <1>7

(* What Drop and Reconnect leave alone. *)
LEMMA RoomStays ==
    ASSUME RoomInv, UNCHANGED <<play, turn, waitMulti, mjIndex, playing, prepare, waiting, canOps, hand, groups,
                                settled, failed>>
    PROVE  PlayInv' /\ SettledOnce' /\ AskInv'
<1>1. PlayInv'  BY DEF RoomInv, PlayInv, InPlay, Playable
<1>2. SettledOnce'  BY DEF RoomInv, SettledOnce
<1>3. AskInv'  BY DEF RoomInv, AskInv, SomebodyWaits, AskedInPlay, AskedAtEnd, InPlay
<1> QED BY <1>1, <1>2, <1>3

LEMMA DropStep == ASSUME RoomInv, NEW s \in Seats, Drop(s) PROVE RoomInv' /\ deals' = deals
<1>1. RoomTypes  BY DEF RoomInv
<1>2. /\ drops' = drops + 1 /\ online' = [online EXCEPT ![s] = FALSE]
      /\ told' = [told EXCEPT ![s] = FALSE] /\ due' = [due EXCEPT ![s] = 0]
      /\ UNCHANGED <<play, turn, waitMulti, mjIndex, playing, prepare, waiting, canOps, hand, groups, waitOp,
                     deals, settled, failed, overrun, gangs, twice>>
      BY DEF Drop, table, players, ghosts
<1>3. online' \in Flags /\ told' \in Flags /\ due' \in [Seats -> Nat] /\ drops' \in Nat /\ drops' # 0
      BY <1>1, <1>2 DEF RoomTypes, Flags
<1>4. RoomTypes'  BY <1>1, <1>2, <1>3 DEF RoomTypes
<1>5. PlayInv' /\ SettledOnce' /\ AskInv'  BY <1>2, RoomStays
<1>6. RedealInv'  BY <1>3 DEF RedealInv
<1> QED BY <1>2, <1>4, <1>5, <1>6 DEF RoomInv

LEMMA ReconnectStep == ASSUME RoomInv, NEW s \in Seats, Reconnect(s) PROVE RoomInv' /\ deals' = deals
<1>1. RoomTypes  BY DEF RoomInv
<1>2. /\ ~online[s] /\ online' = [online EXCEPT ![s] = TRUE]
      /\ told' = [told EXCEPT ![s] = moved /\ playing /\ canOps[s] # {}]
      /\ due' = [due EXCEPT ![s] = IF moved /\ ~playing THEN 1 ELSE 0]
      /\ UNCHANGED <<play, turn, waitMulti, mjIndex, playing, prepare, waiting, canOps, hand, groups, waitOp,
                     deals, drops, settled, failed, overrun, gangs, twice>>
      BY DEF Reconnect, Snapshot, table, players, ghosts
<1>3. online' \in Flags /\ told' \in Flags /\ due' \in [Seats -> Nat]
  <2>1. (moved /\ playing /\ canOps[s] # {}) \in BOOLEAN /\ (IF moved /\ ~playing THEN 1 ELSE 0) \in Nat
        OBVIOUS
  <2> QED BY <1>1, <1>2, <2>1 DEF RoomTypes, Flags
<1>4. RoomTypes'  BY <1>1, <1>2, <1>3 DEF RoomTypes
<1>5. PlayInv' /\ SettledOnce' /\ AskInv'  BY <1>2, RoomStays
<1>6. RedealInv'  BY <1>2 DEF RoomInv, RedealInv
<1> QED BY <1>2, <1>4, <1>5, <1>6 DEF RoomInv

-----------------------------------------------------------------------------
LEMMA InitInv == Init => RoomInv
<1> SUFFICES ASSUME Init PROVE RoomInv  OBVIOUS
<1>1. RoomTypes
  <2>1. /\ waitMulti \in BOOLEAN /\ playing \in BOOLEAN /\ failed \in BOOLEAN
        /\ overrun \in BOOLEAN /\ twice \in BOOLEAN
        BY DEF Init
  <2>2. waiting \in Flags /\ prepare \in Flags /\ online \in Flags /\ told \in Flags
        /\ due \in [Seats -> Nat]
        BY DEF Init, Flags, All
  <2>3. /\ waitOp \in [Seats -> Int] /\ hand \in [Seats -> Int] /\ groups \in [Seats -> Int]
        /\ canOps \in [Seats -> SUBSET Ops]
        BY DEF Init, All
  <2>4. /\ play \in Plays /\ turn \in Seats /\ mjIndex \in Int /\ settled \in Nat /\ gangs \in Nat
        /\ deals \in Nat /\ drops \in Nat
        BY DEF Init, Seats
  <2> QED BY <2>1, <2>2, <2>3, <2>4 DEF RoomTypes
<1>2. PlayInv  BY DEF Init, PlayInv, InPlay
<1>3. SettledOnce  BY DEF Init, SettledOnce
<1>4. AskInv  BY DEF Init, AskInv, SomebodyWaits, All
<1>5. RedealInv  BY DEF Init, RedealInv, OneContinueEach, All
<1> QED BY <1>1, <1>2, <1>3, <1>4, <1>5 DEF RoomInv

LEMMA NextInv ==
    ASSUME RoomInv, [Next]_vars
    PROVE  RoomInv' /\ [drops = 0 /\ ~twice /\ InPlay => deals' = deals]_vars
<1>1. CASE startGame
  <2>1. deals = 0  BY <1>1 DEF startGame
  <2>2. drops = 0 => ~InPlay  BY <2>1 DEF RoomInv, RedealInv, InPlay
  <2> QED BY <1>1, <2>2, startGameStep
<1>2. CASE \E s \in Seats : Answer(s)  BY <1>2, MjOpStep DEF Answer
<1>3. CASE \E s \in Seats : continueGame(s)  BY <1>3, continueGameStep
<1>4. CASE \E s \in Seats : Drop(s)  BY <1>4, DropStep
<1>5. CASE \E s \in Seats : Reconnect(s)  BY <1>5, ReconnectStep
<1>6. CASE UNCHANGED vars
  <2>1. UNCHANGED <<play, turn, waitMulti, mjIndex, playing, prepare, waiting, canOps, hand, groups, waitOp,
                    online, told, due, deals, drops, settled, failed, overrun, gangs, twice>>
        BY <1>6 DEF vars, table, players, clients, ghosts
  <2>2. RoomTypes'  BY <2>1 DEF RoomInv, RoomTypes
  <2>3. PlayInv' /\ SettledOnce' /\ AskInv'  BY <2>1, RoomStays
  <2>4. RedealInv'  BY <2>1 DEF RoomInv, RedealInv, OneContinueEach
  <2> QED BY <1>6, <2>2, <2>3, <2>4 DEF RoomInv
<1> QED BY <1>1, <1>2, <1>3, <1>4, <1>5, <1>6 DEF Next

LEMMA RoomInvHolds == Spec => []RoomInv
<1>1. RoomInv /\ [Next]_vars => RoomInv'  BY NextInv
<1> QED BY InitInv, <1>1, PTL DEF Spec

(* While a game is in progress, waitMulti agrees with who is waited for, and there is always *)
(* somebody to wait for who can move (Room.MjOp, Room.Waiting, User.CanOpSelf).              *)
THEOREM RoundStaysWellFormed == Spec => []RoundIsWellFormed
<1>1. RoomInv => RoundIsWellFormed  BY DEF RoomInv, PlayInv, Playable, RoundIsWellFormed
<1> QED BY RoomInvHolds, <1>1, PTL

(* Draws, claims and gangs keep every hand at 13 tiles, and at 14 for the user who is to     *)
(* play (User.DealMj, Room.FaPai, Room.MajFaPai).                                           *)
THEOREM HandsStayBalanced == Spec => []HandsBalance
<1>1. RoomInv => HandsBalance  BY DEF RoomInv, PlayInv, Playable, HandsBalance
<1> QED BY RoomInvHolds, <1>1, PTL

(* Before haidilao no game is settled twice, and after it at most twice (Room.huPai,         *)
(* Room.doHDL).                                                                              *)
THEOREM NoDoubleSettlement == Spec => []SettledOnce
<1>1. RoomInv => SettledOnce  BY DEF RoomInv
<1> QED BY RoomInvHolds, <1>1, PTL

(* Without a lost connection, and until a game has been settled twice, no game in progress   *)
(* is dealt again (Room.huPai, Local.continueGame, and the client's Continue per GameOver).  *)
THEOREM GameIsNotRedealt == Spec => NoMidGameRedeal
<1>1. RoomInv /\ [Next]_vars => [drops = 0 /\ ~twice /\ InPlay => deals' = deals]_vars  BY NextInv
<1> QED BY RoomInvHolds, <1>1, PTL DEF Spec, NoMidGameRedeal

-----------------------------------------------------------------------------
(* What the users who are waited for may do, their hands can do. *)
ClaimsFit ==
    \A s \in Seats : waiting[s] =>
        /\ canOps[s] \cap {Chi, Peng} # {} => hand[s] >= 2
        /\ MGang \in canOps[s] => hand[s] >= 3
        /\ AGang \in canOps[s] => hand[s] >= 4

(* The last tiles are dealt: whoever drew one has 14, and a gang or the win is all there is. *)
Haidilao ==
    /\ waitMulti
    /\ \A s \in Seats :
           waiting[s] => hand[s] + 3 * groups[s] = 14 /\ canOps[s] \subseteq {AGang, HuPai}

WaitInv == SomebodyWaits => (InPlay /\ ~failed) \/ Haidilao

TableInv ==
    /\ mjIndex \in 0 .. TileCount /\ moved \in BOOLEAN
    /\ waitOp \in [Seats -> Ops \cup {0}]
    /\ hand \in [Seats -> 0 .. 14] /\ groups \in [Seats -> 0 .. 4]
    /\ ClaimsFit /\ WaitInv

(* The rest of what a step has to keep. *)
Kept ==
    /\ mjIndex' \in 0 .. TileCount /\ hand' \in [Seats -> 0 .. 14] /\ groups' \in [Seats -> 0 .. 4]
    /\ ClaimsFit' /\ WaitInv'

(* Nobody is waited for after the answer of s. *)
LEMMA NobodyWaits ==
    ASSUME RoomTypes, ClaimsFit, \A u \in Seats : ~waiting'[u]
    PROVE  ClaimsFit' /\ WaitInv'
BY DEF ClaimsFit, WaitInv, SomebodyWaits

(* An answer that asks nobody, with the hands h. *)
LEMMA RestFits ==
    ASSUME RoomInv, TableInv, NEW s \in Seats, ~Waiting(s), NEW h \in [Seats -> 0 .. 14],
           groups' \in [Seats -> 0 .. 4], NEW t, NEW f, Rest(s, t, h, f)
    PROVE  Kept
<1>1. hand' = h /\ mjIndex' = mjIndex /\ waiting' = [waiting EXCEPT ![s] = FALSE]
      BY DEF Rest, Answered
<1>2. \A u \in Seats : ~waiting'[u]  BY <1>1 DEF Waiting, RoomInv, RoomTypes, Flags
<1>3. ClaimsFit' /\ WaitInv'  BY <1>2, NobodyWaits DEF RoomInv, TableInv
<1> QED BY <1>1, <1>3 DEF Kept, TableInv

(* t alone is waited for, and may do what its hand can do. *)
LEMMA AskedAlone ==
    ASSUME RoomInv, NEW s \in Seats, NEW t \in Seats, NEW h \in [Seats -> Int], NEW f \in [Seats -> SUBSET Ops],
           LastAnswer(s), CanOpSelf(s, t, h, f, SelfClaims(h[t])),
           InPlay, ~failed
    PROVE  ClaimsFit' /\ WaitInv'
<1>1. SelfClaims(h[t]) \in SUBSET SUBSET {AGang, HuPai}  BY SelfClaimsType DEF RoomInv
<1>2. /\ hand' = h /\ \A u \in Seats : waiting'[u] <=> u = t \/ (waiting[u] /\ u # s)
      /\ UNCHANGED <<score, whole>>
      BY <1>1, CanOpSelfStep DEF RoomInv
<1>3. \A u \in Seats : waiting[u] => u = s  BY DEF LastAnswer, Waiting
<1>4. PICK c \in SelfClaims(h[t]) : canOps' = [f EXCEPT ![t] = c \cup {ChuPai}]  BY DEF CanOpSelf
<1>5. canOps'[t] = c \cup {ChuPai}  BY <1>4
<1>6. c \subseteq {AGang, HuPai} /\ (AGang \in c => h[t] >= 4)  BY <1>1, <1>4 DEF SelfClaims
<1>7. /\ canOps'[t] \cap {Chi, Peng} = {} /\ MGang \notin canOps'[t]
      /\ AGang \in canOps'[t] => h[t] >= 4
      BY <1>5, <1>6 DEF ChuPai, Chi, Peng, MGang, AGang, HuPai
<1>8. ClaimsFit'  BY <1>2, <1>3, <1>7 DEF ClaimsFit
<1>9. InPlay' /\ ~failed'  BY <1>2 DEF InPlay, score, whole
<1> QED BY <1>8, <1>9 DEF WaitInv

(* Who gets one of the last tiles had 13 before. *)
LEMMA HaidilaoFits ==
    ASSUME RoomInv, TableInv, NEW t \in Seats, NEW h \in [Seats -> Int], NEW f \in [Seats -> SUBSET Ops],
           doHDL(t, h, f), canHDL, groups' \in [Seats -> 0 .. 4],
           \A u \in Seats : h[u] + 3 * groups'[u] = 13
    PROVE  Kept
<1>1. /\ waitMulti' = TRUE /\ hand' \in [Seats -> Int]
      /\ \A u \in Seats :
             waiting'[u] => /\ canOps'[u] \subseteq {AGang, HuPai}
                            /\ (AGang \in canOps'[u] => hand'[u] >= 4)
                            /\ hand'[u] = h[u] + 1
      /\ \A u \in Seats : ~waiting'[u] => hand'[u] = h[u]
      BY doHDLTypes DEF RoomInv
<1>2. ASSUME NEW u \in Seats
      PROVE  hand'[u] \in 0 .. 14 /\ (waiting'[u] => hand'[u] + 3 * groups'[u] = 14)
  <2>1. h[u] \in Int /\ groups'[u] \in 0 .. 4 /\ h[u] + 3 * groups'[u] = 13  OBVIOUS
  <2>2. CASE waiting'[u]
    <3>1. hand'[u] = h[u] + 1  BY <1>1, <2>2
    <3> QED BY <2>1, <3>1
  <2>3. CASE ~waiting'[u]
    <3>1. hand'[u] = h[u]  BY <1>1, <2>3
    <3> QED BY <2>1, <2>3, <3>1
  <2> QED BY <2>2, <2>3
<1>3. hand' \in [Seats -> 0 .. 14]  BY <1>1, <1>2
<1>4. mjIndex' \in 0 .. TileCount
  <2>1. mjIndex \in 0 .. TileCount /\ TileCount \in Nat
        BY RoomAssumption DEF RoomAssumption, TableInv
  <2>2. mjIndex' = TileCount \/ (mjIndex' = mjIndex + 4 /\ mjIndex' <= TileCount)
        BY doHDLEnds DEF RoomInv
  <2> QED BY <2>1, <2>2
<1>5. WaitInv'
  <2>1. Haidilao'  BY <1>1, <1>2 DEF Haidilao
  <2> QED BY <2>1 DEF WaitInv
<1>6. ClaimsFit'
  <2>1. \A u \in Seats : waiting'[u] => canOps'[u] \cap {Chi, Peng} = {} /\ MGang \notin canOps'[u]
        BY <1>1 DEF Chi, Peng, MGang, AGang, HuPai
  <2> QED BY <1>1, <2>1 DEF ClaimsFit
<1> QED BY <1>3, <1>4, <1>5, <1>6 DEF Kept

(* t draws, with 13 in hand before, or panics. *)
LEMMA DrawFits ==
    ASSUME RoomInv, TableInv, NEW s \in Seats, NEW t \in Seats, NEW h \in [Seats -> Int],
           NEW f \in [Seats -> SUBSET Ops], LastAnswer(s), FaPai(s, t, h, f), InPlay, ~failed,
           groups' \in [Seats -> 0 .. 4], \A u \in Seats : h[u] + 3 * groups'[u] = 13
    PROVE  Kept
<1>0. mjIndex \in 0 .. TileCount /\ TileCount \in Nat
      BY RoomAssumption DEF RoomAssumption, TableInv
<1>1. ASSUME NEW u \in Seats PROVE h[u] \in 0 .. 13
  <2>1. h[u] \in Int /\ groups'[u] \in 0 .. 4 /\ h[u] + 3 * groups'[u] = 13  OBVIOUS
  <2> QED BY <2>1
<1>2. CASE ~(mjIndex < TileCount)
  <2>1. Rest(s, t, h, f)  BY <1>2, FaPaiEnds DEF RoomInv
  <2>2. \A u \in Seats : h[u] \in 0 .. 14  BY <1>1
  <2>3. h \in [Seats -> 0 .. 14] /\ ~Waiting(s)  BY <2>2 DEF LastAnswer
  <2> QED BY <2>1, <2>3, RestFits
<1>3. CASE mjIndex < TileCount
  <2>1. PICK g \in [Seats -> Int] : g = [h EXCEPT ![t] = @ + 1]
    <3>1. [h EXCEPT ![t] = @ + 1] \in [Seats -> Int]  OBVIOUS
    <3> QED BY <3>1
  <2>2. ~(mjIndex >= TileCount)  BY <1>0, <1>3
  <2>3. /\ CanOpSelf(s, t, g, f, SelfClaims(h[t] + 1)) /\ mjIndex' = mjIndex + 1 /\ g[t] = h[t] + 1
        BY <2>1, <2>2 DEF FaPai
  <2>4. hand' = g  BY <2>3 DEF CanOpSelf
  <2>5. mjIndex' \in 0 .. TileCount  BY <1>0, <1>3, <2>3
  <2>6. ASSUME NEW u \in Seats PROVE g[u] \in 0 .. 14
    <3>1. h[u] \in 0 .. 13  BY <1>1
    <3>2. g[u] = h[u] \/ g[u] = h[u] + 1  BY <2>1
    <3> QED BY <3>1, <3>2
  <2>7. hand' \in [Seats -> 0 .. 14]  BY <2>4, <2>6
  <2>8. ClaimsFit' /\ WaitInv'
    <3>1. CanOpSelf(s, t, g, f, SelfClaims(g[t]))  BY <2>3
    <3> QED BY <3>1, AskedAlone
  <2> QED BY <2>5, <2>7, <2>8 DEF Kept
<1> QED BY <1>2, <1>3

(* Who answers is in a game in progress, with the hands in balance, or at haidilao. *)
LEMMA WhoAnswers ==
    ASSUME RoomInv, TableInv, NEW s \in Seats, waiting[s]
    PROVE  \/ /\ InPlay /\ ~failed /\ Playable
              /\ \A u \in Seats : hand[u] + 3 * groups[u] = IF ~waitMulti /\ u = turn THEN 14 ELSE 13
           \/ Haidilao
<1>1. (InPlay /\ ~failed) \/ Haidilao
      BY DEF TableInv, WaitInv, SomebodyWaits
<1>2. InPlay /\ ~failed => Playable  BY DEF RoomInv, PlayInv
<1> QED BY <1>1, <1>2 DEF Playable

LEMMA DiscardFits ==
    ASSUME RoomInv, TableInv, NEW s \in Seats, LastAnswer(s), ~waitMulti, Discard(s), groups' = Groups(s, ChuPai)
    PROVE  Kept
<1>1. RoomTypes  BY DEF RoomInv
<1>2. PICK h \in [Seats -> Int] : h = Hands(s, ChuPai)
  <2>1. ChuPai \in Ops  BY DEF Ops
  <2> QED BY <1>1, <2>1, HandsIs
<1>3. /\ \A u \in Seats : h[u] = hand[u] - (IF u = s THEN 1 ELSE 0)
      /\ \A u \in Seats : groups'[u] = groups[u]
  <2>1. ChuPai \in Ops /\ Taken(ChuPai) = 1  BY TakenIs DEF Ops
  <2>2. /\ \A u \in Seats : Hands(s, ChuPai)[u] = hand[u] - (IF u = s THEN Taken(ChuPai) ELSE 0)
        /\ \A u \in Seats : Groups(s, ChuPai)[u] = groups[u] + (IF u = s /\ Taken(ChuPai) > 1 THEN 1 ELSE 0)
        BY <1>1, <2>1, HandsIs
  <2>3. \A u \in Seats : groups[u] \in Int  BY <1>1 DEF RoomTypes
  <2>4. \A u \in Seats : h[u] = hand[u] - (IF u = s THEN 1 ELSE 0)  BY <1>2, <2>1, <2>2
  <2>5. \A u \in Seats : groups'[u] = groups[u]  BY <2>1, <2>2, <2>3
  <2> QED BY <2>4, <2>5
<1>4. groups' = groups
  <2>1. groups' \in [Seats -> Int] /\ groups \in [Seats -> Int]
    <3>1. ChuPai \in Ops  BY DEF Ops
    <3> QED BY <1>1, <3>1, HandsIs DEF RoomTypes
  <2> QED BY <1>3, <2>1
<1>5. groups' \in [Seats -> 0 .. 4]  BY <1>4 DEF TableInv
<1>6. /\ InPlay /\ ~failed /\ Playable
      /\ \A u \in Seats : hand[u] + 3 * groups[u] = IF u = turn THEN 14 ELSE 13
      BY WhoAnswers DEF Haidilao, LastAnswer
<1>7. s = turn  BY <1>6 DEF Playable, LastAnswer
<1>8. ASSUME NEW u \in Seats PROVE h[u] \in 0 .. 14 /\ h[u] + 3 * groups'[u] = 13
  <2>1. hand[u] \in 0 .. 14 /\ groups[u] \in 0 .. 4  BY DEF TableInv
  <2>2. hand[u] + 3 * groups[u] = IF u = s THEN 14 ELSE 13  BY <1>6, <1>7
  <2> QED BY <1>3, <2>1, <2>2
<1>9. PICK t \in Seats : t = Next4(turn)  BY <1>1, Next4Seat DEF RoomTypes
<1>10. PICK f \in Offers(s) :
          IF f = All({})
            THEN IF canHDL THEN doHDL(t, h, All({})) ELSE FaPai(s, t, h, All({}))
            ELSE /\ hand' = h
                 /\ waitMulti' = TRUE
                 /\ canOps' = [u \in Seats |-> f[u] \cup (IF f[u] = {} THEN {} ELSE {GuoPai})]
                 /\ waiting' = [u \in Seats |-> f[u] # {}]
                 /\ told' = [u \in Seats |-> online[u] /\ f[u] # {}]
                 /\ UNCHANGED <<turn, mjIndex, score, whole>>
       BY <1>2, <1>9 DEF Discard
<1>11. mjIndex \in 0 .. TileCount  BY DEF TableInv
<1>15. All({}) \in [Seats -> SUBSET Ops]  BY DEF All
<1>12. CASE f = All({}) /\ canHDL
       BY <1>5, <1>8, <1>10, <1>12, <1>15, HaidilaoFits
<1>13. CASE f = All({}) /\ ~canHDL
       BY <1>5, <1>6, <1>8, <1>10, <1>13, <1>15, DrawFits
<1>14. CASE f # All({})
  <2>1. /\ hand' = h /\ waiting' = [u \in Seats |-> f[u] # {}]
        /\ canOps' = [u \in Seats |-> f[u] \cup (IF f[u] = {} THEN {} ELSE {GuoPai})]
        /\ mjIndex' = mjIndex /\ UNCHANGED <<score, whole>>
        BY <1>10, <1>14
  <2>2. f \in [Seats -> play.claims] /\ f[s] = {}
        /\ \A u \in Seats : /\ f[u] \cap {Chi, Peng} # {} => hand[u] >= 2
                            /\ MGang \in f[u] => hand[u] >= 3
        BY DEF Offers
  <2>3. ASSUME NEW u \in Seats, waiting'[u]
        PROVE  /\ canOps'[u] \cap {Chi, Peng} # {} => hand'[u] >= 2
               /\ MGang \in canOps'[u] => hand'[u] >= 3
               /\ AGang \notin canOps'[u]
    <3>1. u # s /\ canOps'[u] = f[u] \cup {GuoPai}  BY <2>1, <2>2, <2>3
    <3>2. hand'[u] = hand[u]
      <4>1. hand[u] \in 0 .. 14  BY DEF TableInv
      <4> QED BY <1>3, <2>1, <3>1, <4>1
    <3>3. f[u] \subseteq {Chi, Peng, MGang, HuPai}  BY <2>2, PlayTypes DEF RoomInv
    <3> QED BY <2>2, <3>1, <3>2, <3>3 DEF Chi, Peng, MGang, AGang, HuPai, GuoPai
  <2>4. ClaimsFit'  BY <2>3 DEF ClaimsFit
  <2>5. WaitInv'  BY <1>6, <2>1 DEF WaitInv, InPlay, score, whole
  <2>6. hand' \in [Seats -> 0 .. 14]  BY <1>8, <2>1
  <2> QED BY <1>5, <1>11, <2>1, <2>4, <2>5, <2>6 DEF Kept
<1> QED BY <1>12, <1>13, <1>14

(* What the answer takes out of the hand and what it adds to the groups. *)
LEMMA TakeFits ==
    ASSUME RoomInv, TableInv, NEW s \in Seats, NEW op \in Ops, groups' = Groups(s, op),
           NEW n \in {13, 14}, hand[s] + 3 * groups[s] = n, hand[s] >= Taken(op),
           Taken(op) = 2 => n = 13
    PROVE  /\ groups' \in [Seats -> 0 .. 4]
           /\ \A u \in Seats : /\ groups'[u] = groups[u] + (IF u = s /\ Taken(op) > 1 THEN 1 ELSE 0)
                               /\ Hands(s, op)[u] = hand[u] - (IF u = s THEN Taken(op) ELSE 0)
                               /\ Hands(s, op)[u] \in 0 .. 14
           /\ Hands(s, op) \in [Seats -> 0 .. 14]
<1>1. RoomTypes  BY DEF RoomInv
<1>2. /\ Taken(op) \in Int
      /\ Hands(s, op) \in [Seats -> Int] /\ groups' \in [Seats -> Int]
      /\ \A u \in Seats : Hands(s, op)[u] = hand[u] - (IF u = s THEN Taken(op) ELSE 0)
      /\ \A u \in Seats : groups'[u] = groups[u] + (IF u = s /\ Taken(op) > 1 THEN 1 ELSE 0)
      BY <1>1, HandsIs
<1>3. Taken(op) \in 0 .. 4  BY DEF Taken
<1>4. ASSUME NEW u \in Seats
      PROVE  groups'[u] \in 0 .. 4 /\ Hands(s, op)[u] \in 0 .. 14
  <2>1. hand[u] \in 0 .. 14 /\ groups[u] \in 0 .. 4  BY DEF TableInv
  <2>2. CASE u # s
    BY <1>2, <1>3, <2>1, <2>2
  <2>3. CASE u = s
    <3>1. Hands(s, op)[u] \in 0 .. 14
          BY <1>2, <1>3, <2>1, <2>3
    <3>2. groups'[u] = groups[u] + (IF Taken(op) > 1 THEN 1 ELSE 0)  BY <1>2, <2>3
    <3>3. Taken(op) > 1 => groups[u] <= 3
      <4>1. hand[u] + 3 * groups[u] = n  BY <2>3
      <4>2. Taken(op) > 1 => hand[u] >= 2 /\ (n = 14 => hand[u] >= 3)
            BY <1>3, <2>1, <2>3
      <4> QED BY <2>1, <4>1, <4>2
    <3>4. groups'[u] \in 0 .. 4  BY <1>3, <2>1, <3>2, <3>3
    <3> QED BY <3>1, <3>4
  <2> QED BY <2>2, <2>3
<1> QED BY <1>2, <1>4

LEMMA MjOpSelfFits ==
    ASSUME RoomInv, TableInv, NEW s \in Seats, NEW op \in Ops, op \in canOps[s], LastAnswer(s), ~waitMulti,
           MjOpSelf(s, op)
    PROVE  Kept
<1>1. /\ InPlay /\ ~failed /\ Playable
      /\ \A u \in Seats : hand[u] + 3 * groups[u] = IF u = turn THEN 14 ELSE 13
      BY WhoAnswers DEF Haidilao, LastAnswer
<1>2. s = turn /\ waiting[s]  BY <1>1 DEF Playable, LastAnswer
<1>3. groups' = Groups(s, op)  BY DEF MjOpSelf
<1>4. hand[s] + 3 * groups[s] = 14  BY <1>1, <1>2
<1>5. CASE op = ChuPai /\ Discard(s)
      BY <1>3, <1>5, DiscardFits
<1>6. CASE op = AGang /\ FaPai(s, turn, Hands(s, op), Spent(s))
  <2>1. Taken(op) = 4 /\ hand[s] >= 4  BY <1>2, <1>6, TakenIs DEF TableInv, ClaimsFit
  <2>2. /\ groups' \in [Seats -> 0 .. 4]
        /\ \A u \in Seats : /\ groups'[u] = groups[u] + (IF u = s /\ Taken(op) > 1 THEN 1 ELSE 0)
                            /\ Hands(s, op)[u] = hand[u] - (IF u = s THEN Taken(op) ELSE 0)
                            /\ Hands(s, op)[u] \in 0 .. 14
        BY <1>3, <1>4, <2>1, TakeFits
  <2>3. PICK h \in [Seats -> Int] : h = Hands(s, op)  BY HandsIs DEF RoomInv
  <2>4. ASSUME NEW u \in Seats PROVE h[u] + 3 * groups'[u] = 13
    <3>1. hand[u] \in 0 .. 14 /\ groups[u] \in 0 .. 4  BY DEF TableInv
    <3>2. hand[u] + 3 * groups[u] = IF u = s THEN 14 ELSE 13  BY <1>1, <1>2
    <3>3. h[u] = hand[u] - (IF u = s THEN 4 ELSE 0)  BY <2>1, <2>2, <2>3
    <3>4. groups'[u] = groups[u] + (IF u = s THEN 1 ELSE 0)  BY <2>1, <2>2
    <3> QED BY <3>1, <3>2, <3>3, <3>4
  <2>6. Spent(s) \in [Seats -> SUBSET Ops] /\ turn \in Seats  BY HandsIs DEF RoomInv, RoomTypes
  <2> QED BY <1>1, <1>6, <2>2, <2>3, <2>4, <2>6, DrawFits
<1>7. CASE op = HuPai /\ Rest(s, turn, hand, Spent(s))
  <2>1. Taken(op) = 0  BY <1>7, TakenIs
  <2>2. groups' \in [Seats -> 0 .. 4]
    <3>1. hand[s] >= 0  BY DEF TableInv
    <3> QED BY <1>3, <1>4, <2>1, <3>1, TakeFits
  <2>3. hand \in [Seats -> 0 .. 14] /\ ~Waiting(s)  BY DEF TableInv, LastAnswer
  <2> QED BY <1>7, <2>2, <2>3, RestFits
<1> QED BY <1>5, <1>6, <1>7 DEF MjOpSelf

LEMMA MjOpOtherFits ==
    ASSUME RoomInv, TableInv, NEW s \in Seats, NEW op \in Ops, op \in canOps[s], LastAnswer(s), waitMulti,
           MjOpOther(s, op)
    PROVE  Kept
<1>1. RoomTypes /\ waiting[s]  BY DEF RoomInv, LastAnswer
<1>2. PICK h \in [Seats -> Int] : h = Hands(s, op)  BY <1>1, HandsIs
<1>3. /\ groups' = Groups(s, op)
      /\ \/ op = GuoPai /\ IF canHDL THEN doHDL(turn, h, Spent(s)) ELSE FaPai(s, Next4(turn), h, Spent(s))
         \/ op = MGang /\ FaPai(s, s, h, Spent(s))
         \/ /\ op \in {Chi, Peng}
            /\ CanOpSelf(s, s, h, Spent(s), SelfClaims(h[s])) /\ mjIndex' = mjIndex
         \/ op \in {HuPai, AGang} /\ Rest(s, turn, h, Spent(s))
  <2>1. [waitOp EXCEPT ![s] = op][s] = op  BY <1>1 DEF RoomTypes
  <2> QED BY <1>2, <2>1, LastAnswerWins DEF MjOpOther
<1>4. \/ /\ InPlay /\ ~failed /\ Playable
         /\ \A u \in Seats : hand[u] + 3 * groups[u] = 13
      \/ Haidilao
      BY <1>1, WhoAnswers
<1>5. Taken(op) <= hand[s]
  <2>1. hand[s] \in 0 .. 14  BY DEF TableInv
  <2>2. /\ canOps[s] \cap {Chi, Peng} # {} => hand[s] >= 2
        /\ MGang \in canOps[s] => hand[s] >= 3
        /\ AGang \in canOps[s] => hand[s] >= 4
        BY <1>1 DEF TableInv, ClaimsFit
  <2>3. op \in {GuoPai, MGang, Chi, Peng, HuPai, AGang}  BY <1>3
  <2> QED BY <2>1, <2>2, <2>3, TakenIs
<1>6. PICK n \in {13, 14} : hand[s] + 3 * groups[s] = n /\ (Taken(op) = 2 => n = 13)
  <2>1. CASE Haidilao
    <3>1. op \in {AGang, HuPai} /\ hand[s] + 3 * groups[s] = 14  BY <1>1, <2>1 DEF Haidilao
    <3> QED BY <3>1, TakenIs
  <2> QED BY <1>4, <2>1
<1>7. /\ groups' \in [Seats -> 0 .. 4]
      /\ \A u \in Seats : /\ groups'[u] = groups[u] + (IF u = s /\ Taken(op) > 1 THEN 1 ELSE 0)
                          /\ h[u] = hand[u] - (IF u = s THEN Taken(op) ELSE 0)
      /\ h \in [Seats -> 0 .. 14]
      BY <1>2, <1>3, <1>5, <1>6, TakeFits
<1>8. CASE op \in {HuPai, AGang}
  <2>1. Rest(s, turn, h, Spent(s)) /\ ~Waiting(s)
        BY <1>3, <1>8 DEF GuoPai, Chi, Peng, MGang, HuPai, AGang, LastAnswer
  <2> QED BY <1>7, <2>1, RestFits
<1>9. CASE op \notin {HuPai, AGang}
  <2>1. /\ InPlay /\ ~failed
        /\ \A u \in Seats : hand[u] + 3 * groups[u] = 13
        BY <1>1, <1>4, <1>9 DEF Haidilao
  <2>2. \A u \in Seats : hand[u] \in 0 .. 14 /\ groups[u] \in 0 .. 4  BY DEF TableInv
  <2>3. turn \in Seats /\ Next4(turn) \in Seats /\ Spent(s) \in [Seats -> SUBSET Ops]
        BY <1>1, Next4Seat, HandsIs DEF RoomTypes
  <2>4. mjIndex \in 0 .. TileCount /\ TileCount \in Int
        BY RoomAssumption DEF TableInv, RoomAssumption
  <2>5. CASE op = GuoPai
    <3>1. Taken(op) = 0  BY <2>5, TakenIs
    <3>2. IF canHDL THEN doHDL(turn, h, Spent(s)) ELSE FaPai(s, Next4(turn), h, Spent(s))
          BY <1>3, <2>5 DEF GuoPai, Chi, Peng, MGang, HuPai, AGang
    <3>3. \A u \in Seats : h[u] + 3 * groups'[u] = 13  BY <1>7, <2>1, <2>2, <3>1
    <3>4. CASE canHDL
          BY <1>7, <2>3, <3>2, <3>3, <3>4, HaidilaoFits
    <3>5. CASE ~canHDL
          BY <1>7, <2>1, <2>3, <3>2, <3>3, <3>5, DrawFits
    <3> QED BY <3>4, <3>5
  <2>6. CASE op = MGang
    <3>1. Taken(op) = 3  BY <2>6, TakenIs
    <3>2. FaPai(s, s, h, Spent(s))  BY <1>3, <2>6 DEF GuoPai, Chi, Peng, MGang, HuPai, AGang
    <3>3. \A u \in Seats : h[u] + 3 * groups'[u] = 13  BY <1>7, <2>1, <2>2, <3>1
    <3> QED BY <1>7, <2>1, <2>3, <3>2, <3>3, DrawFits
  <2>7. CASE op \in {Chi, Peng}
    <3>1. CanOpSelf(s, s, h, Spent(s), SelfClaims(h[s])) /\ mjIndex' = mjIndex
          BY <1>3, <2>7 DEF GuoPai, Chi, Peng, MGang, HuPai, AGang
    <3>2. hand' = h  BY <3>1 DEF CanOpSelf
    <3>4. ClaimsFit' /\ WaitInv'  BY <2>1, <2>3, <3>1, AskedAlone
    <3> QED BY <1>7, <2>4, <3>1, <3>2, <3>4 DEF Kept
  <2> QED BY <1>3, <1>9, <2>5, <2>6, <2>7
<1> QED BY <1>8, <1>9

(* A chi that fails may have lost its first tile; it had two. *)
LEMMA DealFailsFits ==
    ASSUME RoomInv, TableInv, NEW s \in Seats, NEW op \in Ops, op \in canOps[s], waiting[s], ~Waiting(s),
           DealFails(s, op)
    PROVE  Kept
<1>1. PICK lost \in {0} \cup (IF op = Chi THEN {1} ELSE {}) :
          Rest(s, turn, [hand EXCEPT ![s] = @ - lost], canOps)
      BY DEF DealFails
<1>2. PICK h \in [Seats -> Int] : h = [hand EXCEPT ![s] = @ - lost]
  <2>1. lost \in Int /\ hand \in [Seats -> Int]  BY DEF RoomInv, RoomTypes
  <2>2. [hand EXCEPT ![s] = @ - lost] \in [Seats -> Int]  BY <2>1
  <2> QED BY <2>2
<1>3. ASSUME NEW u \in Seats PROVE h[u] \in 0 .. 14
  <2>1. hand \in [Seats -> 0 .. 14] /\ hand[u] \in 0 .. 14  BY DEF TableInv
  <2>2. CASE u # s  BY <1>2, <2>1, <2>2
  <2>3. CASE u = s
    <3>1. h[u] = hand[u] - lost  BY <1>2, <2>1, <2>3
    <3>2. op = Chi => hand[u] >= 2  BY <2>3 DEF TableInv, ClaimsFit
    <3> QED BY <2>1, <3>1, <3>2
  <2> QED BY <2>2, <2>3
<1>4. h \in [Seats -> 0 .. 14]  BY <1>3
<1>5. groups' \in [Seats -> 0 .. 4]  BY DEF DealFails, TableInv
<1> QED BY <1>1, <1>2, <1>4, <1>5, RestFits

(* What Kept leaves out, the moves and the answers of the round, changes by assignment only. *)
LEMMA KeptSuffices ==
    ASSUME Kept, moved' \in BOOLEAN, waitOp' \in [Seats -> Ops \cup {0}]
    PROVE  TableInv'
BY DEF Kept, TableInv

LEMMA MjOpFits ==
    ASSUME RoomInv, TableInv, NEW s \in Seats, NEW op \in Ops, MjOp(s, op)
    PROVE  TableInv'
<1>1. /\ waiting[s] /\ told[s] /\ op \in canOps[s] /\ moved' = TRUE
      /\ UNCHANGED <<play, online, deals, drops>>
      BY DEF MjOp
<1>2. CASE Waiting(s)
  <2>1. /\ waitOp' = [waitOp EXCEPT ![s] = op] /\ waiting' = [waiting EXCEPT ![s] = FALSE]
        /\ UNCHANGED <<play, waitMulti, mjIndex, playing, prepare, canOps, hand, groups, failed>>
        BY <1>2 DEF MjOp, table, ghosts
  <2>2. \A u \in Seats : waiting'[u] => waiting[u]
        BY <2>1 DEF RoomInv, RoomTypes, Flags
  <2>3. ClaimsFit'  BY <2>1, <2>2 DEF TableInv, ClaimsFit
  <2>4. WaitInv'
    <3>1. (InPlay /\ ~failed) \/ Haidilao
          BY <1>1 DEF TableInv, WaitInv, SomebodyWaits
    <3>2. (InPlay' <=> InPlay) /\ (Haidilao => Haidilao')  BY <2>1, <2>2 DEF InPlay, Haidilao
    <3> QED BY <2>1, <3>1, <3>2 DEF WaitInv
  <2>5. waitOp' \in [Seats -> Ops \cup {0}]  BY <2>1 DEF TableInv
  <2> QED BY <1>1, <2>1, <2>3, <2>4, <2>5 DEF TableInv
<1>3. CASE ~Waiting(s)
  <2>1. /\ waitOp' = All(0)
        /\ \/ IF waitMulti THEN MjOpOther(s, op) ELSE MjOpSelf(s, op)
           \/ DealFails(s, op)
        BY <1>3 DEF MjOp
  <2>2. LastAnswer(s)  BY <1>1, <1>3, <2>1 DEF LastAnswer
  <2>3. Kept  BY <1>1, <1>3, <2>1, <2>2, DealFailsFits, MjOpSelfFits, MjOpOtherFits
  <2> QED BY <1>1, <2>1, <2>3, KeptSuffices DEF All
<1> QED BY <1>2, <1>3

(* The hands of a new game. *)
LEMMA MajFaPaiFits == ASSUME RoomInv, MajFaPai PROVE TableInv'
<1>1. /\ playing' = TRUE /\ moved' = FALSE /\ mjIndex' = Dealt /\ failed' = FALSE
      /\ prepare' = All(TRUE) /\ waitOp' = All(0) /\ groups' = All(0)
      /\ hand' = [u \in Seats |-> IF u = turn THEN 14 ELSE 13]
      /\ waiting' = [u \in Seats |-> u = turn] /\ turn \in Seats
      BY DEF MajFaPai, RoomInv, RoomTypes
<1>2. PICK c \in SelfClaims(14) : canOps' = [All({}) EXCEPT ![turn] = c \cup {ChuPai}]
      BY DEF MajFaPai
<1>3. canOps'[turn] = c \cup {ChuPai} /\ c \subseteq {AGang, HuPai}
      BY <1>1, <1>2, SelfClaimsType DEF All, RoomInv
<1>4. ClaimsFit'
  <2>1. canOps'[turn] \cap {Chi, Peng} = {} /\ MGang \notin canOps'[turn]
        BY <1>3 DEF ChuPai, Chi, Peng, MGang, AGang, HuPai
  <2>2. hand'[turn] = 14  BY <1>1
  <2>3. \A u \in Seats : waiting'[u] => u = turn  BY <1>1
  <2> QED BY <2>1, <2>2, <2>3 DEF ClaimsFit
<1>5. mjIndex' \in 0 .. TileCount
      BY <1>1, RoomAssumption DEF RoomAssumption, Dealt, HuangZhuang
<1>6. InPlay'  BY <1>1 DEF InPlay, All
<1>7. WaitInv'  BY <1>1, <1>6 DEF WaitInv
<1>8. /\ hand' \in [Seats -> 0 .. 14] /\ groups' \in [Seats -> 0 .. 4]
      /\ waitOp' \in [Seats -> Ops \cup {0}]
      BY <1>1 DEF All
<1> QED BY <1>1, <1>4, <1>5, <1>7, <1>8 DEF TableInv

(* A Continue that does not deal comes when no game is in progress. *)
LEMMA continueGameFits ==
    ASSUME RoomInv, TableInv, NEW s \in Seats, continueGame(s)
    PROVE  TableInv'
<1>1. CASE \A t \in Seats \ {s} : prepare[t]
      BY <1>1, MajFaPaiFits DEF continueGame
<1>2. CASE ~(\A t \in Seats \ {s} : prepare[t])
  <2>1. UNCHANGED <<play, waitMulti, mjIndex, moved, waiting, canOps, hand, groups, waitOp>>
        BY <1>2 DEF continueGame, players
  <2>2. ~InPlay  BY <1>2 DEF InPlay
  <2>3. ClaimsFit'  BY <2>1 DEF TableInv, ClaimsFit
  <2>4. WaitInv'  BY <2>1, <2>2 DEF TableInv, WaitInv, SomebodyWaits, Haidilao
  <2> QED BY <2>1, <2>3, <2>4 DEF TableInv
<1> QED BY <1>1, <1>2

LEMMA TableStays ==
    ASSUME TableInv, UNCHANGED <<play, waitMulti, mjIndex, playing, prepare, moved, waiting, canOps, hand, groups,
                                 waitOp, failed>>
    PROVE  TableInv'
<1>1. ClaimsFit'  BY DEF TableInv, ClaimsFit
<1>2. WaitInv'  BY DEF TableInv, WaitInv, SomebodyWaits, InPlay, Haidilao
<1> QED BY <1>1, <1>2 DEF TableInv

LEMMA TableNext == ASSUME RoomInv, TableInv, [Next]_vars PROVE TableInv'
<1>1. CASE startGame  BY <1>1, MajFaPaiFits DEF startGame
<1>2. CASE \E s \in Seats : Answer(s)  BY <1>2, MjOpFits DEF Answer
<1>3. CASE \E s \in Seats : continueGame(s)  BY <1>3, continueGameFits
<1>4. CASE (\E s \in Seats : Drop(s) \/ Reconnect(s)) \/ UNCHANGED vars
  <2>1. UNCHANGED <<play, waitMulti, mjIndex, playing, prepare, moved, waiting, canOps, hand, groups, waitOp,
                    failed>>
        BY <1>4 DEF Drop, Reconnect, vars, table, players, ghosts
  <2> QED BY <2>1, TableStays
<1> QED BY <1>1, <1>2, <1>3, <1>4 DEF Next

LEMMA TableInit == Init => TableInv
<1> SUFFICES ASSUME Init PROVE TableInv  OBVIOUS
<1>1. \A s \in Seats : ~waiting[s]  BY DEF Init, All
<1>2. ClaimsFit /\ WaitInv  BY <1>1 DEF ClaimsFit, WaitInv, SomebodyWaits
<1>3. /\ hand \in [Seats -> 0 .. 14] /\ groups \in [Seats -> 0 .. 4]
      /\ waitOp \in [Seats -> Ops \cup {0}] /\ moved \in BOOLEAN
  <2>1. hand \in [Seats -> 0 .. 14]  BY DEF Init, All
  <2>2. groups \in [Seats -> 0 .. 4]  BY DEF Init, All
  <2>3. waitOp \in [Seats -> Ops \cup {0}]  BY DEF Init, All
  <2>4. moved = FALSE  BY DEF Init
  <2> QED BY <2>1, <2>2, <2>3, <2>4
<1>4. mjIndex \in 0 .. TileCount  BY RoomAssumption DEF Init, RoomAssumption
<1> QED BY <1>2, <1>3, <1>4 DEF TableInv

(* The invariant of both sections. *)
LEMMA TableInvHolds == Spec => []TableInv
<1>1. RoomInv /\ TableInv /\ [Next]_vars => TableInv'  BY TableNext
<1> QED BY RoomInvHolds, TableInit, <1>1, PTL DEF Spec

(* No hand exceeds 14 tiles or runs below none, and nobody makes a fifth group, whatever is  *)
(* claimed and drawn and wherever a handler stops (User.DealMj, Room.FaPai, Room.doHDL).     *)
THEOREM HandsStayInBounds == Spec => []TypeOK
<1>1. RoomInv /\ TableInv => TypeOK  BY DEF RoomInv, RoomTypes, TableInv, TypeOK, Flags
<1> QED BY RoomInvHolds, TableInvHolds, <1>1, PTL

-----------------------------------------------------------------------------
(* A game in progress has drawn no more than canHDL lets it, but for one tile per gang. *)
DrawsByGangs == InPlay /\ ~failed => mjIndex <= TileCount - HuangZhuang + gangs

WallInv == DrawsByGangs /\ WallLasts

Numbers == mjIndex \in Int /\ TileCount \in Int /\ gangs \in Nat /\ gangs' \in Nat

(* The arithmetic of it, with i tiles drawn of c and g gangs. *)
LEMMA GangsAdd ==
    ASSUME NEW i \in Int, NEW c \in Int, NEW g \in Int, NEW g2 \in Int,
           i <= c - HuangZhuang + g, g2 >= g
    PROVE  i <= c - HuangZhuang + g2
BY DEF HuangZhuang

LEMMA LastDraws ==
    ASSUME NEW i \in Int, NEW c \in Int, NEW g \in Int,
           i + 1 <= c - HuangZhuang + g, i >= c
    PROVE  g >= 7
BY DEF HuangZhuang

LEMMA NotYetLast ==
    ASSUME NEW i \in Int, NEW c \in Int, NEW g \in Nat, ~(HuangZhuang + i >= c)
    PROVE  i + 1 <= c - HuangZhuang + g
BY DEF HuangZhuang

(* An answer that draws nothing. *)
LEMMA WallStays ==
    ASSUME WallInv, Numbers, gangs' >= gangs, mjIndex' = mjIndex, overrun' = overrun,
           InPlay' /\ ~failed' => InPlay /\ ~failed
    PROVE  WallInv'
<1>0. mjIndex \in Int /\ TileCount \in Int /\ gangs \in Int /\ gangs' \in Int  BY DEF Numbers
<1>1. DrawsByGangs'
  <2> SUFFICES ASSUME InPlay', ~failed' PROVE mjIndex <= TileCount - HuangZhuang + gangs'
      BY DEF DrawsByGangs
  <2>1. mjIndex <= TileCount - HuangZhuang + gangs  BY DEF WallInv, DrawsByGangs
  <2> QED BY <1>0, <2>1, GangsAdd
<1>2. WallLasts'  BY DEF WallInv, WallLasts, Numbers
<1> QED BY <1>1, <1>2 DEF WallInv

(* A draw: of the next user with the wall not used up, or for a gang. *)
LEMMA WallAtDraw ==
    ASSUME RoomInv, WallInv, Numbers, NEW s \in Seats, NEW t \in Seats, NEW h \in [Seats -> Int],
           NEW f \in [Seats -> SUBSET Ops], FaPai(s, t, h, f), gangs' >= gangs,
           mjIndex + 1 <= TileCount - HuangZhuang + gangs'
    PROVE  WallInv'
<1>1. CASE mjIndex < TileCount
  <2>1. mjIndex' = mjIndex + 1 /\ overrun' = overrun  BY <1>1, FaPaiStep DEF RoomInv, whole
  <2>2. DrawsByGangs'  BY <2>1 DEF DrawsByGangs
  <2>3. WallLasts'  BY <2>1 DEF WallInv, WallLasts, Numbers
  <2> QED BY <2>2, <2>3 DEF WallInv
<1>2. CASE ~(mjIndex < TileCount)
  <2>1. mjIndex >= TileCount /\ failed' = TRUE  BY <1>2, FaPaiEnds DEF RoomInv, Overrun
  <2>2. gangs' >= 7
    <3>1. mjIndex \in Int /\ TileCount \in Int /\ gangs' \in Int  BY DEF Numbers
    <3> QED BY <2>1, <3>1, LastDraws
  <2>3. DrawsByGangs'  BY <2>1 DEF DrawsByGangs
  <2> QED BY <2>2, <2>3 DEF WallInv, WallLasts
<1> QED BY <1>1, <1>2

(* Haidilao takes four tiles, and ten were left but for the gangs. *)
LEMMA WallAtHaidilao ==
    ASSUME RoomInv, WallInv, Numbers, InPlay, ~failed, NEW t \in Seats, NEW h \in [Seats -> Int],
           NEW f \in [Seats -> SUBSET Ops], doHDL(t, h, f), canHDL, gangs' = gangs
    PROVE  WallInv'
<1>1. \/ mjIndex > TileCount - 4 /\ Overrun
      \/ UNCHANGED whole /\ (huPai \/ GameOver)
      BY doHDLEnds DEF RoomInv
<1>2. CASE mjIndex > TileCount - 4 /\ Overrun
  <2>1. gangs >= 7  BY <1>2 DEF WallInv, DrawsByGangs, HuangZhuang, Numbers
  <2>2. failed' = TRUE  BY <1>2 DEF Overrun
  <2> QED BY <2>1, <2>2 DEF WallInv, DrawsByGangs, WallLasts
<1>3. CASE UNCHANGED whole /\ (huPai \/ GameOver)
  <2>1. ~InPlay'  BY <1>3, GameOverStep DEF huPai, RoomInv
  <2>2. overrun' = overrun  BY <1>3 DEF whole
  <2> QED BY <2>1, <2>2 DEF WallInv, DrawsByGangs, WallLasts
<1> QED BY <1>1, <1>2, <1>3

LEMMA WallAtDiscard ==
    ASSUME RoomInv, WallInv, Numbers, InPlay, ~failed, NEW s \in Seats, Discard(s), gangs' = gangs
    PROVE  WallInv'
<1>1. RoomTypes  BY DEF RoomInv
<1>2. PICK h \in [Seats -> Int] : h = Hands(s, ChuPai)
  <2>1. ChuPai \in Ops  BY DEF Ops
  <2> QED BY <1>1, <2>1, HandsIs
<1>3. PICK t \in Seats : t = Next4(turn)  BY <1>1, Next4Seat DEF RoomTypes
<1>4. All({}) \in [Seats -> SUBSET Ops]  BY DEF All
<1>5. \/ canHDL /\ doHDL(t, h, All({}))
      \/ ~canHDL /\ FaPai(s, t, h, All({}))
      \/ UNCHANGED <<mjIndex, score, whole>>
      BY <1>2, <1>3 DEF Discard
<1>6. CASE canHDL /\ doHDL(t, h, All({}))  BY <1>4, <1>6, WallAtHaidilao
<1>7. CASE ~canHDL /\ FaPai(s, t, h, All({}))
  <2>3. mjIndex \in Int /\ TileCount \in Int /\ gangs' \in Nat  BY DEF Numbers
  <2>1. mjIndex + 1 <= TileCount - HuangZhuang + gangs'  BY <1>7, <2>3, NotYetLast DEF canHDL
  <2>2. gangs' >= gangs  BY DEF Numbers
  <2> QED BY <1>4, <1>7, <2>1, <2>2, WallAtDraw
<1>8. CASE UNCHANGED <<mjIndex, score, whole>>
  <2>1. mjIndex' = mjIndex /\ overrun' = overrun /\ failed' = failed /\ InPlay'
        BY <1>8 DEF score, whole, InPlay
  <2>2. gangs' >= gangs  BY DEF Numbers
  <2> QED BY <2>1, <2>2, WallStays
<1> QED BY <1>5, <1>6, <1>7, <1>8

LEMMA WallAtSelf ==
    ASSUME RoomInv, TableInv, WallInv, NEW s \in Seats, NEW op \in Ops, LastAnswer(s), ~waitMulti,
           MjOpSelf(s, op)
    PROVE  WallInv'
<1>1. RoomTypes  BY DEF RoomInv
<1>2. InPlay /\ ~failed
  <2>1. waiting[s]  BY AfterLast
  <2> QED BY <2>1, WhoAnswers DEF Haidilao
<1>3. gangs' = Gangs(op)  BY DEF MjOpSelf
<1>4. Numbers /\ gangs' >= gangs
      BY <1>1, <1>3, GangsNat, RoomAssumption DEF RoomAssumption, RoomTypes, Numbers
<1>5. CASE op = ChuPai /\ Discard(s)
  <2>1. gangs' = gangs  BY <1>3, <1>4, <1>5 DEF Gangs, ChuPai, MGang, AGang, Numbers
  <2> QED BY <1>2, <1>4, <1>5, <2>1, WallAtDiscard
<1>6. CASE op = AGang /\ FaPai(s, turn, Hands(s, op), Spent(s))
  <2>1. gangs' = gangs + 1  BY <1>3, <1>6 DEF Gangs
  <2>2. mjIndex <= TileCount - HuangZhuang + gangs  BY <1>2 DEF WallInv, DrawsByGangs
  <2>3. mjIndex + 1 <= TileCount - HuangZhuang + gangs'  BY <1>4, <2>1, <2>2 DEF HuangZhuang, Numbers
  <2>4. Hands(s, op) \in [Seats -> Int] /\ Spent(s) \in [Seats -> SUBSET Ops] /\ turn \in Seats
        BY <1>1, HandsIs DEF RoomTypes
  <2> QED BY <1>4, <1>6, <2>3, <2>4, WallAtDraw
<1>7. CASE huPai /\ Rest(s, turn, hand, Spent(s)) /\ UNCHANGED whole
  <2>1. mjIndex' = mjIndex /\ overrun' = overrun /\ ~InPlay'
        BY <1>1, <1>7, huPaiStep DEF Rest, whole
  <2> QED BY <1>4, <2>1, WallStays
<1> QED BY <1>5, <1>6, <1>7 DEF MjOpSelf

LEMMA WallAtOther ==
    ASSUME RoomInv, TableInv, WallInv, NEW s \in Seats, NEW op \in Ops, op \in canOps[s], LastAnswer(s),
           waitMulti, MjOpOther(s, op)
    PROVE  WallInv'
<1>1. RoomTypes /\ waiting[s]  BY DEF RoomInv, LastAnswer
<1>2. PICK h \in [Seats -> Int] : h = Hands(s, op)  BY <1>1, HandsIs
<1>3. /\ gangs' = Gangs(op)
      /\ \/ op = GuoPai /\ canHDL /\ doHDL(turn, h, Spent(s))
         \/ op = GuoPai /\ ~canHDL /\ FaPai(s, Next4(turn), h, Spent(s))
         \/ op = MGang /\ FaPai(s, s, h, Spent(s))
         \/ CanOpSelf(s, s, h, Spent(s), SelfClaims(h[s])) /\ mjIndex' = mjIndex
         \/ huPai /\ Rest(s, turn, h, Spent(s)) /\ UNCHANGED whole
         \/ Rest(s, turn, h, Spent(s)) /\ UNCHANGED <<score, whole>>
  <2>1. [waitOp EXCEPT ![s] = op][s] = op  BY <1>1 DEF RoomTypes
  <2> QED BY <1>2, <2>1, LastAnswerWins DEF MjOpOther
<1>4. Numbers /\ gangs' >= gangs
      BY <1>1, <1>3, GangsNat, RoomAssumption DEF RoomAssumption, RoomTypes, Numbers
<1>5. op \notin {AGang, HuPai} => InPlay /\ ~failed
      BY <1>1, WhoAnswers DEF Haidilao
<1>6. turn \in Seats /\ Next4(turn) \in Seats /\ Spent(s) \in [Seats -> SUBSET Ops]
      BY <1>1, Next4Seat, HandsIs DEF RoomTypes
<1>7. op \in {GuoPai, MGang} => op \notin {AGang, HuPai}  BY DEF GuoPai, MGang, AGang, HuPai
<1>8. op = GuoPai => gangs' = gangs  BY <1>3, <1>4 DEF Gangs, GuoPai, MGang, AGang, Numbers
<1>15. mjIndex \in Int /\ TileCount \in Int /\ gangs' \in Nat  BY <1>4 DEF Numbers
<1>9. CASE op = GuoPai /\ canHDL /\ doHDL(turn, h, Spent(s))
      BY <1>4, <1>5, <1>6, <1>7, <1>8, <1>9, WallAtHaidilao
<1>10. CASE op = GuoPai /\ ~canHDL /\ FaPai(s, Next4(turn), h, Spent(s))
  <2>1. mjIndex + 1 <= TileCount - HuangZhuang + gangs'
        BY <1>10, <1>15, NotYetLast DEF canHDL
  <2> QED BY <1>4, <1>6, <1>10, <2>1, WallAtDraw
<1>11. CASE op = MGang /\ FaPai(s, s, h, Spent(s))
  <2>1. gangs' = gangs + 1  BY <1>3, <1>11 DEF Gangs
  <2>2. mjIndex <= TileCount - HuangZhuang + gangs  BY <1>5, <1>7, <1>11 DEF WallInv, DrawsByGangs
  <2>3. mjIndex + 1 <= TileCount - HuangZhuang + gangs'  BY <1>4, <2>1, <2>2 DEF HuangZhuang, Numbers
  <2> QED BY <1>4, <1>6, <1>11, <2>3, WallAtDraw
<1>12. CASE CanOpSelf(s, s, h, Spent(s), SelfClaims(h[s])) /\ mjIndex' = mjIndex
  <2>1. overrun' = overrun /\ failed' = failed /\ UNCHANGED score  BY <1>12 DEF CanOpSelf, whole
  <2>2. InPlay' <=> InPlay  BY <2>1 DEF score, InPlay
  <2> QED BY <1>4, <1>12, <2>1, <2>2, WallStays
<1>13. CASE huPai /\ Rest(s, turn, h, Spent(s)) /\ UNCHANGED whole
  <2>1. mjIndex' = mjIndex /\ overrun' = overrun /\ ~InPlay'
        BY <1>1, <1>13, huPaiStep DEF Rest, whole
  <2> QED BY <1>4, <2>1, WallStays
<1>14. CASE Rest(s, turn, h, Spent(s)) /\ UNCHANGED <<score, whole>>
  <2>1. mjIndex' = mjIndex /\ overrun' = overrun /\ failed' = failed /\ UNCHANGED score
        BY <1>14 DEF Rest, whole
  <2>2. InPlay' <=> InPlay  BY <2>1 DEF score, InPlay
  <2> QED BY <1>4, <2>1, <2>2, WallStays
<1> QED BY <1>3, <1>9, <1>10, <1>11, <1>12, <1>13, <1>14

LEMMA WallAtAnswer ==
    ASSUME RoomInv, TableInv, WallInv, NEW s \in Seats, NEW op \in Ops, MjOp(s, op)
    PROVE  WallInv'
<1>1. waiting[s] /\ told[s] /\ op \in canOps[s] /\ UNCHANGED <<play, online, deals, drops>>  BY DEF MjOp
<1>2. CASE Waiting(s)
  <2>1. UNCHANGED <<mjIndex, playing, prepare, failed, overrun, gangs>>
        BY <1>2 DEF MjOp, table, ghosts
  <2> QED BY <2>1 DEF WallInv, DrawsByGangs, WallLasts, InPlay
<1>3. CASE ~Waiting(s)
  <2>1. /\ waitOp' = All(0)
        /\ \/ IF waitMulti THEN MjOpOther(s, op) ELSE MjOpSelf(s, op)
           \/ DealFails(s, op)
        BY <1>3 DEF MjOp
  <2>2. LastAnswer(s)  BY <1>1, <1>3, <2>1 DEF LastAnswer
  <2>3. CASE DealFails(s, op)
    <3>1. failed' = TRUE /\ overrun' = overrun /\ gangs' = gangs  BY <2>3 DEF DealFails
    <3> QED BY <3>1 DEF WallInv, DrawsByGangs, WallLasts
  <2> QED BY <1>1, <2>1, <2>2, <2>3, WallAtSelf, WallAtOther
<1> QED BY <1>2, <1>3

LEMMA WallAtDeal == ASSUME MajFaPai PROVE WallInv'
<1>1. mjIndex' = Dealt /\ gangs' = 0 /\ overrun' = FALSE  BY DEF MajFaPai
<1>2. Dealt <= TileCount - HuangZhuang + 0  BY RoomAssumption DEF RoomAssumption, Dealt, HuangZhuang
<1> QED BY <1>1, <1>2 DEF WallInv, DrawsByGangs, WallLasts

LEMMA WallNext == ASSUME RoomInv, TableInv, WallInv, [Next]_vars PROVE WallInv'
<1>1. CASE startGame  BY <1>1, WallAtDeal DEF startGame
<1>2. CASE \E s \in Seats : Answer(s)  BY <1>2, WallAtAnswer DEF Answer
<1>3. CASE \E s \in Seats : continueGame(s)
  <2>1. PICK s \in Seats : continueGame(s)  BY <1>3
  <2>2. CASE \A t \in Seats \ {s} : prepare[t]  BY <2>1, <2>2, WallAtDeal DEF continueGame
  <2>3. CASE ~(\A t \in Seats \ {s} : prepare[t])
    <3>1. /\ prepare' = [prepare EXCEPT ![s] = TRUE]
          /\ UNCHANGED <<mjIndex, playing, failed, overrun, gangs>>
          BY <2>1, <2>3 DEF continueGame, ghosts
    <3>2. ~InPlay'  BY <2>3, <3>1 DEF InPlay, RoomInv, RoomTypes, Flags
    <3> QED BY <3>1, <3>2 DEF WallInv, DrawsByGangs, WallLasts
  <2> QED BY <2>2, <2>3
<1>4. CASE (\E s \in Seats : Drop(s) \/ Reconnect(s)) \/ UNCHANGED vars
  <2>1. UNCHANGED <<mjIndex, playing, prepare, failed, overrun, gangs>>
        BY <1>4 DEF Drop, Reconnect, vars, table, ghosts
  <2> QED BY <2>1 DEF WallInv, DrawsByGangs, WallLasts, InPlay
<1> QED BY <1>1, <1>2, <1>3, <1>4 DEF Next

(* The wall is overrun only in a game with seven gangs, for any wall and any claims          *)
(* (Room.canHDL, Room.doHDL, Room.FaPai, which indexes r.mj without looking).                *)
THEOREM WallLastsSixGangs == Spec => []WallLasts
<1>1. Init => WallInv  BY DEF Init, WallInv, DrawsByGangs, WallLasts, InPlay
<1>2. RoomInv /\ TableInv /\ WallInv /\ [Next]_vars => WallInv'  BY WallNext
<1>3. WallInv => WallLasts  BY DEF WallInv
<1> QED BY RoomInvHolds, TableInvHolds, <1>1, <1>2, <1>3, PTL DEF Spec
=============================================================================
