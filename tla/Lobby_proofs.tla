---------------------------- MODULE Lobby_proofs ----------------------------
(***************************************************************************)
(* Proofs about Lobby, for every set of users, every size of a table and   *)
(* every number of rooms, lost messages and restarts; and about the slot   *)
(* machine of the hall (module Slots), for every set of boards and spins.  *)
(***************************************************************************)
EXTENDS Lobby, Slots, FiniteSetTheorems, SequenceTheorems, TLAPS

-----------------------------------------------------------------------------
(* Types. *)

StatusMsgs == [type : {"GameStatus"}, uid : Users]
ReconnMsgs == [type : {"Reconnect"}, uid : Users, room : Nat]
StartMsgs  == [type : {"StartGame"}, room : Nat \ {0}, users : SUBSET Users]
Msgs  == StatusMsgs \cup ReconnMsgs \cup StartMsgs
Seats == [uid : Users, seat : Nat]
Room  == [users : Seq(Seats), playing : BOOLEAN]

HallOK ==
    /\ userGame \in [DOMAIN userGame -> [multi : Multis, room : Nat]]
    /\ DOMAIN userGame \subseteq Users
    /\ incRoomId \in Nat
    /\ asking = Nobody \/ asking \in [uid : Users, multi : Multis]
ChanOK == chan \in Seq(Msgs) /\ answer \in Int
GameOK ==
    /\ rooms \in [DOMAIN rooms -> Room] /\ DOMAIN rooms \subseteq Nat \ {0}
    /\ users \in [DOMAIN users -> Nat \ {0}]
    /\ DOMAIN users \subseteq Users
FaultsOK == lost \in Nat /\ hallRestarts \in Nat /\ gameRestarts \in Nat /\ left \in BOOLEAN

LobbyTypeOK == HallOK /\ ChanOK /\ GameOK /\ FaultsOK

-----------------------------------------------------------------------------
(* What the properties rest on. *)

(* The hall has given the user a room. *)
Assigned(u) == u \in DOMAIN userGame /\ userGame[u].room > 0

(* A user is asked about once at a time, and only while the hall has no room for him. *)
AskingIsFree ==
    /\ asking # Nobody => ~Assigned(asking.uid)
    /\ \A i \in DOMAIN chan : chan[i].type = "GameStatus" =>
          /\ asking # Nobody /\ chan[i].uid = asking.uid
          /\ \A j \in DOMAIN chan : chan[j].type = "GameStatus" => j = i
    /\ answer >= 0 => asking # Nobody /\ \A i \in DOMAIN chan : chan[i].type # "GameStatus"

UsersHaveRooms == \A u \in DOMAIN users : users[u] \in DOMAIN rooms

SeatsInOrder ==
    ~left => \A r \in DOMAIN rooms : \A i \in DOMAIN rooms[r].users : rooms[r].users[i].seat = i - 1

(* Whom the game knows, has seated or is about to seat, the hall has given a room. *)
SeatedAreAssigned ==
    /\ \A u \in DOMAIN users : Assigned(u)
    /\ \A r \in DOMAIN rooms : \A i \in DOMAIN rooms[r].users : Assigned(rooms[r].users[i].uid)
    /\ \A i \in DOMAIN chan : chan[i].type = "StartGame" => \A u \in chan[i].users : Assigned(u)

(* A user is seated once, or is in one StartGame under way. *)
SeatedOnce ==
    /\ \A r, s \in DOMAIN rooms : \A i \in DOMAIN rooms[r].users, j \in DOMAIN rooms[s].users :
          rooms[r].users[i].uid = rooms[s].users[j].uid => r = s /\ i = j
    /\ \A i, j \in DOMAIN chan :
          /\ chan[i].type = "StartGame" /\ chan[j].type = "StartGame"
          /\ chan[i].users \cap chan[j].users # {}
          => i = j
    /\ \A i \in DOMAIN chan : chan[i].type = "StartGame" =>
          \A r \in DOMAIN rooms : \A j \in DOMAIN rooms[r].users :
              rooms[r].users[j].uid \notin chan[i].users

(* Until the hall restarts nobody it asks about plays already. *)
HallKnows ==
    hallRestarts = 0 => answer <= 0 /\ SeatedAreAssigned /\ SeatedOnce

LInv == LobbyTypeOK /\ AskingIsFree /\ UsersHaveRooms /\ SeatsInOrder /\ HallKnows

(* Nothing lost and nothing restarted, whoever has a room sits there or will. *)
NoFaults == hallRestarts + gameRestarts + lost = 0

WillSit(u, r, n) ==
    \/ r \in DOMAIN rooms /\ SeatsOf(r, u) # {}
    \/ \E j \in 1 .. n : chan[j].type = "StartGame" /\ chan[j].room = r /\ u \in chan[j].users

AssignedWillSit ==
    NoFaults => \A u \in Users : Assigned(u) => WillSit(u, userGame[u].room, Len(chan))

PInv == AssignedWillSit /\ ReconnectFindsUser

-----------------------------------------------------------------------------
(* The operators of the model. *)

LEMMA FiniteUsers ==
  ASSUME NEW S \in SUBSET Users
  PROVE  IsFiniteSet(S) /\ Cardinality(S) \in Nat
BY LobbyAssumption, FS_Subset, FS_CardinalityType

(* AddUser appends each of the users once and gives him the number of his place. *)
LEMMA AddUsersAppends ==
  ASSUME NEW users1 \in Seq(Seats), NEW us \in SUBSET Users, NEW s \in AddUsers(users1, us)
  PROVE  /\ s \in Seq(Seats) /\ Len(s) >= Len(users1)
         /\ \A i \in 1 .. Len(users1) : s[i] = users1[i]
         /\ \A i \in Len(users1) + 1 .. Len(s) : s[i].uid \in us /\ s[i].seat = i - 1
         /\ \A i, j \in Len(users1) + 1 .. Len(s) : s[i].uid = s[j].uid => i = j
         /\ \A u \in us : \E i \in Len(users1) + 1 .. Len(s) : s[i].uid = u
<1>1. PICK n \in Nat : n = Cardinality(us)
  BY FiniteUsers
<1>2. PICK m \in Nat : m = Len(users1)
  BY LenProperties
<1>3. PICK o \in [1 .. n -> us] :
         /\ \A i, j \in 1 .. n : o[i] = o[j] => i = j
         /\ s = users1 \o [i \in 1 .. n |-> [uid |-> o[i], seat |-> m + i - 1]]
  BY <1>1, <1>2 DEF AddUsers
<1>4. PICK t : t = [i \in 1 .. n |-> [uid |-> o[i], seat |-> m + i - 1]]
  OBVIOUS
<1>5. t \in [1 .. n -> Seats] /\ \A i \in 1 .. n : t[i].uid = o[i] /\ t[i].seat = m + i - 1
  BY <1>4 DEF Seats
<1>6. t \in Seq(Seats) /\ Len(t) = n
  <2>1. t \in Seq(Seats) /\ DOMAIN t = 1 .. n
    BY <1>5, SeqDef
  <2>2. QED
    BY <2>1, LenProperties
<1>7. /\ s \in Seq(Seats) /\ Len(s) = m + n
      /\ \A i \in 1 .. m + n : s[i] = IF i <= m THEN users1[i] ELSE t[i - m]
  BY <1>2, <1>3, <1>4, <1>6, ConcatProperties
<1>8. \A u \in us : \E k \in 1 .. n : o[k] = u
  <2>1. o \in Injection(1 .. n, us)
    BY <1>3 DEF Injection, IsInjective
  <2>2. Cardinality(1 .. n) = n
    BY FS_Interval
  <2>3. o \in Surjection(1 .. n, us)
    BY <1>1, <2>1, <2>2, FiniteUsers, FS_Injection
  <2>4. QED
    BY <2>3 DEF Surjection
<1>9. \A i \in m + 1 .. m + n : i - m \in 1 .. n /\ s[i] = t[i - m]
  BY <1>7
<1>10. \A i \in m + 1 .. m + n : s[i].uid = o[i - m] /\ s[i].uid \in us /\ s[i].seat = i - 1
  <2> SUFFICES ASSUME NEW i \in m + 1 .. m + n
               PROVE  s[i].uid = o[i - m] /\ s[i].uid \in us /\ s[i].seat = i - 1
    OBVIOUS
  <2>1. PICK k \in 1 .. n : k = i - m
    BY <1>9
  <2>2. QED
    BY <1>5, <1>9, <2>1
<1>11. \A i, j \in m + 1 .. m + n : s[i].uid = s[j].uid => i = j
  <2> SUFFICES ASSUME NEW i \in m + 1 .. m + n, NEW j \in m + 1 .. m + n, s[i].uid = s[j].uid
               PROVE  i - m = j - m
    OBVIOUS
  <2>1. PICK k \in 1 .. n, l \in 1 .. n : k = i - m /\ l = j - m
    BY <1>9
  <2>2. s[i].uid = o[k] /\ s[j].uid = o[l]
    BY <1>10, <2>1
  <2>3. o[k] = o[l]
    BY <2>2
  <2>4. k = l
    BY <1>3, <2>3
  <2>5. QED
    BY <2>1, <2>4
<1>12. \A u \in us : \E i \in m + 1 .. m + n : s[i].uid = u
  <2> SUFFICES ASSUME NEW u \in us PROVE \E i \in m + 1 .. m + n : s[i].uid = u
    OBVIOUS
  <2>1. PICK k \in 1 .. n : o[k] = u
    BY <1>8
  <2>2. m + k \in m + 1 .. m + n /\ (m + k) - m = k
    OBVIOUS
  <2>3. s[m + k].uid = u
    BY <1>10, <2>1, <2>2
  <2>4. QED
    BY <2>2, <2>3
<1>13. QED
  BY <1>2, <1>7, <1>10, <1>11, <1>12

(* The library's induction takes an operator; a set of numbers has a least one without it. *)
LEMMA LeastNumber ==
  ASSUME NEW T \in SUBSET Nat, T # {}
  PROVE  \E x \in T : \A y \in T : x <= y
<1> DEFINE R == {ss \in Nat \X Nat : ss[1] < ss[2]}
<1>1. IsWellFoundedOn(R, Nat)
  BY NatLessThanWellFounded DEF OpToRel
<1>2. \A x, y \in Nat : y < x => <<y, x>> \in R
  OBVIOUS
<1> HIDE DEF R
<1>3. PICK x \in T : \A y \in T : ~ (<<y, x>> \in R)
  BY <1>1, WFMin
<1>4. \A y \in T : ~ (y < x)
  BY <1>2, <1>3
<1>5. QED
  BY <1>4

(* DelUser exchanges two places. *)
LEMMA DelUserSwaps ==
  ASSUME NEW s \in Seq(Seats), NEW u
  PROVE  /\ DelUser(s, u) \in Seq(Seats) /\ Len(DelUser(s, u)) = Len(s)
         /\ \/ DelUser(s, u) = s
            \/ \E i, n \in 1 .. Len(s) : \A k \in 1 .. Len(s) :
                  DelUser(s, u)[k] = IF k = n THEN s[i] ELSE IF k = i THEN s[n] ELSE s[k]
<1>1. DOMAIN s = 1 .. Len(s)
  BY LenProperties
<1>2. PICK n \in Nat : n = Len(s) /\ s \in [1 .. n -> Seats]
  BY LenProperties
<1>3. CASE ~ \E i \in DOMAIN s : s[i].uid = u
  BY <1>3 DEF DelUser
<1>4. CASE \E i \in DOMAIN s : s[i].uid = u
  <2> DEFINE First(k) == s[k].uid = u /\ \A j \in 1 .. k - 1 : s[j].uid # u
  <2>1. {i \in 1 .. n : s[i].uid = u} \in SUBSET Nat
    OBVIOUS
  <2>2. PICK T \in SUBSET Nat : T = {i \in 1 .. n : s[i].uid = u}
    BY <2>1
  <2>3. T # {}
    BY <1>1, <1>2, <1>4, <2>2
  <2>4. PICK x \in T : \A y \in T : x <= y
    BY <2>3, LeastNumber
  <2>5. x \in DOMAIN s /\ First(x)
    BY <1>1, <1>2, <2>2, <2>4
  <2>6. PICK i : i = CHOOSE k \in DOMAIN s : First(k)
    OBVIOUS
  <2>7. i \in DOMAIN s
    <3> HIDE DEF First
    <3> QED BY <2>5, <2>6
  <2>8. DelUser(s, u) = [s EXCEPT ![i] = s[n], ![n] = s[i]]
    BY <1>2, <1>4, <2>6 DEF DelUser
  <2>9. PICK d : d = [s EXCEPT ![i] = s[n], ![n] = s[i]]
    OBVIOUS
  <2>10. i \in 1 .. n /\ n \in 1 .. n
    BY <1>1, <1>2, <2>7
  <2>11. /\ d \in [1 .. n -> Seats]
         /\ \A k \in 1 .. n : d[k] = IF k = n THEN s[i] ELSE IF k = i THEN s[n] ELSE s[k]
    BY <1>2, <2>9, <2>10
  <2>12. d \in Seq(Seats) /\ Len(d) = n
    <3>1. d \in Seq(Seats) /\ DOMAIN d = 1 .. n
      BY <2>11, SeqDef
    <3>2. QED
      BY <3>1, LenProperties
  <2>13. DelUser(s, u) = d /\ Len(s) = n
    BY <1>2, <2>8, <2>9
  <2> HIDE DEF First
  <2>14. \E j, m \in 1 .. Len(s) : \A k \in 1 .. Len(s) :
            DelUser(s, u)[k] = IF k = m THEN s[j] ELSE IF k = j THEN s[m] ELSE s[k]
    BY <2>10, <2>11, <2>13
  <2>15. DelUser(s, u) \in Seq(Seats) /\ Len(DelUser(s, u)) = Len(s)
    BY <2>12, <2>13
  <2>16. QED
    BY <2>14, <2>15
<1>5. QED
  BY <1>3, <1>4

-----------------------------------------------------------------------------
(* What a step does to the messages under way. *)

Sent(msg) ==
  /\ chan' \in Seq(Msgs) /\ Len(chan') = Len(chan) + 1
  /\ chan'[Len(chan) + 1] = msg
  /\ \A i \in 1 .. Len(chan) : chan'[i] = chan[i]

Dropped(k) ==
  /\ k \in 1 .. Len(chan)
  /\ chan' \in Seq(Msgs) /\ Len(chan') = Len(chan) - 1
  /\ \A i \in 1 .. Len(chan) - 1 : chan'[i] = chan[IF i < k THEN i ELSE i + 1]

LEMMA ChanIsSeq ==
  ASSUME ChanOK
  PROVE  /\ Len(chan) \in Nat /\ DOMAIN chan = 1 .. Len(chan)
         /\ \A i \in DOMAIN chan : chan[i] \in Msgs
BY LenProperties, ElementOfSeq DEF ChanOK

LEMMA AppendSends ==
  ASSUME ChanOK, NEW msg \in Msgs, chan' = Append(chan, msg)
  PROVE  Sent(msg)
BY AppendProperties DEF ChanOK, Sent

LEMMA TailDrops ==
  ASSUME ChanOK, chan # <<>>, chan' = Tail(chan)
  PROVE  Dropped(1) /\ Head(chan) = chan[1] /\ 1 \in DOMAIN chan
<1>1. Len(chan) \in Nat \ {0} /\ DOMAIN chan = 1 .. Len(chan)
  BY EmptySeq, LenProperties DEF ChanOK
<1>2. chan' \in Seq(Msgs) /\ Len(chan') = Len(chan) - 1
  BY HeadTailProperties DEF ChanOK
<1>3. \A i \in 1 .. Len(chan) - 1 : chan'[i] = chan[i + 1]
  BY HeadTailProperties DEF ChanOK
<1>4. Head(chan) = chan[1]
  BY <1>1 DEF ChanOK
<1>5. QED
  BY <1>1, <1>2, <1>3, <1>4 DEF Dropped

LEMMA ForgetDrops ==
  ASSUME ChanOK, chan' = Forget
  PROVE  \/ chan' = chan /\ \A i \in DOMAIN chan : chan[i].type # "GameStatus"
         \/ \E k \in DOMAIN chan : chan[k].type = "GameStatus" /\ Dropped(k)
<1>1. CASE \A i \in DOMAIN chan : chan[i].type # "GameStatus"
  BY <1>1 DEF Forget
<1>2. CASE \E i \in DOMAIN chan : chan[i].type = "GameStatus"
  <2>1. PICK k \in DOMAIN chan : chan[k].type = "GameStatus" /\ chan' = RemoveAt(chan, k)
    BY <1>2 DEF Forget
  <2>2. PICK n \in Nat : n = Len(chan) /\ k \in 1 .. n
    BY ChanIsSeq
  <2>3. \A i \in 1 .. n : chan[i] \in Msgs
    BY <2>2, ChanIsSeq
  <2>4. PICK a : a = SubSeq(chan, 1, k - 1)
    OBVIOUS
  <2>5. PICK b : b = SubSeq(chan, k + 1, n)
    OBVIOUS
  <2>6. /\ a \in Seq(Msgs) /\ Len(a) = k - 1
        /\ \A i \in 1 .. k - 1 : a[i] = chan[i]
    <3>1. \A i \in 1 .. k - 1 : chan[i] \in Msgs
      BY <2>2, <2>3
    <3>2. /\ a \in Seq(Msgs) /\ Len(a) = IF 1 <= k - 1 THEN k - 1 - 1 + 1 ELSE 0
          /\ \A i \in 1 .. k - 1 - 1 + 1 : a[i] = chan[1 + i - 1]
      BY <2>2, <2>4, <3>1, SubSeqProperties
    <3>3. QED
      BY <2>2, <3>2
  <2>7. /\ b \in Seq(Msgs) /\ Len(b) = n - k
        /\ \A i \in 1 .. n - k : b[i] = chan[k + i]
    <3>1. \A i \in k + 1 .. n : chan[i] \in Msgs
      BY <2>2, <2>3
    <3>2. /\ b \in Seq(Msgs) /\ Len(b) = IF k + 1 <= n THEN n - (k + 1) + 1 ELSE 0
          /\ \A i \in 1 .. n - (k + 1) + 1 : b[i] = chan[(k + 1) + i - 1]
      BY <2>2, <2>5, <3>1, SubSeqProperties
    <3>3. n - (k + 1) + 1 = n - k /\ (k + 1 <= n \/ n - k = 0)
      BY <2>2
    <3>4. \A i \in 1 .. n - k : (k + 1) + i - 1 = k + i
      BY <2>2
    <3>5. \A i \in 1 .. n - k : b[i] = chan[k + i]
      BY <3>2, <3>3, <3>4
    <3>6. QED
      BY <3>2, <3>3, <3>5
  <2>8. /\ chan' \in Seq(Msgs) /\ Len(chan') = n - 1
        /\ \A i \in 1 .. n - 1 : chan'[i] = IF i <= k - 1 THEN a[i] ELSE b[i - (k - 1)]
    <3>1. chan' = a \o b
      BY <2>1, <2>2, <2>4, <2>5 DEF RemoveAt
    <3>2. QED
      BY <2>2, <2>6, <2>7, <3>1, ConcatProperties
  <2>9. \A i \in 1 .. n - 1 : chan'[i] = chan[IF i < k THEN i ELSE i + 1]
    <3> SUFFICES ASSUME NEW i \in 1 .. n - 1 PROVE chan'[i] = chan[IF i < k THEN i ELSE i + 1]
      OBVIOUS
    <3>1. CASE i < k
      <4>1. i \in 1 .. k - 1 /\ i <= k - 1
        BY <2>2, <3>1
      <4>2. chan'[i] = a[i] /\ a[i] = chan[i]
        BY <2>6, <2>8, <4>1
      <4>3. QED
        BY <3>1, <4>2
    <3>2. CASE ~(i < k)
      <4>1. PICK j \in 1 .. n - k : j = i - (k - 1)
        BY <2>2, <3>2
      <4>2. chan'[i] = b[j] /\ k + j = i + 1
        BY <2>2, <2>8, <3>2, <4>1
      <4>3. QED
        BY <2>7, <3>2, <4>1, <4>2
    <3>3. QED
      BY <3>1, <3>2
  <2>10. QED
    BY <2>1, <2>2, <2>8, <2>9 DEF Dropped
<1>3. QED
  BY <1>1, <1>2

-----------------------------------------------------------------------------
(* What a step does to the entries of the hall. *)

LEMMA AskedIsUser ==
  ASSUME HallOK, asking # Nobody
  PROVE  asking.uid \in Users /\ asking.multi \in Multis
BY DEF HallOK

LEMMA NobodyIsNoUser == Nobody.uid = NoUser /\ NoUser \notin Users
BY LobbyAssumption DEF Nobody

(* A match of u with company: the users of one table get the room that has been counted up. *)
Matched(u, m, vs) ==
  /\ vs \subseteq Waiters(u, m) /\ incRoomId' = incRoomId + 1
  /\ userGame' = [v \in DOMAIN userGame \cup {u} |->
                     IF v \in vs \cup {u} THEN [multi |-> m, room |-> incRoomId + 1] ELSE userGame[v]]
  /\ Send(StartReq(incRoomId + 1, vs \cup {u}))

Waits(u, m) ==
  /\ Cardinality(Waiters(u, m)) + 1 < TableSize
  /\ userGame' = With(userGame, u, [multi |-> m, room |-> 0])
  /\ UNCHANGED <<incRoomId, chan, lost>>

LEMMA AnswerCases ==
  ASSUME LobbyTypeOK, enterRoomAnswered
  PROVE  LET u == asking.uid m == asking.multi IN
         \/ answer > 0 /\ FoundPlaying(u, m, answer)
         \/ answer = 0 /\ Waits(u, m)
         \/ answer = 0 /\ \E vs \in SUBSET Users : Matched(u, m, vs)
<1> DEFINE u == asking.uid
           m == asking.multi
<1>1. u \in Users /\ Waiters(u, m) \in SUBSET Users
  BY AskedIsUser DEF LobbyTypeOK, HallOK, enterRoomAnswered, Waiters
<1>2. Cardinality(Waiters(u, m)) \in Nat
  BY <1>1, FiniteUsers
<1>3. CASE answer > 0
  BY <1>3 DEF enterRoomAnswered
<1>4. CASE ~(answer > 0)
  <2>1. answer = 0 /\ Match(u, m)
    BY <1>4 DEF enterRoomAnswered, LobbyTypeOK, ChanOK
  <2>2. CASE Cardinality(Waiters(u, m)) + 1 >= TableSize
    <3>1. PICK vs \in SUBSET Waiters(u, m) :
             /\ userGame' = [v \in DOMAIN userGame \cup {u} |->
                               IF v \in vs \cup {u} THEN [multi |-> m, room |-> incRoomId + 1]
                               ELSE userGame[v]]
             /\ Send(StartReq(incRoomId', vs \cup {u}))
             /\ incRoomId' = incRoomId + 1
      BY <2>1, <2>2 DEF Match, MatchWhen
    <3>2. Matched(u, m, vs) /\ vs \in SUBSET Users
      BY <1>1, <3>1 DEF Matched
    <3>3. QED
      BY <2>1, <3>2
  <2>3. CASE ~(Cardinality(Waiters(u, m)) + 1 >= TableSize)
    BY <1>2, <2>1, <2>3, LobbyAssumption DEF Match, MatchWhen, Waits
  <2>4. QED
    BY <2>2, <2>3
<1>5. QED
  BY <1>3, <1>4

(* The entries after a match. *)
LEMMA MatchedEntries ==
  ASSUME HallOK, NEW u \in Users, NEW m \in Multis, NEW vs \in SUBSET Users, Matched(u, m, vs)
  PROVE  /\ DOMAIN userGame' = DOMAIN userGame \cup {u} /\ DOMAIN userGame' \subseteq Users
         /\ \A v \in DOMAIN userGame' :
               userGame'[v] = IF v \in vs \cup {u} THEN [multi |-> m, room |-> incRoomId + 1] ELSE userGame[v]
         /\ userGame' \in [DOMAIN userGame' -> [multi : Multis, room : Nat]]
         /\ incRoomId' \in Nat /\ StartReq(incRoomId + 1, vs \cup {u}) \in StartMsgs
         /\ vs \subseteq DOMAIN userGame
<1>1. /\ DOMAIN userGame' = DOMAIN userGame \cup {u}
      /\ \A v \in DOMAIN userGame' :
            userGame'[v] = IF v \in vs \cup {u} THEN [multi |-> m, room |-> incRoomId + 1] ELSE userGame[v]
  BY DEF Matched
<1>2. incRoomId' \in Nat /\ incRoomId + 1 \in Nat \ {0}
  BY DEF Matched, HallOK
<1>3. userGame' \in [DOMAIN userGame' -> [multi : Multis, room : Nat]]
  <2>1. \A v \in DOMAIN userGame' : userGame'[v] \in [multi : Multis, room : Nat]
    BY <1>1, <1>2 DEF HallOK
  <2>2. QED
    BY <1>1, <2>1 DEF Matched
<1>4. StartReq(incRoomId + 1, vs \cup {u}) \in StartMsgs
  BY <1>2 DEF StartReq, StartMsgs
<1>5. vs \subseteq DOMAIN userGame
  BY DEF Matched, Waiters
<1>6. DOMAIN userGame' \subseteq Users
  BY <1>1 DEF HallOK
<1>7. QED
  BY <1>1, <1>2, <1>3, <1>4, <1>5, <1>6

LEMMA WithEntry ==
  ASSUME HallOK, NEW u \in Users, NEW e \in [multi : Multis, room : Nat], userGame' = With(userGame, u, e)
  PROVE  /\ DOMAIN userGame' = DOMAIN userGame \cup {u}
         /\ \A v \in DOMAIN userGame' : userGame'[v] = IF v = u THEN e ELSE userGame[v]
         /\ userGame' \in [DOMAIN userGame' -> [multi : Multis, room : Nat]]
         /\ DOMAIN userGame' \subseteq Users
BY DEF With, HallOK

LEMMA FoundEntry ==
  ASSUME HallOK, NEW u \in Users, NEW m \in Multis, NEW r \in Nat \ {0}, FoundPlaying(u, m, r)
  PROVE  \E e \in [multi : Multis, room : Nat \ {0}] : userGame' = With(userGame, u, e)
<1>1. PICK e : e = IF u \in DOMAIN userGame THEN [userGame[u] EXCEPT !.room = r]
                                          ELSE [multi |-> m, room |-> ListRoom]
  OBVIOUS
<1>2. CASE u \in DOMAIN userGame
  BY <1>1, <1>2 DEF HallOK, FoundPlaying
<1>3. CASE u \notin DOMAIN userGame
  BY <1>1, <1>3, LobbyAssumption DEF FoundPlaying
<1>4. QED
  BY <1>2, <1>3

LEMMA HallStep ==
  ASSUME LobbyTypeOK, [LobbyNext]_lobbyVars
  PROVE  HallOK'
<1> USE DEF LobbyTypeOK
<1>1. CASE UNCHANGED hall
  BY <1>1 DEF hall, HallOK
<1>2. ASSUME NEW u \in Users, NEW m \in Multis, enterRoom(u, m)
      PROVE  HallOK'
  BY <1>2 DEF enterRoom, HallOK
<1>3. CASE enterRoomAnswered
  <2>1. asking' = Nobody /\ asking.uid \in Users /\ asking.multi \in Multis
    BY <1>3, AskedIsUser DEF enterRoomAnswered
  <2>2. CASE answer > 0 /\ FoundPlaying(asking.uid, asking.multi, answer)
    <3>1. PICK e \in [multi : Multis, room : Nat \ {0}] : userGame' = With(userGame, asking.uid, e)
      BY <2>1, <2>2, FoundEntry DEF ChanOK
    <3>2. incRoomId' = incRoomId
      BY <2>2 DEF FoundPlaying
    <3>3. QED
      BY <2>1, <3>1, <3>2, WithEntry DEF HallOK
  <2>3. CASE Waits(asking.uid, asking.multi)
    BY <2>1, <2>3, WithEntry DEF Waits, HallOK
  <2>4. ASSUME NEW vs \in SUBSET Users, Matched(asking.uid, asking.multi, vs)
        PROVE  HallOK'
    BY <2>1, <2>4, MatchedEntries DEF HallOK
  <2>5. QED
    BY <1>3, <2>2, <2>3, <2>4, AnswerCases
<1>4. CASE enterRoomFails
  BY <1>4 DEF enterRoomFails, HallOK
<1>5. CASE RestartHall
  <2>1. <<>> \in [DOMAIN <<>> -> [multi : Multis, room : Nat]] /\ DOMAIN <<>> = {}
    BY EmptySeq, LenProperties
  <2>2. QED
    BY <1>5, <2>1 DEF RestartHall, HallOK
<1>6. CASE getGameStatus \/ startGame \/ reconnect \/ RestartGame
  BY <1>1, <1>6 DEF getGameStatus, startGame, reconnect, RestartGame
<1>7. ASSUME NEW r \in RoomIds, huPai(r) \/ continueGame(r) \/ \E u \in Users : leaveRoom(u, r)
      PROVE  HallOK'
  BY <1>1, <1>7 DEF huPai, continueGame, Playing, leaveRoom
<1>8. CASE UNCHANGED lobbyVars
  BY <1>1, <1>8 DEF lobbyVars
<1>9. QED
  BY <1>2, <1>3, <1>4, <1>5, <1>6, <1>7, <1>8 DEF LobbyNext

LEMMA ChanStep ==
  ASSUME LobbyTypeOK, [LobbyNext]_lobbyVars
  PROVE  ChanOK' /\ FaultsOK'
<1> USE DEF LobbyTypeOK
<1>1. CASE UNCHANGED <<chan, answer, faults, left>>
  BY <1>1 DEF ChanOK, FaultsOK, faults
<1>2. ASSUME NEW msg \in Msgs, Send(msg)
      PROVE  chan' \in Seq(Msgs) /\ lost' \in Nat
  BY <1>2, AppendSends DEF Send, Sent, ChanOK, FaultsOK
<1>3. ASSUME chan' = Forget
      PROVE  chan' \in Seq(Msgs)
  BY <1>3, ForgetDrops DEF Dropped, ChanOK
<1>4. ASSUME chan # <<>>, chan' = Tail(chan)
      PROVE  chan' \in Seq(Msgs)
  BY <1>4, TailDrops DEF Dropped
<1>5. ASSUME NEW u \in Users, NEW m \in Multis, enterRoom(u, m)
      PROVE  ChanOK' /\ FaultsOK'
  <2>1. StatusReq(u) \in Msgs
    BY DEF StatusReq, Msgs, StatusMsgs
  <2>2. CASE u \in DOMAIN userGame /\ userGame[u].room > 0
    <3>1. ReconnReq(u, userGame[u].room) \in Msgs
      BY <2>2 DEF ReconnReq, Msgs, ReconnMsgs, HallOK
    <3>2. QED
      BY <1>2, <1>5, <2>2, <3>1 DEF enterRoom, ChanOK, FaultsOK
  <2>3. CASE ~(u \in DOMAIN userGame /\ userGame[u].room > 0)
    BY <1>5, <2>1, <2>3, AppendSends DEF enterRoom, Sent, ChanOK, FaultsOK
  <2>4. QED
    BY <2>2, <2>3
<1>6. CASE enterRoomAnswered
  <2>1. answer' = -1 /\ asking.uid \in Users /\ asking.multi \in Multis /\ UNCHANGED <<hallRestarts, gameRestarts, left>>
    BY <1>6, AskedIsUser DEF enterRoomAnswered
  <2>2. CASE answer > 0 /\ FoundPlaying(asking.uid, asking.multi, answer)
    <3>1. ReconnReq(asking.uid, 0) \in Msgs
      BY <2>1 DEF ReconnReq, Msgs, ReconnMsgs
    <3>2. QED
      BY <1>2, <2>1, <2>2, <3>1 DEF FoundPlaying, ChanOK, FaultsOK
  <2>3. CASE Waits(asking.uid, asking.multi)
    BY <2>1, <2>3 DEF Waits, ChanOK, FaultsOK
  <2>4. ASSUME NEW vs \in SUBSET Users, Matched(asking.uid, asking.multi, vs)
        PROVE  ChanOK' /\ FaultsOK'
    <3>1. StartReq(incRoomId + 1, vs \cup {asking.uid}) \in StartMsgs
      <4>1. incRoomId + 1 \in Nat \ {0} /\ vs \cup {asking.uid} \in SUBSET Users
        BY <2>1 DEF HallOK
      <4>2. QED
        BY <4>1 DEF StartReq, StartMsgs
    <3>2. StartReq(incRoomId + 1, vs \cup {asking.uid}) \in Msgs
      BY <3>1 DEF Msgs
    <3>3. QED
      BY <1>2, <2>1, <2>4, <3>2 DEF Matched, ChanOK, FaultsOK
  <2>5. QED
    BY <1>6, <2>2, <2>3, <2>4, AnswerCases
<1>7. CASE enterRoomFails \/ RestartHall
  BY <1>3, <1>7 DEF enterRoomFails, RestartHall, ChanOK, FaultsOK, faults
<1>8. CASE getGameStatus
  <2>1. answer' \in Int
    <3>1. \A u \in DOMAIN users : users[u] \in Int
      BY DEF GameOK
    <3>2. QED
      BY <1>8, <3>1 DEF getGameStatus
  <2>2. QED
    BY <1>4, <1>8, <2>1 DEF getGameStatus, Take, ChanOK, FaultsOK, faults
<1>9. CASE startGame \/ reconnect
  BY <1>4, <1>9 DEF startGame, reconnect, Take, ChanOK, FaultsOK, faults
<1>10. CASE RestartGame
  BY <1>10, EmptySeq DEF RestartGame, ChanOK, FaultsOK
<1>11. ASSUME NEW r \in RoomIds, huPai(r) \/ continueGame(r) \/ \E u \in Users : leaveRoom(u, r)
       PROVE  ChanOK' /\ FaultsOK'
  BY <1>11 DEF huPai, continueGame, Playing, leaveRoom, ChanOK, FaultsOK, faults
<1>12. CASE UNCHANGED lobbyVars
  BY <1>1, <1>12 DEF lobbyVars
<1>13. QED
  BY <1>5, <1>6, <1>7, <1>8, <1>9, <1>10, <1>11, <1>12 DEF LobbyNext

(* What startGame does: the users of the message are appended to the room. *)
Started(r, us, old, s) ==
  /\ r \in Nat \ {0} /\ us \in SUBSET Users
  /\ chan[1] \in StartMsgs /\ chan[1].type = "StartGame" /\ chan[1].room = r /\ chan[1].users = us
  /\ old \in Seq(Seats) /\ old = IF r \in DOMAIN rooms THEN rooms[r].users ELSE <<>>
  /\ s \in AddUsers(old, us)
  /\ DOMAIN rooms' = DOMAIN rooms \cup {r}
  /\ \A q \in DOMAIN rooms' : rooms'[q] = IF q = r THEN [users |-> s, playing |-> TRUE] ELSE rooms[q]
  /\ users' = [u \in DOMAIN users \cup us |-> IF u \in us THEN r ELSE users[u]]
  /\ rooms' = With(rooms, r, [users |-> s, playing |-> TRUE])

LEMMA StartGameStarts ==
  ASSUME LobbyTypeOK, startGame
  PROVE  Dropped(1) /\ \E r, us, old, s : Started(r, us, old, s)
<1>1. Dropped(1) /\ Head(chan) = chan[1] /\ 1 \in DOMAIN chan /\ chan[1].type = "StartGame"
  BY TailDrops DEF startGame, Take, LobbyTypeOK
<1>2. chan[1] \in Msgs
  BY <1>1, ChanIsSeq DEF LobbyTypeOK
<1>3. chan[1] \in StartMsgs
  BY <1>1, <1>2 DEF Msgs, StatusMsgs, ReconnMsgs
<1>4. PICK r \in Nat \ {0}, us \in SUBSET Users : r = chan[1].room /\ us = chan[1].users
  BY <1>3 DEF StartMsgs
<1>5. PICK old : old = IF r \in DOMAIN rooms THEN rooms[r].users ELSE <<>>
  OBVIOUS
<1>6. old \in Seq(Seats)
  BY <1>5, EmptySeq DEF LobbyTypeOK, GameOK, Room
<1>7. PICK s \in AddUsers(old, us) : rooms' = With(rooms, r, [users |-> s, playing |-> TRUE])
  BY <1>1, <1>4, <1>5 DEF startGame
<1>8. users' = [u \in DOMAIN users \cup us |-> IF u \in us THEN r ELSE users[u]]
  BY <1>1, <1>4 DEF startGame
<1>9. /\ DOMAIN rooms' = DOMAIN rooms \cup {r}
      /\ \A q \in DOMAIN rooms' : rooms'[q] = IF q = r THEN [users |-> s, playing |-> TRUE] ELSE rooms[q]
  BY <1>7 DEF With
<1>10. Started(r, us, old, s)
  BY <1>1, <1>3, <1>4, <1>5, <1>6, <1>7, <1>8, <1>9 DEF Started
<1>11. QED
  BY <1>1, <1>10

(* What leaveRoom does: two places are exchanged. *)
Left(u, r, d) ==
  /\ r \in DOMAIN rooms /\ d = DelUser(rooms[r].users, u) /\ rooms[r].users \in Seq(Seats)
  /\ DOMAIN rooms' = DOMAIN rooms
  /\ \A q \in DOMAIN rooms :
        /\ rooms'[q].users = IF q = r THEN d ELSE rooms[q].users
        /\ rooms'[q] \in Room
  /\ DOMAIN users' = DOMAIN users \ {u} /\ \A v \in DOMAIN users' : users'[v] = users[v]

LEMMA LeaveRoomLeaves ==
  ASSUME LobbyTypeOK, NEW u \in Users, NEW r \in RoomIds, leaveRoom(u, r)
  PROVE  \E d : Left(u, r, d)
<1>1. r \in DOMAIN rooms /\ rooms[r] \in Room /\ rooms[r].users \in Seq(Seats)
  BY DEF leaveRoom, LobbyTypeOK, GameOK, Room
<1>2. PICK d : d = DelUser(rooms[r].users, u)
  OBVIOUS
<1>3. d \in Seq(Seats)
  BY <1>1, <1>2, DelUserSwaps
<1>4. rooms' = [rooms EXCEPT ![r] = [rooms[r] EXCEPT !.users = d]]
  BY <1>1, <1>2 DEF leaveRoom
<1>5. [rooms[r] EXCEPT !.users = d] \in Room /\ [rooms[r] EXCEPT !.users = d].users = d
  BY <1>1, <1>3 DEF Room
<1>6. DOMAIN rooms' = DOMAIN rooms
  BY <1>4
<1>7. ASSUME NEW q \in DOMAIN rooms
      PROVE  rooms'[q].users = (IF q = r THEN d ELSE rooms[q].users) /\ rooms'[q] \in Room
  <2>1. CASE q = r
    BY <1>1, <1>4, <1>5, <2>1 DEF LobbyTypeOK, GameOK
  <2>2. CASE q # r
    BY <1>4, <2>2 DEF LobbyTypeOK, GameOK
  <2>3. QED
    BY <2>1, <2>2
<1>8. DOMAIN users' = DOMAIN users \ {u} /\ \A v \in DOMAIN users' : users'[v] = users[v]
  BY DEF leaveRoom, Without
<1>9. QED
  BY <1>1, <1>2, <1>6, <1>7, <1>8 DEF Left

LEMMA PlayingKeepsUsers ==
  ASSUME LobbyTypeOK, NEW r, NEW b \in BOOLEAN, Playing(r, b)
  PROVE  /\ DOMAIN rooms' = DOMAIN rooms
         /\ \A q \in DOMAIN rooms : rooms'[q].users = rooms[q].users /\ rooms'[q] \in Room
         /\ users' = users
<1>1. r \in DOMAIN rooms /\ rooms' = [rooms EXCEPT ![r] = [rooms[r] EXCEPT !.playing = b]]
  BY DEF Playing
<1>2. rooms[r] \in Room
  BY <1>1 DEF LobbyTypeOK, GameOK
<1>3. [rooms[r] EXCEPT !.playing = b] \in Room /\ [rooms[r] EXCEPT !.playing = b].users = rooms[r].users
  BY <1>2 DEF Room
<1>4. \A q \in DOMAIN rooms : rooms'[q].users = rooms[q].users /\ rooms'[q] \in Room
  BY <1>1, <1>3 DEF LobbyTypeOK, GameOK
<1>5. QED
  BY <1>1, <1>4 DEF Playing

LEMMA GameStep ==
  ASSUME LobbyTypeOK, [LobbyNext]_lobbyVars
  PROVE  GameOK'
<1>1. CASE UNCHANGED game
  BY <1>1 DEF game, GameOK, LobbyTypeOK
<1>2. CASE startGame
  <2>1. PICK r, us, old, s : Started(r, us, old, s)
    BY <1>2, StartGameStarts
  <2>2. s \in Seq(Seats)
    <3>1. old \in Seq(Seats) /\ us \in SUBSET Users /\ s \in AddUsers(old, us)
      BY <2>1 DEF Started
    <3>2. QED
      BY <3>1, AddUsersAppends
  <2>3. [users |-> s, playing |-> TRUE] \in Room
    BY <2>2 DEF Room
  <2>4. \A q \in DOMAIN rooms' : rooms'[q] \in Room
    <3>1. \A q \in DOMAIN rooms : rooms[q] \in Room
      BY DEF LobbyTypeOK, GameOK
    <3>2. PICK x \in Room : x = [users |-> s, playing |-> TRUE]
      BY <2>3
    <3>3. rooms' = With(rooms, r, x)
      BY <2>1, <3>2 DEF Started
    <3>4. QED
      BY <3>1, <3>3 DEF With
  <2>5. rooms' \in [DOMAIN rooms' -> Room] /\ DOMAIN rooms' \subseteq Nat \ {0}
    BY <2>1, <2>4 DEF Started, With, LobbyTypeOK, GameOK
  <2>6. users' \in [DOMAIN users' -> Nat \ {0}] /\ DOMAIN users' \subseteq Users
    BY <2>1 DEF Started, LobbyTypeOK, GameOK
  <2>7. QED
    BY <2>5, <2>6 DEF GameOK
<1>3. ASSUME NEW r \in RoomIds, NEW u \in Users, leaveRoom(u, r)
      PROVE  GameOK'
  <2>1. PICK d : Left(u, r, d)
    BY <1>3, LeaveRoomLeaves
  <2>2. rooms' \in [DOMAIN rooms' -> Room] /\ DOMAIN rooms' \subseteq Nat \ {0}
    BY <1>3, <2>1 DEF Left, leaveRoom, LobbyTypeOK, GameOK
  <2>3. users' \in [DOMAIN users' -> Nat \ {0}] /\ DOMAIN users' \subseteq Users
    BY <1>3, <2>1 DEF Left, leaveRoom, Without, LobbyTypeOK, GameOK
  <2>4. QED
    BY <2>2, <2>3 DEF GameOK
<1>4. ASSUME NEW r \in RoomIds, NEW b \in BOOLEAN, Playing(r, b)
      PROVE  GameOK'
  BY <1>4, PlayingKeepsUsers DEF Playing, LobbyTypeOK, GameOK
<1>5. CASE RestartGame
  <2>1. /\ <<>> \in [DOMAIN <<>> -> Room] /\ <<>> \in [DOMAIN <<>> -> Nat \ {0}]
        /\ DOMAIN <<>> = {}
    BY EmptySeq, LenProperties
  <2>2. QED
    BY <1>5, <2>1 DEF RestartGame, GameOK
<1>6. ASSUME NEW u \in Users, NEW m \in Multis, enterRoom(u, m)
      PROVE  GameOK'
  BY <1>1, <1>6 DEF enterRoom
<1>7. CASE enterRoomAnswered \/ enterRoomFails \/ RestartHall \/ getGameStatus \/ reconnect
  BY <1>1, <1>7 DEF enterRoomAnswered, enterRoomFails, RestartHall, getGameStatus, reconnect
<1>8. CASE UNCHANGED lobbyVars
  BY <1>1, <1>8 DEF lobbyVars
<1>9. QED
  BY <1>2, <1>3, <1>4, <1>5, <1>6, <1>7, <1>8 DEF LobbyNext, huPai, continueGame

LEMMA LobbyTypeStep ==
  ASSUME LobbyTypeOK, [LobbyNext]_lobbyVars
  PROVE  LobbyTypeOK'
BY HallStep, ChanStep, GameStep DEF LobbyTypeOK

-----------------------------------------------------------------------------
(* The call of the hall. *)

LEMMA AskingStep ==
  ASSUME LobbyTypeOK, AskingIsFree, [LobbyNext]_lobbyVars
  PROVE  AskingIsFree'
<1> USE DEF LobbyTypeOK
<1>1. Len(chan) \in Nat /\ DOMAIN chan = 1 .. Len(chan) /\ \A i \in DOMAIN chan : chan[i] \in Msgs
  BY ChanIsSeq
<1>2. ASSUME ChanOK' PROVE Len(chan') \in Nat /\ DOMAIN chan' = 1 .. Len(chan')
  BY <1>2, LenProperties DEF ChanOK
<1>3. DOMAIN chan' = 1 .. Len(chan') /\ Len(chan') \in Nat
  BY <1>2, ChanStep
(* Without a question and with the hall as it is, dropping messages changes nothing. *)
<1>4. ASSUME NEW k, Dropped(k), UNCHANGED <<userGame, asking, answer>>
      PROVE  AskingIsFree'
  <2>1. \A i \in DOMAIN chan' : /\ (IF i < k THEN i ELSE i + 1) \in DOMAIN chan
                                /\ chan'[i] = chan[IF i < k THEN i ELSE i + 1]
    BY <1>1, <1>3, <1>4 DEF Dropped
  <2>2. \A i, j \in DOMAIN chan' : (IF i < k THEN i ELSE i + 1) = (IF j < k THEN j ELSE j + 1) => i = j
    BY <1>1, <1>3, <1>4 DEF Dropped
  <2>3. \A i \in DOMAIN chan' : chan'[i].type = "GameStatus" =>
           /\ asking # Nobody /\ chan'[i].uid = asking.uid
           /\ \A j \in DOMAIN chan' : chan'[j].type = "GameStatus" => j = i
    BY <2>1, <2>2 DEF AskingIsFree
  <2>4. (\A i \in DOMAIN chan : chan[i].type # "GameStatus") => \A i \in DOMAIN chan' : chan'[i].type # "GameStatus"
    BY <2>1
  <2>5. QED
    BY <1>4, <2>3, <2>4 DEF AskingIsFree, Assigned
<1>5. ASSUME NEW msg \in Msgs, msg.type # "GameStatus", Send(msg), UNCHANGED <<userGame, asking, answer>>
      PROVE  AskingIsFree'
  <2>1. CASE chan' = chan
    BY <1>5, <2>1 DEF AskingIsFree, Assigned
  <2>2. CASE Sent(msg)
    <3>1. DOMAIN chan' = 1 .. Len(chan) + 1
      BY <1>1, <1>3, <2>2 DEF Sent
    <3>2. \A i \in DOMAIN chan' : chan'[i].type = "GameStatus" => i \in DOMAIN chan /\ chan'[i] = chan[i]
      BY <1>1, <1>5, <2>2, <3>1 DEF Sent
    <3>3. QED
      BY <1>5, <3>2 DEF AskingIsFree, Assigned
  <2>3. QED
    BY <1>5, <2>1, <2>2, AppendSends DEF Send
(* Once no question is under way nobody is asked about. *)
<1>6. ASSUME asking' = Nobody, answer' = -1, \A i \in DOMAIN chan' : chan'[i].type # "GameStatus"
      PROVE  AskingIsFree'
  BY <1>6 DEF AskingIsFree
<1>7. CASE UNCHANGED <<userGame, asking, chan, answer>>
  BY <1>7 DEF AskingIsFree, Assigned
<1>8. ASSUME NEW u \in Users, NEW m \in Multis, enterRoom(u, m)
      PROVE  AskingIsFree'
  <2>1. CASE Assigned(u)
    <3>1. /\ ReconnReq(u, userGame[u].room) \in Msgs
          /\ ReconnReq(u, userGame[u].room).type # "GameStatus"
      BY <2>1 DEF ReconnReq, Msgs, ReconnMsgs, HallOK, Assigned
    <3>2. QED
      BY <1>5, <1>8, <2>1, <3>1 DEF enterRoom, Assigned
  <2>2. CASE ~Assigned(u)
    <3>1. /\ asking = Nobody /\ asking' = [uid |-> u, multi |-> m] /\ userGame' = userGame
          /\ answer' = answer
          /\ chan' = Append(chan, StatusReq(u))
      BY <1>8, <2>2 DEF enterRoom, Assigned
    <3>2. Sent(StatusReq(u)) /\ StatusReq(u).uid = u
      BY <3>1, AppendSends DEF StatusReq, Msgs, StatusMsgs
    <3>3. ~(answer >= 0) /\ \A i \in DOMAIN chan : chan[i].type # "GameStatus"
      BY <3>1 DEF AskingIsFree
    <3>4. asking' # Nobody /\ asking'.uid = u
      BY <3>1, NobodyIsNoUser
    <3>5. \A i \in DOMAIN chan' : chan'[i].type = "GameStatus" => i = Len(chan) + 1 /\ chan'[i].uid = u
      <4>1. DOMAIN chan' = 1 .. Len(chan) + 1
        BY <1>1, <1>3, <3>2 DEF Sent
      <4>2. QED
        BY <1>1, <3>2, <3>3, <4>1 DEF Sent
    <3>6. ~Assigned(asking.uid)'
      BY <2>2, <3>1, <3>4 DEF Assigned
    <3>7. QED
      BY <3>1, <3>3, <3>4, <3>5, <3>6 DEF AskingIsFree
  <2>3. QED
    BY <2>1, <2>2
<1>9. CASE enterRoomAnswered
  <2>1. asking' = Nobody /\ answer' = -1 /\ answer >= 0
    BY <1>9 DEF enterRoomAnswered
  <2>2. \A i \in DOMAIN chan : chan[i].type # "GameStatus"
    BY <2>1 DEF AskingIsFree
  <2>3. ASSUME NEW msg \in Msgs, msg.type # "GameStatus", Send(msg)
        PROVE  \A i \in DOMAIN chan' : chan'[i].type # "GameStatus"
    <3>1. CASE chan' = chan
      BY <2>2, <3>1
    <3>2. CASE Sent(msg)
      BY <1>1, <1>3, <2>2, <2>3, <3>2 DEF Sent
    <3>3. QED
      BY <2>3, <3>1, <3>2, AppendSends DEF Send
  <2>4. CASE FoundPlaying(asking.uid, asking.multi, answer)
    <3>1. ReconnReq(asking.uid, 0) \in Msgs /\ ReconnReq(asking.uid, 0).type # "GameStatus"
      BY <1>9, AskedIsUser DEF ReconnReq, Msgs, ReconnMsgs, enterRoomAnswered
    <3>2. QED
      BY <1>6, <2>1, <2>3, <2>4, <3>1 DEF FoundPlaying
  <2>5. CASE Waits(asking.uid, asking.multi)
    BY <1>6, <2>1, <2>2, <2>5 DEF Waits
  <2>6. ASSUME NEW vs \in SUBSET Users, Matched(asking.uid, asking.multi, vs)
        PROVE  AskingIsFree'
    <3>1. asking.uid \in Users /\ asking.multi \in Multis
      BY <1>9, AskedIsUser DEF enterRoomAnswered
    <3>2. StartReq(incRoomId + 1, vs \cup {asking.uid}) \in StartMsgs
      <4>1. incRoomId + 1 \in Nat \ {0} /\ vs \cup {asking.uid} \in SUBSET Users
        BY <3>1 DEF HallOK
      <4>2. QED
        BY <4>1 DEF StartReq, StartMsgs
    <3>3. PICK msg \in StartMsgs : msg = StartReq(incRoomId + 1, vs \cup {asking.uid})
      BY <3>2
    <3>4. msg \in Msgs /\ msg.type # "GameStatus"
      BY <3>3 DEF Msgs, StartMsgs
    <3>5. QED
      BY <1>6, <2>1, <2>3, <2>6, <3>3, <3>4 DEF Matched
  <2>7. QED
    BY <1>9, <2>4, <2>5, <2>6, AnswerCases
<1>10. CASE enterRoomFails \/ RestartHall
  <2>1. asking' = Nobody /\ chan' = Forget /\ answer' = -1
    BY <1>10 DEF enterRoomFails, RestartHall
  <2>2. ASSUME NEW k \in DOMAIN chan, chan[k].type = "GameStatus", Dropped(k)
        PROVE  \A i \in DOMAIN chan' : chan'[i].type # "GameStatus"
    <3>1. \A i \in DOMAIN chan' : /\ (IF i < k THEN i ELSE i + 1) \in DOMAIN chan \ {k}
                                  /\ chan'[i] = chan[IF i < k THEN i ELSE i + 1]
      BY <1>1, <1>3, <2>2 DEF Dropped
    <3>2. \A j \in DOMAIN chan : chan[j].type = "GameStatus" => j = k
      BY <2>2 DEF AskingIsFree
    <3>3. QED
      BY <3>1, <3>2
  <2>3. \A i \in DOMAIN chan' : chan'[i].type # "GameStatus"
    BY <2>1, <2>2, ForgetDrops
  <2>4. QED
    BY <1>6, <2>1, <2>3
<1>11. CASE startGame \/ reconnect
  <2>1. Dropped(1) /\ UNCHANGED <<userGame, asking, answer>>
    BY <1>11, TailDrops DEF startGame, reconnect, Take, hall
  <2>2. QED
    BY <1>4, <2>1
<1>12. CASE getGameStatus
  <2>1. /\ Dropped(1) /\ chan[1].type = "GameStatus" /\ 1 \in DOMAIN chan
        /\ UNCHANGED <<userGame, asking>>
    BY <1>12, TailDrops DEF getGameStatus, Take, hall
  <2>2. asking # Nobody /\ \A j \in DOMAIN chan : chan[j].type = "GameStatus" => j = 1
    BY <2>1 DEF AskingIsFree
  <2>3. \A i \in DOMAIN chan' : i + 1 \in DOMAIN chan \ {1} /\ chan'[i] = chan[i + 1]
    BY <1>1, <1>3, <2>1 DEF Dropped
  <2>4. \A i \in DOMAIN chan' : chan'[i].type # "GameStatus"
    BY <2>2, <2>3
  <2>5. QED
    BY <2>1, <2>2, <2>4 DEF AskingIsFree, Assigned
<1>13. CASE RestartGame
  <2>1. \A i \in DOMAIN chan' : FALSE
    BY <1>13, EmptySeq, LenProperties DEF RestartGame
  <2>2. QED
    BY <1>13, <2>1 DEF RestartGame, AskingIsFree, Assigned, hall
<1>14. ASSUME NEW r \in RoomIds, huPai(r) \/ continueGame(r) \/ \E u \in Users : leaveRoom(u, r)
       PROVE  AskingIsFree'
  BY <1>7, <1>14 DEF huPai, continueGame, Playing, leaveRoom, hall
<1>15. CASE UNCHANGED lobbyVars
  BY <1>7, <1>15 DEF lobbyVars, hall
<1>16. QED
  BY <1>8, <1>9, <1>10, <1>11, <1>13, <1>14, <1>15, <1>12 DEF LobbyNext

-----------------------------------------------------------------------------
(* The rooms. *)

(* Every place holds whom it held. *)
KeepsPlaces ==
  /\ DOMAIN rooms' = DOMAIN rooms /\ \A r \in DOMAIN rooms : rooms'[r].users = rooms[r].users
  /\ users' = users

LEMMA GameCases ==
  ASSUME LobbyTypeOK, [LobbyNext]_lobbyVars
  PROVE  \/ KeepsPlaces /\ left' = left
         \/ RestartGame
         \/ startGame
         \/ /\ \E u \in Users, r \in RoomIds : \E d : Left(u, r, d)
            /\ left' = TRUE /\ UNCHANGED <<hall, chan, answer, faults>>
<1>1. CASE UNCHANGED <<game, left>>
  BY <1>1 DEF game, KeepsPlaces
<1>2. ASSUME NEW r \in RoomIds, NEW b \in BOOLEAN, Playing(r, b)
      PROVE  KeepsPlaces /\ left' = left
  <2>1. left' = left
    BY <1>2 DEF Playing
  <2>2. QED
    BY <1>2, <2>1, PlayingKeepsUsers DEF KeepsPlaces
<1>3. ASSUME NEW r \in RoomIds, NEW u \in Users, leaveRoom(u, r)
      PROVE  /\ \E d : Left(u, r, d)
             /\ left' = TRUE /\ UNCHANGED <<hall, chan, answer, faults>>
  <2>1. left' = TRUE /\ UNCHANGED <<hall, chan, answer, faults>>
    BY <1>3 DEF leaveRoom
  <2>2. QED
    BY <1>3, <2>1, LeaveRoomLeaves
<1>4. ASSUME NEW u \in Users, NEW m \in Multis, enterRoom(u, m)
      PROVE  UNCHANGED <<game, left>>
  BY <1>4 DEF enterRoom
<1>5. CASE enterRoomAnswered \/ enterRoomFails \/ RestartHall \/ getGameStatus \/ reconnect
  BY <1>1, <1>5 DEF enterRoomAnswered, enterRoomFails, RestartHall, getGameStatus, reconnect
<1>6. CASE UNCHANGED lobbyVars
  BY <1>1, <1>6 DEF lobbyVars
<1>7. QED
  BY <1>1, <1>2, <1>3, <1>4, <1>5, <1>6 DEF LobbyNext, huPai, continueGame

LEMMA RoomsStep ==
  ASSUME LobbyTypeOK, UsersHaveRooms, SeatsInOrder, [LobbyNext]_lobbyVars
  PROVE  UsersHaveRooms' /\ SeatsInOrder'
<1>1. CASE KeepsPlaces /\ left' = left
  BY <1>1 DEF KeepsPlaces, UsersHaveRooms, SeatsInOrder
<1>2. CASE RestartGame
  <2>1. DOMAIN rooms' = {} /\ DOMAIN users' = {}
    BY <1>2, EmptySeq, LenProperties DEF RestartGame
  <2>2. QED
    BY <2>1 DEF UsersHaveRooms, SeatsInOrder
<1>3. CASE startGame
  <2>1. PICK r, us, old, s : Started(r, us, old, s)
    BY <1>3, StartGameStarts
  <2>2. old \in Seq(Seats) /\ us \in SUBSET Users /\ s \in AddUsers(old, us)
    BY <2>1 DEF Started
  <2>3. /\ s \in Seq(Seats) /\ Len(s) >= Len(old)
        /\ \A i \in 1 .. Len(old) : s[i] = old[i]
        /\ \A i \in Len(old) + 1 .. Len(s) : s[i].seat = i - 1
    BY <2>2, AddUsersAppends
  <2>4. Len(old) \in Nat /\ Len(s) \in Nat /\ DOMAIN old = 1 .. Len(old) /\ DOMAIN s = 1 .. Len(s)
    BY <2>2, <2>3, LenProperties
  <2>5. UsersHaveRooms'
    BY <2>1 DEF Started, UsersHaveRooms
  <2>6. ASSUME ~left' PROVE \A i \in DOMAIN s : s[i].seat = i - 1
    <3>1. ~left
      BY <1>3, <2>6 DEF startGame
    <3>2. \A i \in DOMAIN old : old[i].seat = i - 1
      <4>1. CASE r \in DOMAIN rooms
        BY <2>1, <3>1, <4>1 DEF Started, SeatsInOrder
      <4>2. CASE r \notin DOMAIN rooms
        BY <2>1, <2>4, <4>2, EmptySeq DEF Started
      <4>3. QED
        BY <4>1, <4>2
    <3>3. QED
      BY <2>3, <2>4, <3>2
  <2>7. SeatsInOrder'
    <3> SUFFICES ASSUME ~left', NEW q \in DOMAIN rooms', NEW i \in DOMAIN rooms'[q].users
                 PROVE  rooms'[q].users[i].seat = i - 1
      BY DEF SeatsInOrder
    <3>1. ~left
      BY <1>3 DEF startGame
    <3>2. /\ rooms'[q] = IF q = r THEN [users |-> s, playing |-> TRUE] ELSE rooms[q]
          /\ q # r => q \in DOMAIN rooms
      BY <2>1 DEF Started
    <3>3. CASE q = r
      <4>1. rooms'[q].users = s
        BY <3>3, <3>2
      <4>2. QED
        BY <2>6, <4>1
    <3>4. CASE q # r
      BY <3>1, <3>4, <3>2 DEF SeatsInOrder
    <3>5. QED
      BY <3>3, <3>4
  <2>8. QED
    BY <2>5, <2>7
<1>4. ASSUME NEW u \in Users, NEW r \in RoomIds, NEW d, Left(u, r, d), left' = TRUE
      PROVE  UsersHaveRooms' /\ SeatsInOrder'
  BY <1>4 DEF Left, UsersHaveRooms, SeatsInOrder
<1>5. QED
  BY <1>1, <1>2, <1>3, <1>4, GameCases

-----------------------------------------------------------------------------
(* A user keeps his room for as long as the hall is up. *)

LEMMA AssignedStays ==
  ASSUME LobbyTypeOK, AskingIsFree, [LobbyNext]_lobbyVars, hallRestarts' = hallRestarts,
         NEW u, Assigned(u)
  PROVE  u \in DOMAIN userGame' /\ userGame'[u] = userGame[u] /\ Assigned(u)'
<1> USE DEF LobbyTypeOK
<1>1. u \in DOMAIN userGame /\ userGame[u].room \in Nat /\ userGame[u].room # 0
  BY DEF Assigned, HallOK
<1>2. SUFFICES u \in DOMAIN userGame' /\ userGame'[u] = userGame[u]
  BY DEF Assigned
<1>3. CASE UNCHANGED userGame
  BY <1>1, <1>3
<1>4. CASE enterRoomAnswered
  <2>1. asking.uid \in Users /\ asking.multi \in Multis /\ asking.uid # u /\ answer \in Int
    BY <1>4, AskedIsUser DEF enterRoomAnswered, AskingIsFree, ChanOK
  <2>2. CASE answer > 0 /\ FoundPlaying(asking.uid, asking.multi, answer)
    BY <1>1, <2>1, <2>2 DEF FoundPlaying, With
  <2>3. CASE Waits(asking.uid, asking.multi)
    BY <1>1, <2>1, <2>3 DEF Waits, With
  <2>4. ASSUME NEW vs \in SUBSET Users, Matched(asking.uid, asking.multi, vs)
        PROVE  u \in DOMAIN userGame' /\ userGame'[u] = userGame[u]
    <3>1. u \notin vs
      BY <1>1, <2>4 DEF Matched, Waiters
    <3>2. QED
      BY <1>1, <2>1, <2>4, <3>1 DEF Matched
  <2>5. QED
    BY <1>4, <2>2, <2>3, <2>4, AnswerCases
<1>5. CASE RestartHall
  BY <1>5 DEF RestartHall, FaultsOK
<1>6. CASE enterRoomFails \/ getGameStatus \/ startGame \/ reconnect \/ RestartGame
  BY <1>3, <1>6 DEF enterRoomFails, getGameStatus, startGame, reconnect, RestartGame, hall
<1>7. ASSUME NEW v \in Users, NEW m \in Multis, enterRoom(v, m)
      PROVE  UNCHANGED userGame
  BY <1>7 DEF enterRoom
<1>8. ASSUME NEW r \in RoomIds, huPai(r) \/ continueGame(r) \/ \E v \in Users : leaveRoom(v, r)
      PROVE  UNCHANGED userGame
  BY <1>8 DEF huPai, continueGame, Playing, leaveRoom, hall
<1>9. CASE UNCHANGED lobbyVars
  BY <1>3, <1>9 DEF lobbyVars, hall
<1>10. QED
  BY <1>3, <1>4, <1>5, <1>6, <1>7, <1>8, <1>9 DEF LobbyNext

-----------------------------------------------------------------------------
(* Nobody is seated twice. *)

(* The StartGames under way were so before, at the places f says. *)
OrdersFrom(f) ==
  /\ \A i \in DOMAIN chan' : chan'[i].type = "StartGame" => f[i] \in DOMAIN chan /\ chan'[i] = chan[f[i]]
  /\ \A i, j \in DOMAIN chan' :
        chan'[i].type = "StartGame" /\ chan'[j].type = "StartGame" /\ f[i] = f[j] => i = j

(* Who sits somewhere sat at that table before, at the place g says. *)
PlacesFrom(g) ==
  /\ DOMAIN rooms' \subseteq DOMAIN rooms
  /\ \A r \in DOMAIN rooms' : \A i \in DOMAIN rooms'[r].users :
        /\ g[r][i] \in DOMAIN rooms[r].users
        /\ rooms'[r].users[i].uid = rooms[r].users[g[r][i]].uid
        /\ \A j \in DOMAIN rooms'[r].users : g[r][i] = g[r][j] => i = j
  /\ DOMAIN users' \subseteq DOMAIN users

LEMMA KnowsKept ==
  ASSUME SeatedAreAssigned, SeatedOnce, \A u : Assigned(u) => Assigned(u)',
         NEW f, OrdersFrom(f), NEW g, PlacesFrom(g)
  PROVE  SeatedAreAssigned' /\ SeatedOnce'
<1>1. SeatedAreAssigned'
  <2>1. PICK A : A = {u \in DOMAIN userGame' : userGame'[u].room > 0}
    OBVIOUS
  <2>2. \A u : Assigned(u) => u \in A
    BY <2>1 DEF Assigned
  <2>3. \A u \in DOMAIN users' : u \in A
    BY <2>2 DEF PlacesFrom, SeatedAreAssigned
  <2>4. \A r \in DOMAIN rooms' : \A i \in DOMAIN rooms'[r].users : rooms'[r].users[i].uid \in A
    BY <2>2 DEF PlacesFrom, SeatedAreAssigned
  <2>5. \A i \in DOMAIN chan' : chan'[i].type = "StartGame" => \A u \in chan'[i].users : u \in A
    BY <2>2 DEF OrdersFrom, SeatedAreAssigned
  <2>6. QED
    BY <2>1, <2>3, <2>4, <2>5 DEF SeatedAreAssigned, Assigned
<1>2. SeatedOnce'
  <2>1. ASSUME NEW r \in DOMAIN rooms', NEW s \in DOMAIN rooms',
               NEW i \in DOMAIN rooms'[r].users, NEW j \in DOMAIN rooms'[s].users,
               rooms'[r].users[i].uid = rooms'[s].users[j].uid
        PROVE  r = s /\ i = j
    <3>1. r = s /\ g[r][i] = g[s][j]
      BY <2>1 DEF PlacesFrom, SeatedOnce
    <3>2. QED
      BY <2>1, <3>1 DEF PlacesFrom
  <2>2. ASSUME NEW i \in DOMAIN chan', NEW j \in DOMAIN chan',
               chan'[i].type = "StartGame", chan'[j].type = "StartGame",
               chan'[i].users \cap chan'[j].users # {}
        PROVE  i = j
    <3>1. /\ f[i] \in DOMAIN chan /\ chan'[i] = chan[f[i]]
          /\ f[j] \in DOMAIN chan /\ chan'[j] = chan[f[j]]
          /\ f[i] = f[j] => i = j
      BY <2>2 DEF OrdersFrom
    <3>2. f[i] = f[j]
      BY <2>2, <3>1 DEF SeatedOnce
    <3>3. QED
      BY <3>1, <3>2
  <2>3. ASSUME NEW i \in DOMAIN chan', chan'[i].type = "StartGame",
               NEW r \in DOMAIN rooms', NEW j \in DOMAIN rooms'[r].users
        PROVE  rooms'[r].users[j].uid \notin chan'[i].users
    BY <2>3 DEF OrdersFrom, PlacesFrom, SeatedOnce
  <2>4. QED
    BY <2>1, <2>2, <2>3 DEF SeatedOnce
<1>3. QED
  BY <1>1, <1>2

LEMMA OrdersKept ==
  ASSUME ChanOK, ChanOK',
         \/ chan' = chan
         \/ \E msg : Sent(msg) /\ msg.type # "StartGame"
         \/ \E k : Dropped(k)
         \/ chan' = <<>>
  PROVE  \E f : OrdersFrom(f)
<1>1. /\ Len(chan) \in Nat /\ DOMAIN chan = 1 .. Len(chan)
      /\ Len(chan') \in Nat /\ DOMAIN chan' = 1 .. Len(chan')
  BY LenProperties DEF ChanOK
<1>2. CASE chan' = chan
  <2>1. OrdersFrom([i \in DOMAIN chan' |-> i])
    BY <1>2 DEF OrdersFrom
  <2>2. QED
    BY <2>1
<1>3. ASSUME NEW msg, Sent(msg), msg.type # "StartGame"
      PROVE  \E f : OrdersFrom(f)
  <2>1. \A i \in DOMAIN chan' : chan'[i].type = "StartGame" => i \in DOMAIN chan /\ chan'[i] = chan[i]
    BY <1>1, <1>3 DEF Sent
  <2>2. OrdersFrom([i \in DOMAIN chan' |-> i])
    BY <2>1 DEF OrdersFrom
  <2>3. QED
    BY <2>2
<1>4. ASSUME NEW k, Dropped(k)
      PROVE  \E f : OrdersFrom(f)
  <2>1. \A i \in DOMAIN chan' : /\ (IF i < k THEN i ELSE i + 1) \in DOMAIN chan
                                /\ chan'[i] = chan[IF i < k THEN i ELSE i + 1]
    BY <1>1, <1>4 DEF Dropped
  <2>2. \A i, j \in DOMAIN chan' : (IF i < k THEN i ELSE i + 1) = (IF j < k THEN j ELSE j + 1) => i = j
    BY <1>1, <1>4 DEF Dropped
  <2>3. PICK f : f = [i \in DOMAIN chan' |-> IF i < k THEN i ELSE i + 1]
    OBVIOUS
  <2>4. \A i \in DOMAIN chan' : f[i] = IF i < k THEN i ELSE i + 1
    BY <2>3
  <2>5. OrdersFrom(f)
    BY <2>1, <2>2, <2>4 DEF OrdersFrom
  <2>6. QED
    BY <2>5
<1>5. CASE chan' = <<>>
  <2>1. \A i \in DOMAIN chan' : FALSE
    BY <1>5, EmptySeq, LenProperties
  <2>2. OrdersFrom(<<>>)
    BY <2>1 DEF OrdersFrom
  <2>3. QED
    BY <2>2
<1>6. QED
  BY <1>2, <1>3, <1>4, <1>5

LEMMA PlacesKept ==
  ASSUME LobbyTypeOK,
         \/ KeepsPlaces
         \/ RestartGame
         \/ \E u, r, d : Left(u, r, d)
  PROVE  \E g : PlacesFrom(g)
<1>1. CASE KeepsPlaces
  <2>1. PICK g : g = [r \in DOMAIN rooms |-> [i \in DOMAIN rooms[r].users |-> i]]
    OBVIOUS
  <2>2. \A r \in DOMAIN rooms : \A i \in DOMAIN rooms[r].users : g[r][i] = i
    BY <2>1
  <2>3. PlacesFrom(g)
    BY <1>1, <2>2 DEF KeepsPlaces, PlacesFrom
  <2>4. QED
    BY <2>3
<1>2. CASE RestartGame
  <2>1. DOMAIN rooms' = {} /\ DOMAIN users' = {}
    BY <1>2, EmptySeq, LenProperties DEF RestartGame
  <2>2. PlacesFrom(<<>>)
    BY <2>1 DEF PlacesFrom
  <2>3. QED
    BY <2>2
<1>3. ASSUME NEW u, NEW r, NEW d, Left(u, r, d)
      PROVE  \E g : PlacesFrom(g)
  <2>1. PICK old : old = rooms[r].users
    OBVIOUS
  <2>2. old \in Seq(Seats) /\ d = DelUser(old, u)
    BY <1>3, <2>1 DEF Left
  <2>3. /\ DelUser(old, u) \in Seq(Seats) /\ Len(DelUser(old, u)) = Len(old)
        /\ \/ DelUser(old, u) = old
           \/ \E i, n \in 1 .. Len(old) : \A k \in 1 .. Len(old) :
                DelUser(old, u)[k] = IF k = n THEN old[i] ELSE IF k = i THEN old[n] ELSE old[k]
    <3>1. old \in Seq(Seats)
      BY <2>2
    <3> HIDE <2>2
    <3>2. QED
      BY <3>1, DelUserSwaps
  <2>4. d = DelUser(old, u)
    BY <2>2
  <2>5. /\ d \in Seq(Seats) /\ Len(d) = Len(old)
        /\ \/ d = old
           \/ \E i, n \in 1 .. Len(old) : \A k \in 1 .. Len(old) :
                 d[k] = IF k = n THEN old[i] ELSE IF k = i THEN old[n] ELSE old[k]
    BY <2>3, <2>4
  <2>6. DOMAIN d = DOMAIN old /\ DOMAIN old = 1 .. Len(old)
    BY <2>2, <2>5, LenProperties
  <2>7. \E h : /\ \A k \in DOMAIN old : h[k] \in DOMAIN old /\ d[k] = old[h[k]]
               /\ \A j, k \in DOMAIN old : h[j] = h[k] => j = k
    <3>1. CASE d = old
      <4>1. PICK h : h = [k \in DOMAIN old |-> k]
        OBVIOUS
      <4>2. \A k \in DOMAIN old : h[k] = k
        BY <4>1
      <4>3. QED
        BY <3>1, <4>2
    <3>2. CASE d # old
      <4>1. PICK i \in 1 .. Len(old), n \in 1 .. Len(old) : \A k \in 1 .. Len(old) :
                 d[k] = IF k = n THEN old[i] ELSE IF k = i THEN old[n] ELSE old[k]
        BY <2>5, <3>2
      <4>2. PICK h : h = [k \in DOMAIN old |-> IF k = n THEN i ELSE IF k = i THEN n ELSE k]
        OBVIOUS
      <4>3. \A k \in DOMAIN old : h[k] = IF k = n THEN i ELSE IF k = i THEN n ELSE k
        BY <4>2
      <4>4. /\ \A k \in DOMAIN old : h[k] \in DOMAIN old /\ d[k] = old[h[k]]
            /\ \A j, k \in DOMAIN old : h[j] = h[k] => j = k
        BY <2>6, <4>1, <4>3
      <4>5. QED
        BY <4>4
    <3>3. QED
      BY <3>1, <3>2
  <2>8. PICK h : /\ \A k \in DOMAIN old : h[k] \in DOMAIN old /\ d[k] = old[h[k]]
                /\ \A j, k \in DOMAIN old : h[j] = h[k] => j = k
    BY <2>7
  <2>9. PICK g : g = [q \in DOMAIN rooms |-> IF q = r THEN h ELSE [k \in DOMAIN rooms[q].users |-> k]]
    OBVIOUS
  <2>10. /\ r \in DOMAIN rooms /\ DOMAIN rooms' = DOMAIN rooms /\ DOMAIN users' \subseteq DOMAIN users
         /\ \A q \in DOMAIN rooms : rooms'[q].users = IF q = r THEN d ELSE rooms[q].users
    BY <1>3 DEF Left
  <2>11. ASSUME NEW q \in DOMAIN rooms, NEW j \in DOMAIN rooms'[q].users
         PROVE  /\ g[q][j] \in DOMAIN rooms[q].users
                /\ rooms'[q].users[j].uid = rooms[q].users[g[q][j]].uid
                /\ \A k \in DOMAIN rooms'[q].users : g[q][j] = g[q][k] => j = k
    <3>1. CASE q = r
      <4>1. g[q] = h /\ rooms'[q].users = d /\ rooms[q].users = old
        BY <2>1, <2>9, <2>10, <3>1
      <4>2. QED
        BY <2>6, <2>8, <4>1
    <3>2. CASE q # r
      <4>1. rooms'[q].users = rooms[q].users
        BY <2>10, <3>2
      <4>2. g[q] = [k \in DOMAIN rooms[q].users |-> k]
        BY <2>9, <3>2
      <4>3. QED
        BY <4>1, <4>2
    <3>3. QED
      BY <3>1, <3>2
  <2>12. PlacesFrom(g)
    BY <2>10, <2>11 DEF PlacesFrom
  <2>13. QED
    BY <2>12
<1>4. QED
  BY <1>1, <1>2, <1>3

(* A message that seats nobody, or one message less. *)
ChanKeepsOrders ==
  \/ chan' = chan
  \/ \E msg : Sent(msg) /\ msg.type # "StartGame"
  \/ \E k : Dropped(k)
  \/ chan' = <<>>

LEMMA ChanCases ==
  ASSUME LobbyTypeOK, [LobbyNext]_lobbyVars, ~enterRoomAnswered
  PROVE  ChanKeepsOrders
<1> USE DEF LobbyTypeOK
<1>1. ASSUME NEW u \in Users, NEW m \in Multis, enterRoom(u, m)
      PROVE  ChanKeepsOrders
  <2>1. CASE Assigned(u)
    <3>1. /\ ReconnReq(u, userGame[u].room) \in Msgs
          /\ ReconnReq(u, userGame[u].room).type # "StartGame"
      BY <2>1 DEF ReconnReq, Msgs, ReconnMsgs, HallOK, Assigned
    <3>2. PICK msg \in Msgs : msg = ReconnReq(u, userGame[u].room)
      BY <3>1
    <3>3. chan' = chan \/ chan' = Append(chan, msg)
      BY <1>1, <2>1, <3>2 DEF enterRoom, Assigned, Send
    <3>4. chan' = chan \/ Sent(msg)
      BY <3>3, AppendSends
    <3>5. QED
      BY <3>1, <3>2, <3>4 DEF ChanKeepsOrders
  <2>2. CASE ~Assigned(u)
    <3>1. StatusReq(u) \in Msgs /\ StatusReq(u).type # "StartGame"
      BY DEF StatusReq, Msgs, StatusMsgs
    <3>2. chan' = Append(chan, StatusReq(u))
      BY <1>1, <2>2 DEF enterRoom, Assigned
    <3>3. Sent(StatusReq(u))
      BY <3>1, <3>2, AppendSends
    <3>4. QED
      BY <3>1, <3>3 DEF ChanKeepsOrders
  <2>3. QED
    BY <2>1, <2>2
<1>2. CASE enterRoomFails \/ RestartHall
  <2>1. chan' = Forget
    BY <1>2 DEF enterRoomFails, RestartHall
  <2>2. QED
    BY <2>1, ForgetDrops DEF ChanKeepsOrders
<1>3. CASE getGameStatus \/ startGame \/ reconnect
  BY <1>3, TailDrops DEF getGameStatus, startGame, reconnect, Take, ChanKeepsOrders
<1>4. CASE RestartGame
  BY <1>4 DEF RestartGame, ChanKeepsOrders
<1>5. ASSUME NEW r \in RoomIds, huPai(r) \/ continueGame(r) \/ \E u \in Users : leaveRoom(u, r)
      PROVE  ChanKeepsOrders
  BY <1>5 DEF huPai, continueGame, Playing, leaveRoom, ChanKeepsOrders
<1>6. CASE UNCHANGED lobbyVars
  BY <1>6 DEF lobbyVars, ChanKeepsOrders
<1>7. QED
  BY <1>1, <1>2, <1>3, <1>4, <1>5, <1>6 DEF LobbyNext

LEMMA KnowsStarted ==
  ASSUME LobbyTypeOK, SeatedAreAssigned, SeatedOnce, \A u : Assigned(u) => Assigned(u)',
         startGame, ChanOK'
  PROVE  SeatedAreAssigned' /\ SeatedOnce'
<1>1. PICK r, us, old, s : Started(r, us, old, s)
  BY StartGameStarts
<1>2. Dropped(1)
  BY StartGameStarts
<1>3. /\ Len(chan) \in Nat /\ DOMAIN chan = 1 .. Len(chan)
      /\ Len(chan') \in Nat /\ DOMAIN chan' = 1 .. Len(chan')
  BY LenProperties DEF LobbyTypeOK, ChanOK
<1>4. /\ \A i \in DOMAIN chan' : i + 1 \in DOMAIN chan /\ i + 1 # 1 /\ chan'[i] = chan[i + 1]
      /\ 1 \in DOMAIN chan
  BY <1>2, <1>3 DEF Dropped
<1>5. us = chan[1].users /\ chan[1].type = "StartGame"
  BY <1>1 DEF Started
<1>6. old \in Seq(Seats) /\ us \in SUBSET Users /\ s \in AddUsers(old, us)
  BY <1>1 DEF Started
<1>7. /\ s \in Seq(Seats) /\ Len(s) >= Len(old)
      /\ \A i \in 1 .. Len(old) : s[i] = old[i]
      /\ \A i \in Len(old) + 1 .. Len(s) : s[i].uid \in us
      /\ \A i, j \in Len(old) + 1 .. Len(s) : s[i].uid = s[j].uid => i = j
  BY <1>6, AddUsersAppends
<1>8. /\ Len(old) \in Nat /\ Len(s) \in Nat
      /\ DOMAIN old = 1 .. Len(old) /\ DOMAIN s = 1 .. Len(s)
  BY <1>6, <1>7, LenProperties
<1> DEFINE Old(q, j) == q \in DOMAIN rooms /\ j \in DOMAIN rooms[q].users /\ rooms'[q].users[j].uid = rooms[q].users[j].uid
           New(q, j) == q = r /\ j \in Len(old) + 1 .. Len(s) /\ rooms'[q].users[j].uid = s[j].uid /\ s[j].uid \in us
<1>9. ASSUME NEW q \in DOMAIN rooms', NEW j \in DOMAIN rooms'[q].users
      PROVE  Old(q, j) \/ New(q, j)
  <2>1. /\ rooms'[q] = IF q = r THEN [users |-> s, playing |-> TRUE] ELSE rooms[q]
        /\ q # r => q \in DOMAIN rooms
    BY <1>1 DEF Started
  <2>2. CASE q # r
    BY <2>1, <2>2
  <2>3. CASE q = r
    <3>1. rooms'[q].users = s
      BY <2>1, <2>3
    <3>2. CASE j \in Len(old) + 1 .. Len(s)
      BY <1>7, <2>3, <3>1, <3>2
    <3>3. CASE j \notin Len(old) + 1 .. Len(s)
      <4>1. j \in 1 .. Len(old)
        BY <1>8, <3>1, <3>3
      <4>2. r \in DOMAIN rooms
        BY <1>1, <1>8, <4>1, EmptySeq DEF Started
      <4>3. old = rooms[r].users
        BY <1>1, <4>2 DEF Started
      <4>4. QED
        BY <1>7, <1>8, <2>3, <3>1, <4>1, <4>2, <4>3
    <3>4. QED
      BY <3>2, <3>3
  <2>4. QED
    BY <2>2, <2>3
<1>10. PICK A : A = {u \in DOMAIN userGame' : userGame'[u].room > 0}
  OBVIOUS
<1>11. \A u : Assigned(u) => u \in A
  BY <1>10 DEF Assigned
<1>12. \A u \in us : u \in A
  BY <1>4, <1>5, <1>11 DEF SeatedAreAssigned
<1>13. SeatedAreAssigned'
  <2>1. \A u \in DOMAIN users' : u \in A
    <3>1. DOMAIN users' = DOMAIN users \cup us
      BY <1>1 DEF Started
    <3>2. QED
      BY <1>11, <1>12, <3>1 DEF SeatedAreAssigned
  <2>2. \A q \in DOMAIN rooms' : \A j \in DOMAIN rooms'[q].users : rooms'[q].users[j].uid \in A
    BY <1>9, <1>11, <1>12 DEF SeatedAreAssigned
  <2>3. \A i \in DOMAIN chan' : chan'[i].type = "StartGame" => \A u \in chan'[i].users : u \in A
    BY <1>4, <1>11 DEF SeatedAreAssigned
  <2>4. QED
    BY <1>10, <2>1, <2>2, <2>3 DEF SeatedAreAssigned, Assigned
<1>14. \A q \in DOMAIN rooms : \A j \in DOMAIN rooms[q].users : rooms[q].users[j].uid \notin us
  BY <1>4, <1>5 DEF SeatedOnce
<1>15. SeatedOnce'
  <2>1. ASSUME NEW q \in DOMAIN rooms', NEW p \in DOMAIN rooms',
               NEW i \in DOMAIN rooms'[q].users, NEW j \in DOMAIN rooms'[p].users,
               rooms'[q].users[i].uid = rooms'[p].users[j].uid
        PROVE  q = p /\ i = j
    <3>1. CASE Old(q, i) /\ Old(p, j)
      <4>1. rooms[q].users[i].uid = rooms[p].users[j].uid
        BY <2>1, <3>1
      <4>2. QED
        BY <3>1, <4>1 DEF SeatedOnce
    <3>2. CASE New(q, i) /\ New(p, j)
      BY <1>7, <2>1, <3>2
    <3>3. CASE (Old(q, i) /\ New(p, j)) \/ (New(q, i) /\ Old(p, j))
      BY <1>14, <2>1, <3>3
    <3>4. QED
      BY <1>9, <3>1, <3>2, <3>3
  <2>2. ASSUME NEW i \in DOMAIN chan', NEW j \in DOMAIN chan',
               chan'[i].type = "StartGame", chan'[j].type = "StartGame",
               chan'[i].users \cap chan'[j].users # {}
        PROVE  i = j
    <3>1. i + 1 = j + 1
      BY <1>4, <2>2 DEF SeatedOnce
    <3>2. QED
      BY <1>3, <3>1
  <2>3. ASSUME NEW i \in DOMAIN chan', chan'[i].type = "StartGame",
               NEW q \in DOMAIN rooms', NEW j \in DOMAIN rooms'[q].users
        PROVE  rooms'[q].users[j].uid \notin chan'[i].users
    <3>1. CASE Old(q, j)
      BY <1>4, <2>3, <3>1 DEF SeatedOnce
    <3>2. CASE New(q, j)
      <4>1. us \cap chan[i + 1].users = {}
        BY <1>4, <1>5, <2>3 DEF SeatedOnce
      <4>2. QED
        BY <1>4, <2>3, <3>2, <4>1
    <3>3. QED
      BY <1>9, <3>1, <3>2
  <2> HIDE DEF Old, New
  <2>4. QED
    BY <2>1, <2>2, <2>3 DEF SeatedOnce
<1>16. QED
  BY <1>13, <1>15

LEMMA KnowsMatched ==
  ASSUME LobbyTypeOK, SeatedAreAssigned, SeatedOnce, \A u : Assigned(u) => Assigned(u)', ChanOK',
         KeepsPlaces, NEW u \in Users, NEW m \in Multis, NEW vs \in SUBSET Users,
         ~Assigned(u), Matched(u, m, vs)
  PROVE  SeatedAreAssigned' /\ SeatedOnce'
<1>1. PICK W \in SUBSET Users : W = vs \cup {u}
  OBVIOUS
<1>2. PICK msg \in StartMsgs : msg = StartReq(incRoomId + 1, W)
  <2>1. StartReq(incRoomId + 1, W) \in StartMsgs
    BY DEF StartReq, StartMsgs, LobbyTypeOK, HallOK
  <2>2. QED
    BY <2>1
<1>3. msg \in Msgs /\ msg.users = W /\ (chan' = chan \/ chan' = Append(chan, msg))
  BY <1>1, <1>2 DEF Msgs, StartReq, Matched, Send
<1>4. chan' = chan \/ Sent(msg)
  BY <1>3, AppendSends DEF LobbyTypeOK
<1>5. /\ Len(chan) \in Nat /\ DOMAIN chan = 1 .. Len(chan)
      /\ Len(chan') \in Nat /\ DOMAIN chan' = 1 .. Len(chan')
  BY LenProperties DEF LobbyTypeOK, ChanOK
<1>6. \A i \in DOMAIN chan' : \/ i \in DOMAIN chan /\ chan'[i] = chan[i]
                              \/ i = Len(chan) + 1 /\ chan'[i].users = W
  <2>1. CASE chan' = chan
    BY <2>1
  <2>2. CASE Sent(msg)
    <3>1. Len(chan') = Len(chan) + 1 /\ chan'[Len(chan) + 1].users = W
      BY <1>3, <2>2 DEF Sent
    <3>2. \A i \in DOMAIN chan : chan'[i] = chan[i]
      BY <1>5, <2>2 DEF Sent
    <3>3. \A i \in DOMAIN chan' : i \in DOMAIN chan \/ i = Len(chan) + 1
      BY <1>5, <3>1
    <3>4. QED
      BY <3>1, <3>2, <3>3
  <2>3. QED
    BY <1>4, <2>1, <2>2
<1>7. PICK A : A = {v \in DOMAIN userGame' : userGame'[v].room > 0}
  OBVIOUS
<1>8. \A v : Assigned(v) => v \in A
  BY <1>7 DEF Assigned
<1>9. W \subseteq A
  <2>1. incRoomId + 1 > 0
    BY DEF LobbyTypeOK, HallOK
  <2>2. W \subseteq DOMAIN userGame'
    BY <1>1 DEF Matched, Waiters
  <2>3. \A v \in W : userGame'[v].room = incRoomId + 1
    BY <1>1, <2>2 DEF Matched
  <2>4. QED
    BY <1>7, <2>1, <2>2, <2>3
<1>10. \A v \in W : ~Assigned(v)
  BY <1>1 DEF Matched, Waiters, Assigned
<1>11. SeatedAreAssigned'
  <2>1. \A v \in DOMAIN users' : v \in A
    BY <1>8 DEF KeepsPlaces, SeatedAreAssigned
  <2>2. \A q \in DOMAIN rooms' : \A j \in DOMAIN rooms'[q].users : rooms'[q].users[j].uid \in A
    BY <1>8 DEF KeepsPlaces, SeatedAreAssigned
  <2>3. \A i \in DOMAIN chan' : chan'[i].type = "StartGame" => \A v \in chan'[i].users : v \in A
    BY <1>6, <1>8, <1>9 DEF SeatedAreAssigned
  <2>4. QED
    BY <1>7, <2>1, <2>2, <2>3 DEF SeatedAreAssigned, Assigned
<1>12. SeatedOnce'
  <2>1. ASSUME NEW r \in DOMAIN rooms', NEW s \in DOMAIN rooms',
               NEW i \in DOMAIN rooms'[r].users, NEW j \in DOMAIN rooms'[s].users,
               rooms'[r].users[i].uid = rooms'[s].users[j].uid
        PROVE  r = s /\ i = j
    BY <2>1 DEF KeepsPlaces, SeatedOnce
  <2>2. ASSUME NEW i \in DOMAIN chan', NEW j \in DOMAIN chan',
               chan'[i].type = "StartGame", chan'[j].type = "StartGame",
               chan'[i].users \cap chan'[j].users # {}
        PROVE  i = j
    <3>1. CASE i \in DOMAIN chan /\ chan'[i] = chan[i] /\ j \in DOMAIN chan /\ chan'[j] = chan[j]
      BY <2>2, <3>1 DEF SeatedOnce
    <3>2. CASE i = Len(chan) + 1 /\ j = Len(chan) + 1
      BY <3>2
    <3>3. CASE \/ i \in DOMAIN chan /\ chan'[i] = chan[i] /\ chan'[j].users = W
               \/ j \in DOMAIN chan /\ chan'[j] = chan[j] /\ chan'[i].users = W
      BY <1>10, <2>2, <3>3 DEF SeatedAreAssigned
    <3>4. QED
      BY <1>6, <3>1, <3>2, <3>3
  <2>3. ASSUME NEW i \in DOMAIN chan', chan'[i].type = "StartGame",
               NEW r \in DOMAIN rooms', NEW j \in DOMAIN rooms'[r].users
        PROVE  rooms'[r].users[j].uid \notin chan'[i].users
    <3>1. r \in DOMAIN rooms /\ rooms'[r].users = rooms[r].users
      BY DEF KeepsPlaces
    <3>2. CASE i \in DOMAIN chan /\ chan'[i] = chan[i]
      BY <2>3, <3>1, <3>2 DEF SeatedOnce
    <3>3. CASE chan'[i].users = W
      BY <1>10, <3>1, <3>3 DEF SeatedAreAssigned
    <3>4. QED
      BY <1>6, <3>2, <3>3
  <2>4. QED
    BY <2>1, <2>2, <2>3 DEF SeatedOnce
<1>13. QED
  BY <1>11, <1>12

LEMMA HallKnowsStep ==
  ASSUME LobbyTypeOK, AskingIsFree, HallKnows, [LobbyNext]_lobbyVars
  PROVE  HallKnows'
<1> SUFFICES ASSUME hallRestarts' = 0
             PROVE  answer' <= 0 /\ SeatedAreAssigned' /\ SeatedOnce'
  BY DEF HallKnows
<1>1. hallRestarts = 0 /\ ~RestartHall
  <2>1. \/ UNCHANGED hallRestarts
        \/ RestartHall
    BY DEF LobbyNext, enterRoom, enterRoomAnswered, enterRoomFails, getGameStatus, startGame, reconnect,
           RestartGame, huPai, continueGame, Playing, leaveRoom, lobbyVars, faults
  <2>2. QED
    BY <2>1 DEF RestartHall, LobbyTypeOK, FaultsOK
<1>2. answer <= 0 /\ SeatedAreAssigned /\ SeatedOnce
  BY <1>1 DEF HallKnows
<1>3. \A u : Assigned(u) => Assigned(u)'
  BY <1>1, AssignedStays
<1>4. ChanOK /\ ChanOK'
  BY ChanStep DEF LobbyTypeOK
<1>5. answer' <= 0
  <2>1. CASE getGameStatus
    <3>1. chan[1].type = "GameStatus" /\ 1 \in DOMAIN chan /\ Head(chan) = chan[1]
      BY <2>1, <1>4, TailDrops DEF getGameStatus, Take
    <3>2. ~Assigned(chan[1].uid)
      BY <3>1 DEF AskingIsFree
    <3>3. chan[1].uid \notin DOMAIN users
      BY <1>2, <3>2 DEF SeatedAreAssigned
    <3>4. QED
      BY <2>1, <3>1, <3>3 DEF getGameStatus
  <2>2. CASE answer' = answer \/ answer' = -1
    BY <1>2, <2>2
  <2>3. QED
    BY <2>1, <2>2 DEF LobbyNext, enterRoom, enterRoomAnswered, enterRoomFails, RestartHall, startGame,
           reconnect, RestartGame, huPai, continueGame, Playing, leaveRoom, lobbyVars
<1>6. ASSUME NEW f, OrdersFrom(f), NEW g, PlacesFrom(g)
      PROVE  SeatedAreAssigned' /\ SeatedOnce'
  BY <1>2, <1>3, <1>6, KnowsKept
<1>7. CASE startGame
  BY <1>2, <1>3, <1>4, <1>5, <1>7, KnowsStarted
<1>8. CASE enterRoomAnswered
  <2>1. asking.uid \in Users /\ asking.multi \in Multis /\ ~Assigned(asking.uid)
    BY <1>8, AskedIsUser DEF enterRoomAnswered, AskingIsFree, LobbyTypeOK
  <2>2. KeepsPlaces
    BY <1>8 DEF enterRoomAnswered, game, KeepsPlaces
  <2>3. PICK g : PlacesFrom(g)
    BY <2>2, PlacesKept
  <2>4. CASE Waits(asking.uid, asking.multi)
    <3>1. PICK f : OrdersFrom(f)
      BY <1>4, <2>4, OrdersKept DEF Waits
    <3>2. QED
      BY <1>5, <1>6, <2>3, <3>1
  <2>5. ASSUME NEW vs \in SUBSET Users, Matched(asking.uid, asking.multi, vs)
        PROVE  SeatedAreAssigned' /\ SeatedOnce'
    BY <1>2, <1>3, <1>4, <2>1, <2>2, <2>5, KnowsMatched
  <2>6. QED
    BY <1>2, <1>5, <1>8, <2>4, <2>5, AnswerCases DEF LobbyTypeOK, ChanOK
<1>9. CASE ~startGame /\ ~enterRoomAnswered
  <2>1. ChanKeepsOrders
    BY <1>9, ChanCases
  <2>2. PICK f : OrdersFrom(f)
    BY <1>4, <2>1, OrdersKept DEF ChanKeepsOrders
  <2>3. PICK g : PlacesFrom(g)
    BY <1>9, GameCases, PlacesKept
  <2>4. QED
    BY <1>5, <1>6, <2>2, <2>3
<1>10. QED
  BY <1>5, <1>7, <1>8, <1>9

-----------------------------------------------------------------------------
(* No full table waits. *)

WaitersOf(m) == {u \in DOMAIN userGame : userGame[u] = [multi |-> m, room |-> 0]}

LEMMA TableStep ==
  ASSUME LobbyTypeOK, NoFullTableWaits, [LobbyNext]_lobbyVars
  PROVE  NoFullTableWaits'
<1> USE DEF LobbyTypeOK
<1>1. \A m \in Multis : WaitersOf(m) \in SUBSET Users /\ Cardinality(WaitersOf(m)) < TableSize
  BY DEF NoFullTableWaits, WaitersOf, HallOK
<1>2. ASSUME NEW m \in Multis, WaitersOf(m)' \subseteq WaitersOf(m)
      PROVE  Cardinality(WaitersOf(m)') < TableSize
  <2>1. IsFiniteSet(WaitersOf(m)) /\ Cardinality(WaitersOf(m)) \in Nat
    BY <1>1, FiniteUsers
  <2>2. Cardinality(WaitersOf(m)') \in Nat /\ Cardinality(WaitersOf(m)') <= Cardinality(WaitersOf(m))
    BY <1>2, <2>1, FS_Subset, FS_CardinalityType
  <2>3. QED
    BY <1>1, <2>1, <2>2, LobbyAssumption
<1>3. SUFFICES \A m \in Multis : Cardinality(WaitersOf(m)') < TableSize
  BY DEF NoFullTableWaits, WaitersOf
<1>4. CASE UNCHANGED userGame
  <2>1. \A m \in Multis : WaitersOf(m)' \subseteq WaitersOf(m)
    BY <1>4 DEF WaitersOf
  <2>2. QED
    BY <1>2, <2>1
<1>5. CASE enterRoomAnswered
  <2>1. asking.uid \in Users /\ asking.multi \in Multis
    BY <1>5, AskedIsUser DEF enterRoomAnswered
  <2>2. CASE answer > 0 /\ FoundPlaying(asking.uid, asking.multi, answer)
    <3>1. PICK e \in [multi : Multis, room : Nat \ {0}] : userGame' = With(userGame, asking.uid, e)
      BY <2>1, <2>2, FoundEntry DEF ChanOK
    <3>2. /\ DOMAIN userGame' = DOMAIN userGame \cup {asking.uid}
          /\ \A v \in DOMAIN userGame' : userGame'[v] = IF v = asking.uid THEN e ELSE userGame[v]
      BY <3>1 DEF With
    <3>3. \A m \in Multis : e # [multi |-> m, room |-> 0]
      OBVIOUS
    <3>4. \A m \in Multis : WaitersOf(m)' \subseteq WaitersOf(m)
      BY <3>2, <3>3 DEF WaitersOf
    <3>5. QED
      BY <1>2, <3>4
  <2>3. CASE Waits(asking.uid, asking.multi)
    <3>1. PICK u0 \in Users, m0 \in Multis : u0 = asking.uid /\ m0 = asking.multi
      BY <2>1
    <3>2. /\ DOMAIN userGame' = DOMAIN userGame \cup {u0}
          /\ \A v \in DOMAIN userGame' :
                userGame'[v] = IF v = u0 THEN [multi |-> m0, room |-> 0] ELSE userGame[v]
      BY <2>3, <3>1 DEF Waits, With
    <3>3. ASSUME NEW m \in Multis, m # m0
          PROVE  WaitersOf(m)' \subseteq WaitersOf(m)
      <4>1. [multi |-> m0, room |-> 0] # [multi |-> m, room |-> 0]
        BY <3>3
      <4>2. QED
        BY <3>2, <4>1 DEF WaitersOf
    <3>4. WaitersOf(m0)' \subseteq Waiters(u0, m0) \cup {u0}
      BY <3>2 DEF WaitersOf, Waiters
    <3>5. PICK W \in SUBSET Users : W = Waiters(u0, m0)
      BY DEF Waiters, HallOK
    <3>6. IsFiniteSet(W) /\ Cardinality(W) \in Nat /\ u0 \notin W
      BY <3>5, FiniteUsers DEF Waiters
    <3>7. IsFiniteSet(W \cup {u0}) /\ Cardinality(W \cup {u0}) = Cardinality(W) + 1
      BY <3>6, FS_AddElement
    <3>8. /\ Cardinality(WaitersOf(m0)') <= Cardinality(W) + 1
          /\ Cardinality(WaitersOf(m0)') \in Nat
      BY <3>4, <3>5, <3>7, FS_Subset, FS_CardinalityType
    <3>9. Cardinality(WaitersOf(m0)') < TableSize
      BY <2>3, <3>1, <3>5, <3>6, <3>8, LobbyAssumption DEF Waits
    <3>10. ASSUME NEW m \in Multis
          PROVE  Cardinality(WaitersOf(m)') < TableSize
      BY <1>2, <3>3, <3>9
    <3>11. QED
      BY <3>10
  <2>4. ASSUME NEW vs \in SUBSET Users, Matched(asking.uid, asking.multi, vs)
        PROVE  \A m \in Multis : Cardinality(WaitersOf(m)') < TableSize
    <3>1. /\ DOMAIN userGame' = DOMAIN userGame \cup {asking.uid}
          /\ \A v \in DOMAIN userGame' :
                userGame'[v] = IF v \in vs \cup {asking.uid} THEN [multi |-> asking.multi, room |-> incRoomId + 1]
                               ELSE userGame[v]
      BY <2>4 DEF Matched
    <3>2. \A m \in Multis : [multi |-> asking.multi, room |-> incRoomId + 1] # [multi |-> m, room |-> 0]
      BY DEF HallOK
    <3>3. \A m \in Multis : WaitersOf(m)' \subseteq WaitersOf(m)
      BY <3>1, <3>2 DEF WaitersOf
    <3>4. QED
      BY <1>2, <3>3
  <2>5. QED
    BY <1>5, <2>2, <2>3, <2>4, AnswerCases
<1>6. CASE RestartHall
  <2>1. DOMAIN userGame' = {}
    BY <1>6, EmptySeq, LenProperties DEF RestartHall
  <2>2. \A m \in Multis : WaitersOf(m)' \subseteq WaitersOf(m)
    BY <2>1 DEF WaitersOf
  <2>3. QED
    BY <1>2, <2>2
<1>7. CASE enterRoomFails \/ getGameStatus \/ startGame \/ reconnect \/ RestartGame
  BY <1>4, <1>7 DEF enterRoomFails, getGameStatus, startGame, reconnect, RestartGame, hall
<1>8. ASSUME NEW v \in Users, NEW m \in Multis, enterRoom(v, m)
      PROVE  UNCHANGED userGame
  BY <1>8 DEF enterRoom
<1>9. ASSUME NEW r \in RoomIds, huPai(r) \/ continueGame(r) \/ \E v \in Users : leaveRoom(v, r)
      PROVE  UNCHANGED userGame
  BY <1>9 DEF huPai, continueGame, Playing, leaveRoom, hall
<1>10. CASE UNCHANGED lobbyVars
  BY <1>4, <1>10 DEF lobbyVars, hall
<1>11. QED
  BY <1>4, <1>5, <1>6, <1>7, <1>8, <1>9, <1>10 DEF LobbyNext

-----------------------------------------------------------------------------
(* A Reconnect finds its user. *)

LEMMA NoFaultsBefore ==
  ASSUME LobbyTypeOK, [LobbyNext]_lobbyVars, NoFaults'
  PROVE  NoFaults /\ ~RestartHall /\ ~RestartGame /\ lost' = lost /\ hallRestarts' = hallRestarts
<1>1. FaultsOK /\ FaultsOK'
  BY ChanStep DEF LobbyTypeOK
<1>2. hallRestarts' = 0 /\ gameRestarts' = 0 /\ lost' = 0
  <2>1. hallRestarts' \in Nat /\ gameRestarts' \in Nat /\ lost' \in Nat
    BY <1>1 DEF FaultsOK
  <2>2. hallRestarts' + gameRestarts' + lost' = 0
    BY DEF NoFaults
  <2>3. \A a, b, c \in Nat : a + b + c = 0 => a = 0 /\ b = 0 /\ c = 0
    OBVIOUS
  <2>4. QED
    BY <2>1, <2>2, <2>3
<1>3. ~RestartHall /\ ~RestartGame
  BY <1>1, <1>2 DEF FaultsOK, RestartHall, RestartGame
<1>4. UNCHANGED <<hallRestarts, gameRestarts>>
  BY <1>3 DEF LobbyNext, enterRoom, enterRoomAnswered, enterRoomFails, getGameStatus, startGame, reconnect,
         huPai, continueGame, Playing, leaveRoom, lobbyVars, faults
<1>5. lost' = lost \/ lost' = lost + 1
  <2>1. ASSUME NEW msg, Send(msg) PROVE lost' = lost \/ lost' = lost + 1
    BY <2>1 DEF Send
  <2>2. CASE enterRoomAnswered
    BY <2>1, <2>2, AnswerCases DEF FoundPlaying, Waits, Matched
  <2>3. ASSUME NEW u \in Users, NEW m \in Multis, enterRoom(u, m)
        PROVE  lost' = lost \/ lost' = lost + 1
    BY <2>1, <2>3 DEF enterRoom
  <2>4. QED
    BY <1>3, <2>2, <2>3 DEF LobbyNext, enterRoomFails, getGameStatus, startGame, reconnect,
         huPai, continueGame, Playing, leaveRoom, lobbyVars, faults
<1>6. lost = 0
  BY <1>1, <1>2, <1>5 DEF FaultsOK
<1>7. QED
  BY <1>2, <1>3, <1>4, <1>6 DEF NoFaults

(* Whoever sits at a table sits there until the game restarts: DelUser takes nobody away. *)
LEMMA SeatsSurvive ==
  ASSUME LobbyTypeOK, [LobbyNext]_lobbyVars, ~RestartGame,
         NEW u, NEW r \in DOMAIN rooms, SeatsOf(r, u) # {}
  PROVE  r \in DOMAIN rooms' /\ SeatsOf(r, u)' # {}
<1>1. PICK i \in DOMAIN rooms[r].users : rooms[r].users[i].uid = u
  BY DEF SeatsOf
<1>2. SUFFICES r \in DOMAIN rooms' /\ \E j \in DOMAIN rooms'[r].users : rooms'[r].users[j].uid = u
  BY DEF SeatsOf
<1>3. rooms[r].users \in Seq(Seats)
  BY DEF LobbyTypeOK, GameOK, Room
<1>4. PICK n \in Nat : n = Len(rooms[r].users) /\ DOMAIN rooms[r].users = 1 .. n
  BY <1>3, LenProperties
<1>5. CASE KeepsPlaces
  BY <1>1, <1>5 DEF KeepsPlaces
<1>6. CASE startGame
  <2>1. PICK q, us, old, s : Started(q, us, old, s)
    BY <1>6, StartGameStarts
  <2>2. /\ DOMAIN rooms' = DOMAIN rooms \cup {q}
        /\ rooms'[r] = IF r = q THEN [users |-> s, playing |-> TRUE] ELSE rooms[r]
        /\ r = q => old = rooms[r].users
    BY <2>1 DEF Started
  <2>3. CASE r # q
    BY <1>1, <2>2, <2>3
  <2>4. CASE r = q
    <3>1. old \in Seq(Seats) /\ us \in SUBSET Users /\ s \in AddUsers(old, us)
      BY <2>1 DEF Started
    <3>2. s \in Seq(Seats) /\ Len(s) >= Len(old) /\ \A j \in 1 .. Len(old) : s[j] = old[j]
      BY <3>1, AddUsersAppends
    <3>3. Len(s) \in Nat /\ DOMAIN s = 1 .. Len(s) /\ Len(old) = n
      BY <1>4, <2>2, <2>4, <3>2, LenProperties
    <3>4. rooms'[r].users = s
      BY <2>2, <2>4
    <3>5. i \in DOMAIN s /\ s[i].uid = u
      BY <1>1, <1>4, <2>2, <2>4, <3>2, <3>3
    <3>6. QED
      BY <2>2, <3>4, <3>5
  <2>5. QED
    BY <2>3, <2>4
<1>7. ASSUME NEW v, NEW q, NEW d, Left(v, q, d)
      PROVE  r \in DOMAIN rooms' /\ \E j \in DOMAIN rooms'[r].users : rooms'[r].users[j].uid = u
  <2>1. r \in DOMAIN rooms' /\ rooms'[r].users = IF r = q THEN DelUser(rooms[r].users, v) ELSE rooms[r].users
    BY <1>7 DEF Left
  <2>2. CASE r # q
    BY <1>1, <2>1, <2>2
  <2>3. CASE r = q
    <3>1. PICK old \in Seq(Seats) : old = rooms[r].users
      BY <1>3
    <3>2. /\ DelUser(old, v) \in Seq(Seats) /\ Len(DelUser(old, v)) = Len(old)
          /\ \/ DelUser(old, v) = old
             \/ \E a, b \in 1 .. Len(old) : \A k \in 1 .. Len(old) :
                  DelUser(old, v)[k] = IF k = b THEN old[a] ELSE IF k = a THEN old[b] ELSE old[k]
      BY DelUserSwaps
    <3>3. PICK e : e = DelUser(old, v)
      OBVIOUS
    <3>4. rooms'[r].users = e /\ DOMAIN e = 1 .. n /\ Len(old) = n
      BY <1>4, <2>1, <2>3, <3>1, <3>2, <3>3, LenProperties
    <3>5. CASE e = old
      BY <1>1, <2>1, <3>1, <3>4, <3>5
    <3>6. CASE e # old
      <4>1. PICK a \in 1 .. n, b \in 1 .. n : \A k \in 1 .. n :
                  e[k] = IF k = b THEN old[a] ELSE IF k = a THEN old[b] ELSE old[k]
        BY <3>2, <3>3, <3>4, <3>6
      <4>2. i \in 1 .. n /\ old[i].uid = u
        BY <1>1, <1>4, <3>1
      <4>3. \E j \in 1 .. n : e[j].uid = u
        <5>1. CASE i = a
          <6>1. e[b] = old[a]
            BY <4>1
          <6>2. QED
            BY <4>2, <5>1, <6>1
        <5>2. CASE i = b
          BY <4>1, <4>2, <5>2
        <5>3. CASE i # a /\ i # b
          BY <4>1, <4>2, <5>3
        <5>4. QED
          BY <5>1, <5>2, <5>3
      <4>4. QED
        BY <2>1, <3>4, <4>3
    <3>7. QED
      BY <3>5, <3>6
  <2>4. QED
    BY <2>2, <2>3
<1>8. QED
  BY <1>5, <1>6, <1>7, GameCases

(* The messages under way stay where they are. *)
ChanGrows ==
  /\ Len(chan') \in Nat /\ Len(chan') >= Len(chan)
  /\ \A i \in 1 .. Len(chan) : chan'[i] = chan[i]

(* A message goes; a StartGame goes into the room. *)
ChanServed(k) ==
  /\ Dropped(k)
  /\ \/ chan[k].type # "StartGame"
     \/ k = 1 /\ startGame

LEMMA WillSitGrows ==
  ASSUME LobbyTypeOK, [LobbyNext]_lobbyVars, ~RestartGame, ChanGrows,
         NEW u, NEW r, NEW n \in 0 .. Len(chan), WillSit(u, r, n), NEW n1 \in Nat, n <= n1
  PROVE  WillSit(u, r, n1)'
<1>1. CASE r \in DOMAIN rooms /\ SeatsOf(r, u) # {}
  BY <1>1, SeatsSurvive DEF WillSit
<1>2. CASE \E j \in 1 .. n : chan[j].type = "StartGame" /\ chan[j].room = r /\ u \in chan[j].users
  <2>1. PICK j \in 1 .. n : chan[j].type = "StartGame" /\ chan[j].room = r /\ u \in chan[j].users
    BY <1>2
  <2>2. Len(chan) \in Nat
    BY ChanIsSeq DEF LobbyTypeOK
  <2>3. j \in 1 .. Len(chan) /\ j \in 1 .. n1
    BY <2>2
  <2>4. chan'[j] = chan[j]
    BY <2>3 DEF ChanGrows
  <2>5. QED
    BY <2>1, <2>3, <2>4 DEF WillSit
<1>3. QED
  BY <1>1, <1>2 DEF WillSit

LEMMA WillSitServed ==
  ASSUME LobbyTypeOK, [LobbyNext]_lobbyVars, ~RestartGame, NEW k, ChanServed(k),
         NEW u, NEW r, NEW n \in 0 .. Len(chan), WillSit(u, r, n),
         NEW n1 \in Nat, n1 = IF n < k THEN n ELSE n - 1
  PROVE  WillSit(u, r, n1)'
<1>1. CASE r \in DOMAIN rooms /\ SeatsOf(r, u) # {}
  BY <1>1, SeatsSurvive DEF WillSit
<1>2. CASE \E j \in 1 .. n : chan[j].type = "StartGame" /\ chan[j].room = r /\ u \in chan[j].users
  <2>1. PICK j \in 1 .. n : chan[j].type = "StartGame" /\ chan[j].room = r /\ u \in chan[j].users
    BY <1>2
  <2>2. Len(chan) \in Nat
    BY ChanIsSeq DEF LobbyTypeOK
  <2>3. k \in 1 .. Len(chan) /\ \A i \in 1 .. Len(chan) - 1 : chan'[i] = chan[IF i < k THEN i ELSE i + 1]
    BY DEF ChanServed, Dropped
  <2>4. CASE j # k
    <3>1. PICK i \in 1 .. n1 : i = IF j < k THEN j ELSE j - 1
      BY <2>2, <2>3, <2>4
    <3>2. i \in 1 .. Len(chan) - 1 /\ (IF i < k THEN i ELSE i + 1) = j
      BY <2>2, <2>3, <2>4, <3>1
    <3>3. chan'[i] = chan[j]
      BY <2>3, <3>2
    <3>4. QED
      BY <2>1, <3>1, <3>3 DEF WillSit
  <2>5. CASE j = k
    <3>1. k = 1 /\ startGame
      BY <2>1, <2>5 DEF ChanServed
    <3>2. PICK q, us, old, s : Started(q, us, old, s)
      BY <3>1, StartGameStarts
    <3>3. q = r /\ u \in us
      BY <2>1, <2>5, <3>1, <3>2 DEF Started
    <3>4. old \in Seq(Seats) /\ us \in SUBSET Users /\ s \in AddUsers(old, us)
      BY <3>2 DEF Started
    <3>5. s \in Seq(Seats) /\ \E i \in Len(old) + 1 .. Len(s) : s[i].uid = u
      BY <3>3, <3>4, AddUsersAppends
    <3>6. Len(s) \in Nat /\ DOMAIN s = 1 .. Len(s) /\ Len(old) \in Nat
      BY <3>4, <3>5, LenProperties
    <3>7. PICK i \in DOMAIN s : s[i].uid = u
      BY <3>5, <3>6
    <3>8. r \in DOMAIN rooms' /\ rooms'[r].users = s
      <4>1. r \in DOMAIN rooms' /\ rooms'[r] = [users |-> s, playing |-> TRUE]
        BY <3>2, <3>3 DEF Started
      <4>2. QED
        BY <4>1
    <3>9. SeatsOf(r, u)' # {}
      BY <3>7, <3>8 DEF SeatsOf
    <3>10. QED
      BY <3>8, <3>9 DEF WillSit
  <2>6. QED
    BY <2>4, <2>5
<1>3. QED
  BY <1>1, <1>2 DEF WillSit

(* What a step without faults does to the messages. *)
LEMMA NoFaultsChan ==
  ASSUME LobbyTypeOK, AskingIsFree, HallKnows, [LobbyNext]_lobbyVars, NoFaults, NoFaults'
  PROVE  \/ UNCHANGED <<chan, userGame>>
         \/ \E u \in Users : Assigned(u) /\ Sent(ReconnReq(u, userGame[u].room)) /\ UNCHANGED userGame
         \/ \E msg \in StatusMsgs : Sent(msg) /\ UNCHANGED userGame
         \/ enterRoomAnswered /\ Waits(asking.uid, asking.multi)
         \/ \E vs \in SUBSET Users : /\ enterRoomAnswered /\ Matched(asking.uid, asking.multi, vs)
                                    /\ Sent(StartReq(incRoomId + 1, vs \cup {asking.uid}))
         \/ \E k : ChanServed(k) /\ UNCHANGED userGame
<1> USE DEF LobbyTypeOK
<1>1. ~RestartHall /\ ~RestartGame /\ lost' = lost /\ lost \in Nat
  BY NoFaultsBefore DEF FaultsOK
<1>2. ASSUME NEW msg, Send(msg)
      PROVE  chan' = Append(chan, msg)
  BY <1>1, <1>2 DEF Send
<1>3. ASSUME NEW u \in Users, NEW m \in Multis, enterRoom(u, m)
      PROVE  \/ Assigned(u) /\ Sent(ReconnReq(u, userGame[u].room)) /\ UNCHANGED userGame
             \/ \E msg \in StatusMsgs : Sent(msg) /\ UNCHANGED userGame
  <2>1. CASE Assigned(u)
    <3>1. ReconnReq(u, userGame[u].room) \in Msgs
      BY <2>1 DEF ReconnReq, Msgs, ReconnMsgs, HallOK, Assigned
    <3>2. Send(ReconnReq(u, userGame[u].room)) /\ UNCHANGED userGame
      BY <1>3, <2>1 DEF enterRoom, Assigned
    <3>3. chan' = Append(chan, ReconnReq(u, userGame[u].room))
      BY <1>2, <3>2
    <3>4. QED
      BY <2>1, <3>1, <3>2, <3>3, AppendSends
  <2>2. CASE ~Assigned(u)
    <3>1. StatusReq(u) \in StatusMsgs
      BY DEF StatusReq, StatusMsgs
    <3>2. StatusReq(u) \in Msgs
      BY <3>1 DEF Msgs
    <3>3. chan' = Append(chan, StatusReq(u)) /\ UNCHANGED userGame
      BY <1>3, <2>2 DEF enterRoom, Assigned
    <3>4. Sent(StatusReq(u))
      BY <3>2, <3>3, AppendSends
    <3>5. QED
      BY <3>1, <3>3, <3>4
  <2>3. QED
    BY <2>1, <2>2
<1>4. CASE enterRoomAnswered
  <2>1. ~(answer > 0)
    <3>1. hallRestarts = 0
      <4>1. hallRestarts \in Nat /\ gameRestarts \in Nat /\ lost \in Nat
        BY DEF FaultsOK
      <4>2. hallRestarts + gameRestarts + lost = 0
        BY DEF NoFaults
      <4>3. QED
        BY <4>1, <4>2
    <3>2. answer \in Int
      BY DEF ChanOK
    <3>3. QED
      BY <3>1, <3>2 DEF HallKnows
  <2>2. ASSUME NEW vs \in SUBSET Users, Matched(asking.uid, asking.multi, vs)
        PROVE  Sent(StartReq(incRoomId + 1, vs \cup {asking.uid}))
    <3>1. incRoomId + 1 \in Nat \ {0} /\ vs \cup {asking.uid} \in SUBSET Users
      BY <1>4, AskedIsUser DEF HallOK, enterRoomAnswered
    <3>2. StartReq(incRoomId + 1, vs \cup {asking.uid}) \in StartMsgs
      BY <3>1 DEF StartReq, StartMsgs
    <3>3. StartReq(incRoomId + 1, vs \cup {asking.uid}) \in Msgs
      BY <3>2 DEF Msgs
    <3>4. chan' = Append(chan, StartReq(incRoomId + 1, vs \cup {asking.uid}))
      BY <1>2, <2>2 DEF Matched
    <3>5. QED
      BY <3>3, <3>4, AppendSends
  <2>3. QED
    BY <1>4, <2>1, <2>2, AnswerCases
<1>5. CASE enterRoomFails
  <2>1. chan' = Forget /\ UNCHANGED userGame
    BY <1>5 DEF enterRoomFails
  <2>2. QED
    BY <2>1, ForgetDrops DEF ChanServed
<1>6. CASE getGameStatus \/ reconnect
  <2>1. Dropped(1) /\ chan[1].type # "StartGame" /\ UNCHANGED userGame
    BY <1>6, TailDrops DEF getGameStatus, reconnect, Take, hall
  <2>2. QED
    BY <2>1 DEF ChanServed
<1>7. CASE startGame
  <2>1. Dropped(1) /\ UNCHANGED userGame
    BY <1>7, StartGameStarts DEF startGame, hall
  <2>2. QED
    BY <1>7, <2>1 DEF ChanServed
<1>8. ASSUME NEW r \in RoomIds, huPai(r) \/ continueGame(r) \/ \E v \in Users : leaveRoom(v, r)
      PROVE  UNCHANGED <<chan, userGame>>
  BY <1>8 DEF huPai, continueGame, Playing, leaveRoom, hall
<1>9. CASE UNCHANGED lobbyVars
  BY <1>9 DEF lobbyVars, hall
<1>10. QED
  BY <1>1, <1>3, <1>4, <1>5, <1>6, <1>7, <1>8, <1>9 DEF LobbyNext

(* A Reconnect at place i that names the room of user u. *)
Reconnecting(i, u, r) ==
  i \in DOMAIN chan /\ chan[i].type = "Reconnect" /\ chan[i].uid = u /\ chan[i].room = r /\ r > 0

LEMMA SittingStep ==
  ASSUME LobbyTypeOK, AskingIsFree, HallKnows, PInv, [LobbyNext]_lobbyVars
  PROVE  PInv'
<1> SUFFICES ASSUME NoFaults'
             PROVE  /\ \A u \in Users, r, n \in Nat : Assigned(u)' /\ r = userGame'[u].room /\ n = Len(chan')
                                             => WillSit(u, r, n)'
                    /\ \A i, u, r : Reconnecting(i, u, r)' => WillSit(u, r, i - 1)'
  <2>1. \A u \in Users : Assigned(u)' => userGame'[u].room \in Nat
    BY HallStep DEF HallOK, Assigned
  <2>2. Len(chan') \in Nat
    BY ChanStep, LenProperties DEF ChanOK
  <2>3. ASSUME \A u \in Users, r, n \in Nat : Assigned(u)' /\ r = userGame'[u].room /\ n = Len(chan')
                                             => WillSit(u, r, n)',
               NEW u \in Users, Assigned(u)'
        PROVE  WillSit(u, userGame[u].room, Len(chan))'
    <3>1. PICK r \in Nat, n \in Nat : r = userGame'[u].room /\ n = Len(chan')
      BY <2>1, <2>2, <2>3
    <3>2. WillSit(u, r, n)'
      BY <2>3, <3>1
    <3>3. QED
      BY <3>1, <3>2 DEF WillSit
  <2>4. QED
    BY <2>3 DEF PInv, AssignedWillSit, ReconnectFindsUser, Reconnecting, WillSit, NoFaults
<1> USE DEF LobbyTypeOK
<1>1. NoFaults /\ ~RestartHall /\ ~RestartGame /\ hallRestarts' = hallRestarts
  BY NoFaultsBefore
<1>2. /\ \A u \in Users : Assigned(u) => WillSit(u, userGame[u].room, Len(chan))
      /\ \A i, u, r : Reconnecting(i, u, r) => WillSit(u, r, i - 1)
  BY <1>1 DEF PInv, AssignedWillSit, ReconnectFindsUser, Reconnecting, WillSit, NoFaults
<1>3. /\ Len(chan) \in Nat /\ DOMAIN chan = 1 .. Len(chan)
      /\ Len(chan') \in Nat /\ DOMAIN chan' = 1 .. Len(chan')
  BY ChanIsSeq, ChanStep, LenProperties DEF ChanOK
<1>4. PICK L \in Nat : L = Len(chan)
  BY <1>3
<1>5. ASSUME ChanGrows
      PROVE  /\ \A u \in Users, r, n \in Nat : Assigned(u) /\ r = userGame[u].room /\ n >= L => WillSit(u, r, n)'
             /\ \A i \in 1 .. L : \A u, r : Reconnecting(i, u, r) => WillSit(u, r, i - 1)'
  <2>1. ASSUME NEW u \in Users, NEW r \in Nat, NEW n \in Nat, Assigned(u), r = userGame[u].room, n >= L
        PROVE  WillSit(u, r, n)'
    <3>1. WillSit(u, r, L) /\ L \in 0 .. Len(chan)
      BY <1>2, <1>4, <2>1
    <3>2. QED
      BY <1>1, <1>5, <2>1, <3>1, WillSitGrows
  <2>2. ASSUME NEW i \in 1 .. L, NEW u, NEW r, Reconnecting(i, u, r)
        PROVE  WillSit(u, r, i - 1)'
    <3>1. WillSit(u, r, i - 1) /\ i - 1 \in 0 .. Len(chan) /\ i - 1 \in Nat /\ i - 1 <= i - 1
      BY <1>2, <1>4, <2>2
    <3>2. QED
      BY <1>1, <1>5, <3>1, WillSitGrows
  <2>3. QED
    BY <2>1, <2>2
<1>6. ASSUME NEW msg, Sent(msg)
      PROVE  ChanGrows /\ Len(chan') = L + 1 /\ chan'[L + 1] = msg
  BY <1>3, <1>4, <1>6 DEF Sent, ChanGrows
<1>7. ASSUME ChanGrows, NEW i \in 1 .. L, NEW u, NEW r, Reconnecting(i, u, r)'
      PROVE  WillSit(u, r, i - 1)'
  <2>1. Reconnecting(i, u, r)
    BY <1>3, <1>4, <1>7 DEF ChanGrows, Reconnecting
  <2>2. QED
    BY <1>5, <1>7, <2>1
<1>8. ASSUME UNCHANGED userGame, NEW u, Assigned(u)'
      PROVE  Assigned(u) /\ userGame'[u].room = userGame[u].room
  BY <1>8 DEF Assigned
<1>9. CASE UNCHANGED <<chan, userGame>>
  <2>1. ChanGrows
    BY <1>3, <1>9 DEF ChanGrows
  <2>2. ASSUME NEW u \in Users, NEW r \in Nat, NEW n \in Nat, Assigned(u)', r = userGame'[u].room, n = Len(chan')
        PROVE  WillSit(u, r, n)'
    BY <1>4, <1>5, <1>8, <1>9, <2>1, <2>2
  <2>3. ASSUME NEW i, NEW u, NEW r, Reconnecting(i, u, r)'
        PROVE  WillSit(u, r, i - 1)'
    <3>1. i \in 1 .. L
      BY <1>3, <1>4, <1>9, <2>3 DEF Reconnecting
    <3>2. QED
      BY <1>7, <2>1, <2>3, <3>1
  <2>4. QED
    BY <2>2, <2>3
<1>10. ASSUME NEW v \in Users, Assigned(v), Sent(ReconnReq(v, userGame[v].room)), UNCHANGED userGame
       PROVE  /\ \A u \in Users, r, n \in Nat : Assigned(u)' /\ r = userGame'[u].room /\ n = Len(chan') => WillSit(u, r, n)'
              /\ \A i, u, r : Reconnecting(i, u, r)' => WillSit(u, r, i - 1)'
  <2>1. ChanGrows /\ Len(chan') = L + 1 /\ chan'[L + 1] = ReconnReq(v, userGame[v].room)
    BY <1>6, <1>10
  <2>2. ASSUME NEW u \in Users, NEW r \in Nat, NEW n \in Nat, Assigned(u)', r = userGame'[u].room, n = Len(chan')
        PROVE  WillSit(u, r, n)'
    BY <1>5, <1>8, <1>10, <2>1, <2>2
  <2>3. ASSUME NEW i, NEW u, NEW r, Reconnecting(i, u, r)'
        PROVE  WillSit(u, r, i - 1)'
    <3>1. i \in 1 .. L \/ i = L + 1
      BY <1>3, <2>1, <2>3 DEF Reconnecting
    <3>2. CASE i = L + 1
      <4>1. u = v /\ r = userGame[v].room
        BY <2>1, <2>3, <3>2 DEF Reconnecting, ReconnReq
      <4>2. i - 1 \in Nat /\ i - 1 >= L
        BY <3>2
      <4>3. QED
        <5>1. r \in Nat
          BY <1>10, <4>1 DEF HallOK, Assigned
        <5>2. QED
          BY <1>5, <1>10, <2>1, <4>1, <4>2, <5>1
    <3>3. QED
      BY <1>7, <2>1, <2>3, <3>1, <3>2
  <2>4. QED
    BY <2>2, <2>3
<1>11. ASSUME NEW msg \in StatusMsgs, Sent(msg), UNCHANGED userGame
       PROVE  /\ \A u \in Users, r, n \in Nat : Assigned(u)' /\ r = userGame'[u].room /\ n = Len(chan') => WillSit(u, r, n)'
              /\ \A i, u, r : Reconnecting(i, u, r)' => WillSit(u, r, i - 1)'
  <2>1. ChanGrows /\ Len(chan') = L + 1 /\ chan'[L + 1].type # "Reconnect"
    BY <1>6, <1>11 DEF StatusMsgs
  <2>2. ASSUME NEW u \in Users, NEW r \in Nat, NEW n \in Nat, Assigned(u)', r = userGame'[u].room, n = Len(chan')
        PROVE  WillSit(u, r, n)'
    BY <1>5, <1>8, <1>11, <2>1, <2>2
  <2>3. ASSUME NEW i, NEW u, NEW r, Reconnecting(i, u, r)'
        PROVE  WillSit(u, r, i - 1)'
    <3>1. i \in 1 .. L
      BY <1>3, <2>1, <2>3 DEF Reconnecting
    <3>2. QED
      BY <1>7, <2>1, <2>3, <3>1
  <2>4. QED
    BY <2>2, <2>3
<1>12. CASE enterRoomAnswered /\ Waits(asking.uid, asking.multi)
  <2>1. chan' = chan /\ userGame' = With(userGame, asking.uid, [multi |-> asking.multi, room |-> 0])
    BY <1>12 DEF Waits
  <2>2. ChanGrows
    BY <1>3, <2>1 DEF ChanGrows
  <2>3. ASSUME NEW u \in Users, NEW r \in Nat, NEW n \in Nat, Assigned(u)', r = userGame'[u].room, n = Len(chan')
        PROVE  WillSit(u, r, n)'
    <3>1. Assigned(u) /\ r = userGame[u].room
      BY <2>1, <2>3 DEF Assigned, With
    <3>2. QED
      BY <1>4, <1>5, <2>1, <2>2, <2>3, <3>1
  <2>4. ASSUME NEW i, NEW u, NEW r, Reconnecting(i, u, r)'
        PROVE  WillSit(u, r, i - 1)'
    <3>1. i \in 1 .. L
      BY <1>3, <1>4, <2>1, <2>4 DEF Reconnecting
    <3>2. QED
      BY <1>7, <2>2, <2>4, <3>1
  <2>5. QED
    BY <2>3, <2>4
<1>13. ASSUME NEW vs \in SUBSET Users, enterRoomAnswered, Matched(asking.uid, asking.multi, vs),
              Sent(StartReq(incRoomId + 1, vs \cup {asking.uid}))
       PROVE  /\ \A u \in Users, r, n \in Nat : Assigned(u)' /\ r = userGame'[u].room /\ n = Len(chan') => WillSit(u, r, n)'
              /\ \A i, u, r : Reconnecting(i, u, r)' => WillSit(u, r, i - 1)'
  <2>1. PICK W : W = vs \cup {asking.uid}
    OBVIOUS
  <2>2. ChanGrows /\ Len(chan') = L + 1 /\ chan'[L + 1] = StartReq(incRoomId + 1, W)
    BY <1>6, <1>13, <2>1
  <2>3. /\ DOMAIN userGame' = DOMAIN userGame \cup {asking.uid}
        /\ \A v \in DOMAIN userGame' :
              userGame'[v] = IF v \in W THEN [multi |-> asking.multi, room |-> incRoomId + 1] ELSE userGame[v]
    BY <1>13, <2>1 DEF Matched
  <2>4. ASSUME NEW u \in Users, NEW r \in Nat, NEW n \in Nat, Assigned(u)', r = userGame'[u].room, n = Len(chan')
        PROVE  WillSit(u, r, n)'
    <3>1. u \in DOMAIN userGame'
      BY <2>4 DEF Assigned
    <3>2. CASE u \in W
      <4>1. r = incRoomId + 1
        BY <2>3, <2>4, <3>1, <3>2
      <4>2. n = L + 1 /\ L + 1 \in 1 .. n
        BY <2>2, <2>4
      <4>3. /\ chan'[L + 1].type = "StartGame" /\ chan'[L + 1].room = r
            /\ u \in chan'[L + 1].users
        BY <2>2, <3>2, <4>1 DEF StartReq
      <4>4. QED
        BY <4>2, <4>3 DEF WillSit
    <3>3. CASE u \notin W
      <4>1. Assigned(u) /\ r = userGame[u].room
        BY <2>1, <2>3, <2>4, <3>1, <3>3 DEF Assigned
      <4>2. QED
        BY <1>5, <2>2, <2>4, <4>1
    <3>4. QED
      BY <3>2, <3>3
  <2>5. ASSUME NEW i, NEW u, NEW r, Reconnecting(i, u, r)'
        PROVE  WillSit(u, r, i - 1)'
    <3>1. i \in 1 .. L
      BY <1>3, <2>2, <2>5 DEF Reconnecting, StartReq
    <3>2. QED
      BY <1>7, <2>2, <2>5, <3>1
  <2>6. QED
    BY <2>4, <2>5
<1>14. ASSUME NEW k, ChanServed(k), UNCHANGED userGame
       PROVE  /\ \A u \in Users, r, n \in Nat : Assigned(u)' /\ r = userGame'[u].room /\ n = Len(chan') => WillSit(u, r, n)'
              /\ \A i, u, r : Reconnecting(i, u, r)' => WillSit(u, r, i - 1)'
  <2>1. /\ k \in 1 .. L /\ Len(chan') = L - 1
        /\ \A i \in 1 .. L - 1 : chan'[i] = chan[IF i < k THEN i ELSE i + 1]
    BY <1>4, <1>14 DEF ChanServed, Dropped
  <2>2. ASSUME NEW u \in Users, NEW r \in Nat, NEW n \in Nat, Assigned(u)', r = userGame'[u].room, n = Len(chan')
        PROVE  WillSit(u, r, n)'
    <3>1. WillSit(u, r, L) /\ L \in 0 .. Len(chan)
      BY <1>2, <1>4, <1>8, <1>14, <2>2
    <3>2. n \in Nat /\ n = IF L < k THEN L ELSE L - 1
      BY <1>3, <2>1, <2>2
    <3>3. QED
      BY <1>1, <1>14, <3>1, <3>2, WillSitServed
  <2>3. ASSUME NEW i, NEW u, NEW r, Reconnecting(i, u, r)'
        PROVE  WillSit(u, r, i - 1)'
    <3>1. i \in 1 .. L - 1
      BY <1>3, <2>1, <2>3 DEF Reconnecting
    <3>2. PICK j \in 1 .. L : j = IF i < k THEN i ELSE i + 1
      BY <3>1
    <3>3. Reconnecting(j, u, r)
      BY <1>3, <1>4, <2>1, <2>3, <3>1, <3>2 DEF Reconnecting
    <3>4. WillSit(u, r, j - 1) /\ j - 1 \in 0 .. Len(chan)
      BY <1>2, <1>4, <3>3
    <3>5. i - 1 \in Nat /\ i - 1 = IF j - 1 < k THEN j - 1 ELSE (j - 1) - 1
      BY <2>1, <3>1, <3>2
    <3>6. QED
      BY <1>1, <1>14, <3>4, <3>5, WillSitServed
  <2>4. QED
    BY <2>2, <2>3
<1>15. QED
  BY <1>1, <1>9, <1>10, <1>11, <1>12, <1>13, <1>14, NoFaultsChan

-----------------------------------------------------------------------------
(* The specification. *)

LEMMA LobbyStart ==
  ASSUME LobbyInit
  PROVE  LInv /\ PInv /\ NoFullTableWaits
<1>1. /\ DOMAIN userGame = {} /\ DOMAIN chan = {} /\ DOMAIN rooms = {} /\ DOMAIN users = {}
  BY EmptySeq, LenProperties DEF LobbyInit
<1>2. LobbyTypeOK
  <2>1. /\ <<>> \in [DOMAIN <<>> -> [multi : Multis, room : Nat]]
        /\ <<>> \in [DOMAIN <<>> -> Room] /\ <<>> \in [DOMAIN <<>> -> Nat \ {0}]
        /\ <<>> \in Seq(Msgs) /\ DOMAIN <<>> = {}
    BY EmptySeq, LenProperties
  <2>2. HallOK /\ GameOK
    BY <2>1 DEF LobbyInit, HallOK, GameOK
  <2>3. ChanOK
    BY <2>1 DEF LobbyInit, ChanOK
  <2>4. FaultsOK
    BY DEF LobbyInit, FaultsOK
  <2>5. QED
    BY <2>2, <2>3, <2>4 DEF LobbyTypeOK
<1>3. AskingIsFree /\ UsersHaveRooms /\ SeatsInOrder
  BY <1>1 DEF LobbyInit, AskingIsFree, UsersHaveRooms, SeatsInOrder
<1>4. HallKnows
  BY <1>1 DEF LobbyInit, HallKnows, SeatedAreAssigned, SeatedOnce
<1>5. PInv
  BY <1>1 DEF PInv, AssignedWillSit, ReconnectFindsUser, Assigned
<1>6. NoFullTableWaits
  <2>1. \A m \in Multis : {u \in DOMAIN userGame : userGame[u] = [multi |-> m, room |-> 0]} = {}
    BY <1>1
  <2>2. Cardinality({}) = 0 /\ 0 < TableSize
    BY FS_EmptySet, LobbyAssumption
  <2>3. QED
    BY <2>1, <2>2 DEF NoFullTableWaits
<1>7. QED
  BY <1>2, <1>3, <1>4, <1>5, <1>6 DEF LInv

LEMMA LobbyInductive == LobbySpec => [](LInv /\ PInv /\ NoFullTableWaits)
<1>1. LobbyInit => LInv /\ PInv /\ NoFullTableWaits
  BY LobbyStart
<1>2. LInv /\ PInv /\ NoFullTableWaits /\ [LobbyNext]_lobbyVars => (LInv /\ PInv /\ NoFullTableWaits)'
  BY LobbyTypeStep, AskingStep, RoomsStep, HallKnowsStep, SittingStep, TableStep DEF LInv
<1>3. QED
  BY <1>1, <1>2, PTL DEF LobbySpec

(* Values keep their types: the entries of the hall, the messages under way and the rooms   *)
(* are what the servers declare.                                                            *)
THEOREM LobbyTypes == LobbySpec => []LobbyTypeOK
<1>1. LInv => LobbyTypeOK
  BY DEF LInv
<1>2. QED
  BY <1>1, LobbyInductive, PTL

(* No user sits twice while the hall is up, whatever is late, lost or restarted at the game;*)
(* the users the game knows have their room, and seats are places until somebody leaves.    *)
THEOREM UsersSitOnce == LobbySpec => []OneSeatEach
<1>1. LInv => OneSeatEach
  <2> SUFFICES ASSUME LInv PROVE OneSeatEach
    OBVIOUS
  <2>1. ASSUME hallRestarts = 0, NEW u \in Users
        PROVE  Cardinality(Occurrences(u)) <= 1
    <3>1. SeatedOnce
      BY <2>1 DEF LInv, HallKnows
    <3>2. \A a, b \in Occurrences(u) : a = b
      BY <3>1 DEF Occurrences, SeatsOf, SeatedOnce
    <3>3. CASE Occurrences(u) = {}
      BY <3>3, FS_EmptySet
    <3>4. CASE Occurrences(u) # {}
      <4>1. PICK a : Occurrences(u) = {a}
        BY <3>2, <3>4
      <4>2. QED
        <5>1. Cardinality({a}) = 1
          BY FS_Singleton
        <5>2. QED
          BY <4>1, <5>1
    <3>5. QED
      BY <3>3, <3>4
  <2>2. QED
    BY <2>1 DEF OneSeatEach, LInv, UsersHaveRooms, SeatsInOrder
<1>2. QED
  BY <1>1, LobbyInductive, PTL

(* enterRoom leaves no full table waiting. *)
THEOREM TablesAreFilled == LobbySpec => []NoFullTableWaits
BY LobbyInductive, PTL

(* Without a fault the Reconnect of the hall comes behind the StartGame of its user. *)
THEOREM ReconnectsFindTheirUsers == LobbySpec => []ReconnectFindsUser
<1>1. PInv => ReconnectFindsUser
  BY DEF PInv
<1>2. QED
  BY <1>1, LobbyInductive, PTL

-----------------------------------------------------------------------------
(* What a line wins with, for the elements on it that are not wild: the only one, if it pays. *)
WinsWith(w, A) ==
    /\ w \in 0 .. 10
    /\ IF \E e \in A : A = {e} /\ ~ Blocks(e) THEN w \in A ELSE w \in {0, ElemWild}

LEMMA LineWorth ==
    ASSUME NEW e1 \in 1 .. 10, NEW e2 \in 1 .. 10, NEW e3 \in 1 .. 10,
           NEW A, A = {e1, e2, e3} \ {ElemWild}, NEW w, w = Along(Along(FirstOf(e1), e2), e3)
    PROVE  WinsWith(w, A)
<1> USE DEF WinsWith, ElemWild, ElemFree, ElemBonus, Blocks, Along, FirstOf
<1>1. PICK x \in 0 .. 10 : x = Along(FirstOf(e1), e2)  OBVIOUS
<1>2. w = Along(x, e3)  BY <1>1
<1>3. CASE Blocks(e1) \/ Blocks(e2) \/ Blocks(e3)
  <2>1. w = 0
    <3>1. CASE Blocks(e3)  BY <1>2, <3>1
    <3>2. CASE Blocks(e2)
      <4>1. x = 0  BY <1>1, <3>2
      <4> QED BY <1>2, <4>1
    <3>3. CASE Blocks(e1)
      <4>1. FirstOf(e1) = 0  BY <3>3
      <4>2. x = 0  BY <1>1, <4>1
      <4> QED BY <1>2, <4>2
    <3> QED BY <1>3, <3>1, <3>2, <3>3
  <2>2. ~ \E e \in A : A = {e} /\ ~ Blocks(e)
    <3>1. \E e \in A : Blocks(e)  BY <1>3
    <3> QED BY <3>1
  <2> QED BY <2>1, <2>2
<1>4. CASE ~ (Blocks(e1) \/ Blocks(e2) \/ Blocks(e3))
  <2>1. \A e \in A : ~ Blocks(e)  BY <1>4
  <2>2. CASE e1 = 10 /\ e2 = 10  BY <1>1, <1>2, <1>4, <2>1, <2>2
  <2>3. CASE e1 # 10 /\ (e2 = 10 \/ e2 = e1)
    <3>1. x = e1  BY <1>1, <1>4, <2>3
    <3> QED BY <1>2, <1>4, <2>1, <2>3, <3>1
  <2>4. CASE e1 = 10 /\ e2 # 10
    <3>1. x = e2  BY <1>1, <1>4, <2>4
    <3> QED BY <1>2, <1>4, <2>1, <2>4, <3>1
  <2>5. CASE e1 # 10 /\ e2 # 10 /\ e2 # e1
    <3>1. x = 0  BY <1>1, <1>4, <2>5
    <3> QED BY <1>2, <2>5, <3>1
  <2> QED BY <2>2, <2>3, <2>4, <2>5
<1> QED BY <1>3, <1>4

(* A line pays three of that element, or nothing. *)
LEMMA PaysWorth ==
    ASSUME NEW board \in [0 .. 9 -> 1 .. 10], NEW pos, \A i \in 1 .. 3 : pos[i] \in 0 .. 9,
           NEW w, w = WinsOf(board, pos)
    PROVE  /\ Worth(board, pos) \in Nat
           /\ w > 0 => Worth(board, pos) = Multi3[w]
           /\ ~ (w > 0) => Worth(board, pos) = 0
<1>1. PICK e1 \in 1 .. 10, e2 \in 1 .. 10, e3 \in 1 .. 10 :
         e1 = board[pos[1]] /\ e2 = board[pos[2]] /\ e3 = board[pos[3]]
  <2>1. pos[1] \in 0 .. 9 /\ pos[2] \in 0 .. 9 /\ pos[3] \in 0 .. 9  OBVIOUS
  <2>2. board[pos[1]] \in 1 .. 10 /\ board[pos[2]] \in 1 .. 10 /\ board[pos[3]] \in 1 .. 10  BY <2>1
  <2> QED BY <2>2
<1>2. PICK A : A = Alike(board, pos)  OBVIOUS
<1>3. A = {e1, e2, e3} \ {ElemWild}
  <2>1. {board[pos[i]] : i \in 1 .. 3} = {e1, e2, e3}  BY <1>1
  <2> QED BY <1>2, <2>1 DEF Alike
<1>4. w = Along(Along(FirstOf(e1), e2), e3)  BY <1>1 DEF WinsOf
<1>6. WinsWith(w, A)  BY <1>3, <1>4, LineWorth
<1>7. Worth(board, pos) = IF \E e \in A : A = {e} THEN Multi3[CHOOSE e \in A : TRUE] ELSE 0
      BY <1>2 DEF Worth
<1>8. CASE \E e \in A : A = {e}
  <2>1. PICK e \in A : A = {e}  BY <1>8
  <2>2. (CHOOSE d \in A : TRUE) = e  BY <2>1
  <2>3. Worth(board, pos) = Multi3[e] /\ e \in 1 .. 9  BY <1>3, <1>7, <1>8, <2>1, <2>2 DEF ElemWild
  <2>4. CASE Blocks(e)
    <3>1. Multi3[e] = 0 /\ w \in {0, ElemWild}  BY <1>6, <2>1, <2>4 DEF WinsWith, Blocks, ElemFree, ElemBonus, Multi3
    <3>2. Multi3[ElemWild] = 0  BY DEF ElemWild, Multi3
    <3> QED BY <2>3, <3>1, <3>2 DEF ElemWild
  <2>5. CASE ~ Blocks(e)
    <3>1. w = e  BY <1>6, <2>1, <2>5 DEF WinsWith
    <3>2. Multi3[e] \in Nat
      <4>1. \A d \in 1 .. 9 : Multi3[d] \in Nat  BY DEF Multi3
      <4> QED BY <2>3, <4>1
    <3> QED BY <2>3, <3>1, <3>2
  <2> QED BY <2>4, <2>5
<1>9. CASE ~ \E e \in A : A = {e}
  <2>1. Worth(board, pos) = 0 /\ w \in {0, ElemWild}  BY <1>6, <1>7, <1>9 DEF WinsWith
  <2>2. Multi3[ElemWild] = 0  BY DEF ElemWild, Multi3
  <2> QED BY <2>1, <2>2 DEF ElemWild
<1> QED BY <1>8, <1>9

LEMMA LinesAreOnTheBoard ==
    DOMAIN Lines = 1 .. 5 /\ \A i \in 1 .. 5 : \A k \in 1 .. 3 : Lines[i][k] \in 0 .. 9
<1>1. DOMAIN Lines = 1 .. 5  BY DEF Lines
<1>2. \A k \in 1 .. 3 : Lines[1][k] \in 0 .. 9  BY DEF Lines
<1>3. \A k \in 1 .. 3 : Lines[2][k] \in 0 .. 9  BY DEF Lines
<1>4. \A k \in 1 .. 3 : Lines[3][k] \in 0 .. 9  BY DEF Lines
<1>5. \A k \in 1 .. 3 : Lines[4][k] \in 0 .. 9  BY DEF Lines
<1>6. \A k \in 1 .. 3 : Lines[5][k] \in 0 .. 9  BY DEF Lines
<1>7. \A i \in 1 .. 5 : i = 1 \/ i = 2 \/ i = 3 \/ i = 4 \/ i = 5  OBVIOUS
<1> QED BY <1>1, <1>2, <1>3, <1>4, <1>5, <1>6, <1>7

-----------------------------------------------------------------------------
PaidItsLines ==
    LET worths == [i \in DOMAIN Lines |-> Worth(last.board, Lines[i])] IN
    /\ last.win = last.bet * OverLines(worths)
    /\ \A i \in DOMAIN Lines : worths[i] > 0 => i \in last.lines

(* A spin moves the money once or, when UpdateMoney fails, perhaps not at all. *)
MoneyFits ==
    /\ money \in {last.from, last.from + last.paid}
    /\ last.sent => money = last.from + last.paid

SlotInv ==
    /\ money \in Int /\ MoneyFits
    /\ last.bet > 0 => PaidItsLines

(* The sum of what the lines pay is the bet times the sum of what they are worth. *)
LEMMA SpinFits ==
    ASSUME SlotInv, NEW board \in [0 .. 9 -> 1 .. 10], NEW bet \in Nat, NEW m1 \in Nat,
           Spin(board, bet, m1)
    PROVE  SlotInv'
<1>1. PICK W : W = [i \in 1 .. 5 |-> WinsOf(board, Lines[i])]  OBVIOUS
<1>2. PICK V : V = [i \in 1 .. 5 |-> Worth(board, Lines[i])]  OBVIOUS
<1>3. \A i \in 1 .. 5 : /\ V[i] \in Nat
                        /\ W[i] > 0 => V[i] = Multi3[W[i]]
                        /\ ~ (W[i] > 0) => V[i] = 0
  <2>1. ASSUME NEW i \in 1 .. 5
        PROVE  /\ V[i] \in Nat
               /\ W[i] > 0 => V[i] = Multi3[W[i]]
               /\ ~ (W[i] > 0) => V[i] = 0
    <3>1. \A k \in 1 .. 3 : Lines[i][k] \in 0 .. 9  BY LinesAreOnTheBoard
    <3>2. PICK pos : pos = Lines[i]  OBVIOUS
    <3>3. W[i] = WinsOf(board, pos) /\ V[i] = Worth(board, pos)  BY <1>1, <1>2, <3>2
    <3> QED BY <3>1, <3>2, <3>3, PaysWorth
  <2> QED BY <2>1
<1>4. PICK won : won = {i \in DOMAIN Lines : WinsOf(board, Lines[i]) > 0}  OBVIOUS
<1>5. \A i \in 1 .. 5 : i \in won <=> W[i] > 0  BY <1>1, <1>4, LinesAreOnTheBoard
<1>6. PICK F : F = [i \in DOMAIN Lines |-> IF i \in won THEN Multi3[WinsOf(board, Lines[i])] * bet ELSE 0]
      OBVIOUS
<1>7. \A i \in 1 .. 5 : F[i] = bet * V[i]
  <2>1. ASSUME NEW i \in 1 .. 5 PROVE F[i] = bet * V[i]
    <3>1. F[i] = IF i \in won THEN Multi3[W[i]] * bet ELSE 0  BY <1>1, <1>6, LinesAreOnTheBoard
    <3>2. CASE W[i] > 0
      <4>1. F[i] = V[i] * bet /\ V[i] \in Nat  BY <1>3, <1>5, <3>1, <3>2
      <4> QED BY <4>1
    <3>3. CASE ~ (W[i] > 0)
      <4>1. F[i] = 0 /\ V[i] = 0  BY <1>3, <1>5, <3>1, <3>3
      <4> QED BY <4>1
    <3> QED BY <3>2, <3>3
  <2> QED BY <2>1
<1>8. OverLines(F) = bet * OverLines(V)
  <2>1. PICK a \in Nat, b \in Nat, c \in Nat, d \in Nat, e \in Nat :
           a = V[1] /\ b = V[2] /\ c = V[3] /\ d = V[4] /\ e = V[5]
    <3>1. V[1] \in Nat /\ V[2] \in Nat /\ V[3] \in Nat /\ V[4] \in Nat /\ V[5] \in Nat  BY <1>3
    <3> QED BY <3>1
  <2>2. F[1] = bet * a /\ F[2] = bet * b /\ F[3] = bet * c /\ F[4] = bet * d /\ F[5] = bet * e
        BY <1>7, <2>1
  <2>3. bet * a + bet * b + bet * c + bet * d + bet * e = bet * (a + b + c + d + e)  OBVIOUS
  <2> QED BY <2>1, <2>2, <2>3 DEF OverLines
<1>9. PICK win \in Int : win = OverLines(F)
  <2>1. OverLines(V) \in Nat  BY <1>3 DEF OverLines
  <2>2. PICK o \in Nat : o = OverLines(V)  BY <2>1
  <2>3. bet * o \in Int  OBVIOUS
  <2> QED BY <1>8, <2>2, <2>3
<1>10. PICK bonus \in Int : bonus = IF Elem(board, ElemBonus) >= 3 THEN bet * m1 ELSE 0
  <2>1. bet * m1 \in Int  OBVIOUS
  <2> QED BY <2>1
<1>11. PICK ok \in BOOLEAN :
           /\ last' = [board |-> board, bet |-> bet, win |-> win, lines |-> won, bonus |-> bonus,
                       paid |-> win + bonus - bet, from |-> money, sent |-> ok]
           /\ UpdateMoney(win + bonus - bet, ok)
  <2>1. Spin(board, bet, m1)  OBVIOUS
  <2> QED BY <1>4, <1>6, <1>9, <1>10, <2>1 DEF Spin
<1>12. PaidItsLines'
  <2>1. last'.board = board /\ last'.win = win /\ last'.bet = bet /\ last'.lines = won  BY <1>11
  <2>2. [i \in DOMAIN Lines |-> Worth(last'.board, Lines[i])] = V  BY <1>2, <2>1, LinesAreOnTheBoard
  <2>3. \A i \in DOMAIN Lines : V[i] > 0 => i \in won  BY <1>3, <1>5, LinesAreOnTheBoard
  <2>4. win = bet * OverLines(V)  BY <1>8, <1>9
  <2> QED BY <2>1, <2>2, <2>3, <2>4 DEF PaidItsLines
<1>13. PICK change \in Int : change = win + bonus - bet  OBVIOUS
<1>14. last'.from = money /\ last'.paid = change /\ last'.sent = ok /\ money \in Int
       BY <1>11, <1>13 DEF SlotInv
<1>15. money' \in {money + change} \cup (IF ok THEN {} ELSE {money})  BY <1>11, <1>13 DEF UpdateMoney
<1>16. money' = money + change \/ (~ok /\ money' = money)  BY <1>15
<1>17. money' \in Int  BY <1>14, <1>16
<1>18. MoneyFits'  BY <1>14, <1>16 DEF MoneyFits
<1> QED BY <1>12, <1>17, <1>18 DEF SlotInv

LEMMA SlotsStayFit == SlotInv /\ [SlotNext]_slotVars => SlotInv'
<1> SUFFICES ASSUME SlotInv, [SlotNext]_slotVars PROVE SlotInv'  OBVIOUS
<1>1. ASSUME UNCHANGED <<money, last>> PROVE SlotInv'
  <2>1. MoneyFits /\ money \in Int /\ (last.bet > 0 => PaidItsLines)  BY DEF SlotInv
  <2>2. MoneyFits' /\ money' \in Int  BY <1>1, <2>1 DEF MoneyFits
  <2>3. last'.bet > 0 => PaidItsLines'  BY <1>1, <2>1 DEF PaidItsLines
  <2> QED BY <2>2, <2>3 DEF SlotInv
<1>2. ASSUME NEW u \in Players, spinSlots(u) PROVE SlotInv'
  <2>2. CASE UNCHANGED <<money, last>>  BY <1>1, <2>2
  <2>3. CASE ~ UNCHANGED <<money, last>>
    <3>1. PICK board \in shuffle, i \in DOMAIN Bets, j \in DOMAIN Levels, m1 \in Rand :
             Spin(board, Bets[i] * Levels[j], m1)
          BY <1>2, <2>3 DEF spinSlots
    <3>2. board \in [0 .. 9 -> 1 .. 10]  BY SlotAssumption DEF shuffle
    <3>3. Bets[i] \in Nat /\ Levels[j] \in Nat  BY DEF Bets, Levels
    <3>4. PICK bet \in Nat : bet = Bets[i] * Levels[j]  BY <3>3
    <3>5. m1 \in Nat  BY DEF Rand, BonusMulti
    <3> QED BY <3>1, <3>2, <3>4, <3>5, SpinFits
  <2> QED BY <2>2, <2>3
<1>3. ASSUME NEW u \in Players, enterSlots(u) PROVE SlotInv'  BY <1>1, <1>3 DEF enterSlots
<1>4. ASSUME NEW u \in Players, leaveSlots(u) PROVE SlotInv'  BY <1>1, <1>4 DEF leaveSlots
<1>5. CASE UNCHANGED slotVars                                 BY <1>1, <1>5 DEF slotVars
<1> QED BY <1>2, <1>3, <1>4, <1>5 DEF SlotNext

(* For every set of boards and any number of spins: what Spin adds up along the five lines, *)
(* wild elements first or last, is what the pay table says, and every spin moves the money   *)
(* of user 0 by what it paid less the bet, or not at all when UpdateMoney failed.           *)
THEOREM ASpinPaysItsLines == SlotSpec => []SpinPaysItsLines
<1>1. SlotInit => SlotInv
  <2>1. SlotInit => last.bet = 0 /\ last.paid = 0 /\ last.from = 0 /\ money = 0 /\ last.sent = FALSE
        BY DEF SlotInit, NoSpin
  <2>2. SlotInit => MoneyFits  BY <2>1 DEF MoneyFits
  <2> QED BY <2>1, <2>2 DEF SlotInv
<1>2. SlotInv => SpinPaysItsLines  BY DEF SlotInv, MoneyFits, PaidItsLines, SpinPaysItsLines
<1> QED BY <1>1, <1>2, SlotsStayFit, PTL DEF SlotSpec
=============================================================================
