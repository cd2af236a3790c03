-------------------------------- MODULE Lobby --------------------------------
(***************************************************************************)
(* How users get to a table: the hall (examples/hall/route/route.go), the  *)
(* routes of the game server (examples/game/route/route.go) and the part   *)
(* of a room they keep (NewRoom, AddUser, DelUser of room.go), with the    *)
(* connection from the hall to the game between them.                      *)
(*                                                                         *)
(* Each server runs its handlers one at a time.  enterRoom is two actions  *)
(* because the hall waits in RpcCall for the answer to GameStatus while    *)
(* the game goes on.  A message of the hall may be lost: the result of     *)
(* Send is not looked at.  Both servers keep their tables in memory only,  *)
(* and a restart empties them.                                             *)
(***************************************************************************)
EXTENDS Integers, Sequences, FiniteSets, SequencesExt

CONSTANTS
    Users, Multis,
    TableSize,              \* 4 in the code
    ListRoom,               \* the room id of the room list that clients put into EnterRoomReq
    NoUser,
    MaxRooms,               \* bound: tables the hall hands out
    MaxChan,                \* bound: messages under way
    MaxLost, MaxRestarts    \* bounds: lost messages, restarts of the two servers

ASSUME LobbyAssumption ==
    /\ IsFiniteSet(Users) /\ NoUser \notin Users /\ Multis # {}
    /\ TableSize \in Nat \ {0} /\ ListRoom \in Nat \ {0}
    /\ MaxRooms \in Nat /\ MaxChan \in Nat /\ MaxLost \in Nat /\ MaxRestarts \in Nat

RoomIds == 1 .. MaxRooms

VARIABLES
    userGame,      \* hall: uid -> [multi, room], a partial function; room 0 while matching
    incRoomId,     \* hall: the last room id handed out
    asking,        \* hall: the user and multi whose GameStatus call is open
    chan,          \* messages from the hall to the game, in order
    answer,        \* GameStatusRsp on its way: a room id, -1 when there is none
    rooms,         \* game: room id -> [users, playing], a partial function
    users,         \* game: uid -> room id, a partial function
    lost, hallRestarts, gameRestarts, left     \* counters; left: a user has left a room

hall   == <<userGame, incRoomId, asking>>
game   == <<rooms, users>>
faults == <<lost, hallRestarts, gameRestarts>>
lobbyVars   == <<hall, chan, answer, game, faults, left>>

Nobody == [uid |-> NoUser, multi |-> CHOOSE m \in Multis : TRUE]
Without(f, x) == [y \in DOMAIN f \ {x} |-> f[y]]
With(f, x, v) == [y \in DOMAIN f \cup {x} |-> IF y = x THEN v ELSE f[y]]

LobbyInit ==
    /\ userGame = <<>> /\ incRoomId = 0 /\ asking = Nobody
    /\ chan = <<>> /\ answer = -1
    /\ rooms = <<>> /\ users = <<>>
    /\ lost = 0 /\ hallRestarts = 0 /\ gameRestarts = 0 /\ left = FALSE

(* The messages of the hall. *)
StatusReq(u)   == [type |-> "GameStatus", uid |-> u]
ReconnReq(u, r) == [type |-> "Reconnect", uid |-> u, room |-> r]
StartReq(r, us) == [type |-> "StartGame", room |-> r, users |-> us]

Send(msg) ==
    \/ chan' = Append(chan, msg) /\ lost' = lost
    \/ lost < MaxLost /\ lost' = lost + 1 /\ chan' = chan

-----------------------------------------------------------------------------
(* enterRoom, up to the call.  A user with a room is sent back to it. *)
enterRoom(u, m) ==
    /\ asking = Nobody /\ Len(chan) < MaxChan
    /\ IF u \in DOMAIN userGame /\ userGame[u].room > 0
         THEN Send(ReconnReq(u, userGame[u].room)) /\ UNCHANGED asking
         ELSE /\ chan' = Append(chan, StatusReq(u)) /\ asking' = [uid |-> u, multi |-> m]
              /\ UNCHANGED lost
    /\ UNCHANGED <<userGame, incRoomId, answer, game, hallRestarts, gameRestarts, left>>

(* The game says that the user plays in room r.  A new entry gets the room id of the       *)
(* request, and the Reconnect carries none, so the game ignores it.  (The new entry has no  *)
(* multi, which nobody reads of a user who has a room.)                                    *)
FoundPlaying(u, m, r) ==
    /\ userGame' = With(userGame, u, IF u \in DOMAIN userGame
                                       THEN [userGame[u] EXCEPT !.room = r]
                                       ELSE [multi |-> m, room |-> ListRoom])
    /\ Send(ReconnReq(u, 0))
    /\ UNCHANGED incRoomId

(* Mutant: users who have a table are matched again. *)
WaitersAll(u, m) == {v \in DOMAIN userGame \ {u} : userGame[v].multi = m}

(* Whoever waits for the same kind of table; the iteration over the map picks any of them. *)
Waiters(u, m) ==
    {v \in DOMAIN userGame \ {u} : userGame[v].multi = m /\ userGame[v].room = 0}

(* u waits for company, or a full table is given the next room id and its entries `room`. *)
MatchWhen(full, room, u, m) ==
    IF ~full
      THEN /\ userGame' = With(userGame, u, [multi |-> m, room |-> 0])
           /\ UNCHANGED <<incRoomId, chan, lost>>
      ELSE /\ incRoomId < MaxRooms /\ incRoomId' = incRoomId + 1
           /\ \E vs \in SUBSET Waiters(u, m) :
                LET table == vs \cup {u} IN
                /\ Cardinality(table) = TableSize
                /\ userGame' = [v \in DOMAIN userGame \cup {u} |->
                                   IF v \in table THEN [multi |-> m, room |-> room]
                                   ELSE userGame[v]]
                /\ Send(StartReq(incRoomId', table))

(* Mutant: a table needs one user more. *)
MatchLate(u, m) == MatchWhen(Cardinality(Waiters(u, m)) >= TableSize, incRoomId + 1, u, m)

(* Mutant: the entries get the room id before it is counted up. *)
MatchOldId(u, m) == MatchWhen(Cardinality(Waiters(u, m)) + 1 >= TableSize, incRoomId, u, m)

Match(u, m) == MatchWhen(Cardinality(Waiters(u, m)) + 1 >= TableSize, incRoomId + 1, u, m)

(* enterRoom, after the call. *)
enterRoomAnswered ==
    /\ asking # Nobody /\ answer >= 0
    /\ asking' = Nobody /\ answer' = -1
    /\ IF answer > 0 THEN FoundPlaying(asking.uid, asking.multi, answer)
                     ELSE Match(asking.uid, asking.multi)
    /\ UNCHANGED <<game, hallRestarts, gameRestarts, left>>

(* RpcCall fails or times out; a late answer finds nobody (module RpcCalls).  One call is   *)
(* open at a time.                                                                         *)
Forget ==
    IF \E i \in DOMAIN chan : chan[i].type = "GameStatus"
      THEN RemoveAt(chan, CHOOSE i \in DOMAIN chan : chan[i].type = "GameStatus")
      ELSE chan

enterRoomFails ==
    /\ asking # Nobody /\ asking' = Nobody
    /\ answer' = -1 /\ chan' = Forget
    /\ UNCHANGED <<userGame, incRoomId, game, faults, left>>

RestartHall ==
    /\ hallRestarts + gameRestarts < MaxRestarts /\ hallRestarts' = hallRestarts + 1
    /\ userGame' = <<>> /\ incRoomId' = 0 /\ asking' = Nobody
    /\ answer' = -1 /\ chan' = Forget
    /\ UNCHANGED <<game, lost, gameRestarts, left>>

-----------------------------------------------------------------------------
(* The game takes the messages of the hall in order. *)
Take(type) == chan # <<>> /\ Head(chan).type = type /\ chan' = Tail(chan)

getGameStatus ==
    /\ Take("GameStatus")
    /\ LET u == Head(chan).uid IN
       answer' = IF u \in DOMAIN users /\ rooms[users[u]].playing THEN users[u] ELSE 0
    /\ UNCHANGED <<hall, game, faults, left>>

(* AddUser appends whoever comes and gives him the next seat; the map of the request has no *)
(* order.                                                                                  *)
AddUsers(users1, us) ==
    LET n == Cardinality(us)
        orders == {o \in [1 .. n -> us] : \A i, j \in 1 .. n : o[i] = o[j] => i = j}
    IN  {users1 \o [i \in 1 .. n |-> [uid |-> o[i], seat |-> Len(users1) + i - 1]] : o \in orders}

(* startGame: the users are added to the room, which is made if there is none, and dealt to. *)
startGame ==
    /\ Take("StartGame")
    /\ LET r  == Head(chan).room
           us == Head(chan).users
       IN  /\ \E s \in AddUsers(IF r \in DOMAIN rooms THEN rooms[r].users ELSE <<>>, us) :
                  rooms' = With(rooms, r, [users |-> s, playing |-> TRUE])
           /\ users' = [u \in DOMAIN users \cup us |-> IF u \in us THEN r ELSE users[u]]
    /\ UNCHANGED <<hall, answer, faults, left>>

(* reconnect sends a snapshot or nothing: no state of the lobby changes. *)
reconnect ==
    /\ Take("Reconnect")
    /\ UNCHANGED <<hall, answer, game, faults, left>>

Playing(r, b) ==
    /\ r \in DOMAIN rooms
    /\ rooms' = [rooms EXCEPT ![r].playing = b]
    /\ UNCHANGED <<hall, chan, answer, users, faults, left>>

(* A win ends the game of a room (a draw leaves playing set); Continues start the next one. *)
huPai(r)        == Playing(r, FALSE)
continueGame(r) == Playing(r, TRUE)

(* DelUser swaps the user with the last one and does not cut the slice. *)
DelUser(s, u) ==
    IF \E i \in DOMAIN s : s[i].uid = u
      THEN LET i == CHOOSE k \in DOMAIN s : s[k].uid = u /\ \A j \in 1 .. k - 1 : s[j].uid # u
           IN  [s EXCEPT ![i] = s[Len(s)], ![Len(s)] = s[i]]
      ELSE s

leaveRoom(u, r) ==
    /\ r \in DOMAIN rooms /\ ~rooms[r].playing
    /\ rooms' = [rooms EXCEPT ![r].users = DelUser(@, u)]
    /\ users' = Without(users, u)
    /\ left' = TRUE
    /\ UNCHANGED <<hall, chan, answer, faults>>

RestartGame ==
    /\ hallRestarts + gameRestarts < MaxRestarts /\ gameRestarts' = gameRestarts + 1
    /\ rooms' = <<>> /\ users' = <<>>
    /\ chan' = <<>> /\ answer' = -1
    /\ UNCHANGED <<hall, lost, hallRestarts, left>>

LobbyNext ==
    \/ \E u \in Users, m \in Multis : enterRoom(u, m)
    \/ enterRoomAnswered \/ enterRoomFails \/ RestartHall
    \/ getGameStatus \/ startGame \/ reconnect \/ RestartGame
    \/ \E r \in RoomIds : huPai(r) \/ continueGame(r) \/ \E u \in Users : leaveRoom(u, r)

LobbySpec == LobbyInit /\ [][LobbyNext]_lobbyVars

-----------------------------------------------------------------------------
(* Properties *)

SeatsOf(r, u) == {i \in DOMAIN rooms[r].users : rooms[r].users[i].uid = u}
Occurrences(u) == {at \in RoomIds \X (1 .. 2 * Cardinality(Users)) :
                      at[1] \in DOMAIN rooms /\ at[2] \in SeatsOf(at[1], u)}

(* No user sits twice, at one table or at two, however answers are late, messages are lost *)
(* and the game restarts: the hall never seats a user it has given a room.  Only a restart *)
(* of the hall, which hands out the room ids from 1 again, breaks it.  A user the game      *)
(* knows is in a room it has, and until somebody leaves (DelUser swaps two places) the seat *)
(* he is told is his place in Users, which the room deals and turns by.                    *)
OneSeatEach ==
    /\ hallRestarts = 0 => \A u \in Users : Cardinality(Occurrences(u)) <= 1
    /\ \A u \in DOMAIN users : users[u] \in DOMAIN rooms
    /\ ~left => \A r \in DOMAIN rooms : \A i \in DOMAIN rooms[r].users : rooms[r].users[i].seat = i - 1

(* enterRoom leaves no full table waiting: of the users that want the same kind of table   *)
(* fewer than a table are without a room, whatever calls failed in between.                *)
NoFullTableWaits ==
    \A m \in Multis : Cardinality({u \in DOMAIN userGame : userGame[u] = [multi |-> m, room |-> 0]}) < TableSize

(* Nothing lost and nothing restarted, the Reconnect that the hall sends instead of a match *)
(* finds its user in that room, or comes behind the StartGame that puts him there.          *)
ReconnectFindsUser ==
    hallRestarts + gameRestarts + lost = 0 =>
        \A i \in DOMAIN chan : chan[i].type = "Reconnect" /\ chan[i].room > 0 =>
            \/ chan[i].room \in DOMAIN rooms /\ SeatsOf(chan[i].room, chan[i].uid) # {}
            \/ \E j \in 1 .. i - 1 : /\ chan[j].type = "StartGame" /\ chan[j].room = chan[i].room
                                     /\ chan[i].uid \in chan[j].users
=============================================================================
