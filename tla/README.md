# frbg in TLA+

TLA+ models of frbg, a small Go framework for multi-process game servers (a
reactor over epoll, RPC between servers, a business queue per server) and of
the example servers built on it, with TLC configurations that check them and
TLAPS proofs of the properties that matter most. Paths are relative to the
repository (`src/` here).

## The system

One process is a gate, a hall or a game server. Each runs one `core.Poll` and
one `local.BaseLocal`:

| part | source | state | operations |
|---|---|---|---|
| connection life cycle | `core/epoll.go`, `core/mgr_conn.go`, `core/conn.go` | epoll interest list, `connMgr.conns` (by descriptor), `connMgr.servers` (by server id), `connNum`, the sockets | accept TCP, accept websocket, dial (`GetServer`), read, write, `CheckTimeout`, `ConnTick`, `Del`, `Close` |
| RPC calls | `core/conn.go`, `core/mgr_rpc.go`, `local/input.go` | `seq`, `rpcResponses`, `rpcCallbacks`, one channel per call | `RpcWrite`, `RpcWriteAsync`, `HandleRpcResponse`, `Input.Rpc` |
| business queue | `local/base.go` | channel of 20 inputs, route table | `Push`, `Start`, `Route`, `Send`, `SendTo` |
| event queue | `util/esqueue.go`, `Poll.Trigger` | slice under a mutex | `Add`, `ForEach` |
| timers | `timer/`, `util/minheap.go` | min-heap of tasks, each with its index | `Start`, `Stop`, `Reset`, `FrameCheck` |
| codec | `codec/` | none | pack, unpack, checksum, TCP and websocket framing |
| service registry | `third/` | `serverMap`; services and their clients | get, put, delete, watch, register, stop |
| gate | `examples/gate/route` | `m_users` (uid to connection), the context of each connection | login, logout, packetIn, packetOut, Close |
| hall | `examples/hall/route` | `userGame`, the room counter | enterRoom (match four users), slots |
| game room | `examples/game/route` | rooms, users, hands, whose turn, who is waited for | start, play, reconnect, leave, continue |
| mahjong rules | `mj/` | counts of tiles, taken and given back in place | win checks, kinds of win, score |
| slots | `examples/hall/slots` | a board per player | reels, pay lines, bonus |
| evio | `evio/` | connections, loops, notes | another event loop package; nothing imports it |

How they interact. The *loop* (`LoopRun`) waits on epoll, accepts, reads, hands
RPC answers to the goroutine that waits for them and pushes every other message
to the *business goroutine* (`BaseLocal.Start`), which runs the handlers one
after the other. Handlers write on connections, dial other servers and make
RPC calls. Two tickers, `CheckTimeout` and `ConnTick`, run beside them. All
four may call `Poll.Del`, which calls the server's `Close`. Client messages go
through the gate to hall or game (packetIn) and back (packetOut). The hall asks
the game by RPC whether a user is playing, matches those who are not, and tells
the game to start a table; the game plays it.

What is hard: the goroutines share `connMgr`, `epoll` and `connNum` without a
common lock; a connection is named by its descriptor, which the kernel reuses
at once; the loop can block on the business queue while the business goroutine
waits for the loop; answers are late, or never come; `Close` of one connection
runs while a handler logs the same user in on another; hall and game agree on
rooms by messages that may be lost, and forget everything in a restart; four
players answer one discard in any order, lose their connections and come back.
`PROJECT.json` lists the hazards line by line. What makes each part correct:

- connections: the tables only hold open connections, each closed once, none
  lost, silent ones closed in the end, and the limit kept;
- RPC: every call ends once, with its own answer or an error; the loop never
  stops;
- event queue: no event lost, repeated or reordered;
- timers: index and heap agree, the earliest task fires first, Stop and Reset
  touch only their task;
- registry: the copy becomes what etcd holds;
- gate: a logged-in user is found on the connection of his last login;
- hall and game: nobody sits twice, no full table is left waiting, a reconnect
  finds its user;
- game room: a round waits for somebody who can move, hands keep their size,
  the best claim is carried out, a game is settled once, ends, and is followed
  by the next;
- mahjong, slots, codec: the algorithms agree with their definitions;
- evio: events go to open connections only.

## Modules

| module | what it is |
|---|---|
| `ConnLifecycle` | the connection life cycle |
| `ConnLifecycle_proofs` | its inductive invariants and theorems |
| `RpcCalls` | RPC, dispatch and the business queue |
| `RpcContract` | what that layer promises: the abstract specification |
| `RpcCalls_proofs` | its inductive invariants, and that it implements the contract |
| `GateClients`, `GateClients_proofs` | the gate's table of users |
| `GameRoom`, `GameRoom_proofs` | one mahjong table from deal to settlement |
| `Lobby`, `Lobby_proofs` | hall and game server together: matching, rooms, users, restarts; the proofs hold those of `Slots` too |
| `Shutdown` | the event queue, and how a process starts, closes and ends |
| `Codec` | packing, checksum and the two readers |
| `Timers` | the task heap |
| `Registry` | the two views of etcd |
| `Wire_proofs` | proofs about `Codec` and `Registry` |
| `Mj`, `Hulz`, `Hu` | tiles, and the judges with and without wild tiles |
| `Hands`, `Hands_proofs` | what a win is, and the judges asked about hands |
| `Slots` | the slot machine |
| `Evio` | the loops of evio |
| `Loops_proofs` | proofs about `Shutdown`, `Evio` and `Timers` |
| `MC_ConnLifecycle`, `MC_RpcCalls`, `MC_GateClients`, `MC_GameRoom` | constants and symmetry for TLC |
| `MC_Parts` | `Codec`, `Lobby`, `Hands`, `Timers`, `Shutdown`, `Registry`, `Slots` and `Evio` for TLC |

Operators whose comment says *Mutant* are wrong versions of the definition that
follows them. No specification uses them; each is a bug that one of the
properties must catch when it takes the place of the right one.

### ConnLifecycle

Four kinds of goroutine: `"loop"`, `"timeout"` (`CheckTimeout`), `"tick"`
(`ConnTick`) and the `Handlers`. `pc[t]` is what a goroutine does next, `cur[t]`
the connection it has in hand. A step is one system call, one atomic operation
or one critical section of `connMgr.lock`:

- accepting or dialling: socket, (websocket upgrade,) EPOLL_CTL_ADD, `AddConn`,
  `incrConnNum`, with every error path;
- `Del`: `DelEpoll` (EPOLL_CTL_DEL, which gates the rest), `DelDecr`,
  `DelUnmap` (`DelByFd`) or `DelPanic` (it returned nil), `DelClose`;
- `LoopWait` takes a batch of events; each is processed later against the
  tables as they are then;
- `TimeoutScan` collects under the lock, `TimeoutDel` deletes outside it.

Connection objects are never reused, descriptors are. `Del`, the timeout list
and a failed `Write` use `fdOf[cur[t]]`, as the code uses the number.

Abstractions: a connection object and its socket are created in one step with
EPOLL_CTL_ADD (nobody else knows the object yet); `handle.Close` and
`conn.Close` are one step (nothing else reads what differs in between); one
RLock section of `Range` is one step; `held`, the connections a handler may
still use, only grows (any handler may have kept it), and `idle` replaces the
clock: any registered connection may turn idle, any read or write ends it. The
event of the eventfd wakes the loop and changes nothing. The panic of `Del` in
a handler is recovered (`CatchEx`); elsewhere it ends the process (`crashed`).
`LoopLeakTcp` keeps the socket that `processAcceptTcp` forgets open until the
runtime finalizes it.

### RpcCalls

Calls are numbered as `seq` counts them; call k carries `k % SeqMod`, the
uint16 of the code. The loop dispatches what it reads: to a channel (`Deliver`,
which blocks when it is full), to a callback, or to the queue (`Push`, which
blocks when it is full). The business goroutine takes inputs and makes calls:
register, send or fail, wait for the channel or the timer, unregister. A peer
answers a request once, later or never (`Input.Rpc`); answers arrive in any
order, messages that answer nothing carry a number of `OtherSeqs`.

`seq.Add` and the registration are one step, since one goroutine calls. The
start of a callback's goroutine stands for its run. What a failed `Write` does
to the connection is in `ConnLifecycle`. The pool of connections does not
matter: the tables are shared by all of them.

`RpcContract` is the layer from above: a call is new, open, answered or failed
and changes once; messages come out in the order they went in; the only answers
among them are those of failed calls. `ImplementsContract` maps the tables, the
channels and the program counters to it: a call is answered when `RpcWrite` has
its own answer in hand, and the inbox is the queue plus the message being
pushed.

### GateClients

`m_users`, the contexts of the connections, the business goroutine with its
queue, and `Close` of each connection in whatever goroutine deletes it:
`CloseReads` (the context, without the lock) and `CloseDeletes` (`DelClient`).
A failed `Write` runs `Close` inside the handler, which waits (`deleting`).
`SetClient` is two steps, the table and the context, the second of which `Close`
may read too early or torn. `Close` takes out the user in the context only: a
connection that logs in as one user and then as another leaves the first one in
the table, an entry that `CloseForgets` names. `last` and `late` are history
variables; nothing reads them but the properties. A packetOut names one user; the code's loop over
several is a sequence of them. Users log in with uids they were given; the
database hands out any number of fresh ones or fails.

That a `Del` may be for the wrong connection is shown in `ConnLifecycle`; here
any open connection may be deleted at any time.

### GameRoom

One table. The business goroutine runs a handler to its end, so an action is a
handler with everything it calls: `MjOp(s, op)` is `optGame` with `MjOpSelf` or
`MjOpOther`, `DealMj`, `FaPai`, `CanOpSelf`, `doHDL` and `huPai`;
`continueGame` deals again through `MajFaPai`. A hand is the number of its
tiles: which claims a tile offers is left open within what four equal tiles
allow (`Offers`, `SelfClaims`); a gang out of the own hand needs four tiles.
What the wall offers is computed by the judges of `Hulz`, checked in `Hands`.
`DealFails` is the error path of `DealMj`, whose tile is the client's to
choose: the answer has been counted by then.

`FaPai` and `MoPai` index the wall without looking at its end, and so does the
model: past it the handler panics, `CatchEx` recovers it, and the room stays as
the handler had it by then (`Overrun`).

The environment is the client of `examples/wsclient` (`Loop`): it answers each
message that carries offers once (`told`), sends one Continue for every GameOver
and for a snapshot of a finished game (`due` counts them), may lose its
connection (`Drop`) and reconnects (`Reconnect`, with the panic on an empty
history). `settled`, `failed`, `overrun`, `gangs` and `twice` (some game was
settled twice) are history. The three chis are one operation; `BGang` is offered
nowhere in the code.

### Lobby

`enterRoom` of the hall is two actions around its RPC (`enterRoom`, then
`enterRoomAnswered` or `enterRoomFails`), while the game server goes on. `chan`
is the connection from hall to game, in order; `Send` may lose a message, since
the hall does not look at the result. `RestartHall` and `RestartGame` empty the
tables of a server, which nothing persists. `AddUser`, `DelUser` (which swaps
two users and cuts nothing) and the seats are those of `room.go`; of a game in
a room only `playing` is kept.

### Shutdown

`Trigger`, `EpollWait`, `HandleNode` and `ForEachEnds` are `Esqueue` and
`processQueueEvents`: the loop takes the whole slice, hands out its nodes
without the lock while others add, and puts the emptied slice back only if
nothing came. The timer triggers the polls of servers; `main` waits for a
signal, and closes tickers, etcd and the descriptors one after the other
(`CloseTickers` with the nil pointer of a ticker not made yet). The handling
of network events is in `ConnLifecycle`.

### Codec, Timers, Registry, Slots, Evio

`Codec`: a byte is a number below `Base`, a 16-bit field two of them, the
length is cut to it and the sum of the checksum to 32 bits before it is folded,
and a reader finds a message, needs more, or rejects. TCP is one stream of
bytes, a websocket keeps frames, the last of which may be a close frame. A frame
of a header alone is a message without a command, and one byte more panics, as
in `parser.go:68`; `Pack` never makes either. `Timers`: the heap with `shiftUp` and
`shiftDown` as the code has them (no sift up in `Drop`), places remembered by
the tasks, `FrameCheck` as the loop it is. The loops are iterations of a body
(`upBody`, `downBody`, `frameBody`) that leaves a finished state alone, as many
times as there can be rounds, so that they can be proved about; the events
themselves do not touch the timers. `Registry`: etcd is a log of changes; a
view reads it at one moment, in `etcd.go` possibly in vain, and watches from a
later one; a process uses `etcd.go` or `grpc.go`. `Slots`: a spin over any board, with the pay lines, the
bonus, the bet check, and `UpdateMoney`, which may fail before or after redis
has made the change. `Evio`: loops that wait, run their
notes and the events of a batch, `serve` that waits for the first loop to end,
handlers that return any action.

### Hulz, Hu, Hands

The judge with wild tiles (`Hulz`) counts tiles down and up again in one array
and does not always give back what it took; so each search returns the judge it
leaves behind, and the next branch starts from that. `Hu`, without wild tiles,
restores what it takes and is a predicate. In both judges `deal_kezi` and
`deal_shunzi` call each other; `Deals` is that pair of searches as a function
of the number of groups it may still take, and `Rounds` (four of every tile) is
more than any hand needs, since every group takes a tile that is held. `Hands`
draws hands of the tiles in `BanBiShanMJ` tile by tile and asks both about
every hand that has the size of a win; its reference definition, a pair and
groups of three with wild tiles standing for any tile, has no search order.

## Runs

| run | checks | bounds |
|---|---|---|
| `ConnSafety` | `TypeOK`, `RegisteredIsOpen`, `CloseHeardOnce`, `DelIsExclusive`, `NoSocketLost`, `ConnNumAccounts`, `IInv`, `ServersAreRegistered`, `OneConnPerServer` | 2 connection objects, 2 descriptors, 1 server to dial, both listeners, batches of 2; 1.4 million states |
| `ConnTimeout` | `IdleIsClosed` (liveness) | 2 objects, 1 descriptor, 1 server, no symmetry |
| `ConnStaleTimeout` | `TimeoutRemovesWhatItCollected`: violated | 2 objects, 1 descriptor |
| `ConnMaxConn` | `WsWithinMaxConn`: violated | 3 objects, 2 descriptors, limit 1 |
| `ConnUnpolled` | `RegisteredIsPolled`: violated | 2 objects, 1 descriptor |
| `RpcCalls` | `TypeOK`, `OwnResponse`, `CallbackOnce`, `DeliverFindsRoom`, `RInv`, `ImplementsContract`, `LoopGoesOn` (liveness) | 3 calls, 5 numbers, queue of 2, 4 other messages |
| `RpcWrap` | `OwnResponse`: violated | the same with 2 numbers |
| `GateClients` | `TypeOK`, `CloseForgets`, `LostOnlyByOtherClose`, `ReplacedWasKicked` | 2 users, 2 connections, queue of 2; 3.5 million states |
| `GateSqueeze` | `LoggedInIsFound`: violated | the same |
| `GameRoom` | `TypeOK`, `RoundIsWellFormed`, `HandsBalance`, `SettledOnce`, `WallLasts`, `NoMidGameRedeal`, `GameEnds`, `NextGame` (the last two liveness) | a wall of 64 tiles and three ways to play, below; 0.4 million states |
| `GameBestClaim` | `HuClaimIsPaid`: violated | 1 game, no lost connection |
| `Parts` | one property per part, below | below; 3.1 million states |

Why the bounds are enough. Two objects on one descriptor are what it takes for
a stale descriptor to name somebody else; a second descriptor lets two
connections live together; a batch of two events lets the first one change what
the second one finds. `RpcCalls` needs a late answer, a current call and a
queue that can fill while both are under way; five numbers for three calls
leave no wrap, two make the second call carry 0. `GateClients` needs two
connections of one user and a second user to tell the mappings apart. The
number of handlers is one, as in `BaseLocal.Start`.

`GameRoom`: 53 tiles are dealt and 10 kept for haidilao, so a wall of 64 leaves
one draw, and those of the gangs, before the end of the wall. The room is played
in one of three ways (`Plays`), chosen by `Init` and kept, so that each bound
grows where it matters and the state spaces add up:

- `Rounds`: two games, one lost connection, one group per game. Claims come as
  nothing, a chi, or peng, gang and win together, which is what makes two users
  compete for a tile; with one group every kind of claim is made and still the
  hands differ. Two games are what a Continue needs to meet the wrong one, one
  lost connection is enough for every reconnect.
- `Redeal`: three games; nobody or everybody may win, or has four of a kind, at
  haidilao. The third game is the one that a second Continue per client deals in
  the middle of the second. Discards are not claimed: groups change nothing about
  Continues.
- `Wall`: one game of gangs. Ten tiles are left when the last one is drawn, so
  seven gangs are what it takes to run out of the four of haidilao, and eleven,
  its bound, to run out of the gangs' own.

The last game of each is not continued.

`Parts` checks the parts that share no state in one graph: the initial state
says which part moves, the others keep still, so the state spaces add up and do
not multiply. Each module has its own small constants:

| property | part | bounds |
|---|---|---|
| `ReadsWhatWasWritten` | codec | bytes of base 2 (a 16-bit field wraps at 4), 2 messages, all payloads to 3 bytes and two that are too long |
| `OneSeatEach`, `NoFullTableWaits`, `ReconnectFindsUser` | lobby | 3 users, 2 kinds of table of 2, 2 rooms, 2 messages under way, 1 lost, 1 restart |
| `JudgesFindDecompositions`, `JudgeGivesBack` | judges | hands to 8 tiles of 7 kinds (an honour, the last tiles of two suits, the first of one, a run) and up to 2 wild ones |
| `StopsAndFiresTheRightTask` | timers | 4 tasks, one of them repeating, durations 1 and 2, clock to 2 |
| `EventsInOrder` | process | gate and server, 3 timer events |
| `ViewsFollowEtcd` | registry | 2 keys, 3 addresses, 3 changes |
| `SpinPaysItsLines` | slots | 2 spins; on every line every order of {1, 2, wild}, free and bonus elements on the first and beside it |
| `EventsGoToOpenConns` | evio | 2 loops, 2 connections on 1 descriptor, round robin |

Tables of 2 make the third user the one who waits or is matched again. Four
tasks give the heap a second level, which is where `Drop` goes wrong. Eight
tiles are a pair and two groups, so a search has to choose between orders. Two
connections on one descriptor let a wake come to the wrong one. `MC_Parts` also
evaluates the hands of `TestHulz` of `mj/hu_test.go` with the flags it expects
(`TestHulz`), and that the reels draw by their weights (`TestWeights`).

`CHECK_DEADLOCK FALSE` everywhere: connection objects, calls, messages and
games are bounded, and when they are used up the model may stop.

The violated properties, each a disagreement between code and comment:

- `ConnStaleTimeout`: "only the descriptors that need deleting are collected"
  (`core/epoll.go:495`), but the descriptor may stand for a new connection when
  `Del` comes to it.
- `ConnMaxConn`: `MaxConn` is the "maximum number of connections"
  (`core/epoll.go:37`), but TCP connections are not counted when they come and
  are when they go: on a gate every one that closes raises the limit by one.
- `ConnUnpolled`: the map is updated "thread-safely" (`core/epoll.go:350`), but
  a `Del` between EPOLL_CTL_ADD and `AddConn` leaves a connection registered
  that nobody polls and no `Del` can remove. `IdleIsClosed` is therefore stated
  for polled connections.
- `RpcWrap`: a "unique sequence number" (`core/conn.go:124`) repeats after
  65535, and the call that gets 0 is answered by the next ordinary message.
- `GateSqueeze`: the table maps "uid -> conn" (`examples/gate/route/user.go:31`),
  but the end of a squeezed-out connection deletes the newer login, the "not
  find user" of `websocket_check_plan.md:15`.
- `GameBestClaim`: "get the user with the best operation"
  (`examples/game/route/room.go:360`), but `MjOp` clears `waitMulti` (`:352`)
  before `getOpUser` looks at it (`:287`), so the last answer is carried out: a
  win that somebody claimed before another user's chi or pass is lost.

A property can hold for a reason worth knowing. `OneConnPerServer` holds
because one goroutine dials; two would race between `GetBySid` and `AddConn`.
`DeliverFindsRoom` holds because peers answer a request once; a second answer
would block the loop for good. The timer of `RpcWrite` is what breaks the
circle of `LoopGoesOn` (queue full, answer behind the message being pushed).
`NoMidGameRedeal` holds, as far as it goes, because a client sends Continue once
per GameOver; `continueGame` does not look at `playing`.

### Where the code stops being right

The models reach these states and the properties name them as their exceptions.
Two of them go against a doc or a comment, and say so:

- `codec/parser.go:15` gives a message 16 MB, and the readme (`readme.md:7`) has
  etcd discover the servers. But `Pack` cuts the length to 16 bits and sends the
  whole payload: one of 64 KiB or more over TCP is never read as it was written,
  and what follows it is read from the middle (`ReadsWhatWasWritten` says both;
  a frame of a websocket keeps its own length). And the error of the first read
  of etcd is dropped (`third/etcd.go:104`), nor does the watch start where the
  read ended: a server whose registration was missed is never found
  (`MapFollowsStore`, with `Missed`).

No comment or test says otherwise of the rest:

- `DealMj` fails (`room.go:365`) after the answer was counted: nobody is asked
  again, and the table stands still (`failed`).
- A connection lost before the first move: `Reconnect` reads the last element
  of an empty history (`room.go:142`), and the game waits for a client that was
  told nothing (`GameEnds`). A draw leaves `playing` set, so a client that
  reconnects then sends no Continue (`NextGame`).
- After haidilao with four claims, the four answers settle the game again
  (`SettledOnce`). Every client then owes two Continues; the second four of them
  deal the next game again while it is played, and so on with that one, without
  any lost connection. `NoMidGameRedeal` claims nothing after that.
- Seven gangs in one game take the tiles kept for haidilao: a draw indexes past
  the wall, and the table stands still (`WallLasts`).
- A connection that logs in as a second user leaves the first one in the gate's
  table when it closes (`CloseForgets`); packets for him are written to it.
- A lost StartGame leaves four users with a room the game lacks, for good; a
  restart of the hall hands out the same room ids again; `userGame` never
  forgets a user; after `leaveRoom` seats and places differ (`Lobby`).
- `Drop` only sifts down: after a Stop or Reset tasks may fire late. A task that
  has fired keeps place 0, and `Start` ignores it (`Timers`).
- A signal before the tickers exist ends in a nil pointer (`Shutdown`); evio
  loses the shutdown signal if a loop ends before `serve` waits (`Evio`).
- The judge with wild tiles finds no run that needs two of them, nor one whose
  first tile in hand is 38, and leaks wild tiles when there are three. It also
  takes 19, a wild tile and 21 for a run: the number between two suits is no
  tile, and `hulz.go:104` does not look (`Bridged`). `hu.go` never makes a pair
  of the lowest tile when there are just two of it (`Hands`).
- Slots: only as many levels as bets are valid; the machine is stored under the
  game's id; three to five free elements panic; place 0 is on no line. `Uid` of a
  machine is never set (`template_slots.go:65`), so every spin is charged to and
  paid to user 0, not the player; when `UpdateMoney` fails the board has changed
  and the player gets no answer (`Slots`).
- An evio loop that accepts and fails to set O_NONBLOCK leaves the descriptor
  open and ends (`evio_unix.go:292`).

### Fairness

Weak fairness only.

- `ConnTimeout`: the Go scheduler runs every goroutine that can run, so each
  finishes a `Del` or an `Add` it has begun, and the ticker keeps
  `CheckTimeout` going. Nothing makes peers send, handlers act or connections
  fall silent.
- `RpcCalls`: the loop delivers, pushes and reads the answers that have
  arrived; the business goroutine takes inputs, its writes return within their
  deadline, its timer fires and its handlers return. Nothing makes a peer
  answer or a handler call.
- `GameRoom`: the code has no timeout for players, so a game goes on only if
  they do: while clients have been told something, owe a Continue or are
  offline, one of them answers, continues or reconnects in the end, as `Loop` of
  the test client does. Nothing makes a client lose its connection.

## Proofs

Each theorem holds for every value of the constants that its module's named
assumption allows; all are checked to the last leaf.

**Connections** (`ConstantsAssumption`). `ConnLifecycle_proofs` proves
`Spec => []IInv` and from it `TypeCorrect`, `RegisteredConnectionsAreOpen`,
`ServersAreAmongConns` and `CloseIsHeardOnce`. None of these is inductive.
`RegisteredIsOpen` survives a `Del` by a stale descriptor because `DelByFd`
returns what the table holds *now*, and it survives `AddConn` because a
connection being added is open and nobody else's. `IInv` says so: connections
at the labels `Private` (upgrade, add, close) are open, unregistered and in one
goroutine's hands (`PrivateIsOpen`, `PrivateIsExclusive`); the kernel gives a
descriptor to one open socket at a time (`OneSocketPerFd`); objects being
dialled, unused and leaked ones are not registered.

`Owners` is a second invariant, for `OneDelPastEpoll` (`DelIsExclusive`) and
`SocketsAreOwned` (`NoSocketLost`). Its heart is `PolledIsLive`: the socket of
a polled descriptor, or of one that a `Del` has just taken out of epoll, is
open and registered or about to be. While it is, the kernel does not give the
descriptor out, so nobody can put it into epoll again and let a second `Del`
past the gate. `OneDiallerOneConn` proves `OneConnPerServer` for a single
handler (`Handlers = {h}`): registered or being added, at most one connection
leads to a server, because the one that dials has looked and nobody else adds.

`ConnNumIsAccountedFor` (`ConnNumAccounts`) counts. `Books` names the five sets
behind the sum, says that they are finite and balances them; each step moves
one member of one or two of them (`OneMore`, `OneLess`, from the library's
facts on finite sets), and `PolledIsLive` makes sure that what EPOLL_CTL_DEL
takes out was in.

**RPC** (`NoWrap`: fewer calls than sequence numbers, other messages carry 0;
`RpcWrap` shows why). `RpcCalls_proofs` proves `Spec => []RInv` and from it
`RpcTypes`, `ResponsesMatch`, `CallbacksRunOnce`, `DeliverNeverBlocks` and
`NoEntryLeftBehind`, for any queue length. The key part is `OneAnswer`: the
answer to a call is in one place, with the peer, on its way, in the loop's hand
or in the channel; so the channel has room and nothing is delivered twice.
`NoEntryLeftBehind` says that every entry of rpcResponses is of the call in
progress (`PendingIsCurrent`, a part of `RInv`, which the run checks).

The same module proves `RpcImplementsContract`:
`Spec => ImplementsContract`, one step of the contract or a stutter for each
action. `RInv` is not enough. An answer that finds neither channel nor callback
becomes an input, which the contract allows only for a failed call;
`CallsEndOnce` says that a synchronous call is pending exactly while its
goroutine writes or waits, and that one which returned its answer has no second
answer anywhere.

**Gate** (`GateAssumption`). `GateClients_proofs`: `GateTypes`,
`ClosedIsForgotten`, `LoginLostOnlyByOther`, `ReplacedAfterKick`, from `GInv`.
`KickOK` says that between `GetClient` and `SetClient` the entry can only be
deleted (so `SetClient` replaces no connection that was not kicked); `CloseOK`
that a `Close` under way holds the context's user unless `SetClient` came late;
`EntryOK` that a connection in the table has a user, but between `SetClient`'s
two writes. `ClosedIsForgotten` speaks of every user: what leads to a closed
connection is of one it logged in as before its last login, or came late.
`AccountsOK` that whoever is in the table has an account (so a fresh uid
overwrites nobody).

**Game room** (`RoomAssumption`). `GameRoom_proofs`: `RoundStaysWellFormed`,
`HandsStayBalanced`, `NoDoubleSettlement`, `GameIsNotRedealt`,
`HandsStayInBounds`, `WallLastsSixGangs`, for any wall and any ways to play
(`Plays`), whatever they allow. `RoomInv` ties the flags to the round: with
`waitMulti`, users other than the turn user are waited for, they may pass and
may claim no gang out of their own hand (for which `MjOpOther` has no case);
without it the turn user alone, who may play a tile. Somebody is waited for only
in a game that is not settled, or at haidilao, with an offer (`AskInv`). As long
as no connection is lost and no game is settled twice, a client owes at most one
Continue, and whoever owes one is not prepared (`RedealInv`), so four Continues
mean that the game is over.

`HandsStayInBounds` (`TypeOK`): no hand exceeds 14 tiles or goes below none, and
nobody makes a fifth group, wherever a handler panics or fails. `TableInv` adds
what that takes: a user who is waited for with a claim holds the tiles the
claim needs (`ClaimsFit`), and users are waited for only in a game in progress,
or at haidilao, where only a gang or a win is offered (`WaitInv`, `Haidilao`).
`WallLastsSixGangs` (`WallLasts`) counts: a game in progress has drawn no more
than `canHDL` lets it, and one tile for each gang.

**Hall and game** (`LobbyAssumption`). `Lobby_proofs`: `LobbyTypes`,
`UsersSitOnce`, `TablesAreFilled`, `ReconnectsFindTheirUsers`, for any users,
tables, room numbers and faults. A user is asked about once at a time and only
while the hall has no room for him (`AskingIsFree`); whom the game knows, seats
or is about to seat, the hall has given a room (`SeatedAreAssigned`), and he is
in one seat or one StartGame under way (`SeatedOnce`). That is what a restart
of the hall breaks. `AssignedWillSit` says the converse, without faults: who
has a room sits there, or his StartGame is on the way before anything sent
later; so a Reconnect never comes too early.

**Slots** (`SlotAssumption`), in the same module: `ASpinPaysItsLines`. Along a
line the code keeps an element that may be wild until another is met;
`LineWorth` proves, for every three elements, that what is left in the end is
the only element besides wild ones, if there is one and it pays, and else
nothing that pays. `SpinFits` adds up the five lines. Every spin moves the money
of user 0 by what it paid, or not at all when `UpdateMoney` fails.

**Event queue, timers, evio.** `Loops_proofs`: `EventsKeepTheirOrder` (handled
events, the batch in hand and the queue are together what was added, and
nothing is handled after an `ET_Close`). `EventsFindTheirConns`
(`EvioAssumption`): open connections have descriptors of their own
(`OwnDescriptors`), only a connection that has been opened can be in a note
(`LateNotes`), and after the shutdown no loop runs (`AllStopped`).
`TheRightTimerFires` (`TimerAssumption`): `TimersFit` says that the heap holds
the pending tasks once, each at the place it remembers, and is in order until
something is dropped. Under it lies the correctness of the heap for any size: a
task on its way up leaves the heap in order but for its own place and the one
above it (`InOrderAbove`), and rises in every round until the order is whole
(`UpStates`, `UpRound`); the same downwards; hence the top is the first that is
due (`TopIsFirst`). The proof shows that the second swap of `shiftUp` never
happens in a heap that is in order: the sibling is not earlier than the new
parent. It also shows where `Drop` goes wrong: only from the top does
`shiftDown` alone keep the order.

**Registry** (`RegistryAssumption`). `Wire_proofs`: `ServersAreFound`. The
view is what etcd held when the last delivered event happened, but for keys
whose last change was missed, between read and watch or by a read that failed
(`Missed`, `MapFollowsStore`); a client is made,
moved and closed with its service (`ClientsFollowServers`).

**Codec** (`CodecAssumption`). `Wire_proofs`: `MessagesAreRead`, for any base,
messages and payloads of any length. The frames of the websocket are `Pack` of
what is unread (`WskInv`), so that only the close frame makes its reader give up.
The stream is in step, cut at offsets where the unread messages begin (`InStep`,
`Cuts`), until a message comes that is too long for its length field; `Starts`
says that what begins with a packed message is read as that message, checksum
included. `Readable` says that a read returns no payload as long as that one,
whatever the bytes are (`TcpInv`).

**Judges** (`HandsAssumption`: the deck is made of tiles of the game).
`Hands_proofs` proves both properties of the judges for every deck and every
hand that can be drawn from it, of any size.

`JudgeGivesBackAlways`: `GivesBack(Deals[k])` says that a search leaves every
natural tile as it was, never makes wild tiles more, and leaves those too as
they were if there were at most two, or one once a count is below zero
(`Shallow`). One group more keeps that (`SearchGivesBack`), so it holds for
`Rounds` groups and, pair by pair, for `hu233`.

`JudgesFindDecompositionsAlways` has three parts, each by induction on the number
of groups. The searches go from the lowest tile upwards, the reference takes
groups in no order; `GroupedLow` is what joins them: in a hand made of groups the
lowest tile is in a triple or begins a run, and what is left is made of groups.
- `JudgeFindsOnly`, that a win found is a win: a search that succeeds has found
  tiles for its wild ones (`FindsOnly`, `Found`). The hypothesis that it cannot do
  without is `Fair`: no two tiles are held on both sides of a number that is no
  tile. The proof failed there before `Bridged` was known.
- `JudgeFindsAll`, that a win is found: with one wild tile made w, the group of
  the lowest tile is one that the search tries, whether w is in it or not
  (`LeadsOnBelow`, `LeadsOnAbove`), if 38 and 39 are not held; `TotalLess` says
  that `Rounds` is enough.
- `mjDecides`, for `hu.go`: its counts by place are the hand
  (`NewIs`, by induction on the tiles), a search from the first place left
  decides whether the hand is made of groups (`mjDealsFind`), and after a pair
  that empties the first place it fails at once (`mjPair`).

**Induction over data.** The library's induction theorems take an operator as a
parameter and cannot be used with the installed provers. Where a proof needs
induction (sums of the checksum, stores of the registry, the loops of the
heap, the depth of a search for groups), it goes through the least counterexample: `LeastNumber`, from the fact
that `<` on the naturals is well founded, gives a set of numbers its least
member. `IterateKeeps` makes of it the rule for loops: what a body keeps, round
by round, its iteration keeps; `UpTo` is the rule for the searches of the judges.

Model-checked only: the liveness properties (`IdleIsClosed`, `LoopGoesOn`,
`GameEnds`, `NextGame`), which are out of the prover's reach, and the violated
ones. Every other property of a passing run is a theorem.

## Not modelled

- What the loop does to connections while its poll is being closed: `Shutdown`
  keeps the connections out, `ConnLifecycle` does not close.
- The route table, which is filled before there is traffic; `packetIn` and
  `echo`, which keep no state; `getGameList` and `getRoomList`.
- `evio_std.go` (another build), evio's address parsing, and connections that
  are detached, which are their user's.
- Redis, mysql and mongo wrappers, but for `UpdateMoney`: no control of their
  own. `codec/encrypt.go`, `SkipWaiting`, `wait.go`, `clearRoom`: no caller.
- The login sequence and the heartbeat of the test client, the web page, the
  benchmark, generated protobuf code, logging.
- Data races on single words (`activeTime`, `serverMap`, the map in the log
  line of `RpcWrite`); the one on a connection's context is modelled.

## Plan

Left to do, in this order:

1. an abstract specification of the lobby (a user is in one room or none, the
   same on both sides), and the theorem that `Lobby` without faults implements
   it;
2. the judge with wild tiles on hands with two of them: which wins it misses,
   as a theorem;
3. the loop and the tickers beside a closing poll, in `ConnLifecycle`;
4. larger instances: tables of three in `Lobby`, two groups per game in
   `GameRoom`, hands of eleven tiles.
