---------------------------- MODULE ConnLifecycle ----------------------------
(***************************************************************************)
(* The life of a connection in core/epoll.go, core/mgr_conn.go and         *)
(* core/conn.go: accept or dial, registration with epoll and with connMgr, *)
(* reads, writes, heartbeats, the idle timeout, and Del.                   *)
(*                                                                         *)
(* Four kinds of goroutine share the tables: LoopRun (events and accepts), *)
(* CheckTimeout, ConnTick, and the business handlers of BaseLocal.Start.   *)
(* A step of the model is what a goroutine does between two points where   *)
(* another one can observe it: one system call, one atomic operation or    *)
(* one critical section of connMgr.lock.                                   *)
(*                                                                         *)
(* A connection object is a member of Conns and never comes back; a file   *)
(* descriptor is a member of Fds and is handed out again by the kernel as  *)
(* soon as it is closed.  Del, the timeout list and conn.Write name a      *)
(* connection by its descriptor only: cur[t] remembers which connection    *)
(* the goroutine had in mind, but the actions use fdOf[cur[t]] wherever    *)
(* the code has only the number.                                           *)
(***************************************************************************)
EXTENDS Integers, FiniteSets

CONSTANTS
  Conns,      \* connection objects that may ever be created
  Fds,        \* descriptors the kernel may give to connections
  Svids,      \* ids of the other servers this process may dial
  Handlers,   \* business goroutines, each inside BaseLocal.CatchEx
  MaxConn,    \* PollConfig.MaxConn
  MaxEvents,  \* events one EpollWait may return: len(Poll.events)
  Listeners,  \* the listening sockets: {"tcp"}, or {"tcp", "ws"} on a gate
  NoConn, NoFd, NoSvid

ASSUME ConstantsAssumption ==
  /\ NoConn \notin Conns
  /\ NoFd \notin Fds
  /\ NoSvid \notin Svids
  /\ MaxConn \in Nat
  /\ MaxEvents \in Nat \ {0}
  /\ Listeners \subseteq {"tcp", "ws"}
  /\ Listeners \cap Fds = {}
  /\ {"loop", "timeout", "tick"} \cap Handlers = {}

Threads == {"loop", "timeout", "tick"} \cup Handlers

VARIABLES
  sock,      \* state of the socket of each connection object
  fdOf,      \* Conn.fd, NoFd while there is no socket
  kind,      \* how the connection came to be; "leaked" after a failed ADD
  svid,      \* Conn.svid, NoSvid for 0
  idle,      \* now - activeTime > HeartBeat
  epoll,     \* descriptors in the interest list of epollFd
  conns,     \* ConnMgr.conns
  servers,   \* ConnMgr.servers
  connNum,   \* Poll.connNum
  called,    \* connections handed to Handler.Close so far
  held,      \* connections the business code has: from Push or GetServer
  batch,     \* events of the last EpollWait still to be processed
  expired,   \* CheckTimeout: connections whose descriptor is in timeoutFds
  beats,     \* ConnTick: the rest of its snapshot of connMgr.servers
  pc, cur,   \* what each goroutine does next, and on which connection
  crashed    \* a goroutine without recover() panicked: the process is gone

tables == <<epoll, conns, servers, connNum, called>>
objects == <<sock, fdOf, kind, svid, idle>>
queues == <<held, batch, expired, beats>>
vars == <<objects, tables, queues, pc, cur, crashed>>

Labels == {"run", "upgrade", "dial", "add", "incr", "read",
           "decr", "unmap", "close"}

Open(c) == sock[c] = "open"
Known == {c \in Conns : sock[c] # "new"}
FdFree(fd) == \A c \in Conns : fdOf[c] = fd => ~Open(c)
Registered(c) == c \in Known /\ conns[fdOf[c]] = c

ObjectsOK ==
  /\ sock \in [Conns -> {"new", "open", "closed"}]
  /\ fdOf \in [Conns -> Fds \cup {NoFd}]
  /\ \A c \in Known : fdOf[c] \in Fds
  /\ kind \in [Conns -> {"none", "tcp", "ws", "out", "leaked"}]
  /\ svid \in [Conns -> Svids \cup {NoSvid}]
  /\ idle \in [Conns -> BOOLEAN]

TablesOK ==
  /\ epoll \subseteq Fds
  /\ conns \in [Fds -> Conns \cup {NoConn}]
  /\ servers \in [Svids -> Conns \cup {NoConn}]
  /\ connNum \in Int
  /\ called \subseteq Conns

QueuesOK ==
  /\ held \subseteq Known
  /\ batch \subseteq Fds \cup Listeners
  /\ expired \subseteq Known
  /\ beats \subseteq Known

ControlOK ==
  /\ pc \in [Threads -> Labels]
  /\ cur \in [Threads -> Conns \cup {NoConn}]
  /\ \A t \in Threads : pc[t] \notin {"run", "dial"} => cur[t] \in Known
  /\ \A t \in Threads : pc[t] = "dial" => cur[t] \in Conns /\ svid[cur[t]] \in Svids
  /\ crashed \in BOOLEAN

\* The type invariant: descriptors, connection objects and what each goroutine
\* holds stay within what the code can have at that point.
TypeOK == ObjectsOK /\ TablesOK /\ QueuesOK /\ ControlOK

Init ==
  /\ sock = [c \in Conns |-> "new"]
  /\ fdOf = [c \in Conns |-> NoFd]
  /\ kind = [c \in Conns |-> "none"]
  /\ svid = [c \in Conns |-> NoSvid]
  /\ idle = [c \in Conns |-> FALSE]
  /\ epoll = {}
  /\ conns = [fd \in Fds |-> NoConn]
  /\ servers = [s \in Svids |-> NoConn]
  /\ connNum = 0
  /\ called = {}
  /\ held = {}
  /\ batch = {}
  /\ expired = {}
  /\ beats = {}
  /\ pc = [t \in Threads |-> "run"]
  /\ cur = [t \in Threads |-> NoConn]
  /\ crashed = FALSE
-----------------------------------------------------------------------------
(***************************************************************************)
(* Steps of one goroutine.  Goto moves thread t; Socket gives connection c *)
(* a socket on a descriptor the kernel has free.                           *)
(***************************************************************************)
At(t, label) == ~crashed /\ pc[t] = label

Goto(t, label) == pc' = [pc EXCEPT ![t] = label]

Begin(t, label, c) ==
  /\ Goto(t, label)
  /\ cur' = [cur EXCEPT ![t] = c]

Socket(c, fd) ==
  /\ FdFree(fd)
  /\ sock' = [sock EXCEPT ![c] = "open"]
  /\ fdOf' = [fdOf EXCEPT ![c] = fd]
  /\ UNCHANGED idle               \* activeTime: time.Now(); fresh objects are not idle

Accept(c, fd, k) ==
  /\ kind[c] = "none"
  /\ kind' = [kind EXCEPT ![c] = k]
  /\ Socket(c, fd)
  /\ UNCHANGED svid

(***************************************************************************)
(* Adding a connection: epoll first, connMgr second, the counter last, and *)
(* the counter only for websocket and dialled connections.                 *)
(***************************************************************************)

\* connMgr.AddConn; processAcceptTcp is done after it.
AddConn(t) ==
  /\ At(t, "add")
  /\ conns' = [conns EXCEPT ![fdOf[cur[t]]] = cur[t]]
  /\ servers' = IF svid[cur[t]] = NoSvid THEN servers
                ELSE [servers EXCEPT ![svid[cur[t]]] = cur[t]]
  /\ Goto(t, IF kind[cur[t]] = "tcp" THEN "run" ELSE "incr")
  /\ UNCHANGED <<objects, epoll, connNum, called, queues, cur, crashed>>

\* p.incrConnNum; GetServer gives a dialled connection to its caller
\* (OnConnect is empty in BaseLocal).
IncrConnNum(t) ==
  /\ At(t, "incr")
  /\ connNum' = connNum + 1
  /\ held' = IF kind[cur[t]] = "out" THEN held \cup {cur[t]} ELSE held
  /\ Goto(t, "run")
  /\ UNCHANGED <<objects, epoll, conns, servers, called, batch, expired, beats,
                 cur, crashed>>

(***************************************************************************)
(* Poll.Del(c.fd), called by every goroutine.  EPOLL_CTL_DEL fails when    *)
(* the descriptor is not in the interest list, and Del returns; for one    *)
(* registration it succeeds once.                                          *)
(***************************************************************************)

\* Mutants: Del goes on though EPOLL_CTL_DEL failed; Del counts first.
DelEpollUngated(t, c) ==
  /\ epoll' = epoll \ {fdOf[c]}
  /\ Begin(t, "decr", c)
  /\ UNCHANGED <<objects, conns, servers, connNum, called, crashed>>

DelEpollCountsFirst(t, c) ==
  /\ epoll' = epoll \ {fdOf[c]}
  /\ connNum' = connNum - 1
  /\ Begin(t, IF fdOf[c] \in epoll THEN "unmap" ELSE "run", c)
  /\ UNCHANGED <<objects, conns, servers, called, crashed>>

DelEpoll(t, c) ==
  /\ epoll' = epoll \ {fdOf[c]}
  /\ Begin(t, IF fdOf[c] \in epoll THEN "decr" ELSE "run", c)
  /\ UNCHANGED <<objects, conns, servers, connNum, called, crashed>>

\* Mutant: the socket is closed before connMgr forgets the connection.
DelDecrCloses(t) ==
  /\ At(t, "decr")
  /\ connNum' = connNum - 1
  /\ sock' = [sock EXCEPT ![cur[t]] = "closed"]
  /\ Goto(t, "unmap")
  /\ UNCHANGED <<fdOf, kind, svid, idle, epoll, conns, servers, called, queues, cur,
                 crashed>>

DelDecr(t) ==
  /\ At(t, "decr")
  /\ connNum' = connNum - 1
  /\ Goto(t, "unmap")
  /\ UNCHANGED <<objects, epoll, conns, servers, called, queues, cur, crashed>>

\* Mutants: DelByFd leaves conns, or servers, as it was; Del closes the
\* connection its caller meant.
DelUnmapKeepsConn(t) ==
  /\ At(t, "unmap")
  /\ conns[fdOf[cur[t]]] # NoConn
  /\ Begin(t, "close", conns[fdOf[cur[t]]])
  /\ UNCHANGED <<objects, tables, queues, crashed>>

DelUnmapKeepsServer(t) ==
  /\ At(t, "unmap")
  /\ LET fd == fdOf[cur[t]]
     IN  /\ conns[fd] # NoConn
         /\ conns' = [conns EXCEPT ![fd] = NoConn]
         /\ Begin(t, "close", conns[fd])
  /\ UNCHANGED <<objects, epoll, servers, connNum, called, queues, crashed>>

DelUnmapClosesCur(t) ==
  /\ At(t, "unmap")
  /\ LET fd == fdOf[cur[t]]
         c == conns[fd]
     IN  /\ c # NoConn
         /\ conns' = [conns EXCEPT ![fd] = NoConn]
         /\ servers' = IF svid[c] = NoSvid THEN servers
                       ELSE [servers EXCEPT ![svid[c]] = NoConn]
         /\ Begin(t, "close", cur[t])
  /\ UNCHANGED <<objects, epoll, connNum, called, queues, crashed>>

\* connMgr.DelByFd finds whatever the descriptor now stands for.
DelUnmap(t) ==
  /\ At(t, "unmap")
  /\ LET fd == fdOf[cur[t]]
         c == conns[fd]
     IN  /\ c # NoConn
         /\ conns' = [conns EXCEPT ![fd] = NoConn]
         /\ servers' = IF svid[c] = NoSvid THEN servers
                       ELSE [servers EXCEPT ![svid[c]] = NoConn]
         /\ Begin(t, "close", c)
  /\ UNCHANGED <<objects, epoll, connNum, called, queues, crashed>>

\* DelByFd returned nil and conn.String() panics: CatchEx recovers in a
\* handler, nothing does in the other goroutines.
DelPanic(t) ==
  /\ At(t, "unmap")
  /\ conns[fdOf[cur[t]]] = NoConn
  /\ crashed' = (t \notin Handlers)
  /\ Goto(t, "run")
  /\ UNCHANGED <<objects, tables, queues, cur>>

\* Mutant: closing resets the descriptor of the object.
DelCloseForgetsFd(t) ==
  /\ At(t, "close")
  /\ called' = called \cup {cur[t]}
  /\ sock' = [sock EXCEPT ![cur[t]] = "closed"]
  /\ fdOf' = [fdOf EXCEPT ![cur[t]] = NoFd]
  /\ epoll' = epoll \ {fdOf[cur[t]]}
  /\ Goto(t, "run")
  /\ UNCHANGED <<kind, svid, idle, conns, servers, connNum, queues, cur, crashed>>

\* p.handle.Close(conn), then conn.Close(); the kernel drops a closed
\* descriptor from every epoll list.
DelClose(t) ==
  /\ At(t, "close")
  /\ called' = called \cup {cur[t]}
  /\ sock' = [sock EXCEPT ![cur[t]] = "closed"]
  /\ epoll' = epoll \ {fdOf[cur[t]]}
  /\ Goto(t, "run")
  /\ UNCHANGED <<fdOf, kind, svid, idle, conns, servers, connNum, queues, cur,
                 crashed>>
-----------------------------------------------------------------------------
(***************************************************************************)
(* LoopRun.  A batch holds the descriptors and listeners EpollWait found   *)
(* ready; by the time an event is processed its descriptor may be gone or  *)
(* stand for another connection.                                           *)
(***************************************************************************)
LoopWait ==
  /\ At("loop", "run")
  /\ batch = {}
  /\ batch' \in SUBSET (epoll \cup Listeners)
  /\ Cardinality(batch') \in 1 .. MaxEvents
  /\ UNCHANGED <<objects, tables, held, expired, beats, pc, cur, crashed>>

Event(e) ==
  /\ At("loop", "run")
  /\ e \in batch
  /\ batch' = batch \ {e}

\* AcceptTCP failed, or the websocket limit, upgrade or checks made the loop
\* close the socket before anything else could see it.
LoopAcceptFails(l) ==
  /\ Event(l)
  /\ l \in Listeners
  /\ UNCHANGED <<objects, tables, held, expired, beats, pc, cur, crashed>>

\* processAcceptTcp up to EPOLL_CTL_ADD: no limit is looked at.
LoopAcceptTcp(c, fd) ==
  /\ Event("tcp")
  /\ Accept(c, fd, "tcp")
  /\ epoll' = epoll \cup {fd}
  /\ Begin("loop", "add", c)
  /\ UNCHANGED <<conns, servers, connNum, called, held, expired, beats, crashed>>

\* EPOLL_CTL_ADD failed: processAcceptTcp returns without closing the socket,
\* which stays open until the runtime finalizes it.
LoopLeakTcp(c, fd) ==
  /\ Event("tcp")
  /\ Accept(c, fd, "leaked")
  /\ UNCHANGED <<tables, held, expired, beats, pc, cur, crashed>>

\* processAcceptWebSocket up to the limit check; upgrader.Upgrade then talks
\* to the peer.
LoopAcceptWs(c, fd) ==
  /\ Event("ws")
  /\ connNum < MaxConn
  /\ Accept(c, fd, "ws")
  /\ Begin("loop", "upgrade", c)
  /\ UNCHANGED <<tables, held, expired, beats, crashed>>

LoopUpgraded ==
  /\ At("loop", "upgrade")
  /\ conns[fdOf[cur["loop"]]] = NoConn
  /\ epoll' = epoll \cup {fdOf[cur["loop"]]}
  /\ Goto("loop", "add")
  /\ UNCHANGED <<objects, conns, servers, connNum, called, queues, cur, crashed>>

\* Mutant: the error path forgets rawConn.Close().
LoopUpgradeFailsOpen ==
  /\ At("loop", "upgrade")
  /\ Goto("loop", "run")
  /\ UNCHANGED <<objects, tables, queues, cur, crashed>>

\* The upgrade, SetNonblock or EPOLL_CTL_ADD failed, or connMgr already has
\* the descriptor.
LoopUpgradeFails ==
  /\ At("loop", "upgrade")
  /\ sock' = [sock EXCEPT ![cur["loop"]] = "closed"]
  /\ Goto("loop", "run")
  /\ UNCHANGED <<fdOf, kind, svid, idle, tables, queues, cur, crashed>>

\* processNetworkEvent on a client descriptor.
LoopEvent(fd) ==
  /\ Event(fd)
  /\ fd \in Fds
  /\ IF conns[fd] = NoConn THEN UNCHANGED <<pc, cur>>     \* "unknown fd"
     ELSE Begin("loop", "read", conns[fd])
  /\ UNCHANGED <<objects, tables, held, expired, beats, crashed>>

\* processClientData: a message arrived.  A heartbeat or an RPC answer ends
\* here; any other message is pushed to the handlers with its connection.
LoopReadOk ==
  /\ At("loop", "read")
  /\ Open(cur["loop"])
  /\ idle' = [idle EXCEPT ![cur["loop"]] = FALSE]
  /\ held' \in {held, held \cup {cur["loop"]}}
  /\ Goto("loop", "run")
  /\ UNCHANGED <<sock, fdOf, kind, svid, tables, batch, expired, beats, cur, crashed>>

\* The peer hung up, sent garbage or nothing before the deadline, or another
\* goroutine has closed the connection: p.Del(conn.Fd()).
LoopReadErr ==
  /\ At("loop", "read")
  /\ DelEpoll("loop", cur["loop"])
  /\ UNCHANGED queues
-----------------------------------------------------------------------------
(***************************************************************************)
(* CheckTimeout: one tick collects descriptors under the read lock, then   *)
(* deletes them one by one outside it.                                     *)
(***************************************************************************)

\* Mutant: the comparison with HeartBeat is the wrong way round.
TimeoutScanInverted ==
  /\ At("timeout", "run")
  /\ expired = {}
  /\ expired' = {c \in Conns : Registered(c) /\ ~idle[c]}
  /\ UNCHANGED <<objects, tables, held, batch, beats, pc, cur, crashed>>

TimeoutScan ==
  /\ At("timeout", "run")
  /\ expired = {}
  /\ expired' = {c \in Conns : Registered(c) /\ idle[c]}
  /\ UNCHANGED <<objects, tables, held, batch, beats, pc, cur, crashed>>

TimeoutDel(c) ==
  /\ At("timeout", "run")
  /\ c \in expired
  /\ expired' = expired \ {c}
  /\ DelEpoll("timeout", c)
  /\ UNCHANGED <<held, batch, beats>>

(***************************************************************************)
(* Conn.Write, from ConnTick and from the handlers.  It fails when the     *)
(* connection is broken, too slow, or closed already: c.poll.Del(c.Fd()).  *)
(***************************************************************************)
WriteOk(c) ==
  /\ Open(c)
  /\ idle' = [idle EXCEPT ![c] = FALSE]
  /\ UNCHANGED <<sock, fdOf, kind, svid, tables, pc, cur, crashed>>

Write(t, c) == WriteOk(c) \/ DelEpoll(t, c)

(***************************************************************************)
(* ConnTick: a heartbeat on every connection of a snapshot of servers.     *)
(***************************************************************************)
TickSnapshot ==
  /\ At("tick", "run")
  /\ beats = {}
  /\ beats' = {servers[s] : s \in Svids} \ {NoConn}
  /\ UNCHANGED <<objects, tables, held, batch, expired, pc, cur, crashed>>

TickWrite(c) ==
  /\ At("tick", "run")
  /\ c \in beats
  /\ beats' = beats \ {c}
  /\ Write("tick", c)
  /\ UNCHANGED <<held, batch, expired>>

(***************************************************************************)
(* Handlers: a reply on a connection Push brought, or a message to another *)
(* server through GetServer.                                               *)
(***************************************************************************)
HandlerWrite(h, c) ==
  /\ At(h, "run")
  /\ c \in held
  /\ Write(h, c)
  /\ UNCHANGED queues

\* GetServer finds the server in connMgr.
HandlerFound(h, s) ==
  /\ At(h, "run")
  /\ servers[s] # NoConn
  /\ held' = held \cup {servers[s]}
  /\ UNCHANGED <<objects, tables, batch, expired, beats, pc, cur, crashed>>

\* Mutant: GetServer dials without looking.
HandlerMissBlind(h, s, c) ==
  /\ At(h, "run")
  /\ kind[c] = "none"
  /\ kind' = [kind EXCEPT ![c] = "out"]
  /\ svid' = [svid EXCEPT ![c] = s]
  /\ Begin(h, "dial", c)
  /\ UNCHANGED <<sock, fdOf, idle, tables, queues, crashed>>

\* GetServer finds nothing; before it dials, another goroutine may dial too.
HandlerMiss(h, s, c) ==
  /\ At(h, "run")
  /\ servers[s] = NoConn
  /\ kind[c] = "none"
  /\ kind' = [kind EXCEPT ![c] = "out"]
  /\ svid' = [svid EXCEPT ![c] = s]
  /\ Begin(h, "dial", c)
  /\ UNCHANGED <<sock, fdOf, idle, tables, queues, crashed>>

\* third.Get and Connect up to EPOLL_CTL_ADD.
HandlerDial(h, fd) ==
  /\ At(h, "dial")
  /\ Socket(cur[h], fd)
  /\ epoll' = epoll \cup {fd}
  /\ Goto(h, "add")
  /\ UNCHANGED <<kind, svid, conns, servers, connNum, called, queues, cur, crashed>>

\* No address in etcd, no connection, or EPOLL_CTL_ADD failed.
HandlerDialFails(h) ==
  /\ At(h, "dial")
  /\ Goto(h, "run")
  /\ UNCHANGED <<objects, tables, queues, cur, crashed>>

\* Environment: a connection has been silent for longer than HeartBeat.  Only
\* CheckTimeout looks at this, and only for registered connections.
GoIdle(c) ==
  /\ ~crashed
  /\ Registered(c) /\ ~idle[c]
  /\ idle' = [idle EXCEPT ![c] = TRUE]
  /\ UNCHANGED <<sock, fdOf, kind, svid, tables, queues, pc, cur, crashed>>

\* Environment: the runtime finalizes a socket the program lost.
Finalize(c) ==
  /\ ~crashed
  /\ kind[c] = "leaked" /\ Open(c)
  /\ sock' = [sock EXCEPT ![c] = "closed"]
  /\ UNCHANGED <<fdOf, kind, svid, idle, tables, queues, pc, cur, crashed>>
-----------------------------------------------------------------------------
Del(t) == DelDecr(t) \/ DelUnmap(t) \/ DelPanic(t) \/ DelClose(t)
Add(t) == AddConn(t) \/ IncrConnNum(t)

LoopRun ==
  \/ LoopWait \/ LoopUpgraded \/ LoopUpgradeFails \/ LoopReadOk \/ LoopReadErr
  \/ \E e \in batch : LoopAcceptFails(e) \/ LoopEvent(e)
  \/ \E c \in Conns, fd \in Fds :
       LoopAcceptTcp(c, fd) \/ LoopLeakTcp(c, fd) \/ LoopAcceptWs(c, fd)

CheckTimeout == TimeoutScan \/ \E c \in expired : TimeoutDel(c)

ConnTick == TickSnapshot \/ \E c \in beats : TickWrite(c)

Handler(h) ==
  \/ HandlerDialFails(h)
  \/ \E c \in held : HandlerWrite(h, c)
  \/ \E s \in Svids : HandlerFound(h, s) \/ \E c \in Conns : HandlerMiss(h, s, c)
  \/ \E fd \in Fds : HandlerDial(h, fd)

Next ==
  \/ \E t \in Threads : Del(t) \/ Add(t)
  \/ LoopRun \/ CheckTimeout \/ ConnTick
  \/ \E h \in Handlers : Handler(h)
  \/ \E c \in Conns : GoIdle(c) \/ Finalize(c)

Spec == Init /\ [][Next]_vars

(***************************************************************************)
(* The Go scheduler runs every goroutine that can run, and the tickers of  *)
(* CheckTimeout keep firing; nothing makes peers send, applications act or *)
(* connections fall silent.                                                *)
(***************************************************************************)
Fairness ==
  /\ \A t \in Threads : WF_vars(Del(t)) /\ WF_vars(Add(t))
  /\ WF_vars(CheckTimeout)

FairSpec == Spec /\ Fairness
-----------------------------------------------------------------------------
(***************************************************************************)
(* Properties.                                                             *)
(***************************************************************************)

\* What connMgr.conns maps a descriptor to is a live connection on that very
\* descriptor: GetByFd never hands the loop an object whose socket was closed,
\* and the "fd already exists" check of processAcceptWebSocket never fires.
RegisteredIsOpen ==
  \A fd \in Fds : conns[fd] # NoConn => Open(conns[fd]) /\ fdOf[conns[fd]] = fd

\* connMgr.servers only ever points at registered connections dialled to that
\* server, although AddConn and DelByFd update the two maps by different keys.
ServersAreRegistered ==
  \A s \in Svids : servers[s] # NoConn => Registered(servers[s]) /\ svid[servers[s]] = s

\* With one business goroutine, GetServer never builds a second connection to
\* a server while the first is registered: servers and conns agree both ways.
OneConnPerServer ==
  \A c \in Conns : Registered(c) /\ svid[c] # NoSvid => servers[svid[c]] = c

\* Handler.Close hears of a connection once, however many goroutines call Del
\* for its descriptor, and never of one that is still registered.
CloseHeardOnce ==
  /\ \A t \in Threads : pc[t] = "close" => cur[t] \notin called
  /\ \A c \in called : ~Registered(c)

\* Only one goroutine is past the EPOLL_CTL_DEL of Del for a descriptor.
DelIsExclusive ==
  \A t, u \in Threads :
    /\ {pc[t], pc[u]} \subseteq {"decr", "unmap"}
    /\ fdOf[cur[t]] = fdOf[cur[u]]
    => t = u

\* A socket the process has open is registered, in the hands of the goroutine
\* that is adding or removing it, or was lost by the TCP accept error path.
NoSocketLost ==
  \A c \in Conns : Open(c) =>
    \/ Registered(c)
    \/ kind[c] = "leaked"
    \/ \E t \in Threads : cur[t] = c /\ pc[t] \in {"upgrade", "add", "close"}

\* connNum follows the epoll list exactly, except that every TCP connection
\* ever accepted lowers it by one for good once it is deleted.
ConnNumAccounts ==
  LET Count(label) == Cardinality({t \in Threads : pc[t] = label})
      uncounted == {t \in Threads : pc[t] = "add" /\ kind[cur[t]] # "tcp"}
      tcp == {c \in Conns : kind[c] = "tcp"}
  IN  connNum = Cardinality(epoll) + Count("decr") - Count("incr")
                  - Cardinality(uncounted) - Cardinality(tcp)

\* A polled connection that falls silent is closed, unless it speaks again or
\* the process dies.
IdleIsClosed ==
  \A c \in Conns :
    (Registered(c) /\ fdOf[c] \in epoll /\ idle[c])
      ~> (sock[c] = "closed" \/ ~idle[c] \/ crashed)

\* CheckTimeout's comment says it collects the descriptors "to be deleted":
\* what it then removes is a connection it collected.
TimeoutRemovesWhatItCollected ==
  [][pc["timeout"] = "unmap" /\ pc'["timeout"] = "close"
       => cur'["timeout"] = cur["timeout"]]_vars

\* PollConfig.MaxConn is commented "maximum number of connections": the
\* polled websocket connections stay within it.
WsWithinMaxConn ==
  Cardinality({c \in Conns : Registered(c) /\ fdOf[c] \in epoll /\ kind[c] = "ws"})
    <= MaxConn

\* processAcceptTcp updates the connection map "thread-safely": a registered
\* connection is polled, or a Del of it is under way.
RegisteredIsPolled ==
  \A c \in Conns : Registered(c) =>
    \/ fdOf[c] \in epoll
    \/ crashed
    \/ \E t \in Threads : pc[t] \in {"decr", "unmap"} /\ fdOf[cur[t]] = fdOf[c]
-----------------------------------------------------------------------------
(***************************************************************************)
(* The inductive invariant behind RegisteredIsOpen, ServersAreRegistered   *)
(* and CloseHeardOnce.                                                     *)
(***************************************************************************)

\* A connection at these labels is the goroutine's own.
Private == {"upgrade", "add", "close"}

\* The kernel never has two open sockets on one descriptor.
OneSocketPerFd ==
  \A c, d \in Conns : Open(c) /\ Open(d) /\ fdOf[c] = fdOf[d] => c = d

\* A connection a goroutine is adding or has taken out of connMgr is open,
\* unregistered, and came in by a path that keeps it.
PrivateIsOpen ==
  \A t \in Threads : pc[t] \in Private =>
    Open(cur[t]) /\ ~Registered(cur[t]) /\ kind[cur[t]] \notin {"none", "leaked"}

\* No two goroutines add or close the same connection object.
PrivateIsExclusive ==
  \A t, u \in Threads :
    pc[t] \in Private /\ pc[u] \in Private /\ cur[t] = cur[u] => t = u

\* A connection object of Connect is its goroutine's alone until it has a socket.
DialledIsNew ==
  /\ \A t \in Threads : pc[t] = "dial" => sock[cur[t]] = "new" /\ kind[cur[t]] = "out"
  /\ \A t, u \in Threads : pc[t] = "dial" /\ pc[u] = "dial" /\ cur[t] = cur[u] => t = u

\* Objects nobody created, connections the handler heard the last of, and
\* sockets the accept path lost, are not registered.
UnusedIsNew == \A c \in Conns : kind[c] = "none" => sock[c] = "new"
CalledIsClosed == \A c \in called : sock[c] = "closed"
LeakedIsUnregistered == \A c \in Conns : kind[c] = "leaked" => ~Registered(c)

\* Inductive: adding and removing connections, by any number of goroutines and
\* by stale descriptors, keeps the tables, the sockets and the program counters
\* in agreement.
IInv ==
  /\ TypeOK
  /\ OneSocketPerFd
  /\ RegisteredIsOpen
  /\ ServersAreRegistered
  /\ PrivateIsOpen
  /\ PrivateIsExclusive
  /\ DialledIsNew
  /\ UnusedIsNew
  /\ CalledIsClosed
  /\ LeakedIsUnregistered
=============================================================================
