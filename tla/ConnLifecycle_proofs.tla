------------------------ MODULE ConnLifecycle_proofs ------------------------
(***************************************************************************)
(* Proofs about ConnLifecycle, for every set of connections, descriptors,  *)
(* servers and business goroutines.                                        *)
(***************************************************************************)
EXTENDS ConnLifecycle, FiniteSetTheorems, TLAPS

LEMMA InitIInv == Init => IInv
<1> SUFFICES ASSUME Init PROVE IInv
  OBVIOUS
<1> USE ConstantsAssumption DEF Init
<1>1. TypeOK
  <2>1. ObjectsOK
    BY DEF ObjectsOK, Known
  <2>2. TablesOK
    BY DEF TablesOK
  <2>3. QueuesOK
    BY DEF QueuesOK
  <2>4. ControlOK
    BY DEF ControlOK, Labels
  <2>5. QED
    BY <2>1, <2>2, <2>3, <2>4 DEF TypeOK
<1>2. OneSocketPerFd /\ RegisteredIsOpen /\ ServersAreRegistered
  BY DEF OneSocketPerFd, RegisteredIsOpen, ServersAreRegistered, Open
<1>3. PrivateIsOpen /\ PrivateIsExclusive /\ DialledIsNew
  BY DEF PrivateIsOpen, PrivateIsExclusive, DialledIsNew, Private
<1>4. UnusedIsNew /\ CalledIsClosed /\ LeakedIsUnregistered
  BY DEF UnusedIsNew, CalledIsClosed, LeakedIsUnregistered, Registered
<1>5. QED
  BY <1>1, <1>2, <1>3, <1>4 DEF IInv

(***************************************************************************)
(* Types.  The four parts of TypeOK are treated one at a time: most steps  *)
(* leave most of them alone.                                               *)
(***************************************************************************)
LEMMA ObjectsStep ==
  ASSUME TypeOK, [Next]_vars
  PROVE  ObjectsOK' /\ Known \subseteq Known'
<1> USE ConstantsAssumption DEF TypeOK, ObjectsOK, Known, Open
<1>1. CASE UNCHANGED objects
  BY <1>1 DEF objects
<1>2. ASSUME NEW c \in Conns, NEW fd \in Fds, Socket(c, fd), UNCHANGED <<kind, svid>>
      PROVE  ObjectsOK' /\ Known \subseteq Known'
  BY <1>2 DEF Socket
<1>3. ASSUME NEW c \in Conns, NEW fd \in Fds,
             NEW k \in {"tcp", "ws", "leaked"}, Accept(c, fd, k)
      PROVE  ObjectsOK' /\ Known \subseteq Known'
  BY <1>3 DEF Accept, Socket
<1>4. ASSUME NEW c \in Known, sock' = [sock EXCEPT ![c] = "closed"],
             UNCHANGED <<fdOf, kind, svid, idle>>
      PROVE  ObjectsOK' /\ Known \subseteq Known'
  BY <1>4
<1>5. ASSUME NEW c \in Conns, NEW b \in BOOLEAN, idle' = [idle EXCEPT ![c] = b],
             UNCHANGED <<sock, fdOf, kind, svid>>
      PROVE  ObjectsOK' /\ Known \subseteq Known'
  BY <1>5
<1>6. ASSUME NEW c \in Conns, NEW s \in Svids, NEW k \in {"out"},
             kind' = [kind EXCEPT ![c] = k], svid' = [svid EXCEPT ![c] = s],
             UNCHANGED <<sock, fdOf, idle>>
      PROVE  ObjectsOK' /\ Known \subseteq Known'
  BY <1>6
<1>7. ASSUME NEW t \in Threads, Del(t) \/ Add(t)
      PROVE  ObjectsOK' /\ Known \subseteq Known'
  <2>1. CASE DelClose(t)
    <3>1. cur[t] \in Known
      BY <2>1 DEF DelClose, At, ControlOK
    <3>2. QED
      BY <2>1, <3>1, <1>4 DEF DelClose
  <2>2. QED
    BY <1>1, <1>7, <2>1 DEF Del, Add, DelDecr, DelUnmap, DelPanic, AddConn, IncrConnNum
<1>8. CASE LoopRun
  <2>1. CASE LoopUpgradeFails
    <3>1. cur["loop"] \in Known
      BY <2>1 DEF LoopUpgradeFails, At, ControlOK, Threads
    <3>2. QED
      BY <2>1, <3>1, <1>4 DEF LoopUpgradeFails
  <2>2. CASE LoopReadOk
    <3>1. cur["loop"] \in Conns
      BY <2>2 DEF LoopReadOk, At, ControlOK, Threads
    <3>2. QED
      BY <2>2, <3>1, <1>5 DEF LoopReadOk
  <2>3. ASSUME NEW c \in Conns, NEW fd \in Fds,
               LoopAcceptTcp(c, fd) \/ LoopLeakTcp(c, fd) \/ LoopAcceptWs(c, fd)
        PROVE  ObjectsOK' /\ Known \subseteq Known'
    BY <2>3, <1>3 DEF LoopAcceptTcp, LoopLeakTcp, LoopAcceptWs
  <2>4. CASE LoopWait \/ LoopUpgraded \/ LoopReadErr
              \/ \E e \in batch : LoopAcceptFails(e) \/ LoopEvent(e)
    BY <2>4, <1>1 DEF LoopWait, LoopUpgraded, LoopReadErr, LoopAcceptFails, LoopEvent, DelEpoll
  <2>5. QED
    BY <1>8, <2>1, <2>2, <2>3, <2>4 DEF LoopRun
<1>9. ASSUME NEW t \in Threads, NEW c \in Known, Write(t, c)
      PROVE  ObjectsOK' /\ Known \subseteq Known'
  BY <1>9, <1>1, <1>5 DEF Write, WriteOk, DelEpoll
<1>10. CASE CheckTimeout \/ ConnTick
  BY <1>10, <1>1, <1>9 DEF CheckTimeout, ConnTick, TimeoutScan, TimeoutDel, DelEpoll,
       TickSnapshot, TickWrite, QueuesOK, Threads
<1>11. ASSUME NEW h \in Handlers, Handler(h)
       PROVE  ObjectsOK' /\ Known \subseteq Known'
  <2>1. ASSUME NEW fd \in Fds, HandlerDial(h, fd)
        PROVE  ObjectsOK' /\ Known \subseteq Known'
    <3>1. cur[h] \in Conns
      BY <2>1 DEF HandlerDial, At, ControlOK, Threads
    <3>2. QED
      BY <2>1, <3>1, <1>2 DEF HandlerDial
  <2>2. ASSUME NEW s \in Svids, NEW c \in Conns, HandlerMiss(h, s, c)
        PROVE  ObjectsOK' /\ Known \subseteq Known'
    BY <2>2, <1>6 DEF HandlerMiss
  <2>3. ASSUME NEW c \in held, HandlerWrite(h, c)
        PROVE  ObjectsOK' /\ Known \subseteq Known'
    BY <2>3, <1>9 DEF HandlerWrite, QueuesOK, Threads
  <2>4. QED
    BY <1>11, <1>1, <2>1, <2>2, <2>3 DEF Handler, HandlerDialFails, HandlerFound
<1>12. ASSUME NEW c \in Conns, GoIdle(c) \/ Finalize(c)
       PROVE  ObjectsOK' /\ Known \subseteq Known'
  BY <1>12, <1>4, <1>5 DEF GoIdle, Finalize
<1>13. CASE UNCHANGED vars
  BY <1>1, <1>13 DEF vars
<1>14. QED
  BY <1>7, <1>8, <1>10, <1>11, <1>12, <1>13 DEF Next

LEMMA TablesStep ==
  ASSUME TypeOK, [Next]_vars
  PROVE  TablesOK'
<1> USE ConstantsAssumption DEF TypeOK, TablesOK
<1>1. CASE UNCHANGED tables
  BY <1>1 DEF tables
<1>2. ASSUME NEW t \in Threads, AddConn(t)
      PROVE  TablesOK'
  BY <1>2 DEF AddConn, At, ControlOK, ObjectsOK, Known
<1>3. ASSUME NEW t \in Threads, IncrConnNum(t) \/ DelDecr(t)
      PROVE  TablesOK'
  BY <1>3 DEF IncrConnNum, DelDecr
<1>4. ASSUME NEW t \in Threads, NEW c \in Known, DelEpoll(t, c)
      PROVE  TablesOK'
  BY <1>4 DEF DelEpoll
<1>5. ASSUME NEW t \in Threads, DelUnmap(t) \/ DelClose(t)
      PROVE  TablesOK'
  BY <1>5 DEF DelUnmap, DelClose, At, ControlOK, ObjectsOK, Known
<1>6. ASSUME NEW t \in Threads, Del(t) \/ Add(t)
      PROVE  TablesOK'
  BY <1>6, <1>1, <1>2, <1>3, <1>5 DEF Del, Add, DelPanic
<1>7. CASE LoopRun
  <2>1. ASSUME NEW fd \in Fds, epoll' = epoll \cup {fd},
               UNCHANGED <<conns, servers, connNum, called>>
        PROVE  TablesOK'
    BY <2>1
  <2>2. CASE LoopUpgraded
    BY <2>1, <2>2 DEF LoopUpgraded, At, ControlOK, ObjectsOK, Threads
  <2>3. CASE LoopReadErr
    BY <2>3, <1>4 DEF LoopReadErr, At, ControlOK, Threads
  <2>4. QED
    BY <1>7, <1>1, <2>1, <2>2, <2>3 DEF LoopRun, LoopWait, LoopUpgradeFails, LoopReadOk,
         LoopAcceptFails, LoopEvent, LoopAcceptTcp, LoopLeakTcp, LoopAcceptWs
<1>8. ASSUME NEW t \in Threads, NEW c \in Known, Write(t, c)
      PROVE  TablesOK'
  BY <1>8, <1>1, <1>4 DEF Write, WriteOk
<1>9. CASE CheckTimeout \/ ConnTick
  BY <1>9, <1>1, <1>4, <1>8 DEF CheckTimeout, ConnTick, TimeoutScan, TimeoutDel,
       TickSnapshot, TickWrite, QueuesOK, Threads
<1>10. ASSUME NEW h \in Handlers, Handler(h)
       PROVE  TablesOK'
  BY <1>10, <1>1, <1>8 DEF Handler, HandlerDialFails, HandlerFound, HandlerMiss,
       HandlerDial, HandlerWrite, QueuesOK, Threads
<1>11. ASSUME NEW c \in Conns, GoIdle(c) \/ Finalize(c)
       PROVE  TablesOK'
  BY <1>11, <1>1 DEF GoIdle, Finalize
<1>12. CASE UNCHANGED vars
  BY <1>1, <1>12 DEF vars
<1>13. QED
  BY <1>6, <1>7, <1>9, <1>10, <1>11, <1>12 DEF Next

\* A connection in a map of connMgr has a socket (the maps' own types do not
\* say so, RegisteredIsOpen and ServersAreRegistered do).
LEMMA QueuesStep ==
  ASSUME TypeOK, RegisteredIsOpen, ServersAreRegistered, [Next]_vars
  PROVE  QueuesOK'
<1> USE ConstantsAssumption DEF TypeOK, QueuesOK
<1>0. Known \subseteq Known'
  BY ObjectsStep
<1>1. CASE UNCHANGED queues
  BY <1>0, <1>1 DEF queues
<1>2. ASSUME NEW c \in Known, held' \in {held, held \cup {c}},
             batch' \subseteq batch, UNCHANGED <<expired, beats>>
      PROVE  QueuesOK'
  BY <1>0, <1>2
<1>3. ASSUME UNCHANGED <<held, batch>>,
             expired' \subseteq expired \/ expired' \subseteq Known,
             beats' \subseteq beats \/ beats' \subseteq Known
      PROVE  QueuesOK'
  BY <1>0, <1>3
<1>4. ASSUME NEW t \in Threads, Del(t) \/ Add(t)
      PROVE  QueuesOK'
  <2>1. CASE IncrConnNum(t)
    BY <2>1, <1>2 DEF IncrConnNum, At, ControlOK
  <2>2. QED
    BY <1>4, <1>1, <2>1 DEF Del, Add, DelDecr, DelUnmap, DelPanic, DelClose, AddConn
<1>5. CASE LoopRun
  <2>1. CASE LoopWait
    BY <1>0, <2>1 DEF LoopWait, TablesOK
  <2>2. CASE LoopReadOk
    BY <1>2, <2>2 DEF LoopReadOk, At, ControlOK, Threads
  <2>3. CASE LoopUpgraded \/ LoopUpgradeFails \/ LoopReadErr
    BY <1>1, <2>3 DEF LoopUpgraded, LoopUpgradeFails, LoopReadErr
  <2>4. ASSUME NEW e, Event(e), UNCHANGED <<held, expired, beats>>
        PROVE  QueuesOK'
    BY <1>0, <2>4 DEF Event
  <2>5. QED
    BY <1>5, <2>1, <2>2, <2>3, <2>4 DEF LoopRun, LoopAcceptFails, LoopEvent,
         LoopAcceptTcp, LoopLeakTcp, LoopAcceptWs
<1>6. CASE CheckTimeout
  BY <1>6, <1>3 DEF CheckTimeout, TimeoutScan, TimeoutDel, Registered
<1>7. CASE ConnTick
  <2>1. CASE TickSnapshot
    <3>1. {servers[s] : s \in Svids} \ {NoConn} \subseteq Known
      BY DEF TablesOK, ServersAreRegistered, Registered
    <3>2. QED
      BY <2>1, <3>1, <1>3 DEF TickSnapshot
  <2>2. QED
    BY <1>7, <2>1, <1>3 DEF ConnTick, TickWrite
<1>8. ASSUME NEW h \in Handlers, Handler(h)
      PROVE  QueuesOK'
  <2>1. ASSUME NEW s \in Svids, HandlerFound(h, s)
        PROVE  QueuesOK'
    BY <2>1, <1>2 DEF HandlerFound, TablesOK, ServersAreRegistered, Registered
  <2>2. QED
    BY <1>8, <1>1, <2>1 DEF Handler, HandlerDialFails, HandlerMiss, HandlerDial, HandlerWrite
<1>9. ASSUME NEW c \in Conns, GoIdle(c) \/ Finalize(c)
      PROVE  QueuesOK'
  BY <1>9, <1>1 DEF GoIdle, Finalize
<1>10. CASE UNCHANGED vars
  BY <1>1, <1>10 DEF vars
<1>11. QED
  BY <1>4, <1>5, <1>6, <1>7, <1>8, <1>9, <1>10 DEF Next

LEMMA ControlStep ==
  ASSUME TypeOK, RegisteredIsOpen, ServersAreRegistered, [Next]_vars
  PROVE  ControlOK'
<1> USE ConstantsAssumption DEF TypeOK
<1>0. Known \subseteq Known'
  BY ObjectsStep
<1>1. CASE UNCHANGED <<svid, pc, cur, crashed>>
  BY <1>0, <1>1 DEF ControlOK
<1>2. ASSUME NEW t \in Threads, NEW label \in Labels \ {"dial"}, Goto(t, label),
             label = "run" \/ cur[t] \in Known, crashed' \in BOOLEAN,
             UNCHANGED <<svid, cur>>
      PROVE  ControlOK'
  BY <1>0, <1>2 DEF ControlOK, Goto
<1>3. ASSUME NEW t \in Threads, NEW label \in Labels \ {"dial"},
             NEW c \in Conns, Begin(t, label, c),
             label = "run" \/ c \in Known', UNCHANGED <<svid, crashed>>
      PROVE  ControlOK'
  BY <1>0, <1>3 DEF ControlOK, Begin, Goto
<1>4. ASSUME NEW t \in Threads, NEW c \in Known, DelEpoll(t, c)
      PROVE  ControlOK'
  BY <1>0, <1>3, <1>4 DEF DelEpoll, Labels, Known, objects
<1>5. ASSUME NEW t \in Threads, Del(t) \/ Add(t)
      PROVE  ControlOK'
  <2>1. CASE DelUnmap(t)
    <3>1. PICK fd \in Fds : fd = fdOf[cur[t]] /\ conns[fd] # NoConn
                            /\ Begin(t, "close", conns[fd])
      BY <2>1 DEF DelUnmap, At, ControlOK, ObjectsOK
    <3>2. conns[fd] \in Known
      BY <3>1 DEF RegisteredIsOpen, Open, Known, TablesOK
    <3>3. QED
      BY <1>0, <1>3, <2>1, <3>1, <3>2 DEF DelUnmap, Labels, objects, Known
  <2>2. CASE DelPanic(t)
    BY <2>2, <1>2 DEF DelPanic, objects, Labels
  <2>3. CASE DelDecr(t) \/ DelClose(t) \/ AddConn(t) \/ IncrConnNum(t)
    <3>1. cur[t] \in Known
      BY <2>3 DEF DelDecr, DelClose, AddConn, IncrConnNum, At, ControlOK
    <3>2. crashed' \in BOOLEAN
      BY <2>3 DEF DelDecr, DelClose, AddConn, IncrConnNum, ControlOK
    <3>3. QED
      BY <1>2, <2>3, <3>1, <3>2 DEF DelDecr, DelClose, AddConn, IncrConnNum, objects, Labels
  <2>4. QED
    BY <1>5, <2>1, <2>2, <2>3 DEF Del, Add
<1>6. CASE LoopRun
  <2>0. "loop" \in Threads
    BY DEF Threads
  <2>1. CASE LoopUpgraded \/ LoopUpgradeFails \/ LoopReadOk
    <3>1. cur["loop"] \in Known
      BY <2>0, <2>1 DEF LoopUpgraded, LoopUpgradeFails, LoopReadOk, At, ControlOK
    <3>2. crashed' \in BOOLEAN
      BY <2>1 DEF LoopUpgraded, LoopUpgradeFails, LoopReadOk, ControlOK
    <3>3. QED
      BY <1>2, <2>0, <2>1, <3>1, <3>2 DEF LoopUpgraded, LoopUpgradeFails, LoopReadOk, objects, Labels
  <2>2. CASE LoopReadErr
    BY <1>4, <2>0, <2>2 DEF LoopReadErr, At, ControlOK
  <2>3. CASE LoopWait
    BY <1>1, <2>3 DEF LoopWait, objects
  <2>4. ASSUME NEW e \in batch, LoopAcceptFails(e)
        PROVE  ControlOK'
    BY <1>1, <2>4 DEF LoopAcceptFails, objects
  <2>5. ASSUME NEW fd \in batch, LoopEvent(fd)
        PROVE  ControlOK'
    <3>1. CASE conns[fd] = NoConn
      BY <1>1, <2>5, <3>1 DEF LoopEvent, objects
    <3>2. CASE conns[fd] # NoConn
      <4>1. conns[fd] \in Known
        BY <2>5, <3>2 DEF LoopEvent, RegisteredIsOpen, Open, Known, TablesOK
      <4>2. QED
        BY <1>0, <1>3, <2>0, <2>5, <3>2, <4>1 DEF LoopEvent, objects, Labels, Known
    <3>3. QED
      BY <3>1, <3>2
  <2>6. ASSUME NEW c \in Conns, NEW fd \in Fds,
               LoopAcceptTcp(c, fd) \/ LoopLeakTcp(c, fd) \/ LoopAcceptWs(c, fd)
        PROVE  ControlOK'
    <3>1. CASE LoopLeakTcp(c, fd)
      BY <1>1, <3>1 DEF LoopLeakTcp, Accept
    <3>2. CASE LoopAcceptTcp(c, fd) \/ LoopAcceptWs(c, fd)
      <4>1. sock' = [sock EXCEPT ![c] = "open"] /\ UNCHANGED <<svid, crashed>>
        BY <3>2 DEF LoopAcceptTcp, LoopAcceptWs, Accept, Socket
      <4>2. c \in Known'
        BY <4>1 DEF Known, ObjectsOK
      <4>3. QED
        BY <1>3, <2>0, <3>2, <4>1, <4>2 DEF LoopAcceptTcp, LoopAcceptWs, Labels
    <3>3. QED
      BY <2>6, <3>1, <3>2
  <2>7. QED
    BY <1>6, <2>1, <2>2, <2>3, <2>4, <2>5, <2>6 DEF LoopRun
<1>7. ASSUME NEW t \in Threads, NEW c \in Known, Write(t, c)
      PROVE  ControlOK'
  BY <1>7, <1>1, <1>4 DEF Write, WriteOk
<1>8. CASE CheckTimeout \/ ConnTick
  BY <1>8, <1>1, <1>4, <1>7 DEF CheckTimeout, ConnTick, TimeoutScan, TimeoutDel,
       TickSnapshot, TickWrite, QueuesOK, Threads, objects
<1>9. ASSUME NEW h \in Handlers, Handler(h)
      PROVE  ControlOK'
  <2>0. h \in Threads
    BY DEF Threads
  <2>1. CASE HandlerDialFails(h)
    BY <1>2, <2>0, <2>1 DEF HandlerDialFails, objects, Labels, ControlOK
  <2>2. ASSUME NEW c \in held, HandlerWrite(h, c)
        PROVE  ControlOK'
    BY <1>7, <2>0, <2>2 DEF HandlerWrite, QueuesOK
  <2>3. ASSUME NEW s \in Svids, HandlerFound(h, s)
        PROVE  ControlOK'
    BY <1>1, <2>3 DEF HandlerFound, objects
  <2>4. ASSUME NEW s \in Svids, NEW c \in Conns, HandlerMiss(h, s, c)
        PROVE  ControlOK'
    BY <1>0, <2>0, <2>4 DEF HandlerMiss, Begin, Goto, ControlOK, Labels, ObjectsOK
  <2>5. ASSUME NEW fd \in Fds, HandlerDial(h, fd)
        PROVE  ControlOK'
    <3>1. cur[h] \in Conns
      BY <2>0, <2>5 DEF HandlerDial, At, ControlOK
    <3>2. sock' = [sock EXCEPT ![cur[h]] = "open"]
      BY <2>5 DEF HandlerDial, Socket
    <3>3. cur[h] \in Known'
      BY <3>1, <3>2 DEF Known, ObjectsOK
    <3>4. cur' = [cur EXCEPT ![h] = cur[h]]
      BY <2>5 DEF HandlerDial, ControlOK
    <3>5. QED
      BY <1>3, <2>0, <2>5, <3>1, <3>3, <3>4 DEF HandlerDial, Begin, Labels
  <2>6. QED
    BY <1>9, <2>1, <2>2, <2>3, <2>4, <2>5 DEF Handler
<1>10. ASSUME NEW c \in Conns, GoIdle(c) \/ Finalize(c)
       PROVE  ControlOK'
  BY <1>10, <1>1 DEF GoIdle, Finalize
<1>11. CASE UNCHANGED vars
  BY <1>1, <1>11 DEF vars, objects
<1>12. QED
  BY <1>5, <1>6, <1>8, <1>9, <1>10, <1>11 DEF Next

LEMMA TypeStep ==
  ASSUME TypeOK, RegisteredIsOpen, ServersAreRegistered, [Next]_vars
  PROVE  TypeOK'
  BY ObjectsStep, TablesStep, QueuesStep, ControlStep DEF TypeOK

(***************************************************************************)
(* The rest of the invariant.  Quiet covers the steps that neither touch   *)
(* the sockets and maps nor take a connection; Opened and Closed cover the *)
(* steps that create and close a socket.                                   *)
(***************************************************************************)
Shape ==
  /\ OneSocketPerFd
  /\ RegisteredIsOpen
  /\ ServersAreRegistered
  /\ PrivateIsOpen
  /\ PrivateIsExclusive
  /\ DialledIsNew
  /\ UnusedIsNew
  /\ CalledIsClosed
  /\ LeakedIsUnregistered

Keeps(u) ==
  /\ pc'[u] \in Private => pc[u] \in Private /\ cur'[u] = cur[u]
  /\ pc'[u] = "dial" => pc[u] = "dial" /\ cur'[u] = cur[u]

LEMMA Quiet ==
  ASSUME IInv, UNCHANGED <<sock, fdOf, kind, svid, conns, servers, called>>,
         \A u \in Threads : Keeps(u)
  PROVE  Shape'
<1> USE DEF IInv, Keeps
<1>1. OneSocketPerFd' /\ RegisteredIsOpen' /\ ServersAreRegistered'
  BY DEF OneSocketPerFd, RegisteredIsOpen, ServersAreRegistered, Registered, Known, Open
<1>2. UnusedIsNew' /\ CalledIsClosed' /\ LeakedIsUnregistered'
  BY DEF UnusedIsNew, CalledIsClosed, LeakedIsUnregistered, Registered, Known
<1>3. PrivateIsOpen' /\ PrivateIsExclusive' /\ DialledIsNew'
  BY DEF PrivateIsOpen, PrivateIsExclusive, DialledIsNew, Registered, Known, Open
<1>4. QED
  BY <1>1, <1>2, <1>3 DEF Shape

\* Goroutine t, or nobody, closes c, which is not registered; t drops it.
LEMMA Closed ==
  ASSUME IInv, NEW c \in Known, ~Registered(c),
         sock' = [sock EXCEPT ![c] = "closed"],
         called' \in {called, called \cup {c}}, kind[c] # "none",
         UNCHANGED <<fdOf, kind, svid, conns, servers>>,
         \A u \in Threads : Keeps(u),
         \A u \in Threads : pc'[u] \in Private => cur[u] # c,
         \A u \in Threads : pc[u] = "dial" => cur[u] # c
  PROVE  Shape'
<1> USE DEF IInv, TypeOK, ObjectsOK, TablesOK, Keeps
<1>1. \A d \in Conns : sock'[d] = IF d = c THEN "closed" ELSE sock[d]
  OBVIOUS
<1>2. \A d \in Conns : Registered(d)' <=> Registered(d)
  BY <1>1 DEF Registered, Known
<1>3. OneSocketPerFd'
  BY <1>1 DEF OneSocketPerFd, Open
<1>4. RegisteredIsOpen'
  BY <1>1 DEF RegisteredIsOpen, Open, Registered, Known
<1>5. ServersAreRegistered'
  BY <1>2 DEF ServersAreRegistered, TablesOK
<1>6. UnusedIsNew' /\ LeakedIsUnregistered'
  BY <1>1, <1>2 DEF UnusedIsNew, LeakedIsUnregistered
<1>6a. CalledIsClosed'
  <2>1. \A d \in called' : d \in Conns /\ (d = c \/ d \in called)
    BY DEF Known
  <2>2. QED
    BY <1>1, <2>1 DEF CalledIsClosed
<1>7. PrivateIsOpen'
  <2>1. \A u \in Threads : pc[u] \in Private => cur[u] \in Conns
    BY DEF ControlOK, Private, Known
  <2>2. QED
    BY <1>1, <1>2, <2>1 DEF PrivateIsOpen, Open
<1>8. PrivateIsExclusive'
  BY DEF PrivateIsExclusive
<1>9. DialledIsNew'
  BY <1>1 DEF DialledIsNew, ControlOK
<1>10. QED
  BY <1>3, <1>4, <1>5, <1>6, <1>6a, <1>7, <1>8, <1>9 DEF Shape

\* Goroutine t opens c on a free descriptor and keeps it to itself; or it
\* loses it (a leaked connection, and no goroutine moves).
LEMMA Opened ==
  ASSUME IInv, NEW t \in Threads, NEW c \in Conns, NEW fd \in Fds,
         sock[c] = "new", Socket(c, fd),
         kind' \in [Conns -> {"none", "tcp", "ws", "out", "leaked"}],
         \A d \in Conns : d # c => kind'[d] = kind[d], kind'[c] # "none",
         UNCHANGED <<svid, conns, servers, called>>,
         \A u \in Threads : u # t => Keeps(u) /\ pc'[u] = pc[u],
         \A u \in Threads : u # t /\ pc[u] = "dial" => cur[u] # c,
         \/ pc'[t] \in Private /\ cur'[t] = c /\ kind'[c] # "leaked"
         \/ pc[t] # "dial" /\ UNCHANGED <<pc, cur>>
  PROVE  Shape'
<1> USE DEF IInv, TypeOK, ObjectsOK, TablesOK, Keeps
<1>1. /\ \A d \in Conns : sock'[d] = IF d = c THEN "open" ELSE sock[d]
      /\ \A d \in Conns : fdOf'[d] = IF d = c THEN fd ELSE fdOf[d]
      /\ FdFree(fd)
  BY DEF Socket
<1>2. \A f \in Fds : conns[f] # c
  BY ConstantsAssumption DEF RegisteredIsOpen, Open
<1>3. \A d \in Conns : Registered(d)' <=> Registered(d)
  BY <1>1, <1>2 DEF Registered, Known
<1>4. OneSocketPerFd'
  BY <1>1 DEF OneSocketPerFd, Open, FdFree
<1>5. RegisteredIsOpen'
  BY <1>1, <1>2 DEF RegisteredIsOpen, Open
<1>6. ServersAreRegistered'
  BY <1>3 DEF ServersAreRegistered
<1>7. ~Registered(c)
  BY <1>2 DEF Registered, Known
<1>8. UnusedIsNew' /\ CalledIsClosed' /\ LeakedIsUnregistered'
  BY <1>1, <1>3, <1>7 DEF UnusedIsNew, CalledIsClosed, LeakedIsUnregistered
<1>9. \A u \in Threads : pc[u] \in Private => cur[u] \in Conns /\ cur[u] # c
  BY DEF PrivateIsOpen, ControlOK, Private, Known, Open
<1>10. PrivateIsOpen'
  BY <1>1, <1>3, <1>7, <1>9 DEF PrivateIsOpen, Open
<1>11. PrivateIsExclusive'
  BY <1>9 DEF PrivateIsExclusive
<1>12. DialledIsNew'
  BY <1>1 DEF DialledIsNew, ControlOK, Private
<1>13. QED
  BY <1>4, <1>5, <1>6, <1>8, <1>10, <1>11, <1>12 DEF Shape

LEMMA AddConnStep ==
  ASSUME IInv, NEW t \in Threads, AddConn(t)
  PROVE  Shape'
<1> DEFINE c == cur[t]
           fd == fdOf[c]
<1> USE DEF IInv, TypeOK, ObjectsOK, TablesOK
<1>1. /\ c \in Known /\ Open(c) /\ ~Registered(c) /\ fd \in Fds
      /\ kind[c] \notin {"none", "leaked"}
  BY DEF AddConn, At, ControlOK, PrivateIsOpen, Private
<1>2. conns[fd] = NoConn
  BY <1>1 DEF RegisteredIsOpen, OneSocketPerFd, Registered, Known
<1>3. /\ \A f \in Fds : conns'[f] = IF f = fd THEN c ELSE conns[f]
      /\ \A s \in Svids : servers'[s] = IF s = svid[c] THEN c ELSE servers[s]
      /\ UNCHANGED <<sock, fdOf, kind, svid, called, cur>>
  BY <1>1, ConstantsAssumption DEF AddConn, objects, Known
<1>4. \A d \in Conns : Registered(d)' <=> (Registered(d) \/ d = c)
  <2>1. \A d \in Known : fdOf[d] \in Fds
    OBVIOUS
  <2>2. QED
    BY ConstantsAssumption, <1>1, <1>2, <1>3, <2>1 DEF Registered, Known
<1>5. OneSocketPerFd' /\ UnusedIsNew' /\ CalledIsClosed'
  BY <1>3 DEF OneSocketPerFd, UnusedIsNew, CalledIsClosed, Open
<1>6. RegisteredIsOpen'
  BY <1>1, <1>3 DEF RegisteredIsOpen, Open
<1>7. ServersAreRegistered'
  BY <1>1, <1>3, <1>4 DEF ServersAreRegistered, Known
<1>8. LeakedIsUnregistered'
  BY <1>1, <1>3, <1>4 DEF LeakedIsUnregistered
<1>9. \A u \in Threads : Keeps(u) /\ pc'[t] \notin Private
  BY <1>3 DEF AddConn, Goto, Keeps, Private, ControlOK
<1>10. \A u \in Threads : pc'[u] \in Private => u # t /\ cur[u] \in Conns /\ cur[u] # c
  BY <1>9 DEF Keeps, PrivateIsExclusive, AddConn, At, Private, ControlOK, Known
<1>11. PrivateIsOpen'
  BY <1>3, <1>4, <1>9, <1>10 DEF PrivateIsOpen, Keeps, Open
<1>12. PrivateIsExclusive' /\ DialledIsNew'
  BY <1>3, <1>9 DEF PrivateIsExclusive, DialledIsNew, Keeps
<1>13. QED
  BY <1>5, <1>6, <1>7, <1>8, <1>11, <1>12 DEF Shape

LEMMA DelUnmapStep ==
  ASSUME IInv, NEW t \in Threads, DelUnmap(t)
  PROVE  Shape'
<1> DEFINE fd == fdOf[cur[t]]
           c == conns[fd]
<1> USE DEF IInv, TypeOK, ObjectsOK, TablesOK
<1>1. /\ fd \in Fds /\ c \in Conns /\ fdOf[c] = fd
      /\ Open(c) /\ Registered(c)
  BY DEF DelUnmap, At, ControlOK, RegisteredIsOpen, Registered, Known, Open
<1>2. /\ \A f \in Fds : conns'[f] = IF f = fd THEN NoConn ELSE conns[f]
      /\ \A s \in Svids : servers'[s] = IF s = svid[c] THEN NoConn ELSE servers[s]
      /\ UNCHANGED <<sock, fdOf, kind, svid, called>>
  BY <1>1, ConstantsAssumption DEF DelUnmap, objects
<1>3. \A d \in Conns : Registered(d)' <=> (Registered(d) /\ d # c)
  <2>1. \A d \in Known : fdOf[d] \in Fds
    OBVIOUS
  <2>2. QED
    BY ConstantsAssumption, <1>1, <1>2, <2>1 DEF Registered, Known
<1>4. OneSocketPerFd' /\ UnusedIsNew' /\ CalledIsClosed'
  BY <1>2 DEF OneSocketPerFd, UnusedIsNew, CalledIsClosed, Open
<1>5. RegisteredIsOpen'
  BY <1>2 DEF RegisteredIsOpen, Open
<1>6. ServersAreRegistered'
  BY <1>1, <1>2, <1>3 DEF ServersAreRegistered
<1>7. LeakedIsUnregistered'
  BY <1>2, <1>3 DEF LeakedIsUnregistered
<1>8. /\ \A u \in Threads : u # t => pc'[u] = pc[u] /\ cur'[u] = cur[u]
      /\ pc'[t] = "close" /\ cur'[t] = c
  BY <1>1 DEF DelUnmap, Begin, Goto, ControlOK
<1>9. \A u \in Threads : u # t /\ pc'[u] \in Private => cur[u] \in Conns /\ cur[u] # c
  BY <1>1, <1>8 DEF PrivateIsOpen, ControlOK, Private, Known
<1>10. kind[c] \notin {"none", "leaked"}
  BY <1>1 DEF UnusedIsNew, LeakedIsUnregistered, Open
<1>11. PrivateIsOpen'
  BY <1>1, <1>2, <1>3, <1>8, <1>9, <1>10 DEF PrivateIsOpen, Open
<1>12. PrivateIsExclusive'
  BY <1>8, <1>9 DEF PrivateIsExclusive
<1>13. DialledIsNew'
  BY <1>2, <1>8 DEF DialledIsNew
<1>14. QED
  BY <1>4, <1>5, <1>6, <1>7, <1>11, <1>12, <1>13 DEF Shape

LEMMA ShapeStep ==
  ASSUME IInv, [Next]_vars
  PROVE  Shape'
<1> USE DEF IInv, TypeOK
<1>1. ASSUME NEW t \in Threads, NEW c \in Known, DelEpoll(t, c)
      PROVE  Shape'
  <2>1. \A u \in Threads : Keeps(u)
    BY <1>1 DEF DelEpoll, Begin, Goto, Keeps, Private, ControlOK
  <2>2. QED
    BY <1>1, <2>1, Quiet DEF DelEpoll, objects
<1>2. CASE UNCHANGED <<sock, fdOf, kind, svid, conns, servers, called, pc, cur>>
  BY <1>2, Quiet DEF Keeps
<1>3. ASSUME NEW t \in Threads, Del(t) \/ Add(t)
      PROVE  Shape'
  <2>1. CASE DelDecr(t) \/ DelPanic(t) \/ IncrConnNum(t)
    <3>1. \A u \in Threads : Keeps(u)
      BY <2>1 DEF DelDecr, DelPanic, IncrConnNum, Goto, Keeps, Private, ControlOK
    <3>2. QED
      BY <2>1, <3>1, Quiet DEF DelDecr, DelPanic, IncrConnNum, objects, tables
  <2>2. CASE DelClose(t)
    <3>1. /\ cur[t] \in Known /\ ~Registered(cur[t]) /\ kind[cur[t]] # "none"
          /\ Open(cur[t])
      BY <2>2 DEF DelClose, At, ControlOK, PrivateIsOpen, Private
    <3>2. \A u \in Threads : Keeps(u) /\ (pc'[u] \in Private => u # t)
      BY <2>2 DEF DelClose, Goto, Keeps, Private, ControlOK
    <3>3. \A u \in Threads : pc'[u] \in Private => cur[u] # cur[t]
      BY <2>2, <3>2 DEF DelClose, At, Keeps, PrivateIsExclusive, Private
    <3>4. \A u \in Threads : pc[u] = "dial" => cur[u] # cur[t]
      BY <3>1 DEF DialledIsNew, Open
    <3>5. QED
      BY <2>2, <3>1, <3>2, <3>3, <3>4, Closed DEF DelClose
  <2>3. QED
    BY <1>3, <2>1, <2>2, AddConnStep, DelUnmapStep DEF Del, Add
<1>4. CASE LoopRun
  <2>0. "loop" \in Threads
    BY DEF Threads
  <2>1. CASE LoopUpgraded \/ LoopReadOk
    <3>1. \A u \in Threads : Keeps(u)
      BY <2>1 DEF LoopUpgraded, LoopReadOk, At, Goto, Keeps, Private, ControlOK
    <3>2. QED
      BY <2>1, <3>1, Quiet DEF LoopUpgraded, LoopReadOk, objects, tables
  <2>2. CASE LoopUpgradeFails
    <3>1. /\ cur["loop"] \in Known /\ ~Registered(cur["loop"])
          /\ kind[cur["loop"]] # "none" /\ Open(cur["loop"])
      BY <2>0, <2>2 DEF LoopUpgradeFails, At, ControlOK, PrivateIsOpen, Private
    <3>2. \A u \in Threads : Keeps(u) /\ (pc'[u] \in Private => u # "loop")
      BY <2>2 DEF LoopUpgradeFails, Goto, Keeps, Private, ControlOK
    <3>3. \A u \in Threads : pc'[u] \in Private => cur[u] # cur["loop"]
      BY <2>0, <2>2, <3>2 DEF LoopUpgradeFails, At, Keeps, PrivateIsExclusive, Private
    <3>4. \A u \in Threads : pc[u] = "dial" => cur[u] # cur["loop"]
      BY <3>1 DEF DialledIsNew, Open
    <3>5. QED
      BY <2>2, <3>1, <3>2, <3>3, <3>4, Closed DEF LoopUpgradeFails, tables
  <2>3. CASE LoopReadErr
    BY <1>1, <2>0, <2>3 DEF LoopReadErr, At, ControlOK
  <2>4. ASSUME NEW e \in batch, LoopAcceptFails(e) \/ LoopEvent(e)
        PROVE  Shape'
    <3>1. \A u \in Threads : Keeps(u)
      BY <2>4 DEF LoopAcceptFails, LoopEvent, Begin, Goto, Keeps, Private, ControlOK
    <3>2. QED
      BY <2>4, <3>1, Quiet DEF LoopAcceptFails, LoopEvent, objects, tables
  <2>5. ASSUME NEW c \in Conns, NEW fd \in Fds, NEW k \in {"tcp", "ws", "leaked"},
               Accept(c, fd, k), pc["loop"] = "run",
               UNCHANGED <<conns, servers, called>>,
               \/ k # "leaked" /\ \E label \in Private : Begin("loop", label, c)
               \/ UNCHANGED <<pc, cur>>
        PROVE  Shape'
    <3>1. sock[c] = "new"
      BY <2>5 DEF Accept, UnusedIsNew
    <3>2. \A u \in Threads : pc[u] = "dial" => cur[u] # c
      BY <2>5 DEF Accept, DialledIsNew
    <3>3. /\ kind' \in [Conns -> {"none", "tcp", "ws", "out", "leaked"}]
          /\ \A d \in Conns : kind'[d] = IF d = c THEN k ELSE kind[d]
          /\ Socket(c, fd) /\ UNCHANGED svid
      BY <2>5 DEF Accept, ObjectsOK
    <3>4. \A u \in Threads : u # "loop" => Keeps(u) /\ pc'[u] = pc[u]
      BY <2>5 DEF Begin, Goto, Keeps, ControlOK
    <3>5. \/ pc'["loop"] \in Private /\ cur'["loop"] = c /\ k # "leaked"
          \/ UNCHANGED <<pc, cur>>
      BY <2>0, <2>5 DEF Begin, Goto, ControlOK
    <3>6. QED
      BY <2>0, <2>5, <3>1, <3>2, <3>3, <3>4, <3>5, Opened
  <2>6. ASSUME NEW c \in Conns, NEW fd \in Fds,
               LoopAcceptTcp(c, fd) \/ LoopLeakTcp(c, fd) \/ LoopAcceptWs(c, fd)
        PROVE  Shape'
    BY <2>5, <2>6 DEF LoopAcceptTcp, LoopLeakTcp, LoopAcceptWs, Event, At, tables, Private
  <2>7. CASE LoopWait
    BY <1>2, <2>7 DEF LoopWait, objects, tables
  <2>8. QED
    BY <1>4, <2>1, <2>2, <2>3, <2>4, <2>6, <2>7 DEF LoopRun
<1>5. ASSUME NEW t \in Threads, NEW c \in Known, Write(t, c)
      PROVE  Shape'
  BY <1>5, <1>1, <1>2 DEF Write, WriteOk, tables
<1>6. CASE CheckTimeout \/ ConnTick
  BY <1>6, <1>1, <1>2, <1>5 DEF CheckTimeout, ConnTick, TimeoutScan, TimeoutDel,
       TickSnapshot, TickWrite, QueuesOK, Threads, objects, tables
<1>7. ASSUME NEW h \in Handlers, Handler(h)
      PROVE  Shape'
  <2>0. h \in Threads
    BY DEF Threads
  <2>1. CASE HandlerDialFails(h)
    <3>1. \A u \in Threads : Keeps(u)
      BY <2>1 DEF HandlerDialFails, Goto, Keeps, Private, ControlOK
    <3>2. QED
      BY <2>1, <3>1, Quiet DEF HandlerDialFails, objects, tables
  <2>2. ASSUME NEW c \in held, HandlerWrite(h, c)
        PROVE  Shape'
    BY <1>5, <2>0, <2>2 DEF HandlerWrite, QueuesOK
  <2>3. ASSUME NEW s \in Svids, HandlerFound(h, s)
        PROVE  Shape'
    BY <1>2, <2>3 DEF HandlerFound, objects, tables
  <2>4. ASSUME NEW s \in Svids, NEW c \in Conns, HandlerMiss(h, s, c)
        PROVE  Shape'
    <3>1. sock[c] = "new" /\ kind[c] = "none"
      BY <2>4 DEF HandlerMiss, UnusedIsNew
    <3>2. \A f \in Fds : conns[f] # c
      BY <3>1, ConstantsAssumption DEF RegisteredIsOpen, Open, TablesOK
    <3>3. /\ \A d \in Conns : kind'[d] = IF d = c THEN "out" ELSE kind[d]
          /\ \A d \in Conns : d # c => svid'[d] = svid[d]
          /\ UNCHANGED <<sock, fdOf, conns, servers, called>>
      BY <2>4 DEF HandlerMiss, ObjectsOK, tables
    <3>4. \A d \in Conns : Registered(d)' <=> Registered(d)
      BY <3>3 DEF Registered, Known
    <3>5. \A u \in Threads :
            /\ u # h => pc'[u] = pc[u] /\ cur'[u] = cur[u]
            /\ u = h => pc'[u] = "dial" /\ cur'[u] = c
      BY <2>0, <2>4 DEF HandlerMiss, Begin, Goto, ControlOK
    <3>6. OneSocketPerFd' /\ RegisteredIsOpen' /\ CalledIsClosed'
      BY <3>3 DEF OneSocketPerFd, RegisteredIsOpen, CalledIsClosed, Open
    <3>7. ServersAreRegistered'
      BY <3>1, <3>3, <3>4 DEF ServersAreRegistered, Registered, Known, TablesOK
    <3>8. UnusedIsNew' /\ LeakedIsUnregistered'
      BY <3>3, <3>4 DEF UnusedIsNew, LeakedIsUnregistered
    <3>9. \A u \in Threads : pc'[u] \in Private =>
            u # h /\ pc[u] \in Private /\ cur'[u] = cur[u]
            /\ cur[u] \in Conns /\ cur[u] # c
      BY <3>1, <3>5 DEF PrivateIsOpen, Private, Open, ControlOK, Known
    <3>10. PrivateIsOpen' /\ PrivateIsExclusive'
      BY <3>3, <3>4, <3>9 DEF PrivateIsOpen, PrivateIsExclusive, Open
    <3>11. \A u \in Threads : u # h /\ pc[u] = "dial" => cur[u] \in Conns /\ cur[u] # c
      BY <3>1 DEF DialledIsNew, ControlOK
    <3>12. DialledIsNew'
      BY <3>1, <3>3, <3>5, <3>11 DEF DialledIsNew
    <3>13. QED
      BY <3>6, <3>7, <3>8, <3>10, <3>12 DEF Shape
  <2>5. ASSUME NEW fd \in Fds, HandlerDial(h, fd)
        PROVE  Shape'
    <3>1. pc[h] = "dial" /\ cur[h] \in Conns /\ sock[cur[h]] = "new" /\ kind[cur[h]] = "out"
      BY <2>0, <2>5 DEF HandlerDial, At, ControlOK, DialledIsNew
    <3>2. \A u \in Threads : u # h /\ pc[u] = "dial" => cur[u] # cur[h]
      BY <2>0, <3>1 DEF DialledIsNew
    <3>3. /\ \A u \in Threads : u # h => Keeps(u) /\ pc'[u] = pc[u]
          /\ pc'[h] \in Private /\ cur'[h] = cur[h]
      BY <2>0, <2>5 DEF HandlerDial, Goto, Keeps, Private, ControlOK
    <3>4. kind' \in [Conns -> {"none", "tcp", "ws", "out", "leaked"}] /\ kind' = kind
      BY <2>5 DEF HandlerDial, ObjectsOK
    <3>5. QED
      BY <2>0, <2>5, <3>1, <3>2, <3>3, <3>4, Opened DEF HandlerDial
  <2>6. QED
    BY <1>7, <2>1, <2>2, <2>3, <2>4, <2>5 DEF Handler
<1>8. ASSUME NEW c \in Conns, Finalize(c)
      PROVE  Shape'
  <2>1. c \in Known /\ ~Registered(c) /\ Open(c) /\ kind[c] = "leaked"
    BY <1>8 DEF Finalize, Open, Known, LeakedIsUnregistered
  <2>2. \A u \in Threads : Keeps(u) /\ (pc'[u] \in Private => pc[u] \in Private)
    BY <1>8 DEF Finalize, Keeps
  <2>3. \A u \in Threads : pc'[u] \in Private => cur[u] # c
    BY <2>1, <2>2 DEF PrivateIsOpen
  <2>4. \A u \in Threads : pc[u] = "dial" => cur[u] # c
    BY <2>1 DEF DialledIsNew
  <2>5. QED
    BY <1>8, <2>1, <2>2, <2>3, <2>4, Closed DEF Finalize, tables
<1>9. ASSUME NEW c \in Conns, GoIdle(c)
      PROVE  Shape'
  BY <1>2, <1>9 DEF GoIdle, tables
<1>10. CASE UNCHANGED vars
  BY <1>2, <1>10 DEF vars, objects, tables
<1>11. QED
  BY <1>3, <1>4, <1>6, <1>7, <1>8, <1>9, <1>10 DEF Next

(***************************************************************************)
(* The theorems.                                                           *)
(***************************************************************************)

\* The invariant is inductive, so it holds in every reachable state.
THEOREM Invariance == Spec => []IInv
<1>1. IInv /\ [Next]_vars => IInv'
  BY TypeStep, ShapeStep DEF IInv, Shape
<1>2. QED
  BY InitIInv, <1>1, PTL DEF Spec

\* Every variable keeps its type, and no goroutine works on a connection that
\* has no socket.
THEOREM TypeCorrect == Spec => []TypeOK
  BY Invariance, PTL DEF IInv

\* connMgr.conns only ever maps a descriptor to a live connection on it.
THEOREM RegisteredConnectionsAreOpen == Spec => []RegisteredIsOpen
  BY Invariance, PTL DEF IInv

\* connMgr.servers is a subset of connMgr.conns, filed under the right server.
THEOREM ServersAreAmongConns == Spec => []ServersAreRegistered
  BY Invariance, PTL DEF IInv

\* However many goroutines call Del for a descriptor, Handler.Close is called
\* at most once for each connection, after it left connMgr for good.
THEOREM CloseIsHeardOnce == Spec => []CloseHeardOnce
<1>1. IInv => CloseHeardOnce
  <2> SUFFICES ASSUME IInv PROVE CloseHeardOnce
    OBVIOUS
  <2>1. \A t \in Threads : pc[t] = "close" => cur[t] \notin called
    BY DEF IInv, PrivateIsOpen, CalledIsClosed, Private, Open
  <2>2. \A c \in called : ~Registered(c)
    BY ConstantsAssumption DEF IInv, TypeOK, ObjectsOK, TablesOK, CalledIsClosed, RegisteredIsOpen,
         Registered, Known, Open
  <2>3. QED
    BY <2>1, <2>2 DEF CloseHeardOnce
<1>2. QED
  BY Invariance, <1>1, PTL

-----------------------------------------------------------------------------
(***************************************************************************)
(* Who answers for an open socket: it is registered, or one goroutine has  *)
(* it in hand, or the accept path has lost it; and one goroutine at a time *)
(* is past the EPOLL_CTL_DEL of a descriptor.                              *)
(***************************************************************************)

Deleting(t) == pc[t] \in {"decr", "unmap"}

(* The socket on fd is registered, or is about to be. *)
Live(fd) ==
  \E c \in Conns :
    /\ Open(c) /\ fdOf[c] = fd
    /\ Registered(c) \/ \E t \in Threads : cur[t] = c /\ pc[t] = "add"

(* A polled descriptor, and one that a Del has just taken out of epoll, is live: nobody else *)
(* can close its socket, so that the kernel does not give the descriptor out and nobody can  *)
(* put it back into epoll before that Del is through.                                        *)
PolledIsLive ==
  /\ \A fd \in epoll : Live(fd)
  /\ \A t \in Threads : Deleting(t) => Live(fdOf[cur[t]])

DelIsPastPoll == \A t \in Threads : Deleting(t) => fdOf[cur[t]] \notin epoll

Owners == NoSocketLost /\ DelIsExclusive /\ DelIsPastPoll /\ PolledIsLive

(* A goroutine that keeps what it has in hand. *)
Still(u) ==
  /\ pc[u] \in Private => pc'[u] = pc[u] /\ cur'[u] = cur[u]
  /\ pc'[u] \in Private => pc'[u] = pc[u] /\ cur'[u] = cur[u]
  /\ Deleting(u)' => Deleting(u) /\ cur'[u] = cur[u]

(* DelIsExclusive in the form the steps need. *)
LEMMA Exclusive ==
  DelIsExclusive <=>
    \A t, u \in Threads : Deleting(t) /\ Deleting(u) /\ fdOf[cur[t]] = fdOf[cur[u]] => t = u
BY DEF DelIsExclusive, Deleting

LEMMA LiveStays ==
  ASSUME NEW fd, Live(fd), UNCHANGED <<sock, fdOf, conns>>, \A u \in Threads : Still(u)
  PROVE  Live(fd)'
<1>1. PICK c \in Conns : /\ Open(c) /\ fdOf[c] = fd
                         /\ Registered(c) \/ \E t \in Threads : cur[t] = c /\ pc[t] = "add"
  BY DEF Live
<1>2. Registered(c) => Registered(c)'
  BY DEF Registered, Known
<1>3. \A t \in Threads : pc[t] = "add" => pc'[t] = "add" /\ cur'[t] = cur[t]
  BY DEF Still, Private
<1>4. QED
  BY <1>1, <1>2, <1>3 DEF Live, Open

(* PolledIsLive after a step, from what is live after it. *)
LEMMA LiveAgain ==
  ASSUME \A fd \in epoll' : Live(fd)',
         \A u \in Threads : Deleting(u)' => \E fd : fd = fdOf'[cur'[u]] /\ Live(fd)'
  PROVE  PolledIsLive'
<1>1. ASSUME NEW u \in Threads, Deleting(u)' PROVE Live(fdOf[cur[u]])'
  BY <1>1 DEF Live
<1>2. QED
  BY <1>1 DEF PolledIsLive

(* Nothing changes hands. *)
LEMMA OwnersStay ==
  ASSUME Owners, UNCHANGED <<sock, fdOf, conns, epoll>>, \A u \in Threads : Still(u),
         \A c \in Conns : kind[c] = "leaked" => kind'[c] = "leaked"
  PROVE  Owners'
<1>1. NoSocketLost'
  <2>1. \A c \in Conns : Registered(c) => Registered(c)'
    BY DEF Registered, Known
  <2>2. \A t \in Threads : pc[t] \in {"upgrade", "add", "close"}
                             => pc'[t] \in {"upgrade", "add", "close"} /\ cur'[t] = cur[t]
    BY DEF Still, Private
  <2>3. QED
    BY <2>1, <2>2 DEF Owners, NoSocketLost, Open
<1>2. DelIsExclusive' /\ DelIsPastPoll'
  <2>1. \A t \in Threads : Deleting(t)' => Deleting(t) /\ cur'[t] = cur[t]
    BY DEF Still
  <2>2. DelIsPastPoll'
    BY <2>1 DEF Owners, DelIsPastPoll
  <2>3. \A t, u \in Threads :
          Deleting(t)' /\ Deleting(u)' /\ fdOf'[cur'[t]] = fdOf'[cur'[u]] => t = u
    BY <2>1, Exclusive DEF Owners
  <2>4. QED
    BY <2>2, <2>3 DEF DelIsExclusive, Deleting
<1>3. PolledIsLive'
  BY LiveStays DEF Owners, PolledIsLive, Still
<1>4. QED
  BY <1>1, <1>2, <1>3 DEF Owners

(* EPOLL_CTL_DEL: whoever finds the descriptor polled is the only one past it. *)
LEMMA DelEpollOwners ==
  ASSUME IInv, Owners, NEW t \in Threads, NEW c \in Known, DelEpoll(t, c), pc[t] \in {"run", "read"}
  PROVE  Owners'
<1> USE DEF IInv, TypeOK, ControlOK
<1>1. /\ epoll' = epoll \ {fdOf[c]} /\ UNCHANGED <<sock, fdOf, kind, conns>>
      /\ pc'[t] = (IF fdOf[c] \in epoll THEN "decr" ELSE "run") /\ cur'[t] = c
      /\ \A u \in Threads \ {t} : pc'[u] = pc[u] /\ cur'[u] = cur[u]
  BY DEF DelEpoll, Begin, Goto, objects
<1>2. \A u \in Threads : pc[u] \in Private \/ pc'[u] \in Private => pc'[u] = pc[u] /\ cur'[u] = cur[u]
  BY <1>1 DEF Private
<1>3. \A u \in Threads \ {t} : Deleting(u)' <=> Deleting(u)
  BY <1>1 DEF Deleting
<1>4. Deleting(t)' <=> fdOf[c] \in epoll
  BY <1>1 DEF Deleting
<1>5. \A fd : Live(fd) => Live(fd)'
  <2> SUFFICES ASSUME NEW fd, Live(fd) PROVE Live(fd)'
    OBVIOUS
  <2>1. PICK d \in Conns : /\ Open(d) /\ fdOf[d] = fd
                           /\ Registered(d) \/ \E u \in Threads : cur[u] = d /\ pc[u] = "add"
    BY DEF Live
  <2>2. Registered(d) => Registered(d)'
    BY <1>1 DEF Registered, Known
  <2>3. \A u \in Threads : pc[u] = "add" => pc'[u] = "add" /\ cur'[u] = cur[u]
    BY <1>2 DEF Private
  <2>4. QED
    BY <1>1, <2>1, <2>2, <2>3 DEF Live, Open
<1>6. NoSocketLost'
  <2>1. \A d \in Conns : Registered(d) => Registered(d)'
    BY <1>1 DEF Registered, Known
  <2>2. QED
    BY <1>1, <1>2, <2>1 DEF Owners, NoSocketLost, Open, Private
<1>7. DelIsExclusive'
  <2>1. \A u \in Threads \ {t} : Deleting(u)' /\ Deleting(t)' => fdOf[cur[u]] # fdOf[c]
    BY <1>3, <1>4 DEF Owners, DelIsPastPoll
  <2>2. \A u, v \in Threads :
          Deleting(u)' /\ Deleting(v)' /\ fdOf'[cur'[u]] = fdOf'[cur'[v]] => u = v
    BY <1>1, <1>3, <2>1, Exclusive DEF Owners
  <2>3. QED
    BY <2>2 DEF DelIsExclusive, Deleting
<1>8. DelIsPastPoll'
  <2> SUFFICES ASSUME NEW u \in Threads, Deleting(u)' PROVE fdOf[cur'[u]] \notin epoll'
    BY <1>1 DEF DelIsPastPoll
  <2>1. CASE u = t
    BY <1>1, <2>1
  <2>2. CASE u # t
    BY <1>1, <1>3, <2>2 DEF Owners, DelIsPastPoll
  <2>3. QED
    BY <2>1, <2>2
<1>9. PolledIsLive'
  <2>1. \A fd \in epoll' : Live(fd)'
    BY <1>1, <1>5 DEF Owners, PolledIsLive
  <2>2. ASSUME NEW u \in Threads, Deleting(u)'
        PROVE  \E fd : fd = fdOf[cur'[u]] /\ Live(fd)
    <3>1. CASE u = t
      BY <1>1, <1>4, <2>2, <3>1 DEF Owners, PolledIsLive
    <3>2. CASE u # t
      BY <1>1, <1>3, <2>2, <3>2 DEF Owners, PolledIsLive
    <3>3. QED
      BY <3>1, <3>2
  <2>3. QED
    BY <1>1, <1>5, <2>1, <2>2, LiveAgain
<1>10. QED
  BY <1>6, <1>7, <1>8, <1>9 DEF Owners

(* DelByFd: the connection goes from connMgr into the hands of t. *)
LEMMA DelUnmapOwners ==
  ASSUME IInv, Owners, NEW t \in Threads, DelUnmap(t)
  PROVE  Owners'
<1> DEFINE fd == fdOf[cur[t]]
           c == conns[fd]
<1> USE DEF IInv, TypeOK, ObjectsOK, TablesOK
<1>1. /\ fd \in Fds /\ c \in Conns /\ fdOf[c] = fd /\ Deleting(t)
      /\ UNCHANGED <<sock, fdOf, kind, epoll>>
      /\ conns' = [conns EXCEPT ![fd] = NoConn]
      /\ pc'[t] = "close" /\ cur'[t] = c
      /\ \A u \in Threads \ {t} : pc'[u] = pc[u] /\ cur'[u] = cur[u]
  BY DEF DelUnmap, At, Begin, Goto, ControlOK, RegisteredIsOpen, objects, Deleting
<1>2. \A d \in Conns : Registered(d) /\ d # c => Registered(d)'
  <2>1. \A d \in Known : fdOf[d] \in Fds
    OBVIOUS
  <2>2. QED
    BY <1>1, <2>1 DEF Registered, Known
<1>3. ~Deleting(t)' /\ \A u \in Threads \ {t} : Deleting(u)' <=> Deleting(u)
  BY <1>1 DEF Deleting, ControlOK
<1>4. ASSUME NEW f, f # fd, Live(f) PROVE Live(f)'
  <2>1. PICK d \in Conns : /\ Open(d) /\ fdOf[d] = f
                           /\ Registered(d) \/ \E u \in Threads : cur[u] = d /\ pc[u] = "add"
    BY <1>4 DEF Live
  <2>2. d # c
    BY <1>1, <1>4, <2>1
  <2>3. \A u \in Threads : pc[u] = "add" => pc'[u] = "add" /\ cur'[u] = cur[u]
    BY <1>1 DEF Deleting
  <2>4. QED
    BY <1>1, <1>2, <2>1, <2>2, <2>3 DEF Live, Open
<1>5. NoSocketLost'
  <2> SUFFICES ASSUME NEW d \in Conns, Open(d)
               PROVE  \/ Registered(d)'
                      \/ kind[d] = "leaked"
                      \/ \E u \in Threads : cur'[u] = d /\ pc'[u] \in {"upgrade", "add", "close"}
    BY <1>1 DEF NoSocketLost, Open
  <2>1. CASE d = c
    BY <1>1, <2>1
  <2>2. CASE d # c
    BY <1>1, <1>2, <2>2 DEF Owners, NoSocketLost, Deleting
  <2>3. QED
    BY <2>1, <2>2
<1>6. ASSUME NEW u \in Threads, Deleting(u)' PROVE Deleting(u) /\ cur'[u] = cur[u] /\ fdOf[cur[u]] # fd
  <2>1. u # t
    BY <1>3, <1>6
  <2>2. Deleting(u) /\ cur'[u] = cur[u]
    BY <1>1, <1>3, <1>6, <2>1
  <2>3. fdOf[cur[u]] # fdOf[cur[t]]
    BY <1>1, <2>1, <2>2, Exclusive DEF Owners
  <2>4. QED
    BY <2>2, <2>3
<1>7. DelIsExclusive' /\ DelIsPastPoll'
  <2>1. DelIsPastPoll'
    BY <1>1, <1>3 DEF Owners, DelIsPastPoll
  <2>2. \A u, v \in Threads :
          Deleting(u)' /\ Deleting(v)' /\ fdOf'[cur'[u]] = fdOf'[cur'[v]] => u = v
    BY <1>1, <1>3, Exclusive DEF Owners
  <2>3. QED
    BY <2>1, <2>2 DEF DelIsExclusive, Deleting
<1>8. PolledIsLive'
  <2>1. fd \notin epoll
    BY <1>1 DEF Owners, DelIsPastPoll
  <2>2. \A f \in epoll' : Live(f)'
    BY <1>1, <1>4, <2>1 DEF Owners, PolledIsLive
  <2>3. ASSUME NEW u \in Threads, Deleting(u)' PROVE \E f : f = fdOf'[cur'[u]] /\ Live(f)'
    <3>1. Deleting(u) /\ cur'[u] = cur[u] /\ fdOf[cur[u]] # fd
      BY <1>6, <2>3
    <3>2. Live(fdOf[cur[u]])
      BY <3>1 DEF Owners, PolledIsLive
    <3>3. PICK f : f = fdOf[cur[u]]
      OBVIOUS
    <3>4. Live(f)'
      BY <1>4, <3>1, <3>2, <3>3
    <3>5. QED
      BY <1>1, <3>1, <3>3, <3>4
  <2>4. QED
    BY <2>2, <2>3, LiveAgain
<1>9. QED
  BY <1>5, <1>7, <1>8 DEF Owners

(* AddConn: the connection goes from the hands of t into connMgr. *)
LEMMA AddConnOwners ==
  ASSUME IInv, Owners, NEW t \in Threads, AddConn(t)
  PROVE  Owners'
<1> DEFINE c == cur[t]
           fd == fdOf[c]
<1> USE DEF IInv, TypeOK, ObjectsOK, TablesOK
<1>1. /\ c \in Known /\ Open(c) /\ ~Registered(c) /\ fd \in Fds /\ pc[t] = "add"
  BY DEF AddConn, At, ControlOK, PrivateIsOpen, Private
<1>2. conns[fd] = NoConn
  BY <1>1 DEF RegisteredIsOpen, OneSocketPerFd, Registered, Known
<1>3. /\ conns' = [conns EXCEPT ![fd] = c]
      /\ UNCHANGED <<sock, fdOf, kind, epoll, cur>>
      /\ pc'[t] \in {"run", "incr"} /\ \A u \in Threads \ {t} : pc'[u] = pc[u]
  BY <1>1 DEF AddConn, Goto, ControlOK, objects
<1>4. \A d \in Conns : Registered(d) \/ d = c => Registered(d)'
  <2>1. \A d \in Known : fdOf[d] \in Fds
    OBVIOUS
  <2>2. QED
    BY ConstantsAssumption, <1>1, <1>2, <1>3, <2>1 DEF Registered, Known
<1>5. \A u \in Threads : Deleting(u)' <=> Deleting(u)
  BY <1>1, <1>3 DEF Deleting
<1>6. ASSUME NEW f, Live(f) PROVE Live(f)'
  <2>1. PICK d \in Conns : /\ Open(d) /\ fdOf[d] = f
                           /\ Registered(d) \/ \E u \in Threads : cur[u] = d /\ pc[u] = "add"
    BY <1>6 DEF Live
  <2>2. QED
    BY <1>3, <1>4, <2>1 DEF Live, Open
<1>7. NoSocketLost'
  <2> SUFFICES ASSUME NEW d \in Conns, Open(d), ~(Registered(d)'), kind[d] # "leaked"
               PROVE  \E u \in Threads : cur'[u] = d /\ pc'[u] \in {"upgrade", "add", "close"}
    BY <1>3 DEF NoSocketLost, Open
  <2>1. PICK u \in Threads : cur[u] = d /\ pc[u] \in {"upgrade", "add", "close"}
    BY <1>4 DEF Owners, NoSocketLost
  <2>2. u # t
    BY <1>4, <2>1
  <2>3. QED
    BY <1>3, <2>1, <2>2
<1>8. DelIsExclusive' /\ DelIsPastPoll'
  <2>1. DelIsPastPoll'
    BY <1>3, <1>5 DEF Owners, DelIsPastPoll
  <2>2. \A u, v \in Threads :
          Deleting(u)' /\ Deleting(v)' /\ fdOf'[cur'[u]] = fdOf'[cur'[v]] => u = v
    BY <1>3, <1>5, Exclusive DEF Owners
  <2>3. QED
    BY <2>1, <2>2 DEF DelIsExclusive, Deleting
<1>9. PolledIsLive'
  <2>1. \A f \in epoll' : Live(f)'
    BY <1>3, <1>6 DEF Owners, PolledIsLive
  <2>2. ASSUME NEW u \in Threads, Deleting(u)' PROVE \E f : f = fdOf'[cur'[u]] /\ Live(f)'
    <3>1. Live(fdOf[cur[u]])
      BY <1>5, <2>2 DEF Owners, PolledIsLive
    <3>2. PICK f : f = fdOf[cur[u]]
      OBVIOUS
    <3>3. QED
      BY <1>3, <1>6, <3>1, <3>2
  <2>3. QED
    BY <2>1, <2>2, LiveAgain
<1>10. QED
  BY <1>7, <1>8, <1>9 DEF Owners

(* A socket that is neither registered nor about to be is closed. *)
LEMMA ClosedOwners ==
  ASSUME IInv, Owners, NEW c \in Known, ~Registered(c),
         sock' = [sock EXCEPT ![c] = "closed"], epoll' \subseteq epoll,
         UNCHANGED <<fdOf, kind, conns, cur>>,
         \A u \in Threads : pc[u] \in Private /\ cur[u] # c => pc'[u] = pc[u],
         \A u \in Threads : pc[u] = "add" => cur[u] # c,
         \A u \in Threads : Deleting(u)' => Deleting(u)
  PROVE  Owners'
<1> USE DEF IInv, TypeOK, ObjectsOK, TablesOK
<1>1. \A d \in Conns : sock'[d] = IF d = c THEN "closed" ELSE sock[d]
  OBVIOUS
<1>2. \A d \in Conns : Registered(d) => Registered(d)' /\ d # c
  BY <1>1 DEF Registered, Known
<1>3. ASSUME NEW f, Live(f) PROVE Live(f)'
  <2>1. PICK d \in Conns : /\ Open(d) /\ fdOf[d] = f
                           /\ Registered(d) \/ \E u \in Threads : cur[u] = d /\ pc[u] = "add"
    BY <1>3 DEF Live
  <2>2. d # c
    BY <1>2, <2>1
  <2>3. \A u \in Threads : cur[u] = d /\ pc[u] = "add" => pc'[u] = "add"
    BY <2>2 DEF Private
  <2>4. QED
    BY <1>1, <1>2, <2>1, <2>2, <2>3 DEF Live, Open
<1>4. NoSocketLost'
  <2> SUFFICES ASSUME NEW d \in Conns, Open(d)', ~(Registered(d)'), kind[d] # "leaked"
               PROVE  \E u \in Threads : cur[u] = d /\ pc'[u] \in {"upgrade", "add", "close"}
    BY DEF NoSocketLost
  <2>1. d # c /\ Open(d) /\ ~Registered(d)
    BY <1>1, <1>2 DEF Open
  <2>2. QED
    BY <2>1 DEF Owners, NoSocketLost, Private
<1>5. DelIsExclusive' /\ DelIsPastPoll'
  <2>1. DelIsPastPoll'
    BY DEF Owners, DelIsPastPoll
  <2>2. \A u, v \in Threads :
          Deleting(u)' /\ Deleting(v)' /\ fdOf'[cur'[u]] = fdOf'[cur'[v]] => u = v
    BY Exclusive DEF Owners
  <2>3. QED
    BY <2>1, <2>2 DEF DelIsExclusive, Deleting
<1>6. PolledIsLive'
  <2>1. \A f \in epoll' : Live(f)'
    BY <1>3 DEF Owners, PolledIsLive
  <2>2. ASSUME NEW u \in Threads, Deleting(u)' PROVE \E f : f = fdOf'[cur'[u]] /\ Live(f)'
    <3>1. Live(fdOf[cur[u]])
      BY <2>2 DEF Owners, PolledIsLive
    <3>2. PICK f : f = fdOf[cur[u]]
      OBVIOUS
    <3>3. QED
      BY <1>3, <3>1, <3>2
  <2>3. QED
    BY <2>1, <2>2, LiveAgain
<1>7. QED
  BY <1>4, <1>5, <1>6 DEF Owners

(* A socket is opened on a free descriptor: no Del can be on its way there. *)
LEMMA OpenedOwners ==
  ASSUME IInv, Owners, NEW t \in Threads, NEW c \in Conns, NEW fd \in Fds,
         sock[c] = "new", Socket(c, fd), conns' = conns,
         \A d \in Conns : d # c => kind'[d] = kind[d],
         kind'[c] = "leaked" \/ (cur'[t] = c /\ pc'[t] \in {"upgrade", "add"}),
         \/ epoll' = epoll
         \/ epoll' = epoll \cup {fd} /\ cur'[t] = c /\ pc'[t] = "add",
         pc[t] \notin Private, ~(Deleting(t)'), \A u \in Threads \ {t} : Still(u)
  PROVE  Owners'
<1> USE DEF IInv, TypeOK, ObjectsOK
<1>1. /\ \A d \in Conns : sock'[d] = IF d = c THEN "open" ELSE sock[d]
      /\ \A d \in Conns : fdOf'[d] = IF d = c THEN fd ELSE fdOf[d]
      /\ FdFree(fd)
  BY DEF Socket
<1>2. \A d \in Conns : Registered(d) => d # c /\ Registered(d)'
  BY <1>1 DEF Registered, Known
<1>3. \A u \in Threads : pc[u] \in Private => u # t /\ pc'[u] = pc[u] /\ cur'[u] = cur[u]
  BY DEF Still
<1>4. ASSUME NEW f, Live(f) PROVE f # fd /\ Live(f)'
  <2>1. PICK d \in Conns : /\ Open(d) /\ fdOf[d] = f
                           /\ Registered(d) \/ \E u \in Threads : cur[u] = d /\ pc[u] = "add"
    BY <1>4 DEF Live
  <2>2. d # c /\ f # fd
    BY <1>1, <2>1 DEF Open, FdFree
  <2>3. \A u \in Threads : pc[u] = "add" => pc'[u] = "add" /\ cur'[u] = cur[u]
    BY <1>3 DEF Private
  <2>4. QED
    BY <1>1, <1>2, <2>1, <2>2, <2>3 DEF Live, Open
<1>5. ASSUME NEW u \in Threads, Deleting(u)'
      PROVE  /\ Deleting(u) /\ cur'[u] = cur[u] /\ Live(fdOf[cur[u]])
             /\ fdOf'[cur'[u]] = fdOf[cur[u]] /\ fdOf[cur[u]] # fd
  <2>1. Deleting(u) /\ cur'[u] = cur[u]
    BY <1>5 DEF Still
  <2>2. cur[u] \in Known /\ cur[u] # c
    BY <2>1 DEF ControlOK, Deleting, Known
  <2>3. Live(fdOf[cur[u]])
    BY <2>1 DEF Owners, PolledIsLive
  <2>4. QED
    BY <1>1, <1>4, <2>1, <2>2, <2>3 DEF Known
<1>6. NoSocketLost'
  <2> SUFFICES ASSUME NEW d \in Conns, Open(d)'
               PROVE  \/ Registered(d)'
                      \/ kind'[d] = "leaked"
                      \/ \E u \in Threads : cur'[u] = d /\ pc'[u] \in {"upgrade", "add", "close"}
    BY DEF NoSocketLost
  <2>1. CASE d = c
    BY <2>1
  <2>2. CASE d # c
    BY <1>1, <1>2, <1>3, <2>2 DEF Owners, NoSocketLost, Open, Private
  <2>3. QED
    BY <2>1, <2>2
<1>7. DelIsPastPoll'
  BY <1>5 DEF Owners, DelIsPastPoll
<1>8. DelIsExclusive'
  <2>1. \A u, v \in Threads :
          Deleting(u)' /\ Deleting(v)' /\ fdOf'[cur'[u]] = fdOf'[cur'[v]] => u = v
    BY <1>5, Exclusive DEF Owners
  <2>2. QED
    BY <2>1 DEF DelIsExclusive, Deleting
<1>9. PolledIsLive'
  <2>1. ASSUME NEW f \in epoll' PROVE Live(f)'
    <3>1. CASE f \in epoll
      BY <1>4, <3>1 DEF Owners, PolledIsLive
    <3>2. CASE f \notin epoll
      BY <1>1, <2>1, <3>2 DEF Live, Open
    <3>3. QED
      BY <3>1, <3>2
  <2>2. ASSUME NEW u \in Threads, Deleting(u)' PROVE \E f : f = fdOf'[cur'[u]] /\ Live(f)'
    <3>1. PICK f : f = fdOf[cur[u]]
      OBVIOUS
    <3>2. f = fdOf'[cur'[u]] /\ Live(f)
      BY <1>5, <2>2, <3>1
    <3>3. QED
      BY <1>4, <3>2
  <2>3. QED
    BY <2>1, <2>2, LiveAgain
<1>10. QED
  BY <1>6, <1>7, <1>8, <1>9 DEF Owners

(* The websocket path polls the socket the loop has had in hand since Accept. *)
LEMMA UpgradedOwners ==
  ASSUME IInv, Owners, LoopUpgraded
  PROVE  Owners'
<1> USE DEF IInv, TypeOK, ObjectsOK
<1>1. PICK c \in Known, fd \in Fds : c = cur["loop"] /\ fd = fdOf[c]
  BY DEF LoopUpgraded, At, ControlOK, Threads, Known
<1>2. /\ pc["loop"] = "upgrade" /\ pc'["loop"] = "add"
      /\ \A u \in Threads : u # "loop" => pc'[u] = pc[u]
      /\ epoll' = epoll \cup {fd} /\ UNCHANGED <<sock, fdOf, kind, conns, cur>>
  BY <1>1 DEF LoopUpgraded, At, Goto, ControlOK, Threads, objects
<1>3. "loop" \in Threads
  BY DEF Threads
<1>4. Open(c) /\ ~Registered(c)
  BY <1>1, <1>2, <1>3 DEF PrivateIsOpen, Private
<1>5. ~Live(fd)
  <2> SUFFICES ASSUME Live(fd) PROVE FALSE
    OBVIOUS
  <2>1. PICK d \in Conns : /\ Open(d) /\ fdOf[d] = fd
                           /\ Registered(d) \/ \E u \in Threads : cur[u] = d /\ pc[u] = "add"
    BY DEF Live
  <2>2. d = c
    BY <1>1, <1>4, <2>1 DEF OneSocketPerFd, Known
  <2>3. PICK u \in Threads : cur[u] = c /\ pc[u] = "add"
    BY <1>4, <2>1, <2>2
  <2>4. u = "loop"
    BY <1>1, <1>2, <1>3, <2>3 DEF PrivateIsExclusive, Private
  <2>5. QED
    BY <1>2, <2>3, <2>4
<1>6. \A u \in Threads : pc[u] = "add" => pc'[u] = "add"
  BY <1>2
<1>7. ASSUME NEW f, Live(f) PROVE Live(f)'
  <2>1. PICK d \in Conns : /\ Open(d) /\ fdOf[d] = f
                           /\ Registered(d) \/ \E u \in Threads : cur[u] = d /\ pc[u] = "add"
    BY <1>7 DEF Live
  <2>2. Registered(d) => Registered(d)'
    BY <1>2 DEF Registered, Known
  <2>3. QED
    BY <1>2, <1>6, <2>1, <2>2 DEF Live, Open
<1>8. \A u \in Threads : Deleting(u)' <=> Deleting(u)
  BY <1>2, <1>3 DEF Deleting
<1>9. ASSUME NEW u \in Threads, Deleting(u) PROVE Live(fdOf[cur[u]]) /\ fdOf[cur[u]] # fd
  BY <1>5, <1>9 DEF Owners, PolledIsLive
<1>10. NoSocketLost'
  <2>1. \A d \in Conns : Registered(d) => Registered(d)'
    BY <1>2 DEF Registered, Known
  <2>2. \A u \in Threads : pc[u] \in {"upgrade", "add", "close"}
                             => pc'[u] \in {"upgrade", "add", "close"}
    BY <1>2
  <2>3. QED
    BY <1>2, <2>1, <2>2 DEF Owners, NoSocketLost, Open
<1>11. DelIsPastPoll'
  BY <1>2, <1>8, <1>9 DEF Owners, DelIsPastPoll
<1>12. DelIsExclusive'
  <2>1. \A u, v \in Threads :
          Deleting(u)' /\ Deleting(v)' /\ fdOf'[cur'[u]] = fdOf'[cur'[v]] => u = v
    BY <1>2, <1>8, Exclusive DEF Owners
  <2>2. QED
    BY <2>1 DEF DelIsExclusive, Deleting
<1>13. PolledIsLive'
  <2>1. ASSUME NEW f \in epoll' PROVE Live(f)'
    <3>1. CASE f \in epoll
      BY <1>7, <3>1 DEF Owners, PolledIsLive
    <3>2. CASE f = fd
      BY <1>1, <1>2, <1>3, <1>4, <3>2 DEF Live, Open, Known
    <3>3. QED
      BY <1>2, <3>1, <3>2
  <2>2. ASSUME NEW u \in Threads, Deleting(u)' PROVE \E f : f = fdOf'[cur'[u]] /\ Live(f)'
    <3>1. PICK f : f = fdOf[cur[u]]
      OBVIOUS
    <3>2. f = fdOf'[cur'[u]] /\ Live(f)
      BY <1>2, <1>8, <1>9, <2>2, <3>1
    <3>3. QED
      BY <1>7, <3>2
  <2>3. QED
    BY <2>1, <2>2, LiveAgain
<1>14. QED
  BY <1>10, <1>11, <1>12, <1>13 DEF Owners

(***************************************************************************)
(* Every step.                                                             *)
(***************************************************************************)
LEMMA OwnersStep ==
  ASSUME IInv, Owners, [Next]_vars
  PROVE  Owners'
<1> USE DEF IInv, TypeOK
<1>1. ASSUME NEW t \in Threads, NEW c \in Known, DelEpoll(t, c), pc[t] \in {"run", "read"}
      PROVE  Owners'
  BY <1>1, DelEpollOwners
<1>2. ASSUME NEW t \in Threads, NEW c \in Known, Write(t, c), pc[t] = "run"
      PROVE  Owners'
  <2>1. CASE WriteOk(c)
    BY <2>1, OwnersStay DEF WriteOk, tables, Still, Deleting
  <2>2. QED
    BY <1>1, <1>2, <2>1 DEF Write
<1>3. ASSUME NEW t \in Threads, Del(t)
      PROVE  Owners'
  <2>1. CASE DelDecr(t)
    <3>1. \A u \in Threads : Still(u)
      BY <2>1 DEF DelDecr, At, Goto, Still, Private, Deleting, ControlOK
    <3>2. QED
      BY <2>1, <3>1, OwnersStay DEF DelDecr, objects
  <2>2. CASE DelUnmap(t)
    BY <2>2, DelUnmapOwners
  <2>3. CASE DelPanic(t)
    <3>1. \A u \in Threads : Still(u)
      BY <2>3 DEF DelPanic, At, Goto, Still, Private, Deleting, ControlOK
    <3>2. QED
      BY <2>3, <3>1, OwnersStay DEF DelPanic, objects, tables
  <2>4. CASE DelClose(t)
    <3>1. PICK c \in Known : c = cur[t]
      BY <2>4 DEF DelClose, At, ControlOK
    <3>2. pc[t] = "close" /\ pc'[t] = "run" /\ \A u \in Threads \ {t} : pc'[u] = pc[u]
      BY <2>4 DEF DelClose, At, Goto, ControlOK
    <3>3. ~Registered(c) /\ \A u \in Threads : pc[u] = "add" => cur[u] # c
      BY <3>1, <3>2 DEF PrivateIsOpen, PrivateIsExclusive, Private
    <3>4. /\ \A u \in Threads : pc[u] \in Private /\ cur[u] # c => pc'[u] = pc[u]
          /\ \A u \in Threads : Deleting(u)' => Deleting(u)
      BY <3>1, <3>2 DEF Deleting
    <3>5. sock' = [sock EXCEPT ![c] = "closed"] /\ epoll' \subseteq epoll
      BY <2>4, <3>1 DEF DelClose
    <3>6. QED
      BY <2>4, <3>3, <3>4, <3>5, ClosedOwners DEF DelClose
  <2>5. QED
    BY <1>3, <2>1, <2>2, <2>3, <2>4 DEF Del
<1>4. ASSUME NEW t \in Threads, Add(t)
      PROVE  Owners'
  <2>1. CASE IncrConnNum(t)
    <3>1. \A u \in Threads : Still(u)
      BY <2>1 DEF IncrConnNum, At, Goto, Still, Private, Deleting, ControlOK
    <3>2. QED
      BY <2>1, <3>1, OwnersStay DEF IncrConnNum, objects
  <2>2. QED
    BY <1>4, <2>1, AddConnOwners DEF Add
<1>5. CASE LoopRun
  <2>0. "loop" \in Threads
    BY DEF Threads
  <2>1. ASSUME NEW c \in Conns, NEW fd \in Fds,
               LoopAcceptTcp(c, fd) \/ LoopLeakTcp(c, fd) \/ LoopAcceptWs(c, fd)
        PROVE  Owners'
    <3>1. /\ pc["loop"] = "run" /\ Socket(c, fd) /\ sock[c] = "new" /\ conns' = conns
          /\ \E k \in {"tcp", "ws", "leaked"} : kind' = [kind EXCEPT ![c] = k]
      BY <2>1 DEF LoopAcceptTcp, LoopLeakTcp, LoopAcceptWs, Event, At, Accept, UnusedIsNew, tables
    <3>2. \A d \in Conns : d # c => kind'[d] = kind[d]
      BY <3>1 DEF ObjectsOK
    <3>3. \/ /\ LoopLeakTcp(c, fd)
             /\ kind'[c] = "leaked" /\ UNCHANGED <<epoll, pc, cur>>
          \/ /\ pc' = [pc EXCEPT !["loop"] = "add"] /\ cur' = [cur EXCEPT !["loop"] = c]
             /\ epoll' = epoll \cup {fd}
          \/ /\ pc' = [pc EXCEPT !["loop"] = "upgrade"] /\ cur' = [cur EXCEPT !["loop"] = c]
             /\ epoll' = epoll
      BY <2>1 DEF LoopAcceptTcp, LoopLeakTcp, LoopAcceptWs, Accept, Begin, Goto, ObjectsOK, tables
    <3>4. \A u \in Threads \ {"loop"} : Still(u)
      BY <3>3 DEF Still, ControlOK, Deleting
    <3>5. \/ kind'[c] = "leaked" /\ epoll' = epoll
          \/ cur'["loop"] = c /\ pc'["loop"] = "add" /\ epoll' = epoll \cup {fd}
          \/ cur'["loop"] = c /\ pc'["loop"] = "upgrade" /\ epoll' = epoll
      BY <2>0, <3>3 DEF ControlOK
    <3>6. pc["loop"] \notin Private /\ ~(Deleting("loop")')
      BY <2>0, <3>1, <3>3 DEF ControlOK, Deleting, Private
    <3>7. QED
      BY <2>0, <3>1, <3>2, <3>4, <3>5, <3>6, OpenedOwners
  <2>2. CASE LoopUpgradeFails
    <3>1. PICK c \in Known : c = cur["loop"]
      BY <2>0, <2>2 DEF LoopUpgradeFails, At, ControlOK
    <3>2. /\ pc["loop"] = "upgrade" /\ pc'["loop"] = "run"
          /\ \A u \in Threads \ {"loop"} : pc'[u] = pc[u]
      BY <2>0, <2>2 DEF LoopUpgradeFails, At, Goto, ControlOK
    <3>3. ~Registered(c) /\ \A u \in Threads : pc[u] = "add" => cur[u] # c
      BY <2>0, <3>1, <3>2 DEF PrivateIsOpen, PrivateIsExclusive, Private
    <3>4. /\ \A u \in Threads : pc[u] \in Private /\ cur[u] # c => pc'[u] = pc[u]
          /\ \A u \in Threads : Deleting(u)' => Deleting(u)
      BY <3>1, <3>2 DEF Deleting
    <3>5. sock' = [sock EXCEPT ![c] = "closed"] /\ epoll' \subseteq epoll
      BY <2>2, <3>1 DEF LoopUpgradeFails, tables
    <3>6. QED
      BY <2>2, <3>3, <3>4, <3>5, ClosedOwners DEF LoopUpgradeFails, tables
  <2>3. CASE LoopReadOk
    <3>1. \A u \in Threads : Still(u)
      BY <2>3 DEF LoopReadOk, At, Goto, Still, Private, Deleting, ControlOK
    <3>2. QED
      BY <2>3, <3>1, OwnersStay DEF LoopReadOk, tables
  <2>4. CASE LoopReadErr
    <3>1. cur["loop"] \in Known /\ pc["loop"] = "read"
      BY <2>0, <2>4 DEF LoopReadErr, DelEpoll, Begin, At, ControlOK
    <3>2. QED
      BY <1>1, <2>0, <2>4, <3>1 DEF LoopReadErr
  <2>5. ASSUME NEW e \in batch, LoopEvent(e)
        PROVE  Owners'
    <3>1. \A u \in Threads : Still(u)
      BY <2>5 DEF LoopEvent, Event, At, Begin, Goto, Still, Private, Deleting, ControlOK
    <3>2. QED
      BY <2>5, <3>1, OwnersStay DEF LoopEvent, objects, tables
  <2>6. ASSUME LoopWait \/ \E e \in batch : LoopAcceptFails(e)
        PROVE  Owners'
    BY <2>6, OwnersStay DEF LoopWait, LoopAcceptFails, objects, tables, Still, Deleting
  <2>7. QED
    BY <1>5, <2>1, <2>2, <2>3, <2>4, <2>5, <2>6, UpgradedOwners DEF LoopRun
<1>6. CASE CheckTimeout
  <2>1. CASE TimeoutScan
    BY <2>1, OwnersStay DEF TimeoutScan, objects, tables, Still, Deleting
  <2>2. ASSUME NEW c \in expired, TimeoutDel(c)
        PROVE  Owners'
    BY <1>1, <2>2 DEF TimeoutDel, At, QueuesOK, Threads
  <2>3. QED
    BY <1>6, <2>1, <2>2 DEF CheckTimeout
<1>7. CASE ConnTick
  <2>1. CASE TickSnapshot
    BY <2>1, OwnersStay DEF TickSnapshot, objects, tables, Still, Deleting
  <2>2. ASSUME NEW c \in beats, TickWrite(c)
        PROVE  Owners'
    BY <1>2, <2>2 DEF TickWrite, At, QueuesOK, Threads
  <2>3. QED
    BY <1>7, <2>1, <2>2 DEF ConnTick
<1>8. ASSUME NEW h \in Handlers, Handler(h)
      PROVE  Owners'
  <2>0. h \in Threads
    BY DEF Threads
  <2>1. CASE HandlerDialFails(h)
    <3>1. \A u \in Threads : Still(u)
      BY <2>1 DEF HandlerDialFails, At, Goto, Still, Private, Deleting, ControlOK
    <3>2. QED
      BY <2>1, <3>1, OwnersStay DEF HandlerDialFails, objects, tables
  <2>2. ASSUME NEW c \in held, HandlerWrite(h, c)
        PROVE  Owners'
    BY <1>2, <2>0, <2>2 DEF HandlerWrite, At, QueuesOK
  <2>3. ASSUME NEW s \in Svids, HandlerFound(h, s)
        PROVE  Owners'
    BY <2>3, OwnersStay DEF HandlerFound, objects, tables, Still, Deleting
  <2>4. ASSUME NEW s \in Svids, NEW c \in Conns, HandlerMiss(h, s, c)
        PROVE  Owners'
    <3>1. \A u \in Threads : Still(u)
      BY <2>4 DEF HandlerMiss, At, Begin, Goto, Still, Private, Deleting, ControlOK
    <3>2. \A d \in Conns : kind[d] = "leaked" => kind'[d] = "leaked"
      BY <2>4 DEF HandlerMiss, ObjectsOK
    <3>3. QED
      BY <2>4, <3>1, <3>2, OwnersStay DEF HandlerMiss, tables
  <2>5. ASSUME NEW fd \in Fds, HandlerDial(h, fd)
        PROVE  Owners'
    <3>1. PICK c \in Conns : c = cur[h]
      BY <2>0, <2>5 DEF HandlerDial, At, ControlOK
    <3>2. pc[h] = "dial" /\ sock[c] = "new" /\ Socket(c, fd)
      BY <2>0, <2>5, <3>1 DEF HandlerDial, At, DialledIsNew
    <3>3. /\ epoll' = epoll \cup {fd} /\ cur'[h] = c /\ pc'[h] = "add"
          /\ UNCHANGED <<kind, conns>>
      BY <2>0, <2>5, <3>1 DEF HandlerDial, Goto, ControlOK
    <3>4. \A u \in Threads \ {h} : Still(u)
      BY <2>5 DEF HandlerDial, Goto, Still, ControlOK, Deleting
    <3>5. pc[h] \notin Private /\ ~(Deleting(h)')
      BY <3>2, <3>3 DEF Private, Deleting
    <3>6. QED
      BY <2>0, <3>2, <3>3, <3>4, <3>5, OpenedOwners
  <2>6. QED
    BY <1>8, <2>1, <2>2, <2>3, <2>4, <2>5 DEF Handler
<1>9. ASSUME NEW c \in Conns, Finalize(c)
      PROVE  Owners'
  <2>1. c \in Known /\ ~Registered(c)
    BY <1>9 DEF Finalize, Open, Known, LeakedIsUnregistered
  <2>2. \A u \in Threads : pc[u] = "add" => cur[u] # c
    BY <1>9 DEF Finalize, PrivateIsOpen, Private
  <2>3. QED
    BY <1>9, <2>1, <2>2, ClosedOwners DEF Finalize, tables, Deleting
<1>10. CASE \/ \E c \in Conns : GoIdle(c)
            \/ UNCHANGED vars
  BY <1>10, OwnersStay DEF GoIdle, vars, objects, tables, Still, Deleting
<1>11. QED
  BY <1>3, <1>4, <1>5, <1>6, <1>7, <1>8, <1>9, <1>10 DEF Next

LEMMA OwnersInvariant == Spec => []Owners
<1>1. Init => Owners
  BY DEF Init, Owners, NoSocketLost, DelIsExclusive, DelIsPastPoll, PolledIsLive, Deleting, Open, Threads
<1>2. QED
  BY Invariance, OwnersStep, <1>1, PTL DEF Spec

(***************************************************************************)
(* One business goroutine: GetServer looks and dials, and nobody else      *)
(* fills in servers between the two.                                       *)
(***************************************************************************)

\* Only the goroutine that missed a server is about to register one for it.
DiallingAlone(h) ==
  /\ \A c \in Conns : kind[c] = "none" => svid[c] = NoSvid
  /\ \A t \in Threads :
       pc[t] \in {"dial", "upgrade", "add"} /\ svid[cur[t]] # NoSvid
         => t = h /\ servers[svid[cur[t]]] = NoConn

OneDialler(h) == OneConnPerServer /\ DiallingAlone(h)

(* Steps that register nothing and take up no connection. *)
LEMMA DiallerStays ==
  ASSUME NEW h, OneDialler(h), UNCHANGED <<svid, servers>>,
         \A c \in Conns : kind'[c] = "none" => kind[c] = "none",
         \A c \in Conns : Registered(c)' => Registered(c),
         \A t \in Threads : pc'[t] \in {"dial", "upgrade", "add"}
            => pc[t] \in {"dial", "upgrade", "add"} /\ cur'[t] = cur[t]
  PROVE  OneDialler(h)'
BY DEF OneDialler, OneConnPerServer, DiallingAlone

LEMMA DiallerAdds ==
  ASSUME IInv, NEW h, OneDialler(h), NEW t \in Threads, AddConn(t)
  PROVE  OneDialler(h)'
<1> USE DEF IInv, TypeOK, OneDialler
<1>1. PICK c \in Known, fd \in Fds : c = cur[t] /\ fd = fdOf[c]
  BY DEF AddConn, At, ControlOK, ObjectsOK
<1>2. /\ conns' = [conns EXCEPT ![fd] = c]
      /\ servers' = IF svid[c] = NoSvid THEN servers ELSE [servers EXCEPT ![svid[c]] = c]
      /\ pc[t] = "add" /\ pc'[t] \in {"run", "incr"}
      /\ \A u \in Threads \ {t} : pc'[u] = pc[u]
      /\ UNCHANGED <<sock, fdOf, kind, svid, cur>>
  BY <1>1 DEF AddConn, At, Goto, ControlOK, objects
<1>3. \A d \in Conns : Registered(d)' /\ d # c => Registered(d)
  BY <1>2 DEF Registered, Known, ObjectsOK, TablesOK
<1>4. svid[c] # NoSvid => t = h /\ servers[svid[c]] = NoConn /\ svid[c] \in Svids
  BY <1>1, <1>2 DEF DiallingAlone, ObjectsOK, Known
<1>5. OneConnPerServer'
  <2> SUFFICES ASSUME NEW d \in Conns, Registered(d)', svid[d] # NoSvid
               PROVE  servers'[svid[d]] = d
    BY <1>2 DEF OneConnPerServer
  <2>1. CASE d = c
    BY <1>2, <1>4, <2>1 DEF TablesOK
  <2>2. CASE d # c
    <3>1. servers[svid[d]] = d
      BY <1>3, <2>2 DEF OneConnPerServer
    <3>2. svid[c] # NoSvid => svid[d] # svid[c]
      BY <1>4, <3>1, ConstantsAssumption
    <3>3. QED
      BY <1>2, <3>1, <3>2 DEF TablesOK, ObjectsOK
  <2>3. QED
    BY <2>1, <2>2
<1>6. DiallingAlone(h)'
  <2> SUFFICES ASSUME NEW u \in Threads, pc'[u] \in {"dial", "upgrade", "add"}, svid[cur[u]] # NoSvid
               PROVE  u = h /\ servers'[svid[cur[u]]] = NoConn
    BY <1>2 DEF DiallingAlone
  <2>1. u # t /\ pc'[u] = pc[u]
    BY <1>2
  <2>2. u = h /\ servers[svid[cur[u]]] = NoConn
    BY <2>1 DEF DiallingAlone
  <2>3. svid[c] = NoSvid
    BY <1>4, <2>1, <2>2
  <2>4. QED
    BY <1>2, <2>2, <2>3
<1>7. QED
  BY <1>5, <1>6

LEMMA DiallerRemoves ==
  ASSUME IInv, NEW h, OneDialler(h), NEW t \in Threads, DelUnmap(t)
  PROVE  OneDialler(h)'
<1> USE DEF IInv, TypeOK, OneDialler
<1>1. PICK fd \in Fds, c \in Conns : /\ fd = fdOf[cur[t]] /\ c = conns[fd] /\ fdOf[c] = fd
                                    /\ Registered(c)
  <2>1. /\ fdOf[cur[t]] \in Fds /\ conns[fdOf[cur[t]]] \in Conns
        /\ Open(conns[fdOf[cur[t]]]) /\ fdOf[conns[fdOf[cur[t]]]] = fdOf[cur[t]]
    BY DEF DelUnmap, At, ControlOK, ObjectsOK, TablesOK, RegisteredIsOpen, Known
  <2>2. QED
    BY <2>1 DEF Registered, Known, Open
<1>2. /\ conns' = [conns EXCEPT ![fd] = NoConn]
      /\ servers' = IF svid[c] = NoSvid THEN servers ELSE [servers EXCEPT ![svid[c]] = NoConn]
      /\ pc'[t] = "close"
      /\ \A u \in Threads \ {t} : pc'[u] = pc[u] /\ cur'[u] = cur[u]
      /\ UNCHANGED <<sock, fdOf, kind, svid>>
  BY <1>1 DEF DelUnmap, At, Begin, Goto, ControlOK, objects
<1>3. \A d \in Conns : Registered(d)' => Registered(d) /\ d # c
  BY <1>1, <1>2, ConstantsAssumption DEF Registered, Known, ObjectsOK, TablesOK
<1>4. OneConnPerServer'
  <2> SUFFICES ASSUME NEW d \in Conns, Registered(d)', svid[d] # NoSvid
               PROVE  servers'[svid[d]] = d
    BY <1>2 DEF OneConnPerServer
  <2>1. d # c /\ servers[svid[d]] = d
    BY <1>3 DEF OneConnPerServer
  <2>2. svid[c] # NoSvid => svid[d] # svid[c]
    BY <1>1, <2>1 DEF OneConnPerServer
  <2>3. QED
    BY <1>2, <2>1, <2>2 DEF TablesOK, ObjectsOK
<1>5. DiallingAlone(h)'
  <2> SUFFICES ASSUME NEW u \in Threads, pc'[u] \in {"dial", "upgrade", "add"}, svid[cur'[u]] # NoSvid
               PROVE  u = h /\ servers'[svid[cur'[u]]] = NoConn
    BY <1>2 DEF DiallingAlone
  <2>1. u # t /\ pc'[u] = pc[u] /\ cur'[u] = cur[u]
    BY <1>2
  <2>2. u = h /\ servers[svid[cur[u]]] = NoConn
    BY <2>1 DEF DiallingAlone
  <2>3. QED
    BY <1>2, <2>1, <2>2 DEF TablesOK
<1>6. QED
  BY <1>4, <1>5

LEMMA DiallerStep ==
  ASSUME IInv, NEW h, Handlers = {h}, OneDialler(h), [Next]_vars
  PROVE  OneDialler(h)'
<1> USE DEF IInv, TypeOK
<1> DEFINE Taking(u) == pc[u] \in {"dial", "upgrade", "add"}
<1>1. ASSUME NEW t \in Threads, NEW c, DelEpoll(t, c)
      PROVE  OneDialler(h)'
  BY <1>1, DiallerStays DEF DelEpoll, Begin, Goto, objects, Registered, Known, ControlOK
<1>2. ASSUME NEW t \in Threads, NEW c, Write(t, c)
      PROVE  OneDialler(h)'
  BY <1>1, <1>2, DiallerStays DEF Write, WriteOk, tables, Registered, Known
<1>3. ASSUME NEW t \in Threads, Del(t)
      PROVE  OneDialler(h)'
  <2>1. CASE DelDecr(t) \/ DelPanic(t)
    BY <2>1, DiallerStays DEF DelDecr, DelPanic, Goto, objects, tables, Registered, Known, ControlOK
  <2>2. CASE DelClose(t)
    <3>1. \A c \in Conns : sock'[c] = "new" => sock[c] = "new"
      BY <2>2 DEF DelClose, ObjectsOK
    <3>2. \A c \in Conns : Registered(c)' => Registered(c)
      <4>1. cur[t] \in Known
        BY <2>2 DEF DelClose, At, ControlOK
      <4>2. \A c \in Conns : sock'[c] # "new" => sock[c] # "new"
        BY <2>2, <4>1 DEF DelClose, ObjectsOK, Known
      <4>3. QED
        BY <2>2, <4>2 DEF DelClose, Registered, Known
    <3>3. QED
      BY <2>2, <3>2, DiallerStays DEF DelClose, Goto, ControlOK
  <2>3. QED
    BY <1>3, <2>1, <2>2, DiallerRemoves DEF Del
<1>4. ASSUME NEW t \in Threads, Add(t)
      PROVE  OneDialler(h)'
  <2>1. CASE IncrConnNum(t)
    BY <2>1, DiallerStays DEF IncrConnNum, Goto, objects, Registered, Known, ControlOK
  <2>2. QED
    BY <1>4, <2>1, DiallerAdds DEF Add
<1>5. CASE LoopRun
  <2>0. "loop" \in Threads
    BY DEF Threads
  <2>1. ASSUME NEW c \in Conns, NEW fd \in Fds,
               LoopAcceptTcp(c, fd) \/ LoopLeakTcp(c, fd) \/ LoopAcceptWs(c, fd)
        PROVE  OneDialler(h)'
    <3>1. /\ Socket(c, fd) /\ kind[c] = "none" /\ sock[c] = "new" /\ UNCHANGED <<svid, conns, servers>>
          /\ \E k \in {"tcp", "ws", "leaked"} : kind' = [kind EXCEPT ![c] = k]
      BY <2>1 DEF LoopAcceptTcp, LoopLeakTcp, LoopAcceptWs, Accept, UnusedIsNew, tables
    <3>2. \A d \in Conns : kind'[d] = "none" => kind[d] = "none"
      BY <3>1 DEF ObjectsOK
    <3>3. \A d \in Conns : Registered(d)' => Registered(d)
      <4>1. conns[fd] # c
        BY <3>1, ConstantsAssumption DEF RegisteredIsOpen, Open, TablesOK
      <4>2. QED
        BY <3>1, <4>1 DEF Socket, Registered, Known, ObjectsOK
    <3>4. \A u \in Threads : \/ pc'[u] = pc[u] /\ cur'[u] = cur[u]
                            \/ cur'[u] = c
      BY <2>0, <2>1 DEF LoopAcceptTcp, LoopLeakTcp, LoopAcceptWs, Begin, Goto, ControlOK
    <3>5. svid[c] = NoSvid
      BY <3>1 DEF OneDialler, DiallingAlone
    <3>6. OneConnPerServer'
      BY <3>1, <3>3 DEF OneDialler, OneConnPerServer
    <3>7. DiallingAlone(h)'
      BY <3>1, <3>2, <3>4, <3>5 DEF OneDialler, DiallingAlone
    <3>8. QED
      BY <3>6, <3>7 DEF OneDialler
  <2>2. CASE LoopUpgradeFails
    <3>1. cur["loop"] \in Known
      BY <2>0, <2>2 DEF LoopUpgradeFails, At, ControlOK
    <3>2. \A c \in Conns : sock'[c] # "new" => sock[c] # "new"
      BY <2>2, <3>1 DEF LoopUpgradeFails, ObjectsOK, Known
    <3>3. QED
      BY <2>2, <3>2, DiallerStays DEF LoopUpgradeFails, tables, Goto, ControlOK, Registered, Known
  <2>3. CASE LoopUpgraded
    BY <2>0, <2>3, DiallerStays DEF LoopUpgraded, At, Goto, objects, ControlOK, Registered, Known
  <2>4. CASE LoopReadOk
    BY <2>4, DiallerStays DEF LoopReadOk, Goto, tables, ControlOK, Registered, Known
  <2>5. CASE LoopReadErr
    BY <1>1, <2>0, <2>5 DEF LoopReadErr
  <2>6. ASSUME NEW e \in batch, LoopEvent(e)
        PROVE  OneDialler(h)'
    BY <2>6, DiallerStays DEF LoopEvent, Begin, Goto, objects, tables, ControlOK, Registered, Known
  <2>7. ASSUME LoopWait \/ \E e \in batch : LoopAcceptFails(e)
        PROVE  OneDialler(h)'
    BY <2>7, DiallerStays DEF LoopWait, LoopAcceptFails, objects, tables, Registered, Known
  <2>8. QED
    BY <1>5, <2>1, <2>2, <2>3, <2>4, <2>5, <2>6, <2>7 DEF LoopRun
<1>6. CASE CheckTimeout \/ ConnTick
  <2>1. CASE TimeoutScan \/ TickSnapshot
    BY <2>1, DiallerStays DEF TimeoutScan, TickSnapshot, objects, tables, Registered, Known
  <2>2. QED
    BY <1>1, <1>2, <1>6, <2>1 DEF CheckTimeout, ConnTick, TimeoutDel, TickWrite, Threads
<1>7. CASE Handler(h)
  <2>0. h \in Threads /\ h \in Handlers
    BY DEF Threads
  <2>1. CASE HandlerDialFails(h)
    BY <2>1, DiallerStays DEF HandlerDialFails, Goto, objects, tables, ControlOK, Registered, Known
  <2>2. ASSUME NEW c \in held, HandlerWrite(h, c)
        PROVE  OneDialler(h)'
    BY <1>2, <2>0, <2>2 DEF HandlerWrite
  <2>3. ASSUME NEW s \in Svids, HandlerFound(h, s)
        PROVE  OneDialler(h)'
    BY <2>3, DiallerStays DEF HandlerFound, objects, tables, Registered, Known
  <2>4. ASSUME NEW s \in Svids, NEW c \in Conns, HandlerMiss(h, s, c)
        PROVE  OneDialler(h)'
    <3>1. /\ \A d \in Conns : kind'[d] = IF d = c THEN "out" ELSE kind[d]
          /\ \A d \in Conns : svid'[d] = IF d = c THEN s ELSE svid[d]
          /\ sock[c] = "new" /\ kind[c] = "none" /\ servers[s] = NoConn
          /\ UNCHANGED <<sock, fdOf, conns, servers>>
      BY <2>4 DEF HandlerMiss, ObjectsOK, tables, UnusedIsNew
    <3>2. \A d \in Conns : Registered(d)' => Registered(d) /\ d # c
      BY <3>1 DEF Registered, Known
    <3>3. \A u \in Threads :
            /\ u = h => pc'[u] = "dial" /\ cur'[u] = c
            /\ u # h => pc'[u] = pc[u] /\ cur'[u] = cur[u]
      BY <2>0, <2>4 DEF HandlerMiss, Begin, Goto, ControlOK
    <3>4. \A u \in Threads : Taking(u) => cur[u] \in Conns /\ cur[u] # c
      BY <3>1 DEF DialledIsNew, PrivateIsOpen, Private, ControlOK, Known
    <3>5. OneConnPerServer'
      BY <3>1, <3>2 DEF OneDialler, OneConnPerServer
    <3>6. DiallingAlone(h)'
      <4>1. ASSUME NEW d \in Conns, kind'[d] = "none" PROVE svid'[d] = NoSvid
        BY <3>1, <4>1 DEF OneDialler, DiallingAlone
      <4>2. ASSUME NEW u \in Threads, pc'[u] \in {"dial", "upgrade", "add"}, svid'[cur'[u]] # NoSvid
            PROVE  u = h /\ servers'[svid'[cur'[u]]] = NoConn
        BY <3>1, <3>3, <3>4, <4>2 DEF OneDialler, DiallingAlone
      <4>3. QED
        BY <4>1, <4>2 DEF DiallingAlone
    <3>7. QED
      BY <3>5, <3>6 DEF OneDialler
  <2>5. ASSUME NEW fd \in Fds, HandlerDial(h, fd)
        PROVE  OneDialler(h)'
    <3>1. PICK c \in Conns : c = cur[h] /\ sock[c] = "new" /\ Socket(c, fd)
      BY <2>0, <2>5 DEF HandlerDial, At, ControlOK, DialledIsNew
    <3>2. conns[fd] # c /\ conns' = conns
      BY <2>5, <3>1, ConstantsAssumption DEF HandlerDial, RegisteredIsOpen, Open, TablesOK
    <3>3. \A d \in Conns : Registered(d)' => Registered(d)
      BY <3>1, <3>2 DEF Socket, Registered, Known, ObjectsOK
    <3>4. QED
      BY <2>0, <2>5, <3>3, DiallerStays DEF HandlerDial, At, Goto, ControlOK
  <2>6. QED
    BY <1>7, <2>0, <2>1, <2>2, <2>3, <2>4, <2>5 DEF Handler
<1>8. ASSUME NEW c \in Conns, Finalize(c)
      PROVE  OneDialler(h)'
  BY <1>8, DiallerStays DEF Finalize, tables, Registered, Known, Open, ObjectsOK
<1>9. CASE \/ \E c \in Conns : GoIdle(c)
           \/ UNCHANGED vars
  BY <1>9, DiallerStays DEF GoIdle, vars, objects, tables, Registered, Known
<1>10. QED
  BY <1>3, <1>4, <1>5, <1>6, <1>7, <1>8, <1>9 DEF Next

(***************************************************************************)
(* The theorems.                                                           *)
(***************************************************************************)

\* Whatever the callers of Del and the kernel's reuse of descriptors do, the
\* success of EPOLL_CTL_DEL lets one goroutine at a time go on to the tables.
THEOREM OneDelPastEpoll == Spec => []DelIsExclusive
  BY OwnersInvariant, PTL DEF Owners

\* Every open socket is registered, or in one goroutine's hands, or the one
\* that processAcceptTcp drops when EPOLL_CTL_ADD fails.
THEOREM SocketsAreOwned == Spec => []NoSocketLost
  BY OwnersInvariant, PTL DEF Owners

\* With a single business goroutine, the server table and the connection map
\* agree both ways: GetServer never builds a second connection to a server.
THEOREM OneDiallerOneConn ==
  ASSUME NEW CONSTANT h, Handlers = {h}
  PROVE  Spec => []OneConnPerServer
<1>1. Init => OneDialler(h)
  BY DEF Init, OneDialler, OneConnPerServer, DiallingAlone, Registered, Known
<1>2. OneDialler(h) /\ IInv /\ [Next]_vars => OneDialler(h)'
  BY DiallerStep
<1>3. OneDialler(h) => OneConnPerServer
  BY DEF OneDialler
<1>4. QED
  BY Invariance, <1>1, <1>2, <1>3, PTL DEF Spec

-----------------------------------------------------------------------------
(***************************************************************************)
(* The books of connNum.                                                   *)
(***************************************************************************)

DecrThreads == {t \in Threads : pc[t] = "decr"}
IncrThreads == {t \in Threads : pc[t] = "incr"}
Uncounted   == {t \in Threads : pc[t] = "add" /\ kind[cur[t]] # "tcp"}
TcpConns    == {c \in Conns : kind[c] = "tcp"}

(* The sets are finite whatever the constants are: every step adds one member at most. *)
BooksFinite ==
  /\ IsFiniteSet(epoll) /\ IsFiniteSet(DecrThreads) /\ IsFiniteSet(IncrThreads)
  /\ IsFiniteSet(Uncounted) /\ IsFiniteSet(TcpConns)

BooksBalance ==
  connNum = Cardinality(epoll) + Cardinality(DecrThreads) - Cardinality(IncrThreads)
              - Cardinality(Uncounted) - Cardinality(TcpConns)

(* What is being upgraded did not come in by the TCP listener. *)
UpgradedIsWs == \A t \in Threads : pc[t] = "upgrade" => t = "loop" /\ kind[cur[t]] # "tcp"

Books == BooksFinite /\ BooksBalance /\ UpgradedIsWs

(* A set that gains or loses one member. *)
LEMMA OneMore ==
  ASSUME NEW S, NEW x, IsFiniteSet(S), x \notin S
  PROVE  /\ IsFiniteSet(S \cup {x}) /\ Cardinality(S \cup {x}) = Cardinality(S) + 1
         /\ Cardinality(S) \in Nat
BY FS_AddElement, FS_CardinalityType

LEMMA OneLess ==
  ASSUME NEW S, NEW x, IsFiniteSet(S), x \in S
  PROVE  /\ IsFiniteSet(S \ {x}) /\ Cardinality(S \ {x}) = Cardinality(S) - 1
         /\ Cardinality(S) \in Nat
BY FS_RemoveElement, FS_CardinalityType

(* A connection that is being added keeps its kind. *)
KindsKept == \A c \in Conns : kind'[c] # kind[c] => kind[c] = "none"

(* Where goroutine t goes. *)
LEMMA OneMoves ==
  ASSUME IInv, NEW t \in Threads, NEW label, Goto(t, label), KindsKept,
         \A u \in Threads \ {t} : cur'[u] = cur[u]
  PROVE  /\ DecrThreads' = IF label = "decr" THEN DecrThreads \cup {t} ELSE DecrThreads \ {t}
         /\ IncrThreads' = IF label = "incr" THEN IncrThreads \cup {t} ELSE IncrThreads \ {t}
         /\ Uncounted' = IF label = "add" /\ kind'[cur'[t]] # "tcp" THEN Uncounted \cup {t}
                                                                    ELSE Uncounted \ {t}
<1> USE DEF IInv, TypeOK, ControlOK
<1>1. \A u \in Threads : pc'[u] = IF u = t THEN label ELSE pc[u]
  BY DEF Goto
<1>2. DecrThreads' = IF label = "decr" THEN DecrThreads \cup {t} ELSE DecrThreads \ {t}
  BY <1>1 DEF DecrThreads
<1>3. IncrThreads' = IF label = "incr" THEN IncrThreads \cup {t} ELSE IncrThreads \ {t}
  BY <1>1 DEF IncrThreads
<1>4. \A u \in Threads \ {t} : pc[u] = "add" => kind'[cur'[u]] = kind[cur[u]]
  BY DEF PrivateIsOpen, Private, KindsKept, Known
<1>5. \A u \in Threads \ {t} : u \in Uncounted' <=> u \in Uncounted
  BY <1>1, <1>4 DEF Uncounted
<1>6. t \in Uncounted' <=> label = "add" /\ kind'[cur'[t]] # "tcp"
  BY <1>1 DEF Uncounted
<1>7. Uncounted \subseteq Threads /\ Uncounted' \subseteq Threads
  BY DEF Uncounted, Threads
<1>8. QED
  BY <1>2, <1>3, <1>5, <1>6, <1>7

(* Only processAcceptWebSocket upgrades. *)
LEMMA UpgradesStay ==
  ASSUME IInv, Books, NEW t \in Threads, NEW label, Goto(t, label), label # "upgrade", KindsKept,
         \A u \in Threads \ {t} : cur'[u] = cur[u]
  PROVE  UpgradedIsWs'
<1> SUFFICES ASSUME NEW u \in Threads, pc'[u] = "upgrade" PROVE u = "loop" /\ kind'[cur'[u]] # "tcp"
  BY DEF UpgradedIsWs, Threads
<1>1. u # t /\ pc[u] = "upgrade" /\ cur'[u] = cur[u] /\ cur[u] \in Conns
  BY DEF Goto, IInv, TypeOK, ControlOK, Known
<1>2. u = "loop" /\ kind[cur[u]] \notin {"none", "tcp"}
  BY <1>1 DEF Books, UpgradedIsWs, IInv, PrivateIsOpen, Private
<1>3. QED
  BY <1>1, <1>2 DEF KindsKept

(* Nothing moves that the books know of. *)
LEMMA BooksStay ==
  ASSUME Books, UNCHANGED <<epoll, connNum>>,
         DecrThreads' = DecrThreads, IncrThreads' = IncrThreads, Uncounted' = Uncounted,
         TcpConns' = TcpConns, UpgradedIsWs'
  PROVE  Books'
BY DEF Books, BooksFinite, BooksBalance

(* Steps between labels that do not count. *)
LEMMA QuietMove ==
  ASSUME IInv, Books, NEW t \in Threads, NEW label, Goto(t, label),
         pc[t] \notin {"decr", "incr", "add"}, label \notin {"decr", "incr", "add"},
         label = "upgrade" => t = "loop" /\ kind'[cur'[t]] # "tcp",
         UNCHANGED <<epoll, connNum>>, KindsKept, TcpConns' = TcpConns,
         \A u \in Threads \ {t} : cur'[u] = cur[u]
  PROVE  Books'
<1>1. t \notin DecrThreads /\ t \notin IncrThreads /\ t \notin Uncounted
  BY DEF DecrThreads, IncrThreads, Uncounted
<1>2. DecrThreads' = DecrThreads /\ IncrThreads' = IncrThreads /\ Uncounted' = Uncounted
  BY <1>1, OneMoves
<1>3. UpgradedIsWs'
  <2> SUFFICES ASSUME NEW u \in Threads, pc'[u] = "upgrade" PROVE u = "loop" /\ kind'[cur'[u]] # "tcp"
    BY DEF UpgradedIsWs, Threads
  <2>1. CASE u = t
    BY <2>1 DEF Goto, IInv, TypeOK, ControlOK
  <2>2. CASE u # t
    <3>1. pc[u] = "upgrade" /\ cur'[u] = cur[u] /\ cur[u] \in Conns
      BY <2>2 DEF Goto, IInv, TypeOK, ControlOK, Known
    <3>2. kind[cur[u]] \notin {"none", "tcp"} /\ u = "loop"
      BY <3>1 DEF Books, UpgradedIsWs, IInv, PrivateIsOpen, Private
    <3>3. QED
      BY <3>1, <3>2 DEF KindsKept
  <2>3. QED
    BY <2>1, <2>2
<1>4. QED
  BY <1>2, <1>3, BooksStay

(* A goroutine that stays where it is, or does not exist. *)
LEMMA NobodyMoves ==
  ASSUME IInv, Books, UNCHANGED <<epoll, connNum, pc, cur>>, KindsKept, TcpConns' = TcpConns
  PROVE  Books'
<1>1. \A u \in Threads : pc[u] \in {"add", "upgrade"} => kind'[cur[u]] = kind[cur[u]]
  BY DEF IInv, TypeOK, ControlOK, PrivateIsOpen, Private, KindsKept, Known
<1>2. DecrThreads' = DecrThreads /\ IncrThreads' = IncrThreads /\ Uncounted' = Uncounted
  BY <1>1 DEF DecrThreads, IncrThreads, Uncounted, Threads
<1>3. UpgradedIsWs'
  BY <1>1 DEF UpgradedIsWs, Books, Threads
<1>4. QED
  BY <1>2, <1>3, BooksStay

(* A descriptor in epoll is the one of a registered connection, or of one that is being added. *)
LEMMA PolledHasOwner ==
  ASSUME IInv, Owners, NEW c \in Conns, Open(c), fdOf[c] \in epoll
  PROVE  Registered(c) \/ \E t \in Threads : cur[t] = c /\ pc[t] = "add"
<1>1. PICK d \in Conns : /\ Open(d) /\ fdOf[d] = fdOf[c]
                         /\ Registered(d) \/ \E t \in Threads : cur[t] = d /\ pc[t] = "add"
  BY DEF Owners, PolledIsLive, Live
<1>2. d = c
  BY <1>1 DEF IInv, OneSocketPerFd
<1>3. QED
  BY <1>1, <1>2

(* One goroutine's own connection is not polled before it is being added. *)
LEMMA PrivateIsUnpolled ==
  ASSUME IInv, Owners, NEW t \in Threads, pc[t] \in {"upgrade", "close"}
  PROVE  fdOf[cur[t]] \notin epoll
<1>1. cur[t] \in Conns /\ Open(cur[t]) /\ ~Registered(cur[t])
  BY DEF IInv, TypeOK, ControlOK, Known, PrivateIsOpen, Private
<1>2. \A u \in Threads : cur[u] = cur[t] /\ pc[u] = "add" => FALSE
  BY DEF IInv, PrivateIsExclusive, Private
<1>3. QED
  BY <1>1, <1>2, PolledHasOwner

LEMMA FreeIsUnpolled ==
  ASSUME Owners, NEW fd, FdFree(fd)
  PROVE  fd \notin epoll
BY DEF Owners, PolledIsLive, Live, FdFree

(* What Del and Add do to the books. *)
LEMMA DelEpollBooks ==
  ASSUME IInv, Owners, Books, NEW t \in Threads, NEW c \in Known, DelEpoll(t, c), pc[t] \in {"run", "read"}
  PROVE  Books'
<1> USE DEF IInv, TypeOK
<1> DEFINE fd == fdOf[c]
<1>1. /\ KindsKept /\ TcpConns' = TcpConns /\ connNum' = connNum
      /\ \A u \in Threads \ {t} : cur'[u] = cur[u]
  BY DEF DelEpoll, objects, KindsKept, TcpConns, Begin, ControlOK
<1>2. CASE fd \notin epoll
  <2>1. Goto(t, "run") /\ epoll' = epoll
    BY <1>2 DEF DelEpoll, Begin, TablesOK
  <2>2. QED
    BY <1>1, <2>1, QuietMove
<1>3. CASE fd \in epoll
  <2>1. Goto(t, "decr") /\ epoll' = epoll \ {fd}
    BY <1>3 DEF DelEpoll, Begin
  <2>2. t \notin DecrThreads /\ t \notin IncrThreads /\ t \notin Uncounted
    BY DEF DecrThreads, IncrThreads, Uncounted
  <2>3. DecrThreads' = DecrThreads \cup {t} /\ IncrThreads' = IncrThreads /\ Uncounted' = Uncounted
    BY <1>1, <2>1, <2>2, OneMoves
  <2>4. /\ IsFiniteSet(epoll') /\ Cardinality(epoll') = Cardinality(epoll) - 1
        /\ Cardinality(epoll) \in Nat
    BY <1>3, <2>1, OneLess DEF Books, BooksFinite
  <2>5. /\ IsFiniteSet(DecrThreads') /\ Cardinality(DecrThreads') = Cardinality(DecrThreads) + 1
        /\ Cardinality(DecrThreads) \in Nat
    BY <2>2, <2>3, OneMore DEF Books, BooksFinite
  <2>6. BooksFinite'
    BY <1>1, <2>3, <2>4, <2>5 DEF Books, BooksFinite
  <2>7. BooksBalance'
    <3>1. /\ Cardinality(IncrThreads) \in Nat /\ Cardinality(Uncounted) \in Nat
          /\ Cardinality(TcpConns) \in Nat
      BY FS_CardinalityType DEF Books, BooksFinite
    <3>2. QED
      BY <1>1, <2>3, <2>4, <2>5, <3>1 DEF Books, BooksBalance
  <2>8. UpgradedIsWs'
    BY <1>1, <2>1, UpgradesStay
  <2>9. QED
    BY <2>6, <2>7, <2>8 DEF Books
<1>4. QED
  BY <1>2, <1>3

LEMMA DelBooks ==
  ASSUME IInv, Owners, Books, NEW t \in Threads, Del(t)
  PROVE  Books'
<1> USE DEF IInv, TypeOK
<1>1. CASE DelDecr(t)
  <2>1. /\ pc[t] = "decr" /\ Goto(t, "unmap") /\ connNum' = connNum - 1
        /\ UNCHANGED <<epoll, kind, cur>>
    BY <1>1 DEF DelDecr, At, objects
  <2>2. KindsKept /\ TcpConns' = TcpConns
    BY <2>1 DEF KindsKept, TcpConns
  <2>3. t \in DecrThreads /\ t \notin IncrThreads /\ t \notin Uncounted
    BY <2>1 DEF DecrThreads, IncrThreads, Uncounted
  <2>4. DecrThreads' = DecrThreads \ {t} /\ IncrThreads' = IncrThreads /\ Uncounted' = Uncounted
    BY <2>1, <2>2, <2>3, OneMoves
  <2>5. /\ IsFiniteSet(DecrThreads') /\ Cardinality(DecrThreads') = Cardinality(DecrThreads) - 1
        /\ Cardinality(DecrThreads) \in Nat
    BY <2>3, <2>4, OneLess DEF Books, BooksFinite
  <2>6. /\ Cardinality(IncrThreads) \in Nat /\ Cardinality(Uncounted) \in Nat
        /\ Cardinality(TcpConns) \in Nat /\ Cardinality(epoll) \in Nat
    BY FS_CardinalityType DEF Books, BooksFinite
  <2>7. BooksFinite' /\ BooksBalance'
    BY <2>1, <2>2, <2>4, <2>5, <2>6 DEF Books, BooksFinite, BooksBalance
  <2>8. QED
    BY <2>1, <2>2, <2>7, UpgradesStay DEF Books
<1>2. CASE DelUnmap(t)
  <2>1. \E c : Begin(t, "close", c)
    BY <1>2 DEF DelUnmap
  <2>2. /\ pc[t] = "unmap" /\ Goto(t, "close") /\ \A u \in Threads \ {t} : cur'[u] = cur[u]
        /\ UNCHANGED <<epoll, connNum, kind>>
    BY <1>2, <2>1 DEF DelUnmap, At, Begin, ControlOK, objects
  <2>3. QED
    BY <2>2, QuietMove DEF KindsKept, TcpConns
<1>3. CASE DelPanic(t)
  <2>1. /\ pc[t] = "unmap" /\ Goto(t, "run") /\ UNCHANGED <<epoll, connNum, kind, cur>>
    BY <1>3 DEF DelPanic, At, objects, tables
  <2>2. QED
    BY <2>1, QuietMove DEF KindsKept, TcpConns
<1>4. CASE DelClose(t)
  <2>1. /\ pc[t] = "close" /\ Goto(t, "run") /\ UNCHANGED <<connNum, kind, cur>>
        /\ epoll' = epoll \ {fdOf[cur[t]]}
    BY <1>4 DEF DelClose, At
  <2>2. epoll' = epoll
    BY <2>1, PrivateIsUnpolled
  <2>3. QED
    BY <2>1, <2>2, QuietMove DEF KindsKept, TcpConns
<1>5. QED
  BY <1>1, <1>2, <1>3, <1>4 DEF Del

LEMMA AddBooks ==
  ASSUME IInv, Owners, Books, NEW t \in Threads, Add(t)
  PROVE  Books'
<1> USE DEF IInv, TypeOK
<1>0. /\ Cardinality(DecrThreads) \in Nat /\ Cardinality(IncrThreads) \in Nat
      /\ Cardinality(Uncounted) \in Nat /\ Cardinality(TcpConns) \in Nat /\ Cardinality(epoll) \in Nat
  BY FS_CardinalityType DEF Books, BooksFinite
<1>1. CASE IncrConnNum(t)
  <2>1. /\ pc[t] = "incr" /\ Goto(t, "run") /\ connNum' = connNum + 1
        /\ UNCHANGED <<epoll, kind, cur>>
    BY <1>1 DEF IncrConnNum, At, objects
  <2>2. KindsKept /\ TcpConns' = TcpConns
    BY <2>1 DEF KindsKept, TcpConns
  <2>3. t \notin DecrThreads /\ t \in IncrThreads /\ t \notin Uncounted
    BY <2>1 DEF DecrThreads, IncrThreads, Uncounted
  <2>4. DecrThreads' = DecrThreads /\ IncrThreads' = IncrThreads \ {t} /\ Uncounted' = Uncounted
    BY <2>1, <2>2, <2>3, OneMoves
  <2>5. IsFiniteSet(IncrThreads') /\ Cardinality(IncrThreads') = Cardinality(IncrThreads) - 1
    BY <2>3, <2>4, OneLess DEF Books, BooksFinite
  <2>6. BooksFinite' /\ BooksBalance'
    BY <1>0, <2>1, <2>2, <2>4, <2>5 DEF Books, BooksFinite, BooksBalance
  <2>7. QED
    BY <2>1, <2>2, <2>6, UpgradesStay DEF Books
<1>2. CASE AddConn(t)
  <2>1. /\ pc[t] = "add" /\ Goto(t, IF kind[cur[t]] = "tcp" THEN "run" ELSE "incr")
        /\ UNCHANGED <<epoll, connNum, kind, cur>>
    BY <1>2 DEF AddConn, At, objects
  <2>2. KindsKept /\ TcpConns' = TcpConns
    BY <2>1 DEF KindsKept, TcpConns
  <2>3. t \notin DecrThreads /\ t \notin IncrThreads
    BY <2>1 DEF DecrThreads, IncrThreads
  <2>4. CASE kind[cur[t]] = "tcp"
    <3>1. t \notin Uncounted /\ Goto(t, "run")
      BY <2>1, <2>4 DEF Uncounted
    <3>2. DecrThreads' = DecrThreads /\ IncrThreads' = IncrThreads /\ Uncounted' = Uncounted
      BY <2>1, <2>2, <2>3, <3>1, OneMoves
    <3>3. QED
      BY <2>1, <2>2, <3>1, <3>2, UpgradesStay, BooksStay
  <2>5. CASE kind[cur[t]] # "tcp"
    <3>1. t \in Uncounted /\ Goto(t, "incr")
      BY <2>1, <2>5 DEF Uncounted
    <3>2. DecrThreads' = DecrThreads /\ IncrThreads' = IncrThreads \cup {t} /\ Uncounted' = Uncounted \ {t}
      BY <2>1, <2>2, <2>3, <3>1, OneMoves
    <3>3. IsFiniteSet(IncrThreads') /\ Cardinality(IncrThreads') = Cardinality(IncrThreads) + 1
      BY <2>3, <3>2, OneMore DEF Books, BooksFinite
    <3>4. IsFiniteSet(Uncounted') /\ Cardinality(Uncounted') = Cardinality(Uncounted) - 1
      BY <3>1, <3>2, OneLess DEF Books, BooksFinite
    <3>5. BooksFinite' /\ BooksBalance'
      BY <1>0, <2>1, <2>2, <3>2, <3>3, <3>4 DEF Books, BooksFinite, BooksBalance
    <3>6. QED
      BY <2>1, <2>2, <3>1, <3>5, UpgradesStay DEF Books
  <2>6. QED
    BY <2>4, <2>5
<1>3. QED
  BY <1>1, <1>2 DEF Add

(* A socket enters epoll: one that AcceptTCP made, or one whose goroutine will count it. *)
LEMMA PolledBooks ==
  ASSUME IInv, Owners, Books, NEW t \in Threads, NEW fd, Goto(t, "add"),
         pc[t] \notin {"decr", "incr", "add"}, fd \notin epoll, epoll' = epoll \cup {fd},
         connNum' = connNum, KindsKept, \A u \in Threads \ {t} : cur'[u] = cur[u],
         \/ kind'[cur'[t]] # "tcp" /\ TcpConns' = TcpConns
         \/ /\ kind'[cur'[t]] = "tcp"
            /\ \E c : c \notin TcpConns /\ TcpConns' = TcpConns \cup {c}
  PROVE  Books'
<1>0. /\ Cardinality(DecrThreads) \in Nat /\ Cardinality(IncrThreads) \in Nat
      /\ Cardinality(Uncounted) \in Nat /\ Cardinality(TcpConns) \in Nat /\ Cardinality(epoll) \in Nat
  BY FS_CardinalityType DEF Books, BooksFinite
<1>1. IsFiniteSet(epoll') /\ Cardinality(epoll') = Cardinality(epoll) + 1
  BY OneMore DEF Books, BooksFinite
<1>2. t \notin DecrThreads /\ t \notin IncrThreads /\ t \notin Uncounted
  BY DEF DecrThreads, IncrThreads, Uncounted
<1>3. /\ DecrThreads' = DecrThreads /\ IncrThreads' = IncrThreads
      /\ Uncounted' = IF kind'[cur'[t]] # "tcp" THEN Uncounted \cup {t} ELSE Uncounted
  BY <1>2, OneMoves
<1>4. UpgradedIsWs'
  BY UpgradesStay
<1>5. CASE kind'[cur'[t]] # "tcp" /\ TcpConns' = TcpConns
  <2>1. IsFiniteSet(Uncounted') /\ Cardinality(Uncounted') = Cardinality(Uncounted) + 1
    BY <1>2, <1>3, <1>5, OneMore DEF Books, BooksFinite
  <2>2. QED
    BY <1>0, <1>1, <1>3, <1>4, <1>5, <2>1 DEF Books, BooksFinite, BooksBalance
<1>6. CASE kind'[cur'[t]] = "tcp" /\ \E c : c \notin TcpConns /\ TcpConns' = TcpConns \cup {c}
  <2>1. IsFiniteSet(TcpConns') /\ Cardinality(TcpConns') = Cardinality(TcpConns) + 1
    BY <1>6, OneMore DEF Books, BooksFinite
  <2>2. Uncounted' = Uncounted
    BY <1>3, <1>6
  <2>3. QED
    BY <1>0, <1>1, <1>3, <1>4, <2>1, <2>2 DEF Books, BooksFinite, BooksBalance
<1>7. QED
  BY <1>5, <1>6

LEMMA BooksStep ==
  ASSUME IInv, Owners, Books, [Next]_vars
  PROVE  Books'
<1> USE DEF IInv, TypeOK
<1>1. ASSUME NEW t \in Threads, NEW c \in Known, DelEpoll(t, c), pc[t] \in {"run", "read"}
      PROVE  Books'
  BY <1>1, DelEpollBooks
<1>2. ASSUME NEW t \in Threads, NEW c \in Known, Write(t, c), pc[t] = "run"
      PROVE  Books'
  <2>1. CASE WriteOk(c)
    BY <2>1, NobodyMoves DEF WriteOk, tables, KindsKept, TcpConns
  <2>2. QED
    BY <1>1, <1>2, <2>1 DEF Write
<1>3. ASSUME UNCHANGED <<epoll, connNum, pc, cur, kind>>
      PROVE  Books'
  BY <1>3, NobodyMoves DEF KindsKept, TcpConns
<1>4. ASSUME NEW t \in Threads, NEW label, Goto(t, label),
             pc[t] \notin {"decr", "incr", "add"}, label \notin {"decr", "incr", "add", "upgrade"},
             UNCHANGED <<epoll, connNum, kind>>, \A u \in Threads \ {t} : cur'[u] = cur[u]
      PROVE  Books'
  BY <1>4, QuietMove DEF KindsKept, TcpConns
<1>5. CASE LoopRun
  <2>0. "loop" \in Threads
    BY DEF Threads
  <2>1. ASSUME NEW c \in Conns, NEW fd \in Fds,
               LoopAcceptTcp(c, fd) \/ LoopLeakTcp(c, fd) \/ LoopAcceptWs(c, fd)
        PROVE  Books'
    <3>1. /\ pc["loop"] = "run" /\ FdFree(fd) /\ kind[c] = "none" /\ connNum' = connNum
          /\ c \notin TcpConns
      BY <2>1 DEF LoopAcceptTcp, LoopLeakTcp, LoopAcceptWs, Event, At, Accept, Socket, tables, TcpConns
    <3>2. ASSUME NEW k \in {"leaked", "ws"}, kind' = [kind EXCEPT ![c] = k]
          PROVE  KindsKept /\ TcpConns' = TcpConns
      <4>1. \A d \in Conns : kind'[d] = IF d = c THEN k ELSE kind[d]
        BY <3>2 DEF ObjectsOK
      <4>2. QED
        BY <3>1, <4>1 DEF KindsKept, TcpConns
    <3>3. CASE LoopAcceptTcp(c, fd)
      <4>0. \A d \in Conns : kind'[d] = IF d = c THEN "tcp" ELSE kind[d]
        BY <3>3 DEF LoopAcceptTcp, Accept, ObjectsOK
      <4>1. KindsKept /\ TcpConns' = TcpConns \cup {c}
        BY <3>1, <4>0 DEF KindsKept, TcpConns
      <4>2. /\ Goto("loop", "add") /\ cur'["loop"] = c /\ kind'[cur'["loop"]] = "tcp"
            /\ epoll' = epoll \cup {fd} /\ \A u \in Threads \ {"loop"} : cur'[u] = cur[u]
        BY <2>0, <3>3 DEF LoopAcceptTcp, Accept, Begin, ControlOK, ObjectsOK
      <4>3. fd \notin epoll
        BY <3>1, FreeIsUnpolled
      <4>4. QED
        BY <2>0, <3>1, <4>1, <4>2, <4>3, PolledBooks
    <3>4. CASE LoopLeakTcp(c, fd)
      <4>1. KindsKept /\ TcpConns' = TcpConns
        BY <3>2, <3>4 DEF LoopLeakTcp, Accept
      <4>2. QED
        BY <3>4, <4>1, NobodyMoves DEF LoopLeakTcp, tables
    <3>5. CASE LoopAcceptWs(c, fd)
      <4>1. KindsKept /\ TcpConns' = TcpConns
        BY <3>2, <3>5 DEF LoopAcceptWs, Accept
      <4>2. /\ Goto("loop", "upgrade") /\ kind'[cur'["loop"]] # "tcp"
            /\ epoll' = epoll /\ \A u \in Threads \ {"loop"} : cur'[u] = cur[u]
        BY <2>0, <3>5 DEF LoopAcceptWs, Accept, Begin, ControlOK, ObjectsOK, tables
      <4>3. QED
        BY <2>0, <3>1, <4>1, <4>2, QuietMove
    <3>6. QED
      BY <2>1, <3>3, <3>4, <3>5
  <2>2. CASE LoopUpgraded
    <3>1. /\ pc["loop"] = "upgrade" /\ Goto("loop", "add") /\ UNCHANGED <<kind, cur, connNum>>
          /\ epoll' = epoll \cup {fdOf[cur["loop"]]}
      BY <2>2 DEF LoopUpgraded, At, objects
    <3>2. kind'[cur'["loop"]] # "tcp" /\ fdOf[cur["loop"]] \notin epoll
      BY <2>0, <3>1, PrivateIsUnpolled DEF Books, UpgradedIsWs
    <3>3. KindsKept /\ TcpConns' = TcpConns
      BY <3>1 DEF KindsKept, TcpConns
    <3>4. QED
      BY <2>0, <3>1, <3>2, <3>3, PolledBooks
  <2>3. CASE LoopUpgradeFails \/ LoopReadOk
    BY <1>4, <2>0, <2>3 DEF LoopUpgradeFails, LoopReadOk, At, tables
  <2>4. CASE LoopReadErr
    <3>1. cur["loop"] \in Known /\ pc["loop"] = "read"
      BY <2>0, <2>4 DEF LoopReadErr, DelEpoll, Begin, At, ControlOK
    <3>2. QED
      BY <1>1, <2>0, <2>4, <3>1 DEF LoopReadErr
  <2>5. ASSUME NEW e \in batch, LoopEvent(e)
        PROVE  Books'
    <3>1. CASE conns[e] = NoConn
      BY <1>3, <2>5, <3>1 DEF LoopEvent, objects, tables
    <3>2. CASE conns[e] # NoConn
      BY <1>4, <2>0, <2>5, <3>2 DEF LoopEvent, Event, At, Begin, ControlOK, objects, tables
    <3>3. QED
      BY <3>1, <3>2
  <2>6. ASSUME LoopWait \/ \E e \in batch : LoopAcceptFails(e)
        PROVE  Books'
    BY <1>3, <2>6 DEF LoopWait, LoopAcceptFails, objects, tables
  <2>7. QED
    BY <1>5, <2>1, <2>2, <2>3, <2>4, <2>5, <2>6 DEF LoopRun
<1>6. CASE CheckTimeout \/ ConnTick
  <2>1. CASE TimeoutScan \/ TickSnapshot
    BY <1>3, <2>1 DEF TimeoutScan, TickSnapshot, objects, tables
  <2>2. ASSUME NEW c \in expired, TimeoutDel(c)
        PROVE  Books'
    BY <1>1, <2>2 DEF TimeoutDel, At, QueuesOK, Threads
  <2>3. ASSUME NEW c \in beats, TickWrite(c)
        PROVE  Books'
    BY <1>2, <2>3 DEF TickWrite, At, QueuesOK, Threads
  <2>4. QED
    BY <1>6, <2>1, <2>2, <2>3 DEF CheckTimeout, ConnTick
<1>7. ASSUME NEW h \in Handlers, Handler(h)
      PROVE  Books'
  <2>0. h \in Threads
    BY DEF Threads
  <2>1. CASE HandlerDialFails(h)
    BY <1>4, <2>0, <2>1 DEF HandlerDialFails, At, objects, tables
  <2>2. ASSUME NEW c \in held, HandlerWrite(h, c)
        PROVE  Books'
    BY <1>2, <2>0, <2>2 DEF HandlerWrite, At, QueuesOK
  <2>3. ASSUME NEW s \in Svids, HandlerFound(h, s)
        PROVE  Books'
    BY <1>3, <2>3 DEF HandlerFound, objects, tables
  <2>4. ASSUME NEW s \in Svids, NEW c \in Conns, HandlerMiss(h, s, c)
        PROVE  Books'
    <3>1. \A d \in Conns : kind'[d] = IF d = c THEN "out" ELSE kind[d]
      BY <2>4 DEF HandlerMiss, ObjectsOK
    <3>2. KindsKept /\ TcpConns' = TcpConns
      BY <2>4, <3>1 DEF HandlerMiss, KindsKept, TcpConns
    <3>3. /\ pc[h] = "run" /\ Goto(h, "dial") /\ UNCHANGED <<epoll, connNum>>
          /\ \A u \in Threads \ {h} : cur'[u] = cur[u]
      BY <2>0, <2>4 DEF HandlerMiss, At, Begin, ControlOK, tables
    <3>4. QED
      BY <2>0, <3>2, <3>3, QuietMove
  <2>5. ASSUME NEW fd \in Fds, HandlerDial(h, fd)
        PROVE  Books'
    <3>1. /\ pc[h] = "dial" /\ Goto(h, "add") /\ FdFree(fd) /\ epoll' = epoll \cup {fd}
          /\ UNCHANGED <<kind, connNum, cur>> /\ kind[cur[h]] = "out"
      BY <2>0, <2>5 DEF HandlerDial, At, Socket, DialledIsNew
    <3>2. fd \notin epoll
      BY <3>1, FreeIsUnpolled
    <3>3. KindsKept /\ TcpConns' = TcpConns
      BY <3>1 DEF KindsKept, TcpConns
    <3>4. QED
      BY <2>0, <3>1, <3>2, <3>3, PolledBooks
  <2>6. QED
    BY <1>7, <2>1, <2>2, <2>3, <2>4, <2>5 DEF Handler
<1>8. CASE \/ \E c \in Conns : GoIdle(c) \/ Finalize(c)
           \/ UNCHANGED vars
  BY <1>3, <1>8 DEF GoIdle, Finalize, vars, objects, tables
<1>9. QED
  BY <1>5, <1>6, <1>7, <1>8, DelBooks, AddBooks DEF Next

\* However connections come and go, connNum is the number of polled descriptors,
\* less one for every TCP connection ever accepted, but for the goroutines that
\* are between epoll and the counter.
THEOREM ConnNumIsAccountedFor == Spec => []ConnNumAccounts
<1>1. Init => Books
  <2> SUFFICES ASSUME Init PROVE Books
    OBVIOUS
  <2>1. /\ epoll = {} /\ DecrThreads = {} /\ IncrThreads = {} /\ Uncounted = {} /\ TcpConns = {}
        /\ connNum = 0
    BY DEF Init, DecrThreads, IncrThreads, Uncounted, TcpConns
  <2>2. UpgradedIsWs
    BY DEF Init, UpgradedIsWs
  <2>3. BooksFinite
    BY <2>1, FS_EmptySet DEF BooksFinite
  <2>4. Cardinality({}) = 0
    BY FS_EmptySet
  <2>5. BooksBalance
    BY <2>1, <2>4 DEF BooksBalance
  <2>6. QED
    BY <2>2, <2>3, <2>5 DEF Books
<1>2. IInv /\ Owners /\ Books /\ [Next]_vars => Books'
  BY BooksStep
<1>3. Books => ConnNumAccounts
  BY DEF Books, BooksBalance, ConnNumAccounts, DecrThreads, IncrThreads, Uncounted, TcpConns
<1>4. QED
  BY Invariance, OwnersInvariant, <1>1, <1>2, <1>3, PTL DEF Spec
=============================================================================
