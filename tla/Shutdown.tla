------------------------------ MODULE Shutdown ------------------------------
(***************************************************************************)
(* How a server process starts, takes events and ends: the event queue     *)
(* (util/esqueue.go), Trigger, LoopRun, processQueueEvents and Close of    *)
(* core/epoll.go, the tickers of timer/api.go, and main of the gate, the   *)
(* hall and the game.                                                      *)
(*                                                                         *)
(* The loop, the main goroutine, the timer and the two goroutines that     *)
(* make the tickers run side by side; a lock of the queue is one step.     *)
(* What the loop does with network events is in module ConnLifecycle.      *)
(***************************************************************************)
EXTENDS Integers, Sequences

CONSTANTS
    Kinds,         \* which of "gate" and "server" the process is
    MaxTicks       \* bound: events of the timer

Signals == {"HUP", "TERM"}          \* TERM stands for QUIT, TERM and INT

VARIABLES
    kind,
    nodes,            \* Esqueue.nodes
    batch,            \* the nodes ForEach has taken and not yet handed to the loop
    loop,             \* "wait", "each", "events", "ended"
    eventFd,          \* the counter of the event descriptor is not zero
    closed,           \* the descriptors Close has closed
    tickers,          \* the tickers that CheckTimeout and ConnTick have made
    registered,       \* the server is in etcd
    main,             \* "up", "trigger", then the step of Close it is about to do, "exit", "panic"
    sig,              \* the signal that was received
    added, handled    \* history: events in the order they were added and handled

vars == <<kind, nodes, batch, loop, eventFd, closed, tickers, registered, main, sig, added, handled>>
process == <<kind, closed, tickers, registered, main, sig>>

Init ==
    /\ kind \in Kinds
    /\ nodes = <<>> /\ batch = <<>> /\ loop = "wait" /\ eventFd = FALSE
    /\ closed = {} /\ tickers = {} /\ registered = TRUE
    /\ main = "up" /\ sig = "none" /\ added = <<>> /\ handled = <<>>

Alive == main \notin {"exit", "panic"}

(* Add, and a write that wakes the loop up; the result of the write is not looked at. *)
Trigger(ev) ==
    /\ nodes' = Append(nodes, ev) /\ added' = Append(added, ev)
    /\ eventFd' = (eventFd \/ "event" \notin closed)

(* Every tick of the timer triggers the polls that are not a gate's. *)
TimerTick ==
    /\ Alive /\ kind # "gate" /\ Len(added) < MaxTicks
    /\ Trigger("ET_Timer")
    /\ UNCHANGED <<process, batch, loop, handled>>

MakeTicker(t) ==
    /\ Alive /\ t \notin tickers /\ tickers' = tickers \cup {t}
    /\ UNCHANGED <<kind, nodes, batch, loop, eventFd, closed, registered, main, sig, added, handled>>

-----------------------------------------------------------------------------
(* The loop.  EpollWait returns at the latest after 100 ms, with an error once the epoll    *)
(* descriptor is closed.                                                                   *)
EpollWait ==
    /\ Alive /\ loop = "wait"
    /\ IF "epoll" \in closed
         THEN loop' = "ended" /\ UNCHANGED <<nodes, batch>>
         ELSE IF nodes = <<>> THEN loop' = "events" /\ UNCHANGED <<nodes, batch>>
         ELSE loop' = "each" /\ batch' = nodes /\ nodes' = <<>>
    /\ UNCHANGED <<process, eventFd, added, handled>>

(* ET_Timer does nothing; any other event ends the loop and drops the rest of the batch. *)
HandleNode ==
    /\ Alive /\ loop = "each" /\ batch # <<>>
    /\ handled' = Append(handled, Head(batch))
    /\ IF Head(batch) = "ET_Timer" THEN batch' = Tail(batch) /\ loop' = loop
                                   ELSE batch' = <<>> /\ loop' = "ended"
    /\ UNCHANGED <<process, nodes, eventFd, added>>

(* Mutant: the emptied slice is put back although events have come in. *)
ForEachEndsBlind ==
    /\ Alive /\ loop = "each" /\ batch = <<>>
    /\ loop' = "events" /\ nodes' = <<>>
    /\ UNCHANGED <<process, batch, eventFd, added, handled>>

(* The emptied slice is put back only if nothing was added meanwhile. *)
ForEachEnds ==
    /\ Alive /\ loop = "each" /\ batch = <<>>
    /\ loop' = "events"
    /\ UNCHANGED <<process, nodes, batch, eventFd, added, handled>>

(* The descriptor events, of which reading the event descriptor is one. *)
NetworkEvents ==
    /\ Alive /\ loop = "events" /\ loop' = "wait"
    /\ \E seen \in {FALSE, eventFd} : eventFd' = (eventFd /\ ~seen)
    /\ UNCHANGED <<process, nodes, batch, added, handled>>

-----------------------------------------------------------------------------
(* main: the gate closes on TERM and just leaves on HUP; the others close on every signal, *)
(* after an ET_Close on TERM.                                                              *)
GateSignal(s)   == kind = "gate" /\ main' = IF s = "TERM" THEN "tickers" ELSE "exit"
ServerSignal(s) == kind # "gate" /\ main' = IF s = "TERM" THEN "trigger" ELSE "tickers"

Signal(s) ==
    /\ main = "up" /\ sig' = s
    /\ GateSignal(s) \/ ServerSignal(s)
    /\ UNCHANGED <<kind, nodes, batch, loop, eventFd, closed, tickers, registered, added, handled>>

TriggerClose ==
    /\ main = "trigger" /\ main' = "tickers"
    /\ Trigger("ET_Close")
    /\ UNCHANGED <<kind, batch, loop, closed, tickers, registered, sig, handled>>

CloseStep(at, next) ==
    /\ main = at /\ main' = next
    /\ UNCHANGED <<kind, nodes, batch, loop, eventFd, tickers, sig, added, handled>>

(* Stop of a ticker that was not made yet is a nil pointer. *)
CloseTickers == CloseStep("tickers", IF tickers = {"ticker", "heartBeat"} THEN "etcd" ELSE "panic")
                /\ UNCHANGED <<closed, registered>>

CloseEtcd == CloseStep("etcd", "fds") /\ registered' = FALSE /\ UNCHANGED closed

(* The descriptors, in this order; only a gate has the last one. *)
Order == <<"epoll", "event", "tcp", "ws">>
CloseFd(i) ==
    /\ i \in DOMAIN Order /\ {Order[j] : j \in 1 .. i - 1} = closed
    /\ CloseStep("fds", IF i = 4 \/ (i = 3 /\ kind # "gate") THEN "exit" ELSE "fds")
    /\ closed' = closed \cup {Order[i]} /\ UNCHANGED registered

Next ==
    \/ TimerTick \/ \E t \in {"ticker", "heartBeat"} : MakeTicker(t)
    \/ EpollWait \/ HandleNode \/ ForEachEnds \/ NetworkEvents
    \/ \E s \in Signals : Signal(s)
    \/ TriggerClose \/ CloseTickers \/ CloseEtcd \/ \E i \in DOMAIN Order : CloseFd(i)

Spec == Init /\ [][Next]_vars

-----------------------------------------------------------------------------
(* The loop handles the events in the order they were added, each once, loses none of them *)
(* while it runs, and handles none after an ET_Close.                                      *)
EventsInOrder ==
    /\ loop # "ended" => handled \o batch \o nodes = added
    /\ SubSeq(added, 1, Len(handled)) = handled
    /\ \A i \in 1 .. Len(handled) - 1 : handled[i] # "ET_Close"
=============================================================================
