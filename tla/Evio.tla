-------------------------------- MODULE Evio --------------------------------
(***************************************************************************)
(* The event loops of package evio (evio/evio_unix.go over the poll of     *)
(* evio/internal).  One descriptor stands for the listeners, of streams    *)
(* and of datagrams.  No other package of the repository imports evio.     *)
(*                                                                         *)
(* Each loop is a goroutine; serve is the one that started them; the       *)
(* ticker and whoever holds a connection add notes at any time.  What the  *)
(* user's handlers return is any output and any action.  A connection is   *)
(* [st, fd, loop, out, action]; `out` is whether output is left.  Detach   *)
(* hands the descriptor to the user, who keeps it.                         *)
(***************************************************************************)
EXTENDS Integers, Sequences, FiniteSets

CONSTANTS
    Loops,          \* 0 .. n - 1
    Conns,          \* model values
    Fds, Listener,  \* descriptors of connections, of the listener
    Balance,        \* "Random", "RoundRobin" or "LeastConnections"
    MaxNotes        \* bound: notes waiting for a loop

ASSUME EvioAssumption ==
    /\ IsFiniteSet(Loops) /\ Loops # {} /\ Loops = 0 .. Cardinality(Loops) - 1
    /\ {"tick", "closing"} \cap Conns = {} /\ Listener \notin Fds
    /\ MaxNotes \in Nat

Actions == {"None", "Close", "Shutdown", "Detach"}

VARIABLES
    conn,           \* every connection, st "new" until it is accepted; "leaked": accepted
                    \* and dropped with its descriptor open
    accepted,
    notes,          \* noteQueue.notes of each loop's poll
    run,            \* [at, batch, ready]: at is "wait", "notes", "events" or "ended"
    serve,          \* "starts", "waits", "signalled", "closes", "stopped"
    misused         \* history: an event went to a connection that was not open

evioVars == <<conn, accepted, notes, run, serve, misused>>

InLoop(l)  == {c \in Conns : conn[c].st \in {"accepted", "open"} /\ conn[c].loop = l}    \* fdconns
FdsInUse   == {conn[c].fd : c \in {c \in Conns : conn[c].st \in {"accepted", "open", "detached", "leaked"}}}
count(l)   == Cardinality(InLoop(l))

EvioInit ==
    /\ conn = [c \in Conns |-> [st |-> "new", fd |-> 0, loop |-> 0, out |-> FALSE, action |-> "None"]]
    /\ accepted = 0 /\ notes = [l \in Loops |-> <<>>]
    /\ run = [l \in Loops |-> [at |-> "wait", batch |-> <<>>, ready |-> {}]]
    /\ serve = "starts" /\ misused = FALSE

PollTrigger(l, note) == notes' = [notes EXCEPT ![l] = Append(@, note)]

(* Wake, by anyone who was given the connection, long gone or not; and the ticker. *)
Wake(c) ==
    /\ conn[c].st \notin {"new", "accepted", "leaked"} /\ Len(notes[conn[c].loop]) < MaxNotes
    /\ PollTrigger(conn[c].loop, c)
    /\ UNCHANGED <<conn, accepted, run, serve, misused>>

loopTicker ==
    /\ Len(notes[0]) < MaxNotes /\ PollTrigger(0, "tick")
    /\ UNCHANGED <<conn, accepted, run, serve, misused>>

(* Poll.Wait: the notes first, then the descriptors that are ready.  (A round with neither  *)
(* changes nothing.)                                                                       *)
Round(batch, ready) ==
    [at |-> IF batch # <<>> THEN "notes" ELSE IF ready # {} THEN "events" ELSE "wait",
     batch |-> batch, ready |-> ready]

Wait(l) ==
    /\ run[l].at = "wait"
    /\ \E ready \in SUBSET ({Listener} \cup {conn[c].fd : c \in InLoop(l)}) :
          run' = [run EXCEPT ![l] = Round(notes[l], ready)]
    /\ notes' = [notes EXCEPT ![l] = <<>>]
    /\ UNCHANGED <<conn, accepted, serve, misused>>

(* The loop goes on with `next`, or ends when a handler has said Shutdown.  Its signal is   *)
(* lost on a serve that does not wait yet.                                                 *)
Ended == [at |-> "ended", batch |-> <<>>, ready |-> {}]
Goes(l, next) == run' = [run EXCEPT ![l] = next] /\ serve' = serve
Ends(l) == /\ run' = [run EXCEPT ![l] = Ended]
           /\ serve' = IF serve = "waits" THEN "signalled" ELSE serve
Returns(l, next) == Goes(l, next) \/ Ends(l)

Fires(c, needs) == misused' = (misused \/ conn[c].st # needs)

-----------------------------------------------------------------------------
(* loopNote. *)
(* Mutant: a wake is stale only when its descriptor is nobody's. *)
StaleIfNobody(l, c) == \A d \in InLoop(l) : conn[d].fd # conn[c].fd

Stale(l, c) == c \notin InLoop(l)

(* What Data returns on a wake replaces the output and the action that were waiting. *)
loopWake(c) ==
    \E more \in BOOLEAN, a \in Actions :
        /\ conn' = [conn EXCEPT ![c].out = @ \/ more, ![c].action = a]
        /\ Fires(c, "open")

loopNote(l) ==
    /\ run[l].at = "notes" /\ run[l].batch # <<>>
    /\ LET note == Head(run[l].batch)
           next == Round(Tail(run[l].batch), run[l].ready)
       IN  \/ note = "tick" /\ Returns(l, next) /\ UNCHANGED <<conn, misused>>
           \/ note = "closing" /\ Ends(l) /\ UNCHANGED <<conn, misused>>
           \/ /\ note \in Conns /\ Goes(l, next)
              /\ IF Stale(l, note) THEN UNCHANGED <<conn, misused>> ELSE loopWake(note)
    /\ UNCHANGED <<accepted, notes>>

-----------------------------------------------------------------------------
(* Descriptor events.  `next` is the loop without the event. *)
Event(l, fd) == run[l].at = "events" /\ fd \in run[l].ready
After(l, fd) == Round(<<>>, run[l].ready \ {fd})

MayAccept(l) ==
    CASE Balance = "LeastConnections" -> \A k \in Loops : count(k) >= count(l)
      [] Balance = "RoundRobin"       -> accepted % Cardinality(Loops) = l
      [] OTHER                        -> TRUE

(* A datagram is handed over and answered at once; the handler may say Shutdown. *)
loopUDPRead(l) == UNCHANGED conn /\ Returns(l, After(l, Listener))

(* Nothing may be there to accept; round robin has counted by then.  Any error but EAGAIN   *)
(* ends the loop, and that of SetNonblock leaves the accepted descriptor open.              *)
loopAccept(l) ==
    /\ Event(l, Listener)
    /\ IF ~MayAccept(l) THEN Goes(l, After(l, Listener)) /\ UNCHANGED <<conn, accepted>>
       ELSE /\ accepted' = IF Balance = "RoundRobin" THEN (accepted + 1) % Cardinality(Loops) ELSE accepted
            /\ \/ loopUDPRead(l)
               \/ UNCHANGED conn /\ Returns(l, After(l, Listener))
               \/ \E c \in Conns, fd \in Fds \ FdsInUse :
                     /\ conn[c].st = "new"
                     /\ \E st \in {"accepted", "leaked"} :
                           /\ conn' = [conn EXCEPT ![c] = [st |-> st, fd |-> fd, loop |-> l,
                                                           out |-> FALSE, action |-> "None"]]
                           /\ IF st = "accepted" THEN Goes(l, After(l, Listener)) ELSE Ends(l)
    /\ UNCHANGED <<notes, misused>>

loopCloseConn(l, c, next) ==
    conn' = [conn EXCEPT ![c].st = "closed"] /\ Returns(l, next)

(* The connection that has the descriptor, in the state that the dispatch of loopRun asks for. *)
Has(l, c, fd) == Event(l, fd) /\ c \in InLoop(l) /\ conn[c].fd = fd
Opened(c)   == conn[c].st = "open"
Writing(c)  == Opened(c) /\ conn[c].out
Acting(c)   == Opened(c) /\ ~conn[c].out /\ conn[c].action # "None"
Reading(c)  == Opened(c) /\ ~conn[c].out /\ conn[c].action = "None"

(* The descriptor was closed or detached by an earlier note or event: loopAccept finds no listener. *)
loopNobody(l, fd) ==
    /\ fd # Listener /\ Event(l, fd) /\ \A c \in InLoop(l) : conn[c].fd # fd
    /\ Goes(l, After(l, fd)) /\ UNCHANGED <<conn, accepted, notes, misused>>

loopOpened(l, c, fd) ==
    /\ Has(l, c, fd) /\ conn[c].st = "accepted"
    /\ \E more \in BOOLEAN, a \in Actions :
          conn' = [conn EXCEPT ![c] = [@ EXCEPT !.st = "open", !.out = more, !.action = a]]
    /\ Goes(l, After(l, fd)) /\ UNCHANGED <<accepted, notes, misused>>

loopWrite(l, c, fd) ==
    /\ Has(l, c, fd) /\ Writing(c)
    /\ \/ \E left \in BOOLEAN : conn' = [conn EXCEPT ![c].out = left] /\ Goes(l, After(l, fd))
       \/ loopCloseConn(l, c, After(l, fd))
    /\ Fires(c, "open") /\ UNCHANGED <<accepted, notes>>

(* Without a handler for it, a connection that should be detached is closed. *)
loopDetachConn(l, c, next) ==
    \/ conn' = [conn EXCEPT ![c].st = "detached"] /\ Returns(l, next)
    \/ loopCloseConn(l, c, next)

loopAction(l, c, fd) ==
    /\ Has(l, c, fd) /\ Acting(c)
    /\ CASE conn[c].action = "Close"  -> loopCloseConn(l, c, After(l, fd))
         [] conn[c].action = "Detach" -> loopDetachConn(l, c, After(l, fd))
         [] OTHER                     -> Ends(l) /\ UNCHANGED conn
    /\ Fires(c, "open") /\ UNCHANGED <<accepted, notes>>

loopRead(l, c, fd) ==
    /\ Has(l, c, fd) /\ Reading(c)
    /\ \/ conn' = conn /\ Goes(l, After(l, fd))
       \/ loopCloseConn(l, c, After(l, fd))
       \/ /\ Goes(l, After(l, fd))
          /\ \E more \in BOOLEAN, a \in Actions :
                conn' = [conn EXCEPT ![c].out = more, ![c].action = a]
    /\ Fires(c, "open") /\ UNCHANGED <<accepted, notes>>

-----------------------------------------------------------------------------
(* serve, once the loops run: wait for the signal, tell every loop, wait for all of them,   *)
(* close what is left.                                                                     *)
waitForShutdown ==
    /\ serve = "starts" /\ serve' = "waits"
    /\ UNCHANGED <<conn, accepted, notes, run, misused>>

NotifyLoops ==
    /\ serve = "signalled" /\ serve' = "closes"
    /\ notes' = [l \in Loops |-> Append(notes[l], "closing")]
    /\ UNCHANGED <<conn, accepted, run, misused>>

CloseLoops ==
    /\ serve = "closes" /\ \A l \in Loops : run[l].at = "ended"
    /\ serve' = "stopped"
    /\ conn' = [c \in Conns |-> IF \E l \in Loops : c \in InLoop(l)
                                  THEN [conn[c] EXCEPT !.st = "closed"] ELSE conn[c]]
    /\ UNCHANGED <<accepted, notes, run, misused>>

EvioNext ==
    \/ \E c \in Conns : Wake(c)
    \/ loopTicker \/ waitForShutdown \/ NotifyLoops \/ CloseLoops
    \/ \E l \in Loops :
          \/ Wait(l) \/ loopNote(l) \/ loopAccept(l)
          \/ \E fd \in Fds :
                \/ loopNobody(l, fd)
                \/ \E c \in Conns : \/ loopOpened(l, c, fd) \/ loopWrite(l, c, fd)
                                    \/ loopAction(l, c, fd) \/ loopRead(l, c, fd)

EvioSpec == EvioInit /\ [][EvioNext]_evioVars

-----------------------------------------------------------------------------
(* Every event goes to a connection that is open, though its descriptor may be another's by *)
(* then and wakes come late; no two connections that are alive have one descriptor; and     *)
(* when serve returns every connection that was not detached is closed, but for the         *)
(* descriptors that a failed SetNonblock left open.                                        *)
EventsGoToOpenConns ==
    /\ ~misused
    /\ \A c, d \in Conns : (c # d /\ {conn[c].st, conn[d].st} \subseteq {"accepted", "open", "detached", "leaked"})
                               => conn[c].fd # conn[d].fd
    /\ serve = "stopped" => \A c \in Conns : conn[c].st \in {"new", "closed", "detached", "leaked"}
=============================================================================
