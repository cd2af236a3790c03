----------------------------- MODULE Loops_proofs -----------------------------
(***************************************************************************)
(* Proofs about the event loops.  Of the queue of a process (module        *)
(* Shutdown), for every kind of process and any number of timer events:    *)
(* the loop handles the events in the order they were added, loses none    *)
(* while it runs, and none follows an ET_Close.  Of package evio (module   *)
(* Evio), for any number of loops and connections: events go to open       *)
(* connections.  Of the timers (module Timers), for any number of tasks    *)
(* and durations: the task that is stopped is the one that was meant, and  *)
(* tasks fire in the order they are due.                                   *)
(***************************************************************************)
EXTENDS Shutdown, Evio, Timers, SequenceTheorems, FiniteSetTheorems, WellFoundedInduction, TLAPS

Events == {"ET_Timer", "ET_Close"}

QueueTypeOK ==
    /\ nodes \in Seq(Events) /\ batch \in Seq(Events)
    /\ added \in Seq(Events) /\ handled \in Seq(Events)
    /\ loop \in {"wait", "each", "events", "ended"}

(* What is handled and what waits make up what was added; the batch is there only while     *)
(* ForEach runs.                                                                           *)
NothingLost ==
    /\ loop # "ended" => handled \o (batch \o nodes) = added
    /\ loop # "each" => batch = <<>>

(* What is handled is a prefix of what was added, and ends with an ET_Close at the latest. *)
HandledInOrder ==
    /\ \E rest \in Seq(Events) : added = handled \o rest
    /\ loop # "ended" => \A i \in 1 .. Len(handled) : handled[i] # "ET_Close"
    /\ \A i \in 1 .. Len(handled) - 1 : handled[i] # "ET_Close"

QueueInv == QueueTypeOK /\ NothingLost /\ HandledInOrder

-----------------------------------------------------------------------------
(* Three sequences whose concatenation needs no brackets, as the library says of any three. *)
Regroup(a, b, c) == (a \o b) \o c = a \o (b \o c)

LEMMA ConcatRegroups ==
    ASSUME NEW S, NEW a \in Seq(S), NEW b \in Seq(S), NEW c \in Seq(S)
    PROVE  Regroup(a, b, c)
BY ConcatAssociative DEF Regroup

(* Moving the head of the second sequence to the end of the first changes nothing. *)
LEMMA HeadMoves ==
    ASSUME NEW S, NEW h \in Seq(S), NEW b \in Seq(S), NEW n \in Seq(S), b # <<>>
    PROVE  Append(h, Head(b)) \o (Tail(b) \o n) = h \o (b \o n)
<1>1. Head(b) \in S /\ Tail(b) \in Seq(S)  BY HeadTailProperties
<1>2. PICK f \in S : f = Head(b)  BY <1>1
<1>3. Append(h, f) = h \o <<f>>  BY AppendIsConcat
<1>4. PICK x \in Seq(S) : x = <<f>>
  <2>1. <<f>> \in Seq(S)  OBVIOUS
  <2> QED BY <2>1
<1>5. x \o Tail(b) = b
  <2>1. b = SubSeq(b, 1, Len(b))  BY SubSeqFull
  <2>2. Len(b) \in Nat \ {0}  BY EmptySeq
  <2>3. SubSeq(b, 1, Len(b)) = <<b[1]>> \o SubSeq(b, 2, Len(b))
    <3>1. 1 \in 1 .. Len(b) /\ Len(b) \in 1 .. Len(b)  BY <2>2
    <3> QED BY <3>1, SubSeqRecursiveFirst
  <2>4. Tail(b) = SubSeq(b, 2, Len(b))  BY TailIsSubSeq
  <2>5. Head(b) = b[1]  BY <2>2
  <2> QED BY <1>2, <1>4, <2>1, <2>3, <2>4, <2>5
<1>6. PICK d \in Seq(S) : d = Tail(b)  BY <1>1
<1>7. PICK y \in Seq(S) : y = d \o n
  <2>1. d \o n \in Seq(S)  BY ConcatProperties
  <2> QED BY <2>1
<1>8. Regroup(h, x, y) /\ Regroup(x, d, n)  BY ConcatRegroups
<1>9. (h \o x) \o y = h \o (x \o y) /\ (x \o d) \o n = x \o (d \o n)  BY <1>8 DEF Regroup
<1> QED BY <1>2, <1>3, <1>4, <1>5, <1>6, <1>7, <1>9

(* An element appended to the last of three sequences is appended to all of them. *)
LEMMA AppendMoves ==
    ASSUME NEW S, NEW h \in Seq(S), NEW b \in Seq(S), NEW n \in Seq(S), NEW x \in S
    PROVE  h \o (b \o Append(n, x)) = Append(h \o (b \o n), x)
<1>1. PICK y \in Seq(S) : y = <<x>>
  <2>1. <<x>> \in Seq(S)  OBVIOUS
  <2> QED BY <2>1
<1>2. PICK z \in Seq(S) : z = b \o n
  <2>1. b \o n \in Seq(S)  BY ConcatProperties
  <2> QED BY <2>1
<1>3. PICK u \in Seq(S) : u = h \o z
  <2>1. h \o z \in Seq(S)  BY ConcatProperties
  <2> QED BY <2>1
<1>4. Append(n, x) = n \o y /\ Append(u, x) = u \o y  BY <1>1, AppendIsConcat
<1>5. Regroup(b, n, y) /\ Regroup(h, z, y)  BY ConcatRegroups
<1>6. (b \o n) \o y = b \o (n \o y) /\ (h \o z) \o y = h \o (z \o y)  BY <1>5 DEF Regroup
<1> QED BY <1>2, <1>3, <1>4, <1>6

-----------------------------------------------------------------------------
LEMMA QueueInit == Init => QueueInv
<1> SUFFICES ASSUME Init PROVE QueueInv  OBVIOUS
<1>1. nodes = <<>> /\ batch = <<>> /\ added = <<>> /\ handled = <<>> /\ loop = "wait"  BY DEF Init
<1>2. <<>> \in Seq(Events) /\ <<>> \o <<>> = <<>> /\ Len(<<>>) = 0  BY EmptySeq, ConcatEmptySeq
<1>3. \E rest \in Seq(Events) : added = handled \o rest  BY <1>1, <1>2
<1>4. \A i \in 1 .. Len(handled) : handled[i] # "ET_Close"  BY <1>1, <1>2
<1>5. \A i \in 1 .. Len(handled) - 1 : handled[i] # "ET_Close"  BY <1>1, <1>2
<1>6. QueueTypeOK /\ NothingLost  BY <1>1, <1>2 DEF QueueTypeOK, NothingLost
<1> QED BY <1>3, <1>4, <1>5, <1>6 DEF QueueInv, HandledInOrder

(* Trigger adds at the end, whoever runs beside it. *)
LEMMA QueueTrigger ==
    ASSUME QueueInv, NEW ev \in Events, Trigger(ev), UNCHANGED <<batch, loop, handled>>
    PROVE  QueueInv'
<1> USE DEF QueueInv
<1>1. nodes' = Append(nodes, ev) /\ added' = Append(added, ev)  BY DEF Trigger
<1>2. QueueTypeOK'  BY <1>1, AppendProperties DEF QueueTypeOK
<1>3. NothingLost'
  <2>1. handled \o (batch \o Append(nodes, ev)) = Append(handled \o (batch \o nodes), ev)
        BY AppendMoves DEF QueueTypeOK
  <2> QED BY <1>1, <2>1 DEF NothingLost
<1>4. HandledInOrder'
  <2>1. PICK rest \in Seq(Events) : added = handled \o rest  BY DEF HandledInOrder
  <2>2. <<>> \in Seq(Events)  BY EmptySeq
  <2>3. handled \o (<<>> \o Append(rest, ev)) = Append(handled \o (<<>> \o rest), ev)
        BY <2>2, AppendMoves DEF QueueTypeOK
  <2>4. Append(rest, ev) \in Seq(Events)  BY AppendProperties
  <2>5. <<>> \o rest = rest /\ <<>> \o Append(rest, ev) = Append(rest, ev)  BY <2>4, ConcatEmptySeq
  <2>6. added' = handled' \o Append(rest, ev)  BY <1>1, <2>1, <2>3, <2>5
  <2> QED BY <2>4, <2>6 DEF HandledInOrder
<1> QED BY <1>2, <1>3, <1>4

LEMMA QueueEpollWait == QueueInv /\ EpollWait => QueueInv'
<1> SUFFICES ASSUME QueueInv, EpollWait PROVE QueueInv'  OBVIOUS
<1> USE DEF QueueInv, EpollWait
<1>1. loop = "wait" /\ batch = <<>> /\ UNCHANGED <<added, handled>>  BY DEF NothingLost
<1>2. CASE "epoll" \in closed \/ nodes = <<>>
  <2>1. loop' \in {"ended", "events"} /\ UNCHANGED <<nodes, batch>>  BY <1>2
  <2> QED BY <1>1, <2>1 DEF QueueTypeOK, NothingLost, HandledInOrder
<1>3. CASE ~("epoll" \in closed \/ nodes = <<>>)
  <2>1. loop' = "each" /\ batch' = nodes /\ nodes' = <<>>  BY <1>3
  <2>2. <<>> \in Seq(Events) /\ <<>> \o nodes = nodes /\ nodes \o <<>> = nodes
        BY EmptySeq, ConcatEmptySeq DEF QueueTypeOK
  <2> QED BY <1>1, <2>1, <2>2 DEF QueueTypeOK, NothingLost, HandledInOrder
<1> QED BY <1>2, <1>3

(* The head of the batch is handled; anything but ET_Timer ends the loop. *)
LEMMA QueueHandleNode == QueueInv /\ HandleNode => QueueInv'
<1> SUFFICES ASSUME QueueInv, HandleNode PROVE QueueInv'  OBVIOUS
<1> DEFINE ev == Head(batch)
<1> USE DEF QueueInv
<1>1. /\ loop = "each" /\ batch # <<>> /\ handled' = Append(handled, ev)
      /\ UNCHANGED <<nodes, added>>
      BY DEF HandleNode, process
<1>2. ev \in Events /\ Tail(batch) \in Seq(Events) /\ Tail(batch) \o nodes \in Seq(Events)
      BY <1>1, HeadTailProperties, ConcatProperties DEF QueueTypeOK
<1>3. Append(handled, ev) \o (Tail(batch) \o nodes) = added
  <2>1. handled \in Seq(Events) /\ batch \in Seq(Events) /\ nodes \in Seq(Events) /\ batch # <<>>
        BY <1>1 DEF QueueTypeOK
  <2>2. Append(handled, Head(batch)) \o (Tail(batch) \o nodes) = handled \o (batch \o nodes)
        BY ONLY <2>1, HeadMoves
  <2> QED BY <1>1, <2>2 DEF NothingLost
<1>4. /\ Append(handled, ev) \in Seq(Events)
      /\ Len(Append(handled, ev)) = Len(handled) + 1
      /\ \A i \in 1 .. Len(handled) : Append(handled, ev)[i] = handled[i]
      /\ Append(handled, ev)[Len(handled) + 1] = ev
      BY <1>2, AppendProperties DEF QueueTypeOK
<1>5. Len(handled) \in Nat  BY LenProperties DEF QueueTypeOK
<1>6. \A i \in 1 .. Len(handled) : handled[i] # "ET_Close"  BY <1>1 DEF HandledInOrder
<1>7. \A i \in 1 .. Len(handled') - 1 : handled'[i] # "ET_Close"  BY <1>1, <1>4, <1>5, <1>6
<1>8. \E rest \in Seq(Events) : added' = handled' \o rest  BY <1>1, <1>2, <1>3
<1>9. CASE ev = "ET_Timer"
  <2>1. batch' = Tail(batch) /\ loop' = "each"  BY <1>1, <1>9 DEF HandleNode
  <2>2. \A i \in 1 .. Len(handled') : handled'[i] # "ET_Close"  BY <1>1, <1>4, <1>5, <1>6, <1>9
  <2> QED BY <1>1, <1>2, <1>3, <1>4, <1>7, <1>8, <2>1, <2>2
          DEF QueueTypeOK, NothingLost, HandledInOrder
<1>10. CASE ev # "ET_Timer"
  <2>1. batch' = <<>> /\ loop' = "ended"  BY <1>1, <1>10 DEF HandleNode
  <2>2. <<>> \in Seq(Events)  BY EmptySeq
  <2> QED BY <1>1, <1>4, <1>7, <1>8, <2>1, <2>2 DEF QueueTypeOK, NothingLost, HandledInOrder
<1> QED BY <1>9, <1>10

LEMMA QueueNext == QueueInv /\ [Next]_vars => QueueInv'
<1> SUFFICES ASSUME QueueInv, [Next]_vars PROVE QueueInv'  OBVIOUS
<1> DEFINE Same == UNCHANGED <<nodes, batch, loop, added, handled>>
<1>1. ASSUME Same PROVE QueueInv'
      BY <1>1 DEF QueueInv, QueueTypeOK, NothingLost, HandledInOrder
<1>2. CASE TimerTick
      BY <1>2, QueueTrigger DEF TimerTick, Events
<1>3. CASE TriggerClose
      BY <1>3, QueueTrigger DEF TriggerClose, Events
<1>4. CASE EpollWait  BY <1>4, QueueEpollWait
<1>5. CASE HandleNode  BY <1>5, QueueHandleNode
<1>6. CASE ForEachEnds
      BY <1>6 DEF ForEachEnds, QueueInv, QueueTypeOK, NothingLost, HandledInOrder
<1>7. CASE NetworkEvents
      BY <1>7 DEF NetworkEvents, QueueInv, QueueTypeOK, NothingLost, HandledInOrder
<1>8. ASSUME NEW t \in {"ticker", "heartBeat"}, MakeTicker(t) PROVE QueueInv'
      BY <1>1, <1>8 DEF MakeTicker
<1>9. ASSUME NEW s \in Signals, Signal(s) PROVE QueueInv'
      BY <1>1, <1>9 DEF Signal
<1>10. CASE CloseTickers  BY <1>1, <1>10 DEF CloseTickers, CloseStep
<1>11. CASE CloseEtcd  BY <1>1, <1>11 DEF CloseEtcd, CloseStep
<1>12. ASSUME NEW i \in DOMAIN Order, CloseFd(i) PROVE QueueInv'
       BY <1>1, <1>12 DEF CloseFd, CloseStep
<1>13. CASE UNCHANGED vars  BY <1>1, <1>13 DEF vars
<1> QED BY <1>2, <1>3, <1>4, <1>5, <1>6, <1>7, <1>8, <1>9, <1>10, <1>11, <1>12, <1>13 DEF Next

-----------------------------------------------------------------------------
LEMMA QueueInvIsEnough == QueueInv => EventsInOrder
<1> SUFFICES ASSUME QueueInv PROVE EventsInOrder  OBVIOUS
<1> USE DEF QueueInv
<1>1. (handled \o batch) \o nodes = handled \o (batch \o nodes)
  <2>1. handled \in Seq(Events) /\ batch \in Seq(Events) /\ nodes \in Seq(Events)
        BY DEF QueueTypeOK
  <2> HIDE DEF QueueInv
  <2> QED BY <2>1, ConcatAssociative
<1>2. SubSeq(added, 1, Len(handled)) = handled
  <2>1. PICK rest \in Seq(Events) : added = handled \o rest  BY DEF HandledInOrder
  <2>2. Len(handled) \in Nat  BY LenProperties DEF QueueTypeOK
  <2>3. CASE Len(handled) = 0
    <3>1. handled = <<>>  BY <2>3, EmptySeq DEF QueueTypeOK
    <3> QED BY <2>3, <3>1, SubSeqEmpty
  <2>4. CASE Len(handled) # 0
    <3>1. SubSeq(handled \o rest, 1, Len(handled)) = SubSeq(handled, 1, Len(handled))
          BY <2>2, <2>4, SubSeqOfConcat1 DEF QueueTypeOK
    <3>2. SubSeq(handled, 1, Len(handled)) = handled  BY SubSeqFull DEF QueueTypeOK
    <3> QED BY <2>1, <3>1, <3>2
  <2> QED BY <2>3, <2>4
<1> QED BY <1>1, <1>2 DEF EventsInOrder, NothingLost, HandledInOrder

(* Events are handled in the order they were added, each once; none is lost while the loop  *)
(* runs and none is handled after an ET_Close, in any process with any number of events.    *)
THEOREM EventsKeepTheirOrder == Spec => []EventsInOrder
<1>1. Spec => []QueueInv  BY QueueInit, QueueNext, PTL DEF Spec
<1> QED BY <1>1, QueueInvIsEnough, PTL


-----------------------------------------------------------------------------
(* The event loops of package evio. *)
Young == {"new", "accepted", "leaked"}
WithFd == {"accepted", "open", "detached", "leaked"}

(* The notes that may wait: a connection wakes its loop only once it has been opened. *)
LateNotes == {"tick", "closing"} \cup {c \in Conns : conn[c].st \notin Young}

ConnTypes == [st : Young \cup {"open", "closed", "detached"}, fd : Fds \cup {0},
              loop : Loops, out : BOOLEAN, action : Actions]
RunTypes  == [at : {"wait", "notes", "events", "ended"}, batch : Seq(LateNotes),
              ready : SUBSET (Fds \cup {0, Listener})]

EvioTypeOK ==
  /\ conn \in [Conns -> ConnTypes]
  /\ notes \in [Loops -> Seq(LateNotes)]
  /\ run \in [Loops -> RunTypes]

OwnDescriptors ==
  \A c, d \in Conns : (c # d /\ conn[c].st \in WithFd /\ conn[d].st \in WithFd) => conn[c].fd # conn[d].fd

AllStopped ==
  serve = "stopped" => /\ \A l \in Loops : run[l].at = "ended"
                       /\ \A c \in Conns : conn[c].st \in {"new", "closed", "detached", "leaked"}

EvioInv == EvioTypeOK /\ OwnDescriptors /\ AllStopped /\ misused = FALSE

(* No step but an accept makes a connection of nothing. *)
ConnsGoOn ==
  \A c \in Conns : /\ conn'[c].fd = conn[c].fd
                   /\ conn'[c].st \in WithFd => conn[c].st \in WithFd
                   /\ conn'[c].st \in Young => conn[c].st \in Young

LEMMA FirstLoop == 0 \in Loops
<1>1. Cardinality(Loops) \in Nat /\ Cardinality(Loops) # 0
  BY EvioAssumption, FS_CardinalityType, FS_EmptySet
<1>2. QED
  BY <1>1, EvioAssumption

(* The notes' type only grows. *)
LEMMA NotesStay ==
  ASSUME \A c \in Conns : conn'[c].st \in Young => conn[c].st \in Young
  PROVE  LateNotes \subseteq LateNotes' /\ Seq(LateNotes) \subseteq Seq(LateNotes')
<1>1. LateNotes \subseteq LateNotes'
  BY DEF LateNotes, Young
<1>2. ASSUME NEW s \in Seq(LateNotes) PROVE s \in Seq(LateNotes')
  <2>1. s \in [1 .. Len(s) -> LateNotes] /\ Len(s) \in Nat
    BY LenProperties
  <2>2. s \in [1 .. Len(s) -> LateNotes']
    BY <1>1, <2>1
  <2>3. QED
    BY <2>1, <2>2, SeqDef
<1>3. QED
  BY <1>1, <1>2

LEMMA DescriptorsStay ==
  ASSUME OwnDescriptors, ConnsGoOn
  PROVE  OwnDescriptors'
  BY DEF OwnDescriptors, ConnsGoOn, WithFd

(* A round of loop l, which goes on with `next` or ends. *)
LEMMA LoopsGoOn ==
  ASSUME EvioInv, NEW l \in Loops, run[l].at # "ended", NEW next \in RunTypes', Returns(l, next),
         \A c \in Conns : conn'[c].st \in Young => conn[c].st \in Young
  PROVE  run' \in [Loops -> RunTypes'] /\ AllStopped'
<1>1. Ended \in RunTypes'
  <2>1. <<>> \in Seq(LateNotes')
    BY EmptySeq
  <2>2. QED
    BY <2>1 DEF Ended, RunTypes
<1>2. PICK n \in RunTypes' : run' = [run EXCEPT ![l] = n]
  BY <1>1 DEF Returns, Goes, Ends
<1>3. RunTypes \subseteq RunTypes'
  BY NotesStay DEF RunTypes
<1>4. run' \in [Loops -> RunTypes']
  BY <1>2, <1>3 DEF EvioInv, EvioTypeOK
<1>5. serve # "stopped"
  BY DEF EvioInv, AllStopped
<1>6. serve' # "stopped"
  BY <1>5 DEF Returns, Goes, Ends
<1>7. QED
  BY <1>4, <1>6 DEF AllStopped

LEMMA RoundTypes ==
  ASSUME NEW b \in Seq(LateNotes'), NEW ready \in SUBSET (Fds \cup {0, Listener})
  PROVE  Round(b, ready) \in RunTypes'
  BY DEF Round, RunTypes

(* An event of loop l that leaves the notes alone. *)
LEMMA EventStep ==
  ASSUME EvioInv, NEW l \in Loops, NEW fd, Event(l, fd), Returns(l, After(l, fd)),
         conn' \in [Conns -> ConnTypes], ConnsGoOn, misused' = FALSE, notes' = notes
  PROVE  EvioInv'
<1>1. \A c \in Conns : conn'[c].st \in Young => conn[c].st \in Young
  BY DEF ConnsGoOn
<1>2. After(l, fd) \in RunTypes'
  <2>1. <<>> \in Seq(LateNotes')
    BY EmptySeq
  <2>2. run[l].ready \ {fd} \in SUBSET (Fds \cup {0, Listener})
    BY DEF EvioInv, EvioTypeOK, RunTypes
  <2>3. QED
    BY <2>1, <2>2, RoundTypes DEF After
<1>3. run[l].at # "ended"
  BY DEF Event
<1>4. run' \in [Loops -> RunTypes'] /\ AllStopped'
  BY <1>1, <1>2, <1>3, LoopsGoOn
<1>5. notes' \in [Loops -> Seq(LateNotes')]
  BY <1>1, NotesStay DEF EvioInv, EvioTypeOK
<1>6. OwnDescriptors'
  BY DescriptorsStay DEF EvioInv
<1>7. QED
  BY <1>4, <1>5, <1>6 DEF EvioInv, EvioTypeOK, ConnTypes

(* One connection changes, and only its state, output and action. *)
LEMMA OneConnGoesOn ==
  ASSUME EvioTypeOK, NEW c \in Conns, NEW r \in ConnTypes, conn' = [conn EXCEPT ![c] = r],
         r.fd = conn[c].fd, conn[c].st \in WithFd, r.st \in {"open", "closed", "detached"}
  PROVE  conn' \in [Conns -> ConnTypes] /\ ConnsGoOn
<1>1. conn \in [Conns -> ConnTypes]
  BY DEF EvioTypeOK
<1>2. conn' \in [Conns -> ConnTypes]
  BY <1>1
<1>3. conn'[c] = r /\ \A d \in Conns : d # c => conn'[d] = conn[d]
  BY <1>1
<1>4. r.st \notin Young
  BY DEF Young
<1>5. QED
  BY <1>2, <1>3, <1>4 DEF ConnsGoOn

LEMMA SameConns ==
  ASSUME EvioTypeOK, conn' = conn
  PROVE  conn' \in [Conns -> ConnTypes] /\ ConnsGoOn
  BY DEF EvioTypeOK, ConnsGoOn

(* A connection is what its record says. *)
LEMMA ConnRecord ==
  ASSUME EvioTypeOK, NEW c \in Conns
  PROVE  /\ conn[c] \in ConnTypes
         /\ \A st \in {"open", "closed", "detached"}, out \in BOOLEAN, action \in Actions :
               [conn[c] EXCEPT !.st = st, !.out = out, !.action = action] \in ConnTypes
<1>1. conn[c] \in ConnTypes
  BY DEF EvioTypeOK
<1>2. QED
  BY <1>1 DEF ConnTypes

LEMMA EvioStarts == EvioInit => EvioInv
<1> SUFFICES ASSUME EvioInit PROVE EvioInv
  OBVIOUS
<1>1. conn \in [Conns -> ConnTypes]
  BY FirstLoop DEF EvioInit, ConnTypes, Young, Actions
<1>2. <<>> \in Seq(LateNotes)
  BY EmptySeq
<1>3. notes \in [Loops -> Seq(LateNotes)]
  BY <1>2 DEF EvioInit
<1>4. run \in [Loops -> RunTypes]
  BY <1>2 DEF EvioInit, RunTypes
<1>5. OwnDescriptors /\ AllStopped
  BY DEF EvioInit, OwnDescriptors, AllStopped, WithFd
<1>6. QED
  BY <1>1, <1>3, <1>4, <1>5 DEF EvioInit, EvioInv, EvioTypeOK

-----------------------------------------------------------------------------
(* The steps. *)

LEMMA WakeStep ==
  ASSUME EvioInv, NEW c \in Conns, Wake(c)
  PROVE  EvioInv'
<1>1. PICK l \in Loops : l = conn[c].loop
  BY DEF EvioInv, EvioTypeOK, ConnTypes
<1>2. c \in LateNotes
  BY DEF Wake, LateNotes, Young
<1>3. notes[l] \in Seq(LateNotes)
  BY DEF EvioInv, EvioTypeOK
<1>4. Append(notes[l], c) \in Seq(LateNotes)
  BY <1>2, <1>3, AppendProperties
<1>5. notes' = [notes EXCEPT ![l] = Append(notes[l], c)]
  BY <1>1 DEF Wake, PollTrigger
<1>6. notes' \in [Loops -> Seq(LateNotes)]
  BY <1>4, <1>5 DEF EvioInv, EvioTypeOK
<1>7. conn' = conn /\ run' = run /\ serve' = serve /\ misused' = misused
  BY DEF Wake
<1>8. QED
  BY <1>6, <1>7 DEF EvioInv, EvioTypeOK, OwnDescriptors, AllStopped, LateNotes, ConnTypes, RunTypes

LEMMA TickStep ==
  ASSUME EvioInv, loopTicker
  PROVE  EvioInv'
<1>1. "tick" \in LateNotes /\ notes[0] \in Seq(LateNotes)
  BY FirstLoop DEF EvioInv, EvioTypeOK, LateNotes
<1>2. Append(notes[0], "tick") \in Seq(LateNotes)
  BY <1>1, AppendProperties
<1>3. notes' \in [Loops -> Seq(LateNotes)]
  BY <1>2 DEF EvioInv, EvioTypeOK, loopTicker, PollTrigger
<1>4. conn' = conn /\ run' = run /\ serve' = serve /\ misused' = misused
  BY DEF loopTicker
<1>5. QED
  BY <1>3, <1>4 DEF EvioInv, EvioTypeOK, OwnDescriptors, AllStopped, LateNotes, ConnTypes, RunTypes

LEMMA WaitStep ==
  ASSUME EvioInv, NEW l \in Loops, Wait(l)
  PROVE  EvioInv'
<1>1. conn' = conn /\ serve' = serve /\ misused' = misused
  BY DEF Wait
<1>2. PICK ready \in SUBSET ({Listener} \cup {conn[c].fd : c \in InLoop(l)}) :
         run' = [run EXCEPT ![l] = Round(notes[l], ready)]
  BY DEF Wait
<1>3. ready \in SUBSET (Fds \cup {0, Listener})
  <2>1. \A c \in Conns : conn[c].fd \in Fds \cup {0}
    BY DEF EvioInv, EvioTypeOK, ConnTypes
  <2>2. QED
    BY <2>1 DEF InLoop
<1>4. LateNotes' = LateNotes
  BY <1>1 DEF LateNotes
<1>5. notes[l] \in Seq(LateNotes')
  BY <1>4 DEF EvioInv, EvioTypeOK
<1>6. Round(notes[l], ready) \in RunTypes'
  BY <1>3, <1>5, RoundTypes
<1>7. Returns(l, Round(notes[l], ready))
  BY <1>1, <1>2 DEF Returns, Goes
<1>8. run' \in [Loops -> RunTypes'] /\ AllStopped'
  BY <1>1, <1>6, <1>7, LoopsGoOn DEF Wait
<1>9. notes' \in [Loops -> Seq(LateNotes')]
  <2>1. <<>> \in Seq(LateNotes')
    BY EmptySeq
  <2>2. QED
    BY <1>4, <2>1 DEF Wait, EvioInv, EvioTypeOK
<1>10. OwnDescriptors'
  BY <1>1 DEF EvioInv, OwnDescriptors
<1>11. conn' \in [Conns -> ConnTypes]
  BY <1>1 DEF EvioInv, EvioTypeOK
<1>12. QED
  BY <1>1, <1>8, <1>9, <1>10, <1>11 DEF EvioInv, EvioTypeOK, ConnTypes

LEMMA NoteStep ==
  ASSUME EvioInv, NEW l \in Loops, loopNote(l)
  PROVE  EvioInv'
<1>1. run[l].at = "notes" /\ run[l].batch # <<>> /\ notes' = notes
  BY DEF loopNote
<1>2. run[l].batch \in Seq(LateNotes) /\ run[l].ready \in SUBSET (Fds \cup {0, Listener})
  BY DEF EvioInv, EvioTypeOK, RunTypes
<1>3. PICK note \in LateNotes : note = Head(run[l].batch)
  BY <1>1, <1>2, HeadTailProperties
<1>4. PICK next : next = Round(Tail(run[l].batch), run[l].ready)
  OBVIOUS
<1>5. Tail(run[l].batch) \in Seq(LateNotes)
  BY <1>1, <1>2, HeadTailProperties
<1>6. /\ conn' \in [Conns -> ConnTypes] /\ ConnsGoOn /\ misused' = FALSE
      /\ Returns(l, next)
  <2>1. CASE note = "tick" \/ note = "closing"
    <3>1. note \notin Conns
      BY <2>1, EvioAssumption
    <3>2. Returns(l, next) /\ conn' = conn /\ misused' = misused
      BY <1>3, <1>4, <3>1 DEF loopNote, Returns
    <3>3. QED
      BY <3>2, SameConns DEF EvioInv
  <2>2. CASE note \in Conns /\ Stale(l, note)
    <3>1. Goes(l, next) /\ conn' = conn /\ misused' = misused
      BY <1>3, <1>4, <2>2, EvioAssumption DEF loopNote
    <3>2. QED
      BY <3>1, SameConns DEF EvioInv, Returns
  <2>3. CASE note \in Conns /\ ~Stale(l, note)
    <3>1. Goes(l, next) /\ loopWake(note)
      BY <1>3, <1>4, <2>3, EvioAssumption DEF loopNote
    <3>2. conn[note].st = "open"
      <4>1. note \notin {"tick", "closing"}
        BY <2>3, EvioAssumption
      <4>2. conn[note].st \notin Young /\ conn[note].st \in {"accepted", "open"}
        BY <2>3, <4>1 DEF LateNotes, Stale, InLoop
      <4>3. QED
        BY <4>2 DEF Young
    <3>3. PICK more \in BOOLEAN, a \in Actions :
             conn' = [conn EXCEPT ![note].out = @ \/ more, ![note].action = a]
      BY <3>1 DEF loopWake
    <3>4. misused' = FALSE
      BY <3>1, <3>2 DEF loopWake, Fires, EvioInv
    <3>5. PICK r : r = [conn[note] EXCEPT !.out = @ \/ more, !.action = a]
      OBVIOUS
    <3>6. r \in ConnTypes /\ r.fd = conn[note].fd /\ r.st = conn[note].st
      <4>1. conn[note] \in ConnTypes
        BY <2>3, ConnRecord DEF EvioInv
      <4>2. QED
        BY <3>5, <4>1 DEF ConnTypes
    <3>7. conn' = [conn EXCEPT ![note] = r]
      BY <2>3, <3>3, <3>5 DEF EvioInv, EvioTypeOK
    <3>8. conn[note].st \in WithFd
      BY <3>2 DEF WithFd
    <3>9. conn' \in [Conns -> ConnTypes] /\ ConnsGoOn
      BY <2>3, <3>2, <3>6, <3>7, <3>8, OneConnGoesOn DEF EvioInv
    <3>10. QED
      BY <3>1, <3>4, <3>9 DEF Returns
  <2>4. QED
    BY <2>1, <2>2, <2>3 DEF LateNotes
<1>7. \A c \in Conns : conn'[c].st \in Young => conn[c].st \in Young
  BY <1>6 DEF ConnsGoOn
<1>8. next \in RunTypes'
  <2>1. Tail(run[l].batch) \in Seq(LateNotes')
    BY <1>5, <1>7, NotesStay
  <2>2. QED
    BY <1>2, <1>4, <2>1, RoundTypes
<1>9. run[l].at # "ended"
  BY <1>1
<1>10. run' \in [Loops -> RunTypes'] /\ AllStopped'
  BY <1>6, <1>7, <1>8, <1>9, LoopsGoOn
<1>11. notes' \in [Loops -> Seq(LateNotes')]
  BY <1>1, <1>7, NotesStay DEF EvioInv, EvioTypeOK
<1>12. OwnDescriptors'
  BY <1>6, DescriptorsStay DEF EvioInv
<1>13. QED
  BY <1>6, <1>10, <1>11, <1>12 DEF EvioInv, EvioTypeOK, ConnTypes

LEMMA AcceptStep ==
  ASSUME EvioInv, NEW l \in Loops, loopAccept(l)
  PROVE  EvioInv'
<1>1. Event(l, Listener) /\ notes' = notes /\ misused' = FALSE
  BY DEF loopAccept, EvioInv
<1>2. CASE conn' = conn /\ Returns(l, After(l, Listener))
  BY <1>1, <1>2, SameConns, EventStep DEF EvioInv
<1>3. ASSUME NEW c \in Conns, NEW fd \in Fds \ FdsInUse, conn[c].st = "new",
             NEW st \in {"accepted", "leaked"}, Returns(l, After(l, Listener)),
             conn' = [conn EXCEPT ![c] = [st |-> st, fd |-> fd, loop |-> l,
                                          out |-> FALSE, action |-> "None"]]
      PROVE  EvioInv'
  <2>1. PICK r : r = [st |-> st, fd |-> fd, loop |-> l, out |-> FALSE, action |-> "None"]
    OBVIOUS
  <2>2. r \in ConnTypes /\ r.st = st /\ r.fd = fd
    BY <2>1 DEF ConnTypes, Young, Actions
  <2>3. conn \in [Conns -> ConnTypes] /\ conn' = [conn EXCEPT ![c] = r]
    BY <1>3, <2>1 DEF EvioInv, EvioTypeOK
  <2>4. conn' \in [Conns -> ConnTypes]
    BY <2>2, <2>3
  <2>5. conn'[c] = r /\ \A d \in Conns : d # c => conn'[d] = conn[d]
    BY <2>3
  <2>6. \A d \in Conns : conn'[d].st \in Young => conn[d].st \in Young
    BY <1>3, <2>5 DEF Young
  <2>7. OwnDescriptors'
    <3>1. \A d \in Conns : conn[d].st \in WithFd => conn[d].fd # fd
      BY <1>3 DEF FdsInUse, WithFd
    <3>2. ASSUME NEW a \in Conns, NEW b \in Conns, a # b, conn'[a].st \in WithFd, conn'[b].st \in WithFd
          PROVE  conn'[a].fd # conn'[b].fd
      <4>1. CASE a = c
        BY <2>2, <2>5, <3>1, <3>2, <4>1
      <4>2. CASE b = c
        BY <2>2, <2>5, <3>1, <3>2, <4>2
      <4>3. CASE a # c /\ b # c
        BY <2>5, <3>2, <4>3 DEF EvioInv, OwnDescriptors
      <4>4. QED
        BY <4>1, <4>2, <4>3
    <3>3. QED
      BY <3>2 DEF OwnDescriptors, WithFd
  <2>8. After(l, Listener) \in RunTypes'
    <3>1. <<>> \in Seq(LateNotes')
      BY EmptySeq
    <3>2. run[l].ready \ {Listener} \in SUBSET (Fds \cup {0, Listener})
      BY DEF EvioInv, EvioTypeOK, RunTypes
    <3>3. QED
      BY <3>1, <3>2, RoundTypes DEF After
  <2>9. run' \in [Loops -> RunTypes'] /\ AllStopped'
    <3>1. run[l].at # "ended" /\ Returns(l, After(l, Listener))
      BY <1>1, <1>3 DEF Event
    <3>2. QED
      BY <2>6, <2>8, <3>1, LoopsGoOn
  <2>10. notes' \in [Loops -> Seq(LateNotes')]
    BY <1>1, <2>6, NotesStay DEF EvioInv, EvioTypeOK
  <2>11. QED
    BY <1>1, <2>4, <2>7, <2>9, <2>10 DEF EvioInv, EvioTypeOK, ConnTypes
<1>4. QED
  BY <1>2, <1>3 DEF loopAccept, loopUDPRead, Returns

(* An event of a connection that the loop has. *)
LEMMA ConnEvent ==
  ASSUME EvioInv, NEW l \in Loops, NEW fd, NEW c \in Conns, Has(l, c, fd), notes' = notes,
         NEW st \in {"open", "closed", "detached"}, NEW out \in BOOLEAN, NEW action \in Actions,
         conn' = [conn EXCEPT ![c] = [@ EXCEPT !.st = st, !.out = out, !.action = action]],
         Returns(l, After(l, fd)), misused' = FALSE
  PROVE  EvioInv'
<1>1. PICK r \in ConnTypes : r = [conn[c] EXCEPT !.st = st, !.out = out, !.action = action]
  BY ConnRecord DEF EvioInv
<1>2. r.fd = conn[c].fd /\ r.st = st
  <2>1. conn[c] \in ConnTypes
    BY ConnRecord DEF EvioInv
  <2>2. QED
    BY <1>1, <2>1 DEF ConnTypes
<1>3. conn' = [conn EXCEPT ![c] = r]
  BY <1>1
<1>4. conn[c].st \in WithFd
  BY DEF Has, InLoop, WithFd
<1>5. conn' \in [Conns -> ConnTypes] /\ ConnsGoOn
  BY <1>2, <1>3, <1>4, OneConnGoesOn DEF EvioInv
<1>6. QED
  BY <1>5, EventStep DEF Has

LEMMA NobodyStep ==
  ASSUME EvioInv, NEW l \in Loops, NEW fd \in Fds, loopNobody(l, fd)
  PROVE  EvioInv'
<1>1. /\ Event(l, fd) /\ Returns(l, After(l, fd)) /\ conn' = conn
      /\ notes' = notes /\ misused' = FALSE
  BY DEF loopNobody, Returns, EvioInv
<1>2. QED
  BY <1>1, SameConns, EventStep DEF EvioInv

LEMMA ConnFields ==
  ASSUME EvioInv, NEW c \in Conns, conn[c].st = "open"
  PROVE  /\ conn[c].out \in BOOLEAN /\ conn[c].action \in Actions
         /\ conn = [conn EXCEPT ![c] = [@ EXCEPT !.st = "open", !.out = conn[c].out, !.action = conn[c].action]]
         /\ \A st : [conn EXCEPT ![c].st = st]
               = [conn EXCEPT ![c] = [@ EXCEPT !.st = st, !.out = conn[c].out, !.action = conn[c].action]]
         /\ \A out : [conn EXCEPT ![c].out = out]
               = [conn EXCEPT ![c] = [@ EXCEPT !.st = "open", !.out = out, !.action = conn[c].action]]
<1>1. conn[c] \in ConnTypes /\ conn \in [Conns -> ConnTypes]
  BY ConnRecord DEF EvioInv, EvioTypeOK
<1>2. conn[c].out \in BOOLEAN /\ conn[c].action \in Actions
  BY <1>1 DEF ConnTypes
<1>3. conn[c] = [conn[c] EXCEPT !.st = "open", !.out = conn[c].out, !.action = conn[c].action]
  BY <1>1 DEF ConnTypes
<1>4. \A st : [conn[c] EXCEPT !.st = st]
         = [conn[c] EXCEPT !.st = st, !.out = conn[c].out, !.action = conn[c].action]
  BY <1>1 DEF ConnTypes
<1>5. \A out : [conn[c] EXCEPT !.out = out]
         = [conn[c] EXCEPT !.st = "open", !.out = out, !.action = conn[c].action]
  BY <1>1 DEF ConnTypes
<1>6. QED
  BY <1>1, <1>2, <1>3, <1>4, <1>5

(* What a step of loop l makes of connection c: a state, output or not, and an action. *)
Makes(c, st, out, action) ==
  conn' = [conn EXCEPT ![c] = [@ EXCEPT !.st = st, !.out = out, !.action = action]]

LEMMA OpenedStep ==
  ASSUME EvioInv, NEW l \in Loops, NEW fd \in Fds, NEW c \in Conns, loopOpened(l, c, fd)
  PROVE  EvioInv'
<1>1. PICK out \in BOOLEAN, action \in Actions : Makes(c, "open", out, action)
  BY DEF loopOpened, Makes
<1>2. Has(l, c, fd) /\ Returns(l, After(l, fd)) /\ notes' = notes /\ misused' = FALSE
  BY DEF loopOpened, Returns, EvioInv
<1>3. QED
  BY <1>1, <1>2, ConnEvent DEF Makes

(* The events of an open connection are no misuse, and leave it, close it or detach it. *)
LEMMA OpenConnStep ==
  ASSUME EvioInv, NEW l \in Loops, NEW fd \in Fds, NEW c \in Conns, Has(l, c, fd), Opened(c),
         Fires(c, "open"), notes' = notes, Returns(l, After(l, fd)),
         \/ conn' = conn
         \/ \E st \in {"closed", "detached"} : conn' = [conn EXCEPT ![c].st = st]
         \/ \E out \in BOOLEAN : conn' = [conn EXCEPT ![c].out = out]
         \/ \E out \in BOOLEAN, a \in Actions : conn' = [conn EXCEPT ![c].out = out, ![c].action = a]
  PROVE  EvioInv'
<1>1. conn[c].st = "open" /\ misused' = FALSE
  BY DEF Opened, Fires, EvioInv
<1>2. \E st \in {"open", "closed", "detached"}, out \in BOOLEAN, action \in Actions :
         Makes(c, st, out, action)
  <2>1. ASSUME conn' = conn
        PROVE  Makes(c, "open", conn[c].out, conn[c].action)
    BY <1>1, <2>1, ConnFields DEF Makes
  <2>2. ASSUME NEW st \in {"closed", "detached"}, conn' = [conn EXCEPT ![c].st = st]
        PROVE  Makes(c, st, conn[c].out, conn[c].action)
    BY <1>1, <2>2, ConnFields DEF Makes
  <2>3. ASSUME NEW out \in BOOLEAN, conn' = [conn EXCEPT ![c].out = out]
        PROVE  Makes(c, "open", out, conn[c].action)
    BY <1>1, <2>3, ConnFields DEF Makes
  <2>4. ASSUME NEW out \in BOOLEAN, NEW a \in Actions, conn' = [conn EXCEPT ![c].out = out, ![c].action = a]
        PROVE  Makes(c, "open", out, a)
    <3>1. [conn EXCEPT ![c].out = out, ![c].action = a]
            = [conn EXCEPT ![c] = [@ EXCEPT !.st = "open", !.out = out, !.action = a]]
      <4>1. conn[c] \in ConnTypes /\ conn \in [Conns -> ConnTypes]
        BY ConnRecord DEF EvioInv, EvioTypeOK
      <4>2. [conn[c] EXCEPT !.out = out, !.action = a]
              = [conn[c] EXCEPT !.st = "open", !.out = out, !.action = a]
        BY <1>1, <4>1 DEF ConnTypes
      <4>3. [conn EXCEPT ![c].out = out, ![c].action = a]
              = [conn EXCEPT ![c] = [@ EXCEPT !.out = out, !.action = a]]
        BY <4>1
      <4>4. QED
        BY <4>2, <4>3, Zenon
    <3>2. QED
      BY <2>4, <3>1, Zenon DEF Makes
  <2>5. conn[c].out \in BOOLEAN /\ conn[c].action \in Actions
    BY <1>1, ConnFields
  <2>6. QED
    BY <2>1, <2>2, <2>3, <2>4, <2>5
<1>3. QED
  BY <1>1, <1>2, ConnEvent DEF Makes

LEMMA WriteStep ==
  ASSUME EvioInv, NEW l \in Loops, NEW fd \in Fds, NEW c \in Conns, loopWrite(l, c, fd)
  PROVE  EvioInv'
<1>1. /\ Has(l, c, fd) /\ Opened(c) /\ Fires(c, "open") /\ notes' = notes /\ Returns(l, After(l, fd))
  BY DEF loopWrite, Writing, loopCloseConn, Returns
<1>2. \/ \E out \in BOOLEAN : conn' = [conn EXCEPT ![c].out = out]
      \/ conn' = [conn EXCEPT ![c].st = "closed"]
  BY DEF loopWrite, loopCloseConn
<1>3. QED
  BY <1>1, <1>2, OpenConnStep

LEMMA ActionStep ==
  ASSUME EvioInv, NEW l \in Loops, NEW fd \in Fds, NEW c \in Conns, loopAction(l, c, fd)
  PROVE  EvioInv'
<1>1. Has(l, c, fd) /\ Opened(c) /\ Fires(c, "open") /\ notes' = notes
  BY DEF loopAction, Acting
<1>2. Returns(l, After(l, fd)) /\ (conn' = conn \/ \E st \in {"closed", "detached"} : conn' = [conn EXCEPT ![c].st = st])
  BY DEF loopAction, loopCloseConn, loopDetachConn, Returns
<1>3. QED
  BY <1>1, <1>2, OpenConnStep

LEMMA ReadStep ==
  ASSUME EvioInv, NEW l \in Loops, NEW fd \in Fds, NEW c \in Conns, loopRead(l, c, fd)
  PROVE  EvioInv'
<1>1. Has(l, c, fd) /\ Opened(c) /\ Fires(c, "open") /\ notes' = notes /\ Returns(l, After(l, fd))
  BY DEF loopRead, Reading, loopCloseConn, Returns
<1>2. \/ conn' = conn
      \/ conn' = [conn EXCEPT ![c].st = "closed"]
      \/ \E out \in BOOLEAN, a \in Actions : conn' = [conn EXCEPT ![c].out = out, ![c].action = a]
  BY DEF loopRead, loopCloseConn
<1>3. QED
  BY <1>1, <1>2, OpenConnStep

LEMMA ServeStep ==
  ASSUME EvioInv, waitForShutdown \/ NotifyLoops
  PROVE  EvioInv'
<1>1. conn' = conn /\ run' = run /\ misused' = misused /\ serve' # "stopped"
  BY DEF waitForShutdown, NotifyLoops
<1>2. LateNotes' = LateNotes
  BY <1>1 DEF LateNotes
<1>3. notes' \in [Loops -> Seq(LateNotes)]
  <2>1. CASE notes' = notes
    BY <2>1 DEF EvioInv, EvioTypeOK
  <2>2. CASE notes' = [l \in Loops |-> Append(notes[l], "closing")]
    <3>1. ASSUME NEW l \in Loops PROVE Append(notes[l], "closing") \in Seq(LateNotes)
      <4>1. notes[l] \in Seq(LateNotes) /\ "closing" \in LateNotes
        BY DEF EvioInv, EvioTypeOK, LateNotes
      <4>2. QED
        BY <4>1, AppendProperties
    <3>2. QED
      BY <2>2, <3>1
  <2>3. QED
    BY <2>1, <2>2 DEF waitForShutdown, NotifyLoops
<1>4. conn' \in [Conns -> ConnTypes] /\ run' \in [Loops -> RunTypes']
  BY <1>1, <1>2 DEF EvioInv, EvioTypeOK, RunTypes
<1>5. OwnDescriptors' /\ AllStopped'
  BY <1>1 DEF EvioInv, OwnDescriptors, AllStopped
<1>6. QED
  BY <1>1, <1>2, <1>3, <1>4, <1>5 DEF EvioInv, EvioTypeOK, ConnTypes

LEMMA CloseLoopsStep ==
  ASSUME EvioInv, CloseLoops
  PROVE  EvioInv'
<1>1. /\ \A l \in Loops : run[l].at = "ended"
      /\ conn' = [c \in Conns |-> IF \E l \in Loops : c \in InLoop(l)
                                     THEN [conn[c] EXCEPT !.st = "closed"] ELSE conn[c]]
      /\ notes' = notes /\ run' = run /\ misused' = misused
  BY DEF CloseLoops
<1>2. ASSUME NEW c \in Conns
      PROVE  /\ conn'[c] \in ConnTypes /\ conn'[c].fd = conn[c].fd
             /\ conn'[c].st = conn[c].st \/ conn'[c].st = "closed"
             /\ conn'[c].st \in {"new", "closed", "detached", "leaked"}
  <2>1. conn[c] \in ConnTypes
    BY ConnRecord DEF EvioInv
  <2>2. conn[c].loop \in Loops
    BY <2>1 DEF ConnTypes
  <2>3. CASE conn[c].st \in {"accepted", "open"}
    <3>1. conn'[c] = [conn[c] EXCEPT !.st = "closed"]
      BY <1>1, <2>2, <2>3 DEF InLoop
    <3>2. QED
      BY <2>1, <3>1 DEF ConnTypes
  <2>4. CASE conn[c].st \notin {"accepted", "open"}
    <3>1. conn'[c] = conn[c]
      BY <1>1, <2>4 DEF InLoop
    <3>2. QED
      BY <2>1, <2>4, <3>1 DEF ConnTypes, Young
  <2>5. QED
    BY <2>3, <2>4
<1>3. conn' \in [Conns -> ConnTypes]
  BY <1>1, <1>2
<1>4. ConnsGoOn
  BY <1>2 DEF ConnsGoOn, WithFd, Young
<1>5. \A c \in Conns : conn'[c].st \in Young => conn[c].st \in Young
  BY <1>4 DEF ConnsGoOn
<1>6. notes' \in [Loops -> Seq(LateNotes')] /\ run' \in [Loops -> RunTypes']
  BY <1>1, <1>5, NotesStay DEF EvioInv, EvioTypeOK, RunTypes
<1>7. OwnDescriptors'
  BY <1>4, DescriptorsStay DEF EvioInv
<1>8. AllStopped'
  BY <1>1, <1>2 DEF AllStopped
<1>9. QED
  BY <1>1, <1>3, <1>6, <1>7, <1>8 DEF EvioInv, EvioTypeOK, ConnTypes

(* However many loops and connections there are, however descriptors are used again and      *)
(* however late a wake comes: an event goes to a connection that is open, no two connections *)
(* with a descriptor have the same one, and when serve returns none is left open             *)
(* (evio/evio_unix.go, loopNote, loopAccept, loopRun, serve).                                *)
THEOREM EventsFindTheirConns == EvioSpec => []EventsGoToOpenConns
<1>1. EvioInit => EvioInv
  BY EvioStarts
<1>2. EvioInv /\ [EvioNext]_evioVars => EvioInv'
  <2> SUFFICES ASSUME EvioInv, [EvioNext]_evioVars PROVE EvioInv'
    OBVIOUS
  <2>1. ASSUME NEW c \in Conns, Wake(c) PROVE EvioInv'
    BY <2>1, WakeStep
  <2>2. CASE loopTicker
    BY <2>2, TickStep
  <2>3. CASE waitForShutdown \/ NotifyLoops
    BY <2>3, ServeStep
  <2>4. CASE CloseLoops
    BY <2>4, CloseLoopsStep
  <2>5. ASSUME NEW l \in Loops, Wait(l) \/ loopNote(l) \/ loopAccept(l) PROVE EvioInv'
    BY <2>5, WaitStep, NoteStep, AcceptStep
  <2>6. ASSUME NEW l \in Loops, NEW fd \in Fds, loopNobody(l, fd) PROVE EvioInv'
    BY <2>6, NobodyStep
  <2>7. ASSUME NEW l \in Loops, NEW fd \in Fds, NEW c \in Conns,
               loopOpened(l, c, fd) \/ loopWrite(l, c, fd) \/ loopAction(l, c, fd) \/ loopRead(l, c, fd)
        PROVE  EvioInv'
    BY <2>7, OpenedStep, WriteStep, ActionStep, ReadStep
  <2>8. CASE UNCHANGED evioVars
    <3>1. conn' = conn /\ notes' = notes /\ run' = run /\ serve' = serve /\ misused' = misused
      BY <2>8 DEF evioVars
    <3>2. QED
      BY <3>1 DEF EvioInv, EvioTypeOK, OwnDescriptors, AllStopped, LateNotes, ConnTypes, RunTypes
  <2>9. QED
    BY <2>1, <2>2, <2>3, <2>4, <2>5, <2>6, <2>7, <2>8 DEF EvioNext
<1>3. EvioInv => EventsGoToOpenConns
  <2> SUFFICES ASSUME EvioInv PROVE EventsGoToOpenConns
    OBVIOUS
  <2>1. \A c, d \in Conns : (c # d /\ {conn[c].st, conn[d].st} \subseteq WithFd) => conn[c].fd # conn[d].fd
    BY DEF EvioInv, OwnDescriptors
  <2>2. QED
    BY <2>1 DEF EvioInv, AllStopped, EventsGoToOpenConns, WithFd
<1>4. QED
  BY <1>1, <1>2, <1>3, PTL DEF EvioSpec

-----------------------------------------------------------------------------
(* A set of numbers has a least one; a loop keeps what its body keeps. *)
LEMMA LeastNumber ==
    ASSUME NEW T \in SUBSET Nat, T # {}
    PROVE  \E x \in T : \A y \in T : x <= y
<1> DEFINE R == {ss \in Nat \X Nat : ss[1] < ss[2]}
<1>1. IsWellFoundedOn(R, Nat)  BY NatLessThanWellFounded DEF OpToRel
<1>2. \A x, y \in Nat : y < x => <<y, x>> \in R  OBVIOUS
<1> HIDE DEF R
<1>3. PICK x \in T : \A y \in T : ~ (<<y, x>> \in R)  BY <1>1, WFMin
<1>4. \A y \in T : ~ (y < x)  BY <1>2, <1>3
<1> QED BY <1>4

LEMMA UpTo ==
    ASSUME NEW n \in Nat, NEW T, 0 \in T, \A k \in 0 .. n - 1 : k \in T => k + 1 \in T
    PROVE  \A k \in 0 .. n : k \in T
<1>1. PICK B \in SUBSET Nat : B = {k \in 0 .. n : k \notin T}
  <2>1. {k \in 0 .. n : k \notin T} \in SUBSET Nat  OBVIOUS
  <2> QED BY <2>1
<1>2. SUFFICES ASSUME B # {} PROVE FALSE  BY <1>1
<1>3. PICK b \in B : \A y \in B : b <= y  BY <1>2, LeastNumber
<1>4. b \in 1 .. n /\ b - 1 \in 0 .. n - 1 /\ b - 1 \notin B  BY <1>1, <1>3
<1>5. b - 1 \in T  BY <1>1, <1>4
<1>6. (b - 1) + 1 \in T  BY <1>4, <1>5
<1> QED BY <1>1, <1>3, <1>4, <1>6

(* The states of a loop, round by round. *)
Course(body, x, n, g) == g = [k \in 0 .. n |-> IF k = 0 THEN x ELSE body[g[k - 1]]]

LEMMA CourseExists ==
    ASSUME NEW body, NEW x, NEW n \in Nat
    PROVE  \E g : Course(body, x, n, g)
<1>1. PICK T : T = {k \in 0 .. n : \E g : Course(body, x, k, g)}  OBVIOUS
<1>2. 0 \in T
  <2>1. Course(body, x, 0, [k \in 0 .. 0 |-> x])  BY DEF Course
  <2> QED BY <1>1, <2>1
<1>3. ASSUME NEW k \in 0 .. n - 1, k \in T PROVE k + 1 \in T
  <2>1. PICK g : Course(body, x, k, g)  BY <1>1, <1>3
  <2>2. PICK h : h = [i \in 0 .. k + 1 |-> IF i = k + 1 THEN body[g[k]] ELSE g[i]]  OBVIOUS
  <2>3. h[k + 1] = body[g[k]] /\ \A i \in 0 .. k : h[i] = g[i]  BY <2>2
  <2>4. ASSUME NEW i \in 0 .. k + 1
        PROVE  h[i] = IF i = 0 THEN x ELSE body[h[i - 1]]
    <3>1. CASE i = k + 1
      <4>1. h[i - 1] = g[k] /\ i # 0  BY <2>3, <3>1
      <4> QED BY <2>3, <3>1, <4>1
    <3>2. CASE i # k + 1
      <4>1. i \in 0 .. k /\ h[i] = g[i]  BY <2>3, <3>2
      <4>2. g[i] = IF i = 0 THEN x ELSE body[g[i - 1]]  BY <2>1, <4>1 DEF Course
      <4>3. i # 0 => i - 1 \in 0 .. k  BY <4>1
      <4> QED BY <2>3, <4>1, <4>2, <4>3
    <3> QED BY <3>1, <3>2
  <2>5. h = [i \in 0 .. k + 1 |-> IF i = 0 THEN x ELSE body[h[i - 1]]]
    <3>1. h = [i \in 0 .. k + 1 |-> h[i]]  BY <2>2
    <3> QED BY <2>4, <3>1
  <2> QED BY <1>1, <2>5 DEF Course
<1>4. n \in T  BY <1>2, <1>3, UpTo
<1> QED BY <1>1, <1>4

(* P[k] is where the loop may be after k rounds. *)
LEMMA IterateKeeps ==
    ASSUME NEW body, NEW x, NEW n \in Nat, NEW P, x \in P[0],
           \A k \in 0 .. n - 1 : \A y \in P[k] : body[y] \in P[k + 1]
    PROVE  Iterate(body, x, n) \in P[n]
<1>1. PICK g : g = CHOOSE h : h = [k \in 0 .. n |-> IF k = 0 THEN x ELSE body[h[k - 1]]]  OBVIOUS
<1>2. Course(body, x, n, g)
  <2>1. PICK f : Course(body, x, n, f)  BY CourseExists
  <2>2. f = [k \in 0 .. n |-> IF k = 0 THEN x ELSE body[f[k - 1]]]  BY <2>1 DEF Course
  <2>3. \E h : h = [k \in 0 .. n |-> IF k = 0 THEN x ELSE body[h[k - 1]]]  BY <2>2
  <2> QED BY <1>1, <2>3 DEF Course
<1>3. Iterate(body, x, n) = g[n]  BY <1>1 DEF Iterate
<1>4. PICK T : T = {k \in 0 .. n : g[k] \in P[k]}  OBVIOUS
<1>5. 0 \in T
  <2>1. g[0] = x  BY <1>2 DEF Course
  <2> QED BY <1>4, <2>1
<1>6. ASSUME NEW k \in 0 .. n - 1, k \in T PROVE k + 1 \in T
  <2>1. k + 1 \in 0 .. n /\ k + 1 # 0 /\ (k + 1) - 1 = k  OBVIOUS
  <2>2. g[k + 1] = body[g[(k + 1) - 1]]  BY <1>2, <2>1 DEF Course
  <2>3. g[k + 1] = body[g[k]]  BY <2>1, <2>2
  <2>4. g[k] \in P[k]  BY <1>4, <1>6
  <2>5. g[k + 1] \in P[k + 1]  BY <2>3, <2>4
  <2> QED BY <1>4, <2>1, <2>5
<1>7. n \in T  BY <1>5, <1>6, UpTo
<1> QED BY <1>3, <1>4, <1>7

-----------------------------------------------------------------------------
(* The heap: v[k] is when the task at place k is due. *)
IsKid(p, k) == k = 2 * p + 1 \/ k = 2 * p + 2

InOrder(v, n) == \A p, k \in 0 .. n - 1 : IsKid(p, k) => v[p] <= v[k]

(* In order but for place i and the place above it, and what is below i fits above i. *)
InOrderAbove(v, n, i) ==
    /\ \A p, k \in 0 .. n - 1 : IsKid(p, k) /\ k # i => v[p] <= v[k]
    /\ \A p, k \in 0 .. n - 1 : IsKid(p, i) /\ IsKid(i, k) => v[p] <= v[k]

(* The same for place i and the places below it. *)
InOrderBelow(v, n, i) ==
    /\ \A p, k \in 0 .. n - 1 : IsKid(p, k) /\ p # i => v[p] <= v[k]
    /\ \A p, k \in 0 .. n - 1 : IsKid(p, i) /\ IsKid(i, k) => v[p] <= v[k]

Swapped(v, w, n, i, j) ==
    /\ w[i] = v[j] /\ w[j] = v[i]
    /\ \A k \in 0 .. n - 1 : k # i /\ k # j => w[k] = v[k]

LEMMA UpStepOrder ==
    ASSUME NEW n \in Nat, NEW v \in [0 .. n - 1 -> Int], NEW w \in [0 .. n - 1 -> Int],
           NEW i \in 0 .. n - 1, NEW r \in 0 .. n - 1, IsKid(r, i), InOrderAbove(v, n, i), v[i] < v[r],
           Swapped(v, w, n, i, r)
    PROVE  /\ InOrderAbove(w, n, r)
           /\ \A k \in 0 .. n - 1 : IsKid(r, k) => w[r] <= w[k]
<1>1. r < i  BY DEF IsKid
<1>2. \A k \in 0 .. n - 1 : v[k] \in Int /\ w[k] \in Int  OBVIOUS
<1>3. ASSUME NEW p \in 0 .. n - 1, NEW k \in 0 .. n - 1, IsKid(p, k), k # r
      PROVE  w[p] <= w[k]
  <2>1. CASE k = i
    <3>1. p = r  BY <1>3, <2>1 DEF IsKid
    <3> QED BY <1>2, <2>1, <3>1 DEF Swapped
  <2>2. CASE k # i /\ p = i
    <3>1. v[r] <= v[k]  BY <1>3, <2>2 DEF InOrderAbove
    <3> QED BY <1>3, <2>2, <3>1 DEF Swapped
  <2>3. CASE k # i /\ p = r
    <3>1. v[r] <= v[k]  BY <1>3, <2>3 DEF InOrderAbove
    <3>2. w[p] = v[i] /\ w[k] = v[k]  BY <1>3, <2>3 DEF Swapped
    <3> QED BY <1>2, <3>1, <3>2
  <2>4. CASE k # i /\ p # i /\ p # r
    <3>1. v[p] <= v[k]  BY <1>3, <2>4 DEF InOrderAbove
    <3> QED BY <1>3, <2>4, <3>1 DEF Swapped
  <2> QED BY <2>1, <2>2, <2>3, <2>4
<1>4. \A k \in 0 .. n - 1 : IsKid(r, k) => w[r] <= w[k]
  <2>1. \A k \in 0 .. n - 1 : IsKid(r, k) => k # r  BY DEF IsKid
  <2> QED BY <1>3, <2>1
<1>5. ASSUME NEW p \in 0 .. n - 1, NEW k \in 0 .. n - 1, IsKid(p, r), IsKid(r, k)
      PROVE  w[p] <= w[k]
  <2>1. p < r /\ r < k  BY <1>5 DEF IsKid
  <2>2. v[p] <= v[r]  BY <1>1, <1>5 DEF InOrderAbove
  <2>3. w[p] = v[p]  BY <1>1, <2>1 DEF Swapped
  <2>4. CASE k = i  BY <2>2, <2>3, <2>4 DEF Swapped
  <2>5. CASE k # i
    <3>1. v[r] <= v[k]  BY <1>5, <2>5 DEF InOrderAbove
    <3>2. w[k] = v[k]  BY <2>1, <2>5 DEF Swapped
    <3> QED BY <1>2, <2>2, <2>3, <3>1, <3>2
  <2> QED BY <2>4, <2>5
<1> QED BY <1>3, <1>4, <1>5 DEF InOrderAbove

LEMMA DownStepOrder ==
    ASSUME NEW n \in Nat, NEW v \in [0 .. n - 1 -> Int], NEW w \in [0 .. n - 1 -> Int],
           NEW i \in 0 .. n - 1, NEW m \in 0 .. n - 1, IsKid(i, m), InOrderBelow(v, n, i), v[i] > v[m],
           \A k \in 0 .. n - 1 : IsKid(i, k) => v[m] <= v[k], Swapped(v, w, n, i, m)
    PROVE  InOrderBelow(w, n, m)
<1>1. i < m  BY DEF IsKid
<1>2. \A k \in 0 .. n - 1 : v[k] \in Int /\ w[k] \in Int  OBVIOUS
<1>3. ASSUME NEW p \in 0 .. n - 1, NEW k \in 0 .. n - 1, IsKid(p, k), p # m
      PROVE  w[p] <= w[k]
  <2>1. CASE k = m
    <3>1. p = i  BY <1>3, <2>1 DEF IsKid
    <3> QED BY <1>2, <2>1, <3>1 DEF Swapped
  <2>2. CASE k # m /\ p = i
    <3>1. v[m] <= v[k] /\ k # i  BY <1>3, <2>2 DEF IsKid
    <3> QED BY <1>3, <2>2, <3>1 DEF Swapped
  <2>3. CASE k = i
    <3>1. IsKid(p, i) /\ IsKid(i, m) /\ p # i  BY <1>3, <2>3 DEF IsKid
    <3>2. v[p] <= v[m]  BY <3>1 DEF InOrderBelow
    <3>3. w[p] = v[p] /\ w[k] = v[m]  BY <1>3, <2>3, <3>1 DEF Swapped
    <3> QED BY <3>2, <3>3
  <2>4. CASE k # m /\ k # i /\ p # i
    <3>1. v[p] <= v[k]  BY <1>3, <2>4 DEF InOrderBelow
    <3> QED BY <1>3, <2>4, <3>1 DEF Swapped
  <2> QED BY <2>1, <2>2, <2>3, <2>4
<1>4. ASSUME NEW p \in 0 .. n - 1, NEW k \in 0 .. n - 1, IsKid(p, m), IsKid(m, k)
      PROVE  w[p] <= w[k]
  <2>1. p = i /\ m < k  BY <1>4 DEF IsKid
  <2>2. v[m] <= v[k]  BY <1>1, <1>4 DEF InOrderBelow
  <2>3. w[p] = v[m] /\ w[k] = v[k]  BY <1>1, <2>1 DEF Swapped
  <2> QED BY <2>2, <2>3
<1> QED BY <1>3, <1>4 DEF InOrderBelow

(* In a heap that is in order the task at the top is the first that is due. *)
LEMMA TopIsFirst ==
    ASSUME NEW n \in Nat, NEW v \in [0 .. n - 1 -> Int], InOrder(v, n)
    PROVE  \A k \in 0 .. n - 1 : v[0] <= v[k]
<1>1. PICK B \in SUBSET Nat : B = {k \in 0 .. n - 1 : ~ (v[0] <= v[k])}
  <2>1. {k \in 0 .. n - 1 : ~ (v[0] <= v[k])} \in SUBSET Nat  OBVIOUS
  <2> QED BY <2>1
<1>2. SUFFICES ASSUME B # {} PROVE FALSE  BY <1>1
<1>3. PICK b \in B : \A y \in B : b <= y  BY <1>2, LeastNumber
<1>4. b \in 0 .. n - 1 /\ ~ (v[0] <= v[b])  BY <1>1
<1>5. b # 0 /\ 0 \in 0 .. n - 1
  <2>1. CASE b = 0
    <3>1. v[0] \in Int  BY <1>4, <2>1
    <3> QED BY <1>4, <2>1, <3>1
  <2> QED BY <1>4, <2>1
<1>6. PICK p \in 0 .. n - 1 : IsKid(p, b) /\ p < b
  <2>1. (b - 1) \div 2 \in 0 .. n - 1 /\ (b - 1) \div 2 < b
        /\ (b = 2 * ((b - 1) \div 2) + 1 \/ b = 2 * ((b - 1) \div 2) + 2)
        BY <1>4, <1>5
  <2> QED BY <2>1 DEF IsKid
<1>7. p \notin B  BY <1>3, <1>6
<1>8. v[0] <= v[p] /\ v[p] <= v[b]  BY <1>1, <1>4, <1>6, <1>7 DEF InOrder
<1>9. v[0] \in Int /\ v[p] \in Int /\ v[b] \in Int  BY <1>4, <1>5
<1> QED BY <1>4, <1>8, <1>9

-----------------------------------------------------------------------------
(* The tasks of the heap: n different ones, which are R. *)
Holds(h, n, R) ==
    /\ R \subseteq Tasks /\ h \in [1 .. n -> R]
    /\ \A i, j \in 1 .. n : h[i] = h[j] => i = j
    /\ \A t \in R : \E i \in 1 .. n : h[i] = t

Dues(h, trig, n) == [k \in 0 .. n - 1 |-> trig[h[k + 1]]]

LEMMA HoldsSeq ==
    ASSUME NEW n \in Nat, NEW R, NEW h, Holds(h, n, R)
    PROVE  h \in Seq(Tasks) /\ Len(h) = n /\ DOMAIN h = 1 .. n
<1>1. h \in [1 .. n -> Tasks]  BY DEF Holds
<1> QED BY <1>1, SeqDef, LenProperties

LEMMA SwapHolds ==
    ASSUME NEW n \in Nat, NEW R, NEW h, Holds(h, n, R),
           NEW i \in 0 .. n - 1, NEW j \in 0 .. n - 1, NEW g, g = Swap(h, i, j)
    PROVE  /\ Holds(g, n, R)
           /\ g[i + 1] = h[j + 1] /\ g[j + 1] = h[i + 1]
           /\ \A k \in 1 .. n : k # i + 1 /\ k # j + 1 => g[k] = h[k]
<1>1. i + 1 \in 1 .. n /\ j + 1 \in 1 .. n  OBVIOUS
<1>2. PICK a \in 1 .. n, b \in 1 .. n : a = i + 1 /\ b = j + 1  BY <1>1
<1>4. g = [h EXCEPT ![a] = h[b], ![b] = h[a]]  BY <1>2 DEF Swap
<1>5. h \in [1 .. n -> R] /\ R \subseteq Tasks  BY DEF Holds
<1>6. /\ g \in [1 .. n -> R] /\ g[a] = h[b] /\ g[b] = h[a]
      /\ \A k \in 1 .. n : k # a /\ k # b => g[k] = h[k]
      BY <1>4, <1>5
<1>7. ASSUME NEW p \in 1 .. n, NEW q \in 1 .. n, g[p] = g[q] PROVE p = q
  <2>1. \A x, y \in 1 .. n : h[x] = h[y] => x = y  BY DEF Holds
  <2>2. CASE p = a  BY <1>6, <1>7, <2>1, <2>2
  <2>3. CASE p = b  BY <1>6, <1>7, <2>1, <2>3
  <2>4. CASE p # a /\ p # b  BY <1>6, <1>7, <2>1, <2>4
  <2> QED BY <2>2, <2>3, <2>4
<1>8. ASSUME NEW t \in R PROVE \E k \in 1 .. n : g[k] = t
  <2>1. PICK k \in 1 .. n : h[k] = t  BY DEF Holds
  <2> QED BY <1>6, <2>1
<1>9. Holds(g, n, R)  BY <1>5, <1>6, <1>7, <1>8 DEF Holds
<1> QED BY <1>2, <1>6, <1>9

LEMMA SwapDues ==
    ASSUME NEW n \in Nat, NEW R, NEW h, Holds(h, n, R), NEW trig \in [Tasks -> Int],
           NEW i \in 0 .. n - 1, NEW j \in 0 .. n - 1, NEW g, g = Swap(h, i, j)
    PROVE  Swapped(Dues(h, trig, n), Dues(g, trig, n), n, i, j)
<1>1. \A k \in 0 .. n - 1 : k + 1 \in 1 .. n  OBVIOUS
<1>2. /\ g[i + 1] = h[j + 1] /\ g[j + 1] = h[i + 1]
      /\ \A k \in 1 .. n : k # i + 1 /\ k # j + 1 => g[k] = h[k]
      BY SwapHolds
<1>3. \A k \in 0 .. n - 1 : k # i /\ k # j => g[k + 1] = h[k + 1]  BY <1>1, <1>2
<1> QED BY <1>2, <1>3 DEF Dues, Swapped

LEMMA DuesInt ==
    ASSUME NEW n \in Nat, NEW R, NEW h, Holds(h, n, R), NEW trig \in [Tasks -> Int]
    PROVE  /\ Dues(h, trig, n) \in [0 .. n - 1 -> Int]
           /\ \A k \in 0 .. n - 1 : Val(h, trig, k) = Dues(h, trig, n)[k]
<1>1. h \in [1 .. n -> Tasks]  BY DEF Holds
<1>2. \A k \in 0 .. n - 1 : k + 1 \in 1 .. n  OBVIOUS
<1> QED BY <1>1, <1>2 DEF Dues, Val

LEMMA OddIsNotEven == \A r \in Int : (2 * r + 1) % 2 = 1
OBVIOUS

(* Where a task is that goes up: never lower than before, and in a heap that was in order   *)
(* but for it, it ends when the heap is in order.                                           *)
UpStates(n, R, trig, top, ordered, k) ==
    {s \in Sifts : /\ Holds(s.heap, n, R) /\ s.at \in 0 .. n - 1
                   /\ ordered => /\ InOrderAbove(Dues(s.heap, trig, n), n, s.at)
                                 /\ InOrder(Dues(s.heap, trig, n), n) \/ s.at + k <= top}

LEMMA UpRound ==
    ASSUME NEW n \in Nat, NEW R, NEW trig \in [Tasks -> Int], NEW top \in Nat,
           NEW ordered \in BOOLEAN, NEW k \in Nat, NEW s \in UpStates(n, R, trig, top, ordered, k)
    PROVE  upBody(trig)[s] \in UpStates(n, R, trig, top, ordered, k + 1)
<1>1. s \in Sifts /\ Holds(s.heap, n, R) /\ s.at \in 0 .. n - 1  BY DEF UpStates
<1>2. PICK h \in Seq(Tasks), i \in 0 .. n - 1 : h = s.heap /\ i = s.at /\ s = [heap |-> h, at |-> i]
  <2>1. s = [heap |-> s.heap, at |-> s.at] /\ s.heap \in Seq(Tasks)  BY <1>1 DEF Sifts
  <2> QED BY <1>1, <2>1
<1>3. PICK v \in [0 .. n - 1 -> Int] : v = Dues(h, trig, n)  BY <1>1, <1>2, DuesInt
<1>4. Holds(h, n, R) /\ \A q \in 0 .. n - 1 : Val(h, trig, q) = v[q]  BY <1>1, <1>2, <1>3, DuesInt
<1>5. ordered => InOrderAbove(v, n, i) /\ (InOrder(v, n) \/ i + k <= top)
      BY <1>2, <1>3 DEF UpStates
<1>6. CASE i = 0
  <2>1. upBody(trig)[s] = s  BY <1>1, <1>2, <1>6 DEF upBody
  <2>2. InOrderAbove(v, n, i) => InOrder(v, n)  BY <1>6 DEF InOrderAbove, InOrder, IsKid
  <2> QED BY <1>1, <1>2, <1>3, <1>5, <2>1, <2>2 DEF UpStates
<1>7. CASE i > 0
  <2>1. PICK r \in 0 .. n - 1 : r = (i - 1) \div 2 /\ IsKid(r, i) /\ r < i
    <3>1. (i - 1) \div 2 \in 0 .. n - 1 /\ (i - 1) \div 2 < i
          /\ (i = 2 * ((i - 1) \div 2) + 1 \/ i = 2 * ((i - 1) \div 2) + 2)
          BY <1>7
    <3> QED BY <3>1 DEF IsKid
  <2>2. CASE ~ (v[i] < v[r])
    <3>1. upBody(trig)[s] = s  BY <1>1, <1>2, <1>4, <2>1, <2>2 DEF upBody
    <3>2. InOrderAbove(v, n, i) => InOrder(v, n)
      <4>1. \A p \in 0 .. n - 1 : IsKid(p, i) => p = r  BY <2>1 DEF IsKid
      <4>2. v[r] <= v[i]  BY <2>2
      <4> QED BY <4>1, <4>2 DEF InOrderAbove, InOrder
    <3> QED BY <1>1, <1>2, <1>3, <1>5, <3>1, <3>2 DEF UpStates
  <2>3. CASE v[i] < v[r]
    <3>1. PICK u : u = Swap(h, i, r)  OBVIOUS
    <3>2. Holds(u, n, R)  BY <1>4, <3>1, SwapHolds
    <3>3. PICK w \in [0 .. n - 1 -> Int] : w = Dues(u, trig, n)  BY <3>2, DuesInt
    <3>4. Swapped(v, w, n, i, r) /\ \A q \in 0 .. n - 1 : Val(u, trig, q) = w[q]
      <4>1. \A q \in 0 .. n - 1 : Val(u, trig, q) = Dues(u, trig, n)[q]  BY <3>2, DuesInt
      <4>2. Swapped(v, w, n, i, r)  BY <1>3, <1>4, <3>1, <3>3, SwapDues
      <4> QED BY <3>3, <4>1, <4>2
    <3>5. PICK g : g = IF i % 2 = 0 /\ Val(u, trig, i - 1) < Val(u, trig, r)
                         THEN Swap(u, i - 1, r) ELSE u
          OBVIOUS
    <3>6. upBody(trig)[s] = [heap |-> g, at |-> r]
          BY <1>1, <1>2, <1>4, <1>7, <2>1, <2>3, <3>1, <3>5 DEF upBody
    <3>7. Holds(g, n, R)
      <4>1. i - 1 \in 0 .. n - 1  BY <1>7
      <4> QED BY <3>2, <3>5, <4>1, SwapHolds
    <3>8. [heap |-> g, at |-> r] \in Sifts
      <4>1. g \in Seq(Tasks)  BY <3>7, HoldsSeq
      <4> QED BY <4>1 DEF Sifts
    <3>9. ordered => g = u /\ InOrderAbove(w, n, r)
      <4>1. SUFFICES ASSUME ordered PROVE g = u /\ InOrderAbove(w, n, r)  OBVIOUS
      <4>2. /\ InOrderAbove(w, n, r)
            /\ \A q \in 0 .. n - 1 : IsKid(r, q) => w[r] <= w[q]
        <5>1. InOrderAbove(v, n, i)  BY <1>5, <4>1, Zenon
        <5>2. IsKid(r, i) /\ v[i] < v[r] /\ Swapped(v, w, n, i, r)  BY <2>1, <2>3, <3>4
        <5>3. InOrderAbove(w, n, r)  BY <5>1, <5>2, UpStepOrder
        <5>4. \A q \in 0 .. n - 1 : IsKid(r, q) => w[r] <= w[q]  BY <5>1, <5>2, UpStepOrder
        <5> QED BY <5>3, <5>4
      <4>3. i % 2 = 0 => i - 1 \in 0 .. n - 1 /\ IsKid(r, i - 1)
        <5>1. i \in Int /\ r \in Int /\ (i = 2 * r + 1 \/ i = 2 * r + 2)  BY <1>2, <2>1 DEF IsKid
        <5>2. i = 2 * r + 1 => i % 2 = 1  BY <5>1, OddIsNotEven
        <5>3. i % 2 = 0 => i - 1 = 2 * r + 1  BY <5>1, <5>2
        <5> QED BY <1>7, <5>3 DEF IsKid
      <4>4. i % 2 = 0 => ~ (Val(u, trig, i - 1) < Val(u, trig, r))
        <5>1. ASSUME i % 2 = 0 PROVE ~ (w[i - 1] < w[r])
          <6>1. w[r] <= w[i - 1] /\ w[r] \in Int /\ w[i - 1] \in Int  BY <4>2, <4>3, <5>1
          <6> QED BY <6>1
        <5> QED BY <3>4, <4>3, <5>1
      <4> QED BY <3>5, <4>2, <4>4
    <3>10. ordered => InOrder(w, n) \/ r + (k + 1) <= top
      <4>1. InOrder(v, n) => v[r] <= v[i]  BY <2>1 DEF InOrder
      <4>2. v[r] \in Int /\ v[i] \in Int  OBVIOUS
      <4> QED BY <1>5, <2>1, <2>3, <4>1, <4>2
    <3> QED BY <3>3, <3>6, <3>7, <3>8, <3>9, <3>10 DEF UpStates
  <2> QED BY <2>2, <2>3
<1> QED BY <1>6, <1>7

LEMMA UpKeeps ==
    ASSUME NEW n \in Nat, NEW R, NEW trig \in [Tasks -> Int], NEW h, Holds(h, n, R), NEW i \in 0 .. n - 1,
           NEW ordered \in BOOLEAN, ordered => InOrderAbove(Dues(h, trig, n), n, i),
           NEW g, g = shiftUp(h, trig, i)
    PROVE  Holds(g, n, R) /\ (ordered => InOrder(Dues(g, trig, n), n))
<1>1. PICK P : P = [k \in 0 .. i |-> UpStates(n, R, trig, i, ordered, k)]  OBVIOUS
<1>2. PICK x : x = [heap |-> h, at |-> i]  OBVIOUS
<1>3. x \in P[0]
  <2>1. h \in Seq(Tasks)  BY HoldsSeq
  <2>2. x \in Sifts /\ x.heap = h /\ x.at = i  BY <1>2, <2>1 DEF Sifts
  <2>3. x \in UpStates(n, R, trig, i, ordered, 0)  BY <2>2 DEF UpStates
  <2> QED BY <1>1, <2>3
<1>4. ASSUME NEW k \in 0 .. i - 1, NEW y \in P[k] PROVE upBody(trig)[y] \in P[k + 1]
  <2>1. y \in UpStates(n, R, trig, i, ordered, k)  BY <1>1, <1>4
  <2>2. upBody(trig)[y] \in UpStates(n, R, trig, i, ordered, k + 1)  BY <2>1, UpRound
  <2> QED BY <1>1, <2>2
<1>5. Iterate(upBody(trig), x, i) \in P[i]  BY <1>3, <1>4, IterateKeeps
<1>6. PICK s : s = Iterate(upBody(trig), x, i)  OBVIOUS
<1>7. s \in UpStates(n, R, trig, i, ordered, i) /\ g = s.heap  BY <1>1, <1>2, <1>5, <1>6 DEF shiftUp
<1>8. Holds(g, n, R)  BY <1>7 DEF UpStates
<1>9. ASSUME ordered PROVE InOrder(Dues(g, trig, n), n)
  <2>1. /\ InOrderAbove(Dues(g, trig, n), n, s.at) /\ s.at \in 0 .. n - 1
        /\ InOrder(Dues(g, trig, n), n) \/ s.at + i <= i
        BY <1>7, <1>9 DEF UpStates
  <2>2. CASE s.at + i <= i
    <3>1. s.at = 0  BY <2>1, <2>2
    <3>2. InOrderAbove(Dues(g, trig, n), n, 0)  BY <2>1, <3>1
    <3> QED BY <3>2 DEF InOrderAbove, InOrder, IsKid
  <2> QED BY <2>1, <2>2
<1> QED BY <1>8, <1>9

(* Where a task is that goes down: never higher than before, so that nothing moves above    *)
(* where it started.                                                                       *)
DownStates(n, R, trig, h, i, ordered, k) ==
    {s \in Sifts : /\ Holds(s.heap, n, R) /\ i <= s.at /\ \A j \in 1 .. n : j <= i => s.heap[j] = h[j]
                   /\ ordered => /\ InOrderBelow(Dues(s.heap, trig, n), n, s.at)
                                 /\ InOrder(Dues(s.heap, trig, n), n) \/ k <= s.at}

LEMMA DownRound ==
    ASSUME NEW n \in Nat, NEW R, NEW trig \in [Tasks -> Int], NEW h0, NEW i0 \in Nat,
           NEW ordered \in BOOLEAN, NEW k \in Nat, NEW s \in DownStates(n, R, trig, h0, i0, ordered, k)
    PROVE  downBody(trig)[s] \in DownStates(n, R, trig, h0, i0, ordered, k + 1)
<1>1. s \in Sifts /\ Holds(s.heap, n, R) /\ i0 <= s.at /\ \A j \in 1 .. n : j <= i0 => s.heap[j] = h0[j]
      BY DEF DownStates
<1>2. PICK h \in Seq(Tasks), i \in Nat : h = s.heap /\ i = s.at /\ s = [heap |-> h, at |-> i]
  <2>1. s = [heap |-> s.heap, at |-> s.at] /\ s.heap \in Seq(Tasks) /\ s.at \in Nat  BY <1>1 DEF Sifts
  <2> QED BY <1>1, <2>1
<1>3. PICK v \in [0 .. n - 1 -> Int] : v = Dues(h, trig, n)  BY <1>1, <1>2, DuesInt
<1>4. Holds(h, n, R) /\ Len(h) = n /\ \A q \in 0 .. n - 1 : Val(h, trig, q) = v[q]
  <2>1. Holds(h, n, R)  BY <1>1, <1>2
  <2>2. Len(h) = n  BY <2>1, HoldsSeq
  <2>3. \A q \in 0 .. n - 1 : Val(h, trig, q) = Dues(h, trig, n)[q]  BY <2>1, DuesInt
  <2> QED BY <1>3, <2>1, <2>2, <2>3
<1>5. ordered => InOrderBelow(v, n, i) /\ (InOrder(v, n) \/ k <= i)
      BY <1>2, <1>3 DEF DownStates
<1>6. CASE ~ (2 * i + 1 < n)
  <2>1. downBody(trig)[s] = s  BY <1>1, <1>2, <1>4, <1>6 DEF downBody
  <2>2. InOrderBelow(v, n, i) => InOrder(v, n)  BY <1>6 DEF InOrderBelow, InOrder, IsKid
  <2> QED BY <1>1, <1>2, <1>3, <1>5, <2>1, <2>2 DEF DownStates
<1>7. CASE 2 * i + 1 < n
  <2>1. i \in 0 .. n - 1 /\ 2 * i + 1 \in 0 .. n - 1  BY <1>7
  <2>2. PICK m : m = LeastKid(h, trig, i)  OBVIOUS
  <2>3. m = IF 2 * i + 2 < n /\ v[2 * i + 1] > v[2 * i + 2] THEN 2 * i + 2 ELSE 2 * i + 1
    <3>1. CASE 2 * i + 2 < n
      <4>1. Val(h, trig, 2 * i + 1) = v[2 * i + 1] /\ Val(h, trig, 2 * i + 2) = v[2 * i + 2]
            BY <1>4, <2>1, <3>1
      <4> QED BY <1>4, <2>2, <3>1, <4>1 DEF LeastKid
    <3>2. CASE ~ (2 * i + 2 < n)  BY <1>4, <2>2, <3>2 DEF LeastKid
    <3> QED BY <3>1, <3>2
  <2>4. m \in 0 .. n - 1 /\ IsKid(i, m) /\ i < m  BY <2>1, <2>3 DEF IsKid
  <2>5. \A q \in 0 .. n - 1 : IsKid(i, q) => v[m] <= v[q]
    <3>1. ASSUME NEW q \in 0 .. n - 1, IsKid(i, q) PROVE v[m] <= v[q]
      <4>1. v[2 * i + 1] \in Int /\ v[q] \in Int /\ (q = 2 * i + 1 \/ q = 2 * i + 2)  BY <2>1, <3>1 DEF IsKid
      <4>2. CASE q = 2 * i + 1
        <5>1. v[2 * i + 1] > v[2 * i + 2] /\ 2 * i + 2 < n => v[2 * i + 2] <= v[2 * i + 1]
          <6>1. 2 * i + 2 < n => v[2 * i + 2] \in Int  BY <2>1
          <6> QED BY <4>1, <6>1
        <5> QED BY <2>3, <4>1, <4>2, <5>1
      <4>3. CASE q = 2 * i + 2  BY <2>3, <4>1, <4>3
      <4> QED BY <4>1, <4>2, <4>3
    <3> QED BY <3>1
  <2>6. CASE ~ (v[i] > v[m])
    <3>1. downBody(trig)[s] = s  BY <1>1, <1>2, <1>4, <2>1, <2>2, <2>4, <2>6 DEF downBody
    <3>2. ASSUME InOrderBelow(v, n, i) PROVE InOrder(v, n)
      <4>1. ASSUME NEW q \in 0 .. n - 1, IsKid(i, q) PROVE v[i] <= v[q]
        <5>1. v[i] \in Int /\ v[m] \in Int /\ v[q] \in Int /\ v[m] <= v[q]  BY <2>1, <2>4, <2>5, <4>1
        <5> QED BY <2>6, <5>1
      <4> QED BY <3>2, <4>1 DEF InOrderBelow, InOrder
    <3> QED BY <1>1, <1>2, <1>3, <1>5, <3>1, <3>2 DEF DownStates
  <2>7. CASE v[i] > v[m]
    <3>1. PICK u : u = Swap(h, i, m)  OBVIOUS
    <3>2. Holds(u, n, R) /\ \A j \in 1 .. n : j # i + 1 /\ j # m + 1 => u[j] = h[j]
      <4>1. Holds(h, n, R) /\ i \in 0 .. n - 1 /\ m \in 0 .. n - 1  BY <1>4, <2>1, <2>4
      <4>2. Holds(u, n, R)  BY <3>1, <4>1, SwapHolds
      <4>3. h \in [1 .. n -> R] /\ i + 1 \in 1 .. n /\ m + 1 \in 1 .. n  BY <4>1 DEF Holds
      <4>4. PICK a \in 1 .. n, b \in 1 .. n : a = i + 1 /\ b = m + 1  BY <4>3
      <4>5. \A j \in 1 .. n : j # a /\ j # b => u[j] = h[j]  BY <3>1, <4>3, <4>4 DEF Swap
      <4> QED BY <4>2, <4>4, <4>5
    <3>3. PICK w \in [0 .. n - 1 -> Int] : w = Dues(u, trig, n)  BY <3>2, DuesInt
    <3>4. Swapped(v, w, n, i, m)  BY <1>3, <1>4, <2>1, <2>4, <3>1, <3>3, SwapDues
    <3>5. downBody(trig)[s] = [heap |-> u, at |-> m]
          BY <1>1, <1>2, <1>4, <1>7, <2>1, <2>2, <2>4, <2>7, <3>1 DEF downBody
    <3>6. [heap |-> u, at |-> m] \in Sifts
      <4>1. u \in Seq(Tasks)  BY <3>2, HoldsSeq
      <4> QED BY <2>4, <4>1 DEF Sifts
    <3>7. \A j \in 1 .. n : j <= i0 => u[j] = h0[j]  BY <1>1, <1>2, <2>4, <3>2
    <3>8. i0 <= m  BY <1>1, <1>2, <2>4
    <3>9. ordered => InOrderBelow(w, n, m)
      <4>1. SUFFICES ASSUME ordered PROVE InOrderBelow(w, n, m)  OBVIOUS
      <4>2. InOrderBelow(v, n, i)  BY <1>5, <4>1, Zenon
      <4>3. IsKid(i, m) /\ v[i] > v[m] /\ i \in 0 .. n - 1 /\ m \in 0 .. n - 1  BY <2>1, <2>4, <2>7
      <4> QED BY <2>5, <3>4, <4>2, <4>3, DownStepOrder
    <3>10. ordered => k + 1 <= m
      <4>1. InOrder(v, n) => v[i] <= v[m]  BY <2>1, <2>4 DEF InOrder
      <4>2. v[i] \in Int /\ v[m] \in Int  BY <2>1, <2>4
      <4>3. ordered => k <= i  BY <1>5, <2>7, <4>1, <4>2
      <4> QED BY <2>4, <4>3
    <3> QED BY <3>2, <3>3, <3>5, <3>6, <3>7, <3>8, <3>9, <3>10 DEF DownStates
  <2> QED BY <2>6, <2>7
<1> QED BY <1>6, <1>7

LEMMA DownKeeps ==
    ASSUME NEW n \in Nat, NEW R, NEW trig \in [Tasks -> Int], NEW h, Holds(h, n, R), NEW i \in Nat,
           NEW ordered \in BOOLEAN, ordered => InOrderBelow(Dues(h, trig, n), n, i),
           NEW g, g = shiftDown(h, trig, i)
    PROVE  /\ Holds(g, n, R) /\ \A j \in 1 .. n : j <= i => g[j] = h[j]
           /\ ordered => InOrder(Dues(g, trig, n), n)
<1>1. PICK P : P = [k \in 0 .. n |-> DownStates(n, R, trig, h, i, ordered, k)]  OBVIOUS
<1>2. PICK x : x = [heap |-> h, at |-> i]  OBVIOUS
<1>3. x \in P[0]
  <2>1. h \in Seq(Tasks)  BY HoldsSeq
  <2>2. x \in Sifts /\ x.heap = h /\ x.at = i  BY <1>2, <2>1 DEF Sifts
  <2>3. x \in DownStates(n, R, trig, h, i, ordered, 0)  BY <2>2 DEF DownStates
  <2> QED BY <1>1, <2>3
<1>4. ASSUME NEW k \in 0 .. n - 1, NEW y \in P[k] PROVE downBody(trig)[y] \in P[k + 1]
  <2>1. y \in DownStates(n, R, trig, h, i, ordered, k)  BY <1>1, <1>4
  <2>2. downBody(trig)[y] \in DownStates(n, R, trig, h, i, ordered, k + 1)  BY <2>1, DownRound
  <2> QED BY <1>1, <2>2
<1>5. Iterate(downBody(trig), x, n) \in P[n]  BY <1>3, <1>4, IterateKeeps
<1>6. PICK s : s = Iterate(downBody(trig), x, n)  OBVIOUS
<1>7. s \in DownStates(n, R, trig, h, i, ordered, n) /\ g = s.heap
  <2>1. Len(h) = n  BY HoldsSeq
  <2> QED BY <1>1, <1>2, <1>5, <1>6, <2>1 DEF shiftDown
<1>8. Holds(g, n, R) /\ \A j \in 1 .. n : j <= i => g[j] = h[j]  BY <1>7 DEF DownStates
<1>9. ASSUME ordered PROVE InOrder(Dues(g, trig, n), n)
  <2>1. /\ InOrderBelow(Dues(g, trig, n), n, s.at) /\ s.at \in Nat
        /\ InOrder(Dues(g, trig, n), n) \/ n <= s.at
        BY <1>7, <1>9 DEF DownStates, Sifts
  <2>2. CASE n <= s.at  BY <2>1, <2>2 DEF InOrderBelow, InOrder
  <2> QED BY <2>1, <2>2
<1> QED BY <1>8, <1>9

-----------------------------------------------------------------------------
(* Tasks that enter and leave the heap. *)
(* A task that is pushed is sifted up to its place, and the heap stays in order. *)
LEMMA PushKeeps ==
    ASSUME NEW n \in Nat, NEW R, NEW h, Holds(h, n, R), NEW trig \in [Tasks -> Int], NEW e \in Tasks, e \notin R,
           NEW ordered \in BOOLEAN, ordered => InOrder(Dues(h, trig, n), n), NEW g, g = PushHeap(h, trig, e)
    PROVE  Holds(g, n + 1, R \cup {e}) /\ (ordered => InOrder(Dues(g, trig, n + 1), n + 1))
<1>1. PICK m \in Nat : m = n + 1  OBVIOUS
<1>2. PICK u : u = Append(h, e)  OBVIOUS
<1>3. h \in Seq(Tasks) /\ Len(h) = n /\ h \in [1 .. n -> R]  BY HoldsSeq DEF Holds
<1>4. u \in [1 .. m -> R \cup {e}] /\ u[m] = e /\ \A k \in 1 .. n : u[k] = h[k]
  <2>1. u \in Seq(Tasks) /\ Len(u) = m  BY <1>1, <1>2, <1>3, AppendProperties
  <2>2. u[m] = e /\ \A k \in 1 .. n : u[k] = h[k]  BY <1>1, <1>2, <1>3, AppendProperties
  <2>3. \A k \in 1 .. m : u[k] \in R \cup {e}
    <3>1. \A k \in 1 .. m : k = m \/ k \in 1 .. n  BY <1>1
    <3> QED BY <1>3, <2>2, <3>1
  <2>4. u = [k \in 1 .. m |-> u[k]]  BY <2>1
  <2>5. u \in [1 .. m -> R \cup {e}]  BY <2>3, <2>4
  <2> QED BY <2>2, <2>5
<1>5. Holds(u, m, R \cup {e})
  <2>1. ASSUME NEW i \in 1 .. m, NEW j \in 1 .. m, u[i] = u[j] PROVE i = j
    <3>1. \A x, y \in 1 .. n : h[x] = h[y] => x = y  BY DEF Holds
    <3>2. \A k \in 1 .. m : k = m \/ k \in 1 .. n  BY <1>1
    <3>3. \A k \in 1 .. n : u[k] # e  BY <1>3, <1>4
    <3> QED BY <1>4, <2>1, <3>1, <3>2, <3>3
  <2>2. ASSUME NEW t \in R \cup {e} PROVE \E i \in 1 .. m : u[i] = t
    <3>1. CASE t = e
      <4>1. m \in 1 .. m  BY <1>1
      <4> QED BY <1>4, <3>1, <4>1
    <3>2. CASE t \in R
      <4>1. PICK i \in 1 .. n : h[i] = t  BY <3>2 DEF Holds
      <4>2. i \in 1 .. m  BY <1>1
      <4> QED BY <1>4, <4>1, <4>2
    <3> QED BY <3>1, <3>2
  <2>3. R \cup {e} \subseteq Tasks  BY DEF Holds
  <2> QED BY <1>4, <2>1, <2>2, <2>3 DEF Holds
<1>6. n \in 0 .. m - 1  BY <1>1
<1>7. ASSUME ordered PROVE InOrderAbove(Dues(u, trig, m), m, n)
  <2>1. PICK v, w : v = Dues(h, trig, n) /\ w = Dues(u, trig, m)  OBVIOUS
  <2>2. \A k \in 0 .. n - 1 : w[k] = v[k] /\ k \in 0 .. m - 1
    <3>1. \A k \in 0 .. n - 1 : k + 1 \in 1 .. n /\ k \in 0 .. m - 1  BY <1>1
    <3> QED BY <1>4, <2>1, <3>1 DEF Dues
  <2>3. InOrder(v, n)  BY <1>7, <2>1
  <2>4. \A p, k \in 0 .. m - 1 : IsKid(p, k) => p \in 0 .. n - 1 /\ (k # n => k \in 0 .. n - 1)
        BY <1>1 DEF IsKid
  <2>5. \A k \in 0 .. m - 1 : ~ IsKid(n, k)  BY <1>1 DEF IsKid
  <2>6. \A p, k \in 0 .. m - 1 : IsKid(p, k) /\ k # n => w[p] <= w[k]
    <3>1. ASSUME NEW p \in 0 .. m - 1, NEW k \in 0 .. m - 1, IsKid(p, k), k # n PROVE w[p] <= w[k]
      <4>1. p \in 0 .. n - 1 /\ k \in 0 .. n - 1  BY <2>4, <3>1
      <4>2. v[p] <= v[k]  BY <2>3, <3>1, <4>1 DEF InOrder
      <4> QED BY <2>2, <4>1, <4>2
    <3> QED BY <3>1
  <2> QED BY <2>1, <2>5, <2>6 DEF InOrderAbove
<1>8. g = shiftUp(u, trig, n)  BY <1>2, <1>3 DEF PushHeap
<1>9. Holds(g, m, R \cup {e}) /\ (ordered => InOrder(Dues(g, trig, m), m))
      BY <1>5, <1>6, <1>7, <1>8, UpKeeps
<1> QED BY <1>1, <1>9

(* The same down to place i. *)
SameTo(g, h, n, i) == \A j \in 1 .. n : j <= i => g[j] = h[j]

(* The task at place i is taken out and no other; from the top the heap stays in order. *)
LEMMA DropKeeps ==
    ASSUME NEW n \in Nat, NEW R, NEW h, Holds(h, n, R), NEW trig \in [Tasks -> Int], NEW i \in 0 .. n - 1,
           NEW ordered \in BOOLEAN, ordered => i = 0 /\ InOrder(Dues(h, trig, n), n),
           NEW g, g = DropHeap(h, trig, i)
    PROVE  /\ Holds(g, n - 1, R \ {h[i + 1]}) /\ SameTo(g, h, n - 1, i)
           /\ ordered => InOrder(Dues(g, trig, n - 1), n - 1)
<1>1. PICK m \in Nat : m = n - 1 /\ m \in 0 .. n - 1  OBVIOUS
<1>2. PICK w : w = Swap(h, i, m)  OBVIOUS
<1>3. PICK S : S = R \ {h[i + 1]}  OBVIOUS
<1>4. /\ Holds(w, n, R) /\ w[m + 1] = h[i + 1]
      /\ \A k \in 1 .. n : k # i + 1 /\ k # m + 1 => w[k] = h[k]
  <2>1. m \in 0 .. n - 1 /\ Holds(h, n, R)  BY <1>1
  <2>2. Holds(w, n, R)  BY <1>2, <2>1, SwapHolds
  <2>3. h \in [1 .. n -> R] /\ i + 1 \in 1 .. n /\ m + 1 \in 1 .. n  BY <2>1 DEF Holds
  <2>4. PICK a \in 1 .. n, b \in 1 .. n : a = i + 1 /\ b = m + 1  BY <2>3
  <2>5. w[b] = h[a] /\ \A k \in 1 .. n : k # a /\ k # b => w[k] = h[k]  BY <1>2, <2>3, <2>4 DEF Swap
  <2> QED BY <2>2, <2>4, <2>5
<1>5. PICK u : u = SubSeq(w, 1, m)  OBVIOUS
<1>6. w \in Seq(Tasks) /\ Len(w) = n /\ w \in [1 .. n -> R] /\ n = m + 1
  <2>1. w \in Seq(Tasks) /\ Len(w) = n  BY <1>4, HoldsSeq
  <2>2. w \in [1 .. n -> R]  BY <1>4 DEF Holds
  <2> QED BY <1>1, <2>1, <2>2
<1>7. Len(u) = m /\ DOMAIN u = 1 .. m /\ \A k \in 1 .. m : u[k] = w[k]  BY <1>5, <1>6
<1>8. u = [k \in 1 .. m |-> u[k]]
  <2>1. u \in Seq(Tasks)  BY <1>5, <1>6
  <2> QED BY <1>7, <2>1
<1>9. Holds(u, m, S)
  <2>1. \A x, y \in 1 .. n : w[x] = w[y] => x = y  BY <1>4 DEF Holds
  <2>2. \A k \in 1 .. m : k \in 1 .. n /\ k # n  BY <1>6
  <2>3. n \in 1 .. n /\ w[n] = h[i + 1]  BY <1>4, <1>6
  <2>4. \A k \in 1 .. m : w[k] \in S  BY <1>3, <1>6, <2>1, <2>2, <2>3
  <2>5. u \in [1 .. m -> S]  BY <1>7, <1>8, <2>4
  <2>6. ASSUME NEW t \in S PROVE \E k \in 1 .. m : u[k] = t
    <3>1. PICK k \in 1 .. n : w[k] = t  BY <1>3, <1>4, <2>6 DEF Holds
    <3>2. k # n  BY <1>3, <2>3, <2>6, <3>1
    <3>3. k \in 1 .. m  BY <1>6, <3>2
    <3> QED BY <1>7, <3>1, <3>3
  <2>7. S \subseteq Tasks  BY <1>3 DEF Holds
  <2>8. \A x, y \in 1 .. m : u[x] = u[y] => x = y  BY <1>7, <2>1, <2>2
  <2> QED BY <2>5, <2>6, <2>7, <2>8 DEF Holds
<1>10. ASSUME ordered PROVE InOrderBelow(Dues(u, trig, m), m, i)
  <2>1. PICK v, x : v = Dues(h, trig, n) /\ x = Dues(u, trig, m)  OBVIOUS
  <2>2. i = 0 /\ InOrder(v, n)  BY <1>10, <2>1
  <2>3. \A k \in 0 .. m - 1 : k # 0 => x[k] = v[k] /\ k \in 0 .. n - 1
    <3>1. \A k \in 0 .. m - 1 : /\ k + 1 \in 1 .. m /\ k + 1 \in 1 .. n /\ k \in 0 .. n - 1
                                /\ k + 1 # m + 1 /\ (k # 0 => k + 1 # 0 + 1)
          BY <1>6
    <3>2. \A k \in 0 .. m - 1 : k # 0 => u[k + 1] = h[k + 1]  BY <1>4, <1>7, <2>2, <3>1
    <3> QED BY <2>1, <3>1, <3>2 DEF Dues
  <2>4. \A p, k \in 0 .. m - 1 : IsKid(p, k) /\ p # 0 => x[p] <= x[k]
    <3>1. ASSUME NEW p \in 0 .. m - 1, NEW k \in 0 .. m - 1, IsKid(p, k), p # 0 PROVE x[p] <= x[k]
      <4>1. k # 0  BY <3>1 DEF IsKid
      <4>2. v[p] <= v[k]  BY <2>2, <2>3, <3>1, <4>1 DEF InOrder
      <4> QED BY <2>3, <3>1, <4>1, <4>2
    <3> QED BY <3>1
  <2>5. \A p \in 0 .. m - 1 : ~ IsKid(p, 0)  BY DEF IsKid
  <2> QED BY <2>1, <2>2, <2>4, <2>5 DEF InOrderBelow
<1>11. g = shiftDown(u, trig, i)
  <2>1. Len(h) - 1 = m  BY <1>1, HoldsSeq
  <2> QED BY <1>2, <1>5, <2>1 DEF DropHeap
<1>12. /\ Holds(g, m, S) /\ \A j \in 1 .. m : j <= i => g[j] = u[j]
       /\ ordered => InOrder(Dues(g, trig, m), m)
  <2>1. PICK d \in Nat : d = i  OBVIOUS
  <2>2. g = shiftDown(u, trig, d) /\ (ordered => InOrderBelow(Dues(u, trig, m), m, d))
        BY <1>10, <1>11, <2>1
  <2>3. /\ Holds(g, m, S) /\ \A j \in 1 .. m : j <= d => g[j] = u[j]
        /\ ordered => InOrder(Dues(g, trig, m), m)
        BY <1>9, <2>2, DownKeeps
  <2> QED BY <2>1, <2>3
<1>13. SameTo(g, h, m, i)
  <2>1. \A j \in 1 .. m : j <= i => j \in 1 .. n /\ j # i + 1 /\ j # m + 1  BY <1>6
  <2> QED BY <1>4, <1>7, <1>12, <2>1 DEF SameTo
<1> QED BY <1>1, <1>3, <1>12, <1>13

Placed(h, n, ix) == \A j \in 1 .. n : ix[h[j]] = j - 1

(* Places from i on are remembered anew, those above keep what they had. *)
LEMMA SetIndexIs ==
    ASSUME NEW n \in Nat, NEW R, NEW h, Holds(h, n, R), NEW ix \in [Tasks -> Int], NEW i \in Nat,
           NEW jx, jx = SetIndex(h, ix, i)
    PROVE  /\ jx \in [Tasks -> Int]
           /\ \A j \in 1 .. n : jx[h[j]] = IF j > i THEN j - 1 ELSE ix[h[j]]
<1>1. Len(h) = n /\ h \in [1 .. n -> Tasks]  BY HoldsSeq DEF Holds
<1>2. \A x, y \in 1 .. n : h[x] = h[y] => x = y  BY DEF Holds
<1>3. \A t \in Tasks : jx[t] = IF \E j \in i + 1 .. n : h[j] = t
                                 THEN (CHOOSE j \in i + 1 .. n : h[j] = t) - 1 ELSE ix[t]
      BY <1>1 DEF SetIndex
<1>4. ASSUME NEW t \in Tasks, \E j \in i + 1 .. n : h[j] = t
      PROVE  (CHOOSE j \in i + 1 .. n : h[j] = t) \in i + 1 .. n /\ h[CHOOSE j \in i + 1 .. n : h[j] = t] = t
      BY <1>4
<1>5. \A t \in Tasks : jx[t] \in Int
  <2>1. ASSUME NEW t \in Tasks PROVE jx[t] \in Int
    <3>1. CASE \E j \in i + 1 .. n : h[j] = t
      <4>1. PICK c : c = CHOOSE j \in i + 1 .. n : h[j] = t  OBVIOUS
      <4>2. c \in i + 1 .. n  BY <1>4, <3>1, <4>1
      <4>3. jx[t] = c - 1  BY <1>3, <3>1, <4>1
      <4> QED BY <4>2, <4>3
    <3>2. CASE ~ \E j \in i + 1 .. n : h[j] = t  BY <1>3, <3>2
    <3> QED BY <3>1, <3>2
  <2> QED BY <2>1
<1>6. jx \in [Tasks -> Int]
  <2>1. jx = [t \in Tasks |-> jx[t]]  BY DEF SetIndex
  <2> QED BY <1>5, <2>1
<1>7. ASSUME NEW j \in 1 .. n PROVE jx[h[j]] = IF j > i THEN j - 1 ELSE ix[h[j]]
  <2>1. h[j] \in Tasks  BY <1>1
  <2>2. \A k \in i + 1 .. n : k \in 1 .. n  OBVIOUS
  <2>3. CASE j > i
    <3>1. j \in i + 1 .. n  BY <2>3
    <3>2. PICK c : c = CHOOSE k \in i + 1 .. n : h[k] = h[j]  OBVIOUS
    <3>3. c \in i + 1 .. n /\ h[c] = h[j]  BY <1>4, <2>1, <3>1, <3>2
    <3>4. c = j  BY <1>2, <2>2, <3>3
    <3>5. jx[h[j]] = c - 1  BY <1>3, <2>1, <3>1, <3>2
    <3> QED BY <2>3, <3>4, <3>5
  <2>4. CASE ~ (j > i)
    <3>1. ~ \E k \in i + 1 .. n : h[k] = h[j]  BY <1>2, <2>2, <2>4
    <3> QED BY <1>3, <2>1, <2>4, <3>1
  <2> QED BY <2>3, <2>4
<1> QED BY <1>6, <1>7

(* A task that is not in the heap may be due at another time. *)
LEMMA DuesApart ==
    ASSUME NEW n \in Nat, NEW R, NEW h, Holds(h, n, R), NEW trig \in [Tasks -> Int], NEW e \in Tasks, e \notin R,
           NEW again \in [Tasks -> Int], \A t \in Tasks : t # e => again[t] = trig[t]
    PROVE  Dues(h, again, n) = Dues(h, trig, n)
<1>1. \A k \in 0 .. n - 1 : k + 1 \in 1 .. n  OBVIOUS
<1>2. \A j \in 1 .. n : h[j] \in Tasks /\ h[j] # e  BY DEF Holds
<1> QED BY <1>1, <1>2 DEF Dues

-----------------------------------------------------------------------------
(* What every round of FrameCheck keeps. *)
TimersFit(h, trig, ix, wrong) ==
    \E n \in Nat, R \in SUBSET Tasks :
        /\ Holds(h, n, R) /\ Placed(h, n, ix)
        /\ ~ dropped => ~ wrong /\ InOrder(Dues(h, trig, n), n)

GoodFrames == {s \in Frames : TimersFit(s.heap, s.trig, s.index, s.late)}

LEMMA PlacedAnew ==
    ASSUME NEW n \in Nat, NEW R, NEW h, Holds(h, n, R), NEW ix \in [Tasks -> Int], NEW jx, jx = SetIndex(h, ix, 0)
    PROVE  jx \in [Tasks -> Int] /\ Placed(h, n, jx)
<1>1. PICK z \in Nat : z = 0  OBVIOUS
<1>2. jx \in [Tasks -> Int]  BY <1>1, SetIndexIs
<1>3. \A j \in 1 .. n : jx[h[j]] = IF j > z THEN j - 1 ELSE ix[h[j]]  BY <1>1, SetIndexIs
<1> QED BY <1>1, <1>2, <1>3 DEF Placed

(* One round: the task at the top leaves and is the first that was due; a loop task comes   *)
(* back.                                                                                    *)
LEMMA FrameRound ==
    ASSUME now \in Nat, duration \in [Tasks -> Nat], dropped \in BOOLEAN, NEW s \in GoodFrames
    PROVE  frameBody[s] \in GoodFrames
<1>1. s \in Frames /\ TimersFit(s.heap, s.trig, s.index, s.late)  BY DEF GoodFrames
<1>2. PICK h \in Seq(Tasks), trig \in [Tasks -> Nat], ix \in [Tasks -> Int], wrong \in BOOLEAN :
         s = [heap |-> h, trig |-> trig, index |-> ix, late |-> wrong]
      BY <1>1 DEF Frames
<1>3. s.heap = h /\ s.trig = trig /\ s.index = ix /\ s.late = wrong  BY <1>2
<1>4. PICK n \in Nat, R \in SUBSET Tasks :
         /\ Holds(h, n, R) /\ Placed(h, n, ix)
         /\ ~ dropped => ~ wrong /\ InOrder(Dues(h, trig, n), n)
      BY <1>1, <1>3 DEF TimersFit
<1>5. CASE ~ IsDue(h, trig)
  <2>1. frameBody[s] = s  BY <1>1, <1>3, <1>5 DEF frameBody
  <2> QED BY <2>1
<1>6. CASE IsDue(h, trig)
  <2>1. Len(h) = n /\ n # 0 /\ 0 \in 0 .. n - 1 /\ h \in [1 .. n -> R] /\ 1 \in 1 .. n
    <3>1. Len(h) = n /\ h \in [1 .. n -> R]  BY <1>4, HoldsSeq DEF Holds
    <3>2. h # <<>>  BY <1>6 DEF IsDue
    <3>3. n # 0  BY <3>1, <3>2
    <3> QED BY <3>1, <3>3
  <2>2. PICK m \in Nat : n = m + 1  BY <2>1
  <2>3. PICK e \in Tasks : e = Head(h) /\ e = h[1] /\ e \in R  BY <2>1
  <2>4. PICK S \in SUBSET Tasks : S = R \ {e}  OBVIOUS
  <2>5. PICK rest : rest = DropHeap(h, trig, 0)  OBVIOUS
  <2>6. trig \in [Tasks -> Int]  OBVIOUS
  <2>7. PICK ordered \in BOOLEAN : ordered = ~ dropped  OBVIOUS
  <2>8. Holds(rest, m, S) /\ (ordered => InOrder(Dues(rest, trig, m), m))
    <3>1. PICK z \in 0 .. n - 1 : z = 0 /\ h[z + 1] = e  BY <2>1, <2>3
    <3>2. ordered => z = 0 /\ InOrder(Dues(h, trig, n), n)  BY <1>4, <2>7, <3>1
    <3>3. rest = DropHeap(h, trig, z)  BY <2>5, <3>1
    <3>4. Holds(rest, n - 1, R \ {h[z + 1]}) /\ (ordered => InOrder(Dues(rest, trig, n - 1), n - 1))
          BY <1>4, <2>6, <3>2, <3>3, DropKeeps
    <3> QED BY <2>2, <2>4, <3>1, <3>4
  <2>9. PICK jx \in [Tasks -> Int] : jx = SetIndex(rest, ix, 0) /\ Placed(rest, m, jx)
        BY <2>8, PlacedAnew
  <2>10. PICK early \in BOOLEAN : early = \E i \in DOMAIN rest : trig[rest[i]] < trig[e]  OBVIOUS
  <2>11. ASSUME ~ dropped PROVE ~ early
    <3>1. PICK v \in [0 .. n - 1 -> Int] : v = Dues(h, trig, n)  BY <1>4, <2>6, DuesInt
    <3>2. \A k \in 0 .. n - 1 : v[0] <= v[k]  BY <1>4, <2>11, <3>1, TopIsFirst
    <3>3. v[0] = trig[e]  BY <2>1, <2>3, <3>1 DEF Dues
    <3>4. ASSUME NEW i \in DOMAIN rest PROVE ~ (trig[rest[i]] < trig[e])
      <4>1. DOMAIN rest = 1 .. m  BY <2>8, HoldsSeq
      <4>2. rest[i] \in R  BY <2>4, <2>8, <4>1 DEF Holds
      <4>3. PICK j \in 1 .. n : h[j] = rest[i]  BY <1>4, <4>2 DEF Holds
      <4>4. j - 1 \in 0 .. n - 1 /\ (j - 1) + 1 = j  OBVIOUS
      <4>5. v[j - 1] = trig[rest[i]]  BY <3>1, <4>3, <4>4 DEF Dues
      <4>6. trig[e] <= trig[rest[i]] /\ trig[e] \in Int /\ trig[rest[i]] \in Int
        <5>1. v[0] <= v[j - 1] /\ v[0] \in Int /\ v[j - 1] \in Int  BY <2>1, <3>2, <4>4
        <5> QED BY <3>3, <4>5, <5>1
      <4> QED BY <4>6
    <3> QED BY <2>10, <3>4
  <2>12. PICK bad \in BOOLEAN : bad = (wrong \/ early)  OBVIOUS
  <2>13. ~ dropped => ~ bad  BY <1>4, <2>11, <2>12
  <2>14. rest \in Seq(Tasks)  BY <2>8, HoldsSeq
  <2>15. CASE e \notin LoopTasks
    <3>1. frameBody[s] = [heap |-> rest, trig |-> trig, index |-> jx, late |-> bad]
      <4>1. IsDue(s.heap, s.trig) /\ Head(s.heap) = e  BY <1>3, <1>6, <2>3
      <4>2. DropHeap(s.heap, s.trig, 0) = rest  BY <1>3, <2>5
      <4>3. SetIndex(rest, s.index, 0) = jx  BY <1>3, <2>9
      <4>4. frameBody[s] = [heap |-> rest, trig |-> s.trig, index |-> SetIndex(rest, s.index, 0),
                            late |-> s.late \/ \E i \in DOMAIN rest : s.trig[rest[i]] < s.trig[e]]
            BY <1>1, <2>15, <4>1, <4>2 DEF frameBody
      <4>5. (s.late \/ \E i \in DOMAIN rest : s.trig[rest[i]] < s.trig[e]) = bad  BY <1>3, <2>10, <2>12
      <4> QED BY <1>3, <4>3, <4>4, <4>5
    <3>2. TimersFit(rest, trig, jx, bad)  BY <2>7, <2>8, <2>9, <2>13 DEF TimersFit
    <3>3. [heap |-> rest, trig |-> trig, index |-> jx, late |-> bad] \in Frames  BY <2>14 DEF Frames
    <3> QED BY <3>1, <3>2, <3>3 DEF GoodFrames
  <2>16. CASE e \in LoopTasks
    <3>1. PICK again \in [Tasks -> Nat] : again = [trig EXCEPT ![e] = @ + duration[e]]
      <4>1. trig[e] + duration[e] \in Nat  OBVIOUS
      <4>2. [trig EXCEPT ![e] = @ + duration[e]] \in [Tasks -> Nat]  BY <4>1
      <4> QED BY <4>2
    <3>2. again \in [Tasks -> Int]  OBVIOUS
    <3>3. PICK g : g = PushHeap(rest, again, e)  OBVIOUS
    <3>4. e \notin S  BY <2>4
    <3>5. Dues(rest, again, m) = Dues(rest, trig, m)
      <4>1. \A t \in Tasks : t # e => again[t] = trig[t]  BY <3>1
      <4>2. \A j \in 1 .. m : rest[j] \in S /\ rest[j] \in Tasks  BY <2>8 DEF Holds
      <4>3. \A j \in 1 .. m : again[rest[j]] = trig[rest[j]]  BY <3>4, <4>1, <4>2
      <4>4. \A k \in 0 .. m - 1 : k + 1 \in 1 .. m  OBVIOUS
      <4> QED BY <4>3, <4>4 DEF Dues
    <3>6. ordered => InOrder(Dues(rest, again, m), m)  BY <2>8, <3>5
    <3>7. Holds(g, m + 1, S \cup {e}) /\ (ordered => InOrder(Dues(g, again, m + 1), m + 1))
          BY <2>8, <3>2, <3>3, <3>4, <3>6, PushKeeps
    <3>8. PICK k \in Nat, T \in SUBSET Tasks : k = m + 1 /\ T = S \cup {e}
      <4>1. m + 1 \in Nat /\ S \cup {e} \in SUBSET Tasks  OBVIOUS
      <4> QED BY <4>1
    <3>9. Holds(g, k, T) /\ (ordered => InOrder(Dues(g, again, k), k))  BY <3>7, <3>8
    <3>10. PICK kx \in [Tasks -> Int] : kx = SetIndex(g, jx, 0) /\ Placed(g, k, kx)
           BY <3>9, PlacedAnew
    <3>11. frameBody[s] = [heap |-> g, trig |-> again, index |-> kx, late |-> bad]
      <4>1. IsDue(s.heap, s.trig) /\ Head(s.heap) = e  BY <1>3, <1>6, <2>3
      <4>2. DropHeap(s.heap, s.trig, 0) = rest /\ [s.trig EXCEPT ![e] = @ + duration[e]] = again
            BY <1>3, <2>5, <3>1
      <4>3. SetIndex(rest, s.index, 0) = jx /\ PushHeap(rest, again, e) = g  BY <1>3, <2>9, <3>3
      <4>4. frameBody[s] = [heap |-> PushHeap(rest, again, e), trig |-> again,
                            index |-> SetIndex(PushHeap(rest, again, e), SetIndex(rest, s.index, 0), 0),
                            late |-> s.late \/ \E i \in DOMAIN rest : s.trig[rest[i]] < s.trig[e]]
            BY <1>1, <2>16, <4>1, <4>2 DEF frameBody
      <4>5. (s.late \/ \E i \in DOMAIN rest : s.trig[rest[i]] < s.trig[e]) = bad  BY <1>3, <2>10, <2>12
      <4>6. SetIndex(g, jx, 0) = kx  BY <3>10
      <4> QED BY <4>3, <4>4, <4>5, <4>6
    <3>12. TimersFit(g, again, kx, bad)  BY <2>7, <2>13, <3>9, <3>10 DEF TimersFit
    <3>13. g \in Seq(Tasks)  BY <3>9, HoldsSeq
    <3>14. [heap |-> g, trig |-> again, index |-> kx, late |-> bad] \in Frames  BY <3>13 DEF Frames
    <3> QED BY <3>11, <3>12, <3>14 DEF GoodFrames
  <2> QED BY <2>15, <2>16
<1> QED BY <1>5, <1>6

-----------------------------------------------------------------------------
(* The heap holds the pending tasks, each at the place it remembers, and is in order until *)
(* the first Drop.                                                                         *)
TimerInv ==
    /\ now \in Nat /\ duration \in [Tasks -> Nat] /\ triggerTime \in [Tasks -> Nat]
    /\ index \in [Tasks -> Int] /\ late \in BOOLEAN /\ dropped \in BOOLEAN
    /\ TimersFit(heap, triggerTime, index, late)

LEMMA TimerInitFits == TimerInit => TimerInv
<1> SUFFICES ASSUME TimerInit PROVE TimerInv  OBVIOUS
<1>1. duration \in [Tasks -> Nat]  BY TimerAssumption DEF TimerInit
<1>2. Holds(heap, 0, {})  BY DEF TimerInit, Holds
<1>3. Placed(heap, 0, index) /\ InOrder(Dues(heap, triggerTime, 0), 0)  BY DEF Placed, InOrder
<1>4. TimersFit(heap, triggerTime, index, late)  BY <1>2, <1>3 DEF TimersFit, TimerInit
<1>5. triggerTime \in [Tasks -> Nat] /\ index \in [Tasks -> Int]  BY DEF TimerInit
<1>6. now \in Nat /\ late \in BOOLEAN /\ dropped \in BOOLEAN  BY DEF TimerInit
<1> QED BY <1>1, <1>4, <1>5, <1>6 DEF TimerInv

LEMMA StartFits == ASSUME TimerInv, NEW e \in Tasks, TaskStart(e) PROVE TimerInv'
<1>1. PICK n \in Nat, R \in SUBSET Tasks :
         /\ Holds(heap, n, R) /\ Placed(heap, n, index)
         /\ ~ dropped => ~ late /\ InOrder(Dues(heap, triggerTime, n), n)
      BY DEF TimerInv, TimersFit
<1>2. e \notin R
  <2>1. ASSUME e \in R PROVE FALSE
    <3>1. PICK i \in 1 .. n : heap[i] = e  BY <1>1, <2>1 DEF Holds
    <3>2. index[e] = i - 1  BY <1>1, <3>1 DEF Placed
    <3> QED BY <3>2 DEF TaskStart
  <2> QED BY <2>1
<1>3. PICK trig \in [Tasks -> Nat] : trig = triggerTime' /\ trig = [triggerTime EXCEPT ![e] = now + duration[e]]
      BY DEF TaskStart, TimerInv
<1>4. trig \in [Tasks -> Int] /\ triggerTime \in [Tasks -> Int]  BY DEF TimerInv
<1>5. PICK ordered \in BOOLEAN : ordered = ~ dropped  OBVIOUS
<1>6. ordered => InOrder(Dues(heap, trig, n), n)
  <2>1. PICK h : h = heap  OBVIOUS
  <2>2. PICK old \in [Tasks -> Int], new \in [Tasks -> Int] : old = triggerTime /\ new = trig  BY <1>4
  <2>3. \A t \in Tasks : t # e => new[t] = old[t]  BY <1>3, <1>4, <2>2
  <2>4. Dues(h, new, n) = Dues(h, old, n)  BY <1>1, <1>2, <2>1, <2>3, DuesApart
  <2> QED BY <1>1, <1>5, <2>1, <2>2, <2>4
<1>7. PICK g : g = heap' /\ g = PushHeap(heap, trig, e)  BY <1>3 DEF TaskStart
<1>8. Holds(g, n + 1, R \cup {e}) /\ (ordered => InOrder(Dues(g, trig, n + 1), n + 1))
      BY <1>1, <1>2, <1>4, <1>6, <1>7, PushKeeps
<1>9. PICK k \in Nat, T \in SUBSET Tasks : k = n + 1 /\ T = R \cup {e}
  <2>1. n + 1 \in Nat /\ R \cup {e} \in SUBSET Tasks  OBVIOUS
  <2> QED BY <2>1
<1>10. Holds(g, k, T) /\ (ordered => InOrder(Dues(g, trig, k), k))  BY <1>8, <1>9
<1>11. index' = SetIndex(g, index, 0) /\ index \in [Tasks -> Int]  BY <1>7 DEF TaskStart, TimerInv
<1>12. index' \in [Tasks -> Int] /\ Placed(g, k, index')  BY <1>10, <1>11, PlacedAnew
<1>13. UNCHANGED <<duration, now, late, dropped>>  BY DEF TaskStart
<1>14. TimersFit(heap, triggerTime, index, late)'
       BY <1>1, <1>3, <1>5, <1>7, <1>10, <1>12, <1>13 DEF TimersFit
<1> QED BY <1>3, <1>12, <1>13, <1>14 DEF TimerInv

(* The place of a pending task; nothing above it moves when it is dropped. *)
LEMMA PendingPlace ==
    ASSUME NEW n \in Nat, NEW R, Holds(heap, n, R), Placed(heap, n, index), NEW e \in Pending
    PROVE  index[e] \in 0 .. n - 1 /\ heap[index[e] + 1] = e /\ e \in R
<1>1. DOMAIN heap = 1 .. n /\ heap \in [1 .. n -> R]  BY HoldsSeq DEF Holds
<1>2. PICK i \in 1 .. n : heap[i] = e  BY <1>1 DEF Pending
<1>3. index[e] = i - 1  BY <1>2 DEF Placed
<1>4. index[e] \in 0 .. n - 1 /\ index[e] + 1 = i  BY <1>3
<1> QED BY <1>1, <1>2, <1>4

LEMMA StopFits == ASSUME TimerInv, NEW e \in Tasks, TaskStop(e) PROVE TimerInv'
<1>1. PICK n \in Nat, R \in SUBSET Tasks : Holds(heap, n, R) /\ Placed(heap, n, index)
      BY DEF TimerInv, TimersFit
<1>2. PICK i \in 0 .. n - 1 : i = index[e]  BY <1>1, PendingPlace DEF TaskStop
<1>3. triggerTime \in [Tasks -> Int] /\ index \in [Tasks -> Int]  BY DEF TimerInv
<1>4. PICK g : g = heap' /\ g = DropHeap(heap, triggerTime, i)  BY <1>2 DEF TaskStop
<1>5. PICK m \in Nat, T \in SUBSET Tasks : m = n - 1 /\ T = R \ {heap[i + 1]}
  <2>1. n - 1 \in Nat /\ R \ {heap[i + 1]} \in SUBSET Tasks  OBVIOUS
  <2> QED BY <2>1
<1>6. Holds(g, m, T) /\ \A j \in 1 .. m : j <= i => g[j] = heap[j]
  <2>1. PICK ordered \in BOOLEAN : ordered = FALSE  OBVIOUS
  <2>2. ordered => i = 0 /\ InOrder(Dues(heap, triggerTime, n), n)  BY <2>1
  <2>3. PICK trig \in [Tasks -> Int] : trig = triggerTime  BY <1>3
  <2> PICK h : h = heap  OBVIOUS
  <2>4. g = DropHeap(h, trig, i) /\ Holds(h, n, R) /\ (ordered => i = 0 /\ InOrder(Dues(h, trig, n), n))
        BY <1>1, <1>4, <2>2, <2>3
  <2>5. Holds(g, n - 1, R \ {h[i + 1]})  BY <2>4, DropKeeps
  <2>6. SameTo(g, h, n - 1, i)  BY <2>4, DropKeeps
  <2> QED BY <1>5, <2>3, <2>5, <2>6 DEF SameTo
<1>7. PICK d \in Nat : d = i  OBVIOUS
<1>8. index' = SetIndex(g, index, d)  BY <1>2, <1>4, <1>7 DEF TaskStop
<1>9. index' \in [Tasks -> Int] /\ \A j \in 1 .. m : index'[g[j]] = IF j > d THEN j - 1 ELSE index[g[j]]
      BY <1>3, <1>6, <1>8, SetIndexIs
<1>10. Placed(g, m, index')
  <2>1. ASSUME NEW j \in 1 .. m PROVE index'[g[j]] = j - 1
    <3>1. CASE j > d  BY <1>9, <3>1
    <3>2. CASE ~ (j > d)
      <4>1. g[j] = heap[j] /\ j \in 1 .. n  BY <1>5, <1>6, <1>7, <3>2
      <4>2. index[heap[j]] = j - 1  BY <1>1, <4>1 DEF Placed
      <4> QED BY <1>9, <3>2, <4>1, <4>2
    <3> QED BY <3>1, <3>2
  <2> QED BY <2>1 DEF Placed
<1>11. dropped' = TRUE /\ UNCHANGED <<duration, triggerTime, now, late>>  BY DEF TaskStop
<1>12. TimersFit(heap, triggerTime, index, late)'  BY <1>4, <1>6, <1>10, <1>11 DEF TimersFit
<1> QED BY <1>9, <1>11, <1>12 DEF TimerInv

LEMMA ResetFits == ASSUME TimerInv, NEW e \in Tasks, TaskReset(e) PROVE TimerInv'
<1>1. PICK n \in Nat, R \in SUBSET Tasks : Holds(heap, n, R) /\ Placed(heap, n, index)
      BY DEF TimerInv, TimersFit
<1>2. index[e] \in 0 .. n - 1 /\ heap[index[e] + 1] = e  BY <1>1, PendingPlace DEF TaskReset
<1>3. PICK i \in 0 .. n - 1 : i = index[e] /\ heap[i + 1] = e  BY <1>2
<1>4. triggerTime \in [Tasks -> Int] /\ index \in [Tasks -> Int]  BY DEF TimerInv
<1>5. PICK rest : rest = DropHeap(heap, triggerTime, i)  OBVIOUS
<1>6. PICK ordered \in BOOLEAN : ordered = FALSE  OBVIOUS
<1>7. PICK m \in Nat, T \in SUBSET Tasks : m = n - 1 /\ T = R \ {e}
  <2>1. n - 1 \in Nat /\ R \ {e} \in SUBSET Tasks  OBVIOUS
  <2> QED BY <2>1
<1>8. Holds(rest, m, T)
  <2>1. ordered => i = 0 /\ InOrder(Dues(heap, triggerTime, n), n)  BY <1>6
  <2>2. Holds(rest, n - 1, R \ {heap[i + 1]})  BY <1>1, <1>4, <1>5, <2>1, DropKeeps
  <2> QED BY <1>3, <1>7, <2>2
<1>9. PICK trig \in [Tasks -> Nat] : trig = triggerTime' /\ trig = [triggerTime EXCEPT ![e] = now + duration[e]]
      BY DEF TaskReset, TimerInv
<1>10. trig \in [Tasks -> Int]  OBVIOUS
<1>11. PICK g : g = heap' /\ g = PushHeap(rest, trig, e)  BY <1>3, <1>5, <1>9 DEF TaskReset
<1>12. Holds(g, m + 1, T \cup {e})
  <2>1. e \notin T /\ (ordered => InOrder(Dues(rest, trig, m), m))  BY <1>6, <1>7
  <2> QED BY <1>8, <1>10, <1>11, <2>1, PushKeeps
<1>13. PICK k \in Nat, S \in SUBSET Tasks : k = m + 1 /\ S = T \cup {e}
  <2>1. m + 1 \in Nat /\ T \cup {e} \in SUBSET Tasks  OBVIOUS
  <2> QED BY <2>1
<1>14. Holds(g, k, S)  BY <1>12, <1>13
<1>15. index' = SetIndex(g, index, 0)  BY <1>11 DEF TaskReset
<1>16. index' \in [Tasks -> Int] /\ Placed(g, k, index')  BY <1>4, <1>14, <1>15, PlacedAnew
<1>17. dropped' = TRUE /\ UNCHANGED <<duration, now, late>>  BY DEF TaskReset
<1>18. TimersFit(heap, triggerTime, index, late)'  BY <1>9, <1>11, <1>14, <1>16, <1>17 DEF TimersFit
<1> QED BY <1>9, <1>16, <1>17, <1>18 DEF TimerInv

LEMMA FrameFits == ASSUME TimerInv, FrameCheck PROVE TimerInv'
<1>1. now \in Nat /\ duration \in [Tasks -> Nat] /\ dropped \in BOOLEAN  BY DEF TimerInv
<1>2. PICK rounds \in Nat : rounds = Cardinality(Tasks) * now
  <2>1. Cardinality(Tasks) \in Nat  BY TimerAssumption, FS_CardinalityType
  <2> QED BY <1>1, <2>1
<1>3. PICK x : x = [heap |-> heap, trig |-> triggerTime, index |-> index, late |-> late]  OBVIOUS
<1>4. x \in GoodFrames
  <2>1. TimersFit(heap, triggerTime, index, late)  BY DEF TimerInv
  <2>2. heap \in Seq(Tasks)  BY <2>1, HoldsSeq DEF TimersFit
  <2>3. x \in Frames  BY <1>3, <2>2 DEF Frames, TimerInv
  <2> QED BY <1>3, <2>1, <2>3 DEF GoodFrames
<1>5. PICK P : P = [k \in 0 .. rounds |-> GoodFrames]  OBVIOUS
<1>6. \A k \in 0 .. rounds : P[k] = GoodFrames  BY <1>5
<1>7. ASSUME NEW k \in 0 .. rounds - 1, NEW y \in P[k] PROVE frameBody[y] \in P[k + 1]
  <2>1. k \in 0 .. rounds /\ k + 1 \in 0 .. rounds  OBVIOUS
  <2>2. y \in GoodFrames  BY <1>6, <2>1, <1>7
  <2> QED BY <1>1, <1>6, <2>1, <2>2, FrameRound
<1>8. Iterate(frameBody, x, rounds) \in P[rounds]
  <2>1. x \in P[0]  BY <1>4, <1>6
  <2> QED BY <1>7, <2>1, IterateKeeps
<1>9. PICK s \in GoodFrames : s = Iterate(frameBody, x, rounds)  BY <1>6, <1>8
<1>10. heap' = s.heap /\ triggerTime' = s.trig /\ index' = s.index /\ late' = s.late
       BY <1>2, <1>3, <1>9 DEF FrameCheck
<1>11. UNCHANGED <<duration, now, dropped>>  BY DEF FrameCheck
<1>12. s \in Frames /\ TimersFit(s.heap, s.trig, s.index, s.late)  BY <1>9 DEF GoodFrames
<1>13. TimersFit(heap, triggerTime, index, late)'  BY <1>10, <1>11, <1>12 DEF TimersFit
<1>14. triggerTime' \in [Tasks -> Nat] /\ index' \in [Tasks -> Int] /\ late' \in BOOLEAN
       BY <1>10, <1>12 DEF Frames
<1> QED BY <1>1, <1>11, <1>13, <1>14 DEF TimerInv

LEMMA TimersStayFit == TimerInv /\ [TimerNext]_timerVars => TimerInv'
<1> SUFFICES ASSUME TimerInv, [TimerNext]_timerVars PROVE TimerInv'  OBVIOUS
<1>1. ASSUME NEW e \in Tasks, TaskStart(e) PROVE TimerInv'  BY <1>1, StartFits
<1>2. ASSUME NEW e \in Tasks, TaskStop(e) PROVE TimerInv'   BY <1>2, StopFits
<1>3. ASSUME NEW e \in Tasks, TaskReset(e) PROVE TimerInv'  BY <1>3, ResetFits
<1>4. CASE FrameCheck                                       BY <1>4, FrameFits
<1>5. CASE Tick
  <2>1. now' \in Nat /\ UNCHANGED <<heap, index, duration, triggerTime, late, dropped>>  BY <1>5 DEF Tick, TimerInv
  <2> QED BY <2>1 DEF TimerInv, TimersFit
<1>6. CASE UNCHANGED timerVars
  <2>1. UNCHANGED <<heap, index, duration, triggerTime, now, late, dropped>>  BY <1>6 DEF timerVars
  <2> QED BY <2>1 DEF TimerInv, TimersFit
<1> QED BY <1>1, <1>2, <1>3, <1>4, <1>5, <1>6 DEF TimerNext

(* For every set of tasks and every duration: a pending task is where it remembers to be,   *)
(* so that TaskCtl.Stop takes out the task it is told to, and without a Stop or a Reset     *)
(* FrameCheck never fires a task before one that was due earlier.                           *)
THEOREM TheRightTimerFires == TimerSpec => []StopsAndFiresTheRightTask
<1>1. TimerInv => StopsAndFiresTheRightTask
  <2> SUFFICES ASSUME TimerInv PROVE StopsAndFiresTheRightTask  OBVIOUS
  <2>1. PICK n \in Nat, R \in SUBSET Tasks :
           Holds(heap, n, R) /\ Placed(heap, n, index) /\ (~ dropped => ~ late)
        BY DEF TimerInv, TimersFit
  <2>2. DOMAIN heap = 1 .. n  BY <2>1, HoldsSeq
  <2> QED BY <2>1, <2>2 DEF Placed, StopsAndFiresTheRightTask
<1> QED BY <1>1, TimerInitFits, TimersStayFit, PTL DEF TimerSpec
=============================================================================
