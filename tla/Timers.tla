------------------------------- MODULE Timers -------------------------------
(***************************************************************************)
(* The timers of a server: timer/task_ctl.go and task.go over the heap of  *)
(* util/minheap.go.  Every BaseLocal embeds a TaskCtl and its Tick runs    *)
(* FrameCheck; the handlers of one goroutine are the only callers.         *)
(*                                                                         *)
(* heap is the slice with places from 0, written as a sequence; index is   *)
(* the place each task remembers, -1 before it is first pushed.  Handlers  *)
(* stop and reset tasks that are pending: a task that has fired remembers  *)
(* place 0, and to stop it would drop whichever task is there.             *)
(***************************************************************************)
EXTENDS Integers, Sequences, FiniteSets

CONSTANTS
    Tasks, LoopTasks,       \* LoopTasks: those with Loop set
    Durations,              \* the durations a task is given when it is made
    Horizon                 \* bound: how long the clock runs

ASSUME TimerAssumption == IsFiniteSet(Tasks) /\ Durations \subseteq Nat \ {0} /\ Horizon \in Nat

VARIABLES
    heap, index,
    duration, triggerTime,
    now,
    late,       \* history: a task fired before another one that was due earlier
    dropped     \* history: a task has been stopped or reset

timerVars == <<heap, index, duration, triggerTime, now, late, dropped>>

Swap(h, i, j) == [h EXCEPT ![i + 1] = h[j + 1], ![j + 1] = h[i + 1]]
Val(h, trig, i) == trig[h[i + 1]]
Pending == {heap[i] : i \in DOMAIN heap}

(* Every task of h at place i or later remembers its place. *)
SetIndex(h, ix, i) ==
    [t \in Tasks |-> IF \E j \in i + 1 .. Len(h) : h[j] = t
                       THEN (CHOOSE j \in i + 1 .. Len(h) : h[j] = t) - 1
                       ELSE ix[t]]

-----------------------------------------------------------------------------
(* A loop: its body, a function that leaves a state in which the loop ends as it is, n      *)
(* times over.                                                                              *)
Iterate(body, x, n) ==
    LET after[k \in 0 .. n] == IF k = 0 THEN x ELSE body[after[k - 1]] IN after[n]

(* A task on its way through the heap: at is its place. *)
Sifts == [heap : Seq(Tasks), at : Nat]

upBody(trig) ==
    [s \in Sifts |->
        LET root == (s.at - 1) \div 2
            up   == Swap(s.heap, s.at, root)
        IN  IF s.at > 0 /\ Val(s.heap, trig, s.at) < Val(s.heap, trig, root)
              THEN [heap |-> IF s.at % 2 = 0 /\ Val(up, trig, s.at - 1) < Val(up, trig, root)
                               THEN Swap(up, s.at - 1, root) ELSE up,
                    at |-> root]
              ELSE s]

(* The child that is due earlier, the left one of two that are due together. *)
LeastKid(h, trig, i) ==
    IF 2 * i + 2 < Len(h) /\ Val(h, trig, 2 * i + 1) > Val(h, trig, 2 * i + 2) THEN 2 * i + 2 ELSE 2 * i + 1

downBody(trig) ==
    [s \in Sifts |->
        LET least == LeastKid(s.heap, trig, s.at)
        IN  IF 2 * s.at + 1 < Len(s.heap) /\ Val(s.heap, trig, s.at) > Val(s.heap, trig, least)
              THEN [heap |-> Swap(s.heap, s.at, least), at |-> least]
              ELSE s]

(* Every round of the loops goes one level up or down. *)
shiftUp(h, trig, i)   == Iterate(upBody(trig), [heap |-> h, at |-> i], i).heap
shiftDown(h, trig, i) == Iterate(downBody(trig), [heap |-> h, at |-> i], Len(h)).heap

(* Mutant: the pushed task stays at the end. *)
PushNoShift(h, trig, e) == Append(h, e)

PushHeap(h, trig, e) == shiftUp(Append(h, e), trig, Len(h))

(* Place i is filled with the last task, which is sifted down from there. *)
DropHeap(h, trig, i) ==
    LET tail == Len(h) - 1 IN shiftDown(SubSeq(Swap(h, i, tail), 1, tail), trig, i)

-----------------------------------------------------------------------------
TimerInit ==
    /\ heap = <<>> /\ index = [t \in Tasks |-> -1]
    /\ duration \in [Tasks -> Durations] /\ triggerTime = [t \in Tasks |-> 0]
    /\ now = 0 /\ late = FALSE /\ dropped = FALSE

TaskStart(e) ==
    /\ index[e] < 0
    /\ triggerTime' = [triggerTime EXCEPT ![e] = now + duration[e]]
    /\ heap' = PushHeap(heap, triggerTime', e)
    /\ index' = SetIndex(heap', index, 0)
    /\ UNCHANGED <<duration, now, late, dropped>>

(* Drop leaves the index of the task as it was. *)
TaskStop(e) ==
    /\ e \in Pending
    /\ heap' = DropHeap(heap, triggerTime, index[e])
    /\ index' = SetIndex(heap', index, index[e]) /\ dropped' = TRUE
    /\ UNCHANGED <<duration, triggerTime, now, late>>

TaskReset(e) ==
    /\ e \in Pending
    /\ triggerTime' = [triggerTime EXCEPT ![e] = now + duration[e]]
    /\ heap' = PushHeap(DropHeap(heap, triggerTime, index[e]), triggerTime', e)
    /\ index' = SetIndex(heap', index, 0) /\ dropped' = TRUE
    /\ UNCHANGED <<duration, now, late>>

(* One round of FrameCheck: pop the task at the top, run its event, push a loop task again. *)
Frames == [heap : Seq(Tasks), trig : [Tasks -> Nat], index : [Tasks -> Int], late : BOOLEAN]

IsDue(h, trig) == h # <<>> /\ Val(h, trig, 0) <= now

frameBody ==
    [s \in Frames |->
        LET e     == Head(s.heap)
            rest  == DropHeap(s.heap, s.trig, 0)
            ix    == SetIndex(rest, s.index, 0)
            early == \E i \in DOMAIN rest : s.trig[rest[i]] < s.trig[e]
            trig  == [s.trig EXCEPT ![e] = @ + duration[e]]
            h     == PushHeap(rest, trig, e)
        IN  IF ~IsDue(s.heap, s.trig) THEN s
            ELSE IF e \in LoopTasks
              THEN [heap |-> h, trig |-> trig, index |-> SetIndex(h, ix, 0), late |-> s.late \/ early]
              ELSE [heap |-> rest, trig |-> s.trig, index |-> ix, late |-> s.late \/ early]]

(* A task is due again only later, so that none fires more often than the clock has ticked. *)
FrameCheck ==
    /\ IsDue(heap, triggerTime)
    /\ LET s == Iterate(frameBody,
                        [heap |-> heap, trig |-> triggerTime, index |-> index, late |-> late],
                        Cardinality(Tasks) * now)
       IN  heap' = s.heap /\ triggerTime' = s.trig /\ index' = s.index /\ late' = s.late
    /\ UNCHANGED <<duration, now, dropped>>

Tick ==
    /\ now < Horizon /\ now' = now + 1
    /\ UNCHANGED <<heap, index, duration, triggerTime, late, dropped>>

TimerNext ==
    \/ \E e \in Tasks : TaskStart(e) \/ TaskStop(e) \/ TaskReset(e)
    \/ FrameCheck \/ Tick

TimerSpec == TimerInit /\ [][TimerNext]_timerVars

-----------------------------------------------------------------------------
(* Every pending task is in the heap once and remembers its place, so that Stop takes out  *)
(* the task it is told to; and as long as none was stopped or reset, no task fires before  *)
(* one that was due earlier.  (Drop only sifts down, and breaks the order of the heap.)    *)
StopsAndFiresTheRightTask ==
    /\ \A i \in DOMAIN heap : index[heap[i]] = i - 1
    /\ ~dropped => ~late
=============================================================================
