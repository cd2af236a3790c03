------------------------------ MODULE RpcCalls ------------------------------
(***************************************************************************)
(* RPC between servers: Conn.RpcWrite and RpcWriteAsync (core/conn.go),    *)
(* the table of pending calls (core/mgr_rpc.go), the event loop that       *)
(* dispatches what it reads (Poll.processClientData), and the bounded      *)
(* queue of BaseLocal with its one business goroutine (local/base.go).     *)
(*                                                                         *)
(* The loop blocks when the queue is full; the business goroutine blocks   *)
(* in RpcWrite until the loop hands it a response or the timer fires.  A   *)
(* response is recognised by its sequence number alone.                    *)
(*                                                                         *)
(* Calls are numbered in the order of seq.Add; call k carries sequence     *)
(* number k % SeqMod (a uint16 in the code).  A message is [seq, of]: of   *)
(* is the call it answers, or 0 for a message that answers nothing.        *)
(***************************************************************************)
EXTENDS Integers, Sequences

CONSTANTS
  SeqMod,      \* sequence numbers: 2^16 in the code
  QueueCap,    \* capacity of BaseLocal.queue: 20 in the code
  OtherSeqs,   \* sequence numbers on messages that answer nothing
  MaxCalls,    \* bound: RPC calls in a behaviour
  MaxOthers    \* bound: other messages in a behaviour

ASSUME RpcAssumption ==
  /\ SeqMod \in Nat \ {0}
  /\ QueueCap \in Nat \ {0}
  /\ OtherSeqs \subseteq 0 .. SeqMod - 1
  /\ MaxCalls \in Nat
  /\ MaxOthers \in Nat

Calls == 1 .. MaxCalls
None == 0
SeqNos == 0 .. SeqMod - 1

\* Mutant: every call carries the same number.
SeqOfFirst(k) == 1

SeqOf(k) == k % SeqMod
Messages == [seq : SeqNos, of : Calls \cup {None}]

VARIABLES
  calls,         \* the counter seq: calls started so far
  rpcResponses,  \* RpcMgr.rpcResponses: sequence number -> call waiting
  rpcCallbacks,  \* RpcMgr.rpcCallbacks: sequence number -> asynchronous call
  respChan,      \* the channel of each call, capacity 1
  asked,         \* requests a peer has and has not answered
  answers,       \* answers on their way back
  others,        \* other messages read so far
  queue,         \* BaseLocal.queue
  lpc, lmsg,     \* the loop: what it is doing and with which message
  lcall,         \*   and whose channel it found in rpcResponses
  hpc, hcall,    \* the business goroutine and its current call
  result,        \* what RpcWrite returned, per call: the call answered, or -1
  fired          \* what each callback was run with

net == <<asked, answers, others>>
mgr == <<rpcResponses, rpcCallbacks>>
loop == <<lpc, lmsg, lcall>>
handler == <<hpc, hcall>>
vars == <<calls, mgr, respChan, net, queue, loop, handler, result, fired>>

Pending == -2
Failed == -1

\* The type invariant; no more inputs than the channel of BaseLocal holds.
TypeOK ==
  /\ calls \in 0 .. MaxCalls
  /\ rpcResponses \in [SeqNos -> 0 .. MaxCalls]
  /\ rpcCallbacks \in [SeqNos -> 0 .. MaxCalls]
  /\ respChan \in [Calls -> Seq(0 .. MaxCalls)]
  /\ asked \subseteq Calls
  /\ answers \subseteq Calls
  /\ others \in 0 .. MaxOthers
  /\ queue \in Seq(Messages)
  /\ Len(queue) <= QueueCap
  /\ lpc \in {"run", "deliver", "push"}
  /\ lmsg \in Messages
  /\ lcall \in 0 .. MaxCalls
  /\ hpc \in {"idle", "handle", "write", "wait", "unregister", "writeAsync"}
  /\ hcall \in 0 .. MaxCalls
  /\ result \in [Calls -> {Pending, Failed} \cup 0 .. MaxCalls]
  /\ fired \in [Calls -> Seq(0 .. MaxCalls)]

Init ==
  /\ calls = 0
  /\ rpcResponses = [s \in SeqNos |-> None]
  /\ rpcCallbacks = [s \in SeqNos |-> None]
  /\ respChan = [k \in Calls |-> <<>>]
  /\ asked = {}
  /\ answers = {}
  /\ others = 0
  /\ queue = <<>>
  /\ lpc = "run"
  /\ lmsg = [seq |-> 0, of |-> None]
  /\ lcall = None
  /\ hpc = "idle"
  /\ hcall = None
  /\ result = [k \in Calls |-> Pending]
  /\ fired = [k \in Calls |-> <<>>]
-----------------------------------------------------------------------------
(***************************************************************************)
(* LoopRun: processClientData with message m, which HandleRpcResponse      *)
(* looks up under the read lock.  The send on the channel and the push are *)
(* outside it and may block.                                               *)
(***************************************************************************)
Dispatch(m) ==
  /\ lpc = "run"
  /\ \/ /\ rpcResponses[m.seq] # None
        /\ lpc' = "deliver" /\ lcall' = rpcResponses[m.seq] /\ lmsg' = m
        /\ UNCHANGED fired
     \/ /\ rpcResponses[m.seq] = None
        /\ rpcCallbacks[m.seq] # None
        /\ fired' = [fired EXCEPT ![rpcCallbacks[m.seq]] = Append(@, m.of)]
        /\ UNCHANGED loop
     \/ /\ rpcResponses[m.seq] = None
        /\ rpcCallbacks[m.seq] = None
        /\ lpc' = "push" /\ lmsg' = m
        /\ UNCHANGED <<lcall, fired>>
  /\ UNCHANGED <<calls, mgr, respChan, queue, handler, result>>

ReadAnswer(k) ==
  /\ k \in answers
  /\ answers' = answers \ {k}
  /\ Dispatch([seq |-> SeqOf(k), of |-> k])
  /\ UNCHANGED <<asked, others>>

ReadOther(s) ==
  /\ others < MaxOthers
  /\ others' = others + 1
  /\ Dispatch([seq |-> s, of |-> None])
  /\ UNCHANGED <<asked, answers>>

\* respChan <- msg
Deliver ==
  /\ lpc = "deliver"
  /\ respChan[lcall] = <<>>
  /\ respChan' = [respChan EXCEPT ![lcall] = <<lmsg.of>>]
  /\ lpc' = "run"
  /\ UNCHANGED <<calls, mgr, net, queue, lmsg, lcall, handler, result, fired>>

\* Mutants: Push does not wait for room; Push drops what does not fit.
PushUnbounded ==
  /\ lpc = "push"
  /\ queue' = Append(queue, lmsg)
  /\ lpc' = "run"
  /\ UNCHANGED <<calls, mgr, respChan, net, lmsg, lcall, handler, result, fired>>

PushDrops ==
  /\ lpc = "push"
  /\ queue' = IF Len(queue) < QueueCap THEN Append(queue, lmsg) ELSE queue
  /\ lpc' = "run"
  /\ UNCHANGED <<calls, mgr, respChan, net, lmsg, lcall, handler, result, fired>>

\* BaseLocal.Push
Push ==
  /\ lpc = "push"
  /\ Len(queue) < QueueCap
  /\ queue' = Append(queue, lmsg)
  /\ lpc' = "run"
  /\ UNCHANGED <<calls, mgr, respChan, net, lmsg, lcall, handler, result, fired>>
-----------------------------------------------------------------------------
(***************************************************************************)
(* The goroutine of BaseLocal.Start: take an input, route it; the handler  *)
(* it reaches makes calls and returns.                                     *)
(***************************************************************************)
TakeInput ==
  /\ hpc = "idle"
  /\ queue # <<>>
  /\ queue' = Tail(queue)
  /\ hpc' = "handle"
  /\ UNCHANGED <<calls, mgr, respChan, net, loop, hcall, result, fired>>

HandlerReturns ==
  /\ hpc = "handle"
  /\ hpc' = "idle"
  /\ UNCHANGED <<calls, mgr, respChan, net, queue, loop, hcall, result, fired>>

NewCall(label) ==
  /\ hpc = "handle"
  /\ calls < MaxCalls
  /\ calls' = calls + 1
  /\ hcall' = calls + 1
  /\ hpc' = label
  /\ UNCHANGED <<respChan, net, queue, loop, result, fired>>

\* RpcWrite up to RegisterRpc
RpcWrite ==
  /\ NewCall("write")
  /\ rpcResponses' = [rpcResponses EXCEPT ![SeqOf(calls + 1)] = calls + 1]
  /\ UNCHANGED rpcCallbacks

\* Mutant: the callback is filed under the number before the increment.
RpcWriteAsyncOffByOne ==
  /\ NewCall("writeAsync")
  /\ rpcCallbacks' = [rpcCallbacks EXCEPT ![SeqOf(calls)] = calls + 1]
  /\ UNCHANGED rpcResponses

\* RpcWriteAsync up to RegisterRpcCallback
RpcWriteAsync ==
  /\ NewCall("writeAsync")
  /\ rpcCallbacks' = [rpcCallbacks EXCEPT ![SeqOf(calls + 1)] = calls + 1]
  /\ UNCHANGED rpcResponses

\* c.Write(msg); an asynchronous call is then on its own.
SendRequest ==
  /\ hpc \in {"write", "writeAsync"}
  /\ asked' = asked \cup {hcall}
  /\ hpc' = IF hpc = "write" THEN "wait" ELSE "handle"
  /\ UNCHANGED <<calls, mgr, respChan, answers, others, queue, loop, hcall, result, fired>>

Return(r) ==
  /\ result' = [result EXCEPT ![hcall] = r]
  /\ hpc' = "unregister"
  /\ UNCHANGED <<calls, mgr, net, queue, loop, hcall, fired>>

\* c.Write(msg) failed: RpcWrite returns through its deferred UnregisterRpc,
\* RpcWriteAsync just returns.
SendFails ==
  \/ hpc = "write" /\ Return(Failed) /\ UNCHANGED respChan
  \/ /\ hpc = "writeAsync"
     /\ hpc' = "handle"
     /\ UNCHANGED <<calls, mgr, respChan, net, queue, loop, hcall, result, fired>>

\* The two arms of the select; when both are ready either may be taken.
Receive ==
  /\ hpc = "wait"
  /\ respChan[hcall] # <<>>
  /\ respChan' = [respChan EXCEPT ![hcall] = Tail(@)]
  /\ Return(Head(respChan[hcall]))

\* Mutant: the timer is looked at only once a response is there.
TimeoutAfterResponse ==
  /\ hpc = "wait"
  /\ respChan[hcall] # <<>>
  /\ Return(Failed)
  /\ UNCHANGED respChan

Timeout ==
  /\ hpc = "wait"
  /\ Return(Failed)
  /\ UNCHANGED respChan

\* The deferred UnregisterRpc
UnregisterRpc ==
  /\ hpc = "unregister"
  /\ rpcResponses' = [rpcResponses EXCEPT ![SeqOf(hcall)] = None]
  /\ hpc' = "handle"
  /\ UNCHANGED <<calls, rpcCallbacks, respChan, net, queue, loop, hcall, result, fired>>

\* Mutant: a handler calls Input.Rpc again for the same request.
PeerAnswersAgain(k) ==
  /\ k \in asked
  /\ answers' = answers \cup {k}
  /\ UNCHANGED <<calls, mgr, respChan, asked, others, queue, loop, handler, result, fired>>

\* A peer answers a request once, with the request's sequence number
\* (Input.Rpc), some time or never.
PeerAnswers(k) ==
  /\ k \in asked
  /\ asked' = asked \ {k}
  /\ answers' = answers \cup {k}
  /\ UNCHANGED <<calls, mgr, respChan, others, queue, loop, handler, result, fired>>
-----------------------------------------------------------------------------
LoopRun ==
  \/ Deliver \/ Push
  \/ \E k \in Calls : ReadAnswer(k)
  \/ \E s \in OtherSeqs : ReadOther(s)

Business ==
  \/ TakeInput \/ HandlerReturns \/ RpcWrite \/ RpcWriteAsync \/ SendRequest
  \/ SendFails \/ Receive \/ Timeout \/ UnregisterRpc

Next == LoopRun \/ Business \/ \E k \in Calls : PeerAnswers(k)

Spec == Init /\ [][Next]_vars

(***************************************************************************)
(* Both goroutines are scheduled while they can run, a write returns, the  *)
(* timer of a call fires, and handlers return.  Nothing makes a peer       *)
(* answer, and nothing makes a handler start a call.                       *)
(***************************************************************************)
Fairness ==
  /\ WF_vars(Deliver) /\ WF_vars(Push)
  /\ WF_vars(\E k \in Calls : ReadAnswer(k))
  /\ WF_vars(TakeInput) /\ WF_vars(HandlerReturns)
  /\ WF_vars(SendRequest \/ SendFails)
  /\ WF_vars(Timeout) /\ WF_vars(UnregisterRpc)

FairSpec == Spec /\ Fairness
-----------------------------------------------------------------------------
(***************************************************************************)
(* Properties.                                                             *)
(***************************************************************************)

\* RpcWrite returns the answer to its own request or an error, and a callback
\* runs with the answer to its own request: the sequence number is "unique and
\* matches responses", as RpcWrite's comment says.
OwnResponse ==
  \A k \in Calls :
    /\ result[k] \in {Pending, Failed, k}
    /\ \A i \in 1 .. Len(fired[k]) : fired[k][i] = k

\* A callback runs at most once, though its registration is never removed.
CallbackOnce == \A k \in Calls : Len(fired[k]) <= 1

\* A pending entry belongs to the call the business goroutine is making: no
\* return path of RpcWrite leaves one behind.
PendingIsCurrent ==
  \A s \in SeqNos : rpcResponses[s] # None =>
    rpcResponses[s] = hcall /\ hpc \in {"write", "wait", "unregister"}

\* The loop, which sends without a default, finds the channel empty, even when
\* the call has just timed out and nobody will read it again.
DeliverFindsRoom == lpc = "deliver" => respChan[lcall] = <<>>

\* Loop and handlers can wait for each other (queue full, response behind the
\* message being pushed), and a response may find its caller gone; the loop
\* always gets back to reading.
LoopGoesOn == lpc # "run" ~> lpc = "run"

\* The contract of the layer.  A synchronous call is done when RpcWrite has
\* its return value, an asynchronous one when its callback runs.
Status(k) ==
  CASE k > calls -> "new"
    [] result[k] = k \/ fired[k] = <<k>> -> "answered"
    [] result[k] = Failed -> "failed"
    [] k <= calls /\ result[k] = Pending /\ fired[k] = <<>> -> "open"
    [] OTHER -> "foreign"

Inbox ==
  LET waiting == IF lpc = "push" THEN Append(queue, lmsg) ELSE queue
  IN  [i \in 1 .. Len(waiting) |-> waiting[i].of]

Contract == INSTANCE RpcContract
              WITH status <- [k \in Calls |-> Status(k)], inbox <- Inbox

\* Tables, channels, timers and queue together keep the contract: calls end
\* once, messages stay in order, only answers to failed calls reach handlers.
ImplementsContract == Contract!Spec
-----------------------------------------------------------------------------
(***************************************************************************)
(* The inductive invariant behind them.  It holds as long as fewer calls   *)
(* have been made than there are sequence numbers, and only calls carry a  *)
(* number other than 0.                                                    *)
(***************************************************************************)
NoWrap == MaxCalls < SeqMod /\ OtherSeqs \subseteq {0}

\* The business goroutine is making the last call that was numbered.
CurrentCall ==
  hpc \in {"write", "wait", "unregister", "writeAsync"} => hcall = calls /\ calls # 0

\* An entry of rpcResponses is that of the current call, under its number.
ResponsesAreFiled ==
  \A s \in SeqNos : rpcResponses[s] # None =>
    /\ SeqOf(rpcResponses[s]) = s
    /\ rpcResponses[s] = hcall
    /\ hpc \in {"write", "wait", "unregister"}

\* An entry of rpcCallbacks is under its call's number.
CallbacksAreFiled ==
  \A s \in SeqNos : rpcCallbacks[s] # None =>
    SeqOf(rpcCallbacks[s]) = s /\ rpcCallbacks[s] <= calls

InHand(k) == lpc = "deliver" /\ lcall = k
\* What is in the loop's hand, in a channel, in a result or in a callback is
\* the answer to that very call.
DeliverIsOwn == lpc = "deliver" => lcall # None /\ lmsg.of = lcall
ChannelIsOwn == \A k \in Calls : respChan[k] \in {<<>>, <<k>>}
ResultIsOwn == \A k \in Calls : result[k] \in {Pending, Failed, k}
FiredIsOwn == \A k \in Calls : fired[k] \in {<<>>, <<k>>}

Untouched(k) == respChan[k] = <<>> /\ fired[k] = <<>> /\ ~InHand(k)

\* The answer to a call is in one place: not asked for yet, with the peer, on
\* its way, in the loop's hand, or in the channel.
OneAnswer ==
  \A k \in Calls :
    /\ k > calls \/ (k = hcall /\ hpc \in {"write", "writeAsync"})
         => k \notin asked /\ k \notin answers /\ Untouched(k)
    /\ k \in asked => k \notin answers /\ Untouched(k)
    /\ k \in answers => Untouched(k)
    /\ InHand(k) => respChan[k] = <<>>

\* Inductive: each answer is in one place, filed under its own call, from the
\* request to the return of RpcWrite or the run of the callback.
RInv ==
  /\ TypeOK
  /\ CurrentCall
  /\ ResponsesAreFiled
  /\ CallbacksAreFiled
  /\ DeliverIsOwn
  /\ ChannelIsOwn
  /\ ResultIsOwn
  /\ FiredIsOwn
  /\ OneAnswer
=============================================================================
