-------------------------- MODULE RpcCalls_proofs --------------------------
(***************************************************************************)
(* Proofs about RpcCalls, for every capacity of the queue and every bound, *)
(* as long as sequence numbers do not wrap round (NoWrap).                 *)
(***************************************************************************)
EXTENDS RpcCalls, SequenceTheorems, TLAPS

\* Below the modulus a call's sequence number is the call itself.
LEMMA SeqOfCall ==
  ASSUME NoWrap
  PROVE  \A k \in Calls : SeqOf(k) = k /\ k \in SeqNos /\ k # None
<1>1. ASSUME NEW k \in Nat, k < SeqMod
      PROVE  k % SeqMod = k
  BY <1>1, RpcAssumption, SMTT(30)
<1>2. QED
  BY <1>1, RpcAssumption DEF NoWrap, Calls, SeqOf, SeqNos, None

LEMMA SeqTypes ==
  ASSUME NEW S, NEW q \in Seq(S), NEW x \in S
  PROVE  /\ Append(q, x) \in Seq(S)
         /\ <<x>> \in Seq(S)
         /\ <<>> \in Seq(S)
         /\ q # <<>> => Head(q) \in S /\ Tail(q) \in Seq(S)
  OBVIOUS

LEMMA InitRInv == ASSUME NoWrap PROVE Init => RInv
<1> SUFFICES ASSUME Init PROVE RInv
  OBVIOUS
<1> USE RpcAssumption DEF Init, None
<1>1. TypeOK
  BY DEF TypeOK, Messages, SeqNos, Calls, Pending
<1>2. CurrentCall /\ ResponsesAreFiled /\ CallbacksAreFiled /\ DeliverIsOwn
  BY DEF CurrentCall, ResponsesAreFiled, CallbacksAreFiled, DeliverIsOwn
<1>3. ChannelIsOwn /\ ResultIsOwn /\ FiredIsOwn /\ OneAnswer
  BY DEF ChannelIsOwn, ResultIsOwn, FiredIsOwn, OneAnswer, Untouched, InHand, Calls
<1>4. QED
  BY <1>1, <1>2, <1>3 DEF RInv

(***************************************************************************)
(* Types.                                                                  *)
(***************************************************************************)
LEMMA TypeStep ==
  ASSUME RInv, [Next]_vars
  PROVE  TypeOK'
<1> USE RpcAssumption DEF RInv, TypeOK, None, Pending, Failed
<1>0. \A k \in Calls : k \in Nat /\ k <= MaxCalls /\ SeqOf(k) \in SeqNos
  BY SMTT(30) DEF Calls, SeqOf, SeqNos
<1>1. ASSUME NEW m \in Messages, Dispatch(m),
             asked' \subseteq Calls, answers' \subseteq Calls, others' \in 0 .. MaxOthers
      PROVE  TypeOK'
  <2>1. m.seq \in SeqNos /\ m.of \in 0 .. MaxCalls
    BY DEF Messages, Calls
  <2>2. rpcCallbacks[m.seq] \in 0 .. MaxCalls /\ rpcResponses[m.seq] \in 0 .. MaxCalls
    BY <2>1
  <2>3. fired' \in [Calls -> Seq(0 .. MaxCalls)]
    <3>1. CASE UNCHANGED fired
      BY <3>1
    <3>2. ASSUME NEW c \in Calls, fired' = [fired EXCEPT ![c] = Append(@, m.of)]
          PROVE  fired' \in [Calls -> Seq(0 .. MaxCalls)]
      <4>1. Append(fired[c], m.of) \in Seq(0 .. MaxCalls)
        BY <2>1, SeqTypes
      <4>2. QED
        BY <3>2, <4>1
    <3>3. rpcCallbacks[m.seq] # None => rpcCallbacks[m.seq] \in Calls
      BY <2>2 DEF Calls
    <3>4. QED
      BY <1>1, <3>1, <3>2, <3>3 DEF Dispatch
  <2>4. lpc' \in {"run", "deliver", "push"} /\ lmsg' \in Messages /\ lcall' \in 0 .. MaxCalls
    BY <1>1, <2>2 DEF Dispatch, loop
  <2>5. QED
    BY <1>1, <2>3, <2>4 DEF Dispatch, mgr, handler
<1>2. ASSUME NEW k \in Calls, ReadAnswer(k)
      PROVE  TypeOK'
  <2>1. [seq |-> SeqOf(k), of |-> k] \in Messages
    BY <1>0 DEF Messages
  <2>2. QED
    BY <1>1, <1>2, <2>1 DEF ReadAnswer
<1>3. ASSUME NEW s \in OtherSeqs, ReadOther(s)
      PROVE  TypeOK'
  <2>1. [seq |-> s, of |-> None] \in Messages
    BY DEF Messages, SeqNos
  <2>2. others' \in 0 .. MaxOthers
    BY <1>3 DEF ReadOther
  <2>3. QED
    BY <1>1, <1>3, <2>1, <2>2 DEF ReadOther
<1>4. CASE Deliver
  <2>1. lmsg.of \in 0 .. MaxCalls
    BY DEF Messages, Calls
  <2>2. respChan' \in [Calls -> Seq(0 .. MaxCalls)]
    <3>1. <<lmsg.of>> \in Seq(0 .. MaxCalls)
      BY <2>1, SeqTypes
    <3>2. QED
      BY <1>4, <3>1 DEF Deliver
  <2>3. QED
    BY <1>4, <2>2 DEF Deliver, mgr, net, handler
<1>5. CASE Push
  BY <1>5 DEF Push, mgr, net, handler
<1>6. CASE TakeInput
  <2>1. Tail(queue) \in Seq(Messages)
    BY <1>6, SeqTypes DEF TakeInput
  <2>2. QED
    BY <1>6, <2>1 DEF TakeInput, mgr, net, loop
<1>6a. CASE HandlerReturns
  BY <1>6a DEF HandlerReturns, mgr, net, loop
<1>7. CASE RpcWrite \/ RpcWriteAsync
  <2>1. calls + 1 \in Calls /\ SeqOf(calls + 1) \in SeqNos
    BY <1>7, <1>0 DEF RpcWrite, RpcWriteAsync, NewCall, Calls
  <2>2. QED
    <3>1. /\ calls' \in 0 .. MaxCalls /\ hcall' \in 0 .. MaxCalls
          /\ hpc' \in {"write", "writeAsync"}
          /\ UNCHANGED <<respChan, net, queue, loop, result, fired>>
      BY <1>7, <2>1 DEF RpcWrite, RpcWriteAsync, NewCall, Calls
    <3>2. /\ rpcResponses' \in [SeqNos -> 0 .. MaxCalls]
          /\ rpcCallbacks' \in [SeqNos -> 0 .. MaxCalls]
      <4>1. calls + 1 \in 0 .. MaxCalls
        BY <2>1 DEF Calls
      <4>2. CASE RpcWrite
        BY <2>1, <4>1, <4>2 DEF RpcWrite
      <4>3. CASE RpcWriteAsync
        BY <2>1, <4>1, <4>3 DEF RpcWriteAsync
      <4>4. QED
        BY <1>7, <4>2, <4>3
    <3>3. QED
      BY <3>1, <3>2 DEF net, loop
<1>8. CASE SendRequest
  BY <1>8 DEF SendRequest, mgr, loop, CurrentCall, Calls
<1>9. CASE SendFails \/ Timeout
  BY <1>9 DEF SendFails, Timeout, Return, mgr, net, loop, Calls
<1>10. CASE Receive
  <2>1. hcall \in Calls
    BY <1>10 DEF Receive, CurrentCall, Calls
  <2>2. /\ respChan[hcall] \in Seq(0 .. MaxCalls) /\ respChan[hcall] # <<>>
    BY <1>10, <2>1 DEF Receive
  <2>3. Head(respChan[hcall]) \in 0 .. MaxCalls /\ Tail(respChan[hcall]) \in Seq(0 .. MaxCalls)
    BY <2>2, SeqTypes
  <2>4. QED
    <3>1. respChan' \in [Calls -> Seq(0 .. MaxCalls)]
      BY <1>10, <2>1, <2>3 DEF Receive
    <3>2. result' \in [Calls -> {Pending, Failed} \cup 0 .. MaxCalls]
      BY <1>10, <2>1, <2>3 DEF Receive, Return
    <3>3. QED
      BY <1>10, <3>1, <3>2 DEF Receive, Return, mgr, net, loop
<1>11. CASE UnregisterRpc
  <2>1. rpcResponses' \in [SeqNos -> 0 .. MaxCalls]
    <3>1. ASSUME NEW S, NEW f \in [SeqNos -> S], NEW x, NEW y \in S
          PROVE  [f EXCEPT ![x] = y] \in [SeqNos -> S]
      OBVIOUS
    <3>2. None \in 0 .. MaxCalls
      OBVIOUS
    <3>3. QED
      BY <1>11, <3>1, <3>2 DEF UnregisterRpc
  <2>2. QED
    BY <1>11, <2>1 DEF UnregisterRpc, net, loop
<1>12. ASSUME NEW k \in Calls, PeerAnswers(k)
       PROVE  TypeOK'
  BY <1>12 DEF PeerAnswers, mgr, loop, handler
<1>13. CASE UNCHANGED vars
  BY <1>13 DEF vars, mgr, net, loop, handler
<1>14. QED
  BY <1>2, <1>3, <1>4, <1>5, <1>6, <1>6a, <1>7, <1>8, <1>9, <1>10, <1>11, <1>12, <1>13
     DEF Next, LoopRun, Business

(***************************************************************************)
(* The rest of the invariant.                                              *)
(***************************************************************************)
RShape ==
  /\ CurrentCall
  /\ ResponsesAreFiled
  /\ CallbacksAreFiled
  /\ DeliverIsOwn
  /\ ChannelIsOwn
  /\ ResultIsOwn
  /\ FiredIsOwn
  /\ OneAnswer

\* What a message with a call's number, or with number 0, can find in the
\* tables: the call itself, or nothing.
LEMMA Lookup ==
  ASSUME NoWrap, RInv, NEW m \in Messages,
         m.of # None => m.seq = SeqOf(m.of), m.of = None => m.seq = 0
  PROVE  /\ rpcResponses[m.seq] # None => rpcResponses[m.seq] = m.of /\ m.of \in Calls
         /\ rpcCallbacks[m.seq] # None => rpcCallbacks[m.seq] = m.of /\ m.of \in Calls
<1>1. m.seq \in SeqNos /\ m.of \in Calls \cup {None}
  BY DEF Messages
<1>2. rpcResponses[m.seq] # None => rpcResponses[m.seq] \in Calls
  BY <1>1, RpcAssumption DEF RInv, TypeOK, Calls, None
<1>3. rpcCallbacks[m.seq] # None => rpcCallbacks[m.seq] \in Calls
  BY <1>1, RpcAssumption DEF RInv, TypeOK, Calls, None
<1>4. \A k \in Calls : SeqOf(k) = m.seq => k = m.of
  BY <1>1, SeqOfCall DEF None
<1>5. QED
  BY <1>1, <1>2, <1>3, <1>4 DEF RInv, ResponsesAreFiled, CallbacksAreFiled

\* A message the loop reads is answered by nobody else: k is its call.
LEMMA DispatchStep ==
  ASSUME NoWrap, RInv, NEW m \in Messages, Dispatch(m),
         m.of # None => m.seq = SeqOf(m.of), m.of = None => m.seq = 0,
         m.of # None => m.of \in answers,
         UNCHANGED asked, answers' = answers \ {m.of}
  PROVE  RShape'
<1> USE DEF RInv
<1>1. UNCHANGED <<calls, mgr, respChan, queue, handler, result>>
  BY DEF Dispatch
<1>2. CurrentCall' /\ ResponsesAreFiled' /\ CallbacksAreFiled' /\ ChannelIsOwn' /\ ResultIsOwn'
  BY <1>1 DEF CurrentCall, ResponsesAreFiled, CallbacksAreFiled, ChannelIsOwn, ResultIsOwn,
       mgr, handler
<1>3. CASE rpcResponses[m.seq] # None
  <2>1. /\ lpc = "run" /\ lpc' = "deliver" /\ lcall' = m.of /\ lmsg' = m /\ UNCHANGED fired
        /\ m.of \in Calls
    BY <1>3, Lookup DEF Dispatch
  <2>2. DeliverIsOwn' /\ FiredIsOwn'
    BY <2>1, SeqOfCall DEF DeliverIsOwn, FiredIsOwn
  <2>3. OneAnswer'
    BY <1>1, <2>1 DEF OneAnswer, Untouched, InHand, handler, Calls, None
  <2>4. QED
    BY <1>2, <2>2, <2>3 DEF RShape
<1>4. CASE rpcResponses[m.seq] = None /\ rpcCallbacks[m.seq] # None
  <2>1. /\ lpc = "run" /\ UNCHANGED <<lpc, lcall, lmsg>> /\ m.of \in Calls
        /\ fired' = [fired EXCEPT ![m.of] = Append(@, m.of)]
    BY <1>4, Lookup DEF Dispatch, loop
  <2>2. fired[m.of] = <<>> /\ m.of \in answers
    BY <2>1, SeqOfCall DEF OneAnswer, Untouched
  <2>3. \A j \in Calls : fired'[j] = IF j = m.of THEN <<j>> ELSE fired[j]
    BY <2>1, <2>2 DEF TypeOK
  <2>4. DeliverIsOwn' /\ FiredIsOwn'
    BY <2>1, <2>3 DEF DeliverIsOwn, FiredIsOwn
  <2>5. OneAnswer'
    BY <1>1, <2>1, <2>2, <2>3 DEF OneAnswer, Untouched, InHand, handler
  <2>6. QED
    BY <1>2, <2>4, <2>5 DEF RShape
<1>5. CASE rpcResponses[m.seq] = None /\ rpcCallbacks[m.seq] = None
  <2>1. lpc = "run" /\ lpc' = "push" /\ UNCHANGED <<lcall, fired>>
    BY <1>5 DEF Dispatch
  <2>2. DeliverIsOwn' /\ FiredIsOwn'
    BY <2>1 DEF DeliverIsOwn, FiredIsOwn
  <2>3. OneAnswer'
    BY <1>1, <2>1 DEF OneAnswer, Untouched, InHand, handler
  <2>4. QED
    BY <1>2, <2>2, <2>3 DEF RShape
<1>6. QED
  BY <1>3, <1>4, <1>5

LEMMA RShapeStep ==
  ASSUME NoWrap, RInv, [Next]_vars
  PROVE  RShape'
<1> USE DEF RInv
<1>0. \A k \in Calls : SeqOf(k) = k /\ k \in SeqNos /\ k # None /\ k \in Nat /\ k # 0
  BY SeqOfCall, RpcAssumption DEF Calls
<1>1. ASSUME NEW k \in Calls, ReadAnswer(k)
      PROVE  RShape'
  <2>1. [seq |-> SeqOf(k), of |-> k] \in Messages
    BY <1>0 DEF Messages
  <2>2. QED
    BY <1>0, <1>1, <2>1, DispatchStep DEF ReadAnswer
<1>2. ASSUME NEW s \in OtherSeqs, ReadOther(s)
      PROVE  RShape'
  <2>1. s = 0 /\ [seq |-> s, of |-> None] \in Messages
    BY RpcAssumption DEF NoWrap, Messages, SeqNos
  <2>2. answers' = answers \ {None}
    BY <1>0, <1>2 DEF ReadOther, TypeOK
  <2>3. QED
    BY <1>2, <2>1, <2>2, DispatchStep DEF ReadOther
<1>3. CASE Deliver
  <2>1. /\ lpc = "deliver" /\ lpc' = "run" /\ lcall \in Calls /\ lmsg.of = lcall
        /\ respChan[lcall] = <<>>
    BY <1>3, RpcAssumption DEF Deliver, DeliverIsOwn, TypeOK, Calls, None
  <2>2. \A k \in Calls : respChan'[k] = IF k = lcall THEN <<k>> ELSE respChan[k]
    BY <1>3, <2>1 DEF Deliver, TypeOK
  <2>3. UNCHANGED <<calls, mgr, net, queue, lmsg, lcall, handler, result, fired>>
    BY <1>3 DEF Deliver
  <2>4. /\ CurrentCall' /\ ResponsesAreFiled' /\ CallbacksAreFiled' /\ ResultIsOwn'
        /\ FiredIsOwn' /\ DeliverIsOwn'
    BY <2>1, <2>3 DEF CurrentCall, ResponsesAreFiled, CallbacksAreFiled, ResultIsOwn,
         FiredIsOwn, DeliverIsOwn, mgr, handler
  <2>5. ChannelIsOwn'
    BY <2>2 DEF ChannelIsOwn
  <2>6. OneAnswer'
    BY <2>1, <2>2, <2>3 DEF OneAnswer, Untouched, InHand, handler, net
  <2>7. QED
    BY <2>4, <2>5, <2>6 DEF RShape
<1>4. CASE Push \/ TakeInput \/ HandlerReturns
  <2>1. /\ UNCHANGED <<calls, mgr, respChan, net, lmsg, lcall, hcall, result, fired>>
        /\ lpc' = "deliver" <=> lpc = "deliver"
        /\ \A label \in {"write", "wait", "unregister", "writeAsync"} :
             hpc' = label <=> hpc = label
    BY <1>4 DEF Push, TakeInput, HandlerReturns, loop, handler
  <2>2. /\ CurrentCall' /\ ResponsesAreFiled' /\ CallbacksAreFiled' /\ ResultIsOwn'
        /\ FiredIsOwn' /\ DeliverIsOwn' /\ ChannelIsOwn'
    BY <2>1 DEF CurrentCall, ResponsesAreFiled, CallbacksAreFiled, ResultIsOwn,
         FiredIsOwn, DeliverIsOwn, ChannelIsOwn, mgr
  <2>3. OneAnswer'
    BY <2>1 DEF OneAnswer, Untouched, InHand, net
  <2>4. QED
    BY <2>2, <2>3 DEF RShape
<1>5. CASE RpcWrite \/ RpcWriteAsync
  <2>1. /\ hpc = "handle" /\ calls + 1 \in Calls /\ calls' = calls + 1 /\ hcall' = calls + 1
        /\ hpc' \in {"write", "writeAsync"} /\ calls \in Nat
        /\ UNCHANGED <<respChan, net, queue, loop, result, fired>>
    BY <1>5, RpcAssumption DEF RpcWrite, RpcWriteAsync, NewCall, Calls, TypeOK
  <2>2. \A s \in SeqNos : rpcResponses[s] = None
    BY <2>1 DEF ResponsesAreFiled
  <2>3. /\ CurrentCall' /\ ResultIsOwn' /\ FiredIsOwn' /\ DeliverIsOwn' /\ ChannelIsOwn'
    BY <2>1 DEF CurrentCall, ResultIsOwn, FiredIsOwn, DeliverIsOwn, ChannelIsOwn, loop
  <2>4. ResponsesAreFiled'
    <3>1. CASE RpcWrite
      <4>1. \A s \in SeqNos : rpcResponses'[s] = IF s = SeqOf(calls + 1) THEN calls + 1 ELSE None
        BY <2>1, <2>2, <3>1 DEF RpcWrite, TypeOK
      <4>2. hpc' = "write"
        BY <3>1 DEF RpcWrite, NewCall
      <4>3. QED
        BY <2>1, <4>1, <4>2 DEF ResponsesAreFiled
    <3>2. CASE RpcWriteAsync
      BY <2>2, <3>2 DEF RpcWriteAsync, ResponsesAreFiled
    <3>3. QED
      BY <1>5, <3>1, <3>2
  <2>5. CallbacksAreFiled'
    <3>1. \A s \in SeqNos : \/ rpcCallbacks'[s] = rpcCallbacks[s]
                            \/ s = SeqOf(calls + 1) /\ rpcCallbacks'[s] = calls + 1
      BY <1>5 DEF RpcWrite, RpcWriteAsync, TypeOK
    <3>2. \A s \in SeqNos : rpcCallbacks[s] \in Nat
      BY RpcAssumption DEF TypeOK
    <3>3. QED
      BY <2>1, <3>1, <3>2 DEF CallbacksAreFiled
  <2>6. OneAnswer'
    <3>1. \A k \in Calls : k > calls + 1 => k > calls
      BY <2>1, <1>0
    <3>2. calls + 1 > calls
      BY <2>1
    <3>3. QED
      BY <2>1, <3>1, <3>2 DEF OneAnswer, Untouched, InHand, net, loop
  <2>7. QED
    BY <2>3, <2>4, <2>5, <2>6 DEF RShape
<1>6. CASE SendRequest
  <2>1. hcall \in Calls /\ hcall = calls /\ hcall \in Nat /\ calls \in Nat
    BY <1>6, RpcAssumption DEF SendRequest, CurrentCall, TypeOK, Calls
  <2>2. /\ hpc \in {"write", "writeAsync"} /\ asked' = asked \cup {hcall}
        /\ hpc' = IF hpc = "write" THEN "wait" ELSE "handle"
        /\ UNCHANGED <<calls, mgr, respChan, answers, others, queue, loop, hcall, result, fired>>
    BY <1>6 DEF SendRequest
  <2>3. /\ CurrentCall' /\ ResultIsOwn' /\ FiredIsOwn' /\ DeliverIsOwn' /\ ChannelIsOwn'
        /\ CallbacksAreFiled'
    BY <2>2 DEF CurrentCall, ResultIsOwn, FiredIsOwn, DeliverIsOwn, ChannelIsOwn,
         CallbacksAreFiled, loop, mgr
  <2>4. ResponsesAreFiled'
    BY <2>2 DEF ResponsesAreFiled, mgr
  <2>5. OneAnswer'
    BY <2>1, <2>2 DEF OneAnswer, Untouched, InHand, loop
  <2>6. QED
    BY <2>3, <2>4, <2>5 DEF RShape
<1>7. CASE SendFails \/ Receive \/ Timeout
  <2>1. /\ \/ hpc \in {"write", "wait"} /\ hpc' = "unregister"
           \/ hpc = "writeAsync" /\ hpc' = "handle"
        /\ UNCHANGED <<calls, mgr, net, queue, loop, hcall, fired>>
    BY <1>7 DEF SendFails, Receive, Timeout, Return
  <2>2. hcall \in Calls
    BY <2>1, RpcAssumption DEF CurrentCall, TypeOK, Calls
  <2>3. /\ CurrentCall' /\ ResponsesAreFiled' /\ CallbacksAreFiled' /\ FiredIsOwn'
        /\ DeliverIsOwn'
    BY <2>1 DEF CurrentCall, ResponsesAreFiled, CallbacksAreFiled, FiredIsOwn,
         DeliverIsOwn, mgr, loop
  <2>4. /\ ChannelIsOwn' /\ ResultIsOwn'
        /\ \A k \in Calls : respChan'[k] \in {<<>>, respChan[k]}
    <3>1. CASE Receive
      <4>1. respChan[hcall] = <<hcall>>
        BY <2>2, <3>1 DEF Receive, ChannelIsOwn
      <4>2. Head(respChan[hcall]) = hcall /\ Tail(respChan[hcall]) = <<>>
        BY <4>1
      <4>3. \A k \in Calls : /\ respChan'[k] = IF k = hcall THEN <<>> ELSE respChan[k]
                             /\ result'[k] = IF k = hcall THEN k ELSE result[k]
        BY <2>2, <3>1, <4>2 DEF Receive, Return, TypeOK
      <4>4. QED
        BY <4>3 DEF ChannelIsOwn, ResultIsOwn
    <3>2. CASE SendFails \/ Timeout
      <4>1. /\ UNCHANGED respChan
            /\ \A k \in Calls : result'[k] = result[k] \/ result'[k] = Failed
        BY <2>2, <3>2 DEF SendFails, Timeout, Return, TypeOK
      <4>2. QED
        BY <4>1 DEF ChannelIsOwn, ResultIsOwn
    <3>3. QED
      BY <1>7, <3>1, <3>2
  <2>5. OneAnswer'
    BY <2>1, <2>4 DEF OneAnswer, Untouched, InHand, net, loop
  <2>6. QED
    BY <2>3, <2>4, <2>5 DEF RShape
<1>8. CASE UnregisterRpc
  <2>1. /\ hpc = "unregister" /\ hpc' = "handle"
        /\ rpcResponses' = [rpcResponses EXCEPT ![SeqOf(hcall)] = None]
        /\ UNCHANGED <<calls, rpcCallbacks, respChan, net, queue, loop, hcall, result, fired>>
    BY <1>8 DEF UnregisterRpc
  <2>2. hcall \in Calls
    BY <2>1, RpcAssumption DEF CurrentCall, TypeOK, Calls
  <2>3. \A s \in SeqNos : rpcResponses'[s] = None
    BY <1>0, <2>1, <2>2 DEF ResponsesAreFiled, TypeOK
  <2>4. /\ CurrentCall' /\ CallbacksAreFiled' /\ FiredIsOwn' /\ DeliverIsOwn'
        /\ ChannelIsOwn' /\ ResultIsOwn' /\ ResponsesAreFiled'
    BY <2>1, <2>3 DEF CurrentCall, ResponsesAreFiled, CallbacksAreFiled, FiredIsOwn,
         DeliverIsOwn, ChannelIsOwn, ResultIsOwn, loop
  <2>5. OneAnswer'
    BY <2>1 DEF OneAnswer, Untouched, InHand, net, loop
  <2>6. QED
    BY <2>4, <2>5 DEF RShape
<1>9. ASSUME NEW k \in Calls, PeerAnswers(k)
      PROVE  RShape'
  <2>1. /\ k \in asked /\ asked' = asked \ {k} /\ answers' = answers \cup {k}
        /\ UNCHANGED <<calls, mgr, respChan, others, queue, loop, handler, result, fired>>
    BY <1>9 DEF PeerAnswers
  <2>2. /\ CurrentCall' /\ ResponsesAreFiled' /\ CallbacksAreFiled' /\ FiredIsOwn'
        /\ DeliverIsOwn' /\ ChannelIsOwn' /\ ResultIsOwn'
    BY <2>1 DEF CurrentCall, ResponsesAreFiled, CallbacksAreFiled, FiredIsOwn,
         DeliverIsOwn, ChannelIsOwn, ResultIsOwn, mgr, loop, handler
  <2>3. OneAnswer'
    BY <2>1 DEF OneAnswer, Untouched, InHand, loop, handler
  <2>4. QED
    BY <2>2, <2>3 DEF RShape
<1>10. CASE UNCHANGED vars
  <2>1. /\ CurrentCall' /\ ResponsesAreFiled' /\ CallbacksAreFiled' /\ FiredIsOwn'
        /\ DeliverIsOwn' /\ ChannelIsOwn' /\ ResultIsOwn'
    BY <1>10 DEF CurrentCall, ResponsesAreFiled, CallbacksAreFiled, FiredIsOwn,
         DeliverIsOwn, ChannelIsOwn, ResultIsOwn, vars, mgr, loop, handler
  <2>2. OneAnswer'
    BY <1>10 DEF OneAnswer, Untouched, InHand, vars, net, loop, handler
  <2>3. QED
    BY <2>1, <2>2 DEF RShape
<1>11. QED
  BY <1>1, <1>2, <1>3, <1>4, <1>5, <1>6, <1>7, <1>8, <1>9, <1>10 DEF Next, LoopRun, Business

(***************************************************************************)
(* The theorems.                                                           *)
(***************************************************************************)

\* Before the sequence numbers wrap, the invariant holds in every state.
THEOREM RpcInvariance == ASSUME NoWrap PROVE Spec => []RInv
<1>1. RInv /\ [Next]_vars => RInv'
  BY TypeStep, RShapeStep DEF RInv, RShape
<1>2. QED
  BY InitRInv, <1>1, PTL DEF Spec

\* Every variable keeps its type: in particular Push never goes beyond the
\* capacity of BaseLocal.queue.
THEOREM RpcTypes == ASSUME NoWrap PROVE Spec => []TypeOK
  BY RpcInvariance, PTL DEF RInv

\* RpcWrite returns its own answer or an error, and a callback gets its own
\* answer: no interleaving of answers, late answers, timeouts and other
\* messages makes the sequence number pick the wrong call.
THEOREM ResponsesMatch == ASSUME NoWrap PROVE Spec => []OwnResponse
<1>1. RInv => OwnResponse
  BY DEF RInv, ResultIsOwn, FiredIsOwn, OwnResponse
<1>2. QED
  BY RpcInvariance, <1>1, PTL

\* A callback runs at most once.
THEOREM CallbacksRunOnce == ASSUME NoWrap PROVE Spec => []CallbackOnce
<1>1. RInv => CallbackOnce
  <2>1. \A k : Len(<<>>) =< 1 /\ Len(<<k>>) =< 1
    OBVIOUS
  <2>2. QED
    BY <2>1 DEF RInv, FiredIsOwn, CallbackOnce
<1>2. QED
  BY RpcInvariance, <1>1, PTL

\* The loop is never blocked for good by a response channel nobody reads.
THEOREM DeliverNeverBlocks == ASSUME NoWrap PROVE Spec => []DeliverFindsRoom
<1>1. RInv => DeliverFindsRoom
  BY RpcAssumption DEF RInv, TypeOK, DeliverIsOwn, OneAnswer, InHand, DeliverFindsRoom,
     Calls, None
<1>2. QED
  BY RpcInvariance, <1>1, PTL

\* Every return path of RpcWrite removes its entry from rpcResponses.
THEOREM NoEntryLeftBehind == ASSUME NoWrap PROVE Spec => []PendingIsCurrent
<1>1. RInv => PendingIsCurrent
  BY DEF RInv, ResponsesAreFiled, PendingIsCurrent
<1>2. QED
  BY RpcInvariance, <1>1, PTL

-----------------------------------------------------------------------------
(***************************************************************************)
(* RpcCalls implements RpcContract.  What RInv lacks for that is why an    *)
(* answer that finds neither channel nor callback must be the answer to a  *)
(* call that has failed.                                                   *)
(***************************************************************************)

\* Call k has a callback; below the modulus it is filed under k.
Async(k) == rpcCallbacks[k] = k

\* A synchronous call is pending exactly while its goroutine writes or waits; an
\* asynchronous one has no return value and no channel; a call that has
\* returned its answer has no second one anywhere.
EndsOnce(k) ==
  /\ k = hcall /\ hpc \in {"write", "wait"} => result[k] = Pending
  /\ k <= calls /\ result[k] = Pending /\ ~Async(k) => k = hcall /\ hpc \in {"write", "wait"}
  /\ k > calls => result[k] = Pending
  /\ Async(k) => k <= calls /\ result[k] = Pending /\ respChan[k] = <<>> /\ ~InHand(k)
  /\ fired[k] # <<>> => Async(k)
  /\ result[k] = k => k \notin asked \cup answers /\ respChan[k] = <<>> /\ ~InHand(k)

CallsEndOnce ==
  /\ hpc \in {"write", "wait", "unregister"} => rpcResponses[hcall] = hcall /\ ~Async(hcall)
  /\ hpc = "writeAsync" => Async(hcall)
  /\ \A k \in Calls : EndsOnce(k)

CInv == RInv /\ CallsEndOnce

LEMMA CallTypes ==
  ASSUME NoWrap, RInv
  PROVE  /\ calls \in Nat
         /\ \A k \in Calls : k \in Nat /\ k # None /\ k \in SeqNos /\ SeqOf(k) = k
         /\ hpc \in {"write", "wait", "unregister", "writeAsync"} => hcall \in Calls /\ hcall = calls
BY SeqOfCall, RpcAssumption DEF RInv, TypeOK, CurrentCall, Calls

(* What the loop finds for an answer, and what that says of its call. *)
LEMMA AnswerFinds ==
  ASSUME NoWrap, CInv, NEW k \in Calls, k \in answers
  PROVE  /\ k <= calls /\ fired[k] = <<>> /\ respChan[k] = <<>> /\ ~InHand(k) /\ result[k] # k
         /\ rpcResponses[k] # None => rpcResponses[k] = k /\ ~Async(k)
         /\ rpcCallbacks[k] # None => Async(k)
         /\ rpcResponses[k] = None /\ rpcCallbacks[k] = None => result[k] = Failed
<1> USE DEF CInv, RInv, CallsEndOnce, EndsOnce
<1>1. k \in Nat /\ calls \in Nat /\ k \in SeqNos /\ SeqOf(k) = k /\ k # None
  BY CallTypes
<1>2. k <= calls /\ fired[k] = <<>> /\ respChan[k] = <<>> /\ ~InHand(k) /\ result[k] # k
  BY <1>1 DEF OneAnswer, Untouched
<1>3. rpcResponses[k] # None => rpcResponses[k] = hcall /\ hpc \in {"write", "wait", "unregister"}
  BY <1>1 DEF ResponsesAreFiled
<1>4. rpcResponses[k] # None => rpcResponses[k] = k /\ ~Async(k)
  BY <1>1, <1>3, CallTypes DEF ResponsesAreFiled
<1>5. rpcCallbacks[k] # None => Async(k)
  <2>1. rpcCallbacks[k] # None => rpcCallbacks[k] \in Calls
    BY <1>1, RpcAssumption DEF TypeOK, Calls, None
  <2>2. QED
    BY <1>1, <2>1, CallTypes DEF CallbacksAreFiled, Async
<1>6. rpcResponses[k] = None /\ rpcCallbacks[k] = None => result[k] = Failed
  BY <1>1, <1>2, CallTypes DEF ResultIsOwn, Async
<1>7. QED
  BY <1>2, <1>4, <1>5, <1>6

(* A step that leaves the calls and their answers where they are. *)
LEMMA EndOnceStays ==
  ASSUME CallsEndOnce, UNCHANGED <<calls, hcall, result, fired, respChan, rpcCallbacks, lcall>>,
         lpc' = "deliver" <=> lpc = "deliver",
         \A label \in {"write", "wait", "unregister", "writeAsync"} : hpc' = label <=> hpc = label,
         hpc \in {"write", "wait", "unregister"} => UNCHANGED rpcResponses,
         asked' \cup answers' \subseteq asked \cup answers
  PROVE  CallsEndOnce'
<1>1. \A k \in Calls : (Async(k)' <=> Async(k)) /\ (InHand(k)' <=> InHand(k))
  BY DEF Async, InHand
<1>2. QED
  BY <1>1 DEF CallsEndOnce, EndsOnce, Async

LEMMA DispatchEndOnce ==
  ASSUME NoWrap, CInv, NEW m \in Messages, Dispatch(m),
         \/ m.of \in Calls /\ m.of \in answers /\ m.seq = m.of
         \/ m.of = None /\ m.seq = 0,
         UNCHANGED asked, answers' = answers \ {m.of}
  PROVE  CallsEndOnce'
<1> USE DEF CInv
<1>1. UNCHANGED <<calls, rpcResponses, rpcCallbacks, respChan, hpc, hcall, result>>
  BY DEF Dispatch, mgr, handler
<1>2. \A k \in Calls : Async(k)' <=> Async(k)
  BY <1>1 DEF Async
<1>3. m.of = None => rpcResponses[m.seq] = None /\ rpcCallbacks[m.seq] = None
  BY Lookup, CallTypes DEF RInv
<1>4. CASE rpcResponses[m.seq] # None
  <2>1. m.of \in Calls /\ m.of \in answers /\ m.seq = m.of
    BY <1>3, <1>4
  <2>2. lcall' = m.of /\ ~Async(m.of) /\ result[m.of] # m.of /\ UNCHANGED fired /\ lpc # "deliver"
    BY <1>4, <2>1, AnswerFinds DEF Dispatch
  <2>3. \A k \in Calls : InHand(k)' => k = m.of
    BY <2>2 DEF InHand
  <2>4. QED
    BY <1>1, <1>2, <2>2, <2>3 DEF CallsEndOnce, EndsOnce, Async
<1>5. CASE rpcResponses[m.seq] = None /\ rpcCallbacks[m.seq] # None
  <2>1. m.of \in Calls /\ m.of \in answers /\ m.seq = m.of
    BY <1>3, <1>5
  <2>2. Async(m.of) /\ UNCHANGED <<lpc, lcall>> /\ fired' = [fired EXCEPT ![m.of] = Append(@, m.of)]
    BY <1>5, <2>1, AnswerFinds DEF Dispatch, loop, Async
  <2>3. \A k \in Calls : (InHand(k)' <=> InHand(k)) /\ (k # m.of => fired'[k] = fired[k])
    BY <2>2 DEF InHand, RInv, TypeOK
  <2>4. QED
    BY <1>1, <1>2, <2>2, <2>3 DEF CallsEndOnce, EndsOnce, Async
<1>6. CASE rpcResponses[m.seq] = None /\ rpcCallbacks[m.seq] = None
  <2>1. lpc = "run" /\ lpc' = "push" /\ UNCHANGED <<lcall, fired>>
    BY <1>6 DEF Dispatch
  <2>2. QED
    BY <1>1, <1>2, <2>1 DEF CallsEndOnce, EndsOnce, Async, InHand
<1>7. QED
  BY <1>4, <1>5, <1>6

LEMMA EndOnceStep ==
  ASSUME NoWrap, CInv, [Next]_vars
  PROVE  CallsEndOnce'
<1> USE DEF CInv
<1>0. calls \in Nat /\ \A k \in Calls : k \in Nat /\ k # None /\ k \in SeqNos /\ SeqOf(k) = k
  BY CallTypes
<1>1. ASSUME NEW k \in Calls, ReadAnswer(k)
      PROVE  CallsEndOnce'
  <2>1. [seq |-> SeqOf(k), of |-> k] \in Messages
    BY <1>0 DEF Messages
  <2>2. QED
    BY <1>0, <1>1, <2>1, DispatchEndOnce DEF ReadAnswer
<1>2. ASSUME NEW s \in OtherSeqs, ReadOther(s)
      PROVE  CallsEndOnce'
  <2>1. s = 0 /\ [seq |-> s, of |-> None] \in Messages
    BY RpcAssumption DEF NoWrap, Messages, SeqNos
  <2>2. answers' = answers \ {None}
    BY <1>0, <1>2 DEF ReadOther, RInv, TypeOK
  <2>3. QED
    BY <1>2, <2>1, <2>2, DispatchEndOnce DEF ReadOther
<1>3. CASE Deliver
  <2>1. /\ lpc = "deliver" /\ lpc' = "run" /\ lcall \in Calls /\ InHand(lcall)
        /\ respChan' = [respChan EXCEPT ![lcall] = <<lmsg.of>>]
        /\ UNCHANGED <<calls, mgr, net, lcall, handler, result, fired>>
    BY <1>3, RpcAssumption DEF Deliver, RInv, DeliverIsOwn, TypeOK, Calls, None, InHand
  <2>2. ~Async(lcall) /\ result[lcall] # lcall
    BY <2>1 DEF CallsEndOnce, EndsOnce
  <2>3. /\ \A k \in Calls : (Async(k)' <=> Async(k)) /\ ~(InHand(k)')
        /\ \A k \in Calls : k # lcall => respChan'[k] = respChan[k]
    BY <2>1 DEF Async, InHand, mgr, RInv, TypeOK
  <2>4. QED
    <3>1. UNCHANGED <<calls, rpcResponses, rpcCallbacks, asked, answers, hpc, hcall, result, fired>>
      BY <2>1 DEF mgr, net, handler
    <3>2. ASSUME NEW k \in Calls
          PROVE  EndsOnce(k)'
      <4>1. Async(k) \/ result[k] = k => k # lcall
        BY <2>2
      <4>2. QED
        BY <2>3, <3>1, <4>1 DEF CallsEndOnce, EndsOnce
    <3>3. /\ hpc' \in {"write", "wait", "unregister"} => rpcResponses'[hcall'] = hcall' /\ ~(Async(hcall)')
          /\ hpc' = "writeAsync" => Async(hcall)'
      BY <3>1 DEF CallsEndOnce, Async
    <3>4. QED
      BY <3>2, <3>3 DEF CallsEndOnce
<1>4. CASE Push \/ TakeInput \/ HandlerReturns
  BY <1>4, EndOnceStays DEF Push, TakeInput, HandlerReturns, mgr, net, loop, handler
<1>5. CASE RpcWrite \/ RpcWriteAsync
  <2>1. /\ hpc = "handle" /\ calls + 1 \in Calls /\ calls' = calls + 1 /\ hcall' = calls + 1
        /\ UNCHANGED <<respChan, net, queue, loop, result, fired>>
    BY <1>0, <1>5, RpcAssumption DEF RpcWrite, RpcWriteAsync, NewCall, Calls
  <2>2. /\ result[calls + 1] = Pending /\ ~Async(calls + 1) /\ fired[calls + 1] = <<>>
        /\ respChan[calls + 1] = <<>> /\ ~InHand(calls + 1)
    <3>1. calls + 1 > calls /\ ~(calls + 1 <= calls)
      BY <1>0
    <3>2. QED
      BY <2>1, <3>1 DEF CallsEndOnce, EndsOnce, RInv, OneAnswer, Untouched
  <2>3. CASE RpcWrite
    <3>1. hpc' = "write" /\ rpcResponses'[calls + 1] = calls + 1 /\ UNCHANGED rpcCallbacks
      BY <1>0, <2>1, <2>3 DEF RpcWrite, NewCall, RInv, TypeOK
    <3>2. \A k \in Calls : (Async(k)' <=> Async(k)) /\ (InHand(k)' <=> InHand(k))
      BY <2>1, <3>1 DEF Async, InHand, loop
    <3>3. \A k \in Calls : /\ k > calls + 1 => k > calls
                           /\ k <= calls => k <= calls + 1
                           /\ k <= calls + 1 => k <= calls \/ k = calls + 1
      BY <1>0
    <3>4. \A k \in Calls : k = calls + 1 => ~(k <= calls)
      BY <1>0
    <3>5. /\ hpc' \in {"write", "wait", "unregister"} => rpcResponses'[hcall'] = hcall' /\ ~(Async(hcall)')
          /\ hpc' # "writeAsync"
      BY <2>1, <2>2, <3>1 DEF Async
    <3>6. ASSUME NEW k \in Calls
          PROVE  EndsOnce(k)'
      BY <2>1, <2>2, <3>1, <3>2, <3>3, <3>4 DEF CallsEndOnce, EndsOnce, net
    <3>7. QED
      BY <3>5, <3>6 DEF CallsEndOnce, Async
  <2>4. CASE RpcWriteAsync
    <3>1. /\ hpc' = "writeAsync" /\ UNCHANGED rpcResponses
          /\ \A k \in Calls : rpcCallbacks'[k] = IF k = calls + 1 THEN calls + 1 ELSE rpcCallbacks[k]
      BY <1>0, <2>1, <2>4 DEF RpcWriteAsync, NewCall, RInv, TypeOK
    <3>2. \A k \in Calls : (Async(k)' <=> Async(k) \/ k = calls + 1) /\ (InHand(k)' <=> InHand(k))
      BY <2>1, <3>1 DEF Async, InHand, loop
    <3>3. \A k \in Calls : /\ k > calls + 1 => k > calls
                           /\ k <= calls => k <= calls + 1
                           /\ k <= calls + 1 => k <= calls \/ k = calls + 1
                           /\ k = calls + 1 => k <= calls + 1
      BY <1>0
    <3>4. Async(hcall)'
      BY <2>1, <3>1 DEF Async
    <3>5. ASSUME NEW k \in Calls
          PROVE  EndsOnce(k)'
      BY <2>1, <2>2, <3>1, <3>2, <3>3 DEF CallsEndOnce, EndsOnce, net
    <3>6. QED
      BY <3>1, <3>4, <3>5 DEF CallsEndOnce, Async
  <2>5. QED
    BY <1>5, <2>3, <2>4
<1>6. CASE SendRequest
  <2>1. /\ hpc \in {"write", "writeAsync"} /\ asked' = asked \cup {hcall} /\ hcall \in Calls
        /\ hpc' = IF hpc = "write" THEN "wait" ELSE "handle"
        /\ UNCHANGED <<calls, mgr, respChan, answers, loop, hcall, result, fired>>
    BY <1>6, CallTypes DEF SendRequest
  <2>2. result[hcall] # hcall
    BY <1>0, <2>1 DEF CallsEndOnce, EndsOnce, Pending
  <2>3. \A k \in Calls : (Async(k)' <=> Async(k)) /\ (InHand(k)' <=> InHand(k))
    BY <2>1 DEF Async, InHand, mgr, loop
  <2>4. QED
    BY <2>1, <2>2, <2>3 DEF CallsEndOnce, EndsOnce, Async, mgr
<1>7. CASE SendFails \/ Timeout \/ Receive
  <2>1. ASSUME hpc = "writeAsync", hpc' = "handle",
               UNCHANGED <<calls, mgr, respChan, net, queue, loop, hcall, result, fired>>
        PROVE  CallsEndOnce'
    <3>1. \A k \in Calls : (Async(k)' <=> Async(k)) /\ (InHand(k)' <=> InHand(k))
      BY <2>1 DEF Async, InHand, mgr, loop
    <3>2. QED
      BY <2>1, <3>1 DEF CallsEndOnce, EndsOnce, Async, net
  <2>2. ASSUME NEW r, hpc \in {"write", "wait"}, Return(r),
               (r = Failed /\ UNCHANGED respChan) \/ (r = hcall /\ Receive)
        PROVE  CallsEndOnce'
    <3>1. hcall \in Calls /\ hpc' = "unregister" /\ UNCHANGED <<calls, mgr, net, loop, hcall, fired>>
      BY <2>2, CallTypes DEF Return
    <3>2. \A k \in Calls : result'[k] = IF k = hcall THEN r ELSE result[k]
      <4>1. result' = [result EXCEPT ![hcall] = r]
        BY <2>2 DEF Return
      <4>2. DOMAIN result = Calls
        BY DEF RInv, TypeOK
      <4>3. QED
        BY <4>1, <4>2
    <3>3. \A k \in Calls : (Async(k)' <=> Async(k)) /\ (InHand(k)' <=> InHand(k))
      BY <3>1 DEF Async, InHand, mgr, loop
    <3>4. \A k \in Calls : respChan'[k] \in {<<>>, respChan[k]}
      <4>1. CASE Receive
        <5>1. respChan[hcall] = <<hcall>>
          BY <3>1, <4>1 DEF Receive, RInv, ChannelIsOwn
        <5>2. Tail(respChan[hcall]) = <<>>
          BY <5>1
        <5>3. QED
          BY <3>1, <4>1, <5>2 DEF Receive, RInv, TypeOK
      <4>2. QED
        BY <2>2, <4>1
    <3>5. r # Pending
      BY <1>0, <3>1, <2>2 DEF Pending, Failed
    <3>6. r = hcall => /\ hcall \notin asked \cup answers /\ respChan'[hcall] = <<>> /\ ~InHand(hcall)
      <4>1. CASE Receive
        <5>1. respChan[hcall] = <<hcall>>
          BY <3>1, <4>1 DEF Receive, RInv, ChannelIsOwn
        <5>2. Tail(respChan[hcall]) = <<>> /\ respChan[hcall] # <<>>
          BY <5>1
        <5>3. respChan'[hcall] = <<>>
          BY <3>1, <4>1, <5>2 DEF Receive, RInv, TypeOK
        <5>4. QED
          BY <3>1, <5>2, <5>3 DEF RInv, OneAnswer, Untouched
      <4>2. QED
        BY <1>0, <2>2, <3>1, <4>1 DEF Failed
    <3>7. ASSUME NEW k \in Calls
          PROVE  EndsOnce(k)'
      <4>1. CASE k = hcall
        <5>1. ~Async(k) /\ ~(k > calls)
          BY <1>0, <2>2, <4>1, CallTypes DEF CallsEndOnce
        <5>2. fired[k] = <<>>
          BY <3>1, <4>1, <5>1 DEF CallsEndOnce, EndsOnce
        <5>3. result'[k] = r /\ (r = k => k \notin asked \cup answers /\ respChan'[k] = <<>> /\ ~InHand(k))
          BY <3>2, <3>6, <4>1
        <5>4. QED
          BY <3>1, <3>3, <3>5, <4>1, <5>1, <5>2, <5>3 DEF EndsOnce, net
      <4>2. CASE k # hcall
        BY <2>2, <3>1, <3>2, <3>3, <3>4, <4>2 DEF CallsEndOnce, EndsOnce, net
      <4>3. QED
        BY <4>1, <4>2
    <3>8. hpc \in {"write", "wait"} => rpcResponses'[hcall'] = hcall' /\ ~(Async(hcall)')
      BY <3>1 DEF CallsEndOnce, Async, mgr
    <3>9. QED
      BY <2>2, <3>1, <3>7, <3>8 DEF CallsEndOnce
  <2>3. CASE Receive
    <3>1. hcall \in Calls /\ respChan[hcall] = <<hcall>>
      BY <2>3, CallTypes DEF Receive, RInv, ChannelIsOwn
    <3>2. Head(respChan[hcall]) = hcall
      BY <3>1
    <3>3. Return(hcall) /\ hpc = "wait"
      BY <2>3, <3>2 DEF Receive
    <3>4. QED
      BY <2>2, <2>3, <3>3
  <2>4. CASE Timeout
    <3>1. hpc = "wait" /\ Return(Failed) /\ UNCHANGED respChan
      BY <2>4 DEF Timeout
    <3>2. QED
      BY <2>2, <3>1
  <2>5. CASE SendFails
    <3>1. \/ hpc = "write" /\ Return(Failed) /\ UNCHANGED respChan
          \/ /\ hpc = "writeAsync" /\ hpc' = "handle"
             /\ UNCHANGED <<calls, mgr, respChan, net, queue, loop, hcall, result, fired>>
      BY <2>5 DEF SendFails
    <3>2. CASE hpc = "write"
      BY <2>2, <3>1, <3>2
    <3>3. CASE hpc = "writeAsync"
      BY <2>1, <3>1, <3>3
    <3>4. QED
      BY <3>1, <3>2, <3>3
  <2>6. QED
    BY <1>7, <2>3, <2>4, <2>5
<1>8. CASE UnregisterRpc
  <2>1. /\ hpc = "unregister" /\ hpc' = "handle"
        /\ UNCHANGED <<calls, rpcCallbacks, respChan, net, loop, hcall, result, fired>>
    BY <1>8 DEF UnregisterRpc
  <2>2. \A k \in Calls : (Async(k)' <=> Async(k)) /\ (InHand(k)' <=> InHand(k))
    BY <2>1 DEF Async, InHand, loop
  <2>3. QED
    BY <2>1, <2>2 DEF CallsEndOnce, EndsOnce, Async, net
<1>9. ASSUME NEW k \in Calls, PeerAnswers(k)
      PROVE  CallsEndOnce'
  BY <1>9, EndOnceStays DEF PeerAnswers, mgr, loop, handler
<1>10. CASE UNCHANGED vars
  BY <1>10, EndOnceStays DEF vars, mgr, net, loop, handler
<1>11. QED
  BY <1>1, <1>2, <1>3, <1>4, <1>5, <1>6, <1>7, <1>8, <1>9, <1>10 DEF Next, LoopRun, Business

(***************************************************************************)
(* The inbox of the contract is the queue, with what the loop is pushing.  *)
(***************************************************************************)
Of(q) == [i \in 1 .. Len(q) |-> q[i].of]

LEMMA OfSeq ==
  ASSUME NEW S, NEW T, \A m \in S : m.of \in T, NEW q \in Seq(S)
  PROVE Of(q) \in Seq(T) /\ Len(Of(q)) = Len(q) /\ \A i \in 1 .. Len(q) : Of(q)[i] = q[i].of
<1>1. Len(q) \in Nat /\ \A i \in 1 .. Len(q) : q[i] \in S
  OBVIOUS
<1>2. Of(q) \in [1 .. Len(q) -> T]
  BY <1>1 DEF Of
<1>3. Of(q) \in Seq(T)
  BY <1>1, <1>2
<1>4. \A i \in 1 .. Len(q) : Of(q)[i] = q[i].of
  BY DEF Of
<1>5. Len(Of(q)) = Len(q)
  BY <1>1, <1>2, <1>3
<1> QED BY <1>3, <1>4, <1>5

LEMMA OfAppend ==
  ASSUME NEW S, NEW T, \A m \in S : m.of \in T, NEW q \in Seq(S), NEW m \in S
  PROVE  Of(Append(q, m)) = Append(Of(q), m.of)
<1>1. Append(q, m) \in Seq(S) /\ m.of \in T
  OBVIOUS
<1>2. /\ Of(Append(q, m)) \in Seq(T) /\ Len(Of(Append(q, m))) = Len(q) + 1
      /\ \A i \in 1 .. Len(q) + 1 : Of(Append(q, m))[i] = IF i <= Len(q) THEN q[i].of ELSE m.of
  <2> DEFINE r == Append(q, m)
  <2>1. r \in Seq(S) /\ Len(r) = Len(q) + 1 /\ Len(q) \in Nat
        /\ \A i \in 1 .. Len(q) + 1 : r[i] = IF i <= Len(q) THEN q[i] ELSE m
    OBVIOUS
  <2> HIDE DEF r
  <2>2. Of(r) \in Seq(T) /\ Len(Of(r)) = Len(r) /\ \A i \in 1 .. Len(r) : Of(r)[i] = r[i].of
    BY <2>1, OfSeq
  <2>3. Of(r) \in Seq(T) /\ Len(Of(r)) = Len(q) + 1
        /\ \A i \in 1 .. Len(q) + 1 : Of(r)[i] = IF i <= Len(q) THEN q[i].of ELSE m.of
    BY <2>1, <2>2
  <2>4. QED
    BY <2>3 DEF r
<1>3. /\ Append(Of(q), m.of) \in Seq(T) /\ Len(Append(Of(q), m.of)) = Len(q) + 1
      /\ \A i \in 1 .. Len(q) + 1 : Append(Of(q), m.of)[i] = IF i <= Len(q) THEN q[i].of ELSE m.of
  <2>1. Of(q) \in Seq(T) /\ Len(Of(q)) = Len(q) /\ \A i \in 1 .. Len(q) : Of(q)[i] = q[i].of
    BY OfSeq
  <2>2. QED
    BY <1>1, <2>1
<1>4. /\ Len(Of(Append(q, m))) = Len(Append(Of(q), m.of))
      /\ \A i \in 1 .. Len(Of(Append(q, m))) : Of(Append(q, m))[i] = Append(Of(q), m.of)[i]
  BY <1>2, <1>3
<1>5. ASSUME NEW a \in Seq(T), NEW b \in Seq(T), Len(a) = Len(b), \A i \in 1 .. Len(a) : a[i] = b[i]
      PROVE  a = b
  BY <1>5, SeqEqual
<1>6. QED
  BY <1>2, <1>3, <1>4, <1>5

LEMMA OfTail ==
  ASSUME NEW S, NEW T, \A m \in S : m.of \in T, NEW q \in Seq(S), q # <<>>
  PROVE  Of(Tail(q)) = Tail(Of(q)) /\ Of(q) # <<>>
<1>1. Tail(q) \in Seq(S) /\ Len(Tail(q)) = Len(q) - 1 /\ Len(q) \in Nat \ {0}
      /\ \A i \in 1 .. Len(q) - 1 : Tail(q)[i] = q[i + 1]
  OBVIOUS
<1>2. /\ Of(Tail(q)) \in Seq(T) /\ Len(Of(Tail(q))) = Len(q) - 1
      /\ \A i \in 1 .. Len(q) - 1 : Of(Tail(q))[i] = q[i + 1].of
  <2> DEFINE r == Tail(q)
  <2> HIDE DEF r
  <2>1. r \in Seq(S) /\ Len(r) = Len(q) - 1 /\ \A i \in 1 .. Len(q) - 1 : r[i] = q[i + 1]
    BY <1>1 DEF r
  <2>2. Of(r) \in Seq(T) /\ Len(Of(r)) = Len(r) /\ \A i \in 1 .. Len(r) : Of(r)[i] = r[i].of
    BY <2>1, OfSeq
  <2>3. QED
    BY <2>1, <2>2 DEF r
<1>3. Of(q) \in Seq(T) /\ Len(Of(q)) = Len(q) /\ \A i \in 1 .. Len(q) : Of(q)[i] = q[i].of
  BY OfSeq
<1>4. Of(q) # <<>>
  BY <1>1, <1>3
<1>5. /\ Tail(Of(q)) \in Seq(T) /\ Len(Tail(Of(q))) = Len(q) - 1
      /\ \A i \in 1 .. Len(q) - 1 : Tail(Of(q))[i] = q[i + 1].of
  BY <1>1, <1>3, <1>4
<1>6. /\ Len(Of(Tail(q))) = Len(Tail(Of(q)))
      /\ \A i \in 1 .. Len(Of(Tail(q))) : Of(Tail(q))[i] = Tail(Of(q))[i]
  BY <1>2, <1>5
<1>7. ASSUME NEW a \in Seq(T), NEW b \in Seq(T), Len(a) = Len(b), \A i \in 1 .. Len(a) : a[i] = b[i]
      PROVE  a = b
  BY <1>7, SeqEqual
<1>8. QED
  BY <1>2, <1>4, <1>5, <1>6, <1>7

LEMMA InitCInv == ASSUME NoWrap PROVE Init => CInv
<1> SUFFICES ASSUME Init PROVE CallsEndOnce
  BY InitRInv DEF CInv
<1>1. \A k \in Calls : k \in Nat /\ k > 0 /\ ~Async(k) /\ k # Pending
  BY SeqOfCall, RpcAssumption DEF Init, Async, Calls, Pending, None, SeqNos
<1>2. QED
  BY <1>1, RpcAssumption DEF Init, CallsEndOnce, EndsOnce, InHand

THEOREM CallsEndOnceInvariance == ASSUME NoWrap PROVE Spec => []CInv
<1>1. CInv /\ [Next]_vars => CInv'
  <2> SUFFICES ASSUME CInv, [Next]_vars PROVE CInv'
    OBVIOUS
  <2>1. TypeOK' /\ RShape'
    BY TypeStep, RShapeStep DEF CInv
  <2>2. QED
    BY <2>1, EndOnceStep DEF CInv, RInv, RShape
<1>2. QED
  BY InitCInv, <1>1, PTL DEF Spec

(***************************************************************************)
(* Steps of the contract.                                                  *)
(***************************************************************************)
Outcome(k) ==
  IF k > calls THEN "new"
  ELSE IF result[k] = k \/ fired[k] = <<k>> THEN "answered"
  ELSE IF result[k] = Failed THEN "failed"
  ELSE "open"

LEMMA StatusIs == NoWrap /\ CInv => \A k \in Calls : Status(k) = Outcome(k)
<1> SUFFICES ASSUME NoWrap, CInv, NEW k \in Calls PROVE Status(k) = Outcome(k)
  OBVIOUS
<1>1. k \in Nat /\ calls \in Nat
  BY CallTypes DEF CInv
<1>2. result[k] \in {Pending, Failed, k} /\ fired[k] \in {<<>>, <<k>>}
  BY DEF CInv, RInv, ResultIsOwn, FiredIsOwn
<1>3. k > calls => result[k] = Pending /\ fired[k] = <<>>
  BY <1>1 DEF CInv, CallsEndOnce, EndsOnce, Async
<1>4. Pending # Failed /\ k # Pending /\ k # Failed /\ <<k>> # <<>>
  BY <1>1 DEF Pending, Failed
<1>5. fired[k] # <<>> => result[k] = Pending
  BY DEF CInv, CallsEndOnce, EndsOnce
<1>6. CASE k > calls
  <2>1. result[k] # k /\ fired[k] # <<k>> /\ result[k] # Failed /\ ~(k <= calls)
    BY <1>1, <1>3, <1>4, <1>6
  <2>2. QED
    BY <1>6, <2>1, Zenon DEF Status, Outcome
<1>7. CASE ~(k > calls) /\ (result[k] = k \/ fired[k] = <<k>>)
  <2>1. result[k] # Failed /\ ~(result[k] = Pending /\ fired[k] = <<>>)
    BY <1>4, <1>5, <1>7
  <2>2. QED
    BY <1>7, <2>1, Zenon DEF Status, Outcome
<1>8. CASE ~(k > calls) /\ ~(result[k] = k \/ fired[k] = <<k>>) /\ result[k] = Failed
  BY <1>4, <1>8, Zenon DEF Status, Outcome
<1>9. CASE ~(k > calls) /\ ~(result[k] = k \/ fired[k] = <<k>>) /\ result[k] # Failed
  <2>1. result[k] = Pending /\ fired[k] = <<>> /\ k <= calls
    BY <1>1, <1>2, <1>9
  <2>2. QED
    BY <1>9, <2>1, Zenon DEF Status, Outcome
<1>10. QED
  BY <1>6, <1>7, <1>8, <1>9

LEMMA StatusIsNext == NoWrap /\ CInv' => \A k \in Calls : Status(k)' = Outcome(k)'
<1>1. (NoWrap /\ CInv => \A k \in Calls : Status(k) = Outcome(k))'
  BY StatusIs, PTL
<1>2. QED
  BY <1>1 DEF NoWrap

LEMMA Becomes ==
  ASSUME NEW k \in Calls, NEW before, NEW after,
         Status(k) = before, Status(k)' = after,
         \A j \in Calls : j # k => Status(j)' = Status(j), Inbox' = Inbox
  PROVE  Contract!Become(k, before, after)
BY DEF Contract!Become

LEMMA Idles ==
  ASSUME UNCHANGED <<calls, result, fired>>, Inbox' = Inbox
  PROVE  UNCHANGED <<[k \in Calls |-> Status(k)], Inbox>>
<1>1. \A k : Status(k)' = Status(k)
  BY DEF Status
<1>2. QED
  BY <1>1

(* What the loop reads: the call is answered, or a late answer, or a message, arrives. *)
LEMMA DispatchRefines ==
  ASSUME NoWrap, CInv, CInv', NEW m \in Messages, Dispatch(m),
         \/ m.of \in Calls /\ m.of \in answers /\ m.seq = m.of
         \/ m.of = None /\ m.seq = 0
  PROVE  \/ Contract!Next
         \/ UNCHANGED <<[k \in Calls |-> Status(k)], Inbox>>
<1>1. UNCHANGED <<calls, queue, result>> /\ lpc = "run"
  BY DEF Dispatch
<1>2. m.of = None => rpcResponses[m.seq] = None /\ rpcCallbacks[m.seq] = None
  BY Lookup, CallTypes DEF CInv
<1>3. CASE rpcResponses[m.seq] # None
  <2>1. lpc' = "deliver" /\ UNCHANGED fired
    BY <1>3 DEF Dispatch
  <2>2. Inbox' = Inbox
    BY <1>1, <2>1 DEF Inbox
  <2>3. QED
    BY <1>1, <2>1, <2>2, Idles
<1>4. CASE rpcResponses[m.seq] = None /\ rpcCallbacks[m.seq] # None
  <2>1. PICK k \in Calls : k = m.of /\ k \in answers /\ m.seq = k
    BY <1>2, <1>4
  <2>2. /\ k <= calls /\ fired[k] = <<>> /\ Async(k) /\ k \in Nat /\ calls \in Nat
    BY <1>4, <2>1, AnswerFinds, CallTypes DEF CInv
  <2>3. result[k] = Pending
    BY <2>2 DEF CInv, CallsEndOnce, EndsOnce
  <2>4. /\ UNCHANGED <<lpc, lmsg>> /\ fired' = [fired EXCEPT ![k] = Append(@, k)]
    BY <1>4, <2>1, <2>2 DEF Dispatch, loop, Async
  <2>5. \A j \in Calls : fired'[j] = IF j = k THEN <<k>> ELSE fired[j]
    BY <2>2, <2>4 DEF CInv, RInv, TypeOK
  <2>6. Inbox' = Inbox
    BY <1>1, <2>4 DEF Inbox
  <2>7. Status(k) = "open"
    <3>1. ~(k > calls) /\ result[k] # k /\ fired[k] # <<k>> /\ result[k] # Failed
      BY <2>2, <2>3 DEF Pending, Failed
    <3>2. QED
      BY <3>1, StatusIs DEF Outcome
  <2>8. Status(k)' = "answered"
    <3>1. ~(k > calls') /\ fired'[k] = <<k>>
      BY <1>1, <2>2, <2>5
    <3>2. QED
      BY <3>1, StatusIsNext DEF Outcome
  <2>9. \A j \in Calls : j # k => Status(j)' = Status(j)
    BY <1>1, <2>5 DEF Status
  <2>10. Contract!Answer(k)
    BY <2>6, <2>7, <2>8, <2>9, Becomes DEF Contract!Answer
  <2>11. QED
    BY <2>10 DEF Contract!Next
<1>5. CASE rpcResponses[m.seq] = None /\ rpcCallbacks[m.seq] = None
  <2>1. lpc' = "push" /\ lmsg' = m /\ UNCHANGED fired
    BY <1>5 DEF Dispatch
  <2>2. Inbox' = Append(Inbox, m.of)
    <3>1. Inbox = Of(queue) /\ Inbox' = Of(Append(queue, m))
      BY <1>1, <2>1 DEF Inbox, Of
    <3>2. queue \in Seq(Messages) /\ \A x \in Messages : x.of \in Calls \cup {None}
      BY DEF CInv, RInv, TypeOK, Messages
    <3>3. Of(Append(queue, m)) = Append(Of(queue), m.of)
      BY <3>2, OfAppend
    <3>4. QED
      BY <3>1, <3>3
  <2>3. [k \in Calls |-> Status(k)]' = [k \in Calls |-> Status(k)]
    BY <1>1, <2>1 DEF Status
  <2>4. m.of # None => Status(m.of) = "failed"
    <3> SUFFICES ASSUME m.of # None PROVE Status(m.of) = "failed"
      OBVIOUS
    <3>1. PICK k \in Calls : k = m.of /\ k \in answers /\ m.seq = k
      OBVIOUS
    <3>2. k <= calls /\ fired[k] = <<>> /\ result[k] = Failed /\ k \in Nat /\ calls \in Nat
      BY <1>5, <3>1, AnswerFinds, CallTypes DEF CInv
    <3>3. ~(k > calls) /\ result[k] # k /\ fired[k] # <<k>>
      BY <3>2 DEF Failed
    <3>4. QED
      BY <3>1, <3>2, <3>3, StatusIs DEF Outcome
  <2>5. m.of \in Calls \cup {None} /\ (m.of # None => m.of \in Calls)
    BY DEF Messages
  <2>6. Contract!Arrive(m.of)
    BY <2>2, <2>3, <2>4, <2>5 DEF Contract!Arrive
  <2>7. QED
    BY <2>5, <2>6 DEF Contract!Next
<1>6. QED
  BY <1>3, <1>4, <1>5

LEMMA StepRefines ==
  ASSUME NoWrap, CInv, CInv', [Next]_vars
  PROVE  \/ Contract!Next
         \/ UNCHANGED <<[k \in Calls |-> Status(k)], Inbox>>
<1> DEFINE Goal == Contract!Next \/ UNCHANGED <<[k \in Calls |-> Status(k)], Inbox>>
<1>0. calls \in Nat /\ \A k \in Calls : k \in Nat /\ k # None /\ k \in SeqNos /\ SeqOf(k) = k
  BY CallTypes DEF CInv
<1>1. ASSUME NEW k \in Calls, ReadAnswer(k)
      PROVE  Goal
  <2>1. [seq |-> SeqOf(k), of |-> k] \in Messages
    BY <1>0 DEF Messages
  <2>2. QED
    BY <1>0, <1>1, <2>1, DispatchRefines DEF ReadAnswer
<1>2. ASSUME NEW s \in OtherSeqs, ReadOther(s)
      PROVE  Goal
  <2>1. s = 0 /\ [seq |-> s, of |-> None] \in Messages
    BY RpcAssumption DEF NoWrap, Messages, SeqNos
  <2>2. QED
    BY <1>2, <2>1, DispatchRefines DEF ReadOther
<1>3. CASE Deliver \/ HandlerReturns \/ SendRequest \/ UnregisterRpc \/ UNCHANGED vars
           \/ \E k \in Calls : PeerAnswers(k)
  <2>1. UNCHANGED <<calls, result, fired, queue>> /\ (lpc' = "push" <=> lpc = "push")
        /\ (lpc = "push" => lmsg' = lmsg)
    BY <1>3 DEF Deliver, HandlerReturns, SendRequest, UnregisterRpc, PeerAnswers, vars, loop
  <2>2. QED
    BY <2>1, Idles DEF Inbox
<1>4. CASE Push
  <2>1. /\ UNCHANGED <<calls, result, fired>> /\ lpc = "push" /\ lpc' = "run"
        /\ queue' = Append(queue, lmsg)
    BY <1>4 DEF Push
  <2>2. QED
    BY <2>1, Idles DEF Inbox
<1>5. CASE TakeInput
  <2>1. /\ UNCHANGED <<calls, result, fired, lpc, lmsg>> /\ queue # <<>>
        /\ queue' = Tail(queue)
    BY <1>5 DEF TakeInput, loop
  <2>2. queue \in Seq(Messages) /\ lmsg \in Messages /\ \A x \in Messages : x.of \in Calls \cup {None}
    BY DEF CInv, RInv, TypeOK, Messages
  <2>3. Inbox # <<>> /\ Inbox' = Tail(Inbox)
    <3>1. CASE lpc = "push"
      <4>1. Inbox = Of(Append(queue, lmsg)) /\ Inbox' = Of(Append(Tail(queue), lmsg))
        BY <2>1, <3>1 DEF Inbox, Of
      <4>2. Append(Tail(queue), lmsg) = Tail(Append(queue, lmsg))
        BY <2>1, <2>2
      <4>3. Append(queue, lmsg) \in Seq(Messages) /\ Append(queue, lmsg) # <<>>
        BY <2>2
      <4>4. QED
        BY <2>2, <4>1, <4>2, <4>3, OfTail
    <3>2. CASE lpc # "push"
      <4>1. Inbox = Of(queue) /\ Inbox' = Of(Tail(queue))
        BY <2>1, <3>2 DEF Inbox, Of
      <4>2. QED
        BY <2>1, <2>2, <4>1, OfTail
    <3>3. QED
      BY <3>1, <3>2
  <2>4. [k \in Calls |-> Status(k)]' = [k \in Calls |-> Status(k)]
    BY <2>1 DEF Status
  <2>5. Contract!Take
    BY <2>3, <2>4 DEF Contract!Take
  <2>6. QED
    BY <2>5 DEF Contract!Next
<1>6. CASE RpcWrite \/ RpcWriteAsync
  <2>1. PICK k \in Calls : k = calls + 1
    BY <1>0, <1>6, RpcAssumption DEF RpcWrite, RpcWriteAsync, NewCall, Calls
  <2>2. /\ calls' = k /\ UNCHANGED <<result, fired, queue, lpc, lmsg>>
    BY <1>6, <2>1 DEF RpcWrite, RpcWriteAsync, NewCall, loop
  <2>3. k > calls /\ ~(k > k) /\ ~(k <= calls) /\ k # Pending /\ k # Failed /\ Pending # Failed
    BY <1>0, <2>1 DEF Pending, Failed
  <2>4. result[k] = Pending /\ fired[k] # <<k>>
    <3>1. EndsOnce(k)
      BY DEF CInv, CallsEndOnce
    <3>2. /\ k > calls => result[k] = Pending
          /\ Async(k) => k <= calls
          /\ fired[k] # <<>> => Async(k)
      BY <3>1 DEF EndsOnce
    <3>3. result[k] = Pending /\ fired[k] = <<>>
      BY <2>3, <3>2
    <3>4. QED
      BY <3>3
  <2>5. Status(k) = "new" /\ Status(k)' = "open"
    BY <2>2, <2>3, <2>4, StatusIs, StatusIsNext DEF Outcome
  <2>6. \A j \in Calls : j # k => Status(j)' = Status(j)
    <3>1. \A j \in Calls : j # k => (j > k <=> j > calls)
      BY <1>0, <2>1
    <3>2. \A j \in Calls : j # k => Outcome(j)' = Outcome(j)
      BY <2>2, <3>1 DEF Outcome
    <3>3. QED
      BY <3>2, StatusIs, StatusIsNext
  <2>7. Contract!Start(k)
    BY <2>2, <2>5, <2>6, Becomes DEF Contract!Start, Inbox
  <2>8. QED
    BY <2>7 DEF Contract!Next
<1>7. CASE SendFails \/ Receive \/ Timeout
  <2>1. CASE hpc = "writeAsync"
    <3>1. UNCHANGED <<calls, result, fired, queue, lpc, lmsg>>
      BY <1>7, <2>1 DEF SendFails, Receive, Timeout, loop
    <3>2. QED
      BY <3>1, Idles DEF Inbox
  <2>2. CASE hpc # "writeAsync"
    <3>1. /\ hpc \in {"write", "wait"} /\ hcall \in Calls
          /\ UNCHANGED <<calls, fired, queue, lpc, lmsg>>
      BY <1>7, <2>2, CallTypes DEF SendFails, Receive, Timeout, Return, loop, CInv
    <3>2. \/ result' = [result EXCEPT ![hcall] = Failed]
          \/ result' = [result EXCEPT ![hcall] = hcall]
      <4>1. CASE Receive
        <5>1. respChan[hcall] = <<hcall>>
          BY <3>1, <4>1 DEF Receive, CInv, RInv, ChannelIsOwn
        <5>2. Head(respChan[hcall]) = hcall
          BY <5>1
        <5>3. QED
          BY <4>1, <5>2 DEF Receive, Return
      <4>2. QED
        BY <1>7, <2>2, <4>1 DEF SendFails, Timeout, Return
    <3>3. DOMAIN result = Calls
      BY DEF CInv, RInv, TypeOK
    <3>4. PICK k \in Calls : k = hcall
      BY <3>1
    <3>5. /\ ~(k > calls) /\ k # Pending /\ k # Failed /\ Pending # Failed
      BY <1>0, <3>1, <3>4, CallTypes DEF CInv, Pending, Failed
    <3>6. result[k] = Pending /\ fired[k] # <<k>>
      BY <3>1, <3>4 DEF CInv, CallsEndOnce, EndsOnce
    <3>7. Status(k) = "open"
      BY <3>5, <3>6, StatusIs DEF Outcome
    <3>8. result'[k] \in {Failed, k} /\ \A j \in Calls : j # k => result'[j] = result[j]
      BY <3>2, <3>3, <3>4
    <3>9. Status(k)' = IF result'[k] = k THEN "answered" ELSE "failed"
      BY <3>1, <3>5, <3>6, <3>8, StatusIsNext DEF Outcome
    <3>10. \A j \in Calls : j # k => Status(j)' = Status(j)
      <4>1. \A j \in Calls : j # k => Outcome(j)' = Outcome(j)
        BY <3>1, <3>8 DEF Outcome
      <4>2. QED
        BY <4>1, StatusIs, StatusIsNext
    <3>11. Inbox' = Inbox
      BY <3>1 DEF Inbox
    <3>12. Contract!Answer(k) \/ Contract!Fail(k)
      BY <3>7, <3>9, <3>10, <3>11, Becomes DEF Contract!Answer, Contract!Fail
    <3>13. QED
      BY <3>12 DEF Contract!Next
  <2>3. QED
    BY <2>1, <2>2
<1>8. QED
  BY <1>1, <1>2, <1>3, <1>4, <1>5, <1>6, <1>7 DEF Next, LoopRun, Business

LEMMA InitRefines == ASSUME NoWrap PROVE Init => Contract!Init
<1> SUFFICES ASSUME Init PROVE Contract!Init
  OBVIOUS
<1>1. Inbox = <<>>
  <2>1. Inbox = Of(<<>>)
    BY DEF Init, Inbox, Of
  <2>2. Of(<<>>) \in Seq(Calls \cup {None}) /\ Len(Of(<<>>)) = 0
    <3>1. <<>> \in Seq(Messages) /\ \A x \in Messages : x.of \in Calls \cup {None}
      BY DEF Messages
    <3>2. QED
      BY <3>1, OfSeq
  <2>3. QED
    BY <2>1, <2>2, EmptySeq
<1>2. \A k \in Calls : Status(k) = "new"
  <2>1. \A k \in Calls : k > calls
    BY RpcAssumption DEF Init, Calls
  <2>2. QED
    BY <2>1, InitCInv, StatusIs DEF Outcome
<1>3. QED
  BY <1>1, <1>2 DEF Contract!Init

(***************************************************************************)
(* The theorem.                                                            *)
(***************************************************************************)

\* Tables, channels, timers, queue and the two goroutines that wait for each
\* other implement the contract of the layer: a call ends at most once, with
\* its own answer or an error; inputs keep their order; and a response that
\* reaches the handlers as an input is that of a call which had failed.
THEOREM RpcImplementsContract == ASSUME NoWrap PROVE Spec => ImplementsContract
<1>1. CInv /\ CInv' /\ [Next]_vars
        => [Contract!Next]_<<[k \in Calls |-> Status(k)], Inbox>>
  BY StepRefines
<1>2. QED
  BY CallsEndOnceInvariance, InitRefines, <1>1, PTL DEF Spec, ImplementsContract, Contract!Spec

=============================================================================
