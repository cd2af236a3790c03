---------------------------- MODULE RpcContract ----------------------------
(***************************************************************************)
(* What the RPC layer promises to the code above it, whatever the order in *)
(* which the loop, the business goroutine, the timer and the peers move:   *)
(* a call ends at most once, with the answer to its own request or with an *)
(* error; a message reaches the handlers in the order it was read; and the *)
(* only answers handlers ever see are those of calls that ended in error.  *)
(***************************************************************************)
EXTENDS Naturals, Sequences

CONSTANTS Calls, None

VARIABLES
  status,   \* per call: "new", "open", "answered" or "failed"
  inbox     \* messages for the handlers: None, or the call a late answer is to

Init ==
  /\ status = [k \in Calls |-> "new"]
  /\ inbox = <<>>

Become(k, before, after) ==
  /\ status[k] = before
  /\ status' = [status EXCEPT ![k] = after]
  /\ UNCHANGED inbox

Start(k) == Become(k, "new", "open")
Answer(k) == Become(k, "open", "answered")
Fail(k) == Become(k, "open", "failed")

Arrive(m) ==
  /\ m # None => status[m] = "failed"
  /\ inbox' = Append(inbox, m)
  /\ UNCHANGED status

Take ==
  /\ inbox # <<>>
  /\ inbox' = Tail(inbox)
  /\ UNCHANGED status

Next ==
  \/ \E k \in Calls : Start(k) \/ Answer(k) \/ Fail(k)
  \/ \E m \in Calls \cup {None} : Arrive(m)
  \/ Take

Spec == Init /\ [][Next]_<<status, inbox>>
=============================================================================
