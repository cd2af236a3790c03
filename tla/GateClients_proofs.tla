-------------------------- MODULE GateClients_proofs --------------------------
(***************************************************************************)
(* The gate's table of users (module GateClients), for any connections,    *)
(* users and queue: the type invariant and the four properties of the      *)
(* table, from one inductive invariant.                                    *)
(***************************************************************************)
EXTENDS GateClients, SequenceTheorems, TLAPS

USE GateAssumption

States == {"open", "closing", "forgetting", "closed"}
Labels == {"idle", "register", "lookup", "kick", "set", "context", "reply", "bye", "forget", "get", "send"}

(* The request that is handled; a logout keeps its uid while it replies. *)
RequestOK ==
  /\ hpc \in Labels
  /\ hconn \in Conns \cup {NoConn} /\ huid \in Uids \cup {NoUid} /\ target \in Conns \cup {NoConn}
  /\ hpc \in {"register", "lookup", "kick", "set", "context", "reply", "bye"} => hconn \in Conns
  /\ hpc \in {"lookup", "kick", "set", "context", "bye", "forget", "get"} => huid \in Uids
  /\ hpc = "kick" => target \in Conns \ {hconn}
  /\ hpc = "send" => target \in Conns

TableOK ==
  /\ m_users \in [Uids -> Conns \cup {NoConn}]
  /\ ctx \in [Conns -> Uids \cup {NoUid}]
  /\ conn \in [Conns -> States]
  /\ closeUid \in [Conns -> Uids \cup {NoUid}]
  /\ \A c \in Conns : conn[c] = "forgetting" => closeUid[c] \in Uids
  /\ deleting \in Conns \cup {NoConn} /\ accounts \subseteq Uids /\ crashed \in BOOLEAN
  /\ last \in [Uids -> Conns \cup {NoConn}] /\ late \subseteq Conns

QueueOK ==
  /\ queue \in Seq(Requests)
  /\ Len(queue) <= QueueCap

(* Whoever is in the table has an account, so a new account has no entry. *)
AccountsOK ==
  /\ \A i \in 1 .. Len(queue) : queue[i].uid # NoUid => queue[i].uid \in accounts
  /\ huid # NoUid => huid \in accounts
  /\ \A u \in Uids : m_users[u] # NoConn => u \in accounts

(* Since GetClient the entry of the user can only have been deleted. *)
KickOK == hpc \in {"kick", "set"} => m_users[huid] \in {NoConn, target}

(* Close deletes the user that is still in the context, unless SetClient came after Del. *)
CloseOK ==
  \A c \in Conns \ late : conn[c] = "forgetting" => closeUid[c] = ctx[c]

UserForgotten ==
  \A c \in Conns \ late : conn[c] = "closed" /\ ctx[c] # NoUid => m_users[ctx[c]] # c

(* Between SetClient's two writes a connection may be in the table without a user. *)
EntryOK ==
  \A u \in Uids : m_users[u] \in Conns =>
    ctx[m_users[u]] # NoUid \/ (hpc = "context" /\ hconn = m_users[u])

GInv == /\ RequestOK /\ TableOK /\ QueueOK /\ AccountsOK /\ KickOK
        /\ CloseOK /\ UserForgotten /\ EntryOK /\ LostOnlyByOtherClose

LEMMA RequestsAre ==
  ASSUME NEW r \in Requests
  PROVE  /\ r.cmd \in {"login", "logout", "packetOut"}
         /\ r.uid \in Uids \cup {NoUid} /\ r.conn \in Conns \cup {NoConn}
         /\ r.cmd \in {"login", "logout"} => r.conn \in Conns
         /\ r.cmd \in {"logout", "packetOut"} => r.uid \in Uids
BY DEF Requests

(* A Write, and the Del it may lead to. *)
LEMMA WriteStep ==
  ASSUME GInv, NEW c \in Conns, NEW next \in {"idle", "set", "forget"}, Write(c, next),
         hpc # "context", next = "set" => hpc = "kick", next = "forget" => hpc = "bye"
  PROVE  GInv'
<1>1. /\ UNCHANGED <<table, closeUid, queue, request, accounts, crashed, last, late>>
      /\ hpc' = next
      BY DEF Write
<1>2. /\ conn' \in [Conns -> States] /\ deleting' \in Conns \cup {NoConn}
      /\ \A d \in Conns : conn'[d] = conn[d] \/ (conn[d] = "open" /\ conn'[d] = "closing")
      BY DEF Write, GInv, TableOK, States
<1>3. RequestOK'  BY <1>1 DEF GInv, RequestOK, request, Labels
<1>4. TableOK'  BY <1>1, <1>2 DEF GInv, TableOK, table
<1>5. QueueOK'  BY <1>1 DEF GInv, QueueOK
<1>6. AccountsOK' /\ KickOK'  BY <1>1 DEF GInv, AccountsOK, KickOK, table, request
<1>7. CloseOK'  BY <1>1, <1>2 DEF GInv, CloseOK, table
<1>8. UserForgotten'  BY <1>1, <1>2 DEF GInv, UserForgotten, table
<1>9. LostOnlyByOtherClose'
  <2>1. \A d \in Conns : conn[d] = "closed" => conn'[d] = "closed"  BY <1>2
  <2> QED BY <1>1, <2>1 DEF GInv, LostOnlyByOtherClose, table
<1>10. EntryOK'  BY <1>1 DEF GInv, EntryOK, table, request
<1> QED BY <1>3, <1>4, <1>5, <1>6, <1>7, <1>8, <1>9, <1>10 DEF GInv

LEMMA ArriveStep == ASSUME GInv, NEW r \in Requests, Arrive(r) PROVE GInv'
<1>1. /\ UNCHANGED <<table, closing, hpc, request, deleting, accounts, crashed, last, late>>
      /\ queue' = Append(queue, r) /\ Len(queue) < QueueCap
      /\ r.uid # NoUid => r.uid \in accounts
      BY DEF Arrive
<1>2. /\ queue' \in Seq(Requests) /\ Len(queue') = Len(queue) + 1
      /\ \A i \in 1 .. Len(queue) : queue'[i] = queue[i]
      /\ queue'[Len(queue) + 1] = r
      BY <1>1, AppendProperties DEF GInv, QueueOK
<1>3. Len(queue) \in Nat  BY LenProperties DEF GInv, QueueOK
<1>4. QueueOK'  BY <1>1, <1>2, <1>3 DEF QueueOK
<1>5. AccountsOK'
  <2>1. \A i \in 1 .. Len(queue') : queue'[i].uid # NoUid => queue'[i].uid \in accounts
        BY <1>1, <1>2, <1>3 DEF GInv, AccountsOK
  <2> QED BY <1>1, <2>1 DEF GInv, AccountsOK, table, request
<1>6. RequestOK' /\ TableOK'  BY <1>1 DEF GInv, RequestOK, TableOK, table, closing, request
<1>7. KickOK' /\ CloseOK' /\ UserForgotten' /\ EntryOK' /\ LostOnlyByOtherClose'
      BY <1>1 DEF GInv, KickOK, CloseOK, UserForgotten, EntryOK, LostOnlyByOtherClose, table, closing, request
<1> QED BY <1>4, <1>5, <1>6, <1>7 DEF GInv

LEMMA CloseStep == ASSUME GInv, NEW c \in Conns, Close(c) PROVE GInv'
<1> USE DEF GInv
<1>1. CASE Del(c)
  <2>1. /\ conn[c] = "open" /\ conn' = [conn EXCEPT ![c] = "closing"]
        /\ UNCHANGED <<table, closeUid, queue, hpc, request, deleting, accounts, crashed, last, late>>
        BY <1>1 DEF Del
  <2>2. conn' \in [Conns -> States] /\ conn'[c] = "closing" /\ \A d \in Conns \ {c} : conn'[d] = conn[d]
        BY <2>1 DEF TableOK, States
  <2>3. RequestOK' /\ QueueOK' /\ AccountsOK' /\ KickOK'
        BY <2>1 DEF RequestOK, QueueOK, AccountsOK, KickOK, table, request
  <2>4. TableOK'  BY <2>1, <2>2 DEF TableOK, table
  <2>5. CloseOK' /\ UserForgotten' /\ EntryOK'  BY <2>1, <2>2 DEF CloseOK, UserForgotten, EntryOK, table, request
  <2>6. LostOnlyByOtherClose'
    <3>1. \A d \in Conns : conn[d] = "closed" => conn'[d] = "closed"  BY <2>1, <2>2
    <3> QED BY <2>1, <3>1 DEF LostOnlyByOtherClose, table
  <2> QED BY <2>3, <2>4, <2>5, <2>6
<1>2. CASE CloseReads(c)
  <2>1. /\ conn[c] = "closing"
        /\ closeUid' = [closeUid EXCEPT ![c] = ctx[c]]
        /\ conn' = [conn EXCEPT ![c] = IF ctx[c] = NoUid THEN "closed" ELSE "forgetting"]
        /\ UNCHANGED <<table, queue, hpc, request, deleting, accounts, crashed, last, late>>
        BY <1>2 DEF CloseReads
  <2>2. /\ conn' \in [Conns -> States] /\ closeUid' \in [Conns -> Uids \cup {NoUid}]
        /\ closeUid'[c] = ctx[c] /\ conn'[c] = IF ctx[c] = NoUid THEN "closed" ELSE "forgetting"
        /\ \A d \in Conns \ {c} : conn'[d] = conn[d] /\ closeUid'[d] = closeUid[d]
        BY <2>1 DEF TableOK, States
  <2>3. RequestOK' /\ QueueOK' /\ AccountsOK' /\ KickOK'
        BY <2>1 DEF RequestOK, QueueOK, AccountsOK, KickOK, table, request
  <2>4. TableOK'
    <3>1. \A d \in Conns : conn'[d] = "forgetting" => closeUid'[d] \in Uids
          BY <2>2 DEF TableOK
    <3> QED BY <2>1, <2>2, <3>1 DEF TableOK, table
  <2>5. CloseOK' /\ UserForgotten' /\ EntryOK'  BY <2>1, <2>2 DEF CloseOK, UserForgotten, EntryOK, table, request
  <2>6. LostOnlyByOtherClose'
    <3>1. \A d \in Conns : conn[d] = "closed" => conn'[d] = "closed" /\ closeUid'[d] = closeUid[d]
          BY <2>1, <2>2
    <3> QED BY <2>1, <3>1 DEF LostOnlyByOtherClose, table
  <2> QED BY <2>3, <2>4, <2>5, <2>6
<1>3. CASE CloseReadsTorn(c)
  <2>1. crashed' = TRUE
        /\ UNCHANGED <<table, closing, queue, hpc, request, deleting, accounts, last, late>>
        BY <1>3 DEF CloseReadsTorn
  <2>2. RequestOK' /\ TableOK' /\ QueueOK' /\ AccountsOK' /\ KickOK'
        BY <2>1 DEF RequestOK, TableOK, QueueOK, AccountsOK, KickOK, table, closing, request
  <2>3. CloseOK' /\ UserForgotten' /\ EntryOK' /\ LostOnlyByOtherClose'
        BY <2>1 DEF CloseOK, UserForgotten, EntryOK, LostOnlyByOtherClose, table, closing, request
  <2> QED BY <2>2, <2>3
<1>4. CASE CloseDeletes(c)
  <2>1. /\ conn[c] = "forgetting"
        /\ m_users' = [m_users EXCEPT ![closeUid[c]] = NoConn]
        /\ conn' = [conn EXCEPT ![c] = "closed"]
        /\ UNCHANGED <<ctx, closeUid, queue, hpc, request, deleting, accounts, crashed, last, late>>
        BY <1>4 DEF CloseDeletes
  <2>2. closeUid[c] \in Uids  BY <2>1 DEF TableOK
  <2>3. /\ m_users' \in [Uids -> Conns \cup {NoConn}] /\ m_users'[closeUid[c]] = NoConn
        /\ \A u \in Uids \ {closeUid[c]} : m_users'[u] = m_users[u]
        BY <2>1, <2>2 DEF TableOK
  <2>4. conn' \in [Conns -> States] /\ conn'[c] = "closed" /\ \A d \in Conns \ {c} : conn'[d] = conn[d]
        BY <2>1 DEF TableOK, States
  <2>5. RequestOK' /\ QueueOK'  BY <2>1 DEF RequestOK, QueueOK, request
  <2>6. TableOK'  BY <2>1, <2>3, <2>4 DEF TableOK
  <2>7. AccountsOK' /\ KickOK'  BY <2>1, <2>3 DEF RequestOK, AccountsOK, KickOK, request
  <2>8. CloseOK'  BY <2>1, <2>4 DEF CloseOK
  <2>9. UserForgotten'
    <3> SUFFICES ASSUME NEW d \in Conns \ late, conn'[d] = "closed", ctx[d] # NoUid
                 PROVE  m_users'[ctx[d]] # d
        BY <2>1 DEF UserForgotten
    <3>1. ctx[d] \in Uids  BY DEF TableOK
    <3>2. CASE d = c  BY <2>1, <2>3, <3>2 DEF CloseOK
    <3>3. CASE d # c  BY <2>3, <2>4, <3>1, <3>3 DEF UserForgotten
    <3> QED BY <3>2, <3>3
  <2>10. LostOnlyByOtherClose'
    <3> SUFFICES ASSUME NEW u \in Uids, last[u] # NoConn
                 PROVE  m_users'[u] = last[u] \/ \E d \in Conns : conn'[d] = "closed" /\ closeUid[d] = u
        BY <2>1 DEF LostOnlyByOtherClose
    <3>1. CASE u = closeUid[c]  BY <2>4, <3>1
    <3>2. CASE u # closeUid[c]  BY <2>3, <2>4, <3>2 DEF LostOnlyByOtherClose
    <3> QED BY <3>1, <3>2
  <2>11. EntryOK'
    <3> SUFFICES ASSUME NEW u \in Uids, m_users'[u] \in Conns
                 PROVE  ctx[m_users'[u]] # NoUid \/ (hpc = "context" /\ hconn = m_users'[u])
        BY <2>1 DEF EntryOK, request
    <3>1. u # closeUid[c]  BY <2>3
    <3> QED BY <2>3, <3>1 DEF EntryOK
  <2> QED BY <2>5, <2>6, <2>7, <2>8, <2>9, <2>10, <2>11
<1> QED BY <1>1, <1>2, <1>3, <1>4 DEF Close

LEMMA TakeInputStep == ASSUME GInv, TakeInput PROVE GInv'
<1>1. /\ hpc = "idle" /\ queue # <<>> /\ queue' = Tail(queue) /\ hconn' = Head(queue).conn /\ huid' = Head(queue).uid
      /\ hpc' = CASE Head(queue).cmd = "login" /\ Head(queue).uid = NoUid -> "register"
                  [] Head(queue).cmd = "login" /\ Head(queue).uid # NoUid -> "lookup"
                  [] Head(queue).cmd = "logout" -> "bye"
                  [] Head(queue).cmd = "packetOut" -> "get"
      /\ deleting' = NoConn /\ target' = NoConn
      /\ UNCHANGED <<table, closing, accounts, crashed, last, late>>
      BY DEF TakeInput, At
<1>2. /\ Head(queue) \in Requests /\ Head(queue) = queue[1] /\ Tail(queue) \in Seq(Requests)
      /\ Len(Tail(queue)) = Len(queue) - 1 /\ Len(queue) \in Nat /\ Len(queue) > 0
      /\ \A i \in 1 .. Len(Tail(queue)) : Tail(queue)[i] = queue[i + 1]
      BY <1>1, HeadTailProperties, LenProperties, EmptySeq DEF GInv, QueueOK
<1>3. /\ Head(queue).cmd \in {"login", "logout", "packetOut"}
      /\ Head(queue).uid \in Uids \cup {NoUid} /\ Head(queue).conn \in Conns \cup {NoConn}
      /\ Head(queue).cmd \in {"login", "logout"} => Head(queue).conn \in Conns
      /\ Head(queue).cmd \in {"logout", "packetOut"} => Head(queue).uid \in Uids
      BY <1>2, RequestsAre
<1>4. QueueOK'  BY <1>1, <1>2 DEF GInv, QueueOK
<1>5. hpc' \in {"register", "lookup", "bye", "get"}
      /\ (hpc' \in {"lookup", "bye", "get"} => huid' \in Uids)
      /\ (hpc' \in {"register", "lookup", "bye"} => hconn' \in Conns)
      BY <1>1, <1>3
<1>6. RequestOK'  BY <1>1, <1>3, <1>5 DEF RequestOK, Labels
<1>7. TableOK'  BY <1>1 DEF GInv, TableOK, table, closing
<1>8. AccountsOK'
  <2>1. \A i \in 1 .. Len(queue') : queue'[i].uid # NoUid => queue'[i].uid \in accounts
        BY <1>1, <1>2 DEF GInv, AccountsOK
  <2>2. huid' # NoUid => huid' \in accounts  BY <1>1, <1>2 DEF GInv, AccountsOK
  <2> QED BY <1>1, <2>1, <2>2 DEF GInv, AccountsOK, table
<1>9. KickOK'  BY <1>5 DEF KickOK
<1>10. CloseOK' /\ UserForgotten' /\ EntryOK' /\ LostOnlyByOtherClose'
       BY <1>1 DEF GInv, CloseOK, UserForgotten, EntryOK, LostOnlyByOtherClose, table, closing
<1> QED BY <1>4, <1>6, <1>7, <1>8, <1>9, <1>10 DEF GInv

(* The steps of a handler that change neither the table nor a connection. *)
LEMMA HandlerStep ==
  ASSUME GInv, UNCHANGED <<table, closing, queue, deleting, crashed, last, late>>,
         hpc # "context", RequestOK', accounts \subseteq accounts', accounts' \subseteq Uids,
         huid' # NoUid => huid' \in accounts',
         hpc' \in {"kick", "set"} => m_users[huid'] \in {NoConn, target'}
  PROVE  GInv'
<1>1. TableOK' /\ QueueOK'  BY DEF GInv, TableOK, QueueOK, table, closing
<1>2. AccountsOK'
  <2>1. \A i \in 1 .. Len(queue') : queue'[i].uid # NoUid => queue'[i].uid \in accounts'
        BY DEF GInv, AccountsOK
  <2>2. \A u \in Uids : m_users'[u] # NoConn => u \in accounts'  BY DEF GInv, AccountsOK, table
  <2> QED BY <2>1, <2>2 DEF AccountsOK
<1>3. KickOK'  BY DEF KickOK, table
<1>4. CloseOK' /\ UserForgotten' /\ EntryOK' /\ LostOnlyByOtherClose'
      BY DEF GInv, CloseOK, UserForgotten, EntryOK, LostOnlyByOtherClose, table, closing
<1> QED BY <1>1, <1>2, <1>3, <1>4 DEF GInv

(* A new account has no entry in the table. *)
LEMMA RegisterStep == ASSUME GInv, NEW u \in Uids, Register(u) PROVE GInv'
<1>1. /\ hpc = "register" /\ u \notin accounts /\ accounts' = accounts \cup {u} /\ huid' = u /\ hpc' = "set"
      /\ UNCHANGED <<table, closing, queue, hconn, target, deleting, crashed, last, late>>
      BY DEF Register, At
<1>2. RequestOK'  BY <1>1 DEF GInv, RequestOK, Labels
<1>3. m_users[u] = NoConn  BY <1>1 DEF GInv, AccountsOK
<1>4. accounts' \subseteq Uids  BY <1>1 DEF GInv, TableOK
<1> QED BY <1>1, <1>2, <1>3, <1>4, HandlerStep

(* The connection GetClient found is not the one that logs in: it is kicked. *)
LEMMA LookupStep == ASSUME GInv, Lookup PROVE GInv'
<1>1. /\ hpc = "lookup" /\ target' = m_users[huid]
      /\ hpc' = CASE m_users[huid] = hconn -> "reply" [] m_users[huid] = NoConn -> "set" [] OTHER -> "kick"
      /\ UNCHANGED <<table, closing, queue, hconn, huid, deleting, accounts, crashed, last, late>>
      BY DEF Lookup, At
<1>2. hconn \in Conns /\ huid \in Uids /\ m_users[huid] \in Conns \cup {NoConn}
      BY <1>1 DEF GInv, RequestOK, TableOK
<1>3. /\ hpc' \in {"reply", "set", "kick"}
      /\ hpc' = "kick" => target' \in Conns \ {hconn}
      BY <1>1, <1>2
<1>4. RequestOK'  BY <1>1, <1>2, <1>3 DEF RequestOK, Labels
<1>5. (huid' # NoUid => huid' \in accounts') /\ accounts' = accounts /\ accounts \subseteq Uids
      BY <1>1 DEF GInv, AccountsOK, TableOK
<1> QED BY <1>1, <1>4, <1>5, HandlerStep

LEMMA GetClientStep == ASSUME GInv, GetClient PROVE GInv'
<1>1. /\ hpc = "get" /\ target' = m_users[huid] /\ hpc' = IF m_users[huid] = NoConn THEN "idle" ELSE "send"
      /\ UNCHANGED <<table, closing, queue, hconn, huid, deleting, accounts, crashed, last, late>>
      BY DEF GetClient, At
<1>2. huid \in Uids /\ m_users[huid] \in Conns \cup {NoConn}  BY <1>1 DEF GInv, RequestOK, TableOK
<1>3. RequestOK'  BY <1>1, <1>2 DEF GInv, RequestOK, Labels
<1>4. (huid' # NoUid => huid' \in accounts') /\ accounts' = accounts /\ accounts \subseteq Uids
      BY <1>1 DEF GInv, AccountsOK, TableOK
<1> QED BY <1>1, <1>3, <1>4, HandlerStep

LEMMA ReplyFailsStep == ASSUME GInv, ReplyFails PROVE GInv'
<1>1. hpc = "reply" /\ hpc' = "idle"
      /\ UNCHANGED <<table, closing, queue, request, deleting, accounts, crashed, last, late>>
      BY DEF ReplyFails, At
<1>2. RequestOK'  BY <1>1 DEF GInv, RequestOK, request, Labels
<1>3. (huid' # NoUid => huid' \in accounts') /\ accounts' = accounts /\ accounts \subseteq Uids
      BY <1>1 DEF GInv, AccountsOK, TableOK, request
<1> QED BY <1>1, <1>2, <1>3, HandlerStep

(* SetClient writes the table: the connection is open, or late. *)
LEMMA SetClientStep == ASSUME GInv, SetClient PROVE GInv'
<1>1. /\ hpc = "set" /\ m_users' = [m_users EXCEPT ![huid] = hconn] /\ last' = [last EXCEPT ![huid] = hconn]
      /\ hpc' = "context" /\ late' = (IF conn[hconn] = "open" THEN late ELSE late \cup {hconn})
      /\ UNCHANGED <<ctx, closing, queue, request, deleting, accounts, crashed>>
      BY DEF SetClient, At, NoteLate
<1>2. hconn \in Conns /\ huid \in Uids  BY <1>1 DEF GInv, RequestOK
<1>3. /\ m_users' \in [Uids -> Conns \cup {NoConn}] /\ last' \in [Uids -> Conns \cup {NoConn}]
      /\ m_users'[huid] = hconn /\ last'[huid] = hconn
      /\ \A u \in Uids \ {huid} : m_users'[u] = m_users[u] /\ last'[u] = last[u]
      BY <1>1, <1>2 DEF GInv, TableOK
<1>4. RequestOK' /\ QueueOK' /\ KickOK'  BY <1>1, <1>2 DEF GInv, RequestOK, QueueOK, KickOK, request, Labels
<1>5. late' \subseteq Conns /\ late \subseteq late'  BY <1>1, <1>2 DEF GInv, TableOK
<1>6. TableOK'  BY <1>1, <1>3, <1>5 DEF GInv, TableOK, closing
<1>7. AccountsOK'  BY <1>1, <1>2, <1>3 DEF GInv, AccountsOK, request
<1>8. CloseOK'  BY <1>1, <1>5 DEF GInv, CloseOK, closing
<1>9. UserForgotten'
  <2> SUFFICES ASSUME NEW c \in Conns \ late', conn[c] = "closed", ctx[c] # NoUid
               PROVE  m_users'[ctx[c]] # c
      BY <1>1 DEF UserForgotten, closing
  <2>1. ctx[c] \in Uids /\ c \notin late  BY <1>5 DEF GInv, TableOK
  <2>2. c # hconn  BY <1>1
  <2>3. m_users[ctx[c]] # c  BY <2>1 DEF GInv, UserForgotten
  <2> QED BY <1>3, <2>1, <2>2, <2>3
<1>10. LostOnlyByOtherClose'
  <2> SUFFICES ASSUME NEW u \in Uids, last'[u] # NoConn
               PROVE  m_users'[u] = last'[u] \/ \E c \in Conns : conn[c] = "closed" /\ closeUid[c] = u
      BY <1>1 DEF LostOnlyByOtherClose, closing
  <2>1. CASE u = huid  BY <1>3, <2>1
  <2>2. CASE u # huid  BY <1>3, <2>2 DEF GInv, LostOnlyByOtherClose
  <2> QED BY <2>1, <2>2
<1>11. EntryOK'
  <2> SUFFICES ASSUME NEW u \in Uids, m_users'[u] \in Conns
               PROVE  ctx[m_users'[u]] # NoUid \/ hconn = m_users'[u]
      BY <1>1 DEF EntryOK, request
  <2>1. CASE u = huid  BY <1>3, <2>1
  <2>2. CASE u # huid  BY <1>1, <1>3, <2>2 DEF GInv, EntryOK
  <2> QED BY <2>1, <2>2
<1> QED BY <1>4, <1>6, <1>7, <1>8, <1>9, <1>10, <1>11 DEF GInv

(* SetClient writes the context: again the connection is open, or late. *)
LEMMA SetContextStep == ASSUME GInv, SetContext PROVE GInv'
<1>1. /\ hpc = "context" /\ ctx' = [ctx EXCEPT ![hconn] = huid]
      /\ late' = (IF conn[hconn] = "open" THEN late ELSE late \cup {hconn})
      /\ hpc' \in {"reply", "idle"}
      /\ UNCHANGED <<m_users, closing, queue, request, deleting, accounts, crashed, last>>
      BY DEF SetContext, At, NoteLate
<1>2. hconn \in Conns /\ huid \in Uids  BY <1>1 DEF GInv, RequestOK
<1>3. /\ ctx' \in [Conns -> Uids \cup {NoUid}] /\ \A c \in Conns \ {hconn} : ctx'[c] = ctx[c]
      /\ late' \subseteq Conns /\ late \subseteq late' /\ (conn[hconn] # "open" => hconn \in late')
      BY <1>1, <1>2 DEF GInv, TableOK
<1>4. RequestOK'
  <2>1. hpc' = "reply" => hconn' \in Conns  BY <1>1, <1>2 DEF request
  <2> QED BY <1>1, <2>1 DEF GInv, RequestOK, request, Labels
<1>5. QueueOK' /\ AccountsOK' /\ KickOK'  BY <1>1 DEF GInv, QueueOK, AccountsOK, KickOK, request
<1>6. TableOK'  BY <1>1, <1>3 DEF GInv, TableOK, closing
<1>7. CloseOK' /\ UserForgotten'
  <2> SUFFICES ASSUME NEW c \in Conns \ late'
               PROVE  /\ conn[c] = "forgetting" => closeUid[c] = ctx'[c]
                      /\ conn[c] = "closed" /\ ctx'[c] # NoUid => m_users[ctx'[c]] # c
      BY <1>1 DEF CloseOK, UserForgotten, closing
  <2>1. CASE c = hconn  BY <1>3, <2>1
  <2>2. CASE c # hconn  BY <1>3, <2>2 DEF GInv, CloseOK, UserForgotten
  <2> QED BY <2>1, <2>2
<1>8. LostOnlyByOtherClose'  BY <1>1 DEF GInv, LostOnlyByOtherClose, closing
<1>9. EntryOK'
  <2> SUFFICES ASSUME NEW u \in Uids, m_users[u] \in Conns PROVE ctx'[m_users[u]] # NoUid
      BY <1>1 DEF EntryOK
  <2>1. CASE m_users[u] = hconn
    <3>1. ctx'[hconn] = huid  BY <1>1, <1>2 DEF GInv, TableOK
    <3> QED BY <1>2, <2>1, <3>1
  <2>2. CASE m_users[u] # hconn  BY <1>3, <2>2 DEF GInv, EntryOK
  <2> QED BY <2>1, <2>2
<1> QED BY <1>4, <1>5, <1>6, <1>7, <1>8, <1>9 DEF GInv

LEMMA DelClientStep == ASSUME GInv, DelClient PROVE GInv'
<1>1. /\ hpc = "forget" /\ m_users' = [m_users EXCEPT ![huid] = NoConn]
      /\ last' = [last EXCEPT ![huid] = NoConn] /\ hpc' = "idle"
      /\ UNCHANGED <<ctx, closing, queue, request, deleting, accounts, crashed, late>>
      BY DEF DelClient, At
<1>2. huid \in Uids  BY <1>1 DEF GInv, RequestOK
<1>3. /\ m_users' \in [Uids -> Conns \cup {NoConn}] /\ last' \in [Uids -> Conns \cup {NoConn}]
      /\ m_users'[huid] = NoConn /\ last'[huid] = NoConn
      /\ \A u \in Uids \ {huid} : m_users'[u] = m_users[u] /\ last'[u] = last[u]
      BY <1>1, <1>2 DEF GInv, TableOK
<1>4. RequestOK' /\ QueueOK' /\ KickOK'  BY <1>1 DEF GInv, RequestOK, QueueOK, KickOK, request, Labels
<1>5. TableOK'  BY <1>1, <1>3 DEF GInv, TableOK, closing
<1>6. AccountsOK'  BY <1>1, <1>3 DEF GInv, AccountsOK, request
<1>7. CloseOK'  BY <1>1 DEF GInv, CloseOK, closing
<1>8. UserForgotten'
  <2> SUFFICES ASSUME NEW c \in Conns \ late, conn[c] = "closed", ctx[c] # NoUid
               PROVE  m_users'[ctx[c]] # c
      BY <1>1 DEF UserForgotten, closing
  <2>1. ctx[c] \in Uids /\ m_users[ctx[c]] # c  BY DEF GInv, TableOK, UserForgotten
  <2> QED BY <1>3, <2>1
<1>9. LostOnlyByOtherClose'  BY <1>1, <1>3 DEF GInv, LostOnlyByOtherClose, closing
<1>10. EntryOK'
  <2> SUFFICES ASSUME NEW u \in Uids, m_users'[u] \in Conns PROVE ctx[m_users'[u]] # NoUid
      BY <1>1 DEF EntryOK
  <2>1. u # huid  BY <1>3
  <2> QED BY <1>1, <1>3, <2>1 DEF GInv, EntryOK
<1> QED BY <1>4, <1>5, <1>6, <1>7, <1>8, <1>9, <1>10 DEF GInv

-----------------------------------------------------------------------------
LEMMA GInit == Init => GInv
<1> SUFFICES ASSUME Init PROVE GInv  OBVIOUS
<1>1. RequestOK /\ KickOK  BY DEF Init, RequestOK, KickOK, Labels
<1>2. TableOK  BY DEF Init, TableOK, States
<1>3. QueueOK
  <2>1. <<>> \in Seq(Requests) /\ Len(<<>>) = 0  BY EmptySeq
  <2> QED BY <2>1 DEF Init, QueueOK
<1>4. AccountsOK
  <2>1. Len(queue) = 0  BY EmptySeq DEF Init
  <2> QED BY <2>1 DEF Init, AccountsOK
<1>5. CloseOK /\ UserForgotten /\ EntryOK /\ LostOnlyByOtherClose
      BY DEF Init, CloseOK, UserForgotten, EntryOK, LostOnlyByOtherClose
<1> QED BY <1>1, <1>2, <1>3, <1>4, <1>5 DEF GInv

LEMMA GNext == GInv /\ [Next]_vars => GInv'
<1> SUFFICES ASSUME GInv, [Next]_vars PROVE GInv'  OBVIOUS
<1>1. CASE \E r \in Requests : Arrive(r)  BY <1>1, ArriveStep
<1>2. CASE \E c \in Conns : Close(c)  BY <1>2, CloseStep
<1>3. CASE TakeInput  BY <1>3, TakeInputStep
<1>4. CASE Login
  <2>1. CASE \E u \in Uids : Register(u)  BY <2>1, RegisterStep
  <2>2. CASE RegisterFails
    <3>1. hconn \in Conns /\ Write(hconn, "idle") /\ hpc = "register"  BY <2>2 DEF RegisterFails, At, GInv, RequestOK
    <3> QED BY <3>1, WriteStep
  <2>3. CASE Kick
    <3>1. target \in Conns /\ Write(target, "set") /\ hpc = "kick"  BY <2>3 DEF Kick, At, GInv, RequestOK
    <3> QED BY <3>1, WriteStep
  <2>4. CASE Reply
    <3>1. hconn \in Conns /\ Write(hconn, "idle") /\ hpc = "reply"  BY <2>4 DEF Reply, At, GInv, RequestOK
    <3> QED BY <3>1, WriteStep
  <2> QED BY <1>4, <2>1, <2>2, <2>3, <2>4, LookupStep, SetClientStep, SetContextStep, ReplyFailsStep DEF Login
<1>5. CASE Bye
  <2>1. hconn \in Conns /\ Write(hconn, "forget") /\ hpc = "bye"  BY <1>5 DEF Bye, At, GInv, RequestOK
  <2> QED BY <2>1, WriteStep
<1>6. CASE Send
  <2>1. target \in Conns /\ Write(target, "idle") /\ hpc = "send"  BY <1>6 DEF Send, At, GInv, RequestOK
  <2> QED BY <2>1, WriteStep
<1>7. CASE UNCHANGED vars
  <2>1. RequestOK' /\ TableOK' /\ QueueOK' /\ AccountsOK' /\ KickOK'
        BY <1>7 DEF GInv, RequestOK, TableOK, QueueOK, AccountsOK, KickOK, vars, table, closing, request
  <2>2. CloseOK' /\ UserForgotten' /\ EntryOK' /\ LostOnlyByOtherClose'
        BY <1>7 DEF GInv, CloseOK, UserForgotten, EntryOK, LostOnlyByOtherClose, vars, table, closing, request
  <2> QED BY <2>1, <2>2 DEF GInv
<1> QED BY <1>1, <1>2, <1>3, <1>4, <1>5, <1>6, <1>7, DelClientStep, GetClientStep DEF Next

(* Three steps write the table. *)
LEMMA TableWriters ==
  ASSUME [Next]_vars
  PROVE  SetClient \/ DelClient \/ (\E c \in Conns : CloseDeletes(c)) \/ UNCHANGED m_users
<1>1. ASSUME NEW c \in Conns, Close(c) PROVE CloseDeletes(c) \/ UNCHANGED m_users
      BY <1>1 DEF Close, Del, CloseReads, CloseReadsTorn, table
<1>2. ASSUME NEW c, NEW next, Write(c, next) PROVE UNCHANGED m_users
      BY <1>2 DEF Write, table
<1>3. CASE Login
  <2>1. RegisterFails \/ Kick \/ Reply => UNCHANGED m_users  BY <1>2 DEF RegisterFails, Kick, Reply
  <2>2. (\E u \in Uids : Register(u)) => UNCHANGED m_users  BY DEF Register, table
  <2>3. Lookup \/ SetContext \/ ReplyFails => UNCHANGED m_users
        BY DEF Lookup, SetContext, ReplyFails, table
  <2> QED BY <1>3, <2>1, <2>2, <2>3 DEF Login
<1>4. Bye \/ Send => UNCHANGED m_users  BY <1>2 DEF Bye, Send
<1>5. TakeInput \/ GetClient \/ UNCHANGED vars => UNCHANGED m_users
      BY DEF TakeInput, GetClient, vars, table
<1>6. (\E r \in Requests : Arrive(r)) => UNCHANGED m_users  BY DEF Arrive, table
<1> QED BY <1>1, <1>3, <1>4, <1>5, <1>6 DEF Next

LEMMA GInvariance == Spec => []GInv
BY GInit, GNext, PTL DEF Spec

(* The variables keep their types; in particular nobody is kicked but another connection. *)
THEOREM GateTypes == Spec => []TypeOK
<1>1. GInv => TypeOK  BY DEF GInv, RequestOK, TableOK, QueueOK, TypeOK, Labels, States
<1> QED BY GInvariance, <1>1, PTL

(* MyGate.Close takes out the user in the context, so an entry that leads to  *)
(* a closed connection is of a user it logged in as before its last login, or *)
(* of one whose login was handled after Del.                                  *)
THEOREM ClosedIsForgotten == Spec => []CloseForgets
<1>1. GInv => CloseForgets
  <2> SUFFICES ASSUME GInv, NEW c \in Conns \ late, NEW u \in Uids,
                      conn[c] = "closed", m_users[u] = c, hpc # "context"
               PROVE  ctx[c] \in Uids \ {u}
      BY DEF CloseForgets
  <2>1. ctx[c] # NoUid /\ ctx[c] \in Uids \cup {NoUid}  BY DEF GInv, EntryOK, TableOK
  <2>2. ctx[c] # u  BY <2>1 DEF GInv, UserForgotten
  <2> QED BY <2>1, <2>2
<1> QED BY GInvariance, <1>1, PTL

(* Only the deletion of another connection of the user takes a login out of the table. *)
THEOREM LoginLostOnlyByOther == Spec => []LostOnlyByOtherClose
<1>1. GInv => LostOnlyByOtherClose  BY DEF GInv
<1> QED BY GInvariance, <1>1, PTL

(* A login takes the place only of the connection that it has tried to kick (login). *)
THEOREM ReplacedAfterKick == Spec => ReplacedWasKicked
<1>1. GInv /\ [Next]_vars =>
        [\A u \in Uids :
           /\ m_users[u] # m_users'[u]
           /\ m_users[u] # NoConn
           /\ m_users'[u] # NoConn
           => target = m_users[u]]_vars
  <2> SUFFICES ASSUME GInv, [Next]_vars, NEW u \in Uids,
                      m_users[u] # m_users'[u], m_users[u] # NoConn, m_users'[u] # NoConn
               PROVE  target = m_users[u]
      OBVIOUS
  <2>1. CASE SetClient
    <3>1. hpc = "set" /\ m_users' = [m_users EXCEPT ![huid] = hconn]  BY <2>1 DEF SetClient, At
    <3>2. u = huid  BY <3>1 DEF GInv, TableOK
    <3> QED BY <3>1, <3>2 DEF GInv, KickOK
  <2>2. ASSUME NEW c \in Conns, CloseDeletes(c) PROVE FALSE
    <3>1. m_users' = [m_users EXCEPT ![closeUid[c]] = NoConn]  BY <2>2 DEF CloseDeletes
    <3> QED BY <3>1 DEF GInv, TableOK
  <2>3. CASE DelClient
    <3>1. m_users' = [m_users EXCEPT ![huid] = NoConn]  BY <2>3 DEF DelClient
    <3> QED BY <3>1 DEF GInv, TableOK
  <2>4. CASE UNCHANGED m_users  BY <2>4
  <2> QED BY <2>1, <2>2, <2>3, <2>4, TableWriters
<1> QED BY GInvariance, <1>1, PTL DEF Spec, ReplacedWasKicked
=============================================================================
