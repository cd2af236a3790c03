---------------------------- MODULE GateClients ----------------------------
(***************************************************************************)
(* The gate's table of logged-in users: Clients and the login, logout,     *)
(* packetOut and Close handlers of examples/gate/route.                    *)
(*                                                                         *)
(* Handlers run one after the other on the business goroutine.  Close is   *)
(* called from Poll.Del by whichever goroutine deletes the connection: the *)
(* loop, the two tickers, or the business goroutine itself when a Write    *)
(* fails.  Close and SetClient share a lock for the table but not for the  *)
(* context of the connection.                                              *)
(*                                                                         *)
(* Close is called at most once per connection (ConnLifecycle,             *)
(* CloseHeardOnce).                                                        *)
(***************************************************************************)
EXTENDS Naturals, Sequences

CONSTANTS
  Conns,     \* client connections
  Uids,      \* user ids
  QueueCap,  \* capacity of BaseLocal.queue
  NoConn, NoUid

ASSUME GateAssumption ==
  /\ NoConn \notin Conns
  /\ NoUid \notin Uids
  /\ QueueCap \in Nat \ {0}

VARIABLES
  m_users,   \* Clients.m_users: uid -> connection
  ctx,       \* Conn.ctx of each connection
  conn,      \* "open", "closing" (Del is about to call Close), "forgetting"
             \* (Close has read the context), "closed"
  closeUid,  \* what Close read from the context
  queue,     \* BaseLocal.queue
  hpc,       \* what the business goroutine does next
  hconn, huid,  \* the connection and the uid of the request it handles
  target,    \* the connection GetClient returned
  deleting,  \* the connection it is deleting itself, through a failed Write
  accounts,  \* uids db.GenUserId has handed out, now or in the past
  crashed,   \* the process died of a torn read of a context
  last,      \* history: the connection of the last SetClient of each uid
  late       \* history: connections SetClient was called with after Del

table == <<m_users, ctx>>
closing == <<conn, closeUid>>
request == <<hconn, huid, target>>
vars == <<table, closing, queue, hpc, request, deleting, accounts, crashed, last, late>>

Requests == [cmd : {"login"}, uid : Uids \cup {NoUid}, conn : Conns]
              \cup [cmd : {"logout"}, uid : Uids, conn : Conns]
              \cup [cmd : {"packetOut"}, uid : Uids, conn : {NoConn}]

\* The type invariant; nobody is kicked but another connection of the user.
TypeOK ==
  /\ m_users \in [Uids -> Conns \cup {NoConn}]
  /\ ctx \in [Conns -> Uids \cup {NoUid}]
  /\ conn \in [Conns -> {"open", "closing", "forgetting", "closed"}]
  /\ closeUid \in [Conns -> Uids \cup {NoUid}]
  /\ \A c \in Conns : conn[c] = "forgetting" => closeUid[c] \in Uids
  /\ queue \in Seq(Requests)
  /\ Len(queue) <= QueueCap
  /\ hpc \in {"idle", "register", "lookup", "kick", "set", "context", "reply",
              "bye", "forget", "get", "send"}
  /\ hconn \in Conns \cup {NoConn}
  /\ hpc \in {"register", "lookup", "kick", "set", "context", "reply", "bye"} => hconn \in Conns
  /\ huid \in Uids \cup {NoUid}
  /\ hpc \in {"lookup", "kick", "set", "context", "forget", "get"} => huid \in Uids
  /\ target \in Conns \cup {NoConn}
  /\ hpc = "kick" => target \in Conns \ {hconn}
  /\ hpc = "send" => target \in Conns
  /\ deleting \in Conns \cup {NoConn}
  /\ accounts \subseteq Uids
  /\ crashed \in BOOLEAN
  /\ last \in [Uids -> Conns \cup {NoConn}]
  /\ late \subseteq Conns

Init ==
  /\ m_users = [u \in Uids |-> NoConn]
  /\ ctx = [c \in Conns |-> NoUid]
  /\ conn = [c \in Conns |-> "open"]
  /\ closeUid = [c \in Conns |-> NoUid]
  /\ queue = <<>>
  /\ hpc = "idle"
  /\ hconn = NoConn
  /\ huid = NoUid
  /\ target = NoConn
  /\ deleting = NoConn
  /\ accounts \in SUBSET Uids
  /\ crashed = FALSE
  /\ last = [u \in Uids |-> NoConn]
  /\ late = {}
-----------------------------------------------------------------------------
\* The loop read a request from an open connection, or a PacketOut from a
\* server, and Push found room.  Users log in with uids they were given.
Arrive(r) ==
  /\ ~crashed
  /\ Len(queue) < QueueCap
  /\ r.conn # NoConn => conn[r.conn] = "open"
  /\ r.uid # NoUid => r.uid \in accounts
  /\ queue' = Append(queue, r)
  /\ UNCHANGED <<table, closing, hpc, request, deleting, accounts, crashed, last, late>>

(***************************************************************************)
(* Close, after another goroutine's Del, or the handler's own.             *)
(***************************************************************************)
Del(c) ==
  /\ ~crashed
  /\ conn[c] = "open"
  /\ conn' = [conn EXCEPT ![c] = "closing"]
  /\ UNCHANGED <<table, closeUid, queue, hpc, request, deleting, accounts, crashed, last, late>>

\* Mutant: Close only looks at the context.
CloseReadsOnly(c) ==
  /\ ~crashed
  /\ conn[c] = "closing"
  /\ closeUid' = [closeUid EXCEPT ![c] = ctx[c]]
  /\ conn' = [conn EXCEPT ![c] = "closed"]
  /\ UNCHANGED <<table, queue, hpc, request, deleting, accounts, crashed, last, late>>

\* conn.Context().(uint32): without a user Close returns.
CloseReads(c) ==
  /\ ~crashed
  /\ conn[c] = "closing"
  /\ closeUid' = [closeUid EXCEPT ![c] = ctx[c]]
  /\ conn' = [conn EXCEPT ![c] = IF ctx[c] = NoUid THEN "closed" ELSE "forgetting"]
  /\ UNCHANGED <<table, queue, hpc, request, deleting, accounts, crashed, last, late>>

\* The context is two words: a read in the middle of the first SetContext sees
\* the type without the value and dereferences nil.
CloseReadsTorn(c) ==
  /\ ~crashed
  /\ conn[c] = "closing"
  /\ hpc = "context" /\ hconn = c /\ ctx[c] = NoUid
  /\ crashed' = TRUE
  /\ UNCHANGED <<table, closing, queue, hpc, request, deleting, accounts, last, late>>

\* DelClient; SetClient holds the lock until the context is written.
CloseDeletes(c) ==
  /\ ~crashed
  /\ conn[c] = "forgetting"
  /\ hpc # "context"
  /\ m_users' = [m_users EXCEPT ![closeUid[c]] = NoConn]
  /\ conn' = [conn EXCEPT ![c] = "closed"]
  /\ UNCHANGED <<ctx, closeUid, queue, hpc, request, deleting, accounts, crashed, last, late>>
-----------------------------------------------------------------------------
(***************************************************************************)
(* The business goroutine.  While it is in Close itself it does nothing    *)
(* else.                                                                   *)
(***************************************************************************)
At(label) ==
  /\ ~crashed
  /\ hpc = label
  /\ deleting # NoConn => conn[deleting] = "closed"

\* Conn.Write: a failed one deletes the connection unless somebody else is
\* deleting it already.
Write(c, next) ==
  /\ hpc' = next
  /\ \/ conn[c] # "closed" /\ UNCHANGED <<conn, deleting>>
     \/ conn[c] # "open" /\ UNCHANGED <<conn, deleting>>
     \/ /\ conn[c] = "open"
        /\ conn' = [conn EXCEPT ![c] = "closing"]
        /\ deleting' = c
  /\ UNCHANGED <<table, closeUid, queue, request, accounts, crashed, last, late>>

TakeInput ==
  /\ At("idle")
  /\ queue # <<>>
  /\ queue' = Tail(queue)
  /\ LET r == Head(queue)
     IN  /\ hconn' = r.conn
         /\ huid' = r.uid
         /\ hpc' = CASE r.cmd = "login" /\ r.uid = NoUid -> "register"
                     [] r.cmd = "login" /\ r.uid # NoUid -> "lookup"
                     [] r.cmd = "logout" -> "bye"
                     [] r.cmd = "packetOut" -> "get"
  /\ deleting' = NoConn
  /\ target' = NoConn
  /\ UNCHANGED <<table, closing, accounts, crashed, last, late>>

\* login without a uid: a new account.
Register(u) ==
  /\ At("register")
  /\ u \notin accounts
  /\ accounts' = accounts \cup {u}
  /\ huid' = u
  /\ hpc' = "set"
  /\ UNCHANGED <<table, closing, queue, hconn, target, deleting, crashed, last, late>>

RegisterFails == At("register") /\ Write(hconn, "idle")

\* Mutants: GetClient's nil is kicked too; nobody is kicked.
LookupKicksNil ==
  /\ At("lookup")
  /\ target' = m_users[huid]
  /\ hpc' = IF m_users[huid] = hconn THEN "reply" ELSE "kick"
  /\ UNCHANGED <<table, closing, queue, hconn, huid, deleting, accounts, crashed, last, late>>

LookupNoKick ==
  /\ At("lookup")
  /\ target' = NoConn
  /\ hpc' = IF m_users[huid] = hconn THEN "reply" ELSE "set"
  /\ UNCHANGED <<table, closing, queue, hconn, huid, deleting, accounts, crashed, last, late>>

\* login with a uid: GetClient.
Lookup ==
  /\ At("lookup")
  /\ target' = m_users[huid]
  /\ hpc' = CASE m_users[huid] = hconn -> "reply"
              [] m_users[huid] = NoConn -> "set"
              [] OTHER -> "kick"
  /\ UNCHANGED <<table, closing, queue, hconn, huid, deleting, accounts, crashed, last, late>>

Kick == At("kick") /\ Write(target, "set")

\* History: the login is handled after Del of its connection.
NoteLate == late' = IF conn[hconn] = "open" THEN late ELSE late \cup {hconn}

\* SetClient: the table, and then the context.
SetClient ==
  /\ At("set")
  /\ m_users' = [m_users EXCEPT ![huid] = hconn]
  /\ last' = [last EXCEPT ![huid] = hconn]
  /\ hpc' = "context"
  /\ NoteLate
  /\ UNCHANGED <<ctx, closing, queue, request, deleting, accounts, crashed>>

\* The database may then fail and the handler return.
SetContext ==
  /\ At("context")
  /\ ctx' = [ctx EXCEPT ![hconn] = huid]
  /\ NoteLate
  /\ hpc' \in {"reply", "idle"}
  /\ UNCHANGED <<m_users, closing, queue, request, deleting, accounts, crashed, last>>

Reply == At("reply") /\ Write(hconn, "idle")

ReplyFails ==
  /\ At("reply")
  /\ hpc' = "idle"
  /\ UNCHANGED <<table, closing, queue, request, deleting, accounts, crashed, last, late>>

\* logout: the reply, then DelClient of the uid the request names.
Bye == At("bye") /\ Write(hconn, "forget")

DelClient ==
  /\ At("forget")
  /\ m_users' = [m_users EXCEPT ![huid] = NoConn]
  /\ last' = [last EXCEPT ![huid] = NoConn]
  /\ hpc' = "idle"
  /\ UNCHANGED <<ctx, closing, queue, request, deleting, accounts, crashed, late>>

\* Mutant: a user a packet was sent to is taken out of the table.
GetClientRemoves ==
  /\ At("get")
  /\ target' = m_users[huid]
  /\ m_users' = [m_users EXCEPT ![huid] = NoConn]
  /\ hpc' = IF m_users[huid] = NoConn THEN "idle" ELSE "send"
  /\ UNCHANGED <<ctx, closing, queue, hconn, huid, deleting, accounts, crashed, last, late>>

\* packetOut to one user; without a connection: "not find user".
GetClient ==
  /\ At("get")
  /\ target' = m_users[huid]
  /\ hpc' = IF m_users[huid] = NoConn THEN "idle" ELSE "send"
  /\ UNCHANGED <<table, closing, queue, hconn, huid, deleting, accounts, crashed, last, late>>

Send == At("send") /\ Write(target, "idle")
-----------------------------------------------------------------------------
Close(c) == Del(c) \/ CloseReads(c) \/ CloseReadsTorn(c) \/ CloseDeletes(c)

Login ==
  \/ \E u \in Uids : Register(u)
  \/ RegisterFails \/ Lookup \/ Kick \/ SetClient \/ SetContext \/ Reply \/ ReplyFails

Next ==
  \/ \E r \in Requests : Arrive(r)
  \/ \E c \in Conns : Close(c)
  \/ TakeInput \/ Login \/ Bye \/ DelClient \/ GetClient \/ Send

Spec == Init /\ [][Next]_vars
-----------------------------------------------------------------------------
(***************************************************************************)
(* Properties.                                                             *)
(***************************************************************************)

\* Between GetClient and SetClient the table can only lose entries: a login
\* never takes the place of a connection it has not tried to kick.
ReplacedWasKicked ==
  [][\A u \in Uids :
       /\ m_users[u] # m_users'[u]
       /\ m_users[u] # NoConn
       /\ m_users'[u] # NoConn
       => target = m_users[u]]_vars

\* Close takes out only the user in the context: an entry that leads to a
\* closed connection is of a user it logged in as before its last login, or of
\* one whose login was handled after Del or is just being handled.
CloseForgets ==
  \A c \in Conns \ late, u \in Uids :
    conn[c] = "closed" /\ m_users[u] = c => hpc = "context" \/ ctx[c] \in Uids \ {u}

\* A user who logged in on a connection that is still open is missing from
\* the table only if another connection of the same user has been deleted.
LostOnlyByOtherClose ==
  \A u \in Uids : last[u] # NoConn =>
    \/ m_users[u] = last[u]
    \/ \E c \in Conns : conn[c] = "closed" /\ closeUid[c] = u

\* m_users is commented "uid -> conn": a user who logged in on a connection
\* that is still open, and did not log out, is found.
LoggedInIsFound ==
  \A u \in Uids : last[u] # NoConn /\ conn[last[u]] = "open" => m_users[u] = last[u]
=============================================================================
