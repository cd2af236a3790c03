------------------------------ MODULE Registry ------------------------------
(***************************************************************************)
(* How servers find each other: third/etcd.go, whose map of server ids to  *)
(* addresses GetServer dials from, and third/grpc.go, which keeps a client *)
(* connection per service.                                                 *)
(*                                                                         *)
(* etcd is external: a store, and the log of its puts and deletes that a   *)
(* watch delivers in order from the moment it starts.  Both files read the *)
(* store first and start a goroutine that watches, so what happens between *)
(* the two is missed; etcd.go watches also when its read has failed, and   *)
(* never reads again.  A watch that breaks off is one that takes no more   *)
(* steps.  third.Put has no lease: the entry of a server that crashes      *)
(* stays.  Register of grpc.go has one.  A process uses one of the two     *)
(* files (core uses etcd.go, nothing uses grpc.go yet).                    *)
(***************************************************************************)
EXTENDS Integers, Sequences, FiniteSets

CONSTANTS
    Keys,          \* server ids, service keys
    Addrs,
    Self,          \* the address of the observing process itself
    NoAddr,
    MaxLog         \* bound: puts and deletes in etcd

ASSUME RegistryAssumption == NoAddr \notin Addrs /\ Self \in Addrs /\ MaxLog \in Nat

VARIABLES
    log,           \* etcd: the changes, [key, addr], NoAddr for a delete
    mapRead, mapFrom, mapAt,     \* etcd.go: length of log at the read (0 when it failed, as if
                                 \*   of an empty store), at the watch, consumed
    serverMap,
    svcRead, svcFrom, svcAt,     \* grpc.go, the same; -1 before the step
    servers, clients,            \* GRPCServer; clients: key -> [addr, open]
    stopAt, watching,            \* Stop has run at this length of log; the watch has not seen it
    leaked                       \* a connection was made after Stop

etcdGo == <<mapRead, mapFrom, mapAt, serverMap>>
grpcGo == <<svcRead, svcFrom, svcAt, servers, clients, stopAt, watching, leaked>>
registryVars   == <<log, etcdGo, grpcGo>>

stopped == stopAt >= 0
NoClient == [addr |-> NoAddr, open |-> FALSE]

(* What the store holds after the first n changes. *)
Store(n) ==
    [k \in Keys |->
        LET at == {i \in 1 .. n : log[i].key = k} IN
        IF at = {} THEN NoAddr ELSE log[CHOOSE i \in at : \A j \in at : j <= i].addr]

RegistryInit ==
    /\ log = <<>>
    /\ mapRead = -1 /\ mapFrom = -1 /\ mapAt = -1 /\ serverMap = [k \in Keys |-> NoAddr]
    /\ svcRead = -1 /\ svcFrom = -1 /\ svcAt = -1
    /\ servers = [k \in Keys |-> NoAddr] /\ clients = [k \in Keys |-> NoClient]
    /\ stopAt = -1 /\ watching = FALSE /\ leaked = FALSE

(* Servers come and go.  (Put of what is there already changes nothing that is kept here.) *)
Change(k, a) ==
    /\ Len(log) < MaxLog /\ Store(Len(log))[k] # a
    /\ log' = Append(log, [key |-> k, addr |-> a])
    /\ UNCHANGED <<etcdGo, grpcGo>>

Put(k)      == \E a \in Addrs \ {Self} : Change(k, a)
Del(k)      == Change(k, NoAddr)                  \* or the lease of Register ends
Register(k) == Change(k, Self)

-----------------------------------------------------------------------------
(* etcd.go: init_client reads the servers, then starts watch.  When client.Get fails the map *)
(* stays empty and the error is dropped.                                                   *)
get_configs ==
    /\ svcRead = -1 /\ ~stopped
    /\ mapRead = -1
    /\ \E n \in {0, Len(log)} : mapRead' = n /\ serverMap' = Store(n)
    /\ UNCHANGED <<log, mapFrom, mapAt, grpcGo>>

watchStarts ==
    /\ mapRead >= 0 /\ mapFrom = -1 /\ mapFrom' = Len(log) /\ mapAt' = Len(log)
    /\ UNCHANGED <<log, mapRead, serverMap, grpcGo>>

watch ==
    /\ mapFrom >= 0 /\ mapAt < Len(log) /\ mapAt' = mapAt + 1
    /\ serverMap' = [serverMap EXCEPT ![log[mapAt + 1].key] = log[mapAt + 1].addr]
    /\ UNCHANGED <<log, mapRead, mapFrom, grpcGo>>

-----------------------------------------------------------------------------
(* grpc.go.  addService and removeService on [servers, clients, leaked]. *)
Services == [servers |-> servers, clients |-> clients, leaked |-> leaked]

removeService(s, k) ==
    [s EXCEPT !.servers[k] = NoAddr, !.clients[k] = NoClient]

(* Mutant: the connection to the old address stays. *)
addServiceKeepsOld(s, k, a, ok) ==
    IF a = Self \/ s.servers[k] = a \/ ~ok THEN s
    ELSE [s EXCEPT !.servers[k] = a, !.leaked = @ \/ stopped,
                   !.clients[k] = IF @.open THEN @ ELSE [addr |-> a, open |-> TRUE]]

(* An address that is not new is left alone; otherwise the old connection is closed, and    *)
(* the entry changes only if the new one can be made.                                       *)
addService(s, k, a, ok) ==
    IF a = Self \/ s.servers[k] = a THEN s
    ELSE IF ok THEN [s EXCEPT !.servers[k] = a, !.clients[k] = [addr |-> a, open |-> TRUE],
                              !.leaked = @ \/ stopped]
    ELSE [s EXCEPT !.clients[k] = IF s.servers[k] # NoAddr THEN NoClient ELSE @]

Become(s) == servers' = s.servers /\ clients' = s.clients /\ leaked' = s.leaked

(* The services that are there, one addService each. *)
WatchServices ==
    /\ mapRead = -1 /\ svcRead = -1 /\ ~stopped
    /\ LET now   == Store(Len(log))
           there == {k \in Keys : now[k] \notin {NoAddr, Self}}
       IN  \E made \in SUBSET there :
              /\ servers' = [k \in Keys |-> IF k \in made THEN now[k] ELSE NoAddr]
              /\ clients' = [k \in Keys |-> IF k \in made THEN [addr |-> now[k], open |-> TRUE]
                                            ELSE NoClient]
    /\ svcRead' = Len(log)
    /\ UNCHANGED <<log, etcdGo, svcFrom, svcAt, stopAt, watching, leaked>>

watchServicesStarts ==
    /\ svcRead >= 0 /\ svcFrom = -1
    /\ svcFrom' = Len(log) /\ svcAt' = Len(log) /\ watching' = TRUE
    /\ UNCHANGED <<log, etcdGo, svcRead, servers, clients, stopAt, leaked>>

(* select takes either channel when both are ready: what came before Stop may be handled    *)
(* after it.                                                                               *)
watchServices ==
    /\ watching /\ svcAt < (IF stopped THEN stopAt ELSE Len(log)) /\ svcAt' = svcAt + 1
    /\ LET e == log[svcAt + 1] IN
       \E ok \in BOOLEAN :
          Become(IF e.addr = NoAddr THEN removeService(Services, e.key)
                                    ELSE addService(Services, e.key, e.addr, ok))
    /\ UNCHANGED <<log, etcdGo, svcRead, svcFrom, stopAt, watching>>

watchServicesStops ==
    /\ watching /\ stopped /\ watching' = FALSE
    /\ UNCHANGED <<log, etcdGo, svcRead, svcFrom, svcAt, servers, clients, stopAt, leaked>>

(* Stop closes the connections and leaves them in the map. *)
Stop ==
    /\ mapRead = -1 /\ ~stopped /\ stopAt' = Len(log)
    /\ clients' = [k \in Keys |-> [clients[k] EXCEPT !.open = FALSE]]
    /\ UNCHANGED <<log, etcdGo, svcRead, svcFrom, svcAt, servers, watching, leaked>>

RegistryNext ==
    \/ \E k \in Keys : Put(k) \/ Del(k) \/ Register(k)
    \/ get_configs \/ watchStarts \/ watch
    \/ WatchServices \/ watchServicesStarts \/ watchServices \/ watchServicesStops \/ Stop

RegistrySpec == RegistryInit /\ [][RegistryNext]_registryVars

-----------------------------------------------------------------------------
(* What callers see. *)
Get(svid) == serverMap[svid]
GetServices == servers
GetClient(name) == clients[name]

(* The last change of k was neither read nor watched: it came between the two, or before    *)
(* the watch when the read failed.                                                         *)
Missed(k) ==
    /\ \E i \in mapRead + 1 .. mapFrom : log[i].key = k
    /\ \A i \in mapFrom + 1 .. mapAt : log[i].key # k

(* The map of etcd.go shows for every server what etcd held when the last event the watch    *)
(* has delivered happened; but what it held at the read, and nothing when that failed, as    *)
(* long as the server's last change was missed.                                            *)
MapFollowsStore ==
    mapFrom >= 0 => \A k \in Keys :
        Get(k) = IF Missed(k) THEN Store(mapRead)[k] ELSE Store(mapAt)[k]

(* A client of grpc.go is connected to the address its service is listed with, never to     *)
(* the process itself; until Stop the clients are open, and one that is open afterwards was *)
(* made after Stop.                                                                        *)
ClientsFollowServers ==
    \A k \in Keys :
        /\ GetClient(k).addr # NoAddr =>
               GetClient(k).addr = GetServices[k] /\ GetServices[k] # Self
        /\ ~stopped /\ GetClient(k).addr # NoAddr => GetClient(k).open
        /\ stopped /\ GetClient(k).open => leaked

(* Both views of etcd that a server keeps are right up to the events they have seen. *)
ViewsFollowEtcd == MapFollowsStore /\ ClientsFollowServers
=============================================================================
