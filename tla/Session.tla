------------------------------- MODULE Session ------------------------------
(***************************************************************************)
(* Sessions between a NetServer and its NetClients (gbnet/src/server.rs,   *)
(* client.rs and, for a connection the server closes, connection/): the    *)
(* cookie and challenge handshake, keep-alive and timeouts, both sides'    *)
(* disconnect procedures, reconnection, and migration to a new address.    *)
(*                                                                         *)
(* A client is identified with the address it sends from.  The packets of  *)
(* this level carry nothing that tells one session of a client from the    *)
(* next, so a packet is just its type and the client at its other end; the *)
(* network may lose, delay, reorder and repeat it.  "Data" stands for every *)
(* packet that only an established connection accepts (Payload,            *)
(* BatchedPayload, KeepAlive, AckOnly, MtuProbe and MtuProbeAck); either   *)
(* side may send one at any time, so answers to probes are included.       *)
(*                                                                         *)
(* update() handles every packet received and then looks at every timer;   *)
(* here each packet and each timer is a step of its own, in any order.     *)
(* Timers are ages, in ticks, capped where they expire.                    *)
(*                                                                         *)
(* Left out: the rate limiter, cookies that expired and payloads over the  *)
(* size limit (the packet is dropped, as if lost); the salts, which matter *)
(* only when two random numbers coincide; connected_notified, which is set *)
(* exactly while it is not read.                                           *)
(***************************************************************************)
EXTENDS Integers, FiniteSets, Functions

CONSTANTS
  Clients,
  Configs,                  \* [cookie, migration]: enable_stateless_cookie and
                            \* enable_connection_migration
  MaxClients,               \* config.max_clients
  MaxPending,               \* config.max_pending
  ConnectionTimeout,        \* config.connection_timeout, in ticks
  RequestTimeout,           \* config.connection_request_timeout, in ticks
  DisconnectRetryTimeout,   \* config.disconnect_retry_timeout, in ticks
  DisconnectRetries,        \* config.disconnect_retries
  MigrationCooldown,        \* MIGRATION_COOLDOWN, in ticks
  MaxCalls,                 \* bound: calls of connect, reconnect, disconnect and
                            \* shutdown, on both sides
  MaxDuplicates             \* bound: packets the network delivers twice

ASSUME SessionAssumption ==
  /\ IsFiniteSet(Clients)
  /\ Configs \subseteq [cookie : BOOLEAN, migration : BOOLEAN]
  /\ MaxClients \in Nat \ {0}
  /\ MaxPending \in Nat
  /\ ConnectionTimeout \in Nat
  /\ RequestTimeout \in Nat \ {0}
  /\ DisconnectRetryTimeout \in Nat
  /\ DisconnectRetries \in Nat
  /\ MigrationCooldown \in Nat \ {0}
  /\ MaxCalls \in Nat
  /\ MaxDuplicates \in Nat

VARIABLES
  config,
  (* the clients *)
  state,                 \* client -> its ClientState
  timer,                 \* client -> age of the one timestamp its state looks at
  disconnect_retry_count,
  (* the server *)
  connections,           \* address -> [id, client, age]: who opened it, last packet
  pending,               \* address -> age
  disconnecting,         \* address -> [age, retry_count]
  migration_cooldowns,   \* connection id -> age
  (* the network *)
  to_server,             \* packets in flight, [from, type]
  to_client,             \* packets in flight, [to, type]
  duplicated,
  (* history *)
  opened,                \* how many connections the server has opened
  calls                  \* how many calls of the applications the bound counts

clientVars  == <<state, timer, disconnect_retry_count>>
serverVars  == <<connections, pending, disconnecting, migration_cooldowns, opened>>
networkVars == <<to_server, to_client, duplicated>>
vars == <<config, clientVars, serverVars, networkVars, calls>>

States == {"Connecting", "ChallengeResponse", "Connected", "Disconnecting", "Disconnected"}

ClientPackets == {"Request", "RequestWithCookie", "Response", "Disconnect", "Data"}
ServerPackets == {"Cookie", "Challenge", "Accept", "Deny", "Disconnect", "Data"}

EmptyMap     == [x \in {} |-> x]
Put(f, k, v) == [x \in DOMAIN f \cup {k} |-> IF x = k THEN v ELSE f[x]]
Drop(f, k)   == Restrict(f, DOMAIN f \ {k})

\* Ages beyond the longest timer are not told apart.
MaxAge == CHOOSE age \in {ConnectionTimeout + 1, RequestTimeout,
                          DisconnectRetryTimeout + 1, MigrationCooldown} :
            \A other \in {ConnectionTimeout + 1, RequestTimeout,
                          DisconnectRetryTimeout + 1, MigrationCooldown} : other <= age
Ages == 0 .. MaxAge
Older(age) == IF age < MaxAge THEN age + 1 ELSE age

\* A handshake begins with a call of connect or with a repeated packet.
ConnectionIds == 1 .. (MaxCalls + MaxDuplicates)

-----------------------------------------------------------------------------
(* The network *)

Server(c, type) == to_client' = to_client \cup {[to |-> c, type |-> type]}
Client(c, type) == to_server' = to_server \cup {[from |-> c, type |-> type]}

\* The packet is handled; the network may have kept a copy.
Arrives(packets, p, rest) ==
  /\ p \in packets
  /\ \/ rest = packets \ {p} /\ UNCHANGED duplicated
     \/ rest = packets /\ duplicated < MaxDuplicates /\ duplicated' = duplicated + 1

AtServer(c, type) == Arrives(to_server, [from |-> c, type |-> type], to_server')

\* A client handles a packet and answers with the packets of `sends`.
AtClient(c, type, sends) ==
  /\ Arrives(to_client, [to |-> c, type |-> type], to_client')
  /\ to_server' = to_server \cup {[from |-> c, type |-> t] : t \in sends}

LoseToServer(p) ==
  /\ p \in to_server
  /\ to_server' = to_server \ {p}
  /\ UNCHANGED <<config, clientVars, serverVars, to_client, duplicated, calls>>

LoseToClient(p) ==
  /\ p \in to_client
  /\ to_client' = to_client \ {p}
  /\ UNCHANGED <<config, clientVars, serverVars, to_server, duplicated, calls>>

-----------------------------------------------------------------------------
(* A client *)

\* NetClient::connect and NetClient::reconnect, from any state; the server is not
\* told that a former session ended.
Connect(c) ==
  /\ calls < MaxCalls
  /\ calls' = calls + 1
  /\ state' = [state EXCEPT ![c] = "Connecting"]
  /\ timer' = [timer EXCEPT ![c] = 0]
  /\ disconnect_retry_count' = [disconnect_retry_count EXCEPT ![c] = 0]
  /\ Client(c, "Request")
  /\ UNCHANGED <<config, serverVars, to_client, duplicated>>

\* NetClient::disconnect, from any state.
ClientDisconnect(c) ==
  /\ calls < MaxCalls
  /\ calls' = calls + 1
  /\ state' = [state EXCEPT ![c] = "Disconnecting"]
  /\ timer' = [timer EXCEPT ![c] = 0]
  /\ disconnect_retry_count' = [disconnect_retry_count EXCEPT ![c] = 0]
  /\ Client(c, "Disconnect")
  /\ UNCHANGED <<config, serverVars, to_client, duplicated>>

\* A client without a session reads neither its timestamps nor its retry count
\* before they are set again.
Leave(c) ==
  /\ state' = [state EXCEPT ![c] = "Disconnected"]
  /\ timer' = [timer EXCEPT ![c] = 0]
  /\ disconnect_retry_count' = [disconnect_retry_count EXCEPT ![c] = 0]

\* NetClient::shutdown, also called when the client is dropped.
ClientShutdown(c) ==
  /\ calls < MaxCalls
  /\ state[c] \in {"Connected", "Disconnecting"}
  /\ calls' = calls + 1
  /\ Leave(c)
  /\ Client(c, "Disconnect")
  /\ UNCHANGED <<config, serverVars, to_client, duplicated>>

\* update(): the handshake, or the connected server, has been silent too long.
TimedHandshakes == {"Connecting", "ChallengeResponse"}
TimedOnceConnected == {"Connected"}
TimedStates == {"Connecting", "ChallengeResponse", "Connected"}
ClientTimesOut(c) ==
  /\ state[c] \in TimedStates
  /\ timer[c] > ConnectionTimeout
  /\ Leave(c)
  /\ UNCHANGED <<config, serverVars, networkVars, calls>>

\* update() while Disconnecting: repeat the packet or give up.
RetriesOverdone(c) == disconnect_retry_count[c] > DisconnectRetries
RetriesDone(c) == disconnect_retry_count[c] >= DisconnectRetries
SameRetry(c) == disconnect_retry_count[c]
NextRetry(c) == disconnect_retry_count[c] + 1
ClientRetriesDisconnect(c) ==
  /\ state[c] = "Disconnecting"
  /\ timer[c] > DisconnectRetryTimeout
  /\ \/ /\ RetriesDone(c)
        /\ Leave(c)
        /\ UNCHANGED to_server
     \/ /\ ~RetriesDone(c)
        /\ disconnect_retry_count' = [disconnect_retry_count EXCEPT ![c] = NextRetry(c)]
        /\ timer' = [timer EXCEPT ![c] = 0]
        /\ Client(c, "Disconnect")
        /\ UNCHANGED state
  /\ UNCHANGED <<config, serverVars, to_client, duplicated, calls>>

\* Connection::update_tick: a message, a keep-alive or a probe goes out.
ClientSends(c) ==
  /\ state[c] = "Connected"
  /\ Client(c, "Data")
  /\ UNCHANGED <<config, clientVars, serverVars, to_client, duplicated, calls>>

\* handle_packet: (Connecting, ConnectionCookie)
ClientGetsCookie(c) ==
  /\ state[c] = "Connecting"
  /\ AtClient(c, "Cookie", {"RequestWithCookie"})
  /\ UNCHANGED <<config, clientVars, serverVars, calls>>

\* (Connecting | ChallengeResponse, ConnectionChallenge)
ClientGetsChallenge(c) ==
  /\ state[c] \in {"Connecting", "ChallengeResponse"}
  /\ AtClient(c, "Challenge", {"Response"})
  /\ state' = [state EXCEPT ![c] = "ChallengeResponse"]
  /\ UNCHANGED <<config, timer, disconnect_retry_count, serverVars, calls>>

\* (ChallengeResponse, ConnectionAccept)
ClientGetsAccept(c) ==
  /\ state[c] = "ChallengeResponse"
  /\ AtClient(c, "Accept", {})
  /\ state' = [state EXCEPT ![c] = "Connected"]
  /\ timer' = [timer EXCEPT ![c] = 0]
  /\ UNCHANGED <<config, disconnect_retry_count, serverVars, calls>>

\* (Connecting | ChallengeResponse, ConnectionDeny), (Connected | Disconnecting, Disconnect)
ClientIsTurnedAway(c) ==
  /\ \/ state[c] \in {"Connecting", "ChallengeResponse"} /\ AtClient(c, "Deny", {})
     \/ state[c] \in {"Connected", "Disconnecting"} /\ AtClient(c, "Disconnect", {})
  /\ Leave(c)
  /\ UNCHANGED <<config, serverVars, calls>>

\* (Connected, any data packet)
ClientGetsData(c) ==
  /\ state[c] = "Connected"
  /\ AtClient(c, "Data", {})
  /\ timer' = [timer EXCEPT ![c] = 0]
  /\ UNCHANGED <<config, state, disconnect_retry_count, serverVars, calls>>

ClientHandles(type) ==
  CASE type = "Cookie"     -> {"Connecting"}
    [] type \in {"Challenge", "Deny"} -> {"Connecting", "ChallengeResponse"}
    [] type = "Accept"     -> {"ChallengeResponse"}
    [] type = "Disconnect" -> {"Connected", "Disconnecting"}
    [] type = "Data"       -> {"Connected"}

\* (_, _) => {}
ClientIgnores(c) ==
  /\ \E type \in ServerPackets : /\ state[c] \notin ClientHandles(type)
                                 /\ AtClient(c, type, {})
  /\ UNCHANGED <<config, clientVars, serverVars, calls>>

-----------------------------------------------------------------------------
(* The server *)

PendingOverfull == Cardinality(DOMAIN pending) > MaxPending
PendingFull == Cardinality(DOMAIN pending) >= MaxPending
ServerFull  == Cardinality(DOMAIN connections) >= MaxClients

\* The second half of both request handlers: challenge the client again, ignore
\* it, deny it, or remember it and challenge it.
AdmitOrDeny(c) ==
  \/ /\ c \in DOMAIN pending
     /\ Server(c, "Challenge")
     /\ UNCHANGED pending
  \/ /\ c \notin DOMAIN pending
     /\ PendingFull
     /\ UNCHANGED <<pending, to_client>>
  \/ /\ c \notin DOMAIN pending
     /\ ~PendingFull
     /\ ServerFull
     /\ Server(c, "Deny")
     /\ UNCHANGED pending
  \/ /\ c \notin DOMAIN pending
     /\ ~PendingFull
     /\ ~ServerFull
     /\ Server(c, "Challenge")
     /\ pending' = Put(pending, c, 0)

\* handle_server_packet: ConnectionRequest
ServerGetsRequest(c) ==
  /\ AtServer(c, "Request")
  /\ \/ c \in DOMAIN connections /\ Server(c, "Accept") /\ UNCHANGED pending
     \/ c \notin DOMAIN connections /\ config.cookie /\ Server(c, "Cookie") /\ UNCHANGED pending
     \/ c \notin DOMAIN connections /\ ~config.cookie /\ AdmitOrDeny(c)
  /\ UNCHANGED <<config, clientVars, connections, disconnecting, migration_cooldowns,
                 opened, calls>>

\* ConnectionRequestWithCookie
ServerGetsCookie(c) ==
  /\ AtServer(c, "RequestWithCookie")
  /\ \/ c \in DOMAIN connections /\ Server(c, "Accept") /\ UNCHANGED pending
     \/ c \notin DOMAIN connections /\ AdmitOrDeny(c)
  /\ UNCHANGED <<config, clientVars, connections, disconnecting, migration_cooldowns,
                 opened, calls>>

\* ConnectionResponse: max_clients is not looked at again.  A client salt that is
\* zero or happens to equal the server's is denied.
Answered(c) == Drop(pending, c)
ServerGetsResponse(c) ==
  /\ AtServer(c, "Response")
  /\ \/ /\ c \in DOMAIN connections
        /\ Server(c, "Accept")
        /\ UNCHANGED <<connections, pending, opened>>
     \/ /\ c \notin DOMAIN connections
        /\ c \in DOMAIN pending
        /\ pending' = Answered(c)
        /\ Server(c, "Deny")
        /\ UNCHANGED <<connections, opened>>
     \/ /\ c \notin DOMAIN connections
        /\ c \in DOMAIN pending
        /\ pending' = Answered(c)
        /\ Server(c, "Accept")
        /\ opened' = opened + 1
        /\ connections' = Put(connections, c, [id |-> opened + 1, client |-> c, age |-> 0])
     \/ /\ c \notin DOMAIN connections
        /\ c \notin DOMAIN pending
        /\ UNCHANGED <<connections, pending, opened, to_client>>
  /\ UNCHANGED <<config, clientVars, disconnecting, migration_cooldowns, calls>>

\* Disconnect
ServerGetsDisconnect(c) ==
  /\ AtServer(c, "Disconnect")
  /\ \/ /\ c \in DOMAIN connections
        /\ connections' = Drop(connections, c)
        /\ Server(c, "Disconnect")
     \/ /\ c \notin DOMAIN connections
        /\ UNCHANGED <<connections, to_client>>
  /\ UNCHANGED <<config, clientVars, pending, disconnecting, migration_cooldowns,
                 opened, calls>>

\* try_migrate: any connection not migrated recently (the sequence check accepts
\* every number: a sequence_diff is never above 32768).
MayMigrate(a) == connections[a].id \notin DOMAIN migration_cooldowns

Touched(a) == [connections[a] EXCEPT !.age = 0]
Copied(a, c, conn) == Put(connections, c, conn)
Moved(a, c, conn) == Put(Drop(connections, a), c, conn)

\* Payload, and the other packets of an established connection; these are ignored
\* at an address without one, where a Payload moves a connection to it. A Payload over
\* max_message_size is dropped then, before the connection is touched.
ServerGetsData(c) ==
  /\ AtServer(c, "Data")
  /\ \/ /\ c \in DOMAIN connections
        /\ \/ connections' = Put(connections, c, Touched(c))
           \/ UNCHANGED connections
        /\ UNCHANGED migration_cooldowns
     \/ /\ c \notin DOMAIN connections
        /\ config.migration
        /\ \E a \in DOMAIN connections :
             /\ MayMigrate(a)
             /\ \E conn \in {Touched(a), connections[a]} : connections' = Moved(a, c, conn)
             /\ migration_cooldowns' = Put(migration_cooldowns, connections[a].id, 0)
     \/ /\ c \notin DOMAIN connections
        /\ UNCHANGED <<connections, migration_cooldowns>>
  /\ UNCHANGED <<config, clientVars, pending, disconnecting, opened, to_client, calls>>

\* update(): Connection::update_tick finds the client silent for too long, ...
TimesOut(a) == connections[a].age > ConnectionTimeout
ServerTimesOut(a) ==
  /\ a \in DOMAIN connections
  /\ TimesOut(a)
  /\ connections' = Drop(connections, a)
  /\ UNCHANGED <<config, clientVars, pending, disconnecting, migration_cooldowns,
                 opened, networkVars, calls>>

\* ... or queues messages, keep-alives and probes, which update sends.
ServerSends(a) ==
  /\ a \in DOMAIN connections
  /\ Server(a, "Data")
  /\ UNCHANGED <<config, clientVars, serverVars, to_server, duplicated, calls>>

\* update(): challenges not answered in time, and cooldowns over, are forgotten.
PendingExpires(a) ==
  /\ a \in DOMAIN pending
  /\ pending[a] >= RequestTimeout
  /\ pending' = Drop(pending, a)
  /\ UNCHANGED <<config, clientVars, connections, disconnecting, migration_cooldowns,
                 opened, networkVars, calls>>

CooldownEnds(id) ==
  /\ id \in DOMAIN migration_cooldowns
  /\ migration_cooldowns[id] >= MigrationCooldown
  /\ migration_cooldowns' = Drop(migration_cooldowns, id)
  /\ UNCHANGED <<config, clientVars, connections, pending, disconnecting,
                 opened, networkVars, calls>>

\* NetServer::disconnect: the connection says goodbye and is kept apart.
ServerDisconnect(a) ==
  /\ calls < MaxCalls
  /\ a \in DOMAIN connections
  /\ calls' = calls + 1
  /\ connections' = Drop(connections, a)
  /\ disconnecting' = Put(disconnecting, a, [age |-> 0, retry_count |-> 0])
  /\ Server(a, "Disconnect")
  /\ UNCHANGED <<config, clientVars, pending, migration_cooldowns, opened,
                 to_server, duplicated>>

\* Connection::update of a connection kept apart: repeat the packet or give up.
ServerRetriesDisconnect(a) ==
  /\ a \in DOMAIN disconnecting
  /\ disconnecting[a].age > DisconnectRetryTimeout
  /\ \/ /\ disconnecting[a].retry_count >= DisconnectRetries
        /\ disconnecting' = Drop(disconnecting, a)
        /\ UNCHANGED to_client
     \/ /\ disconnecting[a].retry_count < DisconnectRetries
        /\ disconnecting' = [disconnecting EXCEPT
             ![a] = [age |-> 0, retry_count |-> @.retry_count + 1]]
        /\ Server(a, "Disconnect")
  /\ UNCHANGED <<config, clientVars, connections, pending, migration_cooldowns, opened,
                 to_server, duplicated, calls>>

\* Its receive_packets reads the server's socket, and may be the one to find the
\* client's Disconnect there.
DisconnectAnswered(a) ==
  /\ a \in DOMAIN disconnecting
  /\ AtServer(a, "Disconnect")
  /\ disconnecting' = Drop(disconnecting, a)
  /\ UNCHANGED <<config, clientVars, connections, pending, migration_cooldowns, opened,
                 to_client, calls>>

-----------------------------------------------------------------------------
Tick ==
  /\ timer' = [c \in Clients |-> IF state[c] = "Disconnected" THEN 0 ELSE Older(timer[c])]
  /\ connections' = [a \in DOMAIN connections |->
                       [connections[a] EXCEPT !.age = Older(@)]]
  /\ pending' = [a \in DOMAIN pending |-> Older(pending[a])]
  /\ disconnecting' = [a \in DOMAIN disconnecting |->
                         [disconnecting[a] EXCEPT !.age = Older(@)]]
  /\ migration_cooldowns' = [i \in DOMAIN migration_cooldowns |->
                               Older(migration_cooldowns[i])]
  /\ UNCHANGED <<config, state, disconnect_retry_count, opened, networkVars, calls>>

Init ==
  /\ config \in Configs
  /\ state = [c \in Clients |-> "Disconnected"]
  /\ timer = [c \in Clients |-> 0]
  /\ disconnect_retry_count = [c \in Clients |-> 0]
  /\ connections = EmptyMap
  /\ pending = EmptyMap
  /\ disconnecting = EmptyMap
  /\ migration_cooldowns = EmptyMap
  /\ to_server = {}
  /\ to_client = {}
  /\ duplicated = 0
  /\ opened = 0
  /\ calls = 0

ClientNext(c) ==
  \/ Connect(c) \/ ClientDisconnect(c) \/ ClientShutdown(c)
  \/ ClientTimesOut(c) \/ ClientRetriesDisconnect(c) \/ ClientSends(c)
  \/ ClientGetsCookie(c) \/ ClientGetsChallenge(c) \/ ClientGetsAccept(c)
  \/ ClientIsTurnedAway(c) \/ ClientGetsData(c) \/ ClientIgnores(c)

ServerNext(c) ==
  \/ ServerGetsRequest(c) \/ ServerGetsCookie(c) \/ ServerGetsResponse(c)
  \/ ServerGetsDisconnect(c) \/ ServerGetsData(c)
  \/ ServerTimesOut(c) \/ ServerSends(c) \/ PendingExpires(c)
  \/ ServerDisconnect(c) \/ ServerRetriesDisconnect(c) \/ DisconnectAnswered(c)

Next ==
  \/ \E c \in Clients : ClientNext(c) \/ ServerNext(c)
  \/ \E id \in DOMAIN migration_cooldowns : CooldownEnds(id)
  \/ \E p \in to_server : LoseToServer(p)
  \/ \E p \in to_client : LoseToClient(p)
  \/ Tick

Spec == Init /\ [][Next]_vars

\* Both programs call update() every tick and the clock does not stop.  Nothing is
\* assumed of the network or of the applications.
Fairness ==
  /\ WF_vars(Tick)
  /\ \A c \in Clients :
       /\ WF_vars(ClientTimesOut(c))
       /\ WF_vars(ClientRetriesDisconnect(c))
       /\ WF_vars(ServerTimesOut(c))
       /\ WF_vars(PendingExpires(c))
       /\ WF_vars(ServerRetriesDisconnect(c))

FairSpec == Spec /\ Fairness

-----------------------------------------------------------------------------
(* Properties *)

TypeOK ==
  /\ config \in Configs
  /\ state \in [Clients -> States]
  /\ timer \in [Clients -> Ages]
  /\ disconnect_retry_count \in [Clients -> 0 .. DisconnectRetries]
  /\ DOMAIN connections \subseteq Clients
  /\ connections \in [DOMAIN connections -> [id : ConnectionIds, client : Clients, age : Ages]]
  /\ DOMAIN pending \subseteq Clients
  /\ pending \in [DOMAIN pending -> Ages]
  /\ DOMAIN disconnecting \subseteq Clients
  /\ disconnecting \in [DOMAIN disconnecting ->
                          [age : Ages, retry_count : 0 .. DisconnectRetries]]
  /\ DOMAIN migration_cooldowns \subseteq ConnectionIds
  /\ migration_cooldowns \in [DOMAIN migration_cooldowns -> Ages]
  /\ to_server \subseteq [from : Clients, type : ClientPackets]
  /\ to_client \subseteq [to : Clients, type : ServerPackets]
  /\ duplicated \in 0 .. MaxDuplicates
  /\ opened \in {0} \cup ConnectionIds
  /\ calls \in 0 .. MaxCalls

\* How far the server can exceed max_clients: it admits a client to the challenge
\* only while it has room for one, and challenges max_pending clients at a time.
AdmissionBounded ==
  /\ Cardinality(DOMAIN pending) <= MaxPending
  /\ Cardinality(DOMAIN connections) + Cardinality(DOMAIN pending)
       <= MaxClients - 1 + MaxPending

\* The server's tables agree: no connection is at two addresses, however it moved; and a
\* client the server has a connection for is not also being challenged, unless a
\* connection moved to its address in between, as the handlers of the two requests and
\* of the response never run a second handshake beside an open connection.
ServerTablesAgree ==
  /\ \A a, b \in DOMAIN connections : connections[a].id = connections[b].id => a = b
  /\ ~config.migration => DOMAIN connections \cap DOMAIN pending = {}

\* A connection moves only to another address of the client that opened it; here a
\* client has one address, so it never moves.
MigrationKeepsClient == \A a \in DOMAIN connections : connections[a].client = a

\* A client that believes to be connected while the server has no connection for it
\* finds out; and a connection of a client that has gone, or did not learn that it was
\* accepted, does not take up one of max_clients for ever.
HalfOpenEnds ==
  \A c \in Clients :
    /\ state[c] = "Connected" /\ c \notin DOMAIN connections
         ~> state[c] # "Connected" \/ c \in DOMAIN connections
    /\ c \in DOMAIN connections /\ state[c] # "Connected"
         ~> c \notin DOMAIN connections \/ state[c] = "Connected"

\* connect() does not leave the application waiting: a handshake ends, one way or
\* the other, even when every packet is lost.
HandshakeEnds ==
  \A c \in Clients :
    state[c] \in {"Connecting", "ChallengeResponse"}
      ~> state[c] \notin {"Connecting", "ChallengeResponse"}

\* Saying goodbye ends as well, on both sides, whether it is answered or not.
GoodbyeEnds ==
  \A c \in Clients :
    /\ state[c] = "Disconnecting" ~> state[c] # "Disconnecting"
    /\ c \in DOMAIN disconnecting ~> c \notin DOMAIN disconnecting
=============================================================================
