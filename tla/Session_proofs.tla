---------------------------- MODULE Session_proofs --------------------------
(***************************************************************************)
(* Theorems about Session, for any number of clients, any limits and       *)
(* timeouts, with and without cookies and migration.                       *)
(*                                                                         *)
(* What a step does to the server's tables is one of four things (see      *)
(* TableStep), which is all the bounds and the agreement of the tables     *)
(* depend on.  That connection ids stay within their type needs a count:   *)
(* every connection opened, challenge outstanding, request or cookie in    *)
(* flight goes back to a call of connect or to a packet delivered twice.   *)
(***************************************************************************)
EXTENDS Session, FiniteSetTheorems, TLAPS

\* Requests on their way to the server, and cookies on their way to a client.
Openings == {p \in to_server : p.type \in {"Request", "RequestWithCookie"}}
Cookies  == {p \in to_client : p.type = "Cookie"}

\* No handshake comes from nowhere.
HandshakesCounted ==
  opened + Cardinality(DOMAIN pending) + Cardinality(Openings) + Cardinality(Cookies)
    <= calls + duplicated

\* Ids are issued in increasing order.
IdsIssued == \A a \in DOMAIN connections : connections[a].id <= opened

Tables == AdmissionBounded /\ ServerTablesAgree /\ IdsIssued

IInv == TypeOK /\ Tables /\ HandshakesCounted

-----------------------------------------------------------------------------
(* Sets, maps and ages *)

LEMMA CardAdd ==
  ASSUME NEW S, IsFiniteSet(S), NEW x
  PROVE  /\ IsFiniteSet(S \cup {x})
         /\ Cardinality(S) \in Nat /\ Cardinality(S \cup {x}) \in Nat
         /\ Cardinality(S \cup {x}) <= Cardinality(S) + 1
         /\ x \notin S => Cardinality(S \cup {x}) = Cardinality(S) + 1
<1>1. /\ IsFiniteSet(S \cup {x})
      /\ Cardinality(S \cup {x}) = IF x \in S THEN Cardinality(S) ELSE Cardinality(S) + 1
  BY FS_AddElement
<1>2. Cardinality(S) \in Nat
  BY FS_CardinalityType
<1> QED BY <1>1, <1>2

LEMMA CardDrop ==
  ASSUME NEW S, IsFiniteSet(S), NEW x \in S
  PROVE  /\ IsFiniteSet(S \ {x})
         /\ Cardinality(S) \in Nat /\ Cardinality(S \ {x}) \in Nat
         /\ Cardinality(S \ {x}) = Cardinality(S) - 1
BY FS_RemoveElement, FS_CardinalityType

LEMMA CardSubset ==
  ASSUME NEW S, IsFiniteSet(S), NEW T \in SUBSET S
  PROVE  /\ IsFiniteSet(T)
         /\ Cardinality(S) \in Nat /\ Cardinality(T) \in Nat
         /\ Cardinality(T) <= Cardinality(S)
BY FS_Subset, FS_CardinalityType

LEMMA PutType ==
  ASSUME NEW D, NEW R, NEW f, DOMAIN f \subseteq D, f \in [DOMAIN f -> R],
         NEW k \in D, NEW v \in R
  PROVE  /\ DOMAIN Put(f, k, v) = DOMAIN f \cup {k}
         /\ DOMAIN Put(f, k, v) \subseteq D
         /\ Put(f, k, v) \in [DOMAIN Put(f, k, v) -> R]
         /\ Put(f, k, v)[k] = v
         /\ \A x \in DOMAIN f : x # k => Put(f, k, v)[x] = f[x]
BY DEF Put

LEMMA DropType ==
  ASSUME NEW D, NEW R, NEW f, DOMAIN f \subseteq D, f \in [DOMAIN f -> R], NEW k
  PROVE  /\ DOMAIN Drop(f, k) = DOMAIN f \ {k}
         /\ DOMAIN Drop(f, k) \subseteq D
         /\ Drop(f, k) \in [DOMAIN Drop(f, k) -> R]
         /\ \A x \in DOMAIN Drop(f, k) : Drop(f, k)[x] = f[x]
BY DEF Drop, Restrict

\* The longest timer is one of the four, so ages are naturals and stay in range.
LEMMA AgesClosed ==
  /\ MaxAge \in Nat /\ 0 \in Ages
  /\ \A age \in Ages : Older(age) \in Ages
<1> DEFINE timers == {ConnectionTimeout + 1, RequestTimeout,
                      DisconnectRetryTimeout + 1, MigrationCooldown}
<1>1. timers \subseteq Nat
  BY SessionAssumption
<1>2. \E age \in timers : \A other \in timers : other <= age
  <2> DEFINE larger(a, b) == IF a <= b THEN b ELSE a
             left  == larger(ConnectionTimeout + 1, RequestTimeout)
             right == larger(DisconnectRetryTimeout + 1, MigrationCooldown)
  <2>1. /\ ConnectionTimeout \in Nat /\ RequestTimeout \in Nat
        /\ DisconnectRetryTimeout \in Nat /\ MigrationCooldown \in Nat
    BY SessionAssumption
  <2>2. /\ left \in timers /\ left \in Nat
        /\ ConnectionTimeout + 1 <= left /\ RequestTimeout <= left
    BY <2>1
  <2>3. /\ right \in timers /\ right \in Nat
        /\ DisconnectRetryTimeout + 1 <= right /\ MigrationCooldown <= right
    BY <2>1
  <2>4. CASE left <= right
    <3>1. \A other \in timers : other <= right
      BY <2>1, <2>2, <2>3, <2>4
    <3> QED BY <2>3, <3>1
  <2>5. CASE right <= left
    <3>1. \A other \in timers : other <= left
      BY <2>1, <2>2, <2>3, <2>5
    <3> QED BY <2>2, <3>1
  <2> QED BY <2>2, <2>3, <2>4, <2>5
<1>3. MaxAge = CHOOSE age \in timers : \A other \in timers : other <= age
  BY DEF MaxAge
<1> HIDE DEF timers
<1>4. MaxAge \in Nat
  BY <1>1, <1>2, <1>3
<1> QED BY <1>4 DEF Ages, Older

LEMMA Finite ==
  ASSUME TypeOK
  PROVE  /\ IsFiniteSet(DOMAIN connections) /\ IsFiniteSet(DOMAIN pending)
         /\ IsFiniteSet(Openings) /\ IsFiniteSet(Cookies)
<1>1. IsFiniteSet(Clients)
  BY SessionAssumption
<1>2. IsFiniteSet(DOMAIN connections) /\ IsFiniteSet(DOMAIN pending)
  BY <1>1, FS_Subset DEF TypeOK
<1>3. IsFiniteSet(Clients \X {"Request", "RequestWithCookie"})
      /\ IsFiniteSet(Clients \X {"Cookie"})
  <2>1. IsFiniteSet({"Request"}) /\ IsFiniteSet({"Cookie"})
    BY FS_Singleton
  <2>2. IsFiniteSet({"Request"} \cup {"RequestWithCookie"})
    BY <2>1, FS_AddElement
  <2>3. {"Request"} \cup {"RequestWithCookie"} = {"Request", "RequestWithCookie"}
    OBVIOUS
  <2>4. IsFiniteSet({"Request", "RequestWithCookie"})
    BY <2>2, <2>3
  <2> QED BY <1>1, <2>1, <2>4, FS_Product
<1>4. IsFiniteSet(Openings)
  <2> DEFINE pairs == Clients \X {"Request", "RequestWithCookie"}
             f     == [p \in Openings |-> <<p.from, p.type>>]
  <2>1. \A p \in Openings : /\ <<p.from, p.type>> \in pairs
                            /\ p = [from |-> p.from, type |-> p.type]
    BY DEF TypeOK, Openings
  <2>2. f \in Injection(Openings, pairs)
    BY <2>1 DEF Injection, IsInjective
  <2> HIDE DEF f, pairs
  <2> QED BY <1>3, <2>2, FS_Injection DEF pairs
<1>5. IsFiniteSet(Cookies)
  <2> DEFINE pairs == Clients \X {"Cookie"}
             f     == [p \in Cookies |-> <<p.to, p.type>>]
  <2>1. \A p \in Cookies : /\ <<p.to, p.type>> \in pairs
                           /\ p = [to |-> p.to, type |-> p.type]
    BY DEF TypeOK, Cookies
  <2>2. f \in Injection(Cookies, pairs)
    BY <2>1 DEF Injection, IsInjective
  <2> HIDE DEF f, pairs
  <2> QED BY <1>3, <2>2, FS_Injection DEF pairs
<1> QED BY <1>2, <1>4, <1>5

-----------------------------------------------------------------------------
(* What a step does to the server's tables *)

\* Connections and challenges may end; those that stay keep their ids.
TablesShrink ==
  /\ DOMAIN connections' \subseteq DOMAIN connections
  /\ \A a \in DOMAIN connections' : connections'[a].id = connections[a].id
  /\ DOMAIN pending' \subseteq DOMAIN pending
  /\ opened' = opened

\* A client is admitted to the challenge.
TablesChallenge ==
  \E c \in Clients :
    /\ c \notin DOMAIN pending /\ c \notin DOMAIN connections
    /\ ~PendingFull /\ ~ServerFull
    /\ DOMAIN pending' = DOMAIN pending \cup {c}
    /\ UNCHANGED <<connections, opened>>

\* A challenged client's connection is opened.
TablesOpen ==
  \E c \in Clients :
    /\ c \in DOMAIN pending /\ c \notin DOMAIN connections
    /\ DOMAIN pending' = DOMAIN pending \ {c}
    /\ opened' = opened + 1
    /\ DOMAIN connections' = DOMAIN connections \cup {c}
    /\ connections'[c].id = opened + 1
    /\ \A a \in DOMAIN connections : connections'[a].id = connections[a].id

\* A connection moves to another address.
TablesMove ==
  /\ config.migration
  /\ \E a \in DOMAIN connections, c \in Clients \ DOMAIN connections :
       /\ DOMAIN connections' = (DOMAIN connections \ {a}) \cup {c}
       /\ connections'[c].id = connections[a].id
       /\ \A b \in DOMAIN connections \ {a} : connections'[b].id = connections[b].id
  /\ UNCHANGED <<pending, opened>>

TableStep ==
  /\ config' = config
  /\ TablesShrink \/ TablesChallenge \/ TablesOpen \/ TablesMove

LEMMA Untouched ==
  ASSUME UNCHANGED <<config, connections, pending, opened>>
  PROVE  TableStep
BY DEF TableStep, TablesShrink

LEMMA AdmitOrDenyTables ==
  ASSUME NEW c \in Clients, c \notin DOMAIN connections, AdmitOrDeny(c),
         UNCHANGED <<config, connections, opened>>
  PROVE  TableStep
<1>1. CASE UNCHANGED pending
  BY <1>1, Untouched
<1>2. CASE c \notin DOMAIN pending /\ ~PendingFull /\ ~ServerFull /\ pending' = Put(pending, c, 0)
  BY <1>2 DEF Put, TableStep, TablesChallenge
<1> QED BY <1>1, <1>2 DEF AdmitOrDeny

LEMMA ServerTables ==
  ASSUME TypeOK, NEW c \in Clients, ServerNext(c)
  PROVE  TableStep
<1>1. CASE ServerGetsRequest(c)
  BY <1>1, Untouched, AdmitOrDenyTables DEF ServerGetsRequest
<1>2. CASE ServerGetsCookie(c)
  BY <1>2, Untouched, AdmitOrDenyTables DEF ServerGetsCookie
<1>3. CASE ServerGetsResponse(c)
  <2>1. CASE UNCHANGED <<connections, opened, pending>>
    BY <1>3, <2>1, Untouched DEF ServerGetsResponse
  <2>2. CASE pending' = Answered(c) /\ UNCHANGED <<connections, opened>>
    BY <1>3, <2>2
       DEF ServerGetsResponse, Answered, Drop, Restrict, TableStep, TablesShrink
  <2>3. CASE /\ c \notin DOMAIN connections /\ c \in DOMAIN pending
             /\ pending' = Answered(c) /\ opened' = opened + 1
             /\ connections' =
                  Put(connections, c, [id |-> opened + 1, client |-> c, age |-> 0])
    BY <1>3, <2>3
       DEF ServerGetsResponse, Answered, Drop, Restrict, Put, TableStep, TablesOpen
  <2> QED BY <1>3, <2>1, <2>2, <2>3 DEF ServerGetsResponse
<1>4. CASE ServerGetsData(c)
  <2>1. CASE UNCHANGED connections
    BY <1>4, <2>1, Untouched DEF ServerGetsData
  <2>2. CASE c \in DOMAIN connections /\ connections' = Put(connections, c, Touched(c))
    <3>1. connections[c] \in [id : ConnectionIds, client : Clients, age : Ages]
      BY <2>2 DEF TypeOK
    <3>2. Touched(c).id = connections[c].id
      BY <3>1 DEF Touched
    <3> QED BY <1>4, <2>2, <3>2 DEF ServerGetsData, Put, TableStep, TablesShrink
  <2>3. ASSUME NEW a \in DOMAIN connections, config.migration, c \notin DOMAIN connections,
               NEW conn \in {Touched(a), connections[a]}, connections' = Moved(a, c, conn)
        PROVE  TableStep
    <3>1. connections[a] \in [id : ConnectionIds, client : Clients, age : Ages]
      BY DEF TypeOK
    <3>2. conn.id = connections[a].id
      BY <3>1 DEF Touched
    <3>3. /\ DOMAIN connections' = (DOMAIN connections \ {a}) \cup {c}
          /\ connections'[c] = conn
          /\ \A b \in DOMAIN connections \ {a} : connections'[b] = connections[b]
      BY <2>3 DEF Moved, Put, Drop, Restrict
    <3>4. config' = config /\ UNCHANGED <<pending, opened>>
      BY <1>4 DEF ServerGetsData
    <3>5. TablesMove
      BY <2>3, <3>2, <3>3, <3>4 DEF TablesMove
    <3> QED BY <3>4, <3>5 DEF TableStep
  <2> QED BY <1>4, <2>1, <2>2, <2>3 DEF ServerGetsData
<1>5. CASE ServerGetsDisconnect(c) \/ ServerTimesOut(c) \/ ServerDisconnect(c)
  <2>1. UNCHANGED <<config, pending, opened>>
        /\ (connections' = connections \/ connections' = Drop(connections, c))
    BY <1>5 DEF ServerGetsDisconnect, ServerTimesOut, ServerDisconnect
  <2> QED BY <2>1 DEF Drop, Restrict, TableStep, TablesShrink
<1>6. CASE PendingExpires(c)
  BY <1>6 DEF PendingExpires, Drop, Restrict, TableStep, TablesShrink
<1>7. CASE ServerSends(c) \/ ServerRetriesDisconnect(c) \/ DisconnectAnswered(c)
  BY <1>7, Untouched DEF ServerSends, ServerRetriesDisconnect, DisconnectAnswered, serverVars
<1> QED BY <1>1, <1>2, <1>3, <1>4, <1>5, <1>6, <1>7 DEF ServerNext

LEMMA ClientTables ==
  ASSUME NEW c \in Clients, ClientNext(c)
  PROVE  TableStep
BY Untouched
   DEF ClientNext, Connect, ClientDisconnect, ClientShutdown, ClientTimesOut,
       ClientRetriesDisconnect, ClientSends, ClientGetsCookie, ClientGetsChallenge,
       ClientGetsAccept, ClientIsTurnedAway, ClientGetsData, ClientIgnores, serverVars

LEMMA NextTables ==
  ASSUME TypeOK, [Next]_vars
  PROVE  TableStep
<1>1. CASE Tick
  <2>1. \A a \in DOMAIN connections :
          [connections[a] EXCEPT !.age = Older(connections[a].age)].id = connections[a].id
    <3> TAKE a \in DOMAIN connections
    <3>1. connections[a] \in [id : ConnectionIds, client : Clients, age : Ages]
      BY DEF TypeOK
    <3> QED BY <3>1
  <2> QED BY <1>1, <2>1 DEF Tick, TableStep, TablesShrink
<1>2. ASSUME NEW p, LoseToServer(p) \/ LoseToClient(p) PROVE TableStep
  BY <1>2, Untouched DEF LoseToServer, LoseToClient, serverVars
<1>3. ASSUME NEW id, CooldownEnds(id) PROVE TableStep
  BY <1>3, Untouched DEF CooldownEnds
<1>4. CASE UNCHANGED vars
  BY <1>4, Untouched DEF vars, serverVars
<1> QED BY <1>1, <1>2, <1>3, <1>4, ServerTables, ClientTables DEF Next

-----------------------------------------------------------------------------
(* The bounds and the agreement of the tables *)

LEMMA TablesStep ==
  ASSUME TypeOK, Tables, TableStep
  PROVE  Tables'
<1> DEFINE C == DOMAIN connections
           P == DOMAIN pending
<1>1. /\ IsFiniteSet(C) /\ IsFiniteSet(P)
      /\ Cardinality(C) \in Nat /\ Cardinality(P) \in Nat
      /\ MaxClients \in Nat \ {0} /\ MaxPending \in Nat
      /\ Cardinality(P) <= MaxPending
      /\ Cardinality(C) + Cardinality(P) <= MaxClients - 1 + MaxPending
  BY Finite, FS_CardinalityType, SessionAssumption DEF Tables, AdmissionBounded
<1>2. \A a \in C : connections[a].id \in Nat /\ connections[a].id <= opened
  BY SessionAssumption DEF TypeOK, ConnectionIds, Tables, IdsIssued
<1>3. opened \in Nat
  BY SessionAssumption DEF TypeOK, ConnectionIds
<1>4. CASE TablesShrink
  <2>1. C' \in SUBSET C /\ P' \in SUBSET P
    BY <1>4 DEF TablesShrink
  <2>2. AdmissionBounded'
    <3> HIDE DEF C, P
    <3>1. /\ Cardinality(C') \in Nat /\ Cardinality(P') \in Nat
          /\ Cardinality(C') <= Cardinality(C) /\ Cardinality(P') <= Cardinality(P)
      BY <1>1, <2>1, CardSubset
    <3>2. /\ Cardinality(P') <= MaxPending
          /\ Cardinality(C') + Cardinality(P') <= MaxClients - 1 + MaxPending
      BY <1>1, <3>1
    <3> QED BY <3>2 DEF AdmissionBounded, C, P
  <2> QED BY <1>4, <2>1, <2>2
          DEF TablesShrink, TableStep, Tables, ServerTablesAgree, IdsIssued
<1>5. CASE TablesChallenge
  <2>1. PICK c \in Clients :
          /\ c \notin P /\ c \notin C /\ ~PendingFull /\ ~ServerFull
          /\ P' = P \cup {c}
          /\ UNCHANGED <<connections, opened>>
    BY <1>5 DEF TablesChallenge
  <2>2. AdmissionBounded'
    <3>1. Cardinality(P) < MaxPending /\ Cardinality(C) < MaxClients
      BY <1>1, <2>1 DEF PendingFull, ServerFull
    <3> HIDE DEF P
    <3>2. Cardinality(P') = Cardinality(P) + 1
      BY <1>1, <2>1, CardAdd
    <3>3. C' = C
      BY <2>1
    <3> HIDE DEF C
    <3>4. /\ Cardinality(P') <= MaxPending
          /\ Cardinality(C') + Cardinality(P') <= MaxClients - 1 + MaxPending
      BY <1>1, <3>1, <3>2, <3>3
    <3> QED BY <3>4 DEF AdmissionBounded, C, P
  <2> QED BY <2>1, <2>2 DEF TableStep, Tables, ServerTablesAgree, IdsIssued
<1>6. CASE TablesOpen
  <2>1. PICK c \in Clients :
          /\ c \in P /\ c \notin C
          /\ P' = P \ {c}
          /\ opened' = opened + 1
          /\ C' = C \cup {c}
          /\ connections'[c].id = opened + 1
          /\ \A a \in C : connections'[a].id = connections[a].id
    BY <1>6 DEF TablesOpen
  <2>2. AdmissionBounded'
    <3> HIDE DEF C, P
    <3>1. Cardinality(P') = Cardinality(P) - 1 /\ Cardinality(C') = Cardinality(C) + 1
      BY <1>1, <2>1, CardAdd, CardDrop
    <3>2. /\ Cardinality(P') <= MaxPending
          /\ Cardinality(C') + Cardinality(P') <= MaxClients - 1 + MaxPending
      BY <1>1, <3>1
    <3> QED BY <3>2 DEF AdmissionBounded, C, P
  <2>3. ServerTablesAgree'
    BY <1>2, <1>3, <2>1 DEF TableStep, Tables, ServerTablesAgree
  <2>4. IdsIssued'
    BY <1>2, <1>3, <2>1 DEF IdsIssued
  <2> QED BY <2>2, <2>3, <2>4 DEF Tables
<1>7. CASE TablesMove
  <2>1. PICK a \in C, c \in Clients \ C :
          /\ C' = (C \ {a}) \cup {c}
          /\ connections'[c].id = connections[a].id
          /\ \A b \in C \ {a} : connections'[b].id = connections[b].id
    BY <1>7 DEF TablesMove
  <2>2. AdmissionBounded'
    <3> HIDE DEF C
    <3>1. IsFiniteSet(C \ {a}) /\ Cardinality(C \ {a}) = Cardinality(C) - 1
      BY <1>1, CardDrop
    <3>2. Cardinality((C \ {a}) \cup {c}) = Cardinality(C \ {a}) + 1
      <4>1. c \notin C \ {a}
        OBVIOUS
      <4> QED BY <3>1, <4>1, CardAdd
    <3>3. P' = P
      BY <1>7 DEF TablesMove
    <3>4. Cardinality(C') = Cardinality(C)
      BY <1>1, <2>1, <3>1, <3>2
    <3> HIDE DEF P
    <3> QED BY <1>1, <3>3, <3>4 DEF AdmissionBounded, C, P
  <2>3. ServerTablesAgree'
    BY <1>7, <2>1 DEF TablesMove, TableStep, Tables, ServerTablesAgree
  <2>4. IdsIssued'
    BY <1>2, <1>7, <2>1 DEF TablesMove, IdsIssued
  <2> QED BY <2>2, <2>3, <2>4 DEF Tables
<1> QED BY <1>4, <1>5, <1>6, <1>7 DEF TableStep

-----------------------------------------------------------------------------
(* The handshakes in progress *)

LEMMA CardGrows ==
  ASSUME NEW S, IsFiniteSet(S), NEW x, NEW T \in SUBSET (S \cup {x})
  PROVE  /\ IsFiniteSet(T)
         /\ Cardinality(S) \in Nat /\ Cardinality(T) \in Nat
         /\ Cardinality(T) <= Cardinality(S) + 1
<1>1. /\ IsFiniteSet(S \cup {x})
      /\ Cardinality(S) \in Nat /\ Cardinality(S \cup {x}) \in Nat
      /\ Cardinality(S \cup {x}) <= Cardinality(S) + 1
  BY CardAdd
<1>2. /\ IsFiniteSet(T) /\ Cardinality(T) \in Nat
      /\ Cardinality(T) <= Cardinality(S \cup {x})
  BY <1>1, CardSubset
<1> QED BY <1>1, <1>2

\* The numbers HandshakesCounted adds up.
LEMMA CountsTyped ==
  ASSUME TypeOK
  PROVE  /\ Cardinality(DOMAIN pending) \in Nat
         /\ Cardinality(Openings) \in Nat /\ Cardinality(Cookies) \in Nat
         /\ opened \in Nat /\ calls \in Nat /\ duplicated \in Nat
<1>1. /\ IsFiniteSet(DOMAIN pending) /\ IsFiniteSet(Openings) /\ IsFiniteSet(Cookies)
  BY Finite
<1>2. opened \in Nat /\ calls \in Nat /\ duplicated \in Nat
  BY SessionAssumption DEF TypeOK, ConnectionIds
<1> QED BY <1>1, <1>2, FS_CardinalityType

\* Nothing begins: what there is may end.
LEMMA CountShrinks ==
  ASSUME TypeOK, HandshakesCounted,
         DOMAIN pending' \subseteq DOMAIN pending,
         Openings' \subseteq Openings, Cookies' \subseteq Cookies,
         opened' = opened, calls' \in Nat, calls' >= calls,
         duplicated' \in Nat, duplicated' >= duplicated
  PROVE  HandshakesCounted'
<1> DEFINE P == DOMAIN pending
           O == Openings
           K == Cookies
<1>1. P' \in SUBSET P /\ O' \in SUBSET O /\ K' \in SUBSET K
  OBVIOUS
<1>2. IsFiniteSet(P) /\ IsFiniteSet(O) /\ IsFiniteSet(K)
  BY Finite
<1>3. opened + Cardinality(P) + Cardinality(O) + Cardinality(K) <= calls + duplicated
  BY DEF HandshakesCounted
<1>4. opened \in Nat /\ calls \in Nat /\ duplicated \in Nat
  BY CountsTyped
<1> HIDE DEF P, O, K
<1>5. /\ Cardinality(P) \in Nat /\ Cardinality(P') \in Nat /\ Cardinality(P') <= Cardinality(P)
      /\ Cardinality(O) \in Nat /\ Cardinality(O') \in Nat /\ Cardinality(O') <= Cardinality(O)
      /\ Cardinality(K) \in Nat /\ Cardinality(K') \in Nat /\ Cardinality(K') <= Cardinality(K)
  BY <1>1, <1>2, CardSubset
<1>6. opened' + Cardinality(P') + Cardinality(O') + Cardinality(K') <= calls' + duplicated'
  BY <1>3, <1>4, <1>5
<1> QED BY <1>6 DEF HandshakesCounted, P, O, K

\* connect() begins one.
LEMMA CountConnect ==
  ASSUME TypeOK, HandshakesCounted, NEW c \in Clients, Connect(c)
  PROVE  HandshakesCounted'
<1> DEFINE O == Openings
<1>1. O' \in SUBSET (O \cup {[from |-> c, type |-> "Request"]})
  BY DEF Connect, Client, Openings
<1>2. IsFiniteSet(O)
  BY Finite
<1>3. Cookies' = Cookies /\ pending' = pending /\ opened' = opened
      /\ calls' = calls + 1 /\ duplicated' = duplicated
  BY DEF Connect, serverVars, Cookies
<1>4. opened + Cardinality(DOMAIN pending) + Cardinality(O) + Cardinality(Cookies)
        <= calls + duplicated
  BY DEF HandshakesCounted
<1> HIDE DEF O
<1>5. Cardinality(O) \in Nat /\ Cardinality(O') \in Nat /\ Cardinality(O') <= Cardinality(O) + 1
  BY <1>1, <1>2, CardGrows
<1>6. opened' + Cardinality(DOMAIN pending') + Cardinality(O') + Cardinality(Cookies')
        <= calls' + duplicated'
  BY <1>3, <1>4, <1>5, CountsTyped
<1> QED BY <1>6 DEF HandshakesCounted, O

\* A cookie becomes a request with a cookie.
LEMMA CountCookie ==
  ASSUME TypeOK, HandshakesCounted, NEW c \in Clients, ClientGetsCookie(c)
  PROVE  HandshakesCounted'
<1> DEFINE O == Openings
           K == Cookies
           cookie == [to |-> c, type |-> "Cookie"]
<1>1. O' \in SUBSET (O \cup {[from |-> c, type |-> "RequestWithCookie"]})
  BY DEF ClientGetsCookie, AtClient, Openings
<1>2. IsFiniteSet(O) /\ IsFiniteSet(K)
  BY Finite
<1>3. pending' = pending /\ opened' = opened /\ calls' = calls
  BY DEF ClientGetsCookie, serverVars
<1>4. opened + Cardinality(DOMAIN pending) + Cardinality(O) + Cardinality(K)
        <= calls + duplicated
  BY DEF HandshakesCounted
<1>5. /\ cookie \in K
      /\ \/ K' = K \ {cookie} /\ duplicated' = duplicated
         \/ K' = K /\ duplicated' = duplicated + 1
  BY DEF ClientGetsCookie, AtClient, Arrives, Cookies
<1> HIDE DEF O, K, cookie
<1>6. Cardinality(O) \in Nat /\ Cardinality(O') \in Nat /\ Cardinality(O') <= Cardinality(O) + 1
  BY <1>1, <1>2, CardGrows
<1>7. /\ Cardinality(K) \in Nat /\ Cardinality(K') \in Nat
      /\ \/ Cardinality(K') = Cardinality(K) - 1 /\ duplicated' = duplicated
         \/ Cardinality(K') = Cardinality(K) /\ duplicated' = duplicated + 1
  BY <1>2, <1>5, CardDrop
<1>8. opened' + Cardinality(DOMAIN pending') + Cardinality(O') + Cardinality(K')
        <= calls' + duplicated'
  BY <1>3, <1>4, <1>6, <1>7, CountsTyped
<1> QED BY <1>8 DEF HandshakesCounted, O, K

\* The server takes a request: it answers with a cookie, or a challenge begins.
LEMMA CountRequest ==
  ASSUME TypeOK, HandshakesCounted, NEW c \in Clients,
         ServerGetsRequest(c) \/ ServerGetsCookie(c)
  PROVE  HandshakesCounted'
<1> DEFINE O == Openings
           K == Cookies
           P == DOMAIN pending
           cookie == [to |-> c, type |-> "Cookie"]
<1>1. opened' = opened /\ calls' = calls
  BY DEF ServerGetsRequest, ServerGetsCookie
<1>2. IsFiniteSet(O) /\ IsFiniteSet(K) /\ IsFiniteSet(P)
  BY Finite
<1>3. opened + Cardinality(P) + Cardinality(O) + Cardinality(K) <= calls + duplicated
  BY DEF HandshakesCounted
<1>4. ASSUME NEW type \in {"Request", "RequestWithCookie"}, AtServer(c, type)
      PROVE  \E p \in O :
               \/ O' = O \ {p} /\ duplicated' = duplicated
               \/ O' = O /\ duplicated' = duplicated + 1
  <2> DEFINE p == [from |-> c, type |-> type]
  <2>1. /\ p \in O
        /\ \/ O' = O \ {p} /\ duplicated' = duplicated
           \/ O' = O /\ duplicated' = duplicated + 1
    BY <1>4 DEF AtServer, Arrives, Openings
  <2> HIDE DEF O, p
  <2> QED BY <2>1
<1>5. PICK p \in O : \/ O' = O \ {p} /\ duplicated' = duplicated
                     \/ O' = O /\ duplicated' = duplicated + 1
  BY <1>4 DEF ServerGetsRequest, ServerGetsCookie
<1>6. \/ K' \in SUBSET (K \cup {cookie}) /\ P' = P
      \/ K' = K /\ P' \in SUBSET (P \cup {c})
  <2>1. \A type \in ServerPackets \ {"Cookie"} : Server(c, type) => K' = K
    BY DEF Server, Cookies
  <2>2. Server(c, "Cookie") => K' \in SUBSET (K \cup {cookie})
    BY DEF Server, Cookies
  <2>3. to_client' = to_client => K' = K
    BY DEF Cookies
  <2>4. AdmitOrDeny(c) => K' = K /\ P' \in SUBSET (P \cup {c})
    BY <2>1, <2>3 DEF AdmitOrDeny, Put, ServerPackets
  <2>5. Server(c, "Accept") => K' = K
    BY <2>1 DEF ServerPackets
  <2> HIDE DEF K, P, cookie
  <2>6. pending' = pending => P' = P
    BY DEF P
  <2> QED BY <2>2, <2>4, <2>5, <2>6 DEF ServerGetsRequest, ServerGetsCookie
<1> HIDE DEF O, K, P, cookie
<1>7. /\ Cardinality(O) \in Nat /\ Cardinality(O') \in Nat
      /\ \/ Cardinality(O') = Cardinality(O) - 1 /\ duplicated' = duplicated
         \/ Cardinality(O') = Cardinality(O) /\ duplicated' = duplicated + 1
  BY <1>2, <1>5, CardDrop
<1>8. /\ Cardinality(K) \in Nat /\ Cardinality(K') \in Nat
      /\ Cardinality(P) \in Nat /\ Cardinality(P') \in Nat
      /\ Cardinality(K') + Cardinality(P') <= Cardinality(K) + Cardinality(P) + 1
  <2>1. Cardinality(K) \in Nat /\ Cardinality(P) \in Nat
    BY <1>2, FS_CardinalityType
  <2>2. CASE K' \in SUBSET (K \cup {cookie}) /\ P' = P
    <3>1. Cardinality(K') \in Nat /\ Cardinality(K') <= Cardinality(K) + 1
      BY <1>2, <2>2, CardGrows
    <3> QED BY <2>1, <2>2, <3>1
  <2>3. CASE K' = K /\ P' \in SUBSET (P \cup {c})
    <3>1. Cardinality(P') \in Nat /\ Cardinality(P') <= Cardinality(P) + 1
      BY <1>2, <2>3, CardGrows
    <3> QED BY <2>1, <2>3, <3>1
  <2> QED BY <1>6, <2>2, <2>3
<1>9. opened' + Cardinality(P') + Cardinality(O') + Cardinality(K') <= calls' + duplicated'
  <2>1. opened \in Nat /\ calls \in Nat /\ duplicated \in Nat
    BY CountsTyped
  <2> QED BY <1>1, <1>3, <1>7, <1>8, <2>1
<1> QED BY <1>9 DEF HandshakesCounted, O, K, P

\* A packet that opens nothing arrives at the server, and the network may keep it.
LEMMA OtherArrives ==
  ASSUME TypeOK, NEW c, NEW type, AtServer(c, type)
  PROVE  /\ Openings' \subseteq Openings
         /\ duplicated' \in Nat /\ duplicated' >= duplicated
BY CountsTyped DEF AtServer, Arrives, Openings

LEMMA OtherSent ==
  ASSUME NEW c, NEW type, type # "Cookie", Server(c, type)
  PROVE  Cookies' = Cookies
BY DEF Server, Cookies

\* The response turns a challenge into a connection.
LEMMA CountResponse ==
  ASSUME TypeOK, HandshakesCounted, NEW c \in Clients, ServerGetsResponse(c)
  PROVE  HandshakesCounted'
<1>1. /\ Openings' \subseteq Openings
      /\ duplicated' \in Nat /\ duplicated' >= duplicated
  BY OtherArrives DEF ServerGetsResponse
<1>2. Cookies' = Cookies /\ calls' = calls
  <2>1. to_client' = to_client => Cookies' = Cookies
    BY DEF Cookies
  <2> QED BY <2>1, OtherSent DEF ServerGetsResponse
<1>3. CASE opened' = opened /\ DOMAIN pending' \subseteq DOMAIN pending
  BY <1>1, <1>2, <1>3, CountsTyped, CountShrinks
<1>4. CASE c \in DOMAIN pending /\ pending' = Answered(c) /\ opened' = opened + 1
  <2> DEFINE O == Openings
             P == DOMAIN pending
  <2>1. O' \in SUBSET O /\ P' = P \ {c} /\ c \in P /\ IsFiniteSet(O) /\ IsFiniteSet(P)
    BY <1>1, <1>4, Finite DEF Answered, Drop, Restrict
  <2>2. opened + Cardinality(P) + Cardinality(O) + Cardinality(Cookies) <= calls + duplicated
    BY DEF HandshakesCounted
  <2> HIDE DEF O, P
  <2>3. /\ Cardinality(P) \in Nat /\ Cardinality(P') \in Nat
        /\ Cardinality(P') = Cardinality(P) - 1
    BY <2>1, CardDrop
  <2>4. /\ Cardinality(O) \in Nat /\ Cardinality(O') \in Nat
        /\ Cardinality(O') <= Cardinality(O)
    BY <2>1, CardSubset
  <2>5. opened' + Cardinality(P') + Cardinality(O') + Cardinality(Cookies')
          <= calls' + duplicated'
    BY <1>1, <1>2, <1>4, <2>2, <2>3, <2>4, CountsTyped
  <2> QED BY <2>5 DEF HandshakesCounted, O, P
<1> QED BY <1>3, <1>4 DEF ServerGetsResponse, Answered, Drop, Restrict

\* Every other packet sent to the server is not a request.
LEMMA OtherClientSent ==
  ASSUME NEW c, NEW type \in {"Response", "Disconnect", "Data"}, Client(c, type)
  PROVE  Openings' = Openings
BY DEF Client, Openings

LEMMA CountServer ==
  ASSUME TypeOK, HandshakesCounted, NEW c \in Clients, ServerNext(c)
  PROVE  HandshakesCounted'
<1> USE CountsTyped
<1>1. CASE ServerGetsRequest(c) \/ ServerGetsCookie(c)
  BY <1>1, CountRequest
<1>2. CASE ServerGetsResponse(c)
  BY <1>2, CountResponse
<1>3. to_client' = to_client => Cookies' = Cookies
  BY DEF Cookies
<1>4. to_server' = to_server => Openings' = Openings
  BY DEF Openings
<1>5. CASE ServerGetsDisconnect(c) \/ ServerGetsData(c) \/ DisconnectAnswered(c)
  <2>1. /\ Openings' \subseteq Openings
        /\ duplicated' \in Nat /\ duplicated' >= duplicated
    BY <1>5, OtherArrives DEF ServerGetsDisconnect, ServerGetsData, DisconnectAnswered
  <2>2. Cookies' = Cookies
    BY <1>3, <1>5, OtherSent DEF ServerGetsDisconnect, ServerGetsData, DisconnectAnswered
  <2>3. UNCHANGED <<pending, opened, calls>>
    BY <1>5 DEF ServerGetsDisconnect, ServerGetsData, DisconnectAnswered
  <2> QED BY <2>1, <2>2, <2>3, CountShrinks
<1>6. CASE \/ ServerTimesOut(c) \/ ServerSends(c) \/ PendingExpires(c)
           \/ ServerDisconnect(c) \/ ServerRetriesDisconnect(c)
  <2>1. Openings' = Openings /\ duplicated' = duplicated
    BY <1>4, <1>6 DEF ServerTimesOut, ServerSends, PendingExpires, ServerDisconnect,
                      ServerRetriesDisconnect, networkVars
  <2>2. Cookies' = Cookies
    BY <1>3, <1>6, OtherSent DEF ServerTimesOut, ServerSends, PendingExpires,
                      ServerDisconnect, ServerRetriesDisconnect, networkVars
  <2>3. DOMAIN pending' \subseteq DOMAIN pending /\ opened' = opened
    BY <1>6 DEF ServerTimesOut, ServerSends, PendingExpires, ServerDisconnect,
                ServerRetriesDisconnect, serverVars, Drop, Restrict
  <2>4. calls' \in {calls, calls + 1}
    BY <1>6 DEF ServerTimesOut, ServerSends, PendingExpires, ServerDisconnect,
                ServerRetriesDisconnect
  <2>5. calls' \in Nat /\ calls' >= calls /\ duplicated' \in Nat /\ duplicated' >= duplicated
    BY <2>1, <2>4
  <2> QED BY <2>1, <2>2, <2>3, <2>5, CountShrinks
<1> QED BY <1>1, <1>2, <1>5, <1>6 DEF ServerNext

LEMMA CountClient ==
  ASSUME TypeOK, HandshakesCounted, NEW c \in Clients, ClientNext(c)
  PROVE  HandshakesCounted'
<1> USE CountsTyped
<1>1. CASE Connect(c)
  BY <1>1, CountConnect
<1>2. CASE ClientGetsCookie(c)
  BY <1>2, CountCookie
<1>3. to_client' = to_client => Cookies' = Cookies
  BY DEF Cookies
<1>4. to_server' = to_server => Openings' = Openings
  BY DEF Openings
<1>5. CASE \/ ClientDisconnect(c) \/ ClientShutdown(c) \/ ClientTimesOut(c)
           \/ ClientRetriesDisconnect(c) \/ ClientSends(c)
  <2>1. UNCHANGED <<to_client, duplicated, pending, opened>>
    BY <1>5 DEF ClientDisconnect, ClientShutdown, ClientTimesOut, ClientRetriesDisconnect,
                ClientSends, serverVars, networkVars
  <2>2. Openings' = Openings
    BY <1>4, <1>5, OtherClientSent
       DEF ClientDisconnect, ClientShutdown, ClientTimesOut, ClientRetriesDisconnect,
           ClientSends, networkVars
  <2>3. calls' \in {calls, calls + 1}
    BY <1>5 DEF ClientDisconnect, ClientShutdown, ClientTimesOut, ClientRetriesDisconnect,
                ClientSends
  <2>4. calls' \in Nat /\ calls' >= calls /\ duplicated' \in Nat /\ duplicated' >= duplicated
    BY <2>1, <2>3
  <2> QED BY <1>3, <2>1, <2>2, <2>4, CountShrinks
<1>6. CASE \/ ClientGetsChallenge(c) \/ ClientGetsAccept(c) \/ ClientIsTurnedAway(c)
           \/ ClientGetsData(c) \/ ClientIgnores(c)
  <2>1. PICK type : AtClient(c, type, {}) \/ AtClient(c, type, {"Response"})
    <3>1. CASE ClientGetsChallenge(c)
      BY <3>1 DEF ClientGetsChallenge
    <3>2. CASE ClientGetsAccept(c) \/ ClientGetsData(c)
      BY <3>2 DEF ClientGetsAccept, ClientGetsData
    <3>3. CASE ClientIsTurnedAway(c)
      BY <3>3 DEF ClientIsTurnedAway
    <3>4. CASE ClientIgnores(c)
      BY <3>4 DEF ClientIgnores
    <3> QED BY <1>6, <3>1, <3>2, <3>3, <3>4
  <2>2. UNCHANGED <<pending, opened, calls>>
    BY <1>6 DEF ClientGetsChallenge, ClientGetsAccept, ClientIsTurnedAway, ClientGetsData,
                ClientIgnores, serverVars
  <2>3. /\ Cookies' \subseteq Cookies
        /\ duplicated' \in Nat /\ duplicated' >= duplicated
    BY <2>1 DEF AtClient, Arrives, Cookies
  <2>4. Openings' \subseteq Openings
    BY <2>1 DEF AtClient, Openings
  <2> QED BY <2>2, <2>3, <2>4, CountShrinks
<1> QED BY <1>1, <1>2, <1>5, <1>6 DEF ClientNext

LEMMA CountStep ==
  ASSUME TypeOK, HandshakesCounted, [Next]_vars
  PROVE  HandshakesCounted'
<1> USE CountsTyped
<1>1. CASE Tick
  <2>1. /\ DOMAIN pending' = DOMAIN pending
        /\ UNCHANGED <<to_server, to_client, duplicated, opened, calls>>
    BY <1>1 DEF Tick, networkVars
  <2> QED BY <2>1, CountShrinks DEF Openings, Cookies
<1>2. ASSUME NEW p, LoseToServer(p) \/ LoseToClient(p) PROVE HandshakesCounted'
  BY <1>2, CountShrinks DEF LoseToServer, LoseToClient, serverVars, Openings, Cookies
<1>3. ASSUME NEW id, CooldownEnds(id) PROVE HandshakesCounted'
  BY <1>3, CountShrinks DEF CooldownEnds, networkVars, Openings, Cookies
<1>4. CASE UNCHANGED vars
  BY <1>4, CountShrinks DEF vars, serverVars, networkVars, Openings, Cookies
<1> QED BY <1>1, <1>2, <1>3, <1>4, CountServer, CountClient DEF Next

-----------------------------------------------------------------------------
(* Types *)

LEMMA InitIInv == Init => IInv
<1> SUFFICES ASSUME Init PROVE IInv
  OBVIOUS
<1>1. TypeOK
  BY SessionAssumption, AgesClosed DEF Init, TypeOK, EmptyMap, States
<1>2. Cardinality({}) = 0
  BY FS_EmptySet
<1>3. Tables
  BY <1>2, SessionAssumption
     DEF Init, EmptyMap, Tables, AdmissionBounded, ServerTablesAgree, IdsIssued
<1>4. HandshakesCounted
  <2>1. /\ DOMAIN pending = {} /\ Openings = {} /\ Cookies = {}
        /\ opened = 0 /\ calls = 0 /\ duplicated = 0
    BY DEF Init, EmptyMap, Openings, Cookies
  <2> HIDE DEF Openings, Cookies
  <2> QED BY <1>2, <2>1 DEF HandshakesCounted
<1> QED BY <1>1, <1>3, <1>4 DEF IInv

\* The parts of TypeOK about the clients, the network and the server.
ClientType ==
  /\ state \in [Clients -> States]
  /\ timer \in [Clients -> Ages]
  /\ disconnect_retry_count \in [Clients -> 0 .. DisconnectRetries]

NetworkType ==
  /\ to_server \subseteq [from : Clients, type : ClientPackets]
  /\ to_client \subseteq [to : Clients, type : ServerPackets]
  /\ duplicated \in 0 .. MaxDuplicates
  /\ calls \in 0 .. MaxCalls

Connections == [id : ConnectionIds, client : Clients, age : Ages]
Goodbyes    == [age : Ages, retry_count : 0 .. DisconnectRetries]

ServerType ==
  /\ DOMAIN connections \subseteq Clients
  /\ connections \in [DOMAIN connections -> Connections]
  /\ DOMAIN pending \subseteq Clients
  /\ pending \in [DOMAIN pending -> Ages]
  /\ DOMAIN disconnecting \subseteq Clients
  /\ disconnecting \in [DOMAIN disconnecting -> Goodbyes]
  /\ DOMAIN migration_cooldowns \subseteq ConnectionIds
  /\ migration_cooldowns \in [DOMAIN migration_cooldowns -> Ages]
  /\ opened \in {0} \cup ConnectionIds

LEMMA TypeParts ==
  /\ TypeOK <=> config \in Configs /\ ClientType /\ NetworkType /\ ServerType
  /\ TypeOK' <=> config' \in Configs /\ ClientType' /\ NetworkType' /\ ServerType'
<1>1. TypeOK <=> config \in Configs /\ ClientType /\ NetworkType /\ ServerType
  BY DEF TypeOK, ClientType, NetworkType, ServerType, Connections, Goodbyes
<1>2. TypeOK' <=> config' \in Configs /\ ClientType' /\ NetworkType' /\ ServerType'
  BY DEF TypeOK, ClientType, NetworkType, ServerType, Connections, Goodbyes
<1> QED BY <1>1, <1>2

LEMMA ClientTypeStep ==
  ASSUME ClientType, NEW c \in Clients, ClientNext(c)
  PROVE  ClientType'
<1> USE AgesClosed, SessionAssumption DEF ClientType, States
<1>1. CASE Connect(c) \/ ClientDisconnect(c)
  BY <1>1 DEF Connect, ClientDisconnect
<1>2. Leave(c) => ClientType'
  BY DEF Leave
<1>3. CASE ClientShutdown(c) \/ ClientTimesOut(c) \/ ClientIsTurnedAway(c)
  BY <1>2, <1>3 DEF ClientShutdown, ClientTimesOut, ClientIsTurnedAway
<1>4. CASE ClientRetriesDisconnect(c)
  <2>1. CASE ~RetriesDone(c) /\ UNCHANGED state
              /\ disconnect_retry_count' = [disconnect_retry_count EXCEPT ![c] = NextRetry(c)]
              /\ timer' = [timer EXCEPT ![c] = 0]
    <3>1. NextRetry(c) \in 0 .. DisconnectRetries
      BY <2>1 DEF RetriesDone, NextRetry
    <3> QED BY <2>1, <3>1
  <2> QED BY <1>2, <1>4, <2>1 DEF ClientRetriesDisconnect
<1>5. CASE ClientGetsChallenge(c) \/ ClientGetsAccept(c) \/ ClientGetsData(c)
  BY <1>5 DEF ClientGetsChallenge, ClientGetsAccept, ClientGetsData
<1>6. CASE ClientSends(c) \/ ClientGetsCookie(c) \/ ClientIgnores(c)
  BY <1>6 DEF ClientSends, ClientGetsCookie, ClientIgnores, clientVars
<1> QED BY <1>1, <1>3, <1>4, <1>5, <1>6 DEF ClientNext

LEMMA ServerClientType ==
  ASSUME ClientType, NEW c \in Clients, ServerNext(c)
  PROVE  ClientType'
BY DEF ServerNext, ClientType, clientVars, ServerGetsRequest, ServerGetsCookie,
       ServerGetsResponse, ServerGetsDisconnect, ServerGetsData, ServerTimesOut, ServerSends,
       PendingExpires, ServerDisconnect, ServerRetriesDisconnect, DisconnectAnswered

\* Packets are sent to and from clients, and duplicates stay within their bound.
LEMMA ServerSentTyped ==
  ASSUME NetworkType, NEW c \in Clients, NEW type \in ServerPackets, Server(c, type)
  PROVE  to_client' \subseteq [to : Clients, type : ServerPackets]
BY DEF NetworkType, Server

LEMMA ClientSentTyped ==
  ASSUME NetworkType, NEW c \in Clients, NEW type \in ClientPackets, Client(c, type)
  PROVE  to_server' \subseteq [from : Clients, type : ClientPackets]
BY DEF NetworkType, Client

LEMMA AtServerTyped ==
  ASSUME NetworkType, NEW c, NEW type, AtServer(c, type)
  PROVE  /\ to_server' \subseteq [from : Clients, type : ClientPackets]
         /\ duplicated' \in 0 .. MaxDuplicates
BY SessionAssumption DEF NetworkType, AtServer, Arrives

LEMMA AtClientTyped ==
  ASSUME NetworkType, NEW c \in Clients, NEW type, NEW sends \in SUBSET ClientPackets,
         AtClient(c, type, sends)
  PROVE  /\ to_server' \subseteq [from : Clients, type : ClientPackets]
         /\ to_client' \subseteq [to : Clients, type : ServerPackets]
         /\ duplicated' \in 0 .. MaxDuplicates
BY SessionAssumption DEF NetworkType, AtClient, Arrives

LEMMA ClientNetworkType ==
  ASSUME NetworkType, NEW c \in Clients, ClientNext(c)
  PROVE  NetworkType'
<1>1. /\ "Request" \in ClientPackets /\ "Disconnect" \in ClientPackets
      /\ "Data" \in ClientPackets /\ {} \in SUBSET ClientPackets
      /\ {"Response"} \in SUBSET ClientPackets /\ {"RequestWithCookie"} \in SUBSET ClientPackets
  BY DEF ClientPackets
<1>2. calls < MaxCalls => calls + 1 \in 0 .. MaxCalls
  BY SessionAssumption DEF NetworkType
<1>3. CASE Connect(c) \/ ClientDisconnect(c) \/ ClientShutdown(c)
  BY <1>1, <1>2, <1>3, ClientSentTyped
     DEF Connect, ClientDisconnect, ClientShutdown, NetworkType
<1>4. CASE ClientTimesOut(c)
  BY <1>4 DEF ClientTimesOut, NetworkType, networkVars
<1>5. CASE ClientRetriesDisconnect(c)
  <2>1. to_server' \subseteq [from : Clients, type : ClientPackets]
    BY <1>1, <1>5, ClientSentTyped DEF ClientRetriesDisconnect, NetworkType
  <2> QED BY <1>5, <2>1 DEF ClientRetriesDisconnect, NetworkType
<1>6. CASE ClientSends(c)
  BY <1>1, <1>6, ClientSentTyped DEF ClientSends, NetworkType
<1>7. CASE \/ ClientGetsCookie(c) \/ ClientGetsChallenge(c) \/ ClientGetsAccept(c)
           \/ ClientIsTurnedAway(c) \/ ClientGetsData(c) \/ ClientIgnores(c)
  <2>1. PICK type : \E sends \in SUBSET ClientPackets : AtClient(c, type, sends)
    <3>1. ASSUME NEW type, NEW sends \in SUBSET ClientPackets, AtClient(c, type, sends)
          PROVE  \E t : \E s \in SUBSET ClientPackets : AtClient(c, t, s)
      BY <3>1
    <3>2. CASE ClientGetsCookie(c)
      BY <1>1, <3>1, <3>2 DEF ClientGetsCookie
    <3>3. CASE ClientGetsChallenge(c)
      BY <1>1, <3>1, <3>3 DEF ClientGetsChallenge
    <3>4. CASE ClientGetsAccept(c) \/ ClientGetsData(c)
      BY <1>1, <3>1, <3>4 DEF ClientGetsAccept, ClientGetsData
    <3>5. CASE ClientIsTurnedAway(c)
      BY <1>1, <3>1, <3>5 DEF ClientIsTurnedAway
    <3>6. CASE ClientIgnores(c)
      BY <1>1, <3>1, <3>6 DEF ClientIgnores
    <3> QED BY <1>7, <3>2, <3>3, <3>4, <3>5, <3>6
  <2>2. calls' = calls
    BY <1>7 DEF ClientGetsCookie, ClientGetsChallenge, ClientGetsAccept,
                ClientIsTurnedAway, ClientGetsData, ClientIgnores
  <2> QED BY <2>1, <2>2, AtClientTyped DEF NetworkType
<1> QED BY <1>3, <1>4, <1>5, <1>6, <1>7 DEF ClientNext

LEMMA ServerNetworkType ==
  ASSUME NetworkType, NEW c \in Clients, ServerNext(c)
  PROVE  NetworkType'
<1>1. /\ "Cookie" \in ServerPackets /\ "Challenge" \in ServerPackets
      /\ "Accept" \in ServerPackets /\ "Deny" \in ServerPackets
      /\ "Disconnect" \in ServerPackets /\ "Data" \in ServerPackets
  BY DEF ServerPackets
<1>2. calls < MaxCalls => calls + 1 \in 0 .. MaxCalls
  BY SessionAssumption DEF NetworkType
<1>3. to_client' = to_client => to_client' \subseteq [to : Clients, type : ServerPackets]
  BY DEF NetworkType
<1>4. AdmitOrDeny(c) => to_client' \subseteq [to : Clients, type : ServerPackets]
  BY <1>1, <1>3, ServerSentTyped DEF AdmitOrDeny
<1>5. CASE \/ ServerGetsRequest(c) \/ ServerGetsCookie(c) \/ ServerGetsResponse(c)
           \/ ServerGetsDisconnect(c) \/ ServerGetsData(c) \/ DisconnectAnswered(c)
  <2>1. calls' = calls
    BY <1>5 DEF ServerGetsRequest, ServerGetsCookie, ServerGetsResponse,
                ServerGetsDisconnect, ServerGetsData, DisconnectAnswered
  <2>2. PICK type : AtServer(c, type)
    BY <1>5 DEF ServerGetsRequest, ServerGetsCookie, ServerGetsResponse,
                ServerGetsDisconnect, ServerGetsData, DisconnectAnswered
  <2>3. to_client' \subseteq [to : Clients, type : ServerPackets]
    BY <1>1, <1>3, <1>4, <1>5, ServerSentTyped
       DEF ServerGetsRequest, ServerGetsCookie, ServerGetsResponse,
           ServerGetsDisconnect, ServerGetsData, DisconnectAnswered
  <2> QED BY <2>1, <2>2, <2>3, AtServerTyped DEF NetworkType
<1>6. CASE ServerTimesOut(c) \/ PendingExpires(c)
  BY <1>6 DEF ServerTimesOut, PendingExpires, NetworkType, networkVars
<1>7. CASE ServerSends(c) \/ ServerDisconnect(c) \/ ServerRetriesDisconnect(c)
  <2>1. to_client' \subseteq [to : Clients, type : ServerPackets]
    BY <1>1, <1>3, <1>7, ServerSentTyped
       DEF ServerSends, ServerDisconnect, ServerRetriesDisconnect
  <2>2. calls' \in 0 .. MaxCalls
    BY <1>2, <1>7 DEF ServerSends, ServerDisconnect, ServerRetriesDisconnect, NetworkType
  <2> QED BY <1>7, <2>1, <2>2
          DEF ServerSends, ServerDisconnect, ServerRetriesDisconnect, NetworkType
<1> QED BY <1>5, <1>6, <1>7 DEF ServerNext

\* Only opening a connection needs more than the types: its id is within ConnectionIds
\* because the challenge it answers is one of the handshakes counted.
LEMMA NextId ==
  ASSUME TypeOK, HandshakesCounted, DOMAIN pending # {}
  PROVE  opened + 1 \in ConnectionIds
<1>1. /\ Cardinality(DOMAIN pending) \in Nat
      /\ Cardinality(Openings) \in Nat /\ Cardinality(Cookies) \in Nat
      /\ opened \in Nat /\ calls \in Nat /\ duplicated \in Nat
  BY CountsTyped
<1>2. Cardinality(DOMAIN pending) # 0
  <2>1. IsFiniteSet(DOMAIN pending)
    BY Finite
  <2> QED BY <2>1, FS_EmptySet
<1>3. calls <= MaxCalls /\ duplicated <= MaxDuplicates
      /\ MaxCalls \in Nat /\ MaxDuplicates \in Nat
  BY SessionAssumption DEF TypeOK
<1>4. opened + Cardinality(DOMAIN pending) + Cardinality(Openings) + Cardinality(Cookies)
        <= calls + duplicated
  BY DEF HandshakesCounted
<1>5. opened + 1 <= MaxCalls + MaxDuplicates
  BY <1>1, <1>2, <1>3, <1>4
<1> QED BY <1>1, <1>3, <1>5 DEF ConnectionIds

LEMMA ServerTypeStep ==
  ASSUME TypeOK, ServerType, HandshakesCounted, NEW c \in Clients, ServerNext(c)
  PROVE  ServerType'
<1> USE AgesClosed
<1>1. AdmitOrDeny(c) =>
        DOMAIN pending' \subseteq Clients /\ pending' \in [DOMAIN pending' -> Ages]
  BY DEF AdmitOrDeny, Put, ServerType
<1>2. CASE ServerGetsRequest(c) \/ ServerGetsCookie(c)
  BY <1>1, <1>2 DEF ServerGetsRequest, ServerGetsCookie, ServerType
<1>3. DOMAIN Drop(pending, c) \subseteq Clients
      /\ Drop(pending, c) \in [DOMAIN Drop(pending, c) -> Ages]
  BY DropType DEF ServerType
<1>4. DOMAIN Drop(connections, c) \subseteq Clients
      /\ Drop(connections, c) \in [DOMAIN Drop(connections, c) -> Connections]
  BY DropType DEF ServerType
<1>5. DOMAIN Drop(disconnecting, c) \subseteq Clients
      /\ Drop(disconnecting, c) \in [DOMAIN Drop(disconnecting, c) -> Goodbyes]
  BY DropType DEF ServerType
<1>6. CASE ServerGetsResponse(c)
  <2>1. UNCHANGED <<disconnecting, migration_cooldowns>>
        /\ (pending' = pending \/ pending' = Drop(pending, c))
    BY <1>6 DEF ServerGetsResponse, Answered
  <2>2. CASE UNCHANGED <<connections, opened>>
    BY <1>3, <2>1, <2>2 DEF ServerType
  <2>3. CASE c \in DOMAIN pending /\ opened' = opened + 1 /\
             connections' = Put(connections, c, [id |-> opened + 1, client |-> c, age |-> 0])
    <3> DEFINE connection == [id |-> opened + 1, client |-> c, age |-> 0]
    <3>1. opened + 1 \in ConnectionIds
      BY <2>3, NextId
    <3>2. connection \in Connections
      BY <3>1 DEF Connections
    <3> HIDE DEF connection
    <3>3. DOMAIN Put(connections, c, connection) \subseteq Clients
          /\ Put(connections, c, connection)
               \in [DOMAIN Put(connections, c, connection) -> Connections]
      BY <3>2, PutType DEF ServerType
    <3>4. connections' = Put(connections, c, connection)
      BY <2>3 DEF connection
    <3> QED BY <1>3, <2>1, <2>3, <3>1, <3>3, <3>4 DEF ServerType
  <2> QED BY <1>6, <2>2, <2>3 DEF ServerGetsResponse
<1>7. CASE ServerGetsDisconnect(c) \/ ServerTimesOut(c)
  BY <1>4, <1>7 DEF ServerGetsDisconnect, ServerTimesOut, ServerType
<1>8. CASE ServerGetsData(c)
  <2>1. \A a \in DOMAIN connections : Touched(a) \in Connections
    BY DEF Touched, Connections, ServerType
  <2>2. CASE UNCHANGED <<connections, migration_cooldowns>>
    BY <1>8, <2>2 DEF ServerGetsData, ServerType
  <2>3. CASE c \in DOMAIN connections /\ connections' = Put(connections, c, Touched(c))
             /\ UNCHANGED migration_cooldowns
    <3> DEFINE touched == Touched(c)
    <3>1. touched \in Connections /\ connections' = Put(connections, c, touched)
      BY <2>1, <2>3
    <3> HIDE DEF touched
    <3>2. DOMAIN connections' \subseteq Clients
          /\ connections' \in [DOMAIN connections' -> Connections]
      BY <3>1, PutType DEF ServerType
    <3> QED BY <1>8, <2>3, <3>2 DEF ServerGetsData, ServerType
  <2>4. ASSUME NEW a \in DOMAIN connections, NEW conn \in {Touched(a), connections[a]},
               connections' = Moved(a, c, conn),
               migration_cooldowns' = Put(migration_cooldowns, connections[a].id, 0)
        PROVE  ServerType'
    <3> DEFINE rest == Drop(connections, a)
               id   == connections[a].id
    <3>1. DOMAIN rest \subseteq Clients /\ rest \in [DOMAIN rest -> Connections]
      BY DropType DEF ServerType
    <3>2. conn \in Connections /\ connections' = Put(rest, c, conn)
      BY <2>1, <2>4 DEF Moved, ServerType
    <3>3. id \in ConnectionIds /\ migration_cooldowns' = Put(migration_cooldowns, id, 0)
      BY <2>4 DEF ServerType, Connections
    <3> HIDE DEF rest, id
    <3>4. /\ DOMAIN connections' \subseteq Clients
          /\ connections' \in [DOMAIN connections' -> Connections]
      BY <3>1, <3>2, PutType
    <3>5. /\ DOMAIN migration_cooldowns' \subseteq ConnectionIds
          /\ migration_cooldowns' \in [DOMAIN migration_cooldowns' -> Ages]
      BY <3>3, PutType DEF ServerType
    <3> QED BY <1>8, <3>4, <3>5 DEF ServerGetsData, ServerType
  <2> QED BY <1>8, <2>2, <2>3, <2>4 DEF ServerGetsData
<1>9. CASE ServerSends(c)
  BY <1>9 DEF ServerSends, ServerType, serverVars
<1>10. CASE PendingExpires(c)
  BY <1>3, <1>10 DEF PendingExpires, ServerType
<1>11. CASE ServerDisconnect(c)
  <2> DEFINE goodbye == [age |-> 0, retry_count |-> 0]
  <2>1. goodbye \in Goodbyes
    BY SessionAssumption DEF Goodbyes
  <2>2. disconnecting' = Put(disconnecting, c, goodbye)
    BY <1>11 DEF ServerDisconnect
  <2> HIDE DEF goodbye
  <2>3. /\ DOMAIN disconnecting' \subseteq Clients
        /\ disconnecting' \in [DOMAIN disconnecting' -> Goodbyes]
    BY <2>1, <2>2, PutType DEF ServerType
  <2> QED BY <1>4, <1>11, <2>3 DEF ServerDisconnect, ServerType
<1>12. CASE ServerRetriesDisconnect(c)
  <2>1. CASE disconnecting' = Drop(disconnecting, c)
    BY <1>5, <1>12, <2>1 DEF ServerRetriesDisconnect, ServerType
  <2>2. CASE disconnecting[c].retry_count < DisconnectRetries
             /\ disconnecting' = [disconnecting EXCEPT
                  ![c] = [age |-> 0, retry_count |-> @.retry_count + 1]]
    <3> DEFINE goodbye == [age |-> 0, retry_count |-> disconnecting[c].retry_count + 1]
    <3>1. c \in DOMAIN disconnecting /\ disconnecting[c] \in Goodbyes
      BY <1>12 DEF ServerRetriesDisconnect, ServerType
    <3>2. disconnecting[c].retry_count + 1 \in 0 .. DisconnectRetries
      BY <2>2, <3>1, SessionAssumption DEF Goodbyes
    <3>3. goodbye \in Goodbyes
      BY <3>2 DEF Goodbyes
    <3>4. disconnecting' = [disconnecting EXCEPT ![c] = goodbye]
      BY <2>2
    <3> HIDE DEF goodbye
    <3> QED BY <1>12, <3>1, <3>3, <3>4 DEF ServerRetriesDisconnect, ServerType
  <2> QED BY <1>12, <2>1, <2>2 DEF ServerRetriesDisconnect
<1>13. CASE DisconnectAnswered(c)
  BY <1>5, <1>13 DEF DisconnectAnswered, ServerType
<1> QED BY <1>2, <1>6, <1>7, <1>8, <1>9, <1>10, <1>11, <1>12, <1>13 DEF ServerNext

LEMMA TickType ==
  ASSUME TypeOK, Tick
  PROVE  TypeOK'
<1> USE AgesClosed
<1>1. ClientType' /\ NetworkType'
  BY TypeParts DEF Tick, ClientType, NetworkType, networkVars
<1>2. ASSUME NEW a \in DOMAIN connections
      PROVE  [connections[a] EXCEPT !.age = Older(connections[a].age)] \in Connections
  BY DEF TypeOK, Connections
<1>3. ASSUME NEW a \in DOMAIN disconnecting
      PROVE  [disconnecting[a] EXCEPT !.age = Older(disconnecting[a].age)] \in Goodbyes
  BY DEF TypeOK, Goodbyes
<1>4. ServerType'
  BY <1>2, <1>3, TypeParts DEF Tick, ServerType
<1> QED BY <1>1, <1>4, TypeParts DEF Tick

LEMMA TypeStep ==
  ASSUME TypeOK, HandshakesCounted, [Next]_vars
  PROVE  TypeOK'
<1>1. ClientType /\ NetworkType /\ ServerType /\ config \in Configs
  BY TypeParts
<1>2. config' = config
  BY NextTables DEF TableStep
<1>3. ASSUME NEW c \in Clients, ClientNext(c) PROVE TypeOK'
  <2>1. UNCHANGED serverVars
    BY <1>3 DEF ClientNext, Connect, ClientDisconnect, ClientShutdown, ClientTimesOut,
       ClientRetriesDisconnect, ClientSends, ClientGetsCookie, ClientGetsChallenge,
       ClientGetsAccept, ClientIsTurnedAway, ClientGetsData, ClientIgnores
  <2>2. ServerType'
    BY <1>1, <2>1 DEF ServerType, serverVars
  <2> QED BY <1>1, <1>2, <1>3, <2>2, TypeParts, ClientTypeStep, ClientNetworkType
<1>4. ASSUME NEW c \in Clients, ServerNext(c) PROVE TypeOK'
  BY <1>1, <1>2, <1>4, TypeParts, ServerClientType, ServerNetworkType, ServerTypeStep
<1>5. ASSUME NEW id, CooldownEnds(id) PROVE TypeOK'
  <2>1. /\ DOMAIN migration_cooldowns' \subseteq ConnectionIds
        /\ migration_cooldowns' \in [DOMAIN migration_cooldowns' -> Ages]
    BY <1>1, <1>5, DropType DEF CooldownEnds, ServerType
  <2> QED BY <1>1, <1>5, <2>1, TypeParts
          DEF CooldownEnds, ClientType, NetworkType, ServerType, clientVars, networkVars
<1>6. ASSUME NEW p, LoseToServer(p) \/ LoseToClient(p) PROVE TypeOK'
  BY <1>1, <1>6, TypeParts
     DEF LoseToServer, LoseToClient, ClientType, NetworkType, ServerType, clientVars, serverVars
<1>7. CASE UNCHANGED vars
  BY <1>1, <1>7, TypeParts
     DEF vars, ClientType, NetworkType, ServerType, clientVars, serverVars, networkVars
<1> QED BY <1>3, <1>4, <1>5, <1>6, <1>7, TickType DEF Next

-----------------------------------------------------------------------------
(* The theorems *)

LEMMA NextIInv == IInv /\ [Next]_vars => IInv'
<1> SUFFICES ASSUME IInv, [Next]_vars PROVE IInv'
  OBVIOUS
<1> QED BY TypeStep, NextTables, TablesStep, CountStep DEF IInv

\* The inductive invariant of the handshake: types, bounds, ids in the order they were
\* issued, and a handshake begun for every connection, challenge and cookie.
THEOREM SessionInvariance == Spec => []IInv
<1> QED BY InitIInv, NextIInv, PTL DEF Spec

\* Every variable keeps its type; in particular a connection id is never issued more
\* often than connect() was called or a packet repeated (server.rs: handle_connection_response).
THEOREM SessionTypeCorrect == Spec => []TypeOK
<1>1. IInv => TypeOK
  BY DEF IInv
<1> QED BY <1>1, SessionInvariance, PTL

\* The server never challenges more than max_pending clients and never holds more than
\* max_clients - 1 + max_pending connections and challenges together, although a
\* response is accepted without looking at max_clients again.
THEOREM AdmissionAlwaysBounded == Spec => []AdmissionBounded
<1>1. IInv => AdmissionBounded
  BY DEF IInv, Tables
<1> QED BY <1>1, SessionInvariance, PTL

\* No connection is at two addresses, however it migrated; and without migration the
\* server never challenges a client it has a connection for.
THEOREM TablesAlwaysAgree == Spec => []ServerTablesAgree
<1>1. IInv => ServerTablesAgree
  BY DEF IInv, Tables
<1> QED BY <1>1, SessionInvariance, PTL
=============================================================================
