------------------------- MODULE ProtocolSyncProofs -------------------------
(***************************************************************************)
(* Proofs about ProtocolSync for any number of clients, connections,       *)
(* resources, actions and messages: the registration of clients at the     *)
(* protocol server, the types of the state, what a client makes of what it *)
(* does and receives, and what it holds of the host's log.                 *)
(***************************************************************************)
EXTENDS ProtocolSync, SubsequenceLemmas

IsSeq(q) == q \in Seq(ToSet(q))
IsHandshake(m) == m.type \in {"initialize", "reconnect"}

-----------------------------------------------------------------------------
(* Sequences of messages *)

\* A sequence is one over the set of its elements.
LEMMA SeqIsSeq ==
  ASSUME NEW S, NEW q \in Seq(S)
  PROVE  IsSeq(q)
BY SeqOfRange DEF IsSeq, ToSet, Range

\* Appending a message to a queue leaves the others where they are.
LEMMA AppendToQueue ==
  ASSUME NEW q, NEW m, IsSeq(q)
  PROVE  /\ IsSeq(Append(q, m))
         /\ Len(Append(q, m)) = Len(q) + 1
         /\ Append(q, m)[Len(q) + 1] = m
         /\ \A i \in 1 .. Len(q) : Append(q, m)[i] = q[i]
<1> DEFINE S == ToSet(q) \cup {m}
<1>1. q \in Seq(S)
  BY DEF IsSeq
<1>2. m \in S
  OBVIOUS
<1> HIDE DEF S
<1>3. Append(q, m) \in Seq(S)
  BY <1>1, <1>2
<1>4. /\ Len(Append(q, m)) = Len(q) + 1
      /\ Append(q, m)[Len(q) + 1] = m
      /\ \A i \in 1 .. Len(q) : Append(q, m)[i] = q[i]
  BY <1>1, <1>2
<1>5. IsSeq(Append(q, m))
  BY <1>3, SeqIsSeq
<1> QED
  BY <1>4, <1>5

\* Taking the first message of a queue moves the others one place forward.
LEMMA TailOfQueue ==
  ASSUME NEW q, IsSeq(q), q # <<>>
  PROVE  /\ IsSeq(Tail(q))
         /\ Len(q) >= 1
         /\ Head(q) = q[1]
         /\ Len(Tail(q)) = Len(q) - 1
         /\ \A i \in 1 .. Len(Tail(q)) : Tail(q)[i] = q[i + 1]
<1>1. Tail(q) \in Seq(ToSet(q))
  BY DEF IsSeq
<1>2. IsSeq(Tail(q))
  BY <1>1, SeqIsSeq
<1>3. /\ Len(q) >= 1
      /\ Head(q) = q[1]
      /\ Len(Tail(q)) = Len(q) - 1
      /\ \A i \in 1 .. Len(Tail(q)) : Tail(q)[i] = q[i + 1]
  BY DEF IsSeq
<1> QED
  BY <1>2, <1>3

\* The first messages of a queue are its messages.
LEMMA StartOfQueue ==
  ASSUME NEW q, IsSeq(q), NEW n \in 0 .. Len(q)
  PROVE  /\ IsSeq(SubSeq(q, 1, n))
         /\ Len(SubSeq(q, 1, n)) = n
         /\ \A i \in 1 .. n : SubSeq(q, 1, n)[i] = q[i]
<1>1. /\ Len(SubSeq(q, 1, n)) = n
      /\ \A i \in 1 .. n : SubSeq(q, 1, n)[i] = q[i]
      /\ SubSeq(q, 1, n) \in Seq(ToSet(q))
  BY DEF IsSeq
<1>2. IsSeq(SubSeq(q, 1, n))
  BY <1>1, SeqIsSeq
<1> QED
  BY <1>1, <1>2

-----------------------------------------------------------------------------
(* The inductive invariant *)

\* What the proof has to know of the kinds of values the variables hold.
Shape ==
  /\ "clients" \in DOMAIN server
  /\ DOMAIN server.clients = ClientId
  /\ DOMAIN conns = Conn
  /\ \A k \in Conn : "client" \in DOMAIN conns[k]
  /\ DOMAIN line = Conn
  /\ DOMAIN up = Conn
  /\ \A k \in Conn : IsSeq(up[k])
  /\ DOMAIN clients = ClientId
  /\ \A c \in ClientId : "conn" \in DOMAIN clients[c]

\* A connection that is not in use is not known to anybody.
UnusedIsFresh ==
  \A k \in Conn : line[k] = "unused" => up[k] = <<>> /\ conns[k].client = Absent

\* Clients use open connections, each its own.
ConnsAreOwned ==
  \A c \in ClientId : clients[c].conn # Absent =>
    /\ clients[c].conn \in Conn
    /\ line[clients[c].conn] = "open"
    /\ \A d \in ClientId : clients[d].conn = clients[c].conn => d = c

\* A handshake is the first message of its connection, which is the one that its
\* sender uses, and the server does not know the connection yet.
HandshakesAreFirst ==
  \A k \in Conn : \A i \in 1 .. Len(up[k]) : IsHandshake(up[k][i]) =>
    /\ i = 1
    /\ conns[k].client = Absent
    /\ up[k][i].client \in ClientId
    /\ clients[up[k][i].client].conn = k

RegistrationInv ==
  Shape /\ UnusedIsFresh /\ ConnsAreOwned /\ HandshakesAreFirst
        /\ StaleCloseIsHarmless

USE DEF RegistrationInv

LEMMA RegistrationInit ==
  ASSUME SyncAssumption, Init
  PROVE  RegistrationInv
<1>1. \A k \in Conn : IsSeq(up[k]) /\ Len(up[k]) = 0
  <2>1. <<>> \in Seq({}) /\ Len(<<>>) = 0
    OBVIOUS
  <2>2. IsSeq(<<>>)
    BY <2>1, SeqIsSeq
  <2> QED
    BY <2>1, <2>2 DEF Init
<1>2. Shape
  BY <1>1 DEF Init, Shape, NewConn, NewClient
<1>3. UnusedIsFresh /\ ConnsAreOwned /\ StaleCloseIsHarmless
  BY DEF Init, UnusedIsFresh, ConnsAreOwned, StaleCloseIsHarmless, Joined,
         NewConn, NewClient
<1>4. HandshakesAreFirst
  BY <1>1 DEF HandshakesAreFirst
<1> QED
  BY <1>2, <1>3, <1>4

-----------------------------------------------------------------------------
(* Steps that leave the registration alone *)

\* Nobody connects, registers or leaves.
SameUsers ==
  /\ "clients" \in DOMAIN server'
  /\ server'.clients = server.clients
  /\ DOMAIN conns' = Conn
  /\ \A k \in Conn :
       "client" \in DOMAIN conns'[k] /\ conns'[k].client = conns[k].client
  /\ line' = line
  /\ DOMAIN clients' = ClientId
  /\ \A c \in ClientId :
       "conn" \in DOMAIN clients'[c] /\ clients'[c].conn = clients[c].conn

\* No handshake is sent, and none but the first message is taken.
NoNewHandshake ==
  /\ DOMAIN up' = Conn
  /\ \A k \in Conn :
       /\ IsSeq(up'[k])
       /\ line[k] = "unused" => up'[k] = <<>>
       /\ \A i \in 1 .. Len(up'[k]) : IsHandshake(up'[k][i]) =>
            i \in 1 .. Len(up[k]) /\ up'[k][i] = up[k][i]

LEMMA SameUsersKeepRegistration ==
  ASSUME RegistrationInv, SameUsers, NoNewHandshake
  PROVE  RegistrationInv'
<1>1. Shape'
  BY DEF Shape, SameUsers, NoNewHandshake
<1>2. UnusedIsFresh'
  BY DEF UnusedIsFresh, SameUsers, NoNewHandshake
<1>3. ConnsAreOwned'
  BY DEF ConnsAreOwned, SameUsers
<1>4. HandshakesAreFirst'
  BY DEF HandshakesAreFirst, SameUsers, NoNewHandshake
<1>5. StaleCloseIsHarmless'
  <2> SUFFICES ASSUME NEW c \in ClientId, Joined(c)'
               PROVE  server'.clients[c] = clients'[c].conn
    BY DEF StaleCloseIsHarmless
  <2>1. clients[c].conn \in Conn
    BY DEF ConnsAreOwned, SameUsers, Joined
  <2>2. Joined(c)
    BY <2>1 DEF SameUsers, Joined
  <2> QED
    BY <2>2 DEF SameUsers, StaleCloseIsHarmless
<1> QED
  BY <1>1, <1>2, <1>3, <1>4, <1>5

\* A queue that is not touched gets no handshake.
LEMMA SameQueues ==
  ASSUME RegistrationInv, up' = up
  PROVE  NoNewHandshake
BY DEF Shape, UnusedIsFresh, NoNewHandshake

\* Clients that use a connection send no second handshake.
LEMMA SentIsNoHandshake ==
  ASSUME RegistrationInv, NEW k \in Conn, line[k] = "open", NEW m,
         ~IsHandshake(m), Sent(k, m)
  PROVE  NoNewHandshake
<1> DEFINE q == up[k]
<1>1. IsSeq(q)
  BY DEF Shape
<1>2. up'[k] = Append(q, m) /\ DOMAIN up' = Conn
  BY DEF Shape, Sent
<1>3. \A j \in Conn : j # k => up'[j] = up[j]
  BY DEF Shape, Sent
<1> HIDE DEF q
<1>4. /\ IsSeq(up'[k])
      /\ \A i \in 1 .. Len(up'[k]) : IsHandshake(up'[k][i]) =>
           i \in 1 .. Len(q) /\ up'[k][i] = q[i]
  <2>1. Len(q) \in Nat
    BY <1>1 DEF IsSeq
  <2>2. \A i \in 1 .. Len(q) + 1 : i \in 1 .. Len(q) \/ i = Len(q) + 1
    BY <2>1
  <2> QED
    BY <1>1, <1>2, <2>2, AppendToQueue
<1>5. q = up[k]
  BY DEF q
<1> QED
  BY <1>2, <1>3, <1>4, <1>5 DEF NoNewHandshake, Shape, UnusedIsFresh

\* Behind the message that the server takes there is no handshake.
LEMMA TakenLeavesNoHandshake ==
  ASSUME RegistrationInv, NEW k \in Conn, NEW type, Takes(k, type)
  PROVE  /\ NoNewHandshake
         /\ Len(up[k]) >= 1
         /\ up[k][1].type = type
         /\ \A i \in 1 .. Len(up'[k]) : ~IsHandshake(up'[k][i])
<1>1. IsSeq(up[k]) /\ up[k] # <<>> /\ line[k] # "unused"
  BY DEF Shape, Takes
<1>2. up'[k] = Tail(up[k]) /\ DOMAIN up' = Conn
  BY DEF Shape, Takes
<1>3. \A j \in Conn : j # k => up'[j] = up[j]
  BY DEF Shape, Takes
<1>4. /\ IsSeq(up'[k])
      /\ Len(up[k]) >= 1
      /\ up[k][1] = Head(up[k])
      /\ Len(up'[k]) = Len(up[k]) - 1
      /\ \A i \in 1 .. Len(up'[k]) : up'[k][i] = up[k][i + 1]
  BY <1>1, <1>2, TailOfQueue
<1>5. Len(up[k]) \in Nat
  BY <1>1 DEF IsSeq
<1>6. \A i \in 1 .. Len(up'[k]) : ~IsHandshake(up'[k][i])
  <2> SUFFICES ASSUME NEW i \in 1 .. Len(up'[k]), IsHandshake(up'[k][i])
               PROVE  FALSE
    OBVIOUS
  <2>1. i + 1 \in 1 .. Len(up[k]) /\ i + 1 # 1
    BY <1>4, <1>5
  <2>2. IsHandshake(up[k][i + 1])
    BY <1>4
  <2> QED
    BY <2>1, <2>2 DEF HandshakesAreFirst
<1>7. NoNewHandshake
  BY <1>1, <1>2, <1>3, <1>4, <1>6 DEF NoNewHandshake, Shape, UnusedIsFresh
<1> QED
  BY <1>4, <1>6, <1>7 DEF Takes

-----------------------------------------------------------------------------
(* Steps that change the registration *)

\* A client opens a connection and sends the handshake m on it.
LEMMA OpeningKeepsRegistration ==
  ASSUME SyncAssumption, RegistrationInv,
         NEW c \in ClientId, NEW k \in Conn, NEW m,
         clients[c].conn = Absent,
         line[k] = "unused",
         line' = [line EXCEPT ![k] = "open"],
         clients' = [clients EXCEPT ![c].conn = k],
         Sent(k, m), IsHandshake(m), m.client = c,
         UNCHANGED <<server, conns>>
  PROVE  RegistrationInv'
<1>1. up[k] = <<>> /\ conns[k].client = Absent
  BY DEF UnusedIsFresh
<1>2. IsSeq(up[k]) /\ Len(up[k]) = 0
  BY <1>1 DEF Shape
<1>3. /\ DOMAIN up' = Conn
      /\ up'[k] = Append(up[k], m)
      /\ \A j \in Conn : j # k => up'[j] = up[j]
  BY DEF Shape, Sent
<1>4. IsSeq(up'[k]) /\ Len(up'[k]) = 1 /\ up'[k][1] = m
  BY <1>2, <1>3, AppendToQueue
<1>5. /\ clients'[c].conn = k
      /\ \A d \in ClientId : d # c => clients'[d] = clients[d]
  BY DEF Shape
<1>6. Shape'
  BY <1>3, <1>4 DEF Shape
<1>7. UnusedIsFresh'
  BY <1>3 DEF UnusedIsFresh, Shape
<1>8. ConnsAreOwned'
  BY <1>5 DEF ConnsAreOwned, Shape
<1>9. HandshakesAreFirst'
  <2> SUFFICES ASSUME NEW j \in Conn, NEW i \in 1 .. Len(up'[j]),
                      IsHandshake(up'[j][i])
               PROVE  /\ i = 1
                      /\ conns[j].client = Absent
                      /\ up'[j][i].client \in ClientId
                      /\ clients'[up'[j][i].client].conn = j
    BY DEF HandshakesAreFirst
  <2>1. CASE j = k
    BY <2>1, <1>1, <1>4, <1>5
  <2>2. CASE j # k
    <3>1. /\ i = 1
          /\ conns[j].client = Absent
          /\ up[j][i].client \in ClientId
          /\ clients[up[j][i].client].conn = j
      BY <2>2, <1>3 DEF HandshakesAreFirst
    <3>2. up[j][i].client # c
      BY <3>1 DEF SyncAssumption
    <3> QED
      BY <2>2, <1>3, <1>5, <3>1, <3>2
  <2> QED
    BY <2>1, <2>2
<1>10. StaleCloseIsHarmless'
  BY <1>1, <1>5 DEF StaleCloseIsHarmless, Joined, SyncAssumption
<1> QED
  BY <1>6, <1>7, <1>8, <1>9, <1>10

LEMMA ConnectKeepsRegistration ==
  ASSUME SyncAssumption, RegistrationInv,
         NEW c \in ClientId, NEW k \in Conn, NEW rs \in Initial, Connect(c, k, rs)
  PROVE  RegistrationInv'
<1> DEFINE m == [type |-> "initialize", client |-> c, subs |-> rs]
<1>1. IsHandshake(m) /\ m.client = c
  BY DEF IsHandshake
<1>2. Sent(k, m)
  BY DEF Connect
<1> HIDE DEF m
<1> QED
  BY <1>1, <1>2, OpeningKeepsRegistration DEF Connect

LEMMA ReconnectKeepsRegistration ==
  ASSUME SyncAssumption, RegistrationInv,
         NEW c \in ClientId, NEW k \in Conn, Reconnect(c, k)
  PROVE  RegistrationInv'
<1> DEFINE m == [type |-> "reconnect", client |-> c,
                 lastSeen |-> views[c].lastSeen,
                 subs |-> DOMAIN views[c].confirmed]
<1>1. IsHandshake(m) /\ m.client = c
  BY DEF IsHandshake
<1>2. Sent(k, m)
  BY DEF Reconnect
<1> HIDE DEF m
<1> QED
  BY <1>1, <1>2, OpeningKeepsRegistration DEF Reconnect

\* The server takes a handshake: it registers the sender with the connection.
LEMMA HandshakeKeepsRegistration ==
  ASSUME SyncAssumption, RegistrationInv, NEW k \in Conn,
         NEW type \in {"initialize", "reconnect"}, Takes(k, type),
         server' = [server EXCEPT !.clients[Head(up[k]).client] = k],
         conns' = [conns EXCEPT ![k].client = Head(up[k]).client,
                                ![k].subs = Head(up[k]).subs],
         UNCHANGED <<line, clients>>
  PROVE  RegistrationInv'
<1> DEFINE d == Head(up[k]).client
<1>1. /\ NoNewHandshake
      /\ Len(up[k]) >= 1
      /\ up[k][1].type = type
      /\ \A i \in 1 .. Len(up'[k]) : ~IsHandshake(up'[k][i])
  BY TakenLeavesNoHandshake
<1>2. IsSeq(up[k]) /\ up[k] # <<>>
  BY DEF Shape, Takes
<1>3. Head(up[k]) = up[k][1] /\ 1 \in 1 .. Len(up[k])
  BY <1>1, <1>2, TailOfQueue DEF IsSeq
<1>4. d \in ClientId /\ clients[d].conn = k /\ conns[k].client = Absent
  BY <1>1, <1>3 DEF HandshakesAreFirst, IsHandshake
<1>5. /\ "clients" \in DOMAIN server'
      /\ server'.clients = [server.clients EXCEPT ![d] = k]
  BY DEF Shape
<1>6. /\ DOMAIN conns' = Conn
      /\ conns'[k].client = d
      /\ \A j \in Conn : "client" \in DOMAIN conns'[j]
      /\ \A j \in Conn : j # k => conns'[j] = conns[j]
  BY DEF Shape
<1> HIDE DEF d
<1>7. Shape'
  BY <1>1, <1>5, <1>6 DEF Shape, NoNewHandshake
<1>8. UnusedIsFresh'
  BY <1>1, <1>6 DEF UnusedIsFresh, NoNewHandshake, Takes
<1>9. ConnsAreOwned'
  BY DEF ConnsAreOwned
<1>10. HandshakesAreFirst'
  BY <1>1, <1>6, SMTT(30) DEF HandshakesAreFirst, NoNewHandshake
<1>11. StaleCloseIsHarmless'
  <2> SUFFICES ASSUME NEW c \in ClientId, Joined(c)'
               PROVE  server'.clients[c] = clients[c].conn
    BY DEF StaleCloseIsHarmless
  <2>1. clients[c].conn # Absent /\ conns'[clients[c].conn].client = c
    BY DEF Joined
  <2>2. clients[c].conn \in Conn
    BY <2>1 DEF ConnsAreOwned
  <2>3. CASE c = d
    BY <2>3, <1>4, <1>5 DEF Shape
  <2>4. CASE c # d
    <3>1. clients[c].conn # k
      BY <2>1, <2>4, <1>6
    <3>2. Joined(c)
      BY <2>1, <2>2, <3>1, <1>6 DEF Joined
    <3> QED
      BY <3>2, <2>4, <1>5 DEF StaleCloseIsHarmless, Shape
  <2> QED
    BY <2>3, <2>4
<1> QED
  BY <1>7, <1>8, <1>9, <1>10, <1>11

\* The connection breaks: its client has none any more.
LEMMA CutKeepsRegistration ==
  ASSUME SyncAssumption, RegistrationInv, NEW c \in ClientId, Cut(c)
  PROVE  RegistrationInv'
<1> DEFINE k == clients[c].conn
<1>1. k # Absent /\ k \in Conn /\ line[k] = "open"
  BY DEF Cut, ConnsAreOwned
<1>2. PICK n \in 0 .. Len(up[k]) : /\ conns[k].client = Absent => n = 0
                                   /\ up' = [up EXCEPT ![k] = SubSeq(@, 1, n)]
  BY DEF Cut
<1>3. /\ DOMAIN up' = Conn
      /\ up'[k] = SubSeq(up[k], 1, n)
      /\ \A j \in Conn : j # k => up'[j] = up[j]
  BY <1>1, <1>2 DEF Shape
<1>4. /\ IsSeq(up'[k])
      /\ Len(up'[k]) = n
      /\ \A i \in 1 .. n : up'[k][i] = up[k][i]
  BY <1>1, <1>3, StartOfQueue DEF Shape
<1>5. /\ line' = [line EXCEPT ![k] = "cut"]
      /\ clients'[c].conn = Absent
      /\ DOMAIN clients' = ClientId
      /\ \A d \in ClientId : "conn" \in DOMAIN clients'[d]
      /\ \A d \in ClientId : d # c => clients'[d] = clients[d]
      /\ UNCHANGED <<server, conns>>
  BY DEF Cut, Shape
<1>6. Len(up[k]) \in Nat
  BY <1>1 DEF Shape, IsSeq
<1> HIDE DEF k
<1>7. \A i \in 1 .. Len(up'[k]) : ~IsHandshake(up'[k][i])
  <2> SUFFICES ASSUME NEW i \in 1 .. n, IsHandshake(up[k][i])
               PROVE  FALSE
    BY <1>4
  <2>1. i \in 1 .. Len(up[k]) /\ n # 0
    BY <1>6
  <2> QED
    BY <2>1, <1>1, <1>2 DEF HandshakesAreFirst
<1>8. \A d \in ClientId : d # c => clients[d].conn # k
  BY <1>1 DEF ConnsAreOwned, k
<1>9. Shape'
  BY <1>3, <1>4, <1>5 DEF Shape
<1>10. UnusedIsFresh'
  BY <1>1, <1>3, <1>5 DEF UnusedIsFresh, Shape
<1>11. ConnsAreOwned'
  <2> SUFFICES ASSUME NEW d \in ClientId, clients'[d].conn # Absent
               PROVE  /\ clients'[d].conn \in Conn
                      /\ line'[clients'[d].conn] = "open"
                      /\ \A e \in ClientId :
                           clients'[e].conn = clients'[d].conn => e = d
    BY DEF ConnsAreOwned
  <2>1. d # c /\ clients'[d] = clients[d]
    BY <1>5
  <2>2. /\ clients[d].conn \in Conn
        /\ line[clients[d].conn] = "open"
        /\ \A e \in ClientId : clients[e].conn = clients[d].conn => e = d
    BY <2>1 DEF ConnsAreOwned
  <2> QED
    BY <1>5, <1>8, <2>1, <2>2 DEF Shape
<1>12. HandshakesAreFirst'
  <2> SUFFICES ASSUME NEW j \in Conn, NEW i \in 1 .. Len(up'[j]),
                      IsHandshake(up'[j][i])
               PROVE  /\ i = 1
                      /\ conns'[j].client = Absent
                      /\ up'[j][i].client \in ClientId
                      /\ clients'[up'[j][i].client].conn = j
    BY DEF HandshakesAreFirst
  <2>1. j # k /\ up'[j] = up[j]
    BY <1>3, <1>7
  <2>2. /\ i = 1
        /\ conns[j].client = Absent
        /\ up[j][i].client \in ClientId
        /\ clients[up[j][i].client].conn = j
    BY <2>1 DEF HandshakesAreFirst
  <2>3. up[j][i].client # c
    BY <2>1, <2>2 DEF k
  <2> QED
    BY <2>1, <2>2, <2>3, <1>5
<1>13. StaleCloseIsHarmless'
  <2> SUFFICES ASSUME NEW d \in ClientId, Joined(d)'
               PROVE  server'.clients[d] = clients'[d].conn
    BY DEF StaleCloseIsHarmless
  <2>1. d # c /\ clients'[d] = clients[d]
    BY <1>5 DEF Joined
  <2>2. Joined(d)
    BY <2>1, <1>5 DEF Joined
  <2> QED
    BY <2>1, <2>2, <1>5 DEF StaleCloseIsHarmless
<1> QED
  BY <1>9, <1>10, <1>11, <1>12, <1>13

\* The server notices the end of a connection: only who uses it is removed.
LEMMA CloseKeepsRegistration ==
  ASSUME SyncAssumption, RegistrationInv, NEW k \in Conn, HandleClose(k)
  PROVE  RegistrationInv'
<1>1. /\ line[k] = "cut"
      /\ line' = [line EXCEPT ![k] = "closed"]
      /\ UNCHANGED <<conns, up, clients>>
  BY DEF HandleClose
<1>2. /\ "clients" \in DOMAIN server'
      /\ server'.clients =
           [c \in ClientId |-> IF conns[k].client = c /\ server.clients[c] = k
                             THEN Absent ELSE server.clients[c]]
  BY DEF HandleClose, Shape
<1>3. Shape'
  BY <1>1, <1>2 DEF Shape
<1>4. UnusedIsFresh'
  BY <1>1 DEF UnusedIsFresh, Shape
<1>5. ConnsAreOwned'
  BY <1>1 DEF ConnsAreOwned, Shape
<1>6. HandshakesAreFirst'
  BY <1>1 DEF HandshakesAreFirst
<1>7. StaleCloseIsHarmless'
  <2> SUFFICES ASSUME NEW c \in ClientId, Joined(c)'
               PROVE  server'.clients[c] = clients'[c].conn
    BY DEF StaleCloseIsHarmless
  <2>1. Joined(c) /\ clients[c].conn # Absent
    BY <1>1 DEF Joined
  <2>2. server.clients[c] = clients[c].conn /\ line[clients[c].conn] = "open"
    BY <2>1 DEF StaleCloseIsHarmless, ConnsAreOwned
  <2>3. server.clients[c] # k
    BY <2>2, <1>1
  <2> QED
    BY <2>2, <2>3, <1>1, <1>2
<1> QED
  BY <1>3, <1>4, <1>5, <1>6, <1>7

-----------------------------------------------------------------------------
(* Every step *)

LEMMA ClientKeepsRegistration ==
  ASSUME SyncAssumption, RegistrationInv, NEW c \in ClientId, ClientStep(c)
  PROVE  RegistrationInv'
<1>1. ASSUME Online(c)
      PROVE  clients[c].conn \in Conn /\ line[clients[c].conn] = "open"
  BY <1>1 DEF Online, ConnsAreOwned
<1>2. CASE \E k \in Conn : Reconnect(c, k)
  BY <1>2, ReconnectKeepsRegistration
<1>3. CASE \E k \in Conn : \E rs \in Initial : Connect(c, k, rs)
  BY <1>3, ConnectKeepsRegistration
<1>4. ASSUME NEW r \in Resource, Subscribe(c, r)
      PROVE  RegistrationInv'
  <2> DEFINE m == [type |-> "subscribe", resource |-> r]
  <2>1. ~IsHandshake(m) /\ Sent(clients[c].conn, m)
    BY <1>4 DEF IsHandshake, Subscribe
  <2> HIDE DEF m
  <2>2. NoNewHandshake
    BY <1>1, <1>4, <2>1, SentIsNoHandshake DEF Subscribe
  <2>3. SameUsers
    BY <1>4 DEF Subscribe, SameUsers, Shape
  <2> QED
    BY <2>2, <2>3, SameUsersKeepRegistration
<1>5. ASSUME NEW r \in Resource, Unsubscribe(c, r)
      PROVE  RegistrationInv'
  <2> DEFINE m == [type |-> "unsubscribe", resource |-> r]
  <2>1. ~IsHandshake(m) /\ Sent(clients[c].conn, m)
    BY <1>5 DEF IsHandshake, Unsubscribe
  <2> HIDE DEF m
  <2>2. NoNewHandshake
    BY <1>1, <1>5, <2>1, SentIsNoHandshake DEF Unsubscribe
  <2>3. SameUsers
    BY <1>5 DEF Unsubscribe, SameUsers, Shape
  <2> QED
    BY <2>2, <2>3, SameUsersKeepRegistration
<1>6. ASSUME NEW s \in Session, Dispatch(c, s)
      PROVE  RegistrationInv'
  <2> DEFINE a == [resource |-> s, by |-> c, n |-> clients[c].nextSeq]
             m == [type |-> "dispatchAction", action |-> a]
  <2>1. ~IsHandshake(m) /\ Sent(clients[c].conn, m)
    BY <1>6 DEF IsHandshake, Dispatch
  <2> HIDE DEF m
  <2>2. NoNewHandshake
    BY <1>1, <1>6, <2>1, SentIsNoHandshake DEF Dispatch
  <2>3. SameUsers
    BY <1>6 DEF Dispatch, SameUsers, Shape
  <2> QED
    BY <2>2, <2>3, SameUsersKeepRegistration
<1>7. CASE Receive(c)
  <2>1. NoNewHandshake
    BY <1>7, SameQueues DEF Receive
  <2>2. SameUsers
    BY <1>7 DEF Receive, SameUsers, Shape
  <2> QED
    BY <2>1, <2>2, SameUsersKeepRegistration
<1>8. CASE Cut(c)
  BY <1>8, CutKeepsRegistration
<1> QED
  BY <1>2, <1>3, <1>4, <1>5, <1>6, <1>7, <1>8 DEF ClientStep

LEMMA ServerKeepsRegistration ==
  ASSUME SyncAssumption, RegistrationInv, NEW k \in Conn, ServerStep(k)
  PROVE  RegistrationInv'
<1>1. CASE HandleInitialize(k)
  BY <1>1, HandshakeKeepsRegistration DEF HandleInitialize
<1>2. CASE HandleReconnect(k)
  BY <1>2, HandshakeKeepsRegistration DEF HandleReconnect
<1>3. CASE HandleSubscribe(k)
  <2>1. NoNewHandshake
    BY <1>3, TakenLeavesNoHandshake DEF HandleSubscribe
  <2>2. SameUsers
    BY <1>3 DEF HandleSubscribe, SameUsers, Shape
  <2> QED
    BY <2>1, <2>2, SameUsersKeepRegistration
<1>4. CASE FinishSubscribes(k)
  <2>1. NoNewHandshake
    BY <1>4, SameQueues DEF FinishSubscribes
  <2>2. SameUsers
    BY <1>4 DEF FinishSubscribes, SameUsers, Shape
  <2> QED
    BY <2>1, <2>2, SameUsersKeepRegistration
<1>5. CASE HandleUnsubscribe(k)
  <2>1. NoNewHandshake
    BY <1>5, TakenLeavesNoHandshake DEF HandleUnsubscribe
  <2>2. SameUsers
    BY <1>5 DEF HandleUnsubscribe, SameUsers, Shape
  <2> QED
    BY <2>1, <2>2, SameUsersKeepRegistration
<1>6. CASE HandleDispatch(k)
  <2>1. NoNewHandshake
    BY <1>6, TakenLeavesNoHandshake DEF HandleDispatch
  <2>2. SameUsers
    BY <1>6 DEF HandleDispatch, ApplyAndEmit, SameUsers, Shape
  <2> QED
    BY <2>1, <2>2, SameUsersKeepRegistration
<1>7. CASE HandleClose(k)
  BY <1>7, CloseKeepsRegistration
<1> QED
  BY <1>1, <1>2, <1>3, <1>4, <1>5, <1>6, <1>7 DEF ServerStep

LEMMA NextKeepsRegistration ==
  ASSUME SyncAssumption, RegistrationInv, [Next]_vars
  PROVE  RegistrationInv'
<1>1. CASE \E c \in ClientId : ClientStep(c)
  BY <1>1, ClientKeepsRegistration
<1>2. CASE \E k \in Conn : ServerStep(k)
  BY <1>2, ServerKeepsRegistration
<1>3. ASSUME NEW r \in Resource, AgentAction(r)
      PROVE  RegistrationInv'
  <2>1. NoNewHandshake
    BY <1>3, SameQueues DEF AgentAction
  <2>2. SameUsers
    BY <1>3 DEF AgentAction, ApplyAndEmit, SameUsers, Shape
  <2> QED
    BY <2>1, <2>2, SameUsersKeepRegistration
<1>4. CASE UNCHANGED vars
  <2>1. NoNewHandshake
    BY <1>4, SameQueues DEF vars
  <2>2. SameUsers
    BY <1>4 DEF vars, SameUsers, Shape
  <2> QED
    BY <2>1, <2>2, SameUsersKeepRegistration
<1> QED
  BY <1>1, <1>2, <1>3, <1>4 DEF Next

\* Whatever connections break in whatever order, a client whose current connection
\* the server knows stays registered with it (protocolServerHandler.ts, onClose).
THEOREM ConnectedStaysRegistered == Spec => []StaleCloseIsHarmless
<1>1. Init => RegistrationInv
  BY SyncAssumption, RegistrationInit
<1>2. RegistrationInv /\ [Next]_vars => RegistrationInv'
  BY SyncAssumption, NextKeepsRegistration
<1>3. RegistrationInv => StaleCloseIsHarmless
  OBVIOUS
<1> HIDE DEF RegistrationInv
<1> QED
  BY <1>1, <1>2, <1>3, PTL DEF Spec

-----------------------------------------------------------------------------
(* The actions on one resource *)

LEMMA OfType ==
  ASSUME NEW r \in Resource, NEW q \in Seq(Action)
  PROVE  Of(r, q) \in Seq(Action)
BY WithinType DEF Of

LEMMA OfEmpty ==
  ASSUME NEW r
  PROVE  Of(r, <<>>) = <<>>
BY WithinEmpty DEF Of

LEMMA OfAppend ==
  ASSUME NEW r \in Resource, NEW q \in Seq(Action), NEW a \in Action
  PROVE  Of(r, Append(q, a)) =
           IF a.resource = r THEN Append(Of(r, q), a) ELSE Of(r, q)
<1>1. a \in ActionsOn(r) <=> a.resource = r
  BY DEF ActionsOn
<1>2. Within(Append(q, a), ActionsOn(r)) =
        IF a \in ActionsOn(r) THEN Append(Within(q, ActionsOn(r)), a)
        ELSE Within(q, ActionsOn(r))
  BY WithinAppend
<1> QED
  BY <1>1, <1>2 DEF Of

\* Taking away what is not on r changes nothing for r.
LEMMA OfWithin ==
  ASSUME NEW r \in Resource, NEW q \in Seq(Action), NEW S, ActionsOn(r) \subseteq S
  PROVE  Of(r, Within(q, S)) = Of(r, q)
<1>1. Within(Within(q, S), ActionsOn(r)) = Within(q, S \cap ActionsOn(r))
  BY WithinWithin
<1>2. S \cap ActionsOn(r) = ActionsOn(r)
  OBVIOUS
<1> QED
  BY <1>1, <1>2 DEF Of

LEMMA ConcatAppend ==
  ASSUME NEW E, NEW p \in Seq(E), NEW q \in Seq(E), NEW e \in E
  PROVE  p \o Append(q, e) = Append(p \o q, e)
<1>1. <<e>> \in Seq(E)
  OBVIOUS
<1>2. Append(q, e) = q \o <<e>>
  BY AppendIsConcat
<1>3. p \o q \in Seq(E)
  BY ConcatProperties
<1>4. Append(p \o q, e) = (p \o q) \o <<e>>
  BY <1>3, AppendIsConcat
<1> QED
  BY <1>1, <1>2, <1>4, ConcatAssociative

-----------------------------------------------------------------------------
(* What a client makes of what it does and receives *)

PartialStates == UNION {[R -> State] : R \in SUBSET Resource}

View == [lastSeen : Nat, confirmed : PartialStates, optimistic : PartialStates,
         pending : Seq(Action)]

\* The optimistic states are those the confirmed states and the pending actions give.
IsRebased(v) ==
  /\ DOMAIN v.optimistic = DOMAIN v.confirmed
  /\ \A r \in DOMAIN v.confirmed : v.optimistic[r] = Rebased(v, r)

RebasedViews == {v \in View : IsRebased(v)}

\* Answers of the server.
SnapshotsMessage == [type : {"snapshots"}, states : PartialStates, fromSeq : Nat]
Answer == [type : {"action"}, envelope : Envelope]
            \cup [type : {"replay"}, actions : Seq(Envelope)]
            \cup SnapshotsMessage

LEMMA PartialStatesAre ==
  ASSUME NEW f
  PROVE  f \in PartialStates <=>
           /\ f = [r \in DOMAIN f |-> f[r]]
           /\ IsStates(f)
BY DEF PartialStates, IsStates

LEMMA RebasedType ==
  ASSUME NEW v \in View, NEW r \in DOMAIN v.confirmed
  PROVE  Rebased(v, r) \in State
<1>1. v.confirmed[r] \in Seq(Action) /\ v.pending \in Seq(Action) /\ r \in Resource
  BY DEF View, PartialStates, State
<1>2. Of(r, v.pending) \in Seq(Action)
  BY <1>1, OfType
<1> QED
  BY <1>1, <1>2, ConcatProperties DEF Rebased, State

\* Recomputing a view gives the optimistic states that are recomputed, and keeps
\* the others.
LEMMA RecomputeOptimisticIs ==
  ASSUME NEW v \in View, NEW rs,
         \A r \in DOMAIN v.confirmed : r \notin rs =>
           r \in DOMAIN v.optimistic /\ v.optimistic[r] = Rebased(v, r)
  PROVE  /\ RecomputeOptimistic(v, rs) \in RebasedViews
         /\ RecomputeOptimistic(v, rs).lastSeen = v.lastSeen
         /\ RecomputeOptimistic(v, rs).confirmed = v.confirmed
         /\ RecomputeOptimistic(v, rs).pending = v.pending
<1> DEFINE w == RecomputeOptimistic(v, rs)
           o == [r \in DOMAIN v.confirmed |->
                   IF r \in rs THEN Rebased(v, r) ELSE v.optimistic[r]]
<1>1. w = [v EXCEPT !.optimistic = o]
  BY DEF RecomputeOptimistic
<1>2. DOMAIN v.confirmed \subseteq Resource
  BY DEF View, PartialStates
<1>3. \A r \in DOMAIN v.confirmed : o[r] = Rebased(v, r)
  OBVIOUS
<1>4. \A r \in DOMAIN v.confirmed : Rebased(v, r) \in State
  BY RebasedType
<1>5. DOMAIN o = DOMAIN v.confirmed
  OBVIOUS
<1>6. o \in [DOMAIN v.confirmed -> State]
  BY <1>3, <1>4
<1> HIDE DEF o
<1>7. o \in PartialStates
  BY <1>2, <1>6 DEF PartialStates
<1>8. /\ w \in View
      /\ w.lastSeen = v.lastSeen
      /\ w.confirmed = v.confirmed
      /\ w.optimistic = o
      /\ w.pending = v.pending
  BY <1>1, <1>7 DEF View
<1> HIDE DEF w
<1>9. IsRebased(w)
  BY <1>3, <1>5, <1>8 DEF IsRebased, Rebased
<1> QED
  BY <1>8, <1>9 DEF RebasedViews, w

LEMMA AppliedIs ==
  ASSUME NEW f \in PartialStates, NEW a \in Action
  PROVE  /\ WithAction(f, a) \in PartialStates
         /\ DOMAIN WithAction(f, a) = DOMAIN f
         /\ \A r \in DOMAIN f :
              WithAction(f, a)[r] = IF r = a.resource THEN Append(f[r], a) ELSE f[r]
<1> DEFINE g == WithAction(f, a)
<1>1. DOMAIN f \subseteq Resource /\ f \in [DOMAIN f -> State]
  BY DEF PartialStates
<1>2. \A r \in DOMAIN f : f[r] \in Seq(Action) /\ Append(f[r], a) \in Seq(Action)
  BY <1>1, AppendProperties DEF State
<1>3. DOMAIN g = DOMAIN f
  BY DEF WithAction
<1>4. \A r \in DOMAIN f : g[r] = IF r = a.resource THEN Append(f[r], a) ELSE f[r]
  BY <1>1 DEF WithAction
<1>5. g \in [DOMAIN f -> State]
  <2>1. g = [r \in DOMAIN f |-> g[r]]
    BY <1>1 DEF WithAction
  <2> HIDE DEF g
  <2> QED
    BY <1>1, <1>2, <1>3, <1>4, <2>1 DEF State
<1> QED
  BY <1>1, <1>3, <1>4, <1>5 DEF PartialStates

LEMMA ReceiveEnvelopeIs ==
  ASSUME NEW v \in RebasedViews, NEW e \in Envelope
  PROVE  /\ ReceiveEnvelope(v, e) \in RebasedViews
         /\ ReceiveEnvelope(v, e).lastSeen = Largest(v.lastSeen, e.seq)
         /\ DOMAIN ReceiveEnvelope(v, e).confirmed = DOMAIN v.confirmed
         /\ \A r \in DOMAIN v.confirmed :
              ReceiveEnvelope(v, e).confirmed[r] =
                IF r = e.action.resource
                THEN Append(v.confirmed[r], e.action) ELSE v.confirmed[r]
         /\ ReceiveEnvelope(v, e).pending = Within(v.pending, Action \ {e.action})
<1> DEFINE a == e.action
           g == WithAction(v.confirmed, a)
           p == Within(v.pending, Action \ {a})
           n == Largest(v.lastSeen, e.seq)
           s == [v EXCEPT !.lastSeen = Largest(@, e.seq),
                          !.confirmed = WithAction(@, a),
                          !.pending = Within(@, Action \ {a})]
           rs == {a.resource} \cup {x.resource : x \in ToSet(s.pending)}
<1>1. /\ v \in View /\ IsRebased(v) /\ a \in Action
      /\ v.confirmed \in PartialStates /\ v.pending \in Seq(Action)
      /\ v.optimistic \in PartialStates
      /\ v.lastSeen \in Nat /\ e.seq \in Nat
  BY DEF RebasedViews, View, Envelope
<1>2. ReceiveEnvelope(v, e) = RecomputeOptimistic(s, rs)
  BY DEF ReceiveEnvelope
<1>3. /\ g \in PartialStates
      /\ DOMAIN g = DOMAIN v.confirmed
      /\ \A r \in DOMAIN v.confirmed :
           g[r] = IF r = a.resource THEN Append(v.confirmed[r], a) ELSE v.confirmed[r]
  <2> HIDE DEF a
  <2>1. a \in Action
    BY <1>1
  <2> QED
    BY <1>1, <2>1, AppliedIs
<1>4. p \in Seq(Action)
  BY <1>1, WithinType
<1>5. n \in Nat
  BY <1>1 DEF Largest
<1>6. /\ s \in View
      /\ s.lastSeen = n /\ s.confirmed = g /\ s.optimistic = v.optimistic
      /\ s.pending = p
  <2> HIDE DEF g, p, n
  <2> QED
    BY <1>1, <1>3, <1>4, <1>5 DEF View, g, p, n
<1> HIDE DEF a, g, p, n
<1> HIDE DEF s
<1>7. ASSUME NEW r \in DOMAIN s.confirmed, r \notin rs
      PROVE  r \in DOMAIN s.optimistic /\ s.optimistic[r] = Rebased(s, r)
  <2>1. r \in DOMAIN v.confirmed /\ r # a.resource /\ r \in Resource
    BY <1>1, <1>3, <1>6, <1>7 DEF PartialStates
  <2>2. v.optimistic[r] = v.confirmed[r] \o Of(r, v.pending) /\ r \in DOMAIN v.optimistic
    BY <1>1, <2>1 DEF IsRebased, Rebased
  <2>3. ActionsOn(r) \subseteq Action \ {a}
    BY <2>1 DEF ActionsOn
  <2>4. Of(r, p) = Of(r, v.pending)
    BY <1>1, <2>1, <2>3, OfWithin DEF p
  <2>5. s.confirmed[r] = v.confirmed[r]
    BY <1>3, <1>6, <2>1
  <2> QED
    BY <1>6, <2>2, <2>4, <2>5 DEF Rebased
<1> HIDE DEF rs
<1>8. /\ RecomputeOptimistic(s, rs) \in RebasedViews
      /\ RecomputeOptimistic(s, rs).lastSeen = s.lastSeen
      /\ RecomputeOptimistic(s, rs).confirmed = s.confirmed
      /\ RecomputeOptimistic(s, rs).pending = s.pending
  BY <1>6, <1>7, RecomputeOptimisticIs
<1> QED
  BY <1>2, <1>3, <1>6, <1>8 DEF a, p, n

LEMMA HandleSnapshotsIs ==
  ASSUME NEW v \in RebasedViews, NEW states \in PartialStates, NEW fromSeq \in Nat
  PROVE  /\ HandleSnapshots(v, states, fromSeq) \in RebasedViews
         /\ HandleSnapshots(v, states, fromSeq).lastSeen =
              IF DOMAIN states = {} THEN v.lastSeen ELSE Largest(v.lastSeen, fromSeq)
         /\ DOMAIN HandleSnapshots(v, states, fromSeq).confirmed =
              DOMAIN v.confirmed \cup DOMAIN states
         /\ \A r \in DOMAIN v.confirmed \cup DOMAIN states :
              HandleSnapshots(v, states, fromSeq).confirmed[r] =
                IF r \in DOMAIN states THEN states[r] ELSE v.confirmed[r]
         /\ HandleSnapshots(v, states, fromSeq).pending = v.pending
<1> DEFINE n == IF DOMAIN states = {} THEN v.lastSeen ELSE Largest(v.lastSeen, fromSeq)
           held == DOMAIN v.confirmed \cup DOMAIN states
           g == [r \in held |-> IF r \in DOMAIN states THEN states[r] ELSE v.confirmed[r]]
           s == [v EXCEPT !.lastSeen = n, !.confirmed = g]
<1>1. /\ v \in View /\ IsRebased(v)
      /\ v.confirmed \in PartialStates /\ v.optimistic \in PartialStates
      /\ v.lastSeen \in Nat
  BY DEF RebasedViews, View
<1>2. HandleSnapshots(v, states, fromSeq) = RecomputeOptimistic(s, DOMAIN states)
  BY <1>1 DEF HandleSnapshots, View
<1>3. n \in Nat
  BY <1>1 DEF Largest
<1>4. held \subseteq Resource /\ \A r \in held : g[r] \in State
  BY <1>1 DEF PartialStates
<1>5. g \in [held -> State]
  BY <1>4
<1>6. g \in PartialStates
  BY <1>4, <1>5 DEF PartialStates
<1>7. /\ DOMAIN g = held
      /\ \A r \in held : g[r] = IF r \in DOMAIN states THEN states[r] ELSE v.confirmed[r]
  OBVIOUS
<1> HIDE DEF n, g
<1>8. /\ s \in View
      /\ s.lastSeen = n /\ s.confirmed = g /\ s.optimistic = v.optimistic
      /\ s.pending = v.pending
  BY <1>1, <1>3, <1>6 DEF View
<1> HIDE DEF s
<1>9. ASSUME NEW r \in DOMAIN s.confirmed, r \notin DOMAIN states
      PROVE  r \in DOMAIN s.optimistic /\ s.optimistic[r] = Rebased(s, r)
  BY <1>1, <1>7, <1>8, <1>9 DEF IsRebased, Rebased
<1>10. /\ RecomputeOptimistic(s, DOMAIN states) \in RebasedViews
       /\ RecomputeOptimistic(s, DOMAIN states).lastSeen = s.lastSeen
       /\ RecomputeOptimistic(s, DOMAIN states).confirmed = s.confirmed
       /\ RecomputeOptimistic(s, DOMAIN states).pending = s.pending
  BY <1>8, <1>9, RecomputeOptimisticIs
<1> QED
  BY <1>2, <1>7, <1>8, <1>10 DEF n

LEMMA ApplyOptimisticIs ==
  ASSUME NEW v \in RebasedViews, NEW a \in Action
  PROVE  /\ ApplyOptimistic(v, a) \in RebasedViews
         /\ ApplyOptimistic(v, a).lastSeen = v.lastSeen
         /\ ApplyOptimistic(v, a).confirmed = v.confirmed
         /\ ApplyOptimistic(v, a).pending = Append(v.pending, a)
<1> DEFINE o == WithAction(v.optimistic, a)
           p == Append(v.pending, a)
           w == ApplyOptimistic(v, a)
<1>1. /\ v \in View /\ IsRebased(v)
      /\ v.confirmed \in PartialStates /\ v.pending \in Seq(Action)
      /\ v.optimistic \in PartialStates
  BY DEF RebasedViews, View
<1>2. w = [v EXCEPT !.pending = p, !.optimistic = o]
  BY <1>1 DEF ApplyOptimistic, View
<1>3. /\ o \in PartialStates
      /\ DOMAIN o = DOMAIN v.optimistic
      /\ \A r \in DOMAIN v.optimistic :
           o[r] = IF r = a.resource THEN Append(v.optimistic[r], a) ELSE v.optimistic[r]
  BY <1>1, AppliedIs
<1>4. p \in Seq(Action)
  BY <1>1, AppendProperties
<1> HIDE DEF o
<1>5. /\ w \in View
      /\ w.lastSeen = v.lastSeen /\ w.confirmed = v.confirmed /\ w.optimistic = o
      /\ w.pending = p
  BY <1>1, <1>2, <1>3, <1>4 DEF View
<1> HIDE DEF w
<1>6. ASSUME NEW r \in DOMAIN v.confirmed
      PROVE  o[r] = v.confirmed[r] \o Of(r, p)
  <2>1. r \in Resource /\ v.confirmed[r] \in Seq(Action) /\ r \in DOMAIN v.optimistic
    BY <1>1 DEF PartialStates, State, IsRebased
  <2>2. v.optimistic[r] = v.confirmed[r] \o Of(r, v.pending)
    BY <1>1 DEF IsRebased, Rebased
  <2>3. Of(r, v.pending) \in Seq(Action)
    BY <1>1, <2>1, OfType
  <2>4. Of(r, p) = IF a.resource = r THEN Append(Of(r, v.pending), a) ELSE Of(r, v.pending)
    BY <1>1, <2>1, OfAppend
  <2>5. v.confirmed[r] \o Append(Of(r, v.pending), a) = Append(v.confirmed[r] \o Of(r, v.pending), a)
    <3> DEFINE x == v.confirmed[r]
               y == Of(r, v.pending)
    <3>1. x \in Seq(Action) /\ y \in Seq(Action)
      BY <2>1, <2>3
    <3> HIDE DEF x, y
    <3>2. x \o Append(y, a) = Append(x \o y, a)
      BY <3>1, ConcatAppend
    <3> QED
      BY <3>2 DEF x, y
  <2> HIDE DEF p
  <2> QED
    BY <1>3, <2>1, <2>2, <2>4, <2>5
<1>7. IsRebased(w)
  BY <1>1, <1>3, <1>5, <1>6 DEF IsRebased, Rebased
<1> QED
  BY <1>5, <1>7 DEF RebasedViews, w

LEMMA DropResourceIs ==
  ASSUME NEW v \in RebasedViews, NEW k \in Resource
  PROVE  /\ DropResource(v, k) \in RebasedViews
         /\ DropResource(v, k).lastSeen = v.lastSeen
         /\ DropResource(v, k).confirmed = Dropping(v.confirmed, k)
         /\ DropResource(v, k).pending = Within(v.pending, Action \ ActionsOn(k))
<1> DEFINE p == Within(v.pending, Action \ ActionsOn(k))
           g == Dropping(v.confirmed, k)
           o == Dropping(v.optimistic, k)
           w == DropResource(v, k)
<1>1. /\ v \in View /\ IsRebased(v)
      /\ v.confirmed \in PartialStates /\ v.pending \in Seq(Action)
      /\ v.optimistic \in PartialStates
  BY DEF RebasedViews, View
<1>2. w = [v EXCEPT !.confirmed = g, !.optimistic = o, !.pending = p]
  BY <1>1 DEF DropResource, View
<1>3. /\ DOMAIN g = DOMAIN v.confirmed \ {k}
      /\ \A r \in DOMAIN g : g[r] = v.confirmed[r]
      /\ DOMAIN o = DOMAIN v.optimistic \ {k}
      /\ \A r \in DOMAIN o : o[r] = v.optimistic[r]
  BY DEF Dropping
<1>4. g \in PartialStates /\ o \in PartialStates
  <2>1. DOMAIN g \subseteq Resource /\ \A r \in DOMAIN g : g[r] \in State
    BY <1>1, <1>3 DEF PartialStates
  <2>2. DOMAIN o \subseteq Resource /\ \A r \in DOMAIN o : o[r] \in State
    BY <1>1, <1>3 DEF PartialStates
  <2>3. g \in [DOMAIN g -> State] /\ o \in [DOMAIN o -> State]
    BY <2>1, <2>2 DEF Dropping
  <2> QED
    BY <2>1, <2>2, <2>3 DEF PartialStates
<1>5. p \in Seq(Action)
  BY <1>1, WithinType
<1> HIDE DEF g, o, p
<1>6. /\ w \in View
      /\ w.lastSeen = v.lastSeen /\ w.confirmed = g /\ w.optimistic = o
      /\ w.pending = p
  BY <1>1, <1>2, <1>4, <1>5 DEF View
<1> HIDE DEF w
<1>7. ASSUME NEW r \in DOMAIN g
      PROVE  r \in DOMAIN o /\ o[r] = g[r] \o Of(r, p)
  <2>1. r \in Resource /\ r \in DOMAIN v.confirmed /\ r # k
    BY <1>1, <1>3 DEF PartialStates
  <2>2. v.optimistic[r] = v.confirmed[r] \o Of(r, v.pending) /\ r \in DOMAIN v.optimistic
    BY <1>1, <2>1 DEF IsRebased, Rebased
  <2>3. ActionsOn(r) \subseteq Action \ ActionsOn(k)
    BY <2>1 DEF ActionsOn
  <2>4. Of(r, p) = Of(r, v.pending)
    BY <1>1, <2>1, <2>3, OfWithin DEF p
  <2> QED
    BY <1>3, <2>1, <2>2, <2>4
<1>8. IsRebased(w)
  BY <1>1, <1>3, <1>6, <1>7 DEF IsRebased, Rebased
<1> QED
  BY <1>6, <1>8 DEF RebasedViews, w, g, p

\* What Replayed computes, step by step, within a set V of views that is closed
\* under receiving envelopes of D.
IsClosed(V, D) == \A w \in V : \A e \in D : ReceiveEnvelope(w, e) \in V

Replays(after, v, q, V) ==
  /\ after \in [0 .. Len(q) -> V]
  /\ after[0] = v
  /\ \A n \in 1 .. Len(q) : after[n] = ReceiveEnvelope(after[n - 1], q[n])
  /\ Replayed(v, q) = after[Len(q)]

LEMMA ReplayedSteps ==
  ASSUME NEW V, NEW v \in V, NEW D, NEW q \in Seq(D), IsClosed(V, D)
  PROVE  \E after : Replays(after, v, q, V)
<1> DEFINE N == Len(q)
           step == [n \in 1 .. N |-> [w \in V |-> ReceiveEnvelope(w, q[n])]]
           Next1(f, n) == ReceiveEnvelope(f[n - 1], q[n])
           Runs(f) == f = [n \in 0 .. N |-> IF n = 0 THEN v ELSE Next1(f, n)]
<1>1. /\ N \in Nat
      /\ \A n \in 1 .. N : q[n] \in D
  BY LenProperties, ElementOfSeq
<1>2. /\ \A n \in 1 .. N : step[n] \in [V -> V]
      /\ \A n \in 1 .. N : \A w \in V : step[n][w] = ReceiveEnvelope(w, q[n])
  BY <1>1 DEF IsClosed
<1> HIDE DEF step, N
<1>3. PICK f : Follows(f, v, step, N, V)
  <2>1. AreStepsOn(step, N, V)
    BY <1>2 DEF AreStepsOn
  <2> QED
    BY <1>1, <2>1, Steps
<1>4. ASSUME NEW n \in 0 .. N
      PROVE  f[n] = IF n = 0 THEN v ELSE Next1(f, n)
  <2>1. CASE n = 0
    BY <1>3, <2>1 DEF Follows
  <2>2. CASE n \in 1 .. N
    <3>1. n - 1 \in 0 .. N /\ n # 0
      BY <1>1, <2>2
    <3>2. f[n - 1] \in V /\ f[n] = step[n][f[n - 1]]
      BY <1>3, <2>2, <3>1 DEF Follows
    <3> QED
      BY <1>2, <2>2, <3>1, <3>2
  <2> QED
    BY <1>1, <2>1, <2>2
<1>5. Runs(f)
  <2>1. f = [n \in 0 .. N |-> f[n]]
    BY <1>3 DEF Follows
  <2> QED
    BY <1>4, <2>1
<1> DEFINE g == CHOOSE h : Runs(h)
<1>6. Runs(g) /\ Replayed(v, q) = g[N]
  <2>1. Replayed(v, q) = g[N]
    BY DEF Replayed, N
  <2> HIDE DEF Runs
  <2> QED
    BY <1>5, <2>1
<1> HIDE DEF g
<1>7. g[0] = v /\ \A n \in 1 .. N : g[n] = Next1(g, n)
  <2>1. ASSUME NEW n \in 0 .. N
        PROVE  g[n] = IF n = 0 THEN v ELSE Next1(g, n)
    BY <1>6
  <2> HIDE DEF Next1
  <2> QED
    BY <1>1, <2>1
<1> DEFINE T == {n \in 0 .. N : g[n] \in V}
<1>8. \A n \in 0 .. N : n \in T
  <2>1. 0 \in T
    BY <1>1, <1>7
  <2>2. ASSUME NEW n \in 0 .. N - 1, n \in T
        PROVE  n + 1 \in T
    <3>1. n + 1 \in 1 .. N /\ g[n] \in V /\ n + 1 - 1 = n
      BY <1>1, <2>2
    <3>2. g[n + 1] = ReceiveEnvelope(g[n], q[n + 1])
      BY <1>1, <1>7, <3>1
    <3> QED
      BY <1>1, <3>1, <3>2 DEF IsClosed
  <2> HIDE DEF T
  <2>3. \A n \in 0 .. N - 1 : n \in T => n + 1 \in T
    BY <2>2
  <2> QED
    BY <1>1, <2>1, <2>3, UpTo
<1>9. g \in [0 .. N -> V]
  BY <1>6, <1>8
<1> QED
  BY <1>6, <1>7, <1>9 DEF N, Replays

LEMMA ReplayedIs ==
  ASSUME NEW v \in RebasedViews, NEW q \in Seq(Envelope)
  PROVE  \E after : Replays(after, v, q, RebasedViews)
<1>1. IsClosed(RebasedViews, Envelope)
  BY ReceiveEnvelopeIs DEF IsClosed
<1> QED
  BY <1>1, ReplayedSteps

\* Whatever the server answers, the view stays rebased.
LEMMA ReceivedIsRebased ==
  ASSUME NEW v \in RebasedViews, NEW m \in Answer
  PROVE  Received(v, m) \in RebasedViews
<1>1. CASE m \in [type : {"action"}, envelope : Envelope]
  <2>1. m.envelope \in Envelope /\ m.type = "action"
    BY <1>1
  <2> QED
    BY <2>1, ReceiveEnvelopeIs DEF Received
<1>2. CASE m \in [type : {"replay"}, actions : Seq(Envelope)]
  <2>1. m.actions \in Seq(Envelope) /\ m.type = "replay"
    BY <1>2
  <2>2. PICK after : Replays(after, v, m.actions, RebasedViews)
    BY <2>1, ReplayedIs
  <2>3. Len(m.actions) \in Nat
    BY <2>1, LenProperties
  <2>4. Replayed(v, m.actions) \in RebasedViews
    BY <2>2, <2>3 DEF Replays
  <2> QED
    BY <2>1, <2>4 DEF Received
<1>3. CASE m \in SnapshotsMessage
  <2>1. m.states \in PartialStates /\ m.fromSeq \in Nat /\ m.type = "snapshots"
    BY <1>3 DEF SnapshotsMessage
  <2> QED
    BY <2>1, HandleSnapshotsIs DEF Received
<1> QED
  BY <1>1, <1>2, <1>3 DEF Answer

-----------------------------------------------------------------------------
(* Types *)

Client == [conn : Conn \cup {Absent}, ready : BOOLEAN, asked : SUBSET Resource,
           nextSeq : Nat]
Connection == [client : ClientId \cup {Absent}, subs : SUBSET Resource,
               jobs : Seq(SnapshotsMessage)]

TypeInv ==
  /\ server \in [seq : Nat, states : [Resource -> State],
                 buffer : Seq(Envelope), clients : [ClientId -> Conn \cup {Absent}]]
  /\ conns \in [Conn -> Connection]
  /\ line \in [Conn -> {"unused", "open", "cut", "closed"}]
  /\ up \in [Conn -> Seq(Message)]
  /\ down \in [Conn -> Seq(Answer)]
  /\ clients \in [ClientId -> Client]
  /\ views \in [ClientId -> RebasedViews]

LEMMA TypeInit == SyncAssumption /\ Init => TypeInv
<1> SUFFICES ASSUME SyncAssumption, Init
             PROVE  TypeInv
  OBVIOUS
<1>1. \A S : <<>> \in Seq(S)
  BY EmptySeq
<1>2. server \in [seq : Nat, states : [Resource -> State],
                 buffer : Seq(Envelope), clients : [ClientId -> Conn \cup {Absent}]]
  BY <1>1 DEF Init, State
<1>3. NewConn \in Connection /\ NewClient \in Client
  BY <1>1 DEF NewConn, NewClient, Connection, Client
<1>4. NewView \in RebasedViews
  <2> DEFINE f == <<>>
  <2>1. f \in [{} -> State] /\ DOMAIN f = {}
    OBVIOUS
  <2>2. f \in Seq(Action)
    BY <1>1
  <2>3. NewView = [lastSeen |-> 0, confirmed |-> f, optimistic |-> f, pending |-> f]
    BY DEF NewView
  <2> HIDE DEF f
  <2>4. f \in PartialStates
    <3> DEFINE R == {}
    <3>1. R \in SUBSET Resource /\ f \in [R -> State]
      BY <2>1
    <3> HIDE DEF R
    <3> QED
      BY <3>1 DEF PartialStates
  <2> QED
    BY <2>1, <2>2, <2>3, <2>4 DEF View, IsRebased, RebasedViews
<1>5. up \in [Conn -> Seq(Message)] /\ down \in [Conn -> Seq(Answer)]
  BY <1>1 DEF Init
<1> QED
  BY <1>2, <1>3, <1>4, <1>5 DEF Init, TypeInv

\* The messages of clients.
LEMMA MessageIs ==
  ASSUME NEW m \in Message
  PROVE  /\ m.type \in {"initialize", "reconnect", "subscribe", "unsubscribe",
                        "dispatchAction"}
         /\ m.type \in {"initialize", "reconnect"} =>
              m.client \in ClientId /\ m.subs \in SUBSET Resource
         /\ m.type = "reconnect" => m.lastSeen \in Nat
         /\ m.type \in {"subscribe", "unsubscribe"} => m.resource \in Resource
         /\ m.type = "dispatchAction" => m.action \in Action
BY DEF Message

LEMMA SentType ==
  ASSUME TypeInv, NEW k \in Conn, NEW m \in Message, Sent(k, m)
  PROVE  up' \in [Conn -> Seq(Message)]
<1>1. Append(up[k], m) \in Seq(Message)
  BY AppendProperties DEF TypeInv
<1> QED
  BY <1>1 DEF Sent, TypeInv

LEMMA TakesType ==
  ASSUME TypeInv, NEW k \in Conn, NEW type, Takes(k, type)
  PROVE  /\ up' \in [Conn -> Seq(Message)]
         /\ Head(up[k]) \in Message
         /\ Head(up[k]).type = type
<1>1. Head(up[k]) \in Message /\ Tail(up[k]) \in Seq(Message)
  BY HeadTailProperties DEF TypeInv, Takes
<1> QED
  BY <1>1 DEF Takes, TypeInv

LEMMA AnsweredType ==
  ASSUME TypeInv, NEW k \in Conn, NEW ms \in Seq(Answer)
  PROVE  Answered(k, ms) \in [Conn -> Seq(Answer)]
<1>1. down[k] \o ms \in Seq(Answer)
  BY ConcatProperties DEF TypeInv
<1> QED
  BY <1>1 DEF Answered, TypeInv

LEMMA SnapshotsType ==
  ASSUME TypeInv, NEW rs \in SUBSET Resource
  PROVE  Snapshots(rs) \in SnapshotsMessage
<1> DEFINE f == [r \in rs |-> server.states[r]]
<1>1. f \in [rs -> State]
  BY DEF TypeInv
<1> HIDE DEF f
<1>2. f \in PartialStates
  BY <1>1 DEF PartialStates
<1>3. server.seq \in Nat
  BY DEF TypeInv
<1>4. Snapshots(rs) = [type |-> "snapshots", states |-> f, fromSeq |-> server.seq]
  BY DEF Snapshots, f
<1> QED
  BY <1>2, <1>3, <1>4 DEF SnapshotsMessage

LEMMA ApplyAndEmitType ==
  ASSUME TypeInv, NEW a \in Action, ApplyAndEmit(a)
  PROVE  /\ server' \in [seq : Nat, states : [Resource -> State],
                        buffer : Seq(Envelope), clients : [ClientId -> Conn \cup {Absent}]]
         /\ down' \in [Conn -> Seq(Answer)]
<1> DEFINE e == [seq |-> server.seq + 1, action |-> a]
           m == [type |-> "action", envelope |-> e]
<1>1. e \in Envelope /\ m \in Answer
  BY DEF TypeInv, Envelope, Answer
<1>2. server' = [server EXCEPT !.seq = @ + 1, !.states[a.resource] = Append(@, a),
                               !.buffer = Buffered(e)]
  BY DEF ApplyAndEmit
<1>3. down' = [k \in Conn |-> IF k \in Receivers(e) THEN Append(down[k], m) ELSE down[k]]
  BY DEF ApplyAndEmit
<1> HIDE DEF e, m
<1>4. Buffered(e) \in Seq(Envelope)
  <2> DEFINE b == Append(server.buffer, e)
  <2>1. b \in Seq(Envelope) /\ b # <<>>
    <3>1. server.buffer \in Seq(Envelope) /\ e \in Envelope
      BY <1>1 DEF TypeInv
    <3> QED
      BY <3>1, AppendProperties
  <2>2. Tail(b) \in Seq(Envelope)
    BY <2>1, HeadTailProperties
  <2> QED
    BY <2>1, <2>2 DEF Buffered
<1>5. a.resource \in Resource /\ server.states[a.resource] \in Seq(Action)
  BY DEF Action, State, TypeInv
<1>6. Append(server.states[a.resource], a) \in State
  BY <1>5, AppendProperties DEF State
<1>7. \A k \in Conn : Append(down[k], m) \in Seq(Answer) /\ down[k] \in Seq(Answer)
  BY <1>1, AppendProperties DEF TypeInv
<1>8. down' \in [Conn -> Seq(Answer)]
  BY <1>3, <1>7
<1>9. server' \in [seq : Nat, states : [Resource -> State],
                  buffer : Seq(Envelope), clients : [ClientId -> Conn \cup {Absent}]]
  <2>1. server \in [seq : Nat, states : [Resource -> State],
                   buffer : Seq(Envelope), clients : [ClientId -> Conn \cup {Absent}]]
    BY DEF TypeInv
  <2> DEFINE states == [server.states EXCEPT ![a.resource] = Append(@, a)]
  <2>2. states \in [Resource -> State] /\ server.seq + 1 \in Nat
    BY <1>5, <1>6, <2>1
  <2>3. server' = [seq |-> server.seq + 1, states |-> states, buffer |-> Buffered(e),
                   clients |-> server.clients]
    BY <1>2, <2>1
  <2>4. server.clients \in [ClientId -> Conn \cup {Absent}]
    BY <2>1
  <2> HIDE DEF states
  <2> QED
    BY <1>4, <2>2, <2>3, <2>4
<1> QED
  BY <1>8, <1>9

LEMMA ClientKeepsTypes ==
  ASSUME SyncAssumption, TypeInv, NEW c \in ClientId, ClientStep(c)
  PROVE  TypeInv'
<1>0. /\ clients \in [ClientId -> Client]
      /\ conns \in [Conn -> Connection]
      /\ line \in [Conn -> {"unused", "open", "cut", "closed"}]
  BY DEF TypeInv
<1>1. ASSUME NEW k \in Conn, Reconnect(c, k)
      PROVE  TypeInv'
  <2> DEFINE m == [type |-> "reconnect", client |-> c, lastSeen |-> views[c].lastSeen,
                   subs |-> DOMAIN views[c].confirmed]
  <2>1. views[c].lastSeen \in Nat /\ DOMAIN views[c].confirmed \subseteq Resource
    BY DEF RebasedViews, View, PartialStates, TypeInv
  <2>2. m \in Message /\ Sent(k, m)
    BY <1>1, <2>1 DEF Message, Reconnect, TypeInv
  <2> HIDE DEF m
  <2>3. up' \in [Conn -> Seq(Message)]
    BY <2>2, SentType DEF TypeInv
  <2>4. clients' \in [ClientId -> Client] /\ line' \in [Conn -> {"unused", "open", "cut", "closed"}]
    BY <1>0, <1>1 DEF Reconnect, Client
  <2> QED
    BY <1>1, <2>3, <2>4 DEF Reconnect, TypeInv
<1>2. ASSUME NEW k \in Conn, NEW rs \in Initial, Connect(c, k, rs)
      PROVE  TypeInv'
  <2> DEFINE m == [type |-> "initialize", client |-> c, subs |-> rs]
  <2>1. m \in Message /\ Sent(k, m)
    BY <1>2 DEF Message, Connect, SyncAssumption, TypeInv
  <2> HIDE DEF m
  <2>2. up' \in [Conn -> Seq(Message)]
    BY <2>1, SentType DEF TypeInv
  <2>3. clients' \in [ClientId -> Client] /\ line' \in [Conn -> {"unused", "open", "cut", "closed"}]
    BY <1>0, <1>2 DEF Connect, Client
  <2> QED
    BY <1>2, <2>2, <2>3 DEF Connect, TypeInv
<1>3. ASSUME Online(c)
      PROVE  clients[c].conn \in Conn
  BY <1>3 DEF Online, Client, TypeInv
<1>4. ASSUME NEW r \in Resource, Subscribe(c, r)
      PROVE  TypeInv'
  <2> DEFINE m == [type |-> "subscribe", resource |-> r]
  <2>1. m \in Message /\ Sent(clients[c].conn, m)
    BY <1>4 DEF Message, Subscribe, TypeInv
  <2> HIDE DEF m
  <2>2. up' \in [Conn -> Seq(Message)]
    BY <1>3, <1>4, <2>1, SentType DEF Subscribe, TypeInv
  <2>3. clients' \in [ClientId -> Client]
    BY <1>0, <1>4 DEF Subscribe, Client
  <2> QED
    BY <1>4, <2>2, <2>3 DEF Subscribe, TypeInv
<1>5. ASSUME NEW r \in Resource, Unsubscribe(c, r)
      PROVE  TypeInv'
  <2> DEFINE m == [type |-> "unsubscribe", resource |-> r]
  <2>1. m \in Message /\ Sent(clients[c].conn, m)
    BY <1>5 DEF Message, Unsubscribe, TypeInv
  <2> HIDE DEF m
  <2>2. up' \in [Conn -> Seq(Message)]
    BY <1>3, <1>5, <2>1, SentType DEF Unsubscribe, TypeInv
  <2>3. DropResource(views[c], r) \in RebasedViews
    BY DropResourceIs DEF TypeInv
  <2>4. views' \in [ClientId -> RebasedViews]
    BY <1>5, <2>3 DEF Unsubscribe, TypeInv
  <2> QED
    BY <1>5, <2>2, <2>4 DEF Unsubscribe, TypeInv
<1>6. ASSUME NEW s \in Session, Dispatch(c, s)
      PROVE  TypeInv'
  <2> DEFINE a == [resource |-> s, by |-> c, n |-> clients[c].nextSeq]
             m == [type |-> "dispatchAction", action |-> a]
  <2>1. a \in Action
    BY DEF Action, SyncAssumption, Client, TypeInv
  <2>2. m \in Message /\ Sent(clients[c].conn, m)
    BY <1>6, <2>1 DEF Message, Dispatch, TypeInv
  <2> HIDE DEF m
  <2>3. up' \in [Conn -> Seq(Message)]
    BY <1>3, <1>6, <2>2, SentType DEF Dispatch, TypeInv
  <2>4. views' = [views EXCEPT ![c] = ApplyOptimistic(@, a)]
    BY <1>6 DEF Dispatch, TypeInv
  <2> HIDE DEF a
  <2>5. ApplyOptimistic(views[c], a) \in RebasedViews
    BY <2>1, ApplyOptimisticIs DEF TypeInv
  <2>6. views' \in [ClientId -> RebasedViews]
    BY <2>4, <2>5 DEF TypeInv
  <2>7. clients' \in [ClientId -> Client]
    BY <1>0, <1>6 DEF Dispatch, Client
  <2> QED
    BY <1>6, <2>3, <2>6, <2>7 DEF Dispatch, TypeInv
<1>7. CASE Receive(c)
  <2> DEFINE k == clients[c].conn
             m == Head(down[k])
  <2>1. k \in Conn /\ down[k] # <<>>
    BY <1>7 DEF Receive, Client, TypeInv
  <2>2. m \in Answer /\ Tail(down[k]) \in Seq(Answer)
    BY <2>1, HeadTailProperties DEF TypeInv
  <2>3. Received(views[c], m) \in RebasedViews
    BY <2>2, ReceivedIsRebased DEF TypeInv
  <2>4. /\ views' = [views EXCEPT ![c] = Received(@, m)]
        /\ clients' = [clients EXCEPT
             ![c].ready = @ \/ m.type # "action",
             ![c].asked = IF m.type = "snapshots" THEN @ \ DOMAIN m.states ELSE @]
        /\ down' = [down EXCEPT ![k] = Tail(@)]
        /\ UNCHANGED <<server, conns, line, up>>
    BY <1>7 DEF Receive, TypeInv
  <2> HIDE DEF m, k
  <2>5. views' \in [ClientId -> RebasedViews] /\ down' \in [Conn -> Seq(Answer)]
    BY <2>1, <2>2, <2>3, <2>4 DEF TypeInv
  <2>6. clients' \in [ClientId -> Client]
    <3> DEFINE asked == IF m.type = "snapshots" THEN clients[c].asked \ DOMAIN m.states
                        ELSE clients[c].asked
               x == [clients[c] EXCEPT !.ready = @ \/ m.type # "action", !.asked = asked]
    <3>1. clients[c] \in Client
      BY <1>0
    <3>2. asked \in SUBSET Resource
      BY <3>1 DEF Client
    <3>3. clients' = [clients EXCEPT ![c] = x]
      BY <1>0, <2>4
    <3> HIDE DEF asked
    <3>4. x \in Client
      BY <3>1, <3>2 DEF Client
    <3> QED
      BY <1>0, <3>3, <3>4
  <2> QED
    BY <2>4, <2>5, <2>6 DEF TypeInv
<1>8. CASE Cut(c)
  <2> DEFINE k == clients[c].conn
  <2>1. k \in Conn
    BY <1>8 DEF Cut, Client, TypeInv
  <2>2. PICK n \in 0 .. Len(up[k]) : up' = [up EXCEPT ![k] = SubSeq(@, 1, n)]
    BY <1>8 DEF Cut, TypeInv
  <2>3. Len(up[k]) \in Nat /\ \A i \in 1 .. Len(up[k]) : up[k][i] \in Message
    BY <2>1, LenProperties, ElementOfSeq DEF TypeInv
  <2>4. SubSeq(up[k], 1, n) \in Seq(Message)
    BY <2>3, SubSeqProperties DEF TypeInv
  <2>5. up' \in [Conn -> Seq(Message)]
    BY <2>1, <2>2, <2>4 DEF TypeInv
  <2>6. clients' \in [ClientId -> Client]
    <3> DEFINE x == [clients[c] EXCEPT !.conn = Absent, !.ready = FALSE, !.asked = {}]
    <3>0. clients[c] \in Client
      BY <1>0
    <3>1. x \in Client
      BY <3>0 DEF Client
    <3>2. clients' = [clients EXCEPT ![c] = x]
      BY <1>0, <1>8 DEF Cut
    <3> QED
      BY <1>0, <3>1, <3>2
  <2>7. /\ line' \in [Conn -> {"unused", "open", "cut", "closed"}]
        /\ down' \in [Conn -> Seq(Answer)]
    BY <1>8, <2>1, EmptySeq DEF Cut, TypeInv
  <2> QED
    BY <1>8, <2>5, <2>6, <2>7 DEF Cut, TypeInv
<1> QED
  BY <1>1, <1>2, <1>4, <1>5, <1>6, <1>7, <1>8 DEF ClientStep, TypeInv

LEMMA ServerKeepsTypes ==
  ASSUME SyncAssumption, TypeInv, NEW k \in Conn, ServerStep(k)
  PROVE  TypeInv'
<1>0. /\ clients \in [ClientId -> Client]
      /\ conns \in [Conn -> Connection]
      /\ line \in [Conn -> {"unused", "open", "cut", "closed"}]
  BY DEF TypeInv
<1> DEFINE m == Head(up[k])
<1>1. ASSUME NEW type \in {"initialize", "reconnect"}, Takes(k, type),
             server' = [server EXCEPT !.clients[m.client] = k],
             conns' = [conns EXCEPT ![k].client = m.client, ![k].subs = m.subs],
             NEW answer \in Answer, down' = Answered(k, <<answer>>),
             UNCHANGED <<line, clients, views>>
      PROVE  TypeInv'
  <2>1. up' \in [Conn -> Seq(Message)] /\ m \in Message /\ m.type = type
    BY <1>1, TakesType DEF TypeInv
  <2>2. m.client \in ClientId /\ m.subs \in SUBSET Resource
    BY <2>1, MessageIs DEF TypeInv
  <2> HIDE DEF m
  <2>3. <<answer>> \in Seq(Answer)
    BY DEF TypeInv
  <2>4. down' \in [Conn -> Seq(Answer)]
    BY <1>1, <2>3, AnsweredType DEF TypeInv
  <2>5. conns' \in [Conn -> Connection]
    <3> DEFINE x == [conns[k] EXCEPT !.client = m.client, !.subs = m.subs]
    <3>0. conns[k] \in Connection
      BY <1>0
    <3>1. x \in Connection
      BY <3>0, <2>2 DEF Connection
    <3>2. conns' = [conns EXCEPT ![k] = x]
      BY <1>0, <1>1
    <3> QED
      BY <1>0, <3>1, <3>2
  <2> QED
    BY <1>1, <2>1, <2>2, <2>4, <2>5 DEF TypeInv
<1>2. CASE HandleInitialize(k)
  <2>1. m \in Message /\ m.type = "initialize"
    BY <1>2, TakesType DEF HandleInitialize, TypeInv
  <2>2. Snapshots(m.subs) \in Answer
    BY <2>1, MessageIs, SnapshotsType DEF Answer, TypeInv
  <2> HIDE DEF m
  <2> QED
    BY <1>1, <1>2, <2>2 DEF HandleInitialize, m, TypeInv
<1>3. CASE HandleReconnect(k)
  <2> DEFINE q == Missed(m.subs, m.lastSeen)
             answer == IF CanReplay(m.lastSeen) THEN [type |-> "replay", actions |-> q]
                       ELSE Snapshots(m.subs)
  <2>1. m \in Message /\ m.type = "reconnect"
    BY <1>3, TakesType DEF HandleReconnect, TypeInv
  <2>2. Snapshots(m.subs) \in Answer
    BY <2>1, MessageIs, SnapshotsType DEF Answer, TypeInv
  <2>3. q \in Seq(Envelope)
    BY WithinType DEF Missed, TypeInv
  <2> HIDE DEF q
  <2>4. answer \in Answer
    BY <2>2, <2>3 DEF Answer, TypeInv
  <2>5. /\ Takes(k, "reconnect")
        /\ server' = [server EXCEPT !.clients[m.client] = k]
        /\ conns' = [conns EXCEPT ![k].client = m.client, ![k].subs = m.subs]
        /\ down' = Answered(k, <<answer>>)
        /\ UNCHANGED <<line, clients, views>>
    BY <1>3 DEF HandleReconnect, q, TypeInv
  <2> HIDE DEF m, answer
  <2> QED
    BY <1>1, <2>4, <2>5 DEF TypeInv
<1>4. CASE HandleSubscribe(k)
  <2>1. up' \in [Conn -> Seq(Message)] /\ m \in Message /\ m.type = "subscribe"
    BY <1>4, TakesType DEF HandleSubscribe, TypeInv
  <2>2. {m.resource} \in SUBSET Resource
    BY <2>1, MessageIs DEF TypeInv
  <2> DEFINE job == Snapshots({m.resource})
  <2>3. job \in SnapshotsMessage
    BY <2>2, SnapshotsType DEF TypeInv
  <2>4. conns' = [conns EXCEPT ![k].jobs = Append(@, job)]
    BY <1>4 DEF HandleSubscribe, TypeInv
  <2> HIDE DEF job
  <2>5. Append(conns[k].jobs, job) \in Seq(SnapshotsMessage)
    BY <2>3, AppendProperties DEF Connection, TypeInv
  <2>6. conns' \in [Conn -> Connection]
    <3> DEFINE x == [conns[k] EXCEPT !.jobs = Append(conns[k].jobs, job)]
    <3>0. conns[k] \in Connection
      BY <1>0
    <3>1. x \in Connection
      BY <3>0, <2>5 DEF Connection
    <3>2. conns' = [conns EXCEPT ![k] = x]
      BY <1>0, <2>4
    <3> QED
      BY <1>0, <3>1, <3>2
  <2> QED
    BY <1>4, <2>1, <2>6 DEF HandleSubscribe, TypeInv
<1>5. CASE FinishSubscribes(k)
  <2> DEFINE jobs == conns[k].jobs
             more == UNION {DOMAIN x.states : x \in ToSet(jobs)}
  <2>1. jobs \in Seq(SnapshotsMessage)
    BY DEF Connection, TypeInv
  <2>2. jobs \in Seq(Answer)
    BY <2>1, SeqMonotonic DEF Answer, TypeInv
  <2>3. down' \in [Conn -> Seq(Answer)]
    BY <1>5, <2>2, AnsweredType DEF FinishSubscribes, TypeInv
  <2>4. \A x \in ToSet(jobs) : x \in SnapshotsMessage
    BY <2>1, ElementOfSeq, LenProperties DEF ToSet, TypeInv
  <2>5. more \subseteq Resource
    BY <2>4 DEF SnapshotsMessage, PartialStates, TypeInv
  <2>6. conns' = [conns EXCEPT ![k].subs = @ \cup more, ![k].jobs = <<>>]
    BY <1>5 DEF FinishSubscribes, TypeInv
  <2> HIDE DEF more
  <2>7. conns' \in [Conn -> Connection]
    <3> DEFINE x == [conns[k] EXCEPT !.subs = @ \cup more, !.jobs = <<>>]
    <3>0. conns[k] \in Connection
      BY <1>0
    <3>1. x \in Connection
      BY <3>0, <2>5, EmptySeq DEF Connection
    <3>2. conns' = [conns EXCEPT ![k] = x]
      BY <1>0, <2>6
    <3> QED
      BY <1>0, <3>1, <3>2
  <2> QED
    BY <1>5, <2>3, <2>7 DEF FinishSubscribes, TypeInv
<1>6. CASE HandleUnsubscribe(k)
  <2>1. up' \in [Conn -> Seq(Message)]
    BY <1>6, TakesType DEF HandleUnsubscribe, TypeInv
  <2>2. conns' \in [Conn -> Connection]
    <3> DEFINE x == [conns[k] EXCEPT !.subs = @ \ {m.resource}]
    <3>0. conns[k] \in Connection
      BY <1>0
    <3>1. x \in Connection
      BY <3>0 DEF Connection
    <3>2. conns' = [conns EXCEPT ![k] = x]
      BY <1>0, <1>6 DEF HandleUnsubscribe
    <3> QED
      BY <1>0, <3>1, <3>2
  <2> QED
    BY <1>6, <2>1, <2>2 DEF HandleUnsubscribe, TypeInv
<1>7. CASE HandleDispatch(k)
  <2>1. up' \in [Conn -> Seq(Message)] /\ m \in Message /\ m.type = "dispatchAction"
    BY <1>7, TakesType DEF HandleDispatch, TypeInv
  <2>2. m.action \in Action /\ ApplyAndEmit(m.action)
    BY <1>7, <2>1, MessageIs DEF HandleDispatch, TypeInv
  <2> HIDE DEF m
  <2> QED
    BY <1>7, <2>1, <2>2, ApplyAndEmitType DEF HandleDispatch, TypeInv
<1>8. CASE HandleClose(k)
  BY <1>8 DEF HandleClose, TypeInv
<1> QED
  BY <1>2, <1>3, <1>4, <1>5, <1>6, <1>7, <1>8 DEF ServerStep, TypeInv

LEMMA NextKeepsTypes ==
  ASSUME SyncAssumption, TypeInv, [Next]_vars
  PROVE  TypeInv'
<1>1. CASE \E c \in ClientId : ClientStep(c)
  BY <1>1, ClientKeepsTypes
<1>2. CASE \E k \in Conn : ServerStep(k)
  BY <1>2, ServerKeepsTypes
<1>3. ASSUME NEW r \in Resource, AgentAction(r)
      PROVE  TypeInv'
  <2> DEFINE a == [resource |-> r, by |-> Agent, n |-> server.seq + 1]
  <2>1. a \in Action /\ ApplyAndEmit(a)
    BY <1>3 DEF Action, TypeInv, AgentAction
  <2> HIDE DEF a
  <2> QED
    BY <1>3, <2>1, ApplyAndEmitType DEF AgentAction, TypeInv
<1>4. CASE UNCHANGED vars
  BY <1>4 DEF vars, TypeInv
<1> QED
  BY <1>1, <1>2, <1>3, <1>4 DEF Next

LEMMA TypesHold == Spec => []TypeInv
<1>1. Init => TypeInv
  BY SyncAssumption, TypeInit
<1>2. TypeInv /\ [Next]_vars => TypeInv'
  BY SyncAssumption, NextKeepsTypes
<1> QED
  BY <1>1, <1>2, PTL DEF Spec

\* Every variable has its type, in any run of any number of clients: no message of
\* one kind is ever taken for another (protocolServerHandler.ts,
\* remoteAgentHostProtocolClient.ts, sessionClientState.ts).
THEOREM SyncIsTyped == Spec => []SyncTypeOK
<1>1. TypeInv => SyncTypeOK
  <2> SUFFICES ASSUME TypeInv
               PROVE  SyncTypeOK
    OBVIOUS
  <2>1. \A m \in SnapshotsMessage : IsSnapshots(m)
    BY DEF SnapshotsMessage, IsSnapshots, IsStates, PartialStates
  <2>2. \A m \in Answer : IsAnswer(m)
    BY <2>1 DEF Answer, IsAnswer, SnapshotsMessage
  <2>3. ASSUME NEW k \in Conn
        PROVE  /\ conns[k].client \in ClientId \cup {Absent}
               /\ conns[k].subs \subseteq Resource
               /\ \A m \in ToSet(conns[k].jobs) : IsSnapshots(m)
               /\ \A m \in ToSet(down[k]) : IsAnswer(m)
    <3>1. /\ conns[k].client \in ClientId \cup {Absent}
          /\ conns[k].subs \subseteq Resource
          /\ conns[k].jobs \in Seq(SnapshotsMessage)
          /\ down[k] \in Seq(Answer)
      BY DEF TypeInv, Connection
    <3>2. \A m \in ToSet(conns[k].jobs) : m \in SnapshotsMessage
      BY <3>1, ElementOfSeq, LenProperties DEF ToSet
    <3>3. \A m \in ToSet(down[k]) : m \in Answer
      BY <3>1, ElementOfSeq, LenProperties DEF ToSet
    <3> QED
      BY <2>1, <2>2, <3>1, <3>2, <3>3
  <2>4. ASSUME NEW c \in ClientId
        PROVE  /\ clients[c].conn \in Conn \cup {Absent}
               /\ clients[c].ready \in BOOLEAN
               /\ clients[c].asked \subseteq Resource
               /\ clients[c].nextSeq \in Nat
               /\ views[c].lastSeen \in Nat
               /\ IsStates(views[c].confirmed)
               /\ IsStates(views[c].optimistic)
               /\ views[c].pending \in Seq(Action)
    BY DEF TypeInv, Client, RebasedViews, View, PartialStates, IsStates
  <2> QED
    BY <2>3, <2>4 DEF TypeInv, SyncTypeOK
<1> QED
  BY <1>1, TypesHold, PTL

\* What a client shows is the confirmed state with its pending actions on top,
\* whatever arrived in whatever order, also while it dispatches without waiting for
\* a subscribe (sessionClientState.ts, receiveEnvelope, _recomputeOptimistic).
THEOREM OptimisticStaysRebased == Spec => []OptimisticIsRebased
<1>1. TypeInv => OptimisticIsRebased
  BY DEF TypeInv, RebasedViews, IsRebased, OptimisticIsRebased
<1> QED
  BY <1>1, TypesHold, PTL

-----------------------------------------------------------------------------
(* The log: all actions the host has applied, in their order *)

\* What the first n actions of the log make of resource r.
At(log, r, n) == Of(r, SubSeq(log, 1, n))

\* The envelope of the n-th action.
Nth(log, n) == [seq |-> n, action |-> log[n]]

LEMMA StartOfLog ==
  ASSUME NEW log \in Seq(Action), NEW n \in 0 .. Len(log)
  PROVE  /\ SubSeq(log, 1, n) \in Seq(Action)
         /\ Len(SubSeq(log, 1, n)) = n
         /\ \A i \in 1 .. n : SubSeq(log, 1, n)[i] = log[i]
<1>1. Len(log) \in Nat /\ \A i \in 1 .. Len(log) : log[i] \in Action
  BY LenProperties, ElementOfSeq
<1>2. n \in Int /\ 1 \in Int /\ \A i \in 1 .. n : log[i] \in Action
  BY <1>1
<1>3. /\ SubSeq(log, 1, n) \in Seq(Action)
      /\ Len(SubSeq(log, 1, n)) = IF 1 <= n THEN n - 1 + 1 ELSE 0
      /\ \A i \in 1 .. n - 1 + 1 : SubSeq(log, 1, n)[i] = log[1 + i - 1]
  BY <1>2, SubSeqProperties
<1> QED
  BY <1>1, <1>3

LEMMA AtType ==
  ASSUME NEW log \in Seq(Action), NEW r \in Resource, NEW n \in 0 .. Len(log)
  PROVE  At(log, r, n) \in Seq(Action)
BY StartOfLog, OfType DEF At

LEMMA AtZero ==
  ASSUME NEW log \in Seq(Action), NEW r \in Resource
  PROVE  At(log, r, 0) = <<>>
<1>1. SubSeq(log, 1, 0) = <<>>
  BY SubSeqEmpty
<1> QED
  BY <1>1, OfEmpty DEF At

LEMMA AtNext ==
  ASSUME NEW log \in Seq(Action), NEW r \in Resource, NEW n \in 1 .. Len(log)
  PROVE  At(log, r, n) = IF log[n].resource = r THEN Append(At(log, r, n - 1), log[n])
                         ELSE At(log, r, n - 1)
<1> DEFINE p == SubSeq(log, 1, n - 1)
           q == SubSeq(log, 1, n)
<1>1. Len(log) \in Nat /\ log[n] \in Action
  BY LenProperties, ElementOfSeq
<1>2. /\ p \in Seq(Action) /\ Len(p) = n - 1 /\ \A i \in 1 .. n - 1 : p[i] = log[i]
      /\ q \in Seq(Action) /\ Len(q) = n /\ \A i \in 1 .. n : q[i] = log[i]
  BY <1>1, StartOfLog
<1> HIDE DEF p, q
<1>3. q = Append(p, log[n])
  <2> DEFINE t == Append(p, log[n])
  <2>1. /\ t \in Seq(Action) /\ Len(t) = Len(p) + 1 /\ t[Len(p) + 1] = log[n]
        /\ \A i \in 1 .. Len(p) : t[i] = p[i]
    BY <1>1, <1>2, AppendProperties
  <2> HIDE DEF t
  <2>2. Len(t) = Len(q) /\ \A i \in 1 .. Len(q) : q[i] = t[i]
    BY <1>1, <1>2, <2>1
  <2>3. q = t
    BY <1>2, <2>1, <2>2, SeqEqual
  <2> QED
    BY <2>3 DEF t
<1>4. Of(r, q) = IF log[n].resource = r THEN Append(Of(r, p), log[n]) ELSE Of(r, p)
  <2> DEFINE a == log[n]
  <2>1. a \in Action /\ q = Append(p, a)
    BY <1>1, <1>3
  <2> HIDE DEF a
  <2>2. Of(r, Append(p, a)) = IF a.resource = r THEN Append(Of(r, p), a) ELSE Of(r, p)
    BY <1>2, <2>1, OfAppend
  <2> QED
    BY <2>1, <2>2 DEF a
<1> QED
  BY <1>4 DEF At, p, q

\* The log only grows at its end.
LEMMA AtAppend ==
  ASSUME NEW log \in Seq(Action), NEW a \in Action, NEW r \in Resource,
         NEW n \in 0 .. Len(log)
  PROVE  At(Append(log, a), r, n) = At(log, r, n)
<1> DEFINE t == Append(log, a)
           p == SubSeq(log, 1, n)
           q == SubSeq(t, 1, n)
<1>1. /\ t \in Seq(Action) /\ Len(t) = Len(log) + 1 /\ Len(log) \in Nat
      /\ \A i \in 1 .. Len(log) : t[i] = log[i]
  BY AppendProperties, LenProperties
<1> HIDE DEF t
<1>2. n \in 0 .. Len(t)
  BY <1>1
<1>3. /\ p \in Seq(Action) /\ Len(p) = n /\ \A i \in 1 .. n : p[i] = log[i]
      /\ q \in Seq(Action) /\ Len(q) = n /\ \A i \in 1 .. n : q[i] = t[i]
  BY <1>1, <1>2, StartOfLog
<1> HIDE DEF p, q
<1>4. q = p
  <2>1. Len(q) = Len(p) /\ \A i \in 1 .. Len(q) : q[i] = p[i]
    BY <1>1, <1>3
  <2> QED
    BY <1>3, <2>1, SeqEqual
<1> QED
  BY <1>4 DEF At, p, q, t

LEMMA NthAppend ==
  ASSUME NEW log \in Seq(Action), NEW a \in Action
  PROVE  /\ Append(log, a) \in Seq(Action)
         /\ Len(Append(log, a)) = Len(log) + 1
         /\ \A n \in 1 .. Len(log) : Nth(Append(log, a), n) = Nth(log, n)
         /\ Nth(Append(log, a), Len(log) + 1) = [seq |-> Len(log) + 1, action |-> a]
BY AppendProperties DEF Nth

\* A resource changes only by actions on it.
LEMMA AtSame ==
  ASSUME NEW log \in Seq(Action), NEW r \in Resource, NEW m \in 0 .. Len(log),
         NEW n \in m .. Len(log), \A i \in m + 1 .. n : log[i].resource # r
  PROVE  At(log, r, n) = At(log, r, m)
<1> DEFINE T == {i \in Nat : At(log, r, m + i) = At(log, r, m)}
<1>1. Len(log) \in Nat
  BY LenProperties
<1>2. 0 \in T
  BY <1>1
<1>3. ASSUME NEW i \in 0 .. n - m - 1, i \in T
      PROVE  i + 1 \in T
  <2>1. /\ m + i + 1 \in 1 .. Len(log)
        /\ m + i + 1 - 1 = m + i
        /\ m + (i + 1) = m + i + 1
        /\ log[m + i + 1].resource # r
    BY <1>1
  <2>2. At(log, r, m + i + 1) = At(log, r, m + i)
    BY <2>1, AtNext
  <2> QED
    BY <1>3, <2>1, <2>2
<1>4. n - m \in Nat
  BY <1>1
<1> HIDE DEF T
<1>5. \A i \in 0 .. n - m : i \in T
  <2> DEFINE N == n - m
  <2>1. N \in Nat /\ \A i \in 0 .. N - 1 : i \in T => i + 1 \in T
    BY <1>3, <1>4
  <2> HIDE DEF N
  <2>2. \A i \in 0 .. N : i \in T
    BY <1>2, <2>1, UpTo
  <2> QED
    BY <2>2 DEF N
<1>6. n - m \in T /\ m + (n - m) = n
  BY <1>1, <1>4, <1>5
<1> QED
  BY <1>6 DEF T

\* What has been applied stays applied.
LEMMA AtGrows ==
  ASSUME NEW log \in Seq(Action), NEW r \in Resource, NEW m \in 0 .. Len(log),
         NEW n \in m .. Len(log)
  PROVE  /\ Len(At(log, r, m)) <= Len(At(log, r, n))
         /\ \A j \in 1 .. Len(At(log, r, m)) : At(log, r, n)[j] = At(log, r, m)[j]
<1> DEFINE base == At(log, r, m)
           Extends(q) == /\ Len(base) <= Len(q)
                         /\ \A j \in 1 .. Len(base) : q[j] = base[j]
           T == {i \in Nat : Extends(At(log, r, m + i))}
<1>1. Len(log) \in Nat /\ base \in Seq(Action) /\ Len(base) \in Nat
  BY LenProperties, AtType
<1>2. 0 \in T
  BY <1>1
<1> HIDE DEF base
<1>3. ASSUME NEW i \in 0 .. n - m - 1, i \in T
      PROVE  i + 1 \in T
  <2> DEFINE p == At(log, r, m + i)
             q == At(log, r, m + i + 1)
             a == log[m + i + 1]
  <2>1. /\ m + i + 1 \in 1 .. Len(log)
        /\ m + i \in 0 .. Len(log)
        /\ m + i + 1 - 1 = m + i
        /\ m + (i + 1) = m + i + 1
    BY <1>1
  <2>2. q = IF a.resource = r THEN Append(p, a) ELSE p
    <3> DEFINE x == m + i + 1
    <3>1. x \in 1 .. Len(log) /\ x - 1 = m + i
      BY <2>1
    <3> HIDE DEF x
    <3>2. At(log, r, x) = IF log[x].resource = r THEN Append(At(log, r, x - 1), log[x])
                          ELSE At(log, r, x - 1)
      BY <3>1, AtNext
    <3> QED
      BY <3>1, <3>2 DEF x
  <2>3. p \in Seq(Action) /\ a \in Action
    BY <2>1, AtType, ElementOfSeq
  <2>4. Extends(p)
    BY <1>3
  <2> HIDE DEF p, q, a
  <2>5. /\ Len(p) \in Nat
        /\ Len(Append(p, a)) = Len(p) + 1
        /\ \A j \in 1 .. Len(p) : Append(p, a)[j] = p[j]
    BY <2>3, AppendProperties, LenProperties
  <2>6. Extends(q)
    BY <1>1, <2>2, <2>4, <2>5
  <2> QED
    BY <2>1, <2>6 DEF q
<1>4. n - m \in Nat
  BY <1>1
<1> HIDE DEF T
<1>5. \A i \in 0 .. n - m : i \in T
  <2> DEFINE N == n - m
  <2>1. N \in Nat /\ \A i \in 0 .. N - 1 : i \in T => i + 1 \in T
    BY <1>3, <1>4
  <2> HIDE DEF N
  <2>2. \A i \in 0 .. N : i \in T
    BY <1>2, <2>1, UpTo
  <2> QED
    BY <2>2 DEF N
<1>6. n - m \in T /\ m + (n - m) = n
  BY <1>1, <1>4, <1>5
<1> QED
  BY <1>6 DEF T, base

-----------------------------------------------------------------------------
(* What is on its way to a client *)

\* The actions a message brings, by their numbers, and the states it brings.
Seqs(m) ==
  CASE m.type = "action" -> {m.envelope.seq}
    [] m.type = "replay" -> {m.actions[i].seq : i \in 1 .. Len(m.actions)}
    [] OTHER -> {}
Snap(m) == IF m.type = "snapshots" THEN DOMAIN m.states ELSE {}

\* m brings nothing older than what there is after n actions.
Before(n, m) ==
  /\ \A x \in Seqs(m) : n < x
  /\ m.type = "snapshots" => n <= m.fromSeq

\* What m1 brings is not newer than what m2 brings.
Precedes(m1, m2) ==
  /\ \A x \in Seqs(m1) : Before(x, m2)
  /\ m1.type = "snapshots" => Before(m1.fromSeq, m2)

IsNth(log, e) == e.seq \in 1 .. Len(log) /\ e = Nth(log, e.seq)

\* m brings what is in the log, replays in order.
Genuine(log, m) ==
  /\ m.type = "action" => IsNth(log, m.envelope)
  /\ m.type = "replay" =>
       /\ \A i \in 1 .. Len(m.actions) : IsNth(log, m.actions[i])
       /\ \A i, j \in 1 .. Len(m.actions) : i < j => m.actions[i].seq < m.actions[j].seq
  /\ m.type = "snapshots" =>
       /\ m.fromSeq \in 0 .. Len(log)
       /\ \A r \in DOMAIN m.states : m.states[r] = At(log, r, m.fromSeq)

\* All actions after the n-th on a resource of R are in messages from the i-th on.
Covered(log, R, n, ms, i) ==
  \A x \in n + 1 .. Len(log) : log[x].resource \in R =>
    \E j \in i .. Len(ms) : x \in Seqs(ms[j])

\* The confirmed states are those of the log after lastSeen actions.
Seen(log, v) ==
  /\ v.lastSeen \in 0 .. Len(log)
  /\ \A r \in DOMAIN v.confirmed : v.confirmed[r] = At(log, r, v.lastSeen)

\* The messages ms on their way to a client bring what view v lacks, each thing
\* once and in order, be it that the first one replaces all the client holds.
Flow(log, v, ms) ==
  /\ \A i \in 1 .. Len(ms) : Genuine(log, ms[i]) /\ Before(v.lastSeen, ms[i])
  /\ \A i, j \in 1 .. Len(ms) : i < j => Precedes(ms[i], ms[j])
  /\ \/ Len(ms) >= 1 /\ DOMAIN v.confirmed \subseteq Snap(ms[1])
     \/ Covered(log, DOMAIN v.confirmed, v.lastSeen, ms, 1)
  /\ \A i \in 1 .. Len(ms) : ms[i].type = "snapshots" =>
       Covered(log, DOMAIN ms[i].states, ms[i].fromSeq, ms, i + 1)

LEMMA AnswerIs ==
  ASSUME NEW m \in Answer
  PROVE  /\ m.type \in {"action", "replay", "snapshots"}
         /\ m.type = "action" =>
              m.envelope \in Envelope /\ Seqs(m) = {m.envelope.seq} /\ Snap(m) = {}
         /\ m.type = "replay" =>
              /\ m.actions \in Seq(Envelope)
              /\ Seqs(m) = {m.actions[i].seq : i \in 1 .. Len(m.actions)}
              /\ Snap(m) = {}
         /\ m.type = "snapshots" =>
              /\ m.states \in PartialStates /\ m.fromSeq \in Nat
              /\ Seqs(m) = {} /\ Snap(m) = DOMAIN m.states
         /\ Seqs(m) \subseteq Nat
         /\ Snap(m) \subseteq Resource
<1>1. CASE m \in [type : {"action"}, envelope : Envelope]
  BY <1>1 DEF Seqs, Snap, Envelope
<1>2. CASE m \in [type : {"replay"}, actions : Seq(Envelope)]
  <2>1. m.type = "replay" /\ m.actions \in Seq(Envelope)
    BY <1>2
  <2>2. \A i \in 1 .. Len(m.actions) : m.actions[i] \in Envelope
    BY <2>1, ElementOfSeq
  <2>3. \A e \in Envelope : e.seq \in Nat
    BY DEF Envelope
  <2> QED
    BY <2>1, <2>2, <2>3 DEF Seqs, Snap
<1>3. CASE m \in SnapshotsMessage
  BY <1>3 DEF SnapshotsMessage, Seqs, Snap, PartialStates
<1> QED
  BY <1>1, <1>2, <1>3 DEF Answer

\* The next action on what a client holds.
LEMMA SeesNext ==
  ASSUME NEW log \in Seq(Action), NEW v \in RebasedViews, Seen(log, v),
         NEW e \in Envelope, IsNth(log, e), v.lastSeen < e.seq,
         \A x \in v.lastSeen + 1 .. e.seq - 1 : log[x].resource \notin DOMAIN v.confirmed
  PROVE  /\ ReceiveEnvelope(v, e) \in RebasedViews
         /\ Seen(log, ReceiveEnvelope(v, e))
         /\ ReceiveEnvelope(v, e).lastSeen = e.seq
         /\ DOMAIN ReceiveEnvelope(v, e).confirmed = DOMAIN v.confirmed
<1> DEFINE w == ReceiveEnvelope(v, e)
           s == e.seq
<1>1. /\ w \in RebasedViews
      /\ w.lastSeen = Largest(v.lastSeen, s)
      /\ DOMAIN w.confirmed = DOMAIN v.confirmed
      /\ \A r \in DOMAIN v.confirmed :
           w.confirmed[r] = IF r = e.action.resource
                            THEN Append(v.confirmed[r], e.action) ELSE v.confirmed[r]
  BY ReceiveEnvelopeIs
<1>2. Len(log) \in Nat /\ s \in 1 .. Len(log) /\ v.lastSeen \in 0 .. s - 1 /\ s \in Nat
  BY LenProperties DEF IsNth, Seen
<1>3. e.action = log[s]
  BY DEF IsNth, Nth
<1>4. DOMAIN v.confirmed \subseteq Resource
  BY DEF RebasedViews, View, PartialStates
<1> HIDE DEF w
<1>5. w.lastSeen = s
  BY <1>1, <1>2 DEF Largest
<1>6. ASSUME NEW r \in DOMAIN v.confirmed
      PROVE  w.confirmed[r] = At(log, r, s)
  <2>1. r \in Resource /\ s - 1 \in v.lastSeen .. Len(log) /\ v.lastSeen \in 0 .. Len(log)
    BY <1>2, <1>4
  <2>2. \A x \in v.lastSeen + 1 .. s - 1 : log[x].resource # r
    OBVIOUS
  <2>3. At(log, r, s - 1) = At(log, r, v.lastSeen)
    <3> DEFINE n == s - 1
    <3>1. n \in v.lastSeen .. Len(log) /\ \A x \in v.lastSeen + 1 .. n : log[x].resource # r
      BY <2>1, <2>2
    <3> HIDE DEF n
    <3>2. At(log, r, n) = At(log, r, v.lastSeen)
      BY <2>1, <3>1, AtSame
    <3> QED
      BY <3>2 DEF n
  <2>4. At(log, r, s) = IF log[s].resource = r THEN Append(At(log, r, s - 1), log[s])
                        ELSE At(log, r, s - 1)
    BY <1>2, <2>1, AtNext
  <2>5. v.confirmed[r] = At(log, r, v.lastSeen)
    BY DEF Seen
  <2> QED
    BY <1>1, <1>3, <2>3, <2>4, <2>5
<1>7. Seen(log, w)
  BY <1>1, <1>2, <1>5, <1>6 DEF Seen
<1> QED
  BY <1>1, <1>5, <1>7 DEF w

\* A replay of all actions on what a client holds, up to some point.
LEMMA SeesReplay ==
  ASSUME NEW log \in Seq(Action), NEW v \in RebasedViews, Seen(log, v),
         NEW q \in Seq(Envelope),
         \A i \in 1 .. Len(q) : IsNth(log, q[i]) /\ v.lastSeen < q[i].seq,
         \A i, j \in 1 .. Len(q) : i < j => q[i].seq < q[j].seq,
         \A x \in v.lastSeen + 1 .. Len(log) : log[x].resource \in DOMAIN v.confirmed =>
           (\E i \in 1 .. Len(q) : q[i].seq = x) \/ (\A i \in 1 .. Len(q) : q[i].seq < x)
  PROVE  /\ Replayed(v, q) \in RebasedViews
         /\ Seen(log, Replayed(v, q))
         /\ Replayed(v, q).lastSeen = IF Len(q) = 0 THEN v.lastSeen ELSE q[Len(q)].seq
         /\ DOMAIN Replayed(v, q).confirmed = DOMAIN v.confirmed
<1> DEFINE N == Len(q)
           last(n) == IF n = 0 THEN v.lastSeen ELSE q[n].seq
<1>1. PICK after : Replays(after, v, q, RebasedViews)
  BY ReplayedIs
<1>2. /\ after \in [0 .. N -> RebasedViews]
      /\ after[0] = v
      /\ \A n \in 1 .. N : after[n] = ReceiveEnvelope(after[n - 1], q[n])
      /\ Replayed(v, q) = after[N]
  BY <1>1 DEF Replays
<1>3. N \in Nat /\ Len(log) \in Nat
  BY LenProperties
<1>4. \A n \in 1 .. N : q[n] \in Envelope /\ q[n].seq \in Nat
  <2>1. \A n \in 1 .. N : q[n] \in Envelope
    BY ElementOfSeq
  <2>2. \A e \in Envelope : e.seq \in Nat
    BY DEF Envelope
  <2> QED
    BY <2>1, <2>2
<1>5. v.lastSeen \in 0 .. Len(log)
  BY DEF Seen
<1> HIDE DEF N
<1> DEFINE T == {n \in 0 .. N : /\ Seen(log, after[n])
                               /\ after[n].lastSeen = last(n)
                               /\ DOMAIN after[n].confirmed = DOMAIN v.confirmed}
<1>6. 0 \in T
  BY <1>2, <1>3
<1>7. ASSUME NEW n \in 0 .. N - 1, n \in T
      PROVE  n + 1 \in T
  <2> DEFINE w == after[n]
             e == q[n + 1]
  <2>1. n + 1 \in 1 .. N /\ n \in 0 .. N /\ n + 1 - 1 = n
    BY <1>3
  <2>2. after[n + 1] = ReceiveEnvelope(w, e)
    BY <1>2, <2>1
  <2>3. /\ w \in RebasedViews /\ Seen(log, w)
        /\ w.lastSeen = last(n)
        /\ DOMAIN w.confirmed = DOMAIN v.confirmed
    BY <1>2, <1>7, <2>1
  <2>4. e \in Envelope /\ IsNth(log, e) /\ v.lastSeen < e.seq /\ e.seq \in Nat
    BY <1>4, <2>1 DEF N
  <2>5. last(n) < e.seq /\ v.lastSeen <= last(n) /\ last(n) \in Nat
    <3>1. CASE n = 0
      BY <1>5, <2>4, <3>1
    <3>2. CASE n \in 1 .. N
      BY <1>4, <1>5, <2>1, <2>4, <3>2 DEF N
    <3> QED
      BY <2>1, <3>1, <3>2
  <2>6. ASSUME NEW x \in w.lastSeen + 1 .. e.seq - 1, log[x].resource \in DOMAIN w.confirmed
        PROVE  FALSE
    <3>1. x \in v.lastSeen + 1 .. Len(log) /\ x < e.seq /\ last(n) < x
      BY <1>3, <1>5, <2>3, <2>4, <2>5, SMTT(30) DEF IsNth
    <3>2. PICK i \in 1 .. N : q[i].seq = x
      <4>1. log[x].resource \in DOMAIN v.confirmed
        BY <2>3, <2>6
      <4>2. ~(q[n + 1].seq < x)
        BY <2>4, <3>1
      <4> QED
        BY <2>1, <3>1, <4>1, <4>2 DEF N
    <3>3. CASE i <= n
      <4>1. n \in 1 .. N /\ (i = n \/ i < n)
        BY <1>3, <2>1, <3>2, <3>3
      <4>2. q[i].seq <= q[n].seq
        BY <1>4, <4>1 DEF N
      <4> QED
        BY <1>4, <3>1, <3>2, <4>1, <4>2
    <3>4. CASE i = n + 1
      BY <3>1, <3>2, <3>4, <2>4
    <3>5. CASE n + 1 < i
      BY <1>4, <2>1, <3>1, <3>2, <3>5 DEF N
    <3> QED
      BY <1>3, <2>1, <3>3, <3>4, <3>5
  <2> HIDE DEF w, e
  <2>7. /\ Seen(log, ReceiveEnvelope(w, e))
        /\ ReceiveEnvelope(w, e).lastSeen = e.seq
        /\ DOMAIN ReceiveEnvelope(w, e).confirmed = DOMAIN w.confirmed
    BY <2>3, <2>4, <2>5, <2>6, SeesNext
  <2>8. last(n + 1) = e.seq
    BY <2>1 DEF e
  <2> HIDE DEF last
  <2> QED
    BY <1>3, <2>1, <2>2, <2>3, <2>7, <2>8
<1> HIDE DEF T
<1>8. \A n \in 0 .. N : n \in T
  <2>1. \A n \in 0 .. N - 1 : n \in T => n + 1 \in T
    BY <1>7
  <2> QED
    BY <1>3, <1>6, <2>1, UpTo
<1>9. N \in T /\ after[N] \in RebasedViews
  BY <1>2, <1>3, <1>8
<1> QED
  BY <1>2, <1>9 DEF T, N

\* Snapshots that are not older than what a client holds, and bring again all of it
\* that has changed since.
LEMMA SeesSnapshots ==
  ASSUME NEW log \in Seq(Action), NEW v \in RebasedViews, Seen(log, v),
         NEW states \in PartialStates, NEW n \in v.lastSeen .. Len(log),
         \A r \in DOMAIN states : states[r] = At(log, r, n),
         \A x \in v.lastSeen + 1 .. n : log[x].resource \in DOMAIN v.confirmed =>
           log[x].resource \in DOMAIN states
  PROVE  /\ HandleSnapshots(v, states, n) \in RebasedViews
         /\ Seen(log, HandleSnapshots(v, states, n))
         /\ HandleSnapshots(v, states, n).lastSeen =
              IF DOMAIN states = {} THEN v.lastSeen ELSE n
         /\ DOMAIN HandleSnapshots(v, states, n).confirmed =
              DOMAIN v.confirmed \cup DOMAIN states
<1> DEFINE w == HandleSnapshots(v, states, n)
<1>1. v.lastSeen \in 0 .. Len(log) /\ Len(log) \in Nat /\ n \in Nat
  BY LenProperties DEF Seen
<1>2. /\ w \in RebasedViews
      /\ w.lastSeen = IF DOMAIN states = {} THEN v.lastSeen ELSE Largest(v.lastSeen, n)
      /\ DOMAIN w.confirmed = DOMAIN v.confirmed \cup DOMAIN states
      /\ \A r \in DOMAIN v.confirmed \cup DOMAIN states :
           w.confirmed[r] = IF r \in DOMAIN states THEN states[r] ELSE v.confirmed[r]
  BY <1>1, HandleSnapshotsIs, ZenonT(40)
<1>3. DOMAIN v.confirmed \subseteq Resource
  BY DEF RebasedViews, View, PartialStates
<1> HIDE DEF w
<1>4. w.lastSeen = IF DOMAIN states = {} THEN v.lastSeen ELSE n
  BY <1>1, <1>2 DEF Largest
<1>5. ASSUME NEW r \in DOMAIN v.confirmed, r \notin DOMAIN states, DOMAIN states # {}
      PROVE  w.confirmed[r] = At(log, r, n)
  <2>1. At(log, r, n) = At(log, r, v.lastSeen)
    <3>1. r \in Resource /\ \A x \in v.lastSeen + 1 .. n : log[x].resource # r
      BY <1>3, <1>5
    <3> QED
      BY <1>1, <3>1, AtSame
  <2>2. v.confirmed[r] = At(log, r, v.lastSeen)
    BY DEF Seen
  <2> QED
    BY <1>2, <1>5, <2>1, <2>2
<1>6. Seen(log, w)
  <2>1. CASE DOMAIN states = {}
    BY <1>1, <1>2, <1>4, <2>1 DEF Seen
  <2>2. CASE DOMAIN states # {}
    BY <1>1, <1>2, <1>4, <1>5, <2>2 DEF Seen
  <2> QED
    BY <2>1, <2>2
<1> QED
  BY <1>2, <1>4, <1>6 DEF w

\* Once the first message is taken.
LEMMA FlowOfTail ==
  ASSUME NEW log \in Seq(Action), NEW v \in RebasedViews, NEW w \in RebasedViews,
         NEW ms \in Seq(Answer), ms # <<>>, Flow(log, v, ms),
         \A j \in 2 .. Len(ms) : Before(w.lastSeen, ms[j]),
         Covered(log, DOMAIN w.confirmed, w.lastSeen, ms, 2)
  PROVE  Flow(log, w, Tail(ms))
<1> DEFINE t == Tail(ms)
<1>1. /\ t \in Seq(Answer) /\ Len(t) = Len(ms) - 1 /\ Len(ms) \in Nat /\ Len(ms) >= 1
      /\ \A j \in 1 .. Len(t) : t[j] = ms[j + 1]
  BY HeadTailProperties, EmptySeq
<1> HIDE DEF t
<1>2. \A j \in 1 .. Len(t) : j + 1 \in 2 .. Len(ms) /\ j + 1 \in 1 .. Len(ms)
  BY <1>1
<1>3. ASSUME NEW R, NEW n, NEW i \in Nat, i >= 1, Covered(log, R, n, ms, i + 1)
      PROVE  Covered(log, R, n, t, i)
  <2> SUFFICES ASSUME NEW x \in n + 1 .. Len(log), log[x].resource \in R
               PROVE  \E j \in i .. Len(t) : x \in Seqs(t[j])
    BY DEF Covered
  <2>1. PICK j \in i + 1 .. Len(ms) : x \in Seqs(ms[j])
    BY <1>3 DEF Covered
  <2>2. j - 1 \in i .. Len(t) /\ j - 1 \in 1 .. Len(t) /\ j - 1 + 1 = j
    BY <1>1, <1>3
  <2>3. x \in Seqs(t[j - 1])
    BY <1>1, <2>1, <2>2
  <2> QED
    BY <2>2, <2>3
<1>4. \A j \in 1 .. Len(t) : Genuine(log, t[j]) /\ Before(w.lastSeen, t[j])
  BY <1>1, <1>2 DEF Flow
<1>5. \A i, j \in 1 .. Len(t) : i < j => Precedes(t[i], t[j])
  <2> SUFFICES ASSUME NEW i \in 1 .. Len(t), NEW j \in 1 .. Len(t), i < j
               PROVE  Precedes(t[i], t[j])
    OBVIOUS
  <2>1. Precedes(ms[i + 1], ms[j + 1])
    <3>1. i + 1 < j + 1
      BY <1>1
    <3> QED
      BY <1>2, <3>1 DEF Flow
  <2> QED
    BY <1>1, <2>1
<1>6. Covered(log, DOMAIN w.confirmed, w.lastSeen, t, 1)
  BY <1>3
<1>7. ASSUME NEW i \in 1 .. Len(t), t[i].type = "snapshots"
      PROVE  Covered(log, DOMAIN t[i].states, t[i].fromSeq, t, i + 1)
  <2>1. ms[i + 1].type = "snapshots" /\ i + 1 \in 1 .. Len(ms) /\ t[i] = ms[i + 1]
    BY <1>1, <1>2, <1>7
  <2>2. Covered(log, DOMAIN t[i].states, t[i].fromSeq, ms, i + 1 + 1)
    BY <2>1 DEF Flow
  <2> QED
    BY <1>1, <1>3, <2>2
<1>8. Flow(log, w, t)
  BY <1>4, <1>5, <1>6, <1>7 DEF Flow
<1> QED
  BY <1>8 DEF t

\* What is newer than the first message is in the others.
LEMMA CoveredBeyond ==
  ASSUME NEW log, NEW R, NEW ms \in Seq(Answer), ms # <<>>, NEW n \in Nat, NEW k \in Nat,
         n <= k, Covered(log, R, n, ms, 1), \A x \in Seqs(ms[1]) : x <= k
  PROVE  Covered(log, R, k, ms, 2)
<1> SUFFICES ASSUME NEW x \in k + 1 .. Len(log), log[x].resource \in R
             PROVE  \E j \in 2 .. Len(ms) : x \in Seqs(ms[j])
  BY DEF Covered
<1>1. x \in n + 1 .. Len(log)
  OBVIOUS
<1>2. PICK j \in 1 .. Len(ms) : x \in Seqs(ms[j])
  BY <1>1 DEF Covered
<1>3. j # 1
  BY <1>2
<1> QED
  BY <1>2, <1>3

LEMMA ReceiveKeepsFlow ==
  ASSUME NEW log \in Seq(Action), NEW v \in RebasedViews, NEW ms \in Seq(Answer),
         ms # <<>>, Seen(log, v), Flow(log, v, ms)
  PROVE  /\ Received(v, Head(ms)) \in RebasedViews
         /\ Seen(log, Received(v, Head(ms)))
         /\ Flow(log, Received(v, Head(ms)), Tail(ms))
         /\ DOMAIN Received(v, Head(ms)).confirmed = DOMAIN v.confirmed \cup Snap(Head(ms))
<1> DEFINE m == Head(ms)
           w == Received(v, m)
           held == DOMAIN v.confirmed
<1>1. /\ m = ms[1] /\ m \in Answer /\ 1 \in 1 .. Len(ms) /\ Len(ms) \in Nat
  BY HeadTailProperties, EmptySeq
<1>2. /\ Genuine(log, m) /\ Before(v.lastSeen, m)
      /\ \A j \in 2 .. Len(ms) : Before(v.lastSeen, ms[j]) /\ Precedes(m, ms[j])
      /\ held \subseteq Snap(m) \/ Covered(log, held, v.lastSeen, ms, 1)
      /\ m.type = "snapshots" => Covered(log, DOMAIN m.states, m.fromSeq, ms, 2)
  <2>1. \A j \in 2 .. Len(ms) : j \in 1 .. Len(ms) /\ 1 < j
    BY <1>1
  <2> QED
    BY <1>1, <2>1 DEF Flow
<1>3. v.lastSeen \in 0 .. Len(log) /\ Len(log) \in Nat /\ v.lastSeen \in Nat
  BY LenProperties DEF Seen
<1>4. m.type \in {"action", "replay", "snapshots"}
  BY <1>1, AnswerIs
<1> HIDE DEF m, held
<1>5. ASSUME Snap(m) = {}, held \subseteq Snap(m)
      PROVE  Covered(log, held, v.lastSeen, ms, 1)
  BY <1>5 DEF Covered
<1>6. CASE m.type = "action"
  <2> DEFINE e == m.envelope
  <2>1. e \in Envelope /\ Seqs(m) = {e.seq} /\ Snap(m) = {} /\ IsNth(log, e)
    BY <1>1, <1>2, <1>6, AnswerIs DEF Genuine
  <2>2. Covered(log, held, v.lastSeen, ms, 1) /\ v.lastSeen < e.seq /\ e.seq \in Nat
    BY <1>2, <1>5, <2>1 DEF Before, Envelope
  <2>3. w = ReceiveEnvelope(v, e)
    BY <1>6 DEF Received
  <2> HIDE DEF e, w
  <2>4. Covered(log, held, e.seq, ms, 2)
    <3>1. \A x \in Seqs(ms[1]) : x <= e.seq
      BY <1>1, <2>1, <2>2
    <3> QED
      BY <1>3, <2>2, <3>1, CoveredBeyond
  <2>5. ASSUME NEW x \in v.lastSeen + 1 .. e.seq - 1, log[x].resource \in held
        PROVE  FALSE
    <3>1. x \in v.lastSeen + 1 .. Len(log) /\ x < e.seq
      BY <1>3, <2>1, <2>2 DEF IsNth
    <3>2. PICK j \in 1 .. Len(ms) : x \in Seqs(ms[j])
      BY <2>2, <2>5, <3>1 DEF Covered
    <3>3. CASE j = 1
      BY <1>1, <2>1, <3>1, <3>2, <3>3
    <3>4. CASE j \in 2 .. Len(ms)
      <4>1. e.seq < x
        BY <1>2, <2>1, <3>2, <3>4 DEF Precedes, Before
      <4> QED
        BY <2>2, <3>1, <4>1
    <3> QED
      BY <1>1, <3>3, <3>4
  <2>6. /\ w \in RebasedViews /\ Seen(log, w) /\ w.lastSeen = e.seq
        /\ DOMAIN w.confirmed = held
    BY <2>1, <2>2, <2>3, <2>5, SeesNext DEF held
  <2>7. \A j \in 2 .. Len(ms) : Before(w.lastSeen, ms[j])
    BY <1>2, <2>1, <2>6 DEF Precedes
  <2>8. Flow(log, w, Tail(ms))
    BY <2>4, <2>6, <2>7, FlowOfTail
  <2> QED
    BY <2>1, <2>6, <2>8 DEF w, m, held
<1>7. CASE m.type = "replay"
  <2> DEFINE q == m.actions
  <2>1. q \in Seq(Envelope) /\ Seqs(m) = {q[i].seq : i \in 1 .. Len(q)} /\ Snap(m) = {}
    BY <1>1, <1>7, AnswerIs
  <2>2. /\ \A i \in 1 .. Len(q) : IsNth(log, q[i])
        /\ \A i, j \in 1 .. Len(q) : i < j => q[i].seq < q[j].seq
    BY <1>2, <1>7 DEF Genuine
  <2>3. w = Replayed(v, q)
    BY <1>7 DEF Received
  <2> HIDE DEF q, w
  <2>4. Covered(log, held, v.lastSeen, ms, 1)
    BY <1>2, <1>5, <2>1
  <2>5. \A i \in 1 .. Len(q) : q[i].seq \in Seqs(m)
    BY <2>1
  <2>6. \A i \in 1 .. Len(q) : IsNth(log, q[i]) /\ v.lastSeen < q[i].seq
    BY <1>2, <2>2, <2>5 DEF Before
  <2>7. ASSUME NEW x \in v.lastSeen + 1 .. Len(log), log[x].resource \in held
        PROVE  (\E i \in 1 .. Len(q) : q[i].seq = x) \/ (\A i \in 1 .. Len(q) : q[i].seq < x)
    <3>1. PICK j \in 1 .. Len(ms) : x \in Seqs(ms[j])
      BY <2>4, <2>7 DEF Covered
    <3>2. CASE j = 1
      BY <1>1, <2>1, <3>1, <3>2
    <3>3. CASE j \in 2 .. Len(ms)
      <4>1. \A y \in Seqs(m) : y < x
        BY <1>2, <3>1, <3>3 DEF Precedes, Before
      <4> QED
        BY <2>5, <4>1
    <3> QED
      BY <1>1, <3>2, <3>3
  <2>8. /\ w \in RebasedViews /\ Seen(log, w)
        /\ w.lastSeen = IF Len(q) = 0 THEN v.lastSeen ELSE q[Len(q)].seq
        /\ DOMAIN w.confirmed = held
    BY <2>1, <2>2, <2>3, <2>6, <2>7, SeesReplay DEF held
  <2>9. Len(q) \in Nat /\ \A i \in 1 .. Len(q) : q[i].seq \in Nat
    BY <1>3, <2>1, <2>2, LenProperties DEF IsNth
  <2>10. /\ w.lastSeen \in Nat /\ v.lastSeen <= w.lastSeen
         /\ \A i \in 1 .. Len(q) : q[i].seq <= w.lastSeen
    <3>1. CASE Len(q) = 0
      BY <1>3, <2>8, <2>9, <3>1
    <3>2. CASE Len(q) # 0
      <4>1. Len(q) \in 1 .. Len(q) /\ w.lastSeen = q[Len(q)].seq
        BY <2>8, <2>9, <3>2
      <4>2. \A i \in 1 .. Len(q) : i = Len(q) \/ i < Len(q)
        BY <2>9
      <4>3. \A i \in 1 .. Len(q) : q[i].seq <= q[Len(q)].seq
        BY <2>2, <2>9, <4>1, <4>2
      <4> QED
        BY <1>3, <2>6, <2>9, <4>1, <4>3
    <3> QED
      BY <3>1, <3>2
  <2>11. Covered(log, held, w.lastSeen, ms, 2)
    <3>1. \A x \in Seqs(ms[1]) : x <= w.lastSeen
      BY <1>1, <2>1, <2>10
    <3> QED
      BY <1>3, <2>4, <2>10, <3>1, CoveredBeyond
  <2>12. \A j \in 2 .. Len(ms) : Before(w.lastSeen, ms[j])
    <3>1. CASE Len(q) = 0
      BY <1>2, <2>8, <3>1
    <3>2. CASE Len(q) # 0
      <4>1. w.lastSeen \in Seqs(m)
        BY <2>5, <2>8, <2>9, <3>2
      <4> QED
        BY <1>2, <4>1 DEF Precedes
    <3> QED
      BY <3>1, <3>2
  <2>13. Flow(log, w, Tail(ms))
    BY <2>8, <2>11, <2>12, FlowOfTail
  <2> QED
    BY <2>1, <2>8, <2>13 DEF w, m, held
<1>8. CASE m.type = "snapshots"
  <2> DEFINE states == m.states
             n == m.fromSeq
  <2>1. /\ states \in PartialStates /\ Seqs(m) = {} /\ Snap(m) = DOMAIN states
        /\ n \in v.lastSeen .. Len(log)
        /\ \A r \in DOMAIN states : states[r] = At(log, r, n)
        /\ Covered(log, DOMAIN states, n, ms, 2)
        /\ \A j \in 2 .. Len(ms) : Before(n, ms[j])
    BY <1>1, <1>2, <1>3, <1>8, AnswerIs DEF Genuine, Before, Precedes
  <2>2. w = HandleSnapshots(v, states, n)
    BY <1>8 DEF Received
  <2> HIDE DEF states, n, w
  <2>3. ASSUME NEW x \in v.lastSeen + 1 .. n, log[x].resource \in held
        PROVE  log[x].resource \in DOMAIN states
    <3>1. CASE held \subseteq Snap(m)
      BY <2>1, <2>3, <3>1
    <3>2. CASE Covered(log, held, v.lastSeen, ms, 1)
      <4>1. x \in v.lastSeen + 1 .. Len(log)
        BY <1>3, <2>1
      <4>2. PICK j \in 1 .. Len(ms) : x \in Seqs(ms[j])
        BY <2>3, <3>2, <4>1 DEF Covered
      <4>3. j \in 2 .. Len(ms)
        BY <1>1, <2>1, <4>2
      <4>4. n < x
        BY <2>1, <4>2, <4>3 DEF Before
      <4> QED
        BY <1>3, <2>1, <4>4
    <3> QED
      BY <1>2, <3>1, <3>2
  <2>4. /\ w \in RebasedViews /\ Seen(log, w)
        /\ w.lastSeen = IF DOMAIN states = {} THEN v.lastSeen ELSE n
        /\ DOMAIN w.confirmed = held \cup DOMAIN states
    BY <2>1, <2>2, <2>3, SeesSnapshots DEF held
  <2>5. \A j \in 2 .. Len(ms) : Before(w.lastSeen, ms[j])
    BY <1>2, <2>1, <2>4
  <2>6. Covered(log, DOMAIN w.confirmed, w.lastSeen, ms, 2)
    <3>1. CASE DOMAIN states = {}
      <4>1. Covered(log, held, v.lastSeen, ms, 1)
        BY <1>2, <1>5, <2>1, <3>1
      <4>2. \A x \in Seqs(ms[1]) : x <= v.lastSeen
        BY <1>1, <2>1
      <4>3. Covered(log, held, v.lastSeen, ms, 2)
        BY <1>3, <4>1, <4>2, CoveredBeyond
      <4> QED
        BY <2>4, <3>1, <4>3
    <3>2. CASE DOMAIN states # {}
      <4>1. CASE held \subseteq DOMAIN states
        BY <2>1, <2>4, <3>2, <4>1 DEF Covered
      <4>2. CASE Covered(log, held, v.lastSeen, ms, 1)
        <5>1. \A x \in Seqs(ms[1]) : x <= n
          BY <1>1, <2>1
        <5>2. n \in Nat /\ v.lastSeen <= n
          BY <1>3, <2>1
        <5>3. Covered(log, held, n, ms, 2)
          BY <1>3, <4>2, <5>1, <5>2, CoveredBeyond
        <5> QED
          BY <2>1, <2>4, <3>2, <5>3 DEF Covered
      <4> QED
        BY <1>2, <2>1, <4>1, <4>2
    <3> QED
      BY <3>1, <3>2
  <2>7. Flow(log, w, Tail(ms))
    BY <2>4, <2>5, <2>6, FlowOfTail
  <2> QED
    BY <2>1, <2>4, <2>7 DEF w, m, held
<1> QED
  BY <1>4, <1>6, <1>7, <1>8

\* The host applies one more action: what is in the log already stays there.
LEMMA GenuineGrows ==
  ASSUME NEW log \in Seq(Action), NEW a \in Action, NEW m \in Answer, Genuine(log, m)
  PROVE  Genuine(Append(log, a), m)
<1> DEFINE t == Append(log, a)
<1>1. /\ t \in Seq(Action) /\ Len(t) = Len(log) + 1 /\ Len(log) \in Nat
      /\ \A n \in 1 .. Len(log) : Nth(t, n) = Nth(log, n)
  BY NthAppend, LenProperties
<1>2. m.type = "snapshots" =>
        m.states \in PartialStates /\ DOMAIN m.states \subseteq Resource
  BY AnswerIs DEF PartialStates
<1>3. \A r \in Resource : \A n \in 0 .. Len(log) : At(t, r, n) = At(log, r, n)
  BY AtAppend
<1> HIDE DEF t
<1>4. \A e : IsNth(log, e) => IsNth(t, e)
  BY <1>1 DEF IsNth
<1>5. m.type = "snapshots" =>
        /\ m.fromSeq \in 0 .. Len(t)
        /\ \A r \in DOMAIN m.states : m.states[r] = At(t, r, m.fromSeq)
  BY <1>1, <1>2, <1>3 DEF Genuine
<1>6. Genuine(t, m)
  BY <1>4, <1>5 DEF Genuine
<1> QED
  BY <1>6 DEF t

LEMMA SeenGrows ==
  ASSUME NEW log \in Seq(Action), NEW a \in Action, NEW v \in RebasedViews, Seen(log, v)
  PROVE  Seen(Append(log, a), v)
<1>1. Len(Append(log, a)) = Len(log) + 1 /\ Len(log) \in Nat
  BY NthAppend, LenProperties
<1>2. DOMAIN v.confirmed \subseteq Resource
  BY DEF RebasedViews, View, PartialStates
<1>3. \A r \in Resource : \A n \in 0 .. Len(log) : At(Append(log, a), r, n) = At(log, r, n)
  BY AtAppend
<1>4. v.lastSeen \in 0 .. Len(Append(log, a))
  BY <1>1 DEF Seen
<1> QED
  BY <1>2, <1>3, <1>4 DEF Seen

\* An action on nothing that the client holds or is sent.
LEMMA FlowWithout ==
  ASSUME NEW log \in Seq(Action), NEW a \in Action, NEW v \in RebasedViews,
         NEW ms \in Seq(Answer), Seen(log, v), Flow(log, v, ms),
         a.resource \notin DOMAIN v.confirmed,
         \A i \in 1 .. Len(ms) : a.resource \notin Snap(ms[i])
  PROVE  Flow(Append(log, a), v, ms)
<1> DEFINE t == Append(log, a)
<1>1. /\ Len(t) = Len(log) + 1 /\ Len(log) \in Nat /\ t[Len(log) + 1] = a
      /\ \A n \in 1 .. Len(log) : t[n] = log[n]
  BY AppendProperties, LenProperties
<1>2. \A i \in 1 .. Len(ms) : ms[i] \in Answer
  BY ElementOfSeq
<1>3. \A i \in 1 .. Len(ms) : Genuine(t, ms[i])
  BY <1>2, GenuineGrows DEF Flow
<1> HIDE DEF t
<1>4. ASSUME NEW R, NEW n \in Nat, NEW i, Covered(log, R, n, ms, i), a.resource \notin R
      PROVE  Covered(t, R, n, ms, i)
  BY <1>1, <1>4 DEF Covered
<1>5. Covered(log, DOMAIN v.confirmed, v.lastSeen, ms, 1) =>
        Covered(t, DOMAIN v.confirmed, v.lastSeen, ms, 1)
  <2>1. v.lastSeen \in Nat
    BY <1>1 DEF Seen
  <2> QED
    BY <1>4, <2>1
<1>6. ASSUME NEW i \in 1 .. Len(ms), ms[i].type = "snapshots"
      PROVE  Covered(t, DOMAIN ms[i].states, ms[i].fromSeq, ms, i + 1)
  <2>1. a.resource \notin DOMAIN ms[i].states /\ ms[i].fromSeq \in Nat
    BY <1>2, <1>6, AnswerIs
  <2>2. Covered(log, DOMAIN ms[i].states, ms[i].fromSeq, ms, i + 1)
    BY <1>6 DEF Flow
  <2> QED
    BY <1>4, <2>1, <2>2
<1>7. Flow(t, v, ms)
  BY <1>3, <1>5, <1>6 DEF Flow
<1> QED
  BY <1>7 DEF t

\* One more message: it is the newest, and with it nothing is missing.
LEMMA FlowWith ==
  ASSUME NEW log \in Seq(Action), NEW t \in Seq(Action), NEW v \in RebasedViews,
         NEW ms \in Seq(Answer), Seen(log, v), Flow(log, v, ms), NEW m \in Answer,
         \A i \in 1 .. Len(ms) : Genuine(t, ms[i]),
         Genuine(t, m),
         \A n \in 0 .. Len(log) : Before(n, m),
         Len(t) \in {Len(log), Len(log) + 1},
         \A n \in 1 .. Len(log) : t[n] = log[n],
         Len(t) = Len(log) + 1 => Len(t) \in Seqs(m),
         m.type = "snapshots" => m.fromSeq = Len(t)
  PROVE  Flow(t, v, Append(ms, m))
<1> DEFINE q == Append(ms, m)
           M == Len(ms)
<1>1. /\ q \in Seq(Answer) /\ Len(q) = M + 1 /\ M \in Nat /\ Len(log) \in Nat
      /\ q[M + 1] = m /\ \A i \in 1 .. M : q[i] = ms[i]
  BY AppendProperties, LenProperties
<1>2. \A i \in 1 .. M : ms[i] \in Answer
  BY ElementOfSeq
<1> HIDE DEF q, M
<1>3. \A i \in 1 .. M + 1 : i \in 1 .. M \/ i = M + 1
  BY <1>1
<1>4. v.lastSeen \in 0 .. Len(log)
  BY DEF Seen
<1>5. \A i \in 1 .. M + 1 : Genuine(t, q[i]) /\ Before(v.lastSeen, q[i])
  BY <1>1, <1>3, <1>4 DEF Flow, M
<1>6. ASSUME NEW i \in 1 .. M
      PROVE  Precedes(ms[i], m)
  <2>1. ms[i] \in Answer /\ Genuine(log, ms[i])
    BY <1>2 DEF Flow, M
  <2>2. \A x \in Seqs(ms[i]) : x \in 0 .. Len(log)
    <3>1. CASE ms[i].type = "action"
      BY <1>1, <2>1, <3>1, AnswerIs DEF Genuine, IsNth
    <3>2. CASE ms[i].type = "replay"
      <4>1. Seqs(ms[i]) = {ms[i].actions[j].seq : j \in 1 .. Len(ms[i].actions)}
        BY <2>1, <3>2, AnswerIs
      <4>2. \A j \in 1 .. Len(ms[i].actions) : ms[i].actions[j].seq \in 1 .. Len(log)
        BY <2>1, <3>2 DEF Genuine, IsNth
      <4> QED
        BY <1>1, <4>1, <4>2, SMTT(30)
    <3>3. CASE ms[i].type = "snapshots"
      BY <2>1, <3>3, AnswerIs
    <3> QED
      BY <2>1, <3>1, <3>2, <3>3, AnswerIs
  <2>3. ms[i].type = "snapshots" => ms[i].fromSeq \in 0 .. Len(log)
    BY <2>1 DEF Genuine
  <2> QED
    BY <2>2, <2>3 DEF Precedes
<1>7. ASSUME NEW i \in 1 .. M + 1, NEW j \in 1 .. M + 1, i < j
      PROVE  Precedes(q[i], q[j])
  <2>1. i \in 1 .. M
    BY <1>1, <1>7
  <2>2. CASE j \in 1 .. M
    BY <1>1, <1>7, <2>1, <2>2 DEF Flow, M
  <2>3. CASE j = M + 1
    BY <1>1, <1>6, <2>1, <2>3
  <2> QED
    BY <1>3, <2>2, <2>3
<1>8. ASSUME NEW R, NEW n \in Nat, NEW i \in 1 .. M + 1, Covered(log, R, n, ms, i)
      PROVE  Covered(t, R, n, q, i)
  <2> SUFFICES ASSUME NEW x \in n + 1 .. Len(t), t[x].resource \in R
               PROVE  \E j \in i .. M + 1 : x \in Seqs(q[j])
    BY <1>1 DEF Covered
  <2>1. CASE x \in n + 1 .. Len(log)
    <3>1. t[x] = log[x]
      BY <2>1
    <3>2. PICK j \in i .. M : x \in Seqs(ms[j])
      BY <1>8, <2>1, <3>1 DEF Covered, M
    <3>3. j \in 1 .. M /\ j \in i .. M + 1
      BY <1>1
    <3> QED
      BY <1>1, <3>2, <3>3
  <2>2. CASE x \notin n + 1 .. Len(log)
    <3>1. x = Len(t) /\ Len(t) = Len(log) + 1
      BY <1>1, <2>2
    <3>2. M + 1 \in i .. M + 1
      BY <1>1
    <3> QED
      BY <1>1, <3>1, <3>2
  <2> QED
    BY <2>1, <2>2
<1>9. \/ Len(q) >= 1 /\ DOMAIN v.confirmed \subseteq Snap(q[1])
      \/ Covered(t, DOMAIN v.confirmed, v.lastSeen, q, 1)
  <2>1. CASE Len(ms) >= 1 /\ DOMAIN v.confirmed \subseteq Snap(ms[1])
    BY <1>1, <2>1 DEF M
  <2>2. CASE Covered(log, DOMAIN v.confirmed, v.lastSeen, ms, 1)
    BY <1>1, <1>4, <1>8, <2>2
  <2> QED
    BY <2>1, <2>2 DEF Flow
<1>10. ASSUME NEW i \in 1 .. M + 1, q[i].type = "snapshots"
       PROVE  Covered(t, DOMAIN q[i].states, q[i].fromSeq, q, i + 1)
  <2>1. CASE i \in 1 .. M
    <3>1. q[i] = ms[i] /\ ms[i].fromSeq \in Nat /\ i + 1 \in 1 .. M + 1
      BY <1>1, <1>2, <1>10, <2>1, AnswerIs
    <3>2. Covered(log, DOMAIN ms[i].states, ms[i].fromSeq, ms, i + 1)
      BY <1>10, <2>1, <3>1 DEF Flow, M
    <3> QED
      BY <1>8, <3>1, <3>2
  <2>2. CASE i = M + 1
    <3>1. q[i].fromSeq = Len(t) /\ Len(t) \in Nat
      BY <1>1, <1>10, <2>2
    <3> QED
      BY <3>1 DEF Covered
  <2> QED
    BY <1>3, <2>1, <2>2
<1>11. Flow(t, v, q)
  BY <1>1, <1>5, <1>7, <1>9, <1>10 DEF Flow
<1> QED
  BY <1>11 DEF q

\* The client lets go of some of what it holds.
LEMMA FlowDropped ==
  ASSUME NEW log, NEW v, NEW w, NEW ms, Flow(log, v, ms),
         w.lastSeen = v.lastSeen, DOMAIN w.confirmed \subseteq DOMAIN v.confirmed
  PROVE  Flow(log, w, ms)
BY DEF Flow, Covered

\* A first message that brings all that is missing.
LEMMA FlowStarts ==
  ASSUME NEW log \in Seq(Action), NEW v, NEW m \in Answer,
         Genuine(log, m), Before(v.lastSeen, m),
         \/ DOMAIN v.confirmed \subseteq Snap(m)
         \/ \A x \in v.lastSeen + 1 .. Len(log) :
              log[x].resource \in DOMAIN v.confirmed => x \in Seqs(m),
         m.type = "snapshots" => m.fromSeq = Len(log)
  PROVE  Flow(log, v, <<m>>)
<1> DEFINE q == <<m>>
<1>1. Len(q) = 1 /\ q[1] = m
  OBVIOUS
<1> HIDE DEF q
<1>2. \A i \in 1 .. Len(q) : i = 1
  BY <1>1
<1>3. \/ Len(q) >= 1 /\ DOMAIN v.confirmed \subseteq Snap(q[1])
      \/ Covered(log, DOMAIN v.confirmed, v.lastSeen, q, 1)
  BY <1>1 DEF Covered
<1>4. Len(log) \in Nat
  BY LenProperties
<1>5. m.type = "snapshots" => Covered(log, DOMAIN m.states, m.fromSeq, q, 1 + 1)
  BY <1>4 DEF Covered
<1>6. Flow(log, v, q)
  BY <1>1, <1>2, <1>3, <1>5 DEF Flow
<1> QED
  BY <1>6 DEF q

=============================================================================
