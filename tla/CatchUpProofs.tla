------------------------- MODULE CatchUpProofs -------------------------
(***************************************************************************)
(* Connections, requests and answers between clients and the protocol      *)
(* server: proofs about ProtocolSync for any number of clients,            *)
(* connections, resources, actions and messages, of clients that wait for  *)
(* the answer to a subscribe before they act on what they asked for.       *)
(***************************************************************************)
EXTENDS ProtocolSyncProofs

-----------------------------------------------------------------------------
(* Invariants *)

\* The resources that messages bring the states of.
Coming(ms) == UNION {Snap(ms[i]) : i \in 1 .. Len(ms)}

-----------------------------------------------------------------------------
(* Connections, requests and answers *)

\* Only a client whose handshake is answered is ready, and only such a client has
\* asked for anything.
ReadyInv ==
  \A c \in ClientId :
    /\ clients[c].ready => Joined(c)
    /\ ~ clients[c].ready => clients[c].asked = {}

\* Nothing but handshakes is on its way to the server, and nothing from it, on a
\* connection that it does not know.
FreshConns ==
  \A k \in Conn : conns[k].client = Absent =>
    /\ down[k] = <<>> /\ conns[k].jobs = <<>> /\ conns[k].subs = {}
    /\ \A i \in 1 .. Len(up[k]) : IsHandshake(up[k][i])

\* A connection in use is known as that of its user, if at all.
OwnConns ==
  \A c \in ClientId : clients[c].conn # Absent =>
     conns[clients[c].conn].client \in {Absent, c}

\* There is at most one subscribe between its snapshot and its answer, and the
\* snapshot is of the current state.
JobsAreCurrent ==
  \A k \in Conn : conns[k].jobs # <<>> =>
    /\ \E r \in Resource : conns[k].jobs = <<Snapshots({r})>>
    /\ \A j \in Conn : j # k => conns[j].jobs = <<>>

\* Clients act on what they hold.
PendingIsHeld ==
  \A c \in ClientId : \A a \in ToSet(views[c].pending) :
    a.resource \in DOMAIN views[c].confirmed

QuietInv == ReadyInv /\ FreshConns /\ OwnConns /\ JobsAreCurrent /\ PendingIsHeld

-----------------------------------------------------------------------------
(* What a client may rely on *)

\* The log is what the host has applied, and the buffer the last part of it.
IsLog(log) ==
  /\ server.seq = Len(log)
  /\ \A r \in Resource : server.states[r] = At(log, r, Len(log))
  /\ Len(server.buffer) <= Len(log)
  /\ \A i \in 1 .. Len(server.buffer) :
       server.buffer[i] = Nth(log, Len(log) - Len(server.buffer) + i)

\* The handshake that client c with view v has sent, and nothing else.
Waiting(c, v, q) ==
  /\ Len(q) = 1
  /\ q[1].client = c
  /\ \/ q[1].type = "initialize" /\ DOMAIN v.confirmed = {}
     \/ /\ q[1].type = "reconnect"
        /\ q[1].lastSeen = v.lastSeen
        /\ q[1].subs = DOMAIN v.confirmed

\* The answer to the handshake is on its way, before everything else.
Answering(q, jobs, ms) ==
  /\ q = <<>> /\ jobs = <<>> /\ ms # <<>>
  /\ ms[1].type # "action"
  /\ \A i \in 2 .. Len(ms) : ms[i].type = "action"

\* Of requests q, unanswered jobs and messages ms between a client that holds the
\* states of held and has asked for more: a snapshot that is on its way has been
\* asked for, once, and nothing that comes is about to be unsubscribed.
Orderly(q, jobs, ms, asked, held) ==
  /\ asked \cap held = {}
  /\ Coming(jobs) \subseteq asked
  /\ Coming(ms) \subseteq asked
  /\ Coming(jobs) \cap Coming(ms) = {}
  /\ \A i, j \in 1 .. Len(ms) : i < j => Snap(ms[i]) \cap Snap(ms[j]) = {}
  /\ \A i \in 1 .. Len(q) : q[i].type = "subscribe" =>
       /\ q[i].resource \in asked
       /\ q[i].resource \notin Coming(jobs) \cup Coming(ms)
       /\ \A j \in i + 1 .. Len(q) :
            q[j].type \in {"subscribe", "unsubscribe"} => q[j].resource # q[i].resource
  /\ \A i \in 1 .. Len(q) : q[i].type = "unsubscribe" =>
       q[i].resource \notin held \cup Coming(jobs) \cup Coming(ms)

\* Client c with record x and view v, its requests q, what the server knows of the
\* connection (d) and the messages ms to the client fit together.
Linked(log, c, x, v, q, d, ms) ==
  IF d.client = Absent THEN ~ x.ready /\ Waiting(c, v, q)
  ELSE /\ Flow(log, v, ms)
       /\ DOMAIN v.confirmed \cup Coming(ms) \subseteq d.subs
       /\ IF x.ready THEN Orderly(q, d.jobs, ms, x.asked, DOMAIN v.confirmed)
          ELSE Answering(q, d.jobs, ms)

LinkedTo(log, c) ==
  clients[c].conn # Absent =>
    Linked(log, c, clients[c], views[c], up[clients[c].conn], conns[clients[c].conn],
           down[clients[c].conn])

LinkedInv(log) == \A c \in ClientId : LinkedTo(log, c)

LoggedInv(log) == IsLog(log) /\ (\A c \in ClientId : Seen(log, views[c])) /\ LinkedInv(log)

-----------------------------------------------------------------------------
\* No connection but the one a client uses is known as its own.
First(c) == \A k \in Conn : conns[k].client = c => k = clients[c].conn

\* What is pending is on its way, on the first connection of a client.
PendingInv ==
  \A c \in ClientId : First(c) =>
    \A a \in ToSet(views[c].pending) : clients[c].ready /\ OnItsWay(c, a)

-----------------------------------------------------------------------------
(* Values *)

\* No message at all.
LEMMA ComingEmpty == Coming(<<>>) = {}
<1>1. Len(<<>>) = 0
  OBVIOUS
<1> QED
  BY <1>1 DEF Coming

LEMMA ComingAppend ==
  ASSUME NEW S, NEW ms \in Seq(S), NEW m \in S
  PROVE  Coming(Append(ms, m)) = Coming(ms) \cup Snap(m)
<1> DEFINE q == Append(ms, m)
           n == Len(ms)
<1>1. n \in Nat /\ Len(q) = n + 1 /\ q[n + 1] = m /\ \A i \in 1 .. n : q[i] = ms[i]
  BY AppendProperties, LenProperties
<1> HIDE DEF q, n
<1>2. Coming(q) = UNION {Snap(q[i]) : i \in 1 .. n + 1}
  BY <1>1 DEF Coming
<1>3. Coming(ms) = UNION {Snap(ms[i]) : i \in 1 .. n}
  BY DEF Coming, n
<1>4. ASSUME NEW x \in Coming(q)
      PROVE  x \in Coming(ms) \cup Snap(m)
  <2>1. PICK i \in 1 .. n + 1 : x \in Snap(q[i])
    BY <1>2, <1>4
  <2>2. i \in 1 .. n \/ i = n + 1
    BY <1>1
  <2> QED
    BY <1>1, <1>3, <2>1, <2>2
<1>5. ASSUME NEW x \in Coming(ms)
      PROVE  x \in Coming(q)
  <2>1. PICK i \in 1 .. n : x \in Snap(ms[i])
    BY <1>3, <1>5
  <2>2. i \in 1 .. n + 1 /\ q[i] = ms[i]
    BY <1>1
  <2> QED
    BY <1>2, <2>1, <2>2
<1>6. Snap(m) \subseteq Coming(q)
  <2>1. n + 1 \in 1 .. n + 1
    BY <1>1
  <2> QED
    BY <1>1, <1>2, <2>1
<1>7. Coming(q) = Coming(ms) \cup Snap(m)
  BY <1>4, <1>5, <1>6
<1> QED
  BY <1>7 DEF q

LEMMA ComingTail ==
  ASSUME NEW S, NEW ms \in Seq(S), ms # <<>>
  PROVE  /\ Coming(ms) = Snap(Head(ms)) \cup Coming(Tail(ms))
         /\ Head(ms) = ms[1] /\ Head(ms) \in S /\ Tail(ms) \in Seq(S)
         /\ Len(Tail(ms)) + 1 = Len(ms)
         /\ \A i \in 1 .. Len(Tail(ms)) : Tail(ms)[i] = ms[i + 1]
<1> DEFINE q == Tail(ms)
           n == Len(q)
<1>1. /\ n \in Nat /\ Len(ms) = n + 1 /\ Head(ms) = ms[1] /\ Head(ms) \in S
      /\ q \in Seq(S) /\ \A i \in 1 .. n : q[i] = ms[i + 1]
  BY HeadTailProperties, LenProperties, EmptySeq
<1> HIDE DEF q, n
<1>2. Coming(q) = UNION {Snap(q[i]) : i \in 1 .. n}
  BY DEF Coming, n
<1>3. Coming(ms) = UNION {Snap(ms[i]) : i \in 1 .. n + 1}
  BY <1>1 DEF Coming
<1>4. ASSUME NEW x \in Coming(ms)
      PROVE  x \in Snap(ms[1]) \cup Coming(q)
  <2>1. PICK i \in 1 .. n + 1 : x \in Snap(ms[i])
    BY <1>3, <1>4
  <2>2. CASE i = 1
    BY <2>1, <2>2
  <2>3. CASE i # 1
    <3>1. i - 1 \in 1 .. n /\ i - 1 + 1 = i
      BY <1>1, <2>3
    <3>2. q[i - 1] = ms[i]
      BY <1>1, <3>1
    <3> QED
      BY <1>2, <2>1, <3>1, <3>2
  <2> QED
    BY <2>2, <2>3
<1>5. ASSUME NEW x \in Coming(q)
      PROVE  x \in Coming(ms)
  <2>1. PICK i \in 1 .. n : x \in Snap(q[i])
    BY <1>2, <1>5
  <2>2. i + 1 \in 1 .. n + 1 /\ q[i] = ms[i + 1]
    BY <1>1
  <2> QED
    BY <1>3, <2>1, <2>2
<1>6. Snap(ms[1]) \subseteq Coming(ms)
  <2>1. 1 \in 1 .. n + 1
    BY <1>1
  <2> QED
    BY <1>3, <2>1
<1>7. Coming(ms) = Snap(ms[1]) \cup Coming(q)
  BY <1>4, <1>5, <1>6
<1> QED
  BY <1>1, <1>7 DEF q, n

LEMMA ConcatOne ==
  ASSUME NEW S, NEW q \in Seq(S), NEW e \in S
  PROVE  q \o <<e>> = Append(q, e)
<1> DEFINE s == q \o <<e>>
           t == Append(q, e)
           o == <<e>>
<1>1. o \in Seq(S) /\ Len(o) = 1 /\ o[1] = e
  OBVIOUS
<1>2. s = q \o o
  OBVIOUS
<1> HIDE DEF o
<1>3. /\ s \in Seq(S) /\ Len(s) = Len(q) + 1 /\ Len(q) \in Nat
      /\ \A i \in 1 .. Len(q) + 1 : s[i] = IF i <= Len(q) THEN q[i] ELSE o[i - Len(q)]
  BY <1>1, <1>2, ConcatProperties, LenProperties
<1>4. /\ t \in Seq(S) /\ Len(t) = Len(q) + 1 /\ t[Len(q) + 1] = e
      /\ \A i \in 1 .. Len(q) : t[i] = q[i]
  BY AppendProperties
<1> HIDE DEF s, t
<1>5. \A i \in 1 .. Len(q) + 1 : s[i] = t[i]
  <2>1. \A i \in 1 .. Len(q) + 1 : i \in 1 .. Len(q) \/ i = Len(q) + 1
    BY <1>3
  <2> QED
    BY <1>1, <1>3, <1>4, <2>1
<1>6. s = t
  BY <1>3, <1>4, <1>5, SeqEqual
<1> QED
  BY <1>6 DEF s, t

-----------------------------------------------------------------------------
(* The connections alone *)

LEMMA QuietInit ==
  ASSUME SyncAssumption, Init
  PROVE  QuietInv
<1>1. /\ \A c \in ClientId : clients[c] = NewClient /\ views[c] = NewView
      /\ \A k \in Conn : conns[k] = NewConn /\ up[k] = <<>> /\ down[k] = <<>>
  BY DEF Init
<1>2. \A k \in Conn : Len(up[k]) = 0
  BY <1>1
<1>3. ToSet(<<>>) = {}
  BY DEF ToSet
<1>4. ReadyInv /\ OwnConns /\ JobsAreCurrent
  BY <1>1 DEF NewClient, NewConn, ReadyInv, OwnConns, JobsAreCurrent
<1>5. FreshConns
  BY <1>1, <1>2 DEF NewConn, FreshConns
<1>6. PendingIsHeld
  BY <1>1, <1>3 DEF NewView, PendingIsHeld
<1> QED
  BY <1>4, <1>5, <1>6 DEF QuietInv

LEMMA SameJobs ==
  ASSUME JobsAreCurrent, server'.seq = server.seq, server'.states = server.states,
         \A k \in Conn : conns'[k].jobs = conns[k].jobs
  PROVE  JobsAreCurrent'
BY DEF JobsAreCurrent, Snapshots

LEMMA NoJobs ==
  ASSUME \A k \in Conn : conns'[k].jobs = <<>>
  PROVE  JobsAreCurrent'
BY DEF JobsAreCurrent

LEMMA SentKeepsFresh ==
  ASSUME TypeInv, FreshConns, NEW k \in Conn, NEW m \in Message, Sent(k, m),
         IsHandshake(m) \/ conns[k].client # Absent, UNCHANGED <<conns, down>>
  PROVE  FreshConns'
<1>1. up \in [Conn -> Seq(Message)] /\ up[k] \in Seq(Message)
  BY DEF TypeInv
<1>2. up' = [up EXCEPT ![k] = Append(@, m)]
  BY DEF Sent
<1>3. /\ Len(Append(up[k], m)) = Len(up[k]) + 1 /\ Len(up[k]) \in Nat
      /\ Append(up[k], m)[Len(up[k]) + 1] = m
      /\ \A i \in 1 .. Len(up[k]) : Append(up[k], m)[i] = up[k][i]
  BY <1>1, AppendProperties, LenProperties
<1>4. ASSUME NEW j \in Conn, conns[j].client = Absent
      PROVE  \A i \in 1 .. Len(up'[j]) : IsHandshake(up'[j][i])
  <2>1. CASE j = k
    <3>1. up'[j] = Append(up[k], m)
      BY <1>1, <1>2, <2>1
    <3>2. \A i \in 1 .. Len(up[k]) : IsHandshake(up[k][i])
      BY <1>4, <2>1 DEF FreshConns
    <3>3. \A i \in 1 .. Len(up[k]) + 1 : i \in 1 .. Len(up[k]) \/ i = Len(up[k]) + 1
      BY <1>3
    <3>4. IsHandshake(m)
      BY <1>4, <2>1
    <3> QED
      BY <1>3, <3>1, <3>2, <3>3, <3>4
  <2>2. CASE j # k
    BY <1>1, <1>2, <1>4, <2>2 DEF FreshConns
  <2> QED
    BY <2>1, <2>2
<1> QED
  BY <1>4 DEF FreshConns

LEMMA TakesIs ==
  ASSUME TypeInv, ~ Burst, NEW k \in Conn, NEW type, Takes(k, type)
  PROVE  /\ up' = [up EXCEPT ![k] = Tail(@)]
         /\ up[k] # <<>> /\ up[k] \in Seq(Message)
         /\ Head(up[k]) = up[k][1] /\ Head(up[k]) \in Message /\ Head(up[k]).type = type
         /\ Len(Tail(up[k])) + 1 = Len(up[k]) /\ Len(Tail(up[k])) \in Nat
         /\ \A i \in 1 .. Len(Tail(up[k])) : Tail(up[k])[i] = up[k][i + 1]
         /\ \A j \in Conn : conns[j].jobs = <<>>
<1>1. up[k] \in Seq(Message) /\ up[k] # <<>>
  BY DEF Takes, TypeInv
<1>2. Tail(up[k]) \in Seq(Message)
  BY <1>1, ComingTail
<1> QED
  BY <1>1, <1>2, ComingTail, LenProperties DEF Takes, MayRun

LEMMA TakesFresh ==
  ASSUME TypeInv, ~ Burst, FreshConns, NEW k \in Conn, NEW type, Takes(k, type)
  PROVE  /\ \A j \in Conn : conns[j].client = Absent =>
              \A i \in 1 .. Len(up'[j]) : IsHandshake(up'[j][i])
         /\ type \notin {"initialize", "reconnect"} => conns[k].client # Absent
<1>1. /\ up' = [up EXCEPT ![k] = Tail(@)]
      /\ up[k] # <<>> /\ Head(up[k]) = up[k][1] /\ Head(up[k]).type = type
      /\ Len(Tail(up[k])) + 1 = Len(up[k]) /\ Len(Tail(up[k])) \in Nat
      /\ \A i \in 1 .. Len(Tail(up[k])) : Tail(up[k])[i] = up[k][i + 1]
  BY TakesIs
<1>2. up \in [Conn -> Seq(Message)]
  BY DEF TypeInv
<1>3. ASSUME NEW j \in Conn, conns[j].client = Absent
      PROVE  \A i \in 1 .. Len(up'[j]) : IsHandshake(up'[j][i])
  <2>1. \A i \in 1 .. Len(up[j]) : IsHandshake(up[j][i])
    BY <1>3 DEF FreshConns
  <2>2. CASE j = k
    <3>1. \A i \in 1 .. Len(Tail(up[k])) : i + 1 \in 1 .. Len(up[k])
      BY <1>1
    <3> QED
      BY <1>1, <1>2, <2>1, <2>2, <3>1
  <2>3. CASE j # k
    BY <1>1, <1>2, <2>1, <2>3
  <2> QED
    BY <2>2, <2>3
<1>4. ASSUME conns[k].client = Absent
      PROVE  type \in {"initialize", "reconnect"}
  <2>1. 1 \in 1 .. Len(up[k])
    BY <1>1
  <2> QED
    BY <1>1, <1>4, <2>1 DEF FreshConns, IsHandshake
<1> QED
  BY <1>3, <1>4

-----------------------------------------------------------------------------
(* What a view shows and what is pending *)

LEMMA SetOfSeq ==
  ASSUME NEW E, NEW s \in Seq(E)
  PROVE  ToSet(s) \subseteq E
BY ElementOfSeq DEF ToSet

LEMMA SetOfAppend ==
  ASSUME NEW E, NEW s \in Seq(E), NEW e \in E
  PROVE  ToSet(Append(s, e)) = ToSet(s) \cup {e}
<1> DEFINE t == Append(s, e)
           n == Len(s)
<1>1. n \in Nat /\ Len(t) = n + 1 /\ t[n + 1] = e /\ \A i \in 1 .. n : t[i] = s[i]
  BY AppendProperties, LenProperties
<1> HIDE DEF t, n
<1>2. ToSet(s) = {s[i] : i \in 1 .. n} /\ ToSet(t) = {t[i] : i \in 1 .. n + 1}
  BY <1>1 DEF ToSet, n
<1>3. \A i \in 1 .. n + 1 : i \in 1 .. n \/ i = n + 1
  BY <1>1
<1>4. \A i \in 1 .. n : i \in 1 .. n + 1
  BY <1>1
<1>5. n + 1 \in 1 .. n + 1
  BY <1>1
<1>6. ToSet(t) = ToSet(s) \cup {e}
  BY <1>1, <1>2, <1>3, <1>4, <1>5
<1> QED
  BY <1>6 DEF t

\* Filtering keeps exactly the elements that are to be kept.
LEMMA SetOfWithin ==
  ASSUME NEW E, NEW s \in Seq(E), NEW S
  PROVE  ToSet(Within(s, S)) = ToSet(s) \cap S
<1> DEFINE T == {q \in Seq(E) : ToSet(Within(q, S)) = ToSet(q) \cap S}
<1>1. <<>> \in T
  <2>1. Within(<<>>, S) = <<>> /\ ToSet(<<>>) = {}
    BY WithinEmpty DEF ToSet
  <2> QED
    BY <2>1, EmptySeq
<1>2. ASSUME NEW q \in T, NEW e \in E
      PROVE  Append(q, e) \in T
  <2>1. q \in Seq(E) /\ ToSet(Within(q, S)) = ToSet(q) \cap S
    BY <1>2
  <2>2. Append(q, e) \in Seq(E) /\ ToSet(Append(q, e)) = ToSet(q) \cup {e}
    BY <2>1, AppendProperties, SetOfAppend
  <2>3. Within(q, S) \in Seq(E)
    BY <2>1, WithinType
  <2>4. Within(Append(q, e), S) = IF e \in S THEN Append(Within(q, S), e) ELSE Within(q, S)
    BY <2>1, WithinAppend
  <2>5. ToSet(Append(Within(q, S), e)) = ToSet(Within(q, S)) \cup {e}
    BY <2>3, SetOfAppend
  <2> QED
    BY <2>1, <2>2, <2>4, <2>5
<1> HIDE DEF T
<1>3. T \in SUBSET Seq(E)
  BY DEF T
<1>4. T = Seq(E)
  BY <1>1, <1>2, <1>3, SeqSetInduction
<1> QED
  BY <1>4 DEF T

\* What a client holds and what is pending after a message from the server.
LEMMA ReceivedPending ==
  ASSUME NEW v \in RebasedViews, NEW m \in Answer
  PROVE  /\ DOMAIN Received(v, m).confirmed = DOMAIN v.confirmed \cup Snap(m)
         /\ ToSet(Received(v, m).pending) \subseteq ToSet(v.pending)
         /\ m.type = "action" => m.envelope.action \notin ToSet(Received(v, m).pending)
<1>1. \A w \in RebasedViews : w.pending \in Seq(Action)
  BY DEF RebasedViews, View
<1>2. ASSUME NEW w \in RebasedViews, NEW e \in Envelope
      PROVE  /\ ToSet(ReceiveEnvelope(w, e).pending) = ToSet(w.pending) \ {e.action}
             /\ DOMAIN ReceiveEnvelope(w, e).confirmed = DOMAIN w.confirmed
  <2>1. /\ ReceiveEnvelope(w, e).pending = Within(w.pending, Action \ {e.action})
        /\ DOMAIN ReceiveEnvelope(w, e).confirmed = DOMAIN w.confirmed
    BY ReceiveEnvelopeIs
  <2>2. w.pending \in Seq(Action)
    BY <1>1
  <2>3. ToSet(w.pending) \subseteq Action
    BY <2>2, SetOfSeq
  <2>4. ToSet(Within(w.pending, Action \ {e.action})) = ToSet(w.pending) \cap (Action \ {e.action})
    BY <2>2, SetOfWithin
  <2> QED
    BY <2>1, <2>3, <2>4
<1>3. CASE m.type = "action"
  <2>1. m.envelope \in Envelope /\ Snap(m) = {} /\ Received(v, m) = ReceiveEnvelope(v, m.envelope)
    BY <1>3, AnswerIs DEF Received
  <2> QED
    BY <1>2, <2>1
<1>4. CASE m.type = "replay"
  <2> DEFINE q == m.actions
             N == Len(q)
  <2>1. q \in Seq(Envelope) /\ Snap(m) = {} /\ Received(v, m) = Replayed(v, q)
    BY <1>4, AnswerIs DEF Received
  <2>2. PICK after : Replays(after, v, q, RebasedViews)
    BY <2>1, ReplayedIs
  <2>3. N \in Nat /\ \A n \in 1 .. N : q[n] \in Envelope
    BY <2>1, LenProperties, ElementOfSeq
  <2>4. /\ \A n \in 0 .. N : after[n] \in RebasedViews
        /\ after[0] = v /\ Replayed(v, q) = after[N]
        /\ \A n \in 1 .. N : after[n] = ReceiveEnvelope(after[n - 1], q[n])
    BY <2>2 DEF Replays
  <2> DEFINE T == {n \in 0 .. N : /\ ToSet(after[n].pending) \subseteq ToSet(v.pending)
                                 /\ DOMAIN after[n].confirmed = DOMAIN v.confirmed}
  <2> HIDE DEF q, N
  <2>5. 0 \in T
    BY <2>3, <2>4
  <2>6. ASSUME NEW n \in 0 .. N - 1, n \in T
        PROVE  n + 1 \in T
    <3>1. n + 1 \in 1 .. N /\ n + 1 - 1 = n /\ n \in 0 .. N /\ n + 1 \in 0 .. N
      BY <2>3
    <3>2. after[n + 1] = ReceiveEnvelope(after[n], q[n + 1])
      BY <2>4, <3>1
    <3>3. /\ ToSet(after[n + 1].pending) = ToSet(after[n].pending) \ {q[n + 1].action}
          /\ DOMAIN after[n + 1].confirmed = DOMAIN after[n].confirmed
      BY <1>2, <2>3, <2>4, <3>1, <3>2, ZenonT(40)
    <3> QED
      BY <2>6, <3>1, <3>3
  <2> HIDE DEF T
  <2>7. \A n \in 0 .. N - 1 : n \in T => n + 1 \in T
    BY <2>6
  <2>8. N \in T
    <3>1. N \in 0 .. N
      BY <2>3
    <3> QED
      BY <2>3, <2>5, <2>7, <3>1, UpTo
  <2> QED
    BY <1>4, <2>1, <2>4, <2>8 DEF T
<1>5. CASE m.type = "snapshots"
  <2>1. m.states \in PartialStates /\ m.fromSeq \in Nat /\ Snap(m) = DOMAIN m.states
    BY <1>5, AnswerIs
  <2>2. Received(v, m) = HandleSnapshots(v, m.states, m.fromSeq)
    BY <1>5 DEF Received
  <2> QED
    BY <1>5, <2>1, <2>2, HandleSnapshotsIs
<1> QED
  BY <1>3, <1>4, <1>5, AnswerIs

-----------------------------------------------------------------------------
(* What clients do keeps the connections as they should be *)

LEMMA OpeningKeepsQuiet ==
  ASSUME SyncAssumption, TypeInv, RegistrationInv, QuietInv,
         NEW c \in ClientId, NEW k \in Conn, clients[c].conn = Absent, line[k] = "unused",
         clients' = [clients EXCEPT ![c].conn = k],
         NEW m \in Message, IsHandshake(m), Sent(k, m),
         UNCHANGED <<server, conns, down, views>>
  PROVE  QuietInv'
<1>1. clients \in [ClientId -> Client] /\ conns[k].client = Absent
  BY DEF TypeInv, RegistrationInv, UnusedIsFresh
<1>2. /\ ~ clients[c].ready
      /\ clients'[c].conn = k /\ clients'[c].ready = clients[c].ready
      /\ clients'[c].asked = clients[c].asked
      /\ \A d \in ClientId : d # c => clients'[d] = clients[d]
  BY <1>1 DEF QuietInv, ReadyInv, Joined, Client
<1>3. ReadyInv'
  <2>1. \A d \in ClientId : d # c => Joined(d)' = Joined(d)
    BY <1>2 DEF Joined
  <2> QED
    BY <1>2, <2>1 DEF QuietInv, ReadyInv
<1>4. OwnConns'
  BY <1>1, <1>2 DEF QuietInv, OwnConns
<1>5. FreshConns'
  BY SentKeepsFresh DEF QuietInv
<1>6. JobsAreCurrent'
  BY SameJobs DEF QuietInv
<1>7. PendingIsHeld'
  BY DEF QuietInv, PendingIsHeld
<1> QED
  BY <1>3, <1>4, <1>5, <1>6, <1>7 DEF QuietInv

\* A client that is ready sends a request.
LEMMA RequestKeepsQuiet ==
  ASSUME SyncAssumption, TypeInv, QuietInv, NEW c \in ClientId, clients[c].ready,
         \A d \in ClientId : d # c => clients'[d] = clients[d] /\ views'[d] = views[d],
         clients'[c].conn = clients[c].conn, clients'[c].ready,
         \A a \in ToSet(views'[c].pending) : a.resource \in DOMAIN views'[c].confirmed,
         NEW m \in Message, Sent(clients[c].conn, m), UNCHANGED <<server, conns, down>>
  PROVE  QuietInv'
<1>1. /\ clients[c].conn \in Conn
      /\ conns[clients[c].conn].client = c
  BY DEF QuietInv, ReadyInv, Joined, TypeInv, Client
<1>2. c # Absent
  BY DEF SyncAssumption
<1>3. ReadyInv'
  <2>1. \A d \in ClientId : Joined(d)' = Joined(d)
    BY DEF Joined
  <2> QED
    BY <2>1 DEF QuietInv, ReadyInv
<1>4. OwnConns'
  BY DEF QuietInv, OwnConns
<1>5. FreshConns'
  BY <1>1, <1>2, SentKeepsFresh DEF QuietInv
<1>6. JobsAreCurrent'
  BY SameJobs DEF QuietInv
<1>7. PendingIsHeld'
  BY DEF QuietInv, PendingIsHeld
<1> QED
  BY <1>3, <1>4, <1>5, <1>6, <1>7 DEF QuietInv

\* A client lets go of a resource.
LEMMA DropResourcePending ==
  ASSUME NEW v \in RebasedViews, NEW r \in Resource
  PROVE  /\ DOMAIN DropResource(v, r).confirmed = DOMAIN v.confirmed \ {r}
         /\ ToSet(DropResource(v, r).pending) = {a \in ToSet(v.pending) : a.resource # r}
<1>1. v.pending \in Seq(Action)
  BY DEF RebasedViews, View
<1>2. ToSet(v.pending) \subseteq Action
  BY <1>1, SetOfSeq
<1>3. ToSet(Within(v.pending, Action \ ActionsOn(r))) =
        ToSet(v.pending) \cap (Action \ ActionsOn(r))
  BY <1>1, SetOfWithin
<1>4. DOMAIN DropResource(v, r).confirmed = DOMAIN v.confirmed \ {r}
  <2>1. DropResource(v, r).confirmed = Dropping(v.confirmed, r)
    BY DropResourceIs
  <2>2. DOMAIN Dropping(v.confirmed, r) = DOMAIN v.confirmed \ {r}
    BY DEF Dropping
  <2> QED
    BY <2>1, <2>2
<1> QED
  BY <1>2, <1>3, <1>4, DropResourceIs DEF ActionsOn

LEMMA ReceiveIs ==
  ASSUME TypeInv, NEW c \in ClientId, Receive(c)
  PROVE  LET k == clients[c].conn
             m == Head(down[k])
         IN /\ k \in Conn /\ down[k] # <<>> /\ down[k] \in Seq(Answer) /\ m \in Answer
            /\ views' = [views EXCEPT ![c] = Received(@, m)]
            /\ down' = [down EXCEPT ![k] = Tail(@)]
            /\ \A d \in ClientId : d # c => clients'[d] = clients[d]
            /\ clients'[c].conn = k
            /\ clients'[c].ready = (clients[c].ready \/ m.type # "action")
            /\ clients'[c].asked = clients[c].asked \ Snap(m)
            /\ UNCHANGED <<server, conns, line, up>>
<1> DEFINE k == clients[c].conn
           m == Head(down[k])
<1>1. k \in Conn /\ down[k] # <<>> /\ down[k] \in Seq(Answer) /\ m \in Answer
  <2>1. k \in Conn /\ down[k] # <<>> /\ down[k] \in Seq(Answer)
    BY DEF Receive, TypeInv, Client
  <2> QED
    BY <2>1, HeadTailProperties
<1>2. clients \in [ClientId -> Client]
  BY DEF TypeInv
<1>3. /\ views' = [views EXCEPT ![c] = Received(@, m)]
      /\ clients' = [clients EXCEPT
           ![c].ready = @ \/ m.type # "action",
           ![c].asked = IF m.type = "snapshots" THEN @ \ DOMAIN m.states ELSE @]
      /\ down' = [down EXCEPT ![k] = Tail(@)]
      /\ UNCHANGED <<server, conns, line, up>>
  BY DEF Receive
<1> HIDE DEF m
<1>4. /\ \A d \in ClientId : d # c => clients'[d] = clients[d]
      /\ clients'[c].conn = k
      /\ clients'[c].ready = (clients[c].ready \/ m.type # "action")
      /\ clients'[c].asked = clients[c].asked \ Snap(m)
  BY <1>2, <1>3 DEF Client, Snap
<1> QED
  BY <1>1, <1>3, <1>4 DEF m

LEMMA ReceiveKeepsQuiet ==
  ASSUME SyncAssumption, TypeInv, QuietInv, NEW c \in ClientId, Receive(c)
  PROVE  QuietInv'
<1> DEFINE k == clients[c].conn
           m == Head(down[k])
<1>1. /\ k \in Conn /\ down[k] # <<>> /\ m \in Answer
      /\ views' = [views EXCEPT ![c] = Received(@, m)]
      /\ down' = [down EXCEPT ![k] = Tail(@)]
      /\ \A d \in ClientId : d # c => clients'[d] = clients[d]
      /\ clients'[c].conn = k
      /\ clients'[c].ready = (clients[c].ready \/ m.type # "action")
      /\ clients'[c].asked = clients[c].asked \ Snap(m)
      /\ UNCHANGED <<server, conns, line, up>>
  BY ReceiveIs
<1> HIDE DEF k, m
<1>2. conns[k].client = c /\ Joined(c) /\ c # Absent
  BY <1>1 DEF QuietInv, FreshConns, OwnConns, SyncAssumption, Joined, k
<1>3. ReadyInv'
  <2>1. \A d \in ClientId : Joined(d)' = Joined(d)
    BY <1>1 DEF Joined, k
  <2>2. ~ clients'[c].ready => clients'[c].asked = {}
    BY <1>1 DEF QuietInv, ReadyInv
  <2> QED
    BY <1>1, <1>2, <2>1, <2>2 DEF QuietInv, ReadyInv
<1>4. OwnConns'
  BY <1>1 DEF QuietInv, OwnConns, k
<1>5. FreshConns'
  <2>1. \A j \in Conn : conns'[j].client = Absent => down'[j] = down[j]
    BY <1>1, <1>2 DEF TypeInv
  <2> QED
    BY <1>1, <2>1 DEF QuietInv, FreshConns
<1>6. JobsAreCurrent'
  BY <1>1, SameJobs DEF QuietInv
<1>7. PendingIsHeld'
  <2>1. views[c] \in RebasedViews /\ views \in [ClientId -> RebasedViews]
    BY DEF TypeInv
  <2> DEFINE w == Received(views[c], m)
  <2>2. /\ DOMAIN w.confirmed = DOMAIN views[c].confirmed \cup Snap(m)
        /\ ToSet(w.pending) \subseteq ToSet(views[c].pending)
    BY <1>1, <2>1, ReceivedPending
  <2>3. views'[c] = w /\ \A d \in ClientId : d # c => views'[d] = views[d]
    BY <1>1, <2>1
  <2> HIDE DEF w
  <2> QED
    BY <2>2, <2>3 DEF QuietInv, PendingIsHeld
<1> QED
  BY <1>3, <1>4, <1>5, <1>6, <1>7 DEF QuietInv

LEMMA CutIs ==
  ASSUME TypeInv, NEW c \in ClientId, Cut(c)
  PROVE  LET k == clients[c].conn
         IN /\ k \in Conn
            /\ line' = [line EXCEPT ![k] = "cut"]
            /\ \A d \in ClientId : d # c => clients'[d] = clients[d]
            /\ clients'[c].conn = Absent /\ ~ clients'[c].ready /\ clients'[c].asked = {}
            /\ \A j \in Conn : j # k => up'[j] = up[j] /\ down'[j] = down[j]
            /\ down'[k] = <<>>
            /\ Len(up'[k]) \in 0 .. Len(up[k])
            /\ \A i \in 1 .. Len(up'[k]) : up'[k][i] = up[k][i]
            /\ conns[k].client = Absent => Len(up'[k]) = 0
            /\ UNCHANGED <<server, conns, views>>
<1> DEFINE k == clients[c].conn
<1>1. k \in Conn
  BY DEF Cut, Client, TypeInv
<1>2. PICK n \in 0 .. Len(up[k]) : /\ conns[k].client = Absent => n = 0
                                  /\ up' = [up EXCEPT ![k] = SubSeq(@, 1, n)]
  BY DEF Cut
<1>3. Len(up[k]) \in Nat /\ \A i \in 1 .. Len(up[k]) : up[k][i] \in Message
  BY <1>1, LenProperties, ElementOfSeq DEF TypeInv
<1>4. Len(SubSeq(up[k], 1, n)) = n /\ \A i \in 1 .. n : SubSeq(up[k], 1, n)[i] = up[k][i]
  <2>1. /\ n \in Int /\ 1 \in Int
        /\ Len(SubSeq(up[k], 1, n)) = IF 1 <= n THEN n - 1 + 1 ELSE 0
        /\ \A i \in 1 .. n - 1 + 1 : SubSeq(up[k], 1, n)[i] = up[k][1 + i - 1]
    BY <1>3, SubSeqProperties
  <2> QED
    BY <1>3, <2>1
<1>5. /\ up'[k] = SubSeq(up[k], 1, n)
      /\ \A j \in Conn : j # k => up'[j] = up[j]
  BY <1>1, <1>2 DEF TypeInv
<1>6. down'[k] = <<>> /\ \A j \in Conn : j # k => down'[j] = down[j]
  BY <1>1 DEF TypeInv, Cut
<1>7. /\ \A d \in ClientId : d # c => clients'[d] = clients[d]
      /\ clients'[c].conn = Absent /\ ~ clients'[c].ready /\ clients'[c].asked = {}
  <2>1. clients \in [ClientId -> Client]
    BY DEF TypeInv
  <2> QED
    BY <2>1 DEF Cut, Client
<1>8. line' = [line EXCEPT ![k] = "cut"] /\ UNCHANGED <<server, conns, views>>
  BY DEF Cut
<1> QED
  BY <1>1, <1>2, <1>4, <1>5, <1>6, <1>7, <1>8

LEMMA CutKeepsQuiet ==
  ASSUME SyncAssumption, TypeInv, QuietInv, NEW c \in ClientId, Cut(c)
  PROVE  QuietInv'
<1> DEFINE k == clients[c].conn
<1>1. /\ k \in Conn
      /\ \A d \in ClientId : d # c => clients'[d] = clients[d]
      /\ clients'[c].conn = Absent /\ ~ clients'[c].ready /\ clients'[c].asked = {}
      /\ \A j \in Conn : j # k => up'[j] = up[j] /\ down'[j] = down[j]
      /\ down'[k] = <<>>
      /\ Len(up'[k]) \in 0 .. Len(up[k])
      /\ \A i \in 1 .. Len(up'[k]) : up'[k][i] = up[k][i]
      /\ UNCHANGED <<server, conns, views>>
  BY CutIs
<1> HIDE DEF k
<1>2. ReadyInv'
  <2>1. \A d \in ClientId : d # c => Joined(d)' = Joined(d)
    BY <1>1 DEF Joined
  <2> QED
    BY <1>1, <2>1 DEF QuietInv, ReadyInv
<1>3. OwnConns'
  BY <1>1 DEF QuietInv, OwnConns
<1>4. FreshConns'
  <2>1. Len(up[k]) \in Nat
    BY <1>1, LenProperties DEF TypeInv
  <2>2. \A i \in 1 .. Len(up'[k]) : i \in 1 .. Len(up[k])
    BY <1>1, <2>1
  <2>3. ASSUME NEW j \in Conn, conns[j].client = Absent
        PROVE  /\ down'[j] = <<>>
               /\ \A i \in 1 .. Len(up'[j]) : IsHandshake(up'[j][i])
    <3>1. down[j] = <<>> /\ \A i \in 1 .. Len(up[j]) : IsHandshake(up[j][i])
      BY <2>3 DEF QuietInv, FreshConns
    <3>2. CASE j = k
      BY <1>1, <2>2, <3>1, <3>2
    <3>3. CASE j # k
      BY <1>1, <3>1, <3>3
    <3> QED
      BY <3>2, <3>3
  <2> QED
    BY <1>1, <2>3 DEF QuietInv, FreshConns
<1>5. JobsAreCurrent'
  BY <1>1, SameJobs DEF QuietInv
<1>6. PendingIsHeld'
  BY <1>1 DEF QuietInv, PendingIsHeld
<1> QED
  BY <1>2, <1>3, <1>4, <1>5, <1>6 DEF QuietInv

LEMMA ClientKeepsQuiet ==
  ASSUME SyncAssumption, ~ Burst, TypeInv, RegistrationInv, QuietInv,
         NEW c \in ClientId, ClientStep(c)
  PROVE  QuietInv'
<1>1. /\ clients \in [ClientId -> Client]
      /\ views \in [ClientId -> RebasedViews]
  BY DEF TypeInv
<1>2. ASSUME NEW k \in Conn, Reconnect(c, k)
      PROVE  QuietInv'
  <2> DEFINE m == [type |-> "reconnect", client |-> c, lastSeen |-> views[c].lastSeen,
                   subs |-> DOMAIN views[c].confirmed]
  <2>1. views[c].lastSeen \in Nat /\ DOMAIN views[c].confirmed \subseteq Resource
    BY <1>1 DEF RebasedViews, View, PartialStates
  <2>2. m \in Message /\ IsHandshake(m) /\ Sent(k, m)
    BY <1>2, <2>1 DEF Message, Reconnect, IsHandshake
  <2> HIDE DEF m
  <2> QED
    BY <1>2, <2>2, OpeningKeepsQuiet DEF Reconnect
<1>3. ASSUME NEW k \in Conn, NEW rs \in Initial, Connect(c, k, rs)
      PROVE  QuietInv'
  <2> DEFINE m == [type |-> "initialize", client |-> c, subs |-> rs]
  <2>1. m \in Message /\ IsHandshake(m) /\ Sent(k, m)
    BY <1>3 DEF Message, Connect, SyncAssumption, IsHandshake
  <2> HIDE DEF m
  <2> QED
    BY <1>3, <2>1, OpeningKeepsQuiet DEF Connect
<1>4. \A a \in ToSet(views[c].pending) : a.resource \in DOMAIN views[c].confirmed
  BY DEF QuietInv, PendingIsHeld
<1>5. ASSUME NEW r \in Resource, Subscribe(c, r)
      PROVE  QuietInv'
  <2> DEFINE m == [type |-> "subscribe", resource |-> r]
  <2>1. m \in Message /\ Sent(clients[c].conn, m)
    BY <1>5 DEF Message, Subscribe
  <2> HIDE DEF m
  <2>2. /\ clients[c].ready
        /\ \A d \in ClientId : d # c => clients'[d] = clients[d] /\ views'[d] = views[d]
        /\ clients'[c].conn = clients[c].conn /\ clients'[c].ready
        /\ views' = views /\ UNCHANGED <<server, conns, down>>
    BY <1>1, <1>5 DEF Subscribe, Online, Client
  <2> QED
    BY <1>4, <2>1, <2>2, RequestKeepsQuiet
<1>6. ASSUME NEW r \in Resource, Unsubscribe(c, r)
      PROVE  QuietInv'
  <2> DEFINE m == [type |-> "unsubscribe", resource |-> r]
             w == DropResource(views[c], r)
  <2>1. m \in Message /\ Sent(clients[c].conn, m)
    BY <1>6 DEF Message, Unsubscribe
  <2>2. /\ DOMAIN w.confirmed = DOMAIN views[c].confirmed \ {r}
        /\ ToSet(w.pending) = {a \in ToSet(views[c].pending) : a.resource # r}
    BY <1>1, DropResourcePending
  <2>3. views'[c] = w
    BY <1>1, <1>6 DEF Unsubscribe
  <2> HIDE DEF m, w
  <2>4. \A a \in ToSet(views'[c].pending) : a.resource \in DOMAIN views'[c].confirmed
    BY <1>4, <2>2, <2>3
  <2>5. /\ clients[c].ready
        /\ \A d \in ClientId : d # c => clients'[d] = clients[d] /\ views'[d] = views[d]
        /\ clients'[c].conn = clients[c].conn /\ clients'[c].ready
        /\ UNCHANGED <<server, conns, down>>
    BY <1>1, <1>6 DEF Unsubscribe, Online, Client
  <2> QED
    BY <2>1, <2>4, <2>5, RequestKeepsQuiet
<1>7. ASSUME NEW s \in Session, Dispatch(c, s)
      PROVE  QuietInv'
  <2> DEFINE a == [resource |-> s, by |-> c, n |-> clients[c].nextSeq]
             m == [type |-> "dispatchAction", action |-> a]
             w == ApplyOptimistic(views[c], a)
  <2>1. a \in Action /\ a.resource = s
    BY <1>1 DEF Action, SyncAssumption, Client
  <2>2. m \in Message /\ Sent(clients[c].conn, m)
    BY <1>7, <2>1 DEF Message, Dispatch
  <2>3. views'[c] = w
    BY <1>1, <1>7 DEF Dispatch
  <2> HIDE DEF a, m
  <2>4. w.pending = Append(views[c].pending, a) /\ w.confirmed = views[c].confirmed
    BY <1>1, <2>1, ApplyOptimisticIs
  <2>5. views[c].pending \in Seq(Action)
    BY <1>1 DEF RebasedViews, View
  <2> HIDE DEF w
  <2>6. ToSet(w.pending) = ToSet(views[c].pending) \cup {a}
    BY <2>1, <2>4, <2>5, SetOfAppend
  <2>7. s \in DOMAIN views[c].confirmed
    BY <1>7 DEF Dispatch
  <2>8. \A x \in ToSet(views'[c].pending) : x.resource \in DOMAIN views'[c].confirmed
    BY <1>4, <2>1, <2>3, <2>4, <2>6, <2>7
  <2>9. /\ clients[c].ready
        /\ \A d \in ClientId : d # c => clients'[d] = clients[d] /\ views'[d] = views[d]
        /\ clients'[c].conn = clients[c].conn /\ clients'[c].ready
        /\ UNCHANGED <<server, conns, down>>
    BY <1>1, <1>7 DEF Dispatch, Online, Client
  <2> QED
    BY <2>2, <2>8, <2>9, RequestKeepsQuiet
<1>8. CASE Receive(c)
  BY <1>8, ReceiveKeepsQuiet
<1>9. CASE Cut(c)
  BY <1>9, CutKeepsQuiet
<1> QED
  BY <1>2, <1>3, <1>5, <1>6, <1>7, <1>8, <1>9 DEF ClientStep

-----------------------------------------------------------------------------
(* What the server does keeps the connections as they should be *)

\* The host applies an action: who gets the envelope.
LEMMA ApplyAndEmitIs ==
  ASSUME TypeInv, NEW a \in Action, ApplyAndEmit(a)
  PROVE  LET e == [seq |-> server.seq + 1, action |-> a]
             m == [type |-> "action", envelope |-> e]
         IN /\ e \in Envelope /\ m \in Answer
            /\ server'.seq = server.seq + 1
            /\ server'.states = [server.states EXCEPT ![a.resource] = Append(@, a)]
            /\ server'.buffer = Buffered(e)
            /\ server'.clients = server.clients
            /\ \A k \in Conn : down'[k] = IF k \in Receivers(e) THEN Append(down[k], m)
                                          ELSE down[k]
<1> DEFINE e == [seq |-> server.seq + 1, action |-> a]
           m == [type |-> "action", envelope |-> e]
<1>1. e \in Envelope /\ m \in Answer
  BY DEF TypeInv, Envelope, Answer
<1>2. /\ server' = [server EXCEPT !.seq = @ + 1,
                                  !.states[a.resource] = Append(@, a),
                                  !.buffer = Buffered(e)]
      /\ down' = [k \in Conn |-> IF k \in Receivers(e) THEN Append(down[k], m) ELSE down[k]]
  BY DEF ApplyAndEmit
<1> HIDE DEF e, m
<1>3. server \in [seq : Nat, states : [Resource -> State],
                 buffer : Seq(Envelope), clients : [ClientId -> Conn \cup {Absent}]]
  BY DEF TypeInv
<1> QED
  BY <1>1, <1>2, <1>3 DEF e, m

LEMMA ApplyAndEmitKeepsFresh ==
  ASSUME SyncAssumption, TypeInv, FreshConns, NEW a \in Action, ApplyAndEmit(a),
         UNCHANGED conns,
         \A j \in Conn : conns[j].client = Absent =>
           \A i \in 1 .. Len(up'[j]) : IsHandshake(up'[j][i])
  PROVE  FreshConns'
<1> DEFINE e == [seq |-> server.seq + 1, action |-> a]
<1>1. \A k \in Conn : k \notin Receivers(e) => down'[k] = down[k]
  BY ApplyAndEmitIs
<1> HIDE DEF e
<1>2. \A k \in Conn : conns[k].client = Absent => k \notin Receivers(e)
  BY DEF FreshConns, Receivers, IsRelevantToClient
<1> QED
  BY <1>1, <1>2 DEF FreshConns

LEMMA AnsweredIs ==
  ASSUME TypeInv, NEW k \in Conn, NEW ms
  PROVE  /\ Answered(k, ms)[k] = IF line[k] = "open" THEN down[k] \o ms ELSE down[k]
         /\ \A j \in Conn : j # k => Answered(k, ms)[j] = down[j]
BY DEF Answered, TypeInv

LEMMA HandshakeKeepsQuiet ==
  ASSUME SyncAssumption, ~ Burst, TypeInv, RegistrationInv, QuietInv, NEW k \in Conn,
         NEW type \in {"initialize", "reconnect"}, Takes(k, type),
         server' = [server EXCEPT !.clients[Head(up[k]).client] = k],
         conns' = [conns EXCEPT ![k].client = Head(up[k]).client,
                                ![k].subs = Head(up[k]).subs],
         NEW ms, down' = Answered(k, ms), UNCHANGED <<line, clients, views>>
  PROVE  QuietInv'
<1> DEFINE c == Head(up[k]).client
<1>1. /\ up[k] # <<>> /\ Head(up[k]) = up[k][1] /\ Head(up[k]) \in Message
      /\ Head(up[k]).type = type /\ \A j \in Conn : conns[j].jobs = <<>>
      /\ Len(Tail(up[k])) + 1 = Len(up[k]) /\ Len(Tail(up[k])) \in Nat
  BY TakesIs
<1>2. IsHandshake(up[k][1]) /\ 1 \in 1 .. Len(up[k])
  BY <1>1 DEF IsHandshake
<1>3. c \in ClientId /\ clients[c].conn = k /\ conns[k].client = Absent
  BY <1>1, <1>2 DEF RegistrationInv, HandshakesAreFirst
<1>4. /\ conns'[k].client = c /\ conns'[k].jobs = <<>>
      /\ \A j \in Conn : j # k => conns'[j] = conns[j]
      /\ server'.seq = server.seq /\ server'.states = server.states
  BY <1>1 DEF TypeInv, Connection
<1> HIDE DEF c
<1>5. ReadyInv'
  <2>1. \A d \in ClientId : Joined(d) => Joined(d)'
    BY <1>3, <1>4 DEF Joined, SyncAssumption, TypeInv, Client
  <2> QED
    BY <2>1 DEF QuietInv, ReadyInv
<1>6. OwnConns'
  <2>1. \A d \in ClientId : clients[d].conn = k => d = c
    BY <1>3 DEF RegistrationInv, ConnsAreOwned, SyncAssumption
  <2> QED
    BY <1>3, <1>4, <2>1 DEF QuietInv, OwnConns, TypeInv, Client
<1>7. FreshConns'
  <2>1. c # Absent
    BY <1>3 DEF SyncAssumption
  <2>2. \A j \in Conn : conns'[j].client = Absent => j # k
    BY <1>4, <2>1
  <2>3. \A j \in Conn : j # k => down'[j] = down[j]
    BY AnsweredIs
  <2>4. \A j \in Conn : conns[j].client = Absent =>
          \A i \in 1 .. Len(up'[j]) : IsHandshake(up'[j][i])
    BY TakesFresh DEF QuietInv
  <2> QED
    BY <1>4, <2>2, <2>3, <2>4 DEF QuietInv, FreshConns
<1>8. JobsAreCurrent'
  BY <1>1, <1>4, NoJobs
<1>9. PendingIsHeld'
  BY DEF QuietInv, PendingIsHeld
<1> QED
  BY <1>5, <1>6, <1>7, <1>8, <1>9 DEF QuietInv

\* A step of the server after which everybody is connected as before.
LEMMA SameConnsKeepQuiet ==
  ASSUME TypeInv, QuietInv, UNCHANGED <<clients, views>>,
         \A k \in Conn : conns'[k].client = conns[k].client,
         FreshConns', JobsAreCurrent'
  PROVE  QuietInv'
<1>1. \A c \in ClientId : clients[c].conn \in Conn \cup {Absent}
  BY DEF TypeInv, Client
<1>2. \A c \in ClientId : Joined(c)' <=> Joined(c)
  BY <1>1 DEF Joined
<1>3. ReadyInv'
  BY <1>2 DEF QuietInv, ReadyInv
<1>4. OwnConns'
  BY <1>1 DEF QuietInv, OwnConns
<1>5. PendingIsHeld'
  BY DEF QuietInv, PendingIsHeld
<1> QED
  BY <1>3, <1>4, <1>5 DEF QuietInv

LEMMA ServerKeepsQuiet ==
  ASSUME SyncAssumption, ~ Burst, TypeInv, RegistrationInv, QuietInv,
         NEW k \in Conn, ServerStep(k)
  PROVE  QuietInv'
<1>1. conns \in [Conn -> Connection] /\ clients \in [ClientId -> Client]
  BY DEF TypeInv
<1>2. FreshConns /\ JobsAreCurrent
  BY DEF QuietInv
<1>3. CASE HandleInitialize(k)
  BY <1>3, HandshakeKeepsQuiet DEF HandleInitialize
<1>4. CASE HandleReconnect(k)
  BY <1>4, HandshakeKeepsQuiet DEF HandleReconnect
<1>5. CASE HandleSubscribe(k)
  <2>1. /\ Head(up[k]) \in Message /\ Head(up[k]).type = "subscribe"
        /\ \A j \in Conn : conns[j].jobs = <<>>
    BY <1>5, TakesIs DEF HandleSubscribe
  <2>2. PICK r \in Resource : Head(up[k]).resource = r
    BY <2>1, MessageIs
  <2>3. /\ \A j \in Conn : conns[j].client = Absent =>
              \A i \in 1 .. Len(up'[j]) : IsHandshake(up'[j][i])
        /\ conns[k].client # Absent
    BY <1>2, <1>5, TakesFresh DEF HandleSubscribe
  <2> DEFINE job == Snapshots({r})
  <2>4. /\ conns' = [conns EXCEPT ![k].jobs = Append(@, job)]
        /\ UNCHANGED <<server, line, down, clients, views>>
    BY <1>5, <2>2 DEF HandleSubscribe
  <2>5. Snapshots({r})' = job
    BY <2>4 DEF Snapshots
  <2>6. Append(<<>>, job) = <<job>>
    OBVIOUS
  <2> HIDE DEF job
  <2>7. /\ conns'[k].jobs = <<job>> /\ conns'[k].client = conns[k].client
        /\ \A j \in Conn : j # k => conns'[j] = conns[j]
    BY <1>1, <2>1, <2>4, <2>6 DEF Connection
  <2>8. FreshConns'
    BY <1>2, <2>3, <2>4, <2>7 DEF FreshConns
  <2>9. JobsAreCurrent'
    <3>1. conns'[k].jobs = <<Snapshots({r})'>>
      BY <2>5, <2>7
    <3>2. \A j \in Conn : j # k => conns'[j].jobs = <<>>
      BY <2>1, <2>7
    <3> QED
      BY <3>1, <3>2 DEF JobsAreCurrent
  <2> QED
    BY <2>4, <2>7, <2>8, <2>9, SameConnsKeepQuiet
<1>6. CASE FinishSubscribes(k)
  <2> DEFINE more == UNION {DOMAIN x.states : x \in ToSet(conns[k].jobs)}
  <2>1. /\ conns[k].jobs # <<>>
        /\ conns' = [conns EXCEPT ![k].subs = @ \cup more, ![k].jobs = <<>>]
        /\ down' = Answered(k, conns[k].jobs)
        /\ UNCHANGED <<server, line, up, clients, views>>
    BY <1>6 DEF FinishSubscribes
  <2> HIDE DEF more
  <2>2. /\ conns'[k].client = conns[k].client /\ conns'[k].jobs = <<>>
        /\ \A j \in Conn : j # k => conns'[j] = conns[j]
    BY <1>1, <2>1 DEF Connection
  <2>3. conns[k].client # Absent
    BY <1>2, <2>1 DEF FreshConns
  <2>4. \A j \in Conn : j # k => conns[j].jobs = <<>> /\ down'[j] = down[j]
    BY <1>2, <2>1, AnsweredIs DEF JobsAreCurrent
  <2>5. FreshConns'
    BY <1>2, <2>1, <2>2, <2>3, <2>4 DEF FreshConns
  <2>6. JobsAreCurrent'
    BY <2>2, <2>4, NoJobs
  <2> QED
    BY <2>1, <2>2, <2>5, <2>6, SameConnsKeepQuiet
<1>7. CASE HandleUnsubscribe(k)
  <2>1. \A j \in Conn : conns[j].client = Absent =>
              \A i \in 1 .. Len(up'[j]) : IsHandshake(up'[j][i])
    BY <1>2, <1>7, TakesFresh DEF HandleUnsubscribe
  <2> DEFINE less == {Head(up[k]).resource}
  <2>2. /\ conns' = [conns EXCEPT ![k].subs = @ \ less]
        /\ UNCHANGED <<server, line, down, clients, views>>
    BY <1>7 DEF HandleUnsubscribe
  <2> HIDE DEF less
  <2>3. \A j \in Conn : /\ conns'[j].client = conns[j].client
                       /\ conns'[j].jobs = conns[j].jobs
                       /\ conns'[j].subs \subseteq conns[j].subs
    BY <1>1, <2>2 DEF Connection
  <2>4. FreshConns'
    BY <1>2, <2>1, <2>2, <2>3 DEF FreshConns
  <2>5. JobsAreCurrent'
    BY <1>2, <2>2, <2>3, SameJobs
  <2> QED
    BY <2>2, <2>3, <2>4, <2>5, SameConnsKeepQuiet
<1>8. CASE HandleDispatch(k)
  <2> DEFINE a == Head(up[k]).action
  <2>1. /\ Head(up[k]) \in Message /\ Head(up[k]).type = "dispatchAction"
        /\ \A j \in Conn : conns[j].jobs = <<>>
    BY <1>8, TakesIs DEF HandleDispatch
  <2>2. a \in Action /\ ApplyAndEmit(a) /\ UNCHANGED <<conns, line, clients, views>>
    BY <1>8, <2>1, MessageIs DEF HandleDispatch
  <2>3. \A j \in Conn : conns[j].client = Absent =>
              \A i \in 1 .. Len(up'[j]) : IsHandshake(up'[j][i])
    BY <1>2, <1>8, TakesFresh DEF HandleDispatch
  <2> HIDE DEF a
  <2>4. FreshConns'
    BY <1>2, <2>2, <2>3, ApplyAndEmitKeepsFresh
  <2>5. JobsAreCurrent'
    BY <2>1, <2>2, NoJobs
  <2> QED
    BY <2>2, <2>4, <2>5, SameConnsKeepQuiet
<1>9. CASE HandleClose(k)
  <2>1. /\ UNCHANGED <<conns, up, down, clients, views>>
        /\ server'.seq = server.seq /\ server'.states = server.states
    BY <1>9 DEF HandleClose, TypeInv
  <2>2. FreshConns'
    BY <1>2, <2>1 DEF FreshConns
  <2>3. JobsAreCurrent'
    BY <1>2, <2>1, SameJobs
  <2> QED
    BY <2>1, <2>2, <2>3, SameConnsKeepQuiet
<1> QED
  BY <1>3, <1>4, <1>5, <1>6, <1>7, <1>8, <1>9 DEF ServerStep

LEMMA AgentActionIs ==
  ASSUME SyncAssumption, TypeInv, NEW r \in Resource, AgentAction(r)
  PROVE  \E a \in Action :
           /\ ApplyAndEmit(a) /\ \A j \in Conn : conns[j].jobs = <<>>
           /\ UNCHANGED <<conns, line, up, clients, views>>
<1> DEFINE a == [resource |-> r, by |-> Agent, n |-> server.seq + 1]
<1>1. a \in Action /\ ApplyAndEmit(a)
  BY DEF Action, TypeInv, AgentAction
<1> HIDE DEF a
<1> QED
  BY <1>1 DEF AgentAction, Idle

LEMMA NextKeepsQuiet ==
  ASSUME SyncAssumption, ~ Burst, TypeInv, RegistrationInv, QuietInv, [Next]_vars
  PROVE  QuietInv'
<1>1. CASE \E c \in ClientId : ClientStep(c)
  BY <1>1, ClientKeepsQuiet
<1>2. CASE \E k \in Conn : ServerStep(k)
  BY <1>2, ServerKeepsQuiet
<1>3. ASSUME NEW r \in Resource, AgentAction(r)
      PROVE  QuietInv'
  <2>1. PICK a \in Action : /\ ApplyAndEmit(a) /\ \A j \in Conn : conns[j].jobs = <<>>
                           /\ UNCHANGED <<conns, line, up, clients, views>>
    BY <1>3, AgentActionIs
  <2>2. \A j \in Conn : conns[j].client = Absent =>
              \A i \in 1 .. Len(up'[j]) : IsHandshake(up'[j][i])
    BY <2>1 DEF QuietInv, FreshConns
  <2>3. FreshConns'
    BY <2>1, <2>2, ApplyAndEmitKeepsFresh DEF QuietInv
  <2>4. JobsAreCurrent'
    BY <2>1, NoJobs
  <2> QED
    BY <2>1, <2>3, <2>4, SameConnsKeepQuiet
<1>4. CASE UNCHANGED vars
  <2>1. UNCHANGED <<server, conns, line, up, down, clients, views>>
    BY <1>4 DEF vars
  <2>2. FreshConns'
    BY <2>1 DEF QuietInv, FreshConns
  <2>3. JobsAreCurrent'
    BY <2>1, SameJobs DEF QuietInv
  <2> QED
    BY <2>1, <2>2, <2>3, SameConnsKeepQuiet
<1> QED
  BY <1>1, <1>2, <1>3, <1>4 DEF Next

-----------------------------------------------------------------------------
(* Requests and answers stay in order *)

\* Messages of one kind bring no states.
LEMMA NothingComing ==
  ASSUME NEW ms, \A i \in 1 .. Len(ms) : Snap(ms[i]) = {}
  PROVE  Coming(ms) = {}
BY DEF Coming

LEMMA OrderlyStarts ==
  ASSUME NEW ms, \A i \in 1 .. Len(ms) : Snap(ms[i]) = {}, NEW held
  PROVE  Orderly(<<>>, <<>>, ms, {}, held)
<1>1. Coming(ms) = {} /\ Coming(<<>>) = {}
  BY NothingComing, ComingEmpty
<1>2. \A i \in 1 .. Len(<<>>) : FALSE
  OBVIOUS
<1> QED
  BY <1>1, <1>2 DEF Orderly

LEMMA Appended ==
  ASSUME NEW S, NEW q \in Seq(S), NEW m \in S
  PROVE  /\ Append(q, m) \in Seq(S)
         /\ Len(Append(q, m)) = Len(q) + 1 /\ Len(q) \in Nat
         /\ Append(q, m)[Len(q) + 1] = m
         /\ \A i \in 1 .. Len(q) : Append(q, m)[i] = q[i]
         /\ \A i \in 1 .. Len(q) + 1 : i \in 1 .. Len(q) \/ i = Len(q) + 1
BY AppendProperties, LenProperties

\* A client asks for a resource that it neither holds nor has asked for.
LEMMA OrderlySubscribe ==
  ASSUME NEW q \in Seq(Message), NEW jobs, NEW ms, NEW asked, NEW held,
         Orderly(q, jobs, ms, asked, held),
         NEW m \in Message, m.type = "subscribe", m.resource \notin held \cup asked
  PROVE  Orderly(Append(q, m), jobs, ms, asked \cup {m.resource}, held)
<1> DEFINE t == Append(q, m)
           n == Len(q)
           r == m.resource
<1>1. /\ Len(t) = n + 1 /\ n \in Nat /\ t[n + 1] = m /\ \A i \in 1 .. n : t[i] = q[i]
      /\ \A i \in 1 .. n + 1 : i \in 1 .. n \/ i = n + 1
  BY Appended
<1> HIDE DEF t, n
<1>2. /\ asked \cap held = {} /\ Coming(jobs) \subseteq asked /\ Coming(ms) \subseteq asked
      /\ Coming(jobs) \cap Coming(ms) = {}
      /\ \A i, j \in 1 .. Len(ms) : i < j => Snap(ms[i]) \cap Snap(ms[j]) = {}
  BY DEF Orderly
<1>3. ASSUME NEW i \in 1 .. n, q[i].type = "subscribe"
      PROVE  /\ q[i].resource \in asked
             /\ q[i].resource \notin Coming(jobs) \cup Coming(ms)
             /\ \A j \in i + 1 .. n :
                  q[j].type \in {"subscribe", "unsubscribe"} => q[j].resource # q[i].resource
  BY <1>3 DEF Orderly, n
<1>4. ASSUME NEW i \in 1 .. n, q[i].type = "unsubscribe"
      PROVE  q[i].resource \notin held \cup Coming(jobs) \cup Coming(ms)
  BY <1>4 DEF Orderly, n
<1>5. ASSUME NEW i \in 1 .. n + 1, t[i].type = "subscribe"
      PROVE  /\ t[i].resource \in asked \cup {r}
             /\ t[i].resource \notin Coming(jobs) \cup Coming(ms)
             /\ \A j \in i + 1 .. n + 1 :
                  t[j].type \in {"subscribe", "unsubscribe"} => t[j].resource # t[i].resource
  <2>1. CASE i = n + 1
    <3>1. \A j \in i + 1 .. n + 1 : FALSE
      BY <1>1, <2>1
    <3> QED
      BY <1>1, <1>2, <2>1, <3>1
  <2>2. CASE i \in 1 .. n
    <3>1. q[i].type = "subscribe" /\ t[i] = q[i]
      BY <1>1, <1>5, <2>2
    <3>2. ASSUME NEW j \in i + 1 .. n + 1, t[j].type \in {"subscribe", "unsubscribe"}
          PROVE  t[j].resource # t[i].resource
      <4>1. CASE j = n + 1
        BY <1>1, <1>3, <2>2, <3>1, <4>1
      <4>2. CASE j # n + 1
        <5>1. j \in i + 1 .. n /\ j \in 1 .. n
          BY <1>1, <2>2, <4>2
        <5> QED
          BY <1>1, <1>3, <2>2, <3>1, <3>2, <5>1
      <4> QED
        BY <4>1, <4>2
    <3> QED
      BY <1>3, <2>2, <3>1, <3>2
  <2> QED
    BY <1>1, <2>1, <2>2
<1>6. ASSUME NEW i \in 1 .. n + 1, t[i].type = "unsubscribe"
      PROVE  t[i].resource \notin held \cup Coming(jobs) \cup Coming(ms)
  <2>1. i \in 1 .. n
    BY <1>1, <1>6
  <2> QED
    BY <1>1, <1>4, <1>6, <2>1
<1>7. Orderly(t, jobs, ms, asked \cup {r}, held)
  BY <1>1, <1>2, <1>5, <1>6 DEF Orderly
<1> QED
  BY <1>7 DEF t

\* A client lets go of resources it holds, asks for them no more (m is about one of
\* them) or dispatches.
LEMMA OrderlySend ==
  ASSUME NEW q \in Seq(Message), NEW jobs, NEW ms, NEW asked, NEW held, NEW less,
         Orderly(q, jobs, ms, asked, held), less \subseteq held,
         NEW m \in Message, m.type # "subscribe",
         m.type = "unsubscribe" => m.resource \in less
  PROVE  Orderly(Append(q, m), jobs, ms, asked, held \ less)
<1> DEFINE t == Append(q, m)
           n == Len(q)
<1>1. /\ Len(t) = n + 1 /\ n \in Nat /\ t[n + 1] = m /\ \A i \in 1 .. n : t[i] = q[i]
      /\ \A i \in 1 .. n + 1 : i \in 1 .. n \/ i = n + 1
  BY Appended
<1> HIDE DEF t, n
<1>2. /\ asked \cap held = {} /\ Coming(jobs) \subseteq asked /\ Coming(ms) \subseteq asked
      /\ Coming(jobs) \cap Coming(ms) = {}
      /\ \A i, j \in 1 .. Len(ms) : i < j => Snap(ms[i]) \cap Snap(ms[j]) = {}
  BY DEF Orderly
<1>3. ASSUME NEW i \in 1 .. n, q[i].type = "subscribe"
      PROVE  /\ q[i].resource \in asked
             /\ q[i].resource \notin Coming(jobs) \cup Coming(ms)
             /\ \A j \in i + 1 .. n :
                  q[j].type \in {"subscribe", "unsubscribe"} => q[j].resource # q[i].resource
  BY <1>3 DEF Orderly, n
<1>4. ASSUME NEW i \in 1 .. n, q[i].type = "unsubscribe"
      PROVE  q[i].resource \notin held \cup Coming(jobs) \cup Coming(ms)
  BY <1>4 DEF Orderly, n
<1>5. ASSUME NEW i \in 1 .. n + 1, t[i].type = "subscribe"
      PROVE  /\ t[i].resource \in asked
             /\ t[i].resource \notin Coming(jobs) \cup Coming(ms)
             /\ \A j \in i + 1 .. n + 1 :
                  t[j].type \in {"subscribe", "unsubscribe"} => t[j].resource # t[i].resource
  <2>1. i \in 1 .. n
    BY <1>1, <1>5
  <2>2. q[i].type = "subscribe" /\ t[i] = q[i]
    BY <1>1, <1>5, <2>1
  <2>3. ASSUME NEW j \in i + 1 .. n + 1, t[j].type \in {"subscribe", "unsubscribe"}
        PROVE  t[j].resource # t[i].resource
    <3>1. CASE j = n + 1
      <4>1. m.resource \in held
        BY <1>1, <2>3, <3>1
      <4> QED
        BY <1>1, <1>2, <1>3, <2>1, <2>2, <3>1, <4>1
    <3>2. CASE j # n + 1
      <4>1. j \in i + 1 .. n /\ j \in 1 .. n
        BY <1>1, <2>1, <3>2
      <4> QED
        BY <1>1, <1>3, <2>1, <2>2, <2>3, <4>1
    <3> QED
      BY <3>1, <3>2
  <2> QED
    BY <1>3, <2>1, <2>2, <2>3
<1>6. ASSUME NEW i \in 1 .. n + 1, t[i].type = "unsubscribe"
      PROVE  t[i].resource \notin (held \ less) \cup Coming(jobs) \cup Coming(ms)
  <2>1. CASE i \in 1 .. n
    BY <1>1, <1>4, <1>6, <2>1
  <2>2. CASE i = n + 1
    BY <1>1, <1>2, <1>6, <2>2
  <2> QED
    BY <1>1, <2>1, <2>2
<1>7. Orderly(t, jobs, ms, asked, held \ less)
  BY <1>1, <1>2, <1>5, <1>6 DEF Orderly
<1> QED
  BY <1>7 DEF t

\* A client takes a message.
LEMMA OrderlyReceive ==
  ASSUME NEW q \in Seq(Message), NEW jobs, NEW ms \in Seq(Answer), ms # <<>>,
         NEW asked, NEW held, Orderly(q, jobs, ms, asked, held)
  PROVE  Orderly(q, jobs, Tail(ms), asked \ Snap(Head(ms)), held \cup Snap(Head(ms)))
<1> DEFINE t == Tail(ms)
           n == Len(t)
           new == Snap(Head(ms))
<1>1. /\ Coming(ms) = new \cup Coming(t) /\ new = Snap(ms[1])
      /\ n + 1 = Len(ms) /\ n \in Nat /\ \A i \in 1 .. n : t[i] = ms[i + 1]
  BY ComingTail, LenProperties
<1> HIDE DEF t, n, new
<1>2. /\ asked \cap held = {} /\ Coming(jobs) \subseteq asked /\ Coming(ms) \subseteq asked
      /\ Coming(jobs) \cap Coming(ms) = {}
  BY DEF Orderly
<1>3. ASSUME NEW i \in 1 .. n + 1, NEW j \in 1 .. n + 1, i < j
      PROVE  Snap(ms[i]) \cap Snap(ms[j]) = {}
  BY <1>1, <1>3 DEF Orderly
<1>4. new \cap Coming(t) = {}
  <2>1. Coming(t) = UNION {Snap(t[i]) : i \in 1 .. n}
    BY DEF Coming, n
  <2>2. ASSUME NEW i \in 1 .. n
        PROVE  new \cap Snap(t[i]) = {}
    <3>1. 1 \in 1 .. n + 1 /\ i + 1 \in 1 .. n + 1 /\ 1 < i + 1
      BY <1>1
    <3> QED
      BY <1>1, <1>3, <3>1
  <2> QED
    BY <2>1, <2>2
<1>5. ASSUME NEW i \in 1 .. n, NEW j \in 1 .. n, i < j
      PROVE  Snap(t[i]) \cap Snap(t[j]) = {}
  <2>1. i + 1 \in 1 .. n + 1 /\ j + 1 \in 1 .. n + 1 /\ i + 1 < j + 1
    BY <1>1, <1>5
  <2> QED
    BY <1>1, <1>3, <2>1
<1>6. Orderly(q, jobs, t, asked \ new, held \cup new)
  <2>1. /\ (asked \ new) \cap (held \cup new) = {}
        /\ Coming(jobs) \subseteq asked \ new /\ Coming(t) \subseteq asked \ new
        /\ Coming(jobs) \cap Coming(t) = {}
    BY <1>1, <1>2, <1>4
  <2>2. \A i \in 1 .. Len(q) : q[i].type = "subscribe" =>
       /\ q[i].resource \in asked \ new
       /\ q[i].resource \notin Coming(jobs) \cup Coming(t)
       /\ \A j \in i + 1 .. Len(q) :
            q[j].type \in {"subscribe", "unsubscribe"} => q[j].resource # q[i].resource
    BY <1>1 DEF Orderly
  <2>3. \A i \in 1 .. Len(q) : q[i].type = "unsubscribe" =>
       q[i].resource \notin (held \cup new) \cup Coming(jobs) \cup Coming(t)
    BY <1>1 DEF Orderly
  <2> QED
    BY <1>5, <2>1, <2>2, <2>3 DEF Orderly, n
<1> QED
  BY <1>6 DEF t, new

\* The server takes a request.
LEMMA OrderlyTake ==
  ASSUME NEW q \in Seq(Message), q # <<>>, NEW jobs, NEW ms, NEW asked, NEW held,
         Orderly(q, jobs, ms, asked, held)
  PROVE  /\ Orderly(Tail(q), jobs, ms, asked, held)
         /\ Head(q).type = "unsubscribe" =>
              Head(q).resource \notin held \cup Coming(jobs) \cup Coming(ms)
         /\ Head(q).type = "subscribe" =>
              /\ Head(q).resource \in asked
              /\ Head(q).resource \notin Coming(jobs) \cup Coming(ms)
              /\ \A i \in 1 .. Len(Tail(q)) :
                   Tail(q)[i].type \in {"subscribe", "unsubscribe"} =>
                     Tail(q)[i].resource # Head(q).resource
<1> DEFINE t == Tail(q)
           n == Len(t)
<1>1. /\ Head(q) = q[1] /\ n + 1 = Len(q) /\ n \in Nat /\ \A i \in 1 .. n : t[i] = q[i + 1]
  BY ComingTail, LenProperties
<1> HIDE DEF t, n
<1>2. /\ asked \cap held = {} /\ Coming(jobs) \subseteq asked /\ Coming(ms) \subseteq asked
      /\ Coming(jobs) \cap Coming(ms) = {}
      /\ \A i, j \in 1 .. Len(ms) : i < j => Snap(ms[i]) \cap Snap(ms[j]) = {}
  BY DEF Orderly
<1>3. ASSUME NEW i \in 1 .. n + 1, q[i].type = "subscribe"
      PROVE  /\ q[i].resource \in asked
             /\ q[i].resource \notin Coming(jobs) \cup Coming(ms)
             /\ \A j \in i + 1 .. n + 1 :
                  q[j].type \in {"subscribe", "unsubscribe"} => q[j].resource # q[i].resource
  BY <1>1, <1>3 DEF Orderly
<1>4. ASSUME NEW i \in 1 .. n + 1, q[i].type = "unsubscribe"
      PROVE  q[i].resource \notin held \cup Coming(jobs) \cup Coming(ms)
  BY <1>1, <1>4 DEF Orderly
<1>5. ASSUME NEW i \in 1 .. n, t[i].type = "subscribe"
      PROVE  /\ t[i].resource \in asked
             /\ t[i].resource \notin Coming(jobs) \cup Coming(ms)
             /\ \A j \in i + 1 .. n :
                  t[j].type \in {"subscribe", "unsubscribe"} => t[j].resource # t[i].resource
  <2>1. i + 1 \in 1 .. n + 1 /\ t[i] = q[i + 1]
    BY <1>1
  <2>2. ASSUME NEW j \in i + 1 .. n, t[j].type \in {"subscribe", "unsubscribe"}
        PROVE  t[j].resource # t[i].resource
    <3>1. j \in 1 .. n /\ t[j] = q[j + 1] /\ j + 1 \in (i + 1) + 1 .. n + 1
      BY <1>1
    <3> QED
      BY <1>3, <1>5, <2>1, <2>2, <3>1
  <2> QED
    BY <1>3, <1>5, <2>1, <2>2
<1>6. ASSUME NEW i \in 1 .. n, t[i].type = "unsubscribe"
      PROVE  t[i].resource \notin held \cup Coming(jobs) \cup Coming(ms)
  <2>1. i + 1 \in 1 .. n + 1 /\ t[i] = q[i + 1]
    BY <1>1
  <2> QED
    BY <1>4, <1>6, <2>1
<1>7. Orderly(t, jobs, ms, asked, held)
  BY <1>2, <1>5, <1>6 DEF Orderly, n
<1>8. 1 \in 1 .. n + 1
  BY <1>1
<1>9. ASSUME Head(q).type = "subscribe", NEW i \in 1 .. n,
             t[i].type \in {"subscribe", "unsubscribe"}
      PROVE  t[i].resource # Head(q).resource
  <2>1. i + 1 \in 1 + 1 .. n + 1 /\ t[i] = q[i + 1]
    BY <1>1
  <2> QED
    BY <1>1, <1>3, <1>8, <1>9, <2>1
<1> QED
  BY <1>1, <1>3, <1>4, <1>7, <1>8, <1>9 DEF t, n

\* The server takes the snapshot that the next request asks for.
LEMMA OrderlyJob ==
  ASSUME NEW q \in Seq(Message), q # <<>>, NEW ms, NEW asked, NEW held,
         Orderly(q, <<>>, ms, asked, held), Head(q).type = "subscribe",
         NEW job, Snap(job) = {Head(q).resource}
  PROVE  Orderly(Tail(q), <<job>>, ms, asked, held)
<1> DEFINE t == Tail(q)
           r == Head(q).resource
<1>1. /\ Orderly(t, <<>>, ms, asked, held)
      /\ r \in asked /\ r \notin Coming(ms)
      /\ \A i \in 1 .. Len(t) : t[i].type \in {"subscribe", "unsubscribe"} => t[i].resource # r
  BY OrderlyTake
<1>2. Coming(<<job>>) = {r} /\ Coming(<<>>) = {}
  <2>1. Len(<<job>>) = 1 /\ <<job>>[1] = job
    OBVIOUS
  <2>2. Coming(<<job>>) = Snap(job)
    BY <2>1 DEF Coming
  <2> QED
    BY <2>2, ComingEmpty
<1> HIDE DEF t, r
<1> QED
  BY <1>1, <1>2 DEF Orderly, t

\* The snapshot is sent.
LEMMA OrderlyAnswer ==
  ASSUME NEW q \in Seq(Message), NEW job \in Answer, NEW ms \in Seq(Answer),
         NEW asked, NEW held, Orderly(q, <<job>>, ms, asked, held)
  PROVE  Orderly(q, <<>>, Append(ms, job), asked, held)
<1> DEFINE t == Append(ms, job)
           n == Len(ms)
<1>1. /\ Len(t) = n + 1 /\ n \in Nat /\ t[n + 1] = job /\ \A i \in 1 .. n : t[i] = ms[i]
      /\ \A i \in 1 .. n + 1 : i \in 1 .. n \/ i = n + 1
  BY Appended
<1>2. Coming(t) = Coming(ms) \cup Snap(job)
  BY ComingAppend
<1>3. Coming(<<job>>) = Snap(job) /\ Coming(<<>>) = {}
  <2>1. Len(<<job>>) = 1 /\ <<job>>[1] = job
    OBVIOUS
  <2>2. Coming(<<job>>) = Snap(job)
    BY <2>1 DEF Coming
  <2> QED
    BY <2>2, ComingEmpty
<1> HIDE DEF t, n
<1>4. \A i \in 1 .. n : Snap(ms[i]) \subseteq Coming(ms)
  BY DEF Coming, n
<1>5. ASSUME NEW i \in 1 .. n + 1, NEW j \in 1 .. n + 1, i < j
      PROVE  Snap(t[i]) \cap Snap(t[j]) = {}
  <2>1. i \in 1 .. n
    BY <1>1, <1>5
  <2>2. CASE j = n + 1
    BY <1>1, <1>3, <1>4, <2>1, <2>2 DEF Orderly
  <2>3. CASE j \in 1 .. n
    BY <1>1, <1>5, <2>1, <2>3 DEF Orderly, n
  <2> QED
    BY <1>1, <2>2, <2>3
<1>6. Orderly(q, <<>>, t, asked, held)
  BY <1>1, <1>2, <1>3, <1>5 DEF Orderly
<1> QED
  BY <1>6 DEF t

\* An action is sent.
LEMMA OrderlyNews ==
  ASSUME NEW q \in Seq(Message), NEW m \in Answer, Snap(m) = {}, NEW ms \in Seq(Answer),
         NEW jobs, NEW asked, NEW held, Orderly(q, jobs, ms, asked, held)
  PROVE  Orderly(q, jobs, Append(ms, m), asked, held)
<1> DEFINE t == Append(ms, m)
           n == Len(ms)
<1>1. /\ Len(t) = n + 1 /\ n \in Nat /\ t[n + 1] = m /\ \A i \in 1 .. n : t[i] = ms[i]
      /\ \A i \in 1 .. n + 1 : i \in 1 .. n \/ i = n + 1
  BY Appended
<1>2. Coming(t) = Coming(ms)
  <2>1. Coming(t) = Coming(ms) \cup Snap(m)
    BY ONLY m \in Answer, ms \in Seq(Answer), ComingAppend
  <2> HIDE DEF t
  <2> QED
    BY <2>1
<1> HIDE DEF t, n
<1>3. ASSUME NEW i \in 1 .. n + 1, NEW j \in 1 .. n + 1, i < j
      PROVE  Snap(t[i]) \cap Snap(t[j]) = {}
  <2>1. CASE j = n + 1
    BY <1>1, <2>1
  <2>2. CASE j \in 1 .. n
    <3>1. i \in 1 .. n
      BY <1>1, <1>3, <2>2
    <3> QED
      BY <1>1, <1>3, <2>2, <3>1 DEF Orderly, n
  <2> QED
    BY <1>1, <2>1, <2>2
<1>4. Orderly(q, jobs, t, asked, held)
  BY <1>1, <1>2, <1>3 DEF Orderly
<1> QED
  BY <1>4 DEF t

-----------------------------------------------------------------------------
(* What links a client to the server, step by step *)

\* The host applies an action, and the client is sent it.
LEMMA LinkedWith ==
  ASSUME NEW log \in Seq(Action), NEW a \in Action, NEW e, NEW m,
         e = [seq |-> Len(log) + 1, action |-> a], m = [type |-> "action", envelope |-> e],
         NEW c, NEW x, NEW v \in RebasedViews, NEW q \in Seq(Message), NEW d,
         NEW ms \in Seq(Answer), Seen(log, v), Linked(log, c, x, v, q, d, ms),
         d.client # Absent
  PROVE  Linked(Append(log, a), c, x, v, q, d, Append(ms, m))
<1> DEFINE t == Append(log, a)
           p == Append(ms, m)
<1>1. /\ t \in Seq(Action) /\ Len(t) = Len(log) + 1 /\ Len(log) \in Nat
      /\ Nth(t, Len(log) + 1) = e /\ \A n \in 1 .. Len(log) : t[n] = log[n]
  BY NthAppend, Appended
<1>2. e \in Envelope /\ m \in Answer /\ m.type = "action" /\ m.envelope = e
  BY <1>1 DEF Envelope, Answer
<1>3. Seqs(m) = {Len(log) + 1} /\ Snap(m) = {}
  BY <1>2, AnswerIs
<1>4. Genuine(t, m)
  BY <1>1, <1>2 DEF Genuine, IsNth
<1>5. \A i \in 1 .. Len(ms) : ms[i] \in Answer
  BY ElementOfSeq
<1>6. Flow(log, v, ms) /\ DOMAIN v.confirmed \cup Coming(ms) \subseteq d.subs
  BY DEF Linked
<1>7. \A i \in 1 .. Len(ms) : Genuine(t, ms[i])
  BY <1>5, <1>6, GenuineGrows DEF Flow
<1>8. \A n \in 0 .. Len(log) : Before(n, m)
  BY <1>1, <1>2, <1>3 DEF Before
<1> HIDE DEF t
<1>9. Flow(t, v, p)
  <2>1. Len(t) \in Seqs(m) /\ Len(t) \in {Len(log), Len(log) + 1}
    BY <1>1, <1>3
  <2> QED
    BY <1>1, <1>2, <1>4, <1>6, <1>7, <1>8, <2>1, FlowWith
<1>10. /\ Coming(p) = Coming(ms) /\ Len(p) = Len(ms) + 1 /\ Len(ms) \in Nat
       /\ p[Len(ms) + 1] = m /\ \A i \in 1 .. Len(ms) : p[i] = ms[i]
       /\ \A i \in 1 .. Len(ms) + 1 : i \in 1 .. Len(ms) \/ i = Len(ms) + 1
  <2>1. Coming(p) = Coming(ms) \cup Snap(m)
    BY ONLY <1>2, ms \in Seq(Answer), ComingAppend
  <2>2. /\ Len(p) = Len(ms) + 1 /\ Len(ms) \in Nat
        /\ p[Len(ms) + 1] = m /\ \A i \in 1 .. Len(ms) : p[i] = ms[i]
        /\ \A i \in 1 .. Len(ms) + 1 : i \in 1 .. Len(ms) \/ i = Len(ms) + 1
    BY ONLY <1>2, ms \in Seq(Answer), Appended
  <2> HIDE DEF p
  <2> QED
    BY <1>3, <2>1, <2>2
<1>11. x.ready => Orderly(q, d.jobs, p, x.asked, DOMAIN v.confirmed)
  BY <1>2, <1>3, OrderlyNews DEF Linked
<1> HIDE DEF p
<1>12. Answering(q, d.jobs, ms) => Answering(q, d.jobs, p)
  <2> SUFFICES ASSUME Answering(q, d.jobs, ms)
               PROVE  Answering(q, d.jobs, p)
    OBVIOUS
  <2>1. Len(ms) # 0
    BY EmptySeq DEF Answering
  <2>2. 1 \in 1 .. Len(ms)
    BY <1>10, <2>1
  <2>3. p # <<>> /\ p[1] = ms[1]
    BY <1>10, <2>2
  <2>4. ASSUME NEW i \in 2 .. Len(p)
        PROVE  p[i].type = "action"
    <3>1. CASE i = Len(ms) + 1
      BY <1>2, <1>10, <3>1
    <3>2. CASE i # Len(ms) + 1
      <4>1. i \in 2 .. Len(ms) /\ i \in 1 .. Len(ms)
        BY <1>10, <3>2
      <4> QED
        BY <1>10, <4>1 DEF Answering
    <3> QED
      BY <3>1, <3>2
  <2> QED
    BY <2>3, <2>4 DEF Answering
<1>13. Linked(t, c, x, v, q, d, p)
  BY <1>6, <1>9, <1>10, <1>11, <1>12 DEF Linked
<1> QED
  BY <1>13 DEF t, p

\* The host applies an action that does not concern the client.
LEMMA LinkedWithout ==
  ASSUME NEW log \in Seq(Action), NEW a \in Action, NEW c, NEW x,
         NEW v \in RebasedViews, NEW q, NEW d, NEW ms \in Seq(Answer), Seen(log, v),
         Linked(log, c, x, v, q, d, ms), d.client # Absent => a.resource \notin d.subs
  PROVE  Linked(Append(log, a), c, x, v, q, d, ms)
<1>1. CASE d.client = Absent
  BY <1>1 DEF Linked
<1>2. CASE d.client # Absent
  <2>1. Flow(log, v, ms) /\ DOMAIN v.confirmed \cup Coming(ms) \subseteq d.subs
    BY <1>2 DEF Linked
  <2>2. \A i \in 1 .. Len(ms) : Snap(ms[i]) \subseteq Coming(ms)
    BY DEF Coming
  <2>3. /\ a.resource \notin DOMAIN v.confirmed
        /\ \A i \in 1 .. Len(ms) : a.resource \notin Snap(ms[i])
    BY <1>2, <2>1, <2>2
  <2>4. Flow(Append(log, a), v, ms)
    BY <2>1, <2>3, FlowWithout
  <2> QED
    BY <1>2, <2>4 DEF Linked
<1> QED
  BY <1>1, <1>2

\* The server takes an action from a client.
LEMMA LinkedTakes ==
  ASSUME NEW log, NEW c, NEW x, NEW v, NEW q \in Seq(Message), q # <<>>,
         Head(q).type = "dispatchAction", NEW d, NEW ms, Linked(log, c, x, v, q, d, ms)
  PROVE  /\ d.client # Absent
         /\ Linked(log, c, x, v, Tail(q), d, ms)
<1>1. d.client # Absent
  <2>1. Head(q) = q[1]
    BY ComingTail
  <2> QED
    BY <2>1 DEF Linked, Waiting
<1>2. x.ready
  BY <1>1 DEF Linked, Answering
<1>3. Orderly(Tail(q), d.jobs, ms, x.asked, DOMAIN v.confirmed)
  BY <1>1, <1>2, OrderlyTake DEF Linked
<1> QED
  BY <1>1, <1>2, <1>3 DEF Linked

\* The client takes a message.
LEMMA LinkedReceives ==
  ASSUME NEW log \in Seq(Action), NEW c, NEW x \in Client, NEW y, NEW v \in RebasedViews,
         NEW q \in Seq(Message), NEW d, NEW ms \in Seq(Answer), ms # <<>>, Seen(log, v),
         d.client # Absent, Linked(log, c, x, v, q, d, ms),
         y.ready = (x.ready \/ Head(ms).type # "action"),
         y.asked = x.asked \ Snap(Head(ms)),
         ~ x.ready => x.asked = {}
  PROVE  Linked(log, c, y, Received(v, Head(ms)), q, d, Tail(ms))
<1> DEFINE w == Received(v, Head(ms))
           t == Tail(ms)
           new == Snap(Head(ms))
<1>1. Flow(log, v, ms) /\ DOMAIN v.confirmed \cup Coming(ms) \subseteq d.subs
  BY DEF Linked
<1>2. Flow(log, w, t) /\ DOMAIN w.confirmed = DOMAIN v.confirmed \cup new
  BY <1>1, ReceiveKeepsFlow
<1>3. /\ Coming(ms) = new \cup Coming(t) /\ Head(ms) = ms[1] /\ Len(t) + 1 = Len(ms)
      /\ t \in Seq(Answer) /\ \A i \in 1 .. Len(t) : t[i] = ms[i + 1]
  BY ComingTail
<1> SUFFICES Linked(log, c, y, w, q, d, t)
  OBVIOUS
<1> HIDE DEF w, t, new
<1>4. CASE x.ready
  <2>1. Orderly(q, d.jobs, t, y.asked, DOMAIN w.confirmed)
    <3>1. Orderly(q, d.jobs, ms, x.asked, DOMAIN v.confirmed)
      BY <1>4 DEF Linked
    <3>2. Orderly(q, d.jobs, t, x.asked \ new, DOMAIN v.confirmed \cup new)
      BY <3>1, OrderlyReceive DEF t, new
    <3> QED
      BY <1>2, <3>2 DEF new
  <2> QED
    BY <1>1, <1>2, <1>3, <1>4, <2>1 DEF Linked
<1>5. CASE ~ x.ready
  <2>1. Answering(q, d.jobs, ms)
    BY <1>5 DEF Linked
  <2>2. y.ready /\ y.asked = {} /\ q = <<>> /\ d.jobs = <<>>
    BY <1>3, <1>5, <2>1 DEF Answering
  <2>3. Len(t) \in Nat
    BY <1>3, LenProperties
  <2>4. ASSUME NEW i \in 1 .. Len(t)
        PROVE  Snap(t[i]) = {}
    <3>1. i + 1 \in 2 .. Len(ms) /\ t[i] = ms[i + 1]
      BY <1>3, <2>3
    <3>2. t[i].type = "action"
      BY <2>1, <3>1 DEF Answering
    <3> QED
      BY <3>2 DEF Snap
  <2>5. Orderly(<<>>, <<>>, t, {}, DOMAIN w.confirmed)
    BY <2>4, OrderlyStarts
  <2>6. Orderly(q, d.jobs, t, y.asked, DOMAIN w.confirmed)
    BY <2>2, <2>5
  <2>7. /\ Flow(log, w, t) /\ DOMAIN w.confirmed \cup Coming(t) \subseteq d.subs
    BY <1>1, <1>2, <1>3
  <2> QED
    BY <2>2, <2>6, <2>7 DEF Linked
<1> QED
  BY <1>4, <1>5

-----------------------------------------------------------------------------
(* What clients do keeps the links *)

\* A step that does not concern client d.
LEMMA LinkStays ==
  ASSUME NEW log, NEW d \in ClientId, LinkedTo(log, d),
         clients'[d] = clients[d], views'[d] = views[d],
         clients[d].conn # Absent =>
           /\ up'[clients[d].conn] = up[clients[d].conn]
           /\ conns'[clients[d].conn] = conns[clients[d].conn]
           /\ down'[clients[d].conn] = down[clients[d].conn]
  PROVE  LinkedTo(log, d)'
BY DEF LinkedTo

LEMMA SameLog ==
  ASSUME NEW log, IsLog(log), server'.seq = server.seq, server'.states = server.states,
         server'.buffer = server.buffer
  PROVE  IsLog(log)'
BY DEF IsLog

LEMMA OpeningKeepsLogged ==
  ASSUME SyncAssumption, TypeInv, RegistrationInv, QuietInv,
         NEW log \in Seq(Action), LoggedInv(log),
         NEW c \in ClientId, NEW k \in Conn, clients[c].conn = Absent, line[k] = "unused",
         clients' = [clients EXCEPT ![c].conn = k],
         NEW m, Waiting(c, views[c], <<m>>), Sent(k, m),
         UNCHANGED <<server, conns, down, views>>
  PROVE  LoggedInv(log)'
<1>1. clients \in [ClientId -> Client] /\ up \in [Conn -> Seq(Message)]
  BY DEF TypeInv
<1>2. up[k] = <<>> /\ conns[k].client = Absent
  BY DEF RegistrationInv, UnusedIsFresh
<1>3. /\ up'[k] = Append(up[k], m) /\ \A j \in Conn : j # k => up'[j] = up[j]
      /\ Append(<<>>, m) = <<m>>
  BY <1>1 DEF Sent
<1>4. clients'[c].conn = k /\ clients'[c].ready = clients[c].ready
  BY <1>1 DEF Client
<1>5. ~ clients[c].ready
  BY DEF QuietInv, ReadyInv, Joined
<1>6. ASSUME NEW d \in ClientId
      PROVE  LinkedTo(log, d)'
  <2>1. CASE d = c
    <3>1. up'[k] = <<m>> /\ conns'[k].client = Absent /\ views'[c] = views[c]
      BY <1>2, <1>3
    <3>2. Linked(log, c, clients'[c], views'[c], up'[k], conns'[k], down'[k])
      BY <1>4, <1>5, <3>1 DEF Linked
    <3> QED
      BY <1>4, <2>1, <3>2 DEF LinkedTo
  <2>2. CASE d # c
    <3>1. clients'[d] = clients[d] /\ views'[d] = views[d] /\ LinkedTo(log, d)
      BY <1>1, <2>2 DEF LoggedInv, LinkedInv
    <3>2. clients[d].conn # Absent => clients[d].conn \in Conn /\ clients[d].conn # k
      BY DEF RegistrationInv, ConnsAreOwned
    <3> QED
      BY <1>3, <3>1, <3>2, LinkStays
  <2> QED
    BY <2>1, <2>2
<1>7. IsLog(log)' /\ \A d \in ClientId : Seen(log, views'[d])
  BY SameLog DEF LoggedInv
<1> QED
  BY <1>6, <1>7 DEF LoggedInv, LinkedInv

LEMMA RequestKeepsLogged ==
  ASSUME SyncAssumption, TypeInv, RegistrationInv, QuietInv,
         NEW log \in Seq(Action), LoggedInv(log), NEW c \in ClientId, clients[c].ready,
         \A d \in ClientId : d # c => clients'[d] = clients[d] /\ views'[d] = views[d],
         clients'[c].conn = clients[c].conn, clients'[c].ready,
         NEW m \in Message, Sent(clients[c].conn, m), UNCHANGED <<server, conns, down>>,
         views'[c].lastSeen = views[c].lastSeen,
         DOMAIN views'[c].confirmed \subseteq DOMAIN views[c].confirmed,
         \A r \in DOMAIN views'[c].confirmed :
           views'[c].confirmed[r] = views[c].confirmed[r],
         Orderly(up[clients[c].conn], conns[clients[c].conn].jobs, down[clients[c].conn],
                 clients[c].asked, DOMAIN views[c].confirmed)
           => Orderly(Append(up[clients[c].conn], m), conns[clients[c].conn].jobs,
                      down[clients[c].conn], clients'[c].asked, DOMAIN views'[c].confirmed)
  PROVE  LoggedInv(log)'
<1> DEFINE k == clients[c].conn
           v == views[c]
           w == views'[c]
<1>1. k \in Conn /\ conns[k].client = c /\ c # Absent /\ k # Absent
  BY DEF QuietInv, ReadyInv, Joined, TypeInv, Client, SyncAssumption
<1>2. up'[k] = Append(up[k], m) /\ \A j \in Conn : j # k => up'[j] = up[j]
  BY <1>1 DEF Sent, TypeInv
<1>3. Linked(log, c, clients[c], v, up[k], conns[k], down[k])
  BY <1>1 DEF LoggedInv, LinkedInv, LinkedTo
<1>4. /\ Flow(log, v, down[k]) /\ DOMAIN v.confirmed \cup Coming(down[k]) \subseteq conns[k].subs
      /\ Orderly(up[k], conns[k].jobs, down[k], clients[c].asked, DOMAIN v.confirmed)
  BY <1>1, <1>3 DEF Linked
<1>5. Flow(log, w, down[k])
  BY <1>4, FlowDropped
<1>6. Seen(log, w)
  BY DEF LoggedInv, Seen
<1> HIDE DEF w
<1>7. Linked(log, c, clients'[c], w, up'[k], conns[k], down[k])
  BY <1>1, <1>2, <1>4, <1>5 DEF Linked, w
<1>8. ASSUME NEW d \in ClientId
      PROVE  LinkedTo(log, d)'
  <2>1. CASE d = c
    BY <1>1, <1>7, <2>1 DEF LinkedTo, w
  <2>2. CASE d # c
    <3>1. clients'[d] = clients[d] /\ views'[d] = views[d] /\ LinkedTo(log, d)
      BY <2>2 DEF LoggedInv, LinkedInv
    <3>2. clients[d].conn # Absent => clients[d].conn \in Conn /\ clients[d].conn # k
      BY <1>1, <2>2 DEF RegistrationInv, ConnsAreOwned
    <3> QED
      BY <1>2, <3>1, <3>2, LinkStays
  <2> QED
    BY <2>1, <2>2
<1>9. IsLog(log)' /\ \A d \in ClientId : Seen(log, views'[d])
  <2>1. IsLog(log)'
    BY SameLog DEF LoggedInv
  <2>2. \A d \in ClientId : d # c => Seen(log, views'[d])
    BY DEF LoggedInv
  <2> QED
    BY <1>6, <2>1, <2>2 DEF w
<1> QED
  BY <1>8, <1>9 DEF LoggedInv, LinkedInv

LEMMA ReceiveKeepsLogged ==
  ASSUME SyncAssumption, TypeInv, RegistrationInv, QuietInv,
         NEW log \in Seq(Action), LoggedInv(log), NEW c \in ClientId, Receive(c)
  PROVE  LoggedInv(log)'
<1> DEFINE k == clients[c].conn
           m == Head(down[k])
           v == views[c]
           w == Received(v, m)
           t == Tail(down[k])
<1>1. /\ k \in Conn /\ down[k] # <<>> /\ down[k] \in Seq(Answer) /\ m \in Answer
      /\ views' = [views EXCEPT ![c] = Received(@, m)]
      /\ down' = [down EXCEPT ![k] = Tail(@)]
      /\ \A d \in ClientId : d # c => clients'[d] = clients[d]
      /\ clients'[c].conn = k
      /\ clients'[c].ready = (clients[c].ready \/ m.type # "action")
      /\ clients'[c].asked = clients[c].asked \ Snap(m)
      /\ UNCHANGED <<server, conns, line, up>>
  BY ReceiveIs
<1>2. /\ views \in [ClientId -> RebasedViews] /\ v \in RebasedViews
      /\ down \in [Conn -> Seq(Answer)] /\ up[k] \in Seq(Message) /\ clients[c] \in Client
  BY <1>1 DEF TypeInv
<1>3. /\ views'[c] = w /\ \A d \in ClientId : d # c => views'[d] = views[d]
      /\ down'[k] = t /\ \A j \in Conn : j # k => down'[j] = down[j]
  BY <1>1, <1>2
<1>4. k # Absent /\ conns[k].client # Absent /\ (~ clients[c].ready => clients[c].asked = {})
  BY <1>1 DEF SyncAssumption, QuietInv, FreshConns, ReadyInv
<1>5. Seen(log, v) /\ Linked(log, c, clients[c], v, up[k], conns[k], down[k])
  BY <1>4 DEF LoggedInv, LinkedInv, LinkedTo
<1>6. Flow(log, v, down[k])
  BY <1>4, <1>5 DEF Linked
<1>7. Seen(log, w)
  BY <1>1, <1>2, <1>5, <1>6, ReceiveKeepsFlow
<1> DEFINE y == clients'[c]
<1>8. y.ready = (clients[c].ready \/ m.type # "action") /\ y.asked = clients[c].asked \ Snap(m)
  BY <1>1
<1> HIDE DEF k, y
<1>9. Linked(log, c, y, w, up[k], conns[k], t)
  <2> DEFINE d == conns[k]
             ms == down[k]
             q == up[k]
             x == clients[c]
  <2>1. /\ x \in Client /\ q \in Seq(Message) /\ ms \in Seq(Answer) /\ ms # <<>>
        /\ d.client # Absent /\ Linked(log, c, x, v, q, d, ms)
        /\ y.ready = (x.ready \/ Head(ms).type # "action")
        /\ y.asked = x.asked \ Snap(Head(ms))
        /\ (~ x.ready => x.asked = {})
    BY <1>1, <1>2, <1>4, <1>5, <1>8
  <2> HIDE DEF d, ms, q, x, v
  <2>2. Linked(log, c, y, Received(v, Head(ms)), q, d, Tail(ms))
    BY <1>2, <1>5, <2>1, LinkedReceives
  <2> QED
    BY <2>2 DEF d, ms, q, v
<1> HIDE DEF w, t, m, v
<1>10. ASSUME NEW d \in ClientId
       PROVE  LinkedTo(log, d)'
  <2>1. CASE d = c
    BY <1>1, <1>3, <1>9, <2>1 DEF LinkedTo, y
  <2>2. CASE d # c
    <3>1. clients'[d] = clients[d] /\ views'[d] = views[d] /\ LinkedTo(log, d)
      BY <1>1, <1>3, <2>2 DEF LoggedInv, LinkedInv
    <3>2. clients[d].conn # Absent => clients[d].conn \in Conn /\ clients[d].conn # k
      BY <1>4, <2>2 DEF RegistrationInv, ConnsAreOwned, k
    <3> QED
      BY <1>1, <1>3, <3>1, <3>2, LinkStays
  <2> QED
    BY <2>1, <2>2
<1>11. IsLog(log)'
  BY <1>1, SameLog DEF LoggedInv
<1>12. \A d \in ClientId : Seen(log, views'[d])
  BY <1>3, <1>7 DEF LoggedInv
<1> QED
  BY <1>10, <1>11, <1>12 DEF LoggedInv, LinkedInv

LEMMA CutKeepsLogged ==
  ASSUME SyncAssumption, TypeInv, RegistrationInv, QuietInv,
         NEW log \in Seq(Action), LoggedInv(log), NEW c \in ClientId, Cut(c)
  PROVE  LoggedInv(log)'
<1> DEFINE k == clients[c].conn
<1>1. /\ k \in Conn
      /\ \A d \in ClientId : d # c => clients'[d] = clients[d]
      /\ clients'[c].conn = Absent
      /\ \A j \in Conn : j # k => up'[j] = up[j] /\ down'[j] = down[j]
      /\ UNCHANGED <<server, conns, views>>
  BY CutIs
<1> HIDE DEF k
<1>2. k # Absent
  BY <1>1 DEF SyncAssumption
<1>3. ASSUME NEW d \in ClientId
      PROVE  LinkedTo(log, d)'
  <2>1. CASE d = c
    BY <1>1, <2>1 DEF LinkedTo
  <2>2. CASE d # c
    <3>1. clients'[d] = clients[d] /\ views'[d] = views[d] /\ LinkedTo(log, d)
      BY <1>1, <2>2 DEF LoggedInv, LinkedInv
    <3>2. clients[d].conn # Absent => clients[d].conn \in Conn /\ clients[d].conn # k
      BY <1>2, <2>2 DEF RegistrationInv, ConnsAreOwned, k
    <3> QED
      BY <1>1, <3>1, <3>2, LinkStays
  <2> QED
    BY <2>1, <2>2
<1>4. IsLog(log)' /\ \A d \in ClientId : Seen(log, views'[d])
  BY <1>1, SameLog DEF LoggedInv
<1> QED
  BY <1>3, <1>4 DEF LoggedInv, LinkedInv

LEMMA ClientKeepsLogged ==
  ASSUME SyncAssumption, ~ Burst, TypeInv, RegistrationInv, QuietInv,
         NEW log \in Seq(Action), LoggedInv(log), NEW c \in ClientId, ClientStep(c)
  PROVE  LoggedInv(log)'
<1>1. /\ clients \in [ClientId -> Client]
      /\ views \in [ClientId -> RebasedViews]
  BY DEF TypeInv
<1> DEFINE k == clients[c].conn
           v == views[c]
<1>2. Online(c) => up[k] \in Seq(Message) /\ k \in Conn
  BY DEF Online, TypeInv, Client
<1>3. ASSUME NEW j \in Conn, Reconnect(c, j)
      PROVE  LoggedInv(log)'
  <2> DEFINE m == [type |-> "reconnect", client |-> c, lastSeen |-> views[c].lastSeen,
                   subs |-> DOMAIN views[c].confirmed]
  <2>1. Waiting(c, views[c], <<m>>)
    <3> DEFINE q == <<m>>
    <3>1. Len(q) = 1 /\ q[1] = m
      OBVIOUS
    <3> HIDE DEF q
    <3>2. Waiting(c, views[c], q)
      BY <3>1 DEF Waiting
    <3> QED
      BY <3>2 DEF q
  <2>2. Sent(j, m)
    BY <1>3 DEF Reconnect
  <2> HIDE DEF m
  <2> QED
    BY <1>3, <2>1, <2>2, OpeningKeepsLogged DEF Reconnect
<1>4. ASSUME NEW j \in Conn, NEW rs \in Initial, Connect(c, j, rs)
      PROVE  LoggedInv(log)'
  <2> DEFINE m == [type |-> "initialize", client |-> c, subs |-> rs]
  <2>1. Waiting(c, views[c], <<m>>)
    <3> DEFINE q == <<m>>
    <3>1. Len(q) = 1 /\ q[1] = m
      OBVIOUS
    <3>2. DOMAIN views[c].confirmed = {}
      BY <1>4 DEF Connect
    <3> HIDE DEF q
    <3>3. Waiting(c, views[c], q)
      BY <3>1, <3>2 DEF Waiting
    <3> QED
      BY <3>3 DEF q
  <2>2. Sent(j, m)
    BY <1>4 DEF Connect
  <2> HIDE DEF m
  <2> QED
    BY <1>4, <2>1, <2>2, OpeningKeepsLogged DEF Connect
<1>5. ASSUME NEW r \in Resource, Subscribe(c, r)
      PROVE  LoggedInv(log)'
  <2> DEFINE m == [type |-> "subscribe", resource |-> r]
  <2>1. m \in Message /\ m.type = "subscribe" /\ m.resource = r /\ Sent(k, m)
    BY <1>5 DEF Message, Subscribe
  <2> HIDE DEF m
  <2>2. /\ clients[c].ready
        /\ \A d \in ClientId : d # c => clients'[d] = clients[d]
        /\ clients'[c].conn = k /\ clients'[c].ready
        /\ clients'[c].asked = clients[c].asked \cup {r}
        /\ r \notin DOMAIN v.confirmed \cup clients[c].asked
        /\ views' = views /\ UNCHANGED <<server, conns, down>>
    BY <1>1, <1>5 DEF Subscribe, Online, Client
  <2>3. up[k] \in Seq(Message)
    BY <1>2, <1>5 DEF Subscribe
  <2> DEFINE q == up[k]
             jobs == conns[k].jobs
             ms == down[k]
             asked == clients[c].asked
             held == DOMAIN v.confirmed
  <2> HIDE DEF q, jobs, ms, asked, held
  <2>4. Orderly(q, jobs, ms, asked, held) =>
          Orderly(Append(q, m), jobs, ms, asked \cup {m.resource}, held)
    BY <2>1, <2>2, <2>3, OrderlySubscribe DEF q, asked, held
  <2>5. Orderly(up[k], conns[k].jobs, down[k], clients[c].asked, DOMAIN v.confirmed)
           => Orderly(Append(up[k], m), conns[k].jobs, down[k], clients'[c].asked,
                      DOMAIN views'[c].confirmed)
    BY <2>1, <2>2, <2>4 DEF q, jobs, ms, asked, held
  <2> QED
    BY <2>1, <2>2, <2>5, RequestKeepsLogged
<1>6. ASSUME NEW r \in Resource, Unsubscribe(c, r)
      PROVE  LoggedInv(log)'
  <2> DEFINE m == [type |-> "unsubscribe", resource |-> r]
             w == DropResource(v, r)
  <2>1. m \in Message /\ m.type = "unsubscribe" /\ m.resource = r /\ Sent(k, m)
    BY <1>6 DEF Message, Unsubscribe
  <2>2. w.lastSeen = v.lastSeen /\ w.confirmed = Dropping(v.confirmed, r)
    BY <1>1, DropResourceIs
  <2>3. /\ DOMAIN Dropping(v.confirmed, r) = DOMAIN v.confirmed \ {r}
        /\ \A s \in DOMAIN v.confirmed \ {r} : Dropping(v.confirmed, r)[s] = v.confirmed[s]
    BY DEF Dropping
  <2>4. views'[c] = w
    BY <1>1, <1>6 DEF Unsubscribe
  <2> HIDE DEF m, w
  <2>5. /\ clients[c].ready /\ clients' = clients
        /\ \A d \in ClientId : d # c => views'[d] = views[d]
        /\ r \in DOMAIN v.confirmed
        /\ UNCHANGED <<server, conns, down>>
    BY <1>1, <1>6 DEF Unsubscribe, Online
  <2>6. up[k] \in Seq(Message)
    BY <1>2, <1>6 DEF Unsubscribe
  <2> DEFINE q == up[k]
             jobs == conns[k].jobs
             ms == down[k]
             asked == clients[c].asked
             held == DOMAIN v.confirmed
             less == {r}
  <2> HIDE DEF q, jobs, ms, asked, held
  <2>7. Orderly(q, jobs, ms, asked, held) =>
          Orderly(Append(q, m), jobs, ms, asked, held \ less)
    <3>1. less \subseteq held /\ m.resource \in less /\ m.type # "subscribe"
      BY <2>1, <2>5 DEF held
    <3> HIDE DEF less
    <3> QED
      BY <2>1, <2>6, <3>1, OrderlySend DEF q
  <2>8. /\ views'[c].lastSeen = v.lastSeen
        /\ DOMAIN views'[c].confirmed = held \ less
        /\ \A s \in DOMAIN views'[c].confirmed : views'[c].confirmed[s] = v.confirmed[s]
    BY <2>2, <2>3, <2>4 DEF held
  <2>9. Orderly(up[k], conns[k].jobs, down[k], clients[c].asked, DOMAIN v.confirmed)
           => Orderly(Append(up[k], m), conns[k].jobs, down[k], clients'[c].asked,
                      DOMAIN views'[c].confirmed)
    BY <2>5, <2>7, <2>8 DEF q, jobs, ms, asked, held
  <2>10. /\ \A d \in ClientId : d # c => clients'[d] = clients[d] /\ views'[d] = views[d]
         /\ clients'[c].conn = k /\ clients'[c].ready
         /\ DOMAIN views'[c].confirmed \subseteq DOMAIN v.confirmed
    BY <2>5, <2>8 DEF held
  <2> QED
    BY <2>1, <2>5, <2>8, <2>9, <2>10, RequestKeepsLogged
<1>7. ASSUME NEW s \in Session, Dispatch(c, s)
      PROVE  LoggedInv(log)'
  <2> DEFINE a == [resource |-> s, by |-> c, n |-> clients[c].nextSeq]
             m == [type |-> "dispatchAction", action |-> a]
             w == ApplyOptimistic(v, a)
  <2>1. a \in Action
    BY <1>1 DEF Action, SyncAssumption, Client
  <2>2. m \in Message /\ m.type = "dispatchAction" /\ Sent(k, m)
    BY <1>7, <2>1 DEF Message, Dispatch
  <2>3. views'[c] = w
    BY <1>1, <1>7 DEF Dispatch
  <2> HIDE DEF a, m
  <2>4. w.lastSeen = v.lastSeen /\ w.confirmed = v.confirmed
    BY <1>1, <2>1, ApplyOptimisticIs
  <2> HIDE DEF w
  <2>5. /\ clients[c].ready
        /\ \A d \in ClientId : d # c => clients'[d] = clients[d] /\ views'[d] = views[d]
        /\ clients'[c].conn = k /\ clients'[c].ready
        /\ clients'[c].asked = clients[c].asked
        /\ UNCHANGED <<server, conns, down>>
    BY <1>1, <1>7 DEF Dispatch, Online, Client
  <2>6. up[k] \in Seq(Message)
    BY <1>2, <1>7 DEF Dispatch
  <2> DEFINE q == up[k]
             jobs == conns[k].jobs
             ms == down[k]
             asked == clients[c].asked
             held == DOMAIN v.confirmed
  <2> HIDE DEF q, jobs, ms, asked, held
  <2>7. Orderly(q, jobs, ms, asked, held) => Orderly(Append(q, m), jobs, ms, asked, held)
    <3> DEFINE less == {}
    <3>1. less \subseteq held /\ held \ less = held /\ m.type # "subscribe"
          /\ m.type # "unsubscribe"
      BY <2>2
    <3> HIDE DEF less
    <3>2. Orderly(q, jobs, ms, asked, held) =>
            Orderly(Append(q, m), jobs, ms, asked, held \ less)
      BY <2>2, <2>6, <3>1, OrderlySend DEF q
    <3> QED
      BY <3>1, <3>2
  <2>8. /\ views'[c].lastSeen = v.lastSeen /\ DOMAIN views'[c].confirmed = held
        /\ DOMAIN views'[c].confirmed \subseteq DOMAIN v.confirmed
        /\ \A r \in DOMAIN views'[c].confirmed : views'[c].confirmed[r] = v.confirmed[r]
    BY <2>3, <2>4 DEF held
  <2>9. Orderly(up[k], conns[k].jobs, down[k], clients[c].asked, DOMAIN v.confirmed)
           => Orderly(Append(up[k], m), conns[k].jobs, down[k], clients'[c].asked,
                      DOMAIN views'[c].confirmed)
    BY <2>5, <2>7, <2>8 DEF q, jobs, ms, asked, held
  <2> QED
    BY <2>2, <2>5, <2>8, <2>9, RequestKeepsLogged
<1>8. CASE Receive(c)
  BY <1>8, ReceiveKeepsLogged
<1>9. CASE Cut(c)
  BY <1>9, CutKeepsLogged
<1> QED
  BY <1>3, <1>4, <1>5, <1>6, <1>7, <1>8, <1>9 DEF ClientStep

-----------------------------------------------------------------------------
(* What the server does keeps the links *)

\* A step after which every client is linked as before, or as is shown for it.
LEMMA ServerKeepsOthers ==
  ASSUME SyncAssumption, RegistrationInv, NEW log, LinkedInv(log), NEW k \in Conn,
         UNCHANGED <<clients, views>>,
         \A j \in Conn : j # k => up'[j] = up[j] /\ conns'[j] = conns[j] /\ down'[j] = down[j],
         \A c \in ClientId : clients[c].conn = k => LinkedTo(log, c)'
  PROVE  LinkedInv(log)'
<1> SUFFICES ASSUME NEW c \in ClientId, clients[c].conn # k
             PROVE  LinkedTo(log, c)'
  BY DEF LinkedInv
<1>1. clients[c].conn # Absent => clients[c].conn \in Conn
  BY DEF RegistrationInv, ConnsAreOwned
<1>2. LinkedTo(log, c)
  BY DEF LinkedInv
<1> QED
  BY <1>1, <1>2, LinkStays

LEMMA HandshakeKeepsLogged ==
  ASSUME SyncAssumption, ~ Burst, TypeInv, RegistrationInv, QuietInv,
         NEW log \in Seq(Action), LoggedInv(log), NEW k \in Conn,
         NEW type \in {"initialize", "reconnect"}, Takes(k, type),
         server' = [server EXCEPT !.clients[Head(up[k]).client] = k],
         conns' = [conns EXCEPT ![k].client = Head(up[k]).client,
                                ![k].subs = Head(up[k]).subs],
         NEW answer \in Answer, answer.type # "action",
         down' = Answered(k, <<answer>>), UNCHANGED <<line, clients, views>>,
         \A c \in ClientId : Waiting(c, views[c], up[k]) =>
           /\ Flow(log, views[c], <<answer>>)
           /\ DOMAIN views[c].confirmed \cup Snap(answer) \subseteq Head(up[k]).subs
  PROVE  LoggedInv(log)'
<1> DEFINE subs == Head(up[k]).subs
<1>1. /\ up' = [up EXCEPT ![k] = Tail(@)]
      /\ up[k] # <<>> /\ up[k] \in Seq(Message) /\ Head(up[k]) = up[k][1]
      /\ Head(up[k]).type = type
      /\ Len(Tail(up[k])) + 1 = Len(up[k]) /\ Len(Tail(up[k])) \in Nat
  BY TakesIs
<1>2. IsHandshake(up[k][1]) /\ 1 \in 1 .. Len(up[k])
  BY <1>1 DEF IsHandshake
<1>3. PICK c \in ClientId : /\ Head(up[k]).client = c
                           /\ clients[c].conn = k /\ conns[k].client = Absent
  BY <1>1, <1>2, SMTT(30) DEF RegistrationInv, HandshakesAreFirst
<1>4. /\ conns'[k].client = c /\ conns'[k].subs = subs /\ conns'[k].jobs = conns[k].jobs
      /\ \A j \in Conn : j # k => conns'[j] = conns[j]
      /\ server'.seq = server.seq /\ server'.states = server.states
      /\ server'.buffer = server.buffer
  BY <1>3 DEF TypeInv, Connection
<1>5. c # Absent /\ k # Absent
  BY <1>3 DEF SyncAssumption
<1>6. ~ clients[c].ready /\ Waiting(c, views[c], up[k])
  BY <1>3, <1>5 DEF LoggedInv, LinkedInv, LinkedTo, Linked
<1>7. /\ Flow(log, views[c], <<answer>>)
      /\ DOMAIN views[c].confirmed \cup Snap(answer) \subseteq subs
  BY <1>3, <1>6
<1>8. down[k] = <<>> /\ conns[k].jobs = <<>> /\ line[k] = "open"
  BY <1>3, <1>5 DEF QuietInv, FreshConns, RegistrationInv, ConnsAreOwned
<1>9. down'[k] = <<answer>> /\ \A j \in Conn : j # k => down'[j] = down[j]
  <2>1. <<>> \o <<answer>> = <<answer>>
    OBVIOUS
  <2> QED
    BY <1>8, <2>1, AnsweredIs
<1>10. up'[k] = <<>> /\ \A j \in Conn : j # k => up'[j] = up[j]
  <2>1. Len(Tail(up[k])) = 0
    BY <1>1, <1>6 DEF Waiting
  <2>2. Tail(up[k]) \in Seq(Message)
    BY <1>1, ComingTail
  <2>3. Tail(up[k]) = <<>>
    BY <2>1, <2>2, EmptySeq
  <2> QED
    BY <1>1, <2>3 DEF TypeInv
<1> DEFINE ms == <<answer>>
<1>11. Coming(ms) = Snap(answer) /\ Len(ms) = 1 /\ ms[1] = answer /\ ms # <<>>
  <2>1. Len(ms) = 1 /\ ms[1] = answer
    OBVIOUS
  <2>2. ms # <<>>
    OBVIOUS
  <2> HIDE DEF ms
  <2>3. Coming(ms) = Snap(answer)
    BY <2>1 DEF Coming
  <2> QED
    BY <2>1, <2>2, <2>3
<1> HIDE DEF ms, subs
<1>12. Answering(<<>>, <<>>, ms)
  <2>1. \A i \in 2 .. Len(ms) : FALSE
    BY <1>11
  <2> QED
    BY <1>11, <2>1 DEF Answering
<1>13. Linked(log, c, clients[c], views[c], up'[k], conns'[k], down'[k])
  <2>1. Flow(log, views[c], ms) /\ down'[k] = ms
    BY <1>7, <1>9 DEF ms
  <2>2. DOMAIN views[c].confirmed \cup Coming(ms) \subseteq conns'[k].subs
    BY <1>4, <1>7, <1>11
  <2> QED
    BY <1>4, <1>5, <1>6, <1>8, <1>10, <1>12, <2>1, <2>2 DEF Linked
<1>14. \A d \in ClientId : clients[d].conn = k => LinkedTo(log, d)'
  <2>1. \A d \in ClientId : clients[d].conn = k => d = c
    BY <1>3, <1>5 DEF RegistrationInv, ConnsAreOwned
  <2>2. LinkedTo(log, c)'
    BY <1>3, <1>13 DEF LinkedTo
  <2> QED
    BY <2>1, <2>2
<1>15. LinkedInv(log)'
  BY <1>4, <1>9, <1>10, <1>14, ServerKeepsOthers DEF LoggedInv
<1>16. IsLog(log)'
  BY <1>4, SameLog DEF LoggedInv
<1> QED
  BY <1>15, <1>16 DEF LoggedInv

\* The snapshots that the server takes are those of the log.
LEMMA SnapshotsAreGenuine ==
  ASSUME TypeInv, NEW log \in Seq(Action), IsLog(log), NEW rs \in SUBSET Resource
  PROVE  /\ Snapshots(rs) \in Answer /\ Snapshots(rs).type = "snapshots"
         /\ Snap(Snapshots(rs)) = rs /\ Seqs(Snapshots(rs)) = {}
         /\ Snapshots(rs).fromSeq = Len(log)
         /\ Genuine(log, Snapshots(rs))
         /\ \A n \in 0 .. Len(log) : Before(n, Snapshots(rs))
<1> DEFINE m == Snapshots(rs)
           f == [r \in rs |-> server.states[r]]
<1>1. m \in Answer
  BY SnapshotsType DEF Answer
<1>2. m.type = "snapshots" /\ m.fromSeq = server.seq /\ m.states = f
  BY DEF Snapshots
<1>3. DOMAIN f = rs /\ \A r \in rs : f[r] = server.states[r]
  OBVIOUS
<1> HIDE DEF m, f
<1>4. Snap(m) = rs /\ Seqs(m) = {}
  BY <1>2, <1>3 DEF Snap, Seqs
<1>5. server.seq = Len(log) /\ Len(log) \in Nat
      /\ \A r \in rs : server.states[r] = At(log, r, Len(log))
  BY LenProperties DEF IsLog
<1>6. Genuine(log, m)
  BY <1>2, <1>3, <1>5 DEF Genuine
<1>7. \A n \in 0 .. Len(log) : Before(n, m)
  BY <1>2, <1>4, <1>5 DEF Before
<1> QED
  BY <1>1, <1>2, <1>4, <1>5, <1>6, <1>7 DEF m

LEMMA InitializeKeepsLogged ==
  ASSUME SyncAssumption, ~ Burst, TypeInv, RegistrationInv, QuietInv,
         NEW log \in Seq(Action), LoggedInv(log), NEW k \in Conn, HandleInitialize(k)
  PROVE  LoggedInv(log)'
<1> DEFINE m == Head(up[k])
           answer == Snapshots(m.subs)
<1>1. m \in Message /\ m.type = "initialize" /\ m = up[k][1]
  BY TakesIs DEF HandleInitialize
<1>2. m.subs \in SUBSET Resource /\ IsLog(log)
  BY <1>1, MessageIs DEF LoggedInv
<1>3. /\ answer \in Answer /\ answer.type = "snapshots" /\ Snap(answer) = m.subs
      /\ answer.fromSeq = Len(log) /\ Genuine(log, answer)
      /\ \A n \in 0 .. Len(log) : Before(n, answer)
  BY <1>2, SnapshotsAreGenuine
<1>4. /\ Takes(k, "initialize")
      /\ server' = [server EXCEPT !.clients[m.client] = k]
      /\ conns' = [conns EXCEPT ![k].client = m.client, ![k].subs = m.subs]
      /\ down' = Answered(k, <<answer>>)
      /\ UNCHANGED <<line, clients, views>>
  BY DEF HandleInitialize
<1> HIDE DEF answer
<1>5. ASSUME NEW c \in ClientId, Waiting(c, views[c], up[k])
      PROVE  /\ Flow(log, views[c], <<answer>>)
             /\ DOMAIN views[c].confirmed \cup Snap(answer) \subseteq m.subs
  <2>1. DOMAIN views[c].confirmed = {}
    BY <1>1, <1>5 DEF Waiting
  <2>2. Before(views[c].lastSeen, answer)
    BY <1>3 DEF LoggedInv, Seen
  <2>3. DOMAIN views[c].confirmed \subseteq Snap(answer)
    BY <2>1
  <2>4. Flow(log, views[c], <<answer>>)
    BY <1>3, <2>2, <2>3, FlowStarts
  <2> QED
    BY <1>3, <2>1, <2>4
<1>6. answer.type # "action" /\ "initialize" \in {"initialize", "reconnect"}
  BY <1>3
<1> QED
  BY <1>3, <1>4, <1>5, <1>6, HandshakeKeepsLogged

\* A replay brings all that the client has missed, if the buffer goes back enough.
LEMMA MissedIsAll ==
  ASSUME TypeInv, NEW log \in Seq(Action), IsLog(log), NEW rs, NEW n \in 0 .. Len(log),
         CanReplay(n), NEW m, m = [type |-> "replay", actions |-> Missed(rs, n)]
  PROVE  /\ m \in Answer /\ Genuine(log, m) /\ Before(n, m)
         /\ \A x \in n + 1 .. Len(log) : log[x].resource \in rs => x \in Seqs(m)
<1> DEFINE b == server.buffer
           S == {e \in Envelope : e.seq > n /\ e.action.resource \in rs}
           w == Missed(rs, n)
           base == Len(log) - Len(b)
<1>1. b \in Seq(Envelope) /\ server.seq = Len(log) /\ Len(log) \in Nat /\ Len(b) \in Nat
  BY LenProperties DEF TypeInv, IsLog
<1>2. Len(b) <= Len(log) /\ \A i \in 1 .. Len(b) : b[i] = Nth(log, base + i)
  BY DEF IsLog
<1>3. w = Within(b, S)
  BY DEF Missed
<1> HIDE DEF b, S, w, base
<1>4. w \in Seq(Envelope)
  BY <1>1, <1>3, WithinType
<1>5. PICK place : Picks(place, w, b, S)
  BY <1>1, <1>3, WithinPicks
<1>6. base \in Nat /\ base + Len(b) = Len(log)
  BY <1>1, <1>2 DEF base
<1>7. ASSUME NEW i \in 1 .. Len(b)
      PROVE  b[i].seq = base + i /\ b[i] = Nth(log, b[i].seq) /\ base + i \in 1 .. Len(log)
  <2>1. b[i] = Nth(log, base + i)
    BY <1>2
  <2>2. base + i \in 1 .. Len(log)
    BY <1>1, <1>6
  <2>3. b[i].seq = base + i
    BY <2>1 DEF Nth
  <2> QED
    BY <2>1, <2>2, <2>3
<1>8. /\ place \in [1 .. Len(w) -> 1 .. Len(b)]
      /\ \A i \in 1 .. Len(w) : w[i] = b[place[i]] /\ w[i] \in S
      /\ \A i, j \in 1 .. Len(w) : i < j => place[i] < place[j]
      /\ \A i \in 1 .. Len(b) : b[i] \in S => \E j \in 1 .. Len(w) : place[j] = i
  BY <1>5 DEF Picks
<1>9. ASSUME NEW i \in 1 .. Len(w)
      PROVE  IsNth(log, w[i]) /\ w[i].seq = base + place[i] /\ n < w[i].seq
  <2>1. place[i] \in 1 .. Len(b) /\ w[i] = b[place[i]] /\ w[i] \in S
    BY <1>8
  <2>2. w[i].seq = base + place[i] /\ w[i] = Nth(log, w[i].seq) /\ w[i].seq \in 1 .. Len(log)
    BY <1>7, <2>1
  <2> QED
    BY <2>1, <2>2 DEF IsNth, S
<1>10. ASSUME NEW i \in 1 .. Len(w), NEW j \in 1 .. Len(w), i < j
       PROVE  w[i].seq < w[j].seq
  <2>1. place[i] < place[j] /\ place[i] \in 1 .. Len(b) /\ place[j] \in 1 .. Len(b)
    BY <1>8, <1>10
  <2> QED
    BY <1>6, <1>9, <2>1, SMTT(30)
<1>11. /\ m \in Answer /\ m.type = "replay" /\ m.actions = w
  BY <1>4 DEF Answer, w
<1>12. Seqs(m) = {w[i].seq : i \in 1 .. Len(w)}
  BY <1>11, AnswerIs
<1>13. Genuine(log, m)
  BY <1>9, <1>10, <1>11 DEF Genuine
<1>14. Before(n, m)
  BY <1>9, <1>11, <1>12 DEF Before
<1>15. ASSUME NEW x \in n + 1 .. Len(log), log[x].resource \in rs
       PROVE  x \in Seqs(m)
  <2>1. b # <<>>
    <3>1. CASE b = <<>>
      BY <1>1, <3>1 DEF CanReplay, OldestBuffered, b
    <3> QED
      BY <3>1
  <2>2. Head(b) = b[1] /\ 1 \in 1 .. Len(b)
    BY <1>1, <2>1, HeadTailProperties, EmptySeq
  <2>3. n >= base + 1
    BY <1>7, <2>1, <2>2 DEF CanReplay, OldestBuffered, b
  <2> DEFINE i == x - base
  <2>4. i \in 1 .. Len(b) /\ base + i = x
    BY <1>1, <1>6, <2>3
  <2> HIDE DEF i
  <2>5. b[i] \in Envelope /\ b[i].seq = x /\ b[i].action = log[x]
    <3>1. b[i] \in Envelope
      BY <1>1, <2>4, ElementOfSeq
    <3>2. b[i].seq = x /\ b[i] = Nth(log, x)
      BY <1>7, <2>4
    <3> QED
      BY <3>1, <3>2 DEF Nth
  <2>6. b[i] \in S
    BY <1>15, <2>5 DEF S
  <2>7. PICK j \in 1 .. Len(w) : place[j] = i
    BY <1>8, <2>4, <2>6
  <2>8. w[j].seq = x
    BY <1>9, <2>4, <2>7
  <2> QED
    BY <1>12, <2>8
<1> QED
  BY <1>11, <1>13, <1>14, <1>15

LEMMA ReconnectKeepsLogged ==
  ASSUME SyncAssumption, ~ Burst, TypeInv, RegistrationInv, QuietInv,
         NEW log \in Seq(Action), LoggedInv(log), NEW k \in Conn, HandleReconnect(k)
  PROVE  LoggedInv(log)'
<1> DEFINE m == Head(up[k])
           replay == [type |-> "replay", actions |-> Missed(m.subs, m.lastSeen)]
           answer == IF CanReplay(m.lastSeen) THEN replay ELSE Snapshots(m.subs)
<1>1. m \in Message /\ m.type = "reconnect" /\ m = up[k][1]
  BY TakesIs DEF HandleReconnect
<1>2. m.subs \in SUBSET Resource /\ m.lastSeen \in Nat /\ IsLog(log)
  BY <1>1, MessageIs DEF LoggedInv
<1>3. /\ Takes(k, "reconnect")
      /\ server' = [server EXCEPT !.clients[m.client] = k]
      /\ conns' = [conns EXCEPT ![k].client = m.client, ![k].subs = m.subs]
      /\ down' = Answered(k, <<answer>>)
      /\ UNCHANGED <<line, clients, views>>
  BY DEF HandleReconnect
<1>4. answer \in Answer /\ answer.type # "action"
  <2>1. Snapshots(m.subs) \in Answer /\ Snapshots(m.subs).type = "snapshots"
    BY <1>2, SnapshotsAreGenuine
  <2>2. replay \in Answer
    <3>1. server.buffer \in Seq(Envelope)
      BY DEF TypeInv
    <3>2. Missed(m.subs, m.lastSeen) \in Seq(Envelope)
      BY <3>1, WithinType DEF Missed
    <3> QED
      BY <3>2 DEF Answer
  <2> QED
    BY <2>1, <2>2
<1>5. ASSUME NEW c \in ClientId, Waiting(c, views[c], up[k])
      PROVE  /\ Flow(log, views[c], <<answer>>)
             /\ DOMAIN views[c].confirmed \cup Snap(answer) \subseteq m.subs
  <2>1. DOMAIN views[c].confirmed = m.subs /\ m.lastSeen = views[c].lastSeen
    BY <1>1, <1>5 DEF Waiting
  <2>2. views[c].lastSeen \in 0 .. Len(log) /\ m.lastSeen \in 0 .. Len(log)
    BY <2>1 DEF LoggedInv, Seen
  <2>3. CASE CanReplay(m.lastSeen)
    <3>1. answer = replay
      BY <2>3
    <3>2. /\ replay \in Answer /\ Genuine(log, replay) /\ Before(m.lastSeen, replay)
          /\ \A x \in m.lastSeen + 1 .. Len(log) :
               log[x].resource \in m.subs => x \in Seqs(replay)
      BY <1>2, <2>2, <2>3, MissedIsAll
    <3>3. replay.type = "replay"
      OBVIOUS
    <3> HIDE DEF replay, answer, m
    <3>4. Flow(log, views[c], <<replay>>)
      BY <2>1, <3>2, <3>3, FlowStarts
    <3>5. Snap(replay) = {}
      BY <3>3 DEF Snap
    <3> QED
      BY <2>1, <3>1, <3>4, <3>5
  <2>4. CASE ~ CanReplay(m.lastSeen)
    <3> DEFINE s == Snapshots(m.subs)
    <3>1. answer = s
      BY <2>4
    <3>2. /\ s \in Answer /\ Snap(s) = m.subs /\ s.fromSeq = Len(log) /\ Genuine(log, s)
          /\ Before(views[c].lastSeen, s)
      BY <1>2, <2>2, SnapshotsAreGenuine
    <3> HIDE DEF s, answer, m
    <3>3. Flow(log, views[c], <<s>>)
      BY <2>1, <3>2, FlowStarts
    <3> QED
      BY <2>1, <3>1, <3>2, <3>3
  <2> QED
    BY <2>3, <2>4
<1> HIDE DEF answer
<1>6. "reconnect" \in {"initialize", "reconnect"}
  OBVIOUS
<1> QED
  BY <1>3, <1>4, <1>5, <1>6, HandshakeKeepsLogged

\* The clients of connections that the server knows are ready before they ask.
LEMMA AskingIsReady ==
  ASSUME NEW log, NEW c, NEW x, NEW v, NEW q, q # <<>>, NEW d, NEW ms, d.client # Absent,
         Linked(log, c, x, v, q, d, ms)
  PROVE  /\ x.ready /\ Orderly(q, d.jobs, ms, x.asked, DOMAIN v.confirmed)
         /\ Flow(log, v, ms) /\ DOMAIN v.confirmed \cup Coming(ms) \subseteq d.subs
BY DEF Linked, Answering

LEMMA SubscribeKeepsLogged ==
  ASSUME SyncAssumption, ~ Burst, TypeInv, RegistrationInv, QuietInv,
         NEW log \in Seq(Action), LoggedInv(log), NEW k \in Conn, HandleSubscribe(k)
  PROVE  LoggedInv(log)'
<1>1. /\ up' = [up EXCEPT ![k] = Tail(@)]
      /\ up[k] # <<>> /\ up[k] \in Seq(Message) /\ Head(up[k]) \in Message
      /\ Head(up[k]).type = "subscribe" /\ \A j \in Conn : conns[j].jobs = <<>>
  BY TakesIs DEF HandleSubscribe
<1>2. conns[k].client # Absent /\ k # Absent
  BY TakesFresh DEF QuietInv, HandleSubscribe, SyncAssumption
<1> DEFINE r == Head(up[k]).resource
           job == Snapshots({r})
<1>3. {r} \in SUBSET Resource /\ IsLog(log)
  BY <1>1, MessageIs DEF LoggedInv
<1>4. Snap(job) = {r}
  BY <1>3, SnapshotsAreGenuine
<1>5. /\ conns' = [conns EXCEPT ![k].jobs = Append(@, job)]
      /\ UNCHANGED <<server, line, down, clients, views>>
  BY DEF HandleSubscribe
<1>6. Append(<<>>, job) = <<job>>
  OBVIOUS
<1> HIDE DEF job
<1>7. /\ conns'[k].client = conns[k].client /\ conns'[k].subs = conns[k].subs
      /\ conns'[k].jobs = <<job>>
      /\ \A j \in Conn : j # k => conns'[j] = conns[j]
  <2>1. conns[k].jobs = <<>> /\ Append(conns[k].jobs, job) = <<job>>
    BY <1>1, <1>6
  <2>2. conns \in [Conn -> Connection]
    BY DEF TypeInv
  <2>3. conns' = [conns EXCEPT ![k].jobs = <<job>>]
    BY ONLY <1>5, <2>1, <2>2
  <2>4. conns[k] \in Connection
    BY <2>2
  <2> QED
    BY ONLY <2>2, <2>3, <2>4 DEF Connection
<1>8. up'[k] = Tail(up[k]) /\ \A j \in Conn : j # k => up'[j] = up[j]
  BY <1>1 DEF TypeInv
<1>9. ASSUME NEW c \in ClientId, clients[c].conn = k
      PROVE  LinkedTo(log, c)'
  <2> DEFINE x == clients[c]
             v == views[c]
             ms == down[k]
             q == up[k]
             held == DOMAIN v.confirmed
  <2>1. Linked(log, c, x, v, q, conns[k], ms)
    BY <1>2, <1>9 DEF LoggedInv, LinkedInv, LinkedTo
  <2>2. /\ x.ready /\ Orderly(q, <<>>, ms, x.asked, held)
        /\ Flow(log, v, ms) /\ held \cup Coming(ms) \subseteq conns[k].subs
    <3> DEFINE d == conns[k]
    <3>1. d.jobs = <<>>
      BY <1>1
    <3>2. /\ x.ready /\ Orderly(q, d.jobs, ms, x.asked, held)
          /\ Flow(log, v, ms) /\ held \cup Coming(ms) \subseteq d.subs
      BY <1>1, <1>2, <2>1, AskingIsReady
    <3> HIDE DEF d, q, ms, held, x, v
    <3>3. Orderly(q, <<>>, ms, x.asked, held)
      BY <3>1, <3>2
    <3> QED
      BY <3>2, <3>3 DEF d
  <2> HIDE DEF q, ms, held
  <2>3. Orderly(Tail(q), <<job>>, ms, x.asked, held)
    BY <1>1, <1>4, <2>2, OrderlyJob DEF q
  <2>4. Linked(log, c, x, v, up'[k], conns'[k], down[k])
    BY <1>2, <1>7, <1>8, <2>2, <2>3 DEF Linked, q, ms, held
  <2> QED
    BY <1>2, <1>5, <1>9, <2>4 DEF LinkedTo
<1>10. LinkedInv(log)'
  BY <1>5, <1>7, <1>8, <1>9, ServerKeepsOthers DEF LoggedInv
<1>11. IsLog(log)' /\ \A c \in ClientId : Seen(log, views'[c])
  BY <1>5, SameLog DEF LoggedInv
<1> QED
  BY <1>10, <1>11 DEF LoggedInv

LEMMA FinishKeepsLogged ==
  ASSUME SyncAssumption, ~ Burst, TypeInv, RegistrationInv, QuietInv,
         NEW log \in Seq(Action), LoggedInv(log), NEW k \in Conn, FinishSubscribes(k)
  PROVE  LoggedInv(log)'
<1> DEFINE more == UNION {DOMAIN x.states : x \in ToSet(conns[k].jobs)}
<1>1. /\ conns[k].jobs # <<>>
      /\ conns' = [conns EXCEPT ![k].subs = @ \cup more, ![k].jobs = <<>>]
      /\ down' = Answered(k, conns[k].jobs)
      /\ UNCHANGED <<server, line, up, clients, views>>
  BY DEF FinishSubscribes
<1>2. PICK r \in Resource : conns[k].jobs = <<Snapshots({r})>>
  BY <1>1 DEF QuietInv, JobsAreCurrent
<1> DEFINE job == Snapshots({r})
<1>3. /\ job \in Answer /\ job.type = "snapshots" /\ Snap(job) = {r} /\ Seqs(job) = {}
      /\ job.fromSeq = Len(log) /\ Genuine(log, job)
      /\ \A n \in 0 .. Len(log) : Before(n, job)
  <2>1. {r} \in SUBSET Resource /\ IsLog(log)
    BY DEF LoggedInv
  <2> QED
    BY <2>1, SnapshotsAreGenuine
<1> HIDE DEF job, more
<1>4. more = {r}
  <2>1. ToSet(<<job>>) = {job}
    <3>1. Len(<<job>>) = 1 /\ <<job>>[1] = job
      OBVIOUS
    <3> QED
      BY <3>1 DEF ToSet
  <2>2. ToSet(conns[k].jobs) = {job}
    BY <1>2, <2>1 DEF job
  <2> QED
    BY <1>3, <2>2 DEF more, Snap
<1>5. /\ conns'[k].client = conns[k].client /\ conns'[k].subs = conns[k].subs \cup {r}
      /\ conns'[k].jobs = <<>>
      /\ \A j \in Conn : j # k => conns'[j] = conns[j]
  BY <1>1, <1>4 DEF TypeInv, Connection
<1>6. conns[k].client # Absent /\ k # Absent
  BY <1>1 DEF QuietInv, FreshConns, SyncAssumption
<1>7. \A j \in Conn : j # k => down'[j] = down[j] /\ up'[j] = up[j]
  BY <1>1, AnsweredIs
<1>8. ASSUME NEW c \in ClientId, clients[c].conn = k
      PROVE  LinkedTo(log, c)'
  <2> DEFINE x == clients[c]
             v == views[c]
             ms == down[k]
             q == up[k]
             d == conns[k]
             t == Append(ms, job)
             held == DOMAIN v.confirmed
  <2>1. Linked(log, c, x, v, q, d, ms) /\ Seen(log, v)
    BY <1>6, <1>8 DEF LoggedInv, LinkedInv, LinkedTo
  <2>2. d.jobs = <<job>> /\ d.jobs # <<>>
    BY <1>1, <1>2 DEF job
  <2>3. /\ x.ready /\ Orderly(q, <<job>>, ms, x.asked, held)
        /\ Flow(log, v, ms) /\ held \cup Coming(ms) \subseteq d.subs
    BY <1>6, <2>1, <2>2 DEF Linked, Answering
  <2>4. /\ ms \in Seq(Answer) /\ q \in Seq(Message) /\ v \in RebasedViews
    BY DEF TypeInv
  <2>5. down'[k] = t
    <3>1. line[k] = "open"
      BY <1>6, <1>8 DEF RegistrationInv, ConnsAreOwned
    <3>2. down'[k] = ms \o <<job>>
      BY <1>1, <2>2, <3>1, AnsweredIs
    <3>3. ms \o <<job>> = Append(ms, job)
      BY <1>3, <2>4, ConcatOne
    <3> QED
      BY <3>2, <3>3
  <2> HIDE DEF q, ms, held, d, t, x, v
  <2>6. Orderly(q, <<>>, t, x.asked, held)
    BY <1>3, <2>3, <2>4, OrderlyAnswer DEF t
  <2>7. Flow(log, v, t)
    <3>1. /\ Len(log) \in Nat /\ Len(log) \in {Len(log), Len(log) + 1}
          /\ Len(log) # Len(log) + 1
          /\ \A i \in 1 .. Len(ms) : Genuine(log, ms[i])
      BY <2>3, LenProperties DEF Flow
    <3> QED
      BY <1>3, <2>1, <2>3, <2>4, <3>1, FlowWith DEF t
  <2>8. Coming(t) = Coming(ms) \cup {r}
    BY ONLY <1>3, <2>4, ComingAppend DEF t
  <2>9. held \cup Coming(t) \subseteq conns'[k].subs
    BY <1>5, <2>3, <2>8 DEF d
  <2>10. Linked(log, c, x, v, q, conns'[k], t)
    BY <1>5, <1>6, <2>3, <2>6, <2>7, <2>9 DEF Linked, held
  <2> QED
    BY <1>1, <1>8, <2>5, <2>10 DEF LinkedTo, x, v, q
<1>9. LinkedInv(log)'
  BY <1>1, <1>5, <1>7, <1>8, ServerKeepsOthers DEF LoggedInv
<1>10. IsLog(log)' /\ \A c \in ClientId : Seen(log, views'[c])
  BY <1>1, SameLog DEF LoggedInv
<1> QED
  BY <1>9, <1>10 DEF LoggedInv

LEMMA UnsubscribeKeepsLogged ==
  ASSUME SyncAssumption, ~ Burst, TypeInv, RegistrationInv, QuietInv,
         NEW log \in Seq(Action), LoggedInv(log), NEW k \in Conn, HandleUnsubscribe(k)
  PROVE  LoggedInv(log)'
<1>1. /\ up' = [up EXCEPT ![k] = Tail(@)]
      /\ up[k] # <<>> /\ up[k] \in Seq(Message) /\ Head(up[k]).type = "unsubscribe"
  BY TakesIs DEF HandleUnsubscribe
<1>2. conns[k].client # Absent /\ k # Absent
  BY TakesFresh DEF QuietInv, HandleUnsubscribe, SyncAssumption
<1> DEFINE r == Head(up[k]).resource
           less == {r}
<1>3. /\ conns' = [conns EXCEPT ![k].subs = @ \ less]
      /\ UNCHANGED <<server, line, down, clients, views>>
  BY DEF HandleUnsubscribe
<1> HIDE DEF less
<1>4. /\ conns'[k].client = conns[k].client /\ conns'[k].subs = conns[k].subs \ less
      /\ conns'[k].jobs = conns[k].jobs
      /\ \A j \in Conn : j # k => conns'[j] = conns[j]
  BY <1>3 DEF TypeInv, Connection
<1>5. up'[k] = Tail(up[k]) /\ \A j \in Conn : j # k => up'[j] = up[j]
  BY <1>1 DEF TypeInv
<1>6. ASSUME NEW c \in ClientId, clients[c].conn = k
      PROVE  LinkedTo(log, c)'
  <2> DEFINE x == clients[c]
             v == views[c]
             ms == down[k]
             q == up[k]
             d == conns[k]
             held == DOMAIN v.confirmed
  <2>1. Linked(log, c, x, v, q, d, ms)
    BY <1>2, <1>6 DEF LoggedInv, LinkedInv, LinkedTo
  <2>2. /\ x.ready /\ Orderly(q, d.jobs, ms, x.asked, held)
        /\ Flow(log, v, ms) /\ held \cup Coming(ms) \subseteq d.subs
    BY <1>1, <1>2, <2>1, AskingIsReady
  <2> HIDE DEF q, ms, held, d, x, v
  <2>3. Orderly(Tail(q), d.jobs, ms, x.asked, held) /\ Head(q).resource \notin held \cup Coming(ms)
    BY <1>1, <2>2, OrderlyTake DEF q
  <2>4. held \cup Coming(ms) \subseteq conns'[k].subs
    BY <1>4, <2>2, <2>3 DEF less, q, d
  <2>5. Linked(log, c, x, v, up'[k], conns'[k], ms)
    BY <1>2, <1>4, <1>5, <2>2, <2>3, <2>4 DEF Linked, q, d, held
  <2> QED
    BY <1>3, <1>6, <2>5 DEF LinkedTo, x, v, ms
<1>7. LinkedInv(log)'
  BY <1>3, <1>4, <1>5, <1>6, ServerKeepsOthers DEF LoggedInv
<1>8. IsLog(log)' /\ \A c \in ClientId : Seen(log, views'[c])
  BY <1>3, SameLog DEF LoggedInv
<1> QED
  BY <1>7, <1>8 DEF LoggedInv

-----------------------------------------------------------------------------
(* The host applies an action *)

LEMMA LogGrows ==
  ASSUME SyncAssumption, TypeInv, NEW log \in Seq(Action), IsLog(log), NEW a \in Action,
         ApplyAndEmit(a)
  PROVE  IsLog(Append(log, a))'
<1> DEFINE t == Append(log, a)
           e == [seq |-> server.seq + 1, action |-> a]
           b == server.buffer
           w == Append(b, e)
<1>1. /\ e \in Envelope /\ server'.seq = server.seq + 1
      /\ server'.states = [server.states EXCEPT ![a.resource] = Append(@, a)]
      /\ server'.buffer = Buffered(e)
  BY ApplyAndEmitIs
<1>2. /\ server.seq = Len(log) /\ Len(log) \in Nat /\ Len(b) \in Nat /\ b \in Seq(Envelope)
      /\ server.states \in [Resource -> State]
      /\ \A r \in Resource : server.states[r] = At(log, r, Len(log))
      /\ Len(b) <= Len(log)
      /\ \A i \in 1 .. Len(b) : b[i] = Nth(log, Len(log) - Len(b) + i)
  BY LenProperties DEF IsLog, TypeInv
<1>3. /\ t \in Seq(Action) /\ Len(t) = Len(log) + 1
      /\ \A n \in 1 .. Len(log) : Nth(t, n) = Nth(log, n)
      /\ Nth(t, Len(log) + 1) = e /\ t[Len(log) + 1] = a
  BY <1>2, NthAppend, AppendProperties
<1>4. Buffered(e) = IF Len(w) > Capacity THEN Tail(w) ELSE w
  BY DEF Buffered
<1>5. /\ w \in Seq(Envelope) /\ Len(w) = Len(b) + 1 /\ w[Len(b) + 1] = e
      /\ \A i \in 1 .. Len(b) : w[i] = b[i]
      /\ w # <<>>
  BY <1>1, <1>2, AppendProperties
<1> HIDE DEF t, e, b
<1>6. \A i \in 1 .. Len(w) : w[i] = Nth(t, Len(t) - Len(w) + i)
  <2> SUFFICES ASSUME NEW i \in 1 .. Len(w)
               PROVE  w[i] = Nth(t, Len(t) - Len(w) + i)
    OBVIOUS
  <2>1. CASE i = Len(b) + 1
    <3>1. Len(t) - Len(w) + i = Len(log) + 1
      BY <1>2, <1>3, <1>5, <2>1
    <3> QED
      BY <1>3, <1>5, <2>1, <3>1
  <2>2. CASE i # Len(b) + 1
    <3>1. i \in 1 .. Len(b) /\ Len(t) - Len(w) + i = Len(log) - Len(b) + i
          /\ Len(log) - Len(b) + i \in 1 .. Len(log)
      BY <1>2, <1>3, <1>5, <2>2
    <3> QED
      BY <1>2, <1>3, <1>5, <3>1
  <2> QED
    BY <2>1, <2>2
<1>7. /\ Len(server'.buffer) <= Len(t)
      /\ \A i \in 1 .. Len(server'.buffer) :
           server'.buffer[i] = Nth(t, Len(t) - Len(server'.buffer) + i)
  <2>1. CASE Len(w) > Capacity
    <3> DEFINE u == Tail(w)
    <3>1. server'.buffer = u
      BY <1>1, <1>4, <2>1
    <3>2. /\ Len(u) + 1 = Len(w) /\ Len(u) \in Nat /\ \A i \in 1 .. Len(u) : u[i] = w[i + 1]
      <4>1. u \in Seq(Envelope)
        BY <1>5, ComingTail
      <4> QED
        BY <1>5, <4>1, ComingTail, LenProperties
    <3> HIDE DEF u, w
    <3>3. ASSUME NEW i \in 1 .. Len(u)
          PROVE  u[i] = Nth(t, Len(t) - Len(u) + i)
      <4>1. i + 1 \in 1 .. Len(w) /\ Len(t) - Len(w) + (i + 1) = Len(t) - Len(u) + i
        <5>1. Len(t) \in Nat /\ Len(u) + 1 = Len(w) /\ Len(u) \in Nat
          BY <1>2, <1>3, <3>2
        <5> QED
          BY ONLY <5>1
      <4> QED
        BY <1>6, <3>2, <4>1
    <3> QED
      BY <1>2, <1>3, <1>5, <3>1, <3>2, <3>3
  <2>2. CASE ~ Len(w) > Capacity
    <3>1. server'.buffer = w
      BY <1>1, <1>4, <2>2
    <3>2. Len(w) <= Len(t)
      BY <1>2, <1>3, <1>5
    <3> HIDE DEF w
    <3>3. \A i \in 1 .. Len(w) : w[i] = Nth(t, Len(t) - Len(w) + i)
      BY <1>6
    <3> QED
      BY <3>1, <3>2, <3>3
  <2> QED
    BY <2>1, <2>2
<1>8. ASSUME NEW r \in Resource
      PROVE  server'.states[r] = At(t, r, Len(t))
  <2> DEFINE n == Len(log) + 1
  <2>1. n \in 1 .. Len(t) /\ n - 1 = Len(log) /\ Len(log) \in 0 .. Len(log) /\ n = Len(t)
        /\ t[n] = a
    BY <1>2, <1>3
  <2>2. At(t, r, Len(log)) = server.states[r]
    BY <1>2, <2>1, AtAppend DEF t
  <2> HIDE DEF n
  <2>3. At(t, r, n) = IF t[n].resource = r THEN Append(At(t, r, n - 1), t[n])
                      ELSE At(t, r, n - 1)
    BY <1>3, <2>1, AtNext
  <2> QED
    BY <1>1, <1>2, <2>1, <2>2, <2>3
<1>9. server'.seq = Len(t)
  BY <1>1, <1>2, <1>3
<1> QED
  BY <1>7, <1>8, <1>9 DEF IsLog, t

LEMMA EmitKeepsLink ==
  ASSUME SyncAssumption, TypeInv, RegistrationInv, QuietInv, NEW log \in Seq(Action),
         IsLog(log), NEW a \in Action, ApplyAndEmit(a),
         UNCHANGED <<conns, line, clients, views>>, NEW c \in ClientId,
         Seen(log, views[c]), NEW k \in Conn, clients[c].conn = k,
         up'[k] \in Seq(Message),
         Linked(log, c, clients[c], views[c], up'[k], conns[k], down[k])
  PROVE  LinkedTo(Append(log, a), c)'
<1> DEFINE e == [seq |-> server.seq + 1, action |-> a]
           m == [type |-> "action", envelope |-> e]
           t == Append(log, a)
           x == clients[c]
           v == views[c]
           q == up'[k]
           d == conns[k]
           ms == down[k]
<1>1. down'[k] = IF k \in Receivers(e) THEN Append(ms, m) ELSE ms
  BY ApplyAndEmitIs
<1>2. server.seq = Len(log) /\ v \in RebasedViews /\ ms \in Seq(Answer)
  BY DEF TypeInv, IsLog
<1>3. line[k] = "open" /\ k # Absent
  BY DEF RegistrationInv, ConnsAreOwned, SyncAssumption
<1>4. d.client # Absent => server.clients[c] = k
  BY <1>3 DEF QuietInv, OwnConns, RegistrationInv, StaleCloseIsHarmless, Joined
<1>5. e = [seq |-> Len(log) + 1, action |-> a] /\ e.action = a
      /\ m = [type |-> "action", envelope |-> e]
  BY <1>2
<1>6. CASE d.client # Absent /\ a.resource \in d.subs
  <2>1. k \in Receivers(e)
    BY <1>3, <1>4, <1>5, <1>6 DEF Receivers, IsRelevantToClient
  <2>2. down'[k] = Append(ms, m)
    BY <1>1, <2>1
  <2> HIDE DEF e, m, x, v, q, d, ms
  <2>3. Linked(t, c, x, v, q, d, Append(ms, m))
    BY <1>2, <1>5, <1>6, LinkedWith DEF q, x, v, d, ms
  <2> QED
    BY <2>2, <2>3 DEF LinkedTo, x, v, q, d
<1>7. CASE d.client = Absent \/ a.resource \notin d.subs
  <2>1. d.client = Absent => d.subs = {}
    BY DEF QuietInv, FreshConns
  <2>2. k \notin Receivers(e)
    BY <1>5, <1>7, <2>1 DEF Receivers, IsRelevantToClient
  <2>3. down'[k] = ms
    BY <1>1, <2>2
  <2> HIDE DEF e, m, x, v, q, d, ms
  <2>4. Linked(t, c, x, v, q, d, ms)
    BY <1>2, <1>7, LinkedWithout DEF q, x, v, d, ms
  <2> QED
    BY <2>3, <2>4 DEF LinkedTo, x, v, q, d, ms
<1> QED
  BY <1>6, <1>7

LEMMA EmitKeepsLogged ==
  ASSUME SyncAssumption, TypeInv, RegistrationInv, QuietInv, NEW log \in Seq(Action),
         LoggedInv(log), NEW a \in Action, ApplyAndEmit(a),
         UNCHANGED <<conns, line, clients, views>>,
         \A k \in Conn :
           \/ up'[k] = up[k]
           \/ up[k] # <<>> /\ Head(up[k]).type = "dispatchAction" /\ up'[k] = Tail(up[k])
  PROVE  LoggedInv(Append(log, a))'
<1>1. IsLog(log) /\ \A c \in ClientId : Seen(log, views[c]) /\ LinkedTo(log, c)
  BY DEF LoggedInv, LinkedInv
<1>2. IsLog(Append(log, a))'
  BY <1>1, LogGrows
<1>3. \A c \in ClientId : Seen(Append(log, a), views'[c])
  <2> TAKE c \in ClientId
  <2>1. views[c] \in RebasedViews /\ views'[c] = views[c]
    BY DEF TypeInv
  <2> QED
    BY <1>1, <2>1, SeenGrows
<1>4. ASSUME NEW c \in ClientId
      PROVE  LinkedTo(Append(log, a), c)'
  <2>1. CASE clients[c].conn = Absent
    BY <2>1 DEF LinkedTo
  <2>2. CASE clients[c].conn # Absent
    <3>1. PICK k \in Conn : clients[c].conn = k
      BY <2>2 DEF RegistrationInv, ConnsAreOwned
    <3>2. Linked(log, c, clients[c], views[c], up[k], conns[k], down[k])
      BY <1>1, <2>2, <3>1 DEF LinkedTo
    <3>3. up[k] \in Seq(Message)
      BY DEF TypeInv
    <3>4. /\ up'[k] \in Seq(Message)
          /\ Linked(log, c, clients[c], views[c], up'[k], conns[k], down[k])
      <4>1. CASE up'[k] = up[k]
        BY <3>2, <3>3, <4>1
      <4>2. CASE /\ up[k] # <<>> /\ Head(up[k]).type = "dispatchAction"
                 /\ up'[k] = Tail(up[k])
        <5> DEFINE q == up[k]
        <5>1. q \in Seq(Message) /\ q # <<>> /\ Head(q).type = "dispatchAction"
              /\ up'[k] = Tail(q)
          BY <3>3, <4>2
        <5>2. Linked(log, c, clients[c], views[c], q, conns[k], down[k])
          BY <3>2
        <5> HIDE DEF q
        <5>3. Tail(q) \in Seq(Message)
          BY <5>1, ComingTail
        <5> QED
          BY <5>1, <5>2, <5>3, LinkedTakes
      <4> QED
        BY <4>1, <4>2
    <3> QED
      BY <1>1, <3>1, <3>4, EmitKeepsLink
  <2> QED
    BY <2>1, <2>2
<1> QED
  BY <1>2, <1>3, <1>4 DEF LoggedInv, LinkedInv

-----------------------------------------------------------------------------
(* There is a log at every time *)

Logged == \E log \in Seq(Action) : LoggedInv(log)

LEMMA LoggedInit ==
  ASSUME SyncAssumption, Init
  PROVE  Logged
<1> DEFINE log == <<>>
<1>1. log \in Seq(Action) /\ Len(log) = 0
  OBVIOUS
<1> HIDE DEF log
<1>2. /\ server.seq = 0 /\ server.buffer = <<>> /\ Len(server.buffer) = 0
      /\ \A r \in Resource : server.states[r] = <<>>
      /\ \A c \in ClientId : /\ clients[c].conn = Absent /\ views[c].lastSeen = 0
                             /\ views[c].confirmed = <<>>
  BY DEF Init, NewClient, NewView
<1>3. IsLog(log)
  <2>1. \A r \in Resource : At(log, r, 0) = <<>>
    BY <1>1, AtZero
  <2> QED
    BY <1>1, <1>2, <2>1 DEF IsLog
<1>4. DOMAIN <<>> = {}
  OBVIOUS
<1>5. \A c \in ClientId : Seen(log, views[c])
  BY <1>1, <1>2, <1>4 DEF Seen
<1>6. LinkedInv(log)
  BY <1>2 DEF LinkedInv, LinkedTo
<1> QED
  BY <1>1, <1>3, <1>5, <1>6 DEF LoggedInv, Logged

LEMMA ServerKeepsLogged ==
  ASSUME SyncAssumption, ~ Burst, TypeInv, RegistrationInv, QuietInv,
         NEW log \in Seq(Action), LoggedInv(log), NEW k \in Conn, ServerStep(k)
  PROVE  LoggedInv(log)' \/ \E a \in Action : LoggedInv(Append(log, a))'
<1>1. CASE HandleInitialize(k)
  BY <1>1, InitializeKeepsLogged
<1>2. CASE HandleReconnect(k)
  BY <1>2, ReconnectKeepsLogged
<1>3. CASE HandleSubscribe(k)
  BY <1>3, SubscribeKeepsLogged
<1>4. CASE FinishSubscribes(k)
  BY <1>4, FinishKeepsLogged
<1>5. CASE HandleUnsubscribe(k)
  BY <1>5, UnsubscribeKeepsLogged
<1>6. CASE HandleDispatch(k)
  <2> USE <1>6
  <2>1. /\ up' = [up EXCEPT ![k] = Tail(@)]
        /\ up[k] # <<>> /\ Head(up[k]) \in Message
        /\ Head(up[k]).type = "dispatchAction"
    BY TakesIs DEF HandleDispatch
  <2>2. PICK a \in Action : a = Head(up[k]).action
    BY <2>1, MessageIs
  <2>3. ApplyAndEmit(a) /\ UNCHANGED <<conns, line, clients, views>>
    BY <2>2 DEF HandleDispatch
  <2>4. \A j \in Conn :
           \/ up'[j] = up[j]
           \/ up[j] # <<>> /\ Head(up[j]).type = "dispatchAction" /\ up'[j] = Tail(up[j])
    BY <2>1 DEF TypeInv
  <2> QED
    BY <2>3, <2>4, EmitKeepsLogged
<1>7. CASE HandleClose(k)
  <2> USE <1>7
  <2>1. UNCHANGED <<conns, up, down, clients, views>>
    BY DEF HandleClose
  <2>2. /\ server'.seq = server.seq /\ server'.states = server.states
        /\ server'.buffer = server.buffer
    BY DEF HandleClose, TypeInv
  <2>3. \A c \in ClientId : LinkedTo(log, c)'
    BY <2>1, LinkStays DEF LoggedInv, LinkedInv
  <2> QED
    BY <2>1, <2>2, <2>3, SameLog DEF LoggedInv, LinkedInv
<1> QED
  BY <1>1, <1>2, <1>3, <1>4, <1>5, <1>6, <1>7 DEF ServerStep

LEMMA NextKeepsLogged ==
  ASSUME SyncAssumption, ~ Burst, TypeInv, RegistrationInv, QuietInv, Logged, [Next]_vars
  PROVE  Logged'
<1>1. PICK log \in Seq(Action) : LoggedInv(log)
  BY DEF Logged
<1>2. \A a \in Action : Append(log, a) \in Seq(Action)
  OBVIOUS
<1>3. CASE \E c \in ClientId : ClientStep(c)
  <2>1. LoggedInv(log)'
    BY <1>1, <1>3, ClientKeepsLogged
  <2> QED
    BY <2>1 DEF Logged
<1>4. CASE \E k \in Conn : ServerStep(k)
  <2>1. LoggedInv(log)' \/ \E a \in Action : LoggedInv(Append(log, a))'
    BY <1>1, <1>4, ServerKeepsLogged
  <2> QED
    BY <1>2, <2>1 DEF Logged
<1>5. CASE \E r \in Resource : AgentAction(r)
  <2>1. PICK a \in Action : /\ ApplyAndEmit(a) /\ \A j \in Conn : conns[j].jobs = <<>>
                           /\ UNCHANGED <<conns, line, up, clients, views>>
    BY <1>5, AgentActionIs
  <2>2. LoggedInv(Append(log, a))'
    BY <1>1, <2>1, EmitKeepsLogged
  <2> QED
    BY <1>2, <2>2 DEF Logged
<1>6. CASE UNCHANGED vars
  <2>1. UNCHANGED <<server, conns, line, up, down, clients, views>>
    BY <1>6 DEF vars
  <2>2. \A c \in ClientId : LinkedTo(log, c)'
    BY <1>1, <2>1, LinkStays DEF LoggedInv, LinkedInv
  <2>3. LoggedInv(log)'
    BY <1>1, <2>1, <2>2, SameLog DEF LoggedInv, LinkedInv
  <2> QED
    BY <2>3 DEF Logged
<1> QED
  BY <1>3, <1>4, <1>5, <1>6 DEF Next

-----------------------------------------------------------------------------
(* What a client holds once it has taken all that is on its way *)

Delivers(after, v, q) ==
  /\ after \in [0 .. Len(q) -> RebasedViews]
  /\ after[0] = v
  /\ \A n \in 1 .. Len(q) : after[n] = Received(after[n - 1], q[n])

LEMMA DeliveredSteps ==
  ASSUME TypeInv, NEW c \in ClientId, clients[c].conn \in Conn
  PROVE  \E after : /\ Delivers(after, views[c], down[clients[c].conn])
                    /\ Delivered(c) = after[Len(down[clients[c].conn])]
<1> DEFINE v == views[c]
           q == down[clients[c].conn]
           N == Len(q)
           step == [n \in 1 .. N |-> [w \in RebasedViews |-> Received(w, q[n])]]
           Next1(f, n) == Received(f[n - 1], q[n])
           Runs(f) == f = [n \in 0 .. N |-> IF n = 0 THEN v ELSE Next1(f, n)]
<1>1. q \in Seq(Answer) /\ v \in RebasedViews
  BY DEF TypeInv
<1>2. N \in Nat /\ \A n \in 1 .. N : q[n] \in Answer
  BY <1>1, LenProperties, ElementOfSeq
<1> DEFINE d == Delivered(c)
           g == CHOOSE h : Runs(h)
<1>3. d = g[N]
  BY DEF Delivered
<1> SUFFICES \E after : Delivers(after, v, q) /\ d = after[N]
  OBVIOUS
<1> HIDE DEF d, v, q
<1>4. /\ \A n \in 1 .. N : step[n] \in [RebasedViews -> RebasedViews]
      /\ \A n \in 1 .. N : \A w \in RebasedViews : step[n][w] = Received(w, q[n])
  BY <1>2, ReceivedIsRebased
<1> HIDE DEF step, N
<1>5. PICK f : Follows(f, v, step, N, RebasedViews)
  <2>1. AreStepsOn(step, N, RebasedViews)
    BY <1>4 DEF AreStepsOn
  <2> QED
    BY <1>1, <1>2, <2>1, Steps
<1>6. ASSUME NEW n \in 1 .. N
      PROVE  f[n - 1] \in RebasedViews /\ f[n] = Received(f[n - 1], q[n])
  <2>1. n - 1 \in 0 .. N
    BY <1>2
  <2>2. f[n - 1] \in RebasedViews /\ f[n] = step[n][f[n - 1]]
    BY <1>5, <2>1 DEF Follows
  <2> QED
    BY <1>4, <2>2
<1>7. Runs(f)
  <2>1. f = [n \in 0 .. N |-> f[n]]
    BY <1>5 DEF Follows
  <2>2. \A n \in 0 .. N : f[n] = IF n = 0 THEN v ELSE Next1(f, n)
    <3>1. \A n \in 0 .. N : n = 0 \/ n \in 1 .. N
      BY <1>2
    <3>2. \A n \in 1 .. N : n # 0
      BY <1>2
    <3>3. f[0] = v
      BY <1>5 DEF Follows
    <3> HIDE DEF Next1
    <3>4. \A n \in 1 .. N : f[n] = Next1(f, n)
      BY <1>6 DEF Next1
    <3> QED
      BY <3>1, <3>2, <3>3, <3>4
  <2> HIDE DEF Next1
  <2> QED
    BY <2>1, <2>2
<1>8. Runs(g)
  <2> HIDE DEF Runs
  <2> QED
    BY <1>7
<1> HIDE DEF g
<1>9. g[0] = v /\ \A n \in 1 .. N : g[n] = Next1(g, n)
  <2>1. \A n \in 0 .. N : g[n] = IF n = 0 THEN v ELSE Next1(g, n)
    BY <1>8
  <2> HIDE DEF Next1
  <2>2. 0 \in 0 .. N /\ \A n \in 1 .. N : n \in 0 .. N /\ n # 0
    BY <1>2
  <2> QED
    BY <2>1, <2>2
<1> DEFINE T == {n \in 0 .. N : g[n] \in RebasedViews}
<1>10. \A n \in 0 .. N : n \in T
  <2>1. 0 \in T
    BY <1>1, <1>2, <1>9
  <2>2. ASSUME NEW n \in 0 .. N - 1, n \in T
        PROVE  n + 1 \in T
    <3>1. n + 1 \in 1 .. N /\ n + 1 \in 0 .. N /\ g[n] \in RebasedViews /\ n + 1 - 1 = n
      BY <1>2, <2>2
    <3>2. g[n + 1] = Received(g[n], q[n + 1])
      BY <1>9, <3>1
    <3>3. q[n + 1] \in Answer
      BY <1>2, <3>1
    <3> QED
      BY <3>1, <3>2, <3>3, ReceivedIsRebased
  <2> HIDE DEF T
  <2>3. \A n \in 0 .. N - 1 : n \in T => n + 1 \in T
    BY <2>2
  <2> QED
    BY <1>2, <2>1, <2>3, UpTo
<1>11. g \in [0 .. N -> RebasedViews]
  <2>1. g = [n \in 0 .. N |-> IF n = 0 THEN v ELSE Next1(g, n)]
    BY <1>8
  <2> QED
    BY <1>10, <2>1
<1> QED
  BY <1>3, <1>9, <1>11 DEF N, Delivers

\* The messages after the first n.
Rest(q, n) == SubSeq(q, n + 1, Len(q))

LEMMA RestIs ==
  ASSUME NEW S, NEW q \in Seq(S), NEW n \in 0 .. Len(q) - 1
  PROVE  /\ Rest(q, n) \in Seq(S) /\ Rest(q, n) # <<>>
         /\ Head(Rest(q, n)) = q[n + 1]
         /\ Tail(Rest(q, n)) = Rest(q, n + 1)
<1> DEFINE s == Rest(q, n)
           t == Rest(q, n + 1)
           u == Tail(s)
<1>1. Len(q) \in Nat /\ \A i \in 1 .. Len(q) : q[i] \in S
  BY LenProperties, ElementOfSeq
<1>2. n + 1 \in 1 .. Len(q)
  BY <1>1
<1>3. /\ s \in Seq(S) /\ Len(s) = Len(q) - n /\ \A i \in 1 .. Len(q) - n : s[i] = q[n + i]
  <2>1. /\ n + 1 \in Int /\ Len(q) \in Int
        /\ \A i \in n + 1 .. Len(q) : q[i] \in S
    BY <1>1
  <2>2. /\ SubSeq(q, n + 1, Len(q)) \in Seq(S)
        /\ Len(SubSeq(q, n + 1, Len(q))) = IF n + 1 <= Len(q) THEN Len(q) - (n + 1) + 1 ELSE 0
        /\ \A i \in 1 .. Len(q) - (n + 1) + 1 :
             SubSeq(q, n + 1, Len(q))[i] = q[n + 1 + i - 1]
    BY <2>1, SubSeqProperties
  <2> HIDE DEF s
  <2>3. s = SubSeq(q, n + 1, Len(q))
    BY DEF s, Rest
  <2> QED
    BY <1>1, <1>2, <2>2, <2>3
<1>4. /\ t \in Seq(S) /\ Len(t) = Len(q) - n - 1
      /\ \A i \in 1 .. Len(q) - n - 1 : t[i] = q[n + 1 + i]
  <2>1. /\ n + 1 + 1 \in Int /\ Len(q) \in Int
        /\ \A i \in n + 1 + 1 .. Len(q) : q[i] \in S
    BY <1>1
  <2>2. /\ SubSeq(q, n + 1 + 1, Len(q)) \in Seq(S)
        /\ Len(SubSeq(q, n + 1 + 1, Len(q)))
             = IF n + 1 + 1 <= Len(q) THEN Len(q) - (n + 1 + 1) + 1 ELSE 0
        /\ \A i \in 1 .. Len(q) - (n + 1 + 1) + 1 :
             SubSeq(q, n + 1 + 1, Len(q))[i] = q[n + 1 + 1 + i - 1]
    BY <2>1, SubSeqProperties
  <2> HIDE DEF t
  <2>3. t = SubSeq(q, n + 1 + 1, Len(q))
    BY DEF t, Rest
  <2> QED
    BY <1>1, <1>2, <2>2, <2>3
<1> HIDE DEF s, t
<1>5. s # <<>>
  <2>1. Len(s) # 0
    BY <1>1, <1>3
  <2> QED
    BY <2>1
<1>6. /\ Head(s) = s[1] /\ u \in Seq(S) /\ Len(u) + 1 = Len(s)
      /\ \A i \in 1 .. Len(u) : u[i] = s[i + 1]
  BY <1>3, <1>5, ComingTail
<1> HIDE DEF u
<1>7. u = t
  <2>1. Len(u) = Len(q) - n - 1
    <3>1. Len(u) \in Nat
      BY <1>6, LenProperties
    <3>2. Len(u) + 1 = Len(s) /\ Len(s) = Len(q) - n
      BY <1>3, <1>6
    <3>3. Len(q) \in Nat /\ n \in Nat
      BY <1>1
    <3> QED
      BY ONLY <3>1, <3>2, <3>3
  <2>2. \A i \in 1 .. Len(t) : u[i] = t[i]
    <3> TAKE i \in 1 .. Len(t)
    <3>1. i + 1 \in 1 .. Len(q) - n /\ i \in 1 .. Len(u) /\ n + (i + 1) = n + 1 + i
      BY <1>1, <1>4, <2>1
    <3> QED
      BY <1>3, <1>4, <1>6, <2>1, <3>1
  <2> QED
    BY <1>4, <1>6, <2>1, <2>2, SeqEqual
<1>8. Head(s) = q[n + 1]
  BY <1>1, <1>3, <1>6
<1> QED
  BY <1>3, <1>5, <1>7, <1>8 DEF s, t, u

LEMMA RestEnds ==
  ASSUME NEW S, NEW q \in Seq(S)
  PROVE  Rest(q, 0) = q /\ Rest(q, Len(q)) = <<>>
<1>1. Len(q) \in Nat
  BY LenProperties
<1>2. SubSeq(q, 1, Len(q)) = q
  BY SubSeqFull
<1>3. SubSeq(q, Len(q) + 1, Len(q)) = <<>>
  BY <1>1, SubSeqEmpty
<1>4. 0 + 1 = 1
  OBVIOUS
<1> QED
  BY <1>2, <1>3, <1>4 DEF Rest

\* A flow leads to the state of the log.
LEMMA FlowEnds ==
  ASSUME NEW log \in Seq(Action), NEW v \in RebasedViews, NEW q \in Seq(Answer),
         Seen(log, v), Flow(log, v, q), NEW after, Delivers(after, v, q)
  PROVE  /\ DOMAIN after[Len(q)].confirmed = DOMAIN v.confirmed \cup Coming(q)
         /\ \A r \in DOMAIN after[Len(q)].confirmed :
              r \in Resource /\ after[Len(q)].confirmed[r] = At(log, r, Len(log))
<1> DEFINE N == Len(q)
           held == DOMAIN v.confirmed \cup Coming(q)
           InFlow(w, n) ==
             /\ w \in RebasedViews /\ Seen(log, w) /\ Flow(log, w, Rest(q, n))
             /\ DOMAIN w.confirmed \cup Coming(Rest(q, n)) = held
           T == {n \in 0 .. N : InFlow(after[n], n)}
<1>1. N \in Nat
  BY LenProperties
<1> HIDE DEF held
<1>2. 0 \in T
  BY <1>1, RestEnds DEF Delivers, held
<1>3. ASSUME NEW n \in 0 .. N - 1, n \in T
      PROVE  n + 1 \in T
  <2> DEFINE w == after[n]
             s == Rest(q, n)
             x == after[n + 1]
             t == Rest(q, n + 1)
  <2>1. n + 1 \in 1 .. N /\ n + 1 \in 0 .. N /\ n + 1 - 1 = n
    BY <1>1
  <2>2. s \in Seq(Answer) /\ s # <<>> /\ Head(s) = q[n + 1] /\ Tail(s) = t
    BY RestIs
  <2>3. x = Received(w, q[n + 1])
    BY <2>1 DEF Delivers
  <2>4. /\ w \in RebasedViews /\ Seen(log, w) /\ Flow(log, w, s)
        /\ DOMAIN w.confirmed \cup Coming(s) = held
    BY <1>3
  <2> SUFFICES InFlow(x, n + 1)
    BY <2>1
  <2> HIDE DEF w, s, x, N
  <2>5. /\ x \in RebasedViews /\ Seen(log, x) /\ Flow(log, x, t)
        /\ DOMAIN x.confirmed = DOMAIN w.confirmed \cup Snap(Head(s))
    BY <2>2, <2>3, <2>4, ReceiveKeepsFlow
  <2>6. Coming(s) = Snap(Head(s)) \cup Coming(t)
    BY <2>2, ComingTail
  <2> QED
    BY <2>4, <2>5, <2>6
<1>4. N \in T
  <2> HIDE DEF T
  <2>1. \A n \in 0 .. N - 1 : n \in T => n + 1 \in T
    BY <1>3
  <2> HIDE DEF N
  <2>2. \A n \in 0 .. N : n \in T
    BY <1>1, <1>2, <2>1, UpTo
  <2> QED
    BY <1>1, <2>2
<1> DEFINE w == after[N]
           none == <<>>
<1>5. /\ w \in RebasedViews /\ Seen(log, w) /\ Flow(log, w, none)
      /\ DOMAIN w.confirmed = held
  BY <1>4, RestEnds, ComingEmpty
<1> SUFFICES /\ DOMAIN w.confirmed = held
             /\ \A r \in DOMAIN w.confirmed :
                  r \in Resource /\ w.confirmed[r] = At(log, r, Len(log))
  BY DEF held
<1>6. Len(none) = 0
  OBVIOUS
<1> HIDE DEF w, none, N
<1>7. Covered(log, DOMAIN w.confirmed, w.lastSeen, none, 1)
  BY <1>5, <1>6 DEF Flow
<1>8. w.lastSeen \in 0 .. Len(log) /\ Len(log) \in Nat
  BY <1>5, LenProperties DEF Seen
<1>9. \A i \in w.lastSeen + 1 .. Len(log) : log[i].resource \notin DOMAIN w.confirmed
  BY <1>6, <1>7 DEF Covered
<1>10. ASSUME NEW r \in DOMAIN w.confirmed
       PROVE  r \in Resource /\ w.confirmed[r] = At(log, r, Len(log))
  <2>1. r \in Resource
    BY <1>5 DEF RebasedViews, View, PartialStates
  <2> DEFINE m == w.lastSeen
             n == Len(log)
  <2>2. m \in 0 .. n /\ n \in m .. Len(log) /\ \A i \in m + 1 .. n : log[i].resource # r
    BY <1>8, <1>9
  <2> HIDE DEF m, n
  <2>3. At(log, r, n) = At(log, r, m)
    BY <2>1, <2>2, AtSame DEF n
  <2> QED
    BY <1>5, <2>1, <2>3 DEF Seen, m, n
<1> QED
  BY <1>5, <1>10

LEMMA LoggedCatchesUp ==
  ASSUME SyncAssumption, TypeInv, RegistrationInv, Logged
  PROVE  ViewsCatchUp
<1>1. PICK log \in Seq(Action) : LoggedInv(log)
  BY DEF Logged
<1> SUFFICES ASSUME NEW c \in ClientId, Joined(c)
             PROVE  \A r \in DOMAIN Delivered(c).confirmed :
                      /\ Delivered(c).confirmed[r] = server.states[r]
                      /\ r \in conns[clients[c].conn].subs
  BY DEF ViewsCatchUp
<1>2. PICK k \in Conn : clients[c].conn = k
  BY DEF Joined, RegistrationInv, ConnsAreOwned
<1>3. conns[k].client = c /\ c # Absent /\ k # Absent
  BY <1>2 DEF Joined, SyncAssumption
<1> DEFINE q == down[k]
           v == views[c]
<1>4. PICK after : Delivers(after, v, q) /\ Delivered(c) = after[Len(q)]
  BY <1>2, DeliveredSteps
<1>5. q \in Seq(Answer) /\ v \in RebasedViews
  BY DEF TypeInv
<1>6. /\ Seen(log, v) /\ Flow(log, v, q)
      /\ DOMAIN v.confirmed \cup Coming(q) \subseteq conns[k].subs
  BY <1>1, <1>2, <1>3 DEF LoggedInv, LinkedInv, LinkedTo, Linked
<1> HIDE DEF q, v
<1>7. /\ DOMAIN after[Len(q)].confirmed = DOMAIN v.confirmed \cup Coming(q)
      /\ \A r \in DOMAIN after[Len(q)].confirmed :
           r \in Resource /\ after[Len(q)].confirmed[r] = At(log, r, Len(log))
  BY <1>4, <1>5, <1>6, FlowEnds
<1>8. \A r \in Resource : server.states[r] = At(log, r, Len(log))
  BY <1>1 DEF LoggedInv, IsLog
<1> QED
  BY <1>2, <1>4, <1>6, <1>7, <1>8

-----------------------------------------------------------------------------
(* What is pending is on its way *)

LEMMA SetOfTail ==
  ASSUME NEW S, NEW q \in Seq(S), q # <<>>
  PROVE  ToSet(q) = {Head(q)} \cup ToSet(Tail(q))
<1> DEFINE t == Tail(q)
           n == Len(t)
<1>1. /\ Head(q) = q[1] /\ t \in Seq(S) /\ n + 1 = Len(q) /\ \A i \in 1 .. n : t[i] = q[i + 1]
  BY ComingTail
<1>2. n \in Nat
  BY <1>1, LenProperties
<1>3. ToSet(q) = {q[i] : i \in 1 .. n + 1}
  BY <1>1 DEF ToSet
<1> HIDE DEF t
<1>4. ToSet(t) = {t[i] : i \in 1 .. n}
  BY DEF ToSet
<1> HIDE DEF n
<1>5. 1 \in 1 .. n + 1 /\ \A i \in 1 .. n : i + 1 \in 1 .. n + 1
  BY <1>2
<1>6. \A i \in 1 .. n + 1 : i = 1 \/ (i - 1 \in 1 .. n /\ i - 1 + 1 = i)
  BY <1>2
<1>7. ASSUME NEW x \in ToSet(q)
      PROVE  x \in {Head(q)} \cup ToSet(t)
  <2>1. PICK i \in 1 .. n + 1 : x = q[i]
    BY <1>3, <1>7
  <2>2. CASE i = 1
    BY <1>1, <2>1, <2>2
  <2>3. CASE i # 1
    <3>1. i - 1 \in 1 .. n /\ i - 1 + 1 = i
      BY <1>6, <2>3
    <3>2. t[i - 1] = x
      BY <1>1, <2>1, <3>1
    <3> QED
      BY <1>4, <3>1, <3>2
  <2> QED
    BY <2>2, <2>3
<1>8. ASSUME NEW x \in ToSet(t)
      PROVE  x \in ToSet(q)
  BY <1>1, <1>3, <1>4, <1>5, <1>8
<1>9. ToSet(q) = {Head(q)} \cup ToSet(t)
  BY <1>1, <1>3, <1>5, <1>7, <1>8
<1> QED
  BY <1>9 DEF t

\* The request to apply an action.
Asking(a) == [type |-> "dispatchAction", action |-> a]

\* Nothing of what client c has pending is lost or sent again.
LEMMA KeptOnItsWay ==
  ASSUME NEW c \in ClientId, NEW a, OnItsWay(c, a), clients'[c].conn = clients[c].conn,
         ToSet(up[clients[c].conn]) \subseteq ToSet(up'[clients[c].conn]),
         ToSet(down[clients[c].conn]) \subseteq ToSet(down'[clients[c].conn])
  PROVE  OnItsWay(c, a)'
BY DEF OnItsWay

\* A client without a connection has nothing pending, as long as it is its first.
LEMMA PendingConn ==
  ASSUME TypeInv, RegistrationInv, QuietInv, PendingInv, NEW c \in ClientId, First(c),
         NEW a \in ToSet(views[c].pending)
  PROVE  /\ clients[c].ready /\ OnItsWay(c, a) /\ Joined(c) /\ clients[c].conn \in Conn
         /\ a \in Action /\ a.resource \in DOMAIN views[c].confirmed
<1>1. clients[c].ready /\ OnItsWay(c, a)
  BY DEF PendingInv
<1>2. Joined(c)
  BY <1>1 DEF QuietInv, ReadyInv
<1>3. clients[c].conn \in Conn
  BY <1>2 DEF Joined, RegistrationInv, ConnsAreOwned
<1>4. a \in Action
  <2>1. views[c].pending \in Seq(Action)
    BY DEF TypeInv, RebasedViews, View
  <2> QED
    BY <2>1, SetOfSeq
<1>5. a.resource \in DOMAIN views[c].confirmed
  BY DEF QuietInv, PendingIsHeld
<1> QED
  BY <1>1, <1>2, <1>3, <1>4, <1>5

\* A client connects anew: what it has pending is not its first connection's.
LEMMA OpeningKeepsPending ==
  ASSUME SyncAssumption, TypeInv, RegistrationInv, QuietInv, PendingInv,
         NEW c \in ClientId, NEW k \in Conn, NEW m \in Message, Sent(k, m),
         clients[c].conn = Absent, line[k] = "unused",
         clients' = [clients EXCEPT ![c].conn = k],
         UNCHANGED <<server, conns, down, views>>
  PROVE  PendingInv'
<1>1. clients \in [ClientId -> Client] /\ up \in [Conn -> Seq(Message)]
  BY DEF TypeInv
<1>2. /\ \A d \in ClientId : d # c => clients'[d] = clients[d]
      /\ clients'[c].conn = k /\ clients'[c].ready = clients[c].ready
  BY <1>1 DEF Client
<1>3. \A j \in Conn : ToSet(up[j]) \subseteq ToSet(up'[j])
  <2> TAKE j \in Conn
  <2>1. up'[j] = IF j = k THEN Append(up[k], m) ELSE up[j]
    BY <1>1 DEF Sent
  <2>2. up[k] \in Seq(Message)
    BY <1>1
  <2> QED
    BY <2>1, <2>2, SetOfAppend
<1> SUFFICES ASSUME NEW d \in ClientId, First(d)', NEW a \in ToSet(views[d].pending)
             PROVE  clients'[d].ready /\ OnItsWay(d, a)'
  BY DEF PendingInv
<1>4. conns[k].client = Absent /\ Absent \notin ClientId
  BY DEF RegistrationInv, UnusedIsFresh, SyncAssumption
<1>5. First(d)
  BY <1>2, <1>4 DEF First
<1>6. clients[d].ready /\ OnItsWay(d, a) /\ Joined(d) /\ clients[d].conn \in Conn
  BY <1>5, PendingConn
<1>7. d # c
  BY <1>6 DEF Joined
<1> QED
  BY <1>2, <1>3, <1>6, <1>7, KeptOnItsWay

\* A client sends a request; only with its own action is there more to wait for.
LEMMA RequestKeepsPending ==
  ASSUME SyncAssumption, TypeInv, RegistrationInv, QuietInv, PendingInv,
         NEW c \in ClientId, clients[c].conn # Absent, clients[c].ready,
         NEW m \in Message, Sent(clients[c].conn, m),
         \A d \in ClientId : d # c => clients'[d] = clients[d] /\ views'[d] = views[d],
         clients'[c].conn = clients[c].conn, clients'[c].ready,
         \A a \in ToSet(views'[c].pending) : a \in ToSet(views[c].pending) \/ m = Asking(a),
         UNCHANGED <<server, conns, down>>
  PROVE  PendingInv'
<1>1. PICK k \in Conn : clients[c].conn = k
  BY DEF RegistrationInv, ConnsAreOwned
<1>2. /\ \A j \in Conn : ToSet(up[j]) \subseteq ToSet(up'[j])
      /\ m \in ToSet(up'[k])
  <2> SUFFICES ASSUME NEW j \in Conn
               PROVE  /\ ToSet(up[j]) \subseteq ToSet(up'[j])
                      /\ j = k => m \in ToSet(up'[j])
    OBVIOUS
  <2>1. up \in [Conn -> Seq(Message)]
    BY DEF TypeInv
  <2>2. up'[j] = IF j = k THEN Append(up[k], m) ELSE up[j]
    BY <1>1, <2>1 DEF Sent
  <2>3. up[k] \in Seq(Message)
    BY <2>1
  <2> QED
    BY <2>2, <2>3, SetOfAppend
<1> SUFFICES ASSUME NEW d \in ClientId, First(d)', NEW a \in ToSet(views'[d].pending)
             PROVE  clients'[d].ready /\ OnItsWay(d, a)'
  BY DEF PendingInv
<1>3. First(d)
  BY DEF First
<1>4. CASE a \in ToSet(views[d].pending)
  <2>1. clients[d].ready /\ OnItsWay(d, a) /\ clients[d].conn \in Conn
    BY <1>3, <1>4, PendingConn
  <2>2. clients'[d].conn = clients[d].conn /\ clients'[d].ready
    BY <2>1
  <2>3. /\ ToSet(up[clients[d].conn]) \subseteq ToSet(up'[clients[d].conn])
        /\ ToSet(down[clients[d].conn]) \subseteq ToSet(down'[clients[d].conn])
    BY <1>2, <2>1
  <2>4. OnItsWay(d, a)'
    BY ONLY <2>1, <2>2, <2>3, d \in ClientId, KeptOnItsWay
  <2> QED
    BY <2>2, <2>4
<1>5. CASE a \notin ToSet(views[d].pending)
  <2>1. d = c /\ m = Asking(a)
    BY <1>5
  <2>2. Asking(a) \in ToSet(up'[k])
    BY <1>2, <2>1
  <2> QED
    BY <1>1, <2>1, <2>2 DEF OnItsWay, Asking
<1> QED
  BY <1>4, <1>5

LEMMA ReceiveKeepsPending ==
  ASSUME SyncAssumption, TypeInv, RegistrationInv, QuietInv, PendingInv,
         NEW c \in ClientId, Receive(c)
  PROVE  PendingInv'
<1> DEFINE k == clients[c].conn
           m == Head(down[k])
<1>1. /\ k \in Conn /\ down[k] # <<>> /\ down[k] \in Seq(Answer) /\ m \in Answer
      /\ views' = [views EXCEPT ![c] = Received(@, m)]
      /\ down' = [down EXCEPT ![k] = Tail(@)]
      /\ \A d \in ClientId : d # c => clients'[d] = clients[d]
      /\ clients'[c].conn = k
      /\ clients'[c].ready = (clients[c].ready \/ m.type # "action")
      /\ UNCHANGED <<server, conns, line, up>>
  BY ReceiveIs
<1>2. ToSet(down[k]) = {m} \cup ToSet(Tail(down[k]))
  BY <1>1, SetOfTail
<1>3. views[c] \in RebasedViews /\ views \in [ClientId -> RebasedViews]
  BY DEF TypeInv
<1> DEFINE w == Received(views[c], m)
<1>4. /\ ToSet(w.pending) \subseteq ToSet(views[c].pending)
      /\ m.type = "action" => m.envelope.action \notin ToSet(w.pending)
  BY <1>1, <1>3, ReceivedPending, ZenonT(40)
<1>5. views'[c] = w /\ \A d \in ClientId : d # c => views'[d] = views[d]
  BY <1>1, <1>3
<1>6. \A j \in Conn : down'[j] = IF j = k THEN Tail(down[k]) ELSE down[j]
  BY <1>1 DEF TypeInv
<1> HIDE DEF w, m
<1> SUFFICES ASSUME NEW d \in ClientId, First(d)', NEW a \in ToSet(views'[d].pending)
             PROVE  clients'[d].ready /\ OnItsWay(d, a)'
  BY DEF PendingInv
<1>7. First(d)
  BY <1>1 DEF First
<1>8. CASE d = c
  <2>1. a \in ToSet(views[c].pending) /\ (m.type = "action" => m.envelope.action # a)
    BY <1>4, <1>5, <1>8
  <2>2. clients[c].ready /\ OnItsWay(c, a)
    BY <1>7, <1>8, <2>1, PendingConn
  <2>3. CASE [type |-> "dispatchAction", action |-> a] \in ToSet(up[k])
    BY <1>1, <1>8, <2>2, <2>3 DEF OnItsWay
  <2>4. CASE \E x \in ToSet(down[k]) : x.type = "action" /\ x.envelope.action = a
    <3>1. PICK x \in ToSet(Tail(down[k])) : x.type = "action" /\ x.envelope.action = a
      BY <1>2, <2>1, <2>4
    <3>2. x \in ToSet(down'[k])
      BY <1>1, <1>6, <3>1
    <3> QED
      BY <1>1, <1>8, <2>2, <3>1, <3>2 DEF OnItsWay
  <2> QED
    BY <2>2, <2>3, <2>4 DEF OnItsWay
<1>9. CASE d # c
  <2>1. a \in ToSet(views[d].pending)
    BY <1>5, <1>9
  <2>2. clients[d].ready /\ OnItsWay(d, a) /\ clients[d].conn \in Conn
    BY <1>7, <2>1, PendingConn
  <2>3. clients[d].conn # k
    BY <1>1, <1>9 DEF RegistrationInv, ConnsAreOwned, Receive
  <2>4. down'[clients[d].conn] = down[clients[d].conn] /\ clients'[d] = clients[d]
    BY <1>1, <1>6, <1>9, <2>2, <2>3
  <2> QED
    BY <1>1, <2>2, <2>4, KeptOnItsWay
<1> QED
  BY <1>8, <1>9

LEMMA CutKeepsPending ==
  ASSUME SyncAssumption, TypeInv, RegistrationInv, QuietInv, PendingInv,
         NEW c \in ClientId, Cut(c)
  PROVE  PendingInv'
<1> DEFINE k == clients[c].conn
<1>1. /\ k \in Conn
      /\ \A d \in ClientId : d # c => clients'[d] = clients[d]
      /\ clients'[c].conn = Absent
      /\ \A j \in Conn : j # k => up'[j] = up[j] /\ down'[j] = down[j]
      /\ UNCHANGED <<server, conns, views>>
  BY CutIs
<1> SUFFICES ASSUME NEW d \in ClientId, First(d)', NEW a \in ToSet(views[d].pending)
             PROVE  clients'[d].ready /\ OnItsWay(d, a)'
  BY <1>1 DEF PendingInv
<1>2. k # Absent
  BY DEF Cut
<1>3. CASE d = c
  <2>1. \A j \in Conn : conns[j].client # c
    BY <1>1, <1>3 DEF First, SyncAssumption
  <2>2. First(c)
    BY <2>1 DEF First
  <2>3. Joined(c)
    BY <1>3, <2>2, PendingConn
  <2> QED
    BY <1>1, <2>1, <2>3 DEF Joined
<1>4. CASE d # c
  <2>1. First(d)
    BY <1>1, <1>4 DEF First
  <2>2. clients[d].ready /\ OnItsWay(d, a) /\ clients[d].conn \in Conn
    BY <2>1, PendingConn
  <2>3. clients[d].conn # k
    BY <1>2, <1>4 DEF RegistrationInv, ConnsAreOwned
  <2> HIDE DEF k
  <2> QED
    BY <1>1, <1>4, <2>2, <2>3, KeptOnItsWay
<1> QED
  BY <1>3, <1>4

LEMMA ClientKeepsPending ==
  ASSUME SyncAssumption, ~ Burst, TypeInv, RegistrationInv, QuietInv, PendingInv,
         NEW c \in ClientId, ClientStep(c)
  PROVE  PendingInv'
<1>1. /\ clients \in [ClientId -> Client]
      /\ views \in [ClientId -> RebasedViews] /\ views[c] \in RebasedViews
  BY DEF TypeInv
<1>2. ASSUME NEW k \in Conn, Reconnect(c, k)
      PROVE  PendingInv'
  <2> DEFINE m == [type |-> "reconnect", client |-> c, lastSeen |-> views[c].lastSeen,
                   subs |-> DOMAIN views[c].confirmed]
  <2>1. views[c].lastSeen \in Nat /\ DOMAIN views[c].confirmed \in SUBSET Resource
    BY <1>1 DEF RebasedViews, View, PartialStates
  <2>2. m \in Message /\ Sent(k, m)
    BY <1>2, <2>1 DEF Message, Reconnect
  <2> HIDE DEF m
  <2> QED
    BY <1>2, <2>2, OpeningKeepsPending DEF Reconnect
<1>3. ASSUME NEW k \in Conn, NEW rs \in Initial, Connect(c, k, rs)
      PROVE  PendingInv'
  <2> DEFINE m == [type |-> "initialize", client |-> c, subs |-> rs]
  <2>1. m \in Message /\ Sent(k, m)
    BY <1>3 DEF Message, Connect, SyncAssumption
  <2> HIDE DEF m
  <2> QED
    BY <1>3, <2>1, OpeningKeepsPending DEF Connect
<1>5. ASSUME NEW r \in Resource, Subscribe(c, r)
      PROVE  PendingInv'
  <2> DEFINE m == [type |-> "subscribe", resource |-> r]
  <2>1. m \in Message /\ Sent(clients[c].conn, m)
    BY <1>5 DEF Message, Subscribe
  <2> HIDE DEF m
  <2>2. /\ clients[c].ready /\ clients[c].conn # Absent
        /\ \A d \in ClientId : d # c => clients'[d] = clients[d] /\ views'[d] = views[d]
        /\ clients'[c].conn = clients[c].conn /\ clients'[c].ready
        /\ views' = views /\ UNCHANGED <<server, conns, down>>
    BY <1>1, <1>5 DEF Subscribe, Online, Client
  <2> QED
    BY <2>1, <2>2, RequestKeepsPending
<1>6. ASSUME NEW r \in Resource, Unsubscribe(c, r)
      PROVE  PendingInv'
  <2> DEFINE m == [type |-> "unsubscribe", resource |-> r]
             w == DropResource(views[c], r)
  <2>1. m \in Message /\ Sent(clients[c].conn, m)
    BY <1>6 DEF Message, Unsubscribe
  <2>2. ToSet(w.pending) = {a \in ToSet(views[c].pending) : a.resource # r}
    BY <1>1, DropResourcePending
  <2>3. views'[c] = w
    BY <1>1, <1>6 DEF Unsubscribe
  <2> HIDE DEF m, w
  <2>4. \A a \in ToSet(views'[c].pending) : a \in ToSet(views[c].pending)
    BY <2>2, <2>3
  <2>5. /\ clients[c].ready /\ clients[c].conn # Absent
        /\ \A d \in ClientId : d # c => clients'[d] = clients[d] /\ views'[d] = views[d]
        /\ clients'[c].conn = clients[c].conn /\ clients'[c].ready
        /\ UNCHANGED <<server, conns, down>>
    BY <1>1, <1>6 DEF Unsubscribe, Online, Client
  <2> QED
    BY <2>1, <2>4, <2>5, RequestKeepsPending
<1>7. ASSUME NEW s \in Session, Dispatch(c, s)
      PROVE  PendingInv'
  <2> DEFINE a == [resource |-> s, by |-> c, n |-> clients[c].nextSeq]
             m == [type |-> "dispatchAction", action |-> a]
             w == ApplyOptimistic(views[c], a)
  <2>1. a \in Action /\ m = Asking(a)
    BY <1>1 DEF Action, SyncAssumption, Client, Asking
  <2>2. m \in Message /\ Sent(clients[c].conn, m)
    BY <1>7, <2>1 DEF Message, Dispatch
  <2>3. views'[c] = w
    BY <1>1, <1>7 DEF Dispatch
  <2> HIDE DEF a, m
  <2>4. w.pending = Append(views[c].pending, a)
    BY <1>1, <2>1, ApplyOptimisticIs
  <2>5. views[c].pending \in Seq(Action)
    BY <1>1 DEF RebasedViews, View
  <2> HIDE DEF w
  <2>6. ToSet(w.pending) = ToSet(views[c].pending) \cup {a}
    BY <2>1, <2>4, <2>5, SetOfAppend
  <2>7. \A x \in ToSet(views'[c].pending) : x \in ToSet(views[c].pending) \/ m = Asking(x)
    BY <2>1, <2>3, <2>6
  <2>8. /\ clients[c].ready /\ clients[c].conn # Absent
        /\ \A d \in ClientId : d # c => clients'[d] = clients[d] /\ views'[d] = views[d]
        /\ clients'[c].conn = clients[c].conn /\ clients'[c].ready
        /\ UNCHANGED <<server, conns, down>>
    BY <1>1, <1>7 DEF Dispatch, Online, Client
  <2> QED
    BY <2>2, <2>7, <2>8, RequestKeepsPending
<1>8. CASE Receive(c)
  BY <1>8, ReceiveKeepsPending
<1>9. CASE Cut(c)
  BY <1>9, CutKeepsPending
<1> QED
  BY <1>2, <1>3, <1>5, <1>6, <1>7, <1>8, <1>9 DEF ClientStep

\* A step of the server that leaves everybody connected as before, and each pending
\* action on its way.
LEMMA SameConnsKeepPending ==
  ASSUME TypeInv, RegistrationInv, QuietInv, PendingInv, UNCHANGED <<clients, views>>,
         \A k \in Conn : conns'[k].client = conns[k].client,
         \A k \in Conn : ToSet(down[k]) \subseteq ToSet(down'[k]),
         \A c \in ClientId, a \in Action :
           /\ clients[c].conn \in Conn /\ Joined(c) /\ clients[c].ready
           /\ a.resource \in DOMAIN views[c].confirmed
           /\ Asking(a) \in ToSet(up[clients[c].conn])
           => OnItsWay(c, a)'
  PROVE  PendingInv'
<1> SUFFICES ASSUME NEW c \in ClientId, First(c)', NEW a \in ToSet(views[c].pending)
             PROVE  clients[c].ready /\ OnItsWay(c, a)'
  BY DEF PendingInv
<1>1. First(c)
  BY DEF First
<1>2. /\ clients[c].ready /\ OnItsWay(c, a) /\ Joined(c) /\ clients[c].conn \in Conn
      /\ a \in Action /\ a.resource \in DOMAIN views[c].confirmed
  BY <1>1, PendingConn
<1>3. CASE Asking(a) \in ToSet(up[clients[c].conn])
  BY <1>2, <1>3
<1>4. CASE Asking(a) \notin ToSet(up[clients[c].conn])
  BY <1>2, <1>4 DEF OnItsWay, Asking
<1> QED
  BY <1>2, <1>3, <1>4

\* Requests stay on their way but for the one that is taken.
LEMMA TakenFrom ==
  ASSUME TypeInv, ~ Burst, NEW k \in Conn, NEW type, Takes(k, type),
         NEW c \in ClientId, NEW a, clients[c].conn \in Conn,
         Asking(a) \in ToSet(up[clients[c].conn]), clients' = clients
  PROVE  OnItsWay(c, a)' \/ (clients[c].conn = k /\ Head(up[k]) = Asking(a))
<1>1. /\ up' = [up EXCEPT ![k] = Tail(@)]
      /\ up[k] # <<>> /\ up[k] \in Seq(Message)
  BY TakesIs
<1>2. ToSet(up[k]) = {Head(up[k])} \cup ToSet(Tail(up[k]))
  BY <1>1, SetOfTail
<1>3. \A j \in Conn : up'[j] = IF j = k THEN Tail(up[k]) ELSE up[j]
  BY <1>1 DEF TypeInv
<1>4. CASE clients[c].conn # k
  BY <1>3, <1>4 DEF OnItsWay, Asking
<1>5. CASE clients[c].conn = k
  BY <1>2, <1>3, <1>5 DEF OnItsWay, Asking
<1> QED
  BY <1>4, <1>5

LEMMA OtherRequestsKeepPending ==
  ASSUME TypeInv, RegistrationInv, QuietInv, PendingInv, ~ Burst, NEW k \in Conn,
         NEW type, type # "dispatchAction", Takes(k, type),
         UNCHANGED <<clients, views, down>>,
         \A j \in Conn : conns'[j].client = conns[j].client
  PROVE  PendingInv'
<1>1. Head(up[k]).type = type
  BY TakesIs
<1>2. ASSUME NEW c \in ClientId, NEW a \in Action, clients[c].conn \in Conn,
             Asking(a) \in ToSet(up[clients[c].conn])
      PROVE  OnItsWay(c, a)'
  <2>1. OnItsWay(c, a)' \/ (clients[c].conn = k /\ Head(up[k]) = Asking(a))
    BY <1>2, TakenFrom
  <2> QED
    BY <1>1, <2>1 DEF Asking
<1> QED
  BY <1>2, SameConnsKeepPending

LEMMA HandshakeKeepsPending ==
  ASSUME SyncAssumption, ~ Burst, TypeInv, RegistrationInv, QuietInv, PendingInv,
         NEW k \in Conn, NEW type \in {"initialize", "reconnect"}, Takes(k, type),
         conns' = [conns EXCEPT ![k].client = Head(up[k]).client,
                                ![k].subs = Head(up[k]).subs],
         NEW ms, down' = Answered(k, ms), UNCHANGED <<line, clients, views>>
  PROVE  PendingInv'
<1>1. /\ up' = [up EXCEPT ![k] = Tail(@)]
      /\ up[k] # <<>> /\ Head(up[k]) = up[k][1] /\ Head(up[k]).type = type
      /\ Len(Tail(up[k])) + 1 = Len(up[k]) /\ Len(Tail(up[k])) \in Nat
  BY TakesIs
<1>2. IsHandshake(up[k][1]) /\ 1 \in 1 .. Len(up[k])
  BY <1>1 DEF IsHandshake
<1>3. PICK c \in ClientId : /\ Head(up[k]).client = c
                           /\ clients[c].conn = k /\ conns[k].client = Absent
  BY <1>1, <1>2 DEF RegistrationInv, HandshakesAreFirst
<1>4. conns'[k].client = c /\ \A j \in Conn : j # k => conns'[j] = conns[j]
  BY <1>3 DEF TypeInv, Connection
<1>5. \A j \in Conn : j # k => down'[j] = down[j] /\ up'[j] = up[j]
  BY <1>1, AnsweredIs DEF TypeInv
<1> SUFFICES ASSUME NEW d \in ClientId, First(d)', NEW a \in ToSet(views[d].pending)
             PROVE  clients[d].ready /\ OnItsWay(d, a)'
  BY DEF PendingInv
<1>6. First(d)
  <2> SUFFICES ASSUME NEW j \in Conn, conns[j].client = d
               PROVE  j = clients[d].conn
    BY DEF First
  <2>1. j # k
    BY <1>3 DEF SyncAssumption
  <2> QED
    BY <1>4, <2>1 DEF First
<1>7. clients[d].ready /\ OnItsWay(d, a) /\ Joined(d) /\ clients[d].conn \in Conn
  BY <1>6, PendingConn
<1>8. clients[d].conn # k
  BY <1>3, <1>7 DEF Joined, SyncAssumption
<1> QED
  BY <1>5, <1>7, <1>8, KeptOnItsWay

\* The host applies an action: its envelope goes to the client that sent it.
LEMMA EmitKeepsPending ==
  ASSUME SyncAssumption, TypeInv, RegistrationInv, QuietInv, PendingInv, Logged,
         NEW a \in Action, ApplyAndEmit(a), UNCHANGED <<conns, line, clients, views>>,
         \A c \in ClientId, x \in Action :
           clients[c].conn \in Conn /\ Asking(x) \in ToSet(up[clients[c].conn]) =>
             OnItsWay(c, x)' \/ x = a
  PROVE  PendingInv'
<1> DEFINE e == [seq |-> server.seq + 1, action |-> a]
           m == [type |-> "action", envelope |-> e]
<1>1. /\ m \in Answer
      /\ \A k \in Conn : down'[k] = IF k \in Receivers(e) THEN Append(down[k], m)
                                    ELSE down[k]
  BY ApplyAndEmitIs
<1>2. m.type = "action" /\ m.envelope.action = a /\ e.action = a
  OBVIOUS
<1>3. PICK log \in Seq(Action) : LoggedInv(log)
  BY DEF Logged
<1> HIDE DEF e, m
<1>4. /\ \A k \in Conn : ToSet(down[k]) \subseteq ToSet(down'[k])
      /\ \A k \in Conn : k \in Receivers(e) => m \in ToSet(down'[k])
  <2> SUFFICES ASSUME NEW k \in Conn
               PROVE  /\ ToSet(down[k]) \subseteq ToSet(down'[k])
                      /\ k \in Receivers(e) => m \in ToSet(down'[k])
    OBVIOUS
  <2>1. down[k] \in Seq(Answer)
    BY DEF TypeInv
  <2> QED
    BY <1>1, <2>1, SetOfAppend
<1>5. ASSUME NEW c \in ClientId, NEW x \in Action, clients[c].conn \in Conn, Joined(c),
             clients[c].ready, x.resource \in DOMAIN views[c].confirmed,
             Asking(x) \in ToSet(up[clients[c].conn])
      PROVE  OnItsWay(c, x)'
  <2>1. CASE OnItsWay(c, x)'
    BY <2>1
  <2>2. CASE x = a
    <3>1. PICK k \in Conn : clients[c].conn = k
      BY <1>5
    <3>2. conns[k].client = c /\ c # Absent /\ k # Absent
      BY <1>5, <3>1 DEF Joined, SyncAssumption
    <3>3. DOMAIN views[c].confirmed \subseteq conns[k].subs
      BY <1>3, <3>1, <3>2 DEF LoggedInv, LinkedInv, LinkedTo, Linked
    <3>4. server.clients[c] = k /\ line[k] = "open"
      BY <1>5, <3>1, <3>2 DEF RegistrationInv, StaleCloseIsHarmless, ConnsAreOwned
    <3>5. k \in Receivers(e)
      BY <1>2, <1>5, <2>2, <3>3, <3>4 DEF Receivers, IsRelevantToClient
    <3>6. m \in ToSet(down'[k])
      BY <1>4, <3>5
    <3> QED
      BY <1>2, <2>2, <3>1, <3>6 DEF OnItsWay
  <2> QED
    BY <1>5, <2>1, <2>2
<1> QED
  BY <1>4, <1>5, SameConnsKeepPending

LEMMA ServerKeepsPending ==
  ASSUME SyncAssumption, ~ Burst, TypeInv, RegistrationInv, QuietInv, PendingInv, Logged,
         NEW k \in Conn, ServerStep(k)
  PROVE  PendingInv'
<1>1. conns \in [Conn -> Connection]
  BY DEF TypeInv
<1>3. CASE HandleInitialize(k)
  BY <1>3, HandshakeKeepsPending DEF HandleInitialize
<1>4. CASE HandleReconnect(k)
  BY <1>4, HandshakeKeepsPending DEF HandleReconnect
<1>5. CASE HandleSubscribe(k)
  <2> DEFINE job == Snapshots({Head(up[k]).resource})
  <2>1. /\ conns' = [conns EXCEPT ![k].jobs = Append(@, job)]
        /\ Takes(k, "subscribe") /\ UNCHANGED <<down, clients, views>>
    BY <1>5 DEF HandleSubscribe
  <2> HIDE DEF job
  <2>2. \A j \in Conn : conns'[j].client = conns[j].client
    BY <1>1, <2>1 DEF Connection
  <2> QED
    BY <2>1, <2>2, OtherRequestsKeepPending
<1>6. CASE FinishSubscribes(k)
  <2> DEFINE more == UNION {DOMAIN x.states : x \in ToSet(conns[k].jobs)}
  <2>1. /\ conns[k].jobs # <<>>
        /\ conns' = [conns EXCEPT ![k].subs = @ \cup more, ![k].jobs = <<>>]
        /\ down' = Answered(k, conns[k].jobs)
        /\ UNCHANGED <<server, line, up, clients, views>>
    BY <1>6 DEF FinishSubscribes
  <2> HIDE DEF more
  <2>2. \A j \in Conn : conns'[j].client = conns[j].client
    BY <1>1, <2>1 DEF Connection
  <2>3. PICK r \in Resource : conns[k].jobs = <<Snapshots({r})>>
    BY <2>1 DEF QuietInv, JobsAreCurrent
  <2> DEFINE job == Snapshots({r})
  <2>4. job \in Answer
    BY SnapshotsType DEF Answer
  <2>5. conns[k].jobs = <<job>>
    BY <2>3
  <2> HIDE DEF job
  <2>6. \A j \in Conn : ToSet(down[j]) \subseteq ToSet(down'[j])
    <3> TAKE j \in Conn
    <3>1. down[k] \in Seq(Answer)
      BY DEF TypeInv
    <3>2. down[k] \o <<job>> = Append(down[k], job)
      BY <2>4, <3>1, ConcatOne
    <3>3. down'[j] = down[j] \/ (j = k /\ down'[j] = Append(down[k], job))
      BY <2>1, <2>5, <3>2, AnsweredIs, ZenonT(40)
    <3>4. ToSet(Append(down[k], job)) = ToSet(down[k]) \cup {job}
      BY <2>4, <3>1, SetOfAppend
    <3> QED
      BY <3>3, <3>4
  <2>7. \A c \in ClientId, a \in Action :
          clients[c].conn \in Conn /\ Asking(a) \in ToSet(up[clients[c].conn]) =>
            OnItsWay(c, a)'
    BY <2>1 DEF OnItsWay, Asking
  <2> QED
    BY <2>1, <2>2, <2>6, <2>7, SameConnsKeepPending
<1>7. CASE HandleUnsubscribe(k)
  <2> DEFINE less == {Head(up[k]).resource}
  <2>1. /\ conns' = [conns EXCEPT ![k].subs = @ \ less]
        /\ Takes(k, "unsubscribe") /\ UNCHANGED <<down, clients, views>>
    BY <1>7 DEF HandleUnsubscribe
  <2> HIDE DEF less
  <2>2. \A j \in Conn : conns'[j].client = conns[j].client
    BY <1>1, <2>1 DEF Connection
  <2> QED
    BY <2>1, <2>2, OtherRequestsKeepPending
<1>8. CASE HandleDispatch(k)
  <2>1. Head(up[k]) \in Message /\ Head(up[k]).type = "dispatchAction"
    BY <1>8, TakesIs DEF HandleDispatch
  <2>2. PICK a \in Action : a = Head(up[k]).action
    BY <2>1, MessageIs
  <2>3. /\ ApplyAndEmit(a) /\ UNCHANGED <<conns, line, clients, views>>
        /\ Takes(k, "dispatchAction")
    BY <1>8, <2>2 DEF HandleDispatch
  <2>4. ASSUME NEW c \in ClientId, NEW x \in Action, clients[c].conn \in Conn,
               Asking(x) \in ToSet(up[clients[c].conn])
        PROVE  OnItsWay(c, x)' \/ x = a
    <3>1. OnItsWay(c, x)' \/ (clients[c].conn = k /\ Head(up[k]) = Asking(x))
      BY <2>3, <2>4, TakenFrom
    <3> QED
      BY <2>2, <3>1 DEF Asking
  <2> QED
    BY <2>3, <2>4, EmitKeepsPending
<1>9. CASE HandleClose(k)
  <2>1. UNCHANGED <<conns, up, down, clients, views>>
    BY <1>9 DEF HandleClose
  <2>2. \A c \in ClientId, a \in Action :
          clients[c].conn \in Conn /\ Asking(a) \in ToSet(up[clients[c].conn]) =>
            OnItsWay(c, a)'
    BY <2>1 DEF OnItsWay, Asking
  <2> QED
    BY <2>1, <2>2, SameConnsKeepPending
<1> QED
  BY <1>3, <1>4, <1>5, <1>6, <1>7, <1>8, <1>9 DEF ServerStep

LEMMA NextKeepsPending ==
  ASSUME SyncAssumption, ~ Burst, TypeInv, RegistrationInv, QuietInv, PendingInv, Logged,
         [Next]_vars
  PROVE  PendingInv'
<1>1. CASE \E c \in ClientId : ClientStep(c)
  BY <1>1, ClientKeepsPending
<1>2. CASE \E k \in Conn : ServerStep(k)
  BY <1>2, ServerKeepsPending
<1>3. CASE \E r \in Resource : AgentAction(r)
  <2>1. PICK a \in Action : /\ ApplyAndEmit(a) /\ \A j \in Conn : conns[j].jobs = <<>>
                           /\ UNCHANGED <<conns, line, up, clients, views>>
    BY <1>3, AgentActionIs
  <2>2. \A c \in ClientId, x \in Action :
          clients[c].conn \in Conn /\ Asking(x) \in ToSet(up[clients[c].conn]) =>
            OnItsWay(c, x)' \/ x = a
    BY <2>1 DEF OnItsWay, Asking
  <2> QED
    BY <2>1, <2>2, EmitKeepsPending
<1>4. CASE UNCHANGED vars
  <2>1. UNCHANGED <<server, conns, line, up, down, clients, views>>
    BY <1>4 DEF vars
  <2>2. \A c \in ClientId, a \in Action :
          clients[c].conn \in Conn /\ Asking(a) \in ToSet(up[clients[c].conn]) =>
            OnItsWay(c, a)'
    BY <2>1 DEF OnItsWay, Asking
  <2> QED
    BY <2>1, <2>2, SameConnsKeepPending
<1> QED
  BY <1>1, <1>2, <1>3, <1>4 DEF Next

-----------------------------------------------------------------------------
(* Theorems *)

\* The inductive invariant.
SyncInv == TypeInv /\ RegistrationInv /\ QuietInv /\ Logged /\ PendingInv

LEMMA SyncHolds ==
  ASSUME ~ Burst
  PROVE  Spec => []SyncInv
<1>1. Init => SyncInv
  <2> SUFFICES ASSUME Init
               PROVE  SyncInv
    OBVIOUS
  <2>1. TypeInv
    BY SyncAssumption, TypeInit
  <2>2. RegistrationInv
    BY SyncAssumption, RegistrationInit
  <2>3. QuietInv
    BY SyncAssumption, QuietInit
  <2>4. Logged
    BY SyncAssumption, LoggedInit
  <2>5. PendingInv
    <3>1. \A c \in ClientId : views[c].pending = <<>>
      BY DEF Init, NewView
    <3>2. ToSet(<<>>) = {}
      BY DEF ToSet
    <3> QED
      BY <3>1, <3>2 DEF PendingInv
  <2> QED
    BY <2>1, <2>2, <2>3, <2>4, <2>5 DEF SyncInv
<1>2. SyncInv /\ [Next]_vars => SyncInv'
  <2> SUFFICES ASSUME SyncInv, [Next]_vars
               PROVE  SyncInv'
    OBVIOUS
  <2>1. TypeInv /\ RegistrationInv /\ QuietInv /\ Logged /\ PendingInv
    BY DEF SyncInv
  <2>2. TypeInv'
    BY SyncAssumption, <2>1, NextKeepsTypes
  <2>3. RegistrationInv'
    BY SyncAssumption, <2>1, NextKeepsRegistration
  <2>4. QuietInv'
    BY SyncAssumption, <2>1, NextKeepsQuiet
  <2>5. Logged'
    BY SyncAssumption, <2>1, NextKeepsLogged
  <2>6. PendingInv'
    BY SyncAssumption, <2>1, NextKeepsPending
  <2> QED
    BY <2>2, <2>3, <2>4, <2>5, <2>6 DEF SyncInv
<1> QED
  BY <1>1, <1>2, PTL DEF Spec

\* Nothing is missed, doubled or reordered on the way to a client, however many
\* clients come, go and come back, and however many messages are under way, as long
\* as they wait for the answer to a subscribe (protocolServerHandler.ts, subscribe,
\* _handleReconnect, _broadcastAction).
THEOREM ClientsCatchUp ==
  ASSUME ~ Burst
  PROVE  Spec => []ViewsCatchUp
<1>1. SyncInv => ViewsCatchUp
  BY SyncAssumption, LoggedCatchesUp DEF SyncInv
<1> QED
  BY <1>1, SyncHolds, PTL

\* As long as a client's first connection holds, what it shows optimistically is on
\* its way to the server or back (sessionClientState.ts, receiveEnvelope).
THEOREM PendingStaysOnItsWay ==
  ASSUME ~ Burst
  PROVE  Spec => []PendingIsOnItsWay
<1>1. SyncInv => PendingIsOnItsWay
  BY DEF SyncInv, PendingInv, PendingIsOnItsWay, First
<1> QED
  BY <1>1, SyncHolds, PTL

-----------------------------------------------------------------------------
(* What is shown stays shown *)

\* All that view v shows of resources that w still has is shown by w.
Keeps(v, w) ==
  \A r \in DOMAIN v.confirmed \cap DOMAIN w.confirmed :
    ToSet(v.optimistic[r]) \subseteq ToSet(w.optimistic[r])

LEMMA SetOfConcat ==
  ASSUME NEW S, NEW p \in Seq(S), NEW q \in Seq(S)
  PROVE  ToSet(p \o q) = ToSet(p) \cup ToSet(q)
<1> DEFINE s == p \o q
           m == Len(p)
           n == Len(q)
<1>1. /\ m \in Nat /\ n \in Nat /\ Len(s) = m + n
      /\ \A i \in 1 .. m + n : s[i] = IF i <= m THEN p[i] ELSE q[i - m]
  BY ConcatProperties, LenProperties
<1> HIDE DEF s
<1>2. ToSet(s) = {s[i] : i \in 1 .. m + n}
  BY <1>1 DEF ToSet
<1>3. ToSet(p) = {p[i] : i \in 1 .. m} /\ ToSet(q) = {q[i] : i \in 1 .. n}
  BY DEF ToSet
<1> HIDE DEF m, n
<1>4. ASSUME NEW x \in ToSet(s)
      PROVE  x \in ToSet(p) \cup ToSet(q)
  <2>1. PICK i \in 1 .. m + n : x = s[i]
    BY <1>2, <1>4
  <2>2. CASE i <= m
    <3>1. i \in 1 .. m /\ x = p[i]
      BY <1>1, <2>1, <2>2
    <3> QED
      BY <1>3, <3>1
  <2>3. CASE ~ i <= m
    <3>1. i - m \in 1 .. n /\ x = q[i - m]
      BY <1>1, <2>1, <2>3
    <3> QED
      BY <1>3, <3>1
  <2> QED
    BY <2>2, <2>3
<1>5. ASSUME NEW x \in ToSet(p)
      PROVE  x \in ToSet(s)
  <2>1. PICK i \in 1 .. m : x = p[i]
    BY <1>3, <1>5
  <2>2. i \in 1 .. m + n /\ s[i] = x
    BY <1>1, <2>1
  <2> QED
    BY <1>2, <2>2
<1>6. ASSUME NEW x \in ToSet(q)
      PROVE  x \in ToSet(s)
  <2>1. PICK i \in 1 .. n : x = q[i]
    BY <1>3, <1>6
  <2>2. m + i \in 1 .. m + n /\ ~ m + i <= m /\ m + i - m = i
    BY <1>1
  <2>3. s[m + i] = x
    BY <1>1, <2>1, <2>2
  <2> QED
    BY <1>2, <2>2, <2>3
<1>7. ToSet(s) = ToSet(p) \cup ToSet(q)
  BY <1>4, <1>5, <1>6
<1> QED
  BY <1>7 DEF s

\* What a view shows of a resource: what is confirmed and what is pending of it.
LEMMA ShownIs ==
  ASSUME NEW v \in RebasedViews, NEW r \in DOMAIN v.confirmed
  PROVE  /\ DOMAIN v.optimistic = DOMAIN v.confirmed
         /\ v.confirmed[r] \in Seq(Action) /\ v.pending \in Seq(Action)
         /\ ToSet(v.optimistic[r])
              = ToSet(v.confirmed[r]) \cup {a \in ToSet(v.pending) : a.resource = r}
<1> DEFINE f == v.confirmed
<1>1. /\ v \in View /\ IsRebased(v)
  BY DEF RebasedViews
<1>2. v.pending \in Seq(Action) /\ f \in PartialStates
  BY <1>1 DEF View
<1> HIDE DEF f
<1>3. f[r] \in Seq(Action) /\ r \in DOMAIN f
  BY <1>2 DEF PartialStates, State, f
<1>4. DOMAIN v.optimistic = DOMAIN v.confirmed /\ v.optimistic[r] = f[r] \o Of(r, v.pending)
  BY <1>1, <1>3 DEF IsRebased, Rebased, f
<1> DEFINE p == Of(r, v.pending)
<1>5. p \in Seq(Action)
  BY <1>2, WithinType DEF Of
<1>6. ToSet(p) = ToSet(v.pending) \cap ActionsOn(r) /\ ToSet(v.pending) \subseteq Action
  BY <1>2, SetOfWithin, SetOfSeq DEF Of
<1> HIDE DEF p
<1>7. ToSet(f[r] \o p) = ToSet(f[r]) \cup ToSet(p)
  BY ONLY <1>3, <1>5, SetOfConcat
<1> QED
  BY <1>2, <1>3, <1>4, <1>6, <1>7 DEF ActionsOn, f, p

LEMMA EnvelopeKeepsShown ==
  ASSUME NEW v \in RebasedViews, NEW e \in Envelope, NEW r \in DOMAIN v.confirmed
  PROVE  ToSet(v.optimistic[r]) \subseteq ToSet(ReceiveEnvelope(v, e).optimistic[r])
<1> DEFINE w == ReceiveEnvelope(v, e)
           a == e.action
<1>1. /\ w \in RebasedViews /\ DOMAIN w.confirmed = DOMAIN v.confirmed
      /\ w.confirmed[r] = IF r = a.resource THEN Append(v.confirmed[r], a)
                          ELSE v.confirmed[r]
      /\ w.pending = Within(v.pending, Action \ {a})
  BY ReceiveEnvelopeIs
<1> HIDE DEF w
<1>2. /\ v.confirmed[r] \in Seq(Action) /\ v.pending \in Seq(Action)
      /\ ToSet(v.optimistic[r])
           = ToSet(v.confirmed[r]) \cup {x \in ToSet(v.pending) : x.resource = r}
      /\ ToSet(w.optimistic[r])
           = ToSet(w.confirmed[r]) \cup {x \in ToSet(w.pending) : x.resource = r}
  BY <1>1, ShownIs
<1>3. a \in Action
  BY DEF Envelope
<1> HIDE DEF a
<1>4. ToSet(w.pending) = ToSet(v.pending) \cap (Action \ {a}) /\ ToSet(v.pending) \subseteq Action
  BY <1>1, <1>2, SetOfWithin, SetOfSeq
<1>5. ToSet(Append(v.confirmed[r], a)) = ToSet(v.confirmed[r]) \cup {a}
  BY <1>2, <1>3, SetOfAppend
<1>6. CASE r = a.resource
  <2>1. ToSet(w.confirmed[r]) = ToSet(v.confirmed[r]) \cup {a}
    BY <1>1, <1>5, <1>6
  <2> QED
    BY <1>2, <1>4, <2>1 DEF w
<1>7. CASE r # a.resource
  <2>1. ToSet(w.confirmed[r]) = ToSet(v.confirmed[r])
    BY <1>1, <1>7
  <2> QED
    BY <1>2, <1>4, <1>7, <2>1 DEF w
<1> QED
  BY <1>6, <1>7

LEMMA ReplayKeepsShown ==
  ASSUME NEW v \in RebasedViews, NEW q \in Seq(Envelope)
  PROVE  Keeps(v, Replayed(v, q))
<1> DEFINE V == {w \in RebasedViews : DOMAIN w.confirmed = DOMAIN v.confirmed /\ Keeps(v, w)}
<1>1. v \in V
  BY DEF Keeps
<1>2. IsClosed(V, Envelope)
  <2> SUFFICES ASSUME NEW w \in V, NEW e \in Envelope
               PROVE  ReceiveEnvelope(w, e) \in V
    BY DEF IsClosed
  <2> DEFINE x == ReceiveEnvelope(w, e)
  <2>1. w \in RebasedViews /\ DOMAIN w.confirmed = DOMAIN v.confirmed /\ Keeps(v, w)
    OBVIOUS
  <2>2. x \in RebasedViews /\ DOMAIN x.confirmed = DOMAIN w.confirmed
    BY <2>1, ReceiveEnvelopeIs
  <2>3. \A r \in DOMAIN w.confirmed : ToSet(w.optimistic[r]) \subseteq ToSet(x.optimistic[r])
    BY <2>1, EnvelopeKeepsShown
  <2> HIDE DEF x
  <2>4. Keeps(v, x)
    BY <2>1, <2>2, <2>3 DEF Keeps
  <2>5. x \in V
    BY <2>1, <2>2, <2>4
  <2> QED
    BY <2>5 DEF x
<1> HIDE DEF V
<1>3. PICK after : Replays(after, v, q, V)
  BY <1>1, <1>2, ReplayedSteps
<1>4. Len(q) \in Nat
  BY LenProperties
<1>5. Replayed(v, q) \in V
  BY <1>3, <1>4 DEF Replays
<1> QED
  BY <1>5 DEF V

\* A beginning has no elements that the whole has not.
LEMMA SetOfPrefix ==
  ASSUME NEW S, NEW p \in Seq(S), NEW q \in Seq(S), Len(p) <= Len(q),
         \A j \in 1 .. Len(p) : q[j] = p[j]
  PROVE  ToSet(p) \subseteq ToSet(q)
<1>1. Len(p) \in Nat /\ Len(q) \in Nat
  BY LenProperties
<1>2. \A j \in 1 .. Len(p) : j \in 1 .. Len(q)
  BY <1>1
<1> QED
  BY <1>2 DEF ToSet

LEMMA SnapshotsKeepShown ==
  ASSUME NEW log \in Seq(Action), NEW v \in RebasedViews, Seen(log, v), NEW m \in Answer,
         m.type = "snapshots", Genuine(log, m), Before(v.lastSeen, m)
  PROVE  Keeps(v, HandleSnapshots(v, m.states, m.fromSeq))
<1> DEFINE w == HandleSnapshots(v, m.states, m.fromSeq)
           n == v.lastSeen
           k == m.fromSeq
<1>1. m.states \in PartialStates /\ k \in Nat
  BY AnswerIs
<1>2. /\ w \in RebasedViews
      /\ DOMAIN w.confirmed = DOMAIN v.confirmed \cup DOMAIN m.states
      /\ \A r \in DOMAIN v.confirmed \cup DOMAIN m.states :
           w.confirmed[r] = IF r \in DOMAIN m.states THEN m.states[r] ELSE v.confirmed[r]
      /\ w.pending = v.pending
  BY <1>1, HandleSnapshotsIs, SMTT(30)
<1> HIDE DEF w
<1>3. /\ n \in 0 .. Len(log) /\ k \in n .. Len(log) /\ k \in 0 .. Len(log) /\ n <= k
      /\ \A r \in DOMAIN v.confirmed : v.confirmed[r] = At(log, r, n)
      /\ \A r \in DOMAIN m.states : m.states[r] = At(log, r, k)
  <2>1. Len(log) \in Nat
    BY LenProperties
  <2>2. k \in 0 .. Len(log) /\ n <= k /\ \A r \in DOMAIN m.states : m.states[r] = At(log, r, k)
    BY DEF Genuine, Before
  <2>3. n \in 0 .. Len(log) /\ \A r \in DOMAIN v.confirmed : v.confirmed[r] = At(log, r, n)
    BY DEF Seen
  <2> HIDE DEF n, k
  <2> QED
    BY <2>1, <2>2, <2>3
<1> HIDE DEF n, k
<1>4. ASSUME NEW r \in DOMAIN v.confirmed
      PROVE  ToSet(v.confirmed[r]) \subseteq ToSet(w.confirmed[r])
  <2>1. CASE r \in DOMAIN m.states
    <3>1. r \in Resource
      BY <1>1, <2>1 DEF PartialStates
    <3>2. /\ Len(At(log, r, n)) <= Len(At(log, r, k))
          /\ \A j \in 1 .. Len(At(log, r, n)) : At(log, r, k)[j] = At(log, r, n)[j]
      BY <1>3, <3>1, AtGrows
    <3>3. At(log, r, n) \in Seq(Action) /\ At(log, r, k) \in Seq(Action)
      BY <1>3, <3>1, AtType
    <3>4. ToSet(At(log, r, n)) \subseteq ToSet(At(log, r, k))
      BY ONLY <3>2, <3>3, SetOfPrefix
    <3>5. w.confirmed[r] = At(log, r, k) /\ v.confirmed[r] = At(log, r, n)
      BY <1>2, <1>3, <2>1
    <3> QED
      BY <3>4, <3>5
  <2>2. CASE r \notin DOMAIN m.states
    BY <1>2, <2>2
  <2> QED
    BY <2>1, <2>2
<1>5. Keeps(v, w)
  <2> SUFFICES ASSUME NEW r \in DOMAIN v.confirmed
               PROVE  ToSet(v.optimistic[r]) \subseteq ToSet(w.optimistic[r])
    BY DEF Keeps
  <2>1. r \in DOMAIN w.confirmed
    BY <1>2
  <2>2. /\ ToSet(v.optimistic[r])
             = ToSet(v.confirmed[r]) \cup {x \in ToSet(v.pending) : x.resource = r}
        /\ ToSet(w.optimistic[r])
             = ToSet(w.confirmed[r]) \cup {x \in ToSet(w.pending) : x.resource = r}
    BY <1>2, <2>1, ShownIs
  <2> QED
    BY <1>2, <1>4, <2>2
<1> QED
  BY <1>5 DEF w

LEMMA ReceivedKeepsShown ==
  ASSUME NEW log \in Seq(Action), NEW v \in RebasedViews, Seen(log, v), NEW m \in Answer,
         Genuine(log, m), Before(v.lastSeen, m)
  PROVE  Keeps(v, Received(v, m))
<1>1. CASE m.type = "action"
  <2>1. m.envelope \in Envelope /\ Received(v, m) = ReceiveEnvelope(v, m.envelope)
    BY <1>1, AnswerIs DEF Received
  <2> QED
    BY <2>1, EnvelopeKeepsShown DEF Keeps
<1>2. CASE m.type = "replay"
  <2>1. m.actions \in Seq(Envelope) /\ Received(v, m) = Replayed(v, m.actions)
    BY <1>2, AnswerIs DEF Received
  <2> QED
    BY <2>1, ReplayKeepsShown
<1>3. CASE m.type = "snapshots"
  <2>1. Received(v, m) = HandleSnapshots(v, m.states, m.fromSeq)
    BY <1>3 DEF Received
  <2> QED
    BY <1>3, <2>1, SnapshotsKeepShown
<1> QED
  BY <1>1, <1>2, <1>3, AnswerIs

LEMMA DroppingKeepsShown ==
  ASSUME NEW v \in RebasedViews, NEW r \in Resource
  PROVE  Keeps(v, DropResource(v, r))
<1> DEFINE w == DropResource(v, r)
<1>1. /\ w \in RebasedViews /\ w.confirmed = Dropping(v.confirmed, r)
      /\ DOMAIN w.confirmed = DOMAIN v.confirmed \ {r}
      /\ ToSet(w.pending) = {a \in ToSet(v.pending) : a.resource # r}
  BY DropResourceIs, DropResourcePending
<1> HIDE DEF w
<1>2. ASSUME NEW x \in DOMAIN v.confirmed, x \in DOMAIN w.confirmed
      PROVE  ToSet(v.optimistic[x]) \subseteq ToSet(w.optimistic[x])
  <2>1. x # r /\ w.confirmed[x] = v.confirmed[x]
    BY <1>1, <1>2 DEF Dropping
  <2>2. /\ ToSet(v.optimistic[x])
             = ToSet(v.confirmed[x]) \cup {a \in ToSet(v.pending) : a.resource = x}
        /\ ToSet(w.optimistic[x])
             = ToSet(w.confirmed[x]) \cup {a \in ToSet(w.pending) : a.resource = x}
    BY <1>1, <1>2, ShownIs
  <2> QED
    BY <1>1, <2>1, <2>2
<1>3. Keeps(v, w)
  BY <1>2 DEF Keeps
<1> QED
  BY <1>3 DEF w

LEMMA DispatchKeepsShown ==
  ASSUME NEW v \in RebasedViews, NEW a \in Action
  PROVE  Keeps(v, ApplyOptimistic(v, a))
<1> DEFINE w == ApplyOptimistic(v, a)
<1>1. w \in RebasedViews /\ w.confirmed = v.confirmed /\ w.pending = Append(v.pending, a)
  BY ApplyOptimisticIs
<1> HIDE DEF w
<1>2. v.pending \in Seq(Action)
  BY DEF RebasedViews, View
<1>3. ToSet(w.pending) = ToSet(v.pending) \cup {a}
  BY <1>1, <1>2, SetOfAppend
<1>4. Keeps(v, w)
  <2> SUFFICES ASSUME NEW r \in DOMAIN v.confirmed
               PROVE  ToSet(v.optimistic[r]) \subseteq ToSet(w.optimistic[r])
    BY DEF Keeps
  <2>1. /\ ToSet(v.optimistic[r])
             = ToSet(v.confirmed[r]) \cup {x \in ToSet(v.pending) : x.resource = r}
        /\ ToSet(w.optimistic[r])
             = ToSet(w.confirmed[r]) \cup {x \in ToSet(w.pending) : x.resource = r}
    BY <1>1, ShownIs
  <2> QED
    BY <1>1, <1>3, <2>1
<1> QED
  BY <1>4 DEF w

\* How the view of a client that has seen what it holds of the log moves on.
Moves(log, v, w) ==
  \/ \E r \in DOMAIN v.confirmed : w = DropResource(v, r)
  \/ \E a \in Action : w = ApplyOptimistic(v, a)
  \/ \E m \in Answer : /\ Genuine(log, m) /\ Before(v.lastSeen, m)
                       /\ w = Received(v, m) /\ Seen(log, w)
                       /\ DOMAIN w.confirmed = DOMAIN v.confirmed \cup Snap(m)

LEMMA ClientMoves ==
  ASSUME SyncAssumption, TypeInv, QuietInv, NEW log \in Seq(Action), LoggedInv(log),
         NEW c \in ClientId, ClientStep(c)
  PROVE  /\ server' = server
         /\ \/ views' = views
            \/ /\ views' = [views EXCEPT ![c] = views'[c]]
               /\ Moves(log, views[c], views'[c])
<1> DEFINE v == views[c]
<1>1. views \in [ClientId -> RebasedViews] /\ v \in RebasedViews /\ Seen(log, v)
      /\ clients \in [ClientId -> Client]
  BY DEF TypeInv, LoggedInv
<1>2. \A w : views' = [views EXCEPT ![c] = w] =>
        views' = [views EXCEPT ![c] = views'[c]] /\ views'[c] = w
  BY <1>1
<1>3. ASSUME NEW j \in Conn, Reconnect(c, j) \/ \E rs \in Initial : Connect(c, j, rs)
      PROVE  server' = server /\ views' = views
  BY <1>3 DEF Reconnect, Connect
<1>4. ASSUME NEW r \in Resource, Subscribe(c, r)
      PROVE  server' = server /\ views' = views
  BY <1>4 DEF Subscribe
<1>5. ASSUME NEW r \in Resource, Unsubscribe(c, r)
      PROVE  server' = server /\ views' = [views EXCEPT ![c] = views'[c]]
             /\ Moves(log, v, views'[c])
  <2>1. /\ r \in DOMAIN v.confirmed /\ server' = server
        /\ views' = [views EXCEPT ![c] = DropResource(v, r)]
    BY <1>5 DEF Unsubscribe
  <2> QED
    BY <1>2, <2>1 DEF Moves
<1>6. ASSUME NEW s \in Session, Dispatch(c, s)
      PROVE  server' = server /\ views' = [views EXCEPT ![c] = views'[c]]
             /\ Moves(log, v, views'[c])
  <2> DEFINE a == [resource |-> s, by |-> c, n |-> clients[c].nextSeq]
  <2>1. a \in Action
    BY <1>1 DEF Action, SyncAssumption, Client
  <2>2. server' = server /\ views' = [views EXCEPT ![c] = ApplyOptimistic(v, a)]
    BY <1>6 DEF Dispatch
  <2> HIDE DEF a
  <2> QED
    BY <1>2, <2>1, <2>2 DEF Moves
<1>7. CASE Receive(c)
  <2> DEFINE k == clients[c].conn
             m == Head(down[k])
             w == Received(v, m)
  <2>1. /\ k \in Conn /\ down[k] # <<>> /\ down[k] \in Seq(Answer) /\ m \in Answer
        /\ views' = [views EXCEPT ![c] = w] /\ server' = server
    BY <1>7, ReceiveIs
  <2>2. k # Absent /\ conns[k].client # Absent
    BY <2>1 DEF SyncAssumption, QuietInv, FreshConns
  <2>3. Flow(log, v, down[k])
    BY <2>2 DEF LoggedInv, LinkedInv, LinkedTo, Linked
  <2> DEFINE ms == down[k]
  <2>4. /\ Len(ms) \in Nat /\ Len(ms) >= 1 /\ m = ms[1]
    BY <2>1, HeadTailProperties, LenProperties, EmptySeq
  <2>5. Genuine(log, m) /\ Before(v.lastSeen, m)
    BY <2>3, <2>4 DEF Flow
  <2>6. Seen(log, w) /\ DOMAIN w.confirmed = DOMAIN v.confirmed \cup Snap(m)
    BY <1>1, <2>1, <2>3, ReceiveKeepsFlow
  <2>7. views' = [views EXCEPT ![c] = views'[c]] /\ views'[c] = w
    BY <1>2, <2>1
  <2> HIDE DEF w, m
  <2>8. Moves(log, v, w)
    BY <2>1, <2>5, <2>6 DEF Moves, w, m
  <2> QED
    BY <2>1, <2>7, <2>8
<1>8. CASE Cut(c)
  BY <1>8 DEF Cut
<1> QED
  BY <1>3, <1>4, <1>5, <1>6, <1>7, <1>8 DEF ClientStep

LEMMA ServerMoves ==
  ASSUME SyncAssumption, TypeInv, NEW k \in Conn, ServerStep(k)
  PROVE  /\ views' = views
         /\ \/ server'.states = server.states
            \/ \E a \in Action :
                 server'.states = [server.states EXCEPT ![a.resource] = Append(@, a)]
<1>1. CASE HandleInitialize(k)
  BY <1>1 DEF HandleInitialize, TypeInv
<1>2. CASE HandleReconnect(k)
  BY <1>2 DEF HandleReconnect, TypeInv
<1>3. CASE HandleSubscribe(k)
  BY <1>3 DEF HandleSubscribe
<1>4. CASE FinishSubscribes(k)
  BY <1>4 DEF FinishSubscribes
<1>5. CASE HandleUnsubscribe(k)
  BY <1>5 DEF HandleUnsubscribe
<1>6. CASE HandleDispatch(k)
  <2>1. Head(up[k]) \in Message /\ Head(up[k]).type = "dispatchAction"
    BY <1>6, TakesType DEF HandleDispatch
  <2>2. PICK a \in Action : a = Head(up[k]).action
    BY <2>1, MessageIs
  <2>3. ApplyAndEmit(a) /\ views' = views
    BY <1>6, <2>2 DEF HandleDispatch
  <2> QED
    BY <2>3, ApplyAndEmitIs
<1>7. CASE HandleClose(k)
  BY <1>7 DEF HandleClose, TypeInv
<1> QED
  BY <1>1, <1>2, <1>3, <1>4, <1>5, <1>6, <1>7 DEF ServerStep

\* A step changes the log, or one view, or neither.
LEMMA NextMoves ==
  ASSUME SyncAssumption, SyncInv, [Next]_vars
  PROVE  \/ UNCHANGED <<server.states, views>>
         \/ /\ UNCHANGED views
            /\ \E a \in Action :
                 server'.states = [server.states EXCEPT ![a.resource] = Append(@, a)]
         \/ /\ UNCHANGED server.states
            /\ \E c \in ClientId, log \in Seq(Action) :
                 /\ LoggedInv(log)
                 /\ views' = [views EXCEPT ![c] = views'[c]]
                 /\ Moves(log, views[c], views'[c])
<1>1. TypeInv /\ QuietInv /\ Logged
  BY DEF SyncInv
<1>2. PICK log \in Seq(Action) : LoggedInv(log)
  BY <1>1 DEF Logged
<1>3. ASSUME NEW c \in ClientId, ClientStep(c)
      PROVE  \/ UNCHANGED <<server.states, views>>
             \/ /\ UNCHANGED server.states
                /\ views' = [views EXCEPT ![c] = views'[c]]
                /\ Moves(log, views[c], views'[c])
  BY <1>1, <1>2, <1>3, ClientMoves
<1>4. ASSUME NEW k \in Conn, ServerStep(k)
      PROVE  /\ UNCHANGED views
             /\ \/ UNCHANGED server.states
                \/ \E a \in Action :
                     server'.states = [server.states EXCEPT ![a.resource] = Append(@, a)]
  BY <1>1, <1>4, ServerMoves
<1>5. ASSUME NEW r \in Resource, AgentAction(r)
      PROVE  /\ UNCHANGED views
             /\ \E a \in Action :
                  server'.states = [server.states EXCEPT ![a.resource] = Append(@, a)]
  <2>1. PICK a \in Action : ApplyAndEmit(a) /\ UNCHANGED views
    BY <1>1, <1>5, AgentActionIs
  <2> QED
    BY <1>1, <2>1, ApplyAndEmitIs
<1>6. CASE UNCHANGED vars
  BY <1>6 DEF vars
<1> QED
  BY <1>2, <1>3, <1>4, <1>5, <1>6 DEF Next

LEMMA MovesKeepShown ==
  ASSUME NEW log \in Seq(Action), NEW v \in RebasedViews, Seen(log, v), NEW w,
         Moves(log, v, w)
  PROVE  w \in RebasedViews /\ Keeps(v, w)
<1>1. CASE \E r \in DOMAIN v.confirmed : w = DropResource(v, r)
  <2>1. PICK r \in DOMAIN v.confirmed : w = DropResource(v, r)
    BY <1>1
  <2>2. r \in Resource
    BY DEF RebasedViews, View, PartialStates
  <2> QED
    BY <2>1, <2>2, DropResourceIs, DroppingKeepsShown
<1>2. CASE \E a \in Action : w = ApplyOptimistic(v, a)
  BY <1>2, ApplyOptimisticIs, DispatchKeepsShown
<1>3. CASE \E m \in Answer : /\ Genuine(log, m) /\ Before(v.lastSeen, m)
                             /\ w = Received(v, m)
  BY <1>3, ReceivedIsRebased, ReceivedKeepsShown
<1> QED
  BY <1>1, <1>2, <1>3 DEF Moves

\* What a client shows of a resource it keeps does not vanish again, whatever echo,
\* replay or snapshot it receives (sessionClientState.ts, receiveEnvelope).
THEOREM ShownIsNotLost ==
  ASSUME ~ Burst
  PROVE  Spec => ShownStaysShown
<1>1. SyncInv /\ [Next]_vars =>
        [\A c \in ClientId :
           \A r \in DOMAIN views[c].optimistic \cap DOMAIN views'[c].optimistic :
             ToSet(views[c].optimistic[r]) \subseteq ToSet(views'[c].optimistic[r])]_vars
  <2> SUFFICES ASSUME SyncInv, [Next]_vars, NEW c \in ClientId,
                      NEW r \in DOMAIN views[c].optimistic \cap DOMAIN views'[c].optimistic
               PROVE  ToSet(views[c].optimistic[r]) \subseteq ToSet(views'[c].optimistic[r])
    OBVIOUS
  <2>1. views \in [ClientId -> RebasedViews]
    BY DEF SyncInv, TypeInv
  <2>2. CASE UNCHANGED views
    BY <2>2
  <2>3. ASSUME NEW d \in ClientId, NEW log \in Seq(Action), LoggedInv(log),
               views' = [views EXCEPT ![d] = views'[d]], Moves(log, views[d], views'[d])
        PROVE  ToSet(views[c].optimistic[r]) \subseteq ToSet(views'[c].optimistic[r])
    <3>1. CASE c = d
      <4>1. Seen(log, views[c])
        BY <2>3 DEF LoggedInv
      <4>2. views'[c] \in RebasedViews /\ Keeps(views[c], views'[c])
        BY <2>1, <2>3, <3>1, <4>1, MovesKeepShown
      <4>3. /\ DOMAIN views[c].optimistic = DOMAIN views[c].confirmed
            /\ DOMAIN views'[c].optimistic = DOMAIN views'[c].confirmed
        BY <2>1, <4>2 DEF RebasedViews, IsRebased
      <4> QED
        BY <4>2, <4>3 DEF Keeps
    <3>2. CASE c # d
      BY <2>1, <2>3, <3>2
    <3> QED
      BY <3>1, <3>2
  <2> QED
    BY SyncAssumption, <2>2, <2>3, NextMoves
<1> QED
  BY <1>1, SyncHolds, PTL DEF Spec, ShownStaysShown

-----------------------------------------------------------------------------
(* Clients and server implement replicated logs *)

LEMMA BeginsWith ==
  ASSUME NEW S, NEW p \in Seq(S), NEW q \in Seq(S), Len(p) <= Len(q),
         \A j \in 1 .. Len(p) : q[j] = p[j]
  PROVE  IsPrefix(p, q)
<1> DEFINE n == Len(p)
           a == SubSeq(p, 1, n)
           b == SubSeq(q, 1, n)
<1>1. /\ n \in Nat /\ Len(q) \in Nat
      /\ \A i \in 1 .. n : p[i] \in S /\ q[i] \in S
  BY LenProperties, ElementOfSeq
<1>2. /\ a \in Seq(S) /\ Len(a) = n
      /\ \A i \in 1 .. n : a[i] = p[i]
  BY <1>1, SubSeqProperties
<1>3. /\ b \in Seq(S) /\ Len(b) = n
      /\ \A i \in 1 .. n : b[i] = q[i]
  BY <1>1, SubSeqProperties
<1> HIDE DEF a, b
<1>4. a = b
  BY <1>2, <1>3, SeqEqual
<1> QED
  BY <1>4 DEF IsPrefix, a, b

\* What a client has seen of a resource is a beginning of what comes later.
LEMMA AtBegins ==
  ASSUME NEW log \in Seq(Action), NEW r \in Resource, NEW m \in 0 .. Len(log),
         NEW n \in m .. Len(log)
  PROVE  IsPrefix(At(log, r, m), At(log, r, n))
<1>1. Len(log) \in Nat
  BY LenProperties
<1>2. n \in 0 .. Len(log)
  BY <1>1
<1>3. At(log, r, m) \in Seq(Action) /\ At(log, r, n) \in Seq(Action)
  BY <1>2, AtType
<1>4. /\ Len(At(log, r, m)) <= Len(At(log, r, n))
      /\ \A j \in 1 .. Len(At(log, r, m)) : At(log, r, n)[j] = At(log, r, m)[j]
  BY AtGrows
<1> QED
  BY ONLY <1>3, <1>4, BeginsWith

\* No message takes a client back.
LEMMA ReceivedGoesForward ==
  ASSUME NEW v \in RebasedViews, NEW m \in Answer
  PROVE  v.lastSeen <= Received(v, m).lastSeen
<1>1. \A w \in RebasedViews : w.lastSeen \in Nat
  BY DEF RebasedViews, View
<1>2. \A w \in RebasedViews, e \in Envelope :
        /\ ReceiveEnvelope(w, e) \in RebasedViews
        /\ w.lastSeen <= ReceiveEnvelope(w, e).lastSeen
  <2> SUFFICES ASSUME NEW w \in RebasedViews, NEW e \in Envelope
               PROVE  /\ ReceiveEnvelope(w, e) \in RebasedViews
                      /\ w.lastSeen <= ReceiveEnvelope(w, e).lastSeen
    OBVIOUS
  <2>1. /\ ReceiveEnvelope(w, e) \in RebasedViews
        /\ ReceiveEnvelope(w, e).lastSeen = Largest(w.lastSeen, e.seq)
    BY ReceiveEnvelopeIs
  <2>2. w.lastSeen \in Nat /\ e.seq \in Nat
    BY <1>1 DEF Envelope
  <2> QED
    BY <2>1, <2>2 DEF Largest
<1>3. CASE m.type = "action"
  <2>1. m.envelope \in Envelope /\ Received(v, m) = ReceiveEnvelope(v, m.envelope)
    BY <1>3, AnswerIs DEF Received
  <2> QED
    BY <1>2, <2>1
<1>4. CASE m.type = "replay"
  <2> DEFINE q == m.actions
             V == {w \in RebasedViews : v.lastSeen <= w.lastSeen}
  <2>1. q \in Seq(Envelope) /\ Received(v, m) = Replayed(v, q)
    BY <1>4, AnswerIs DEF Received
  <2>2. v \in V
    BY <1>1
  <2>3. \A w \in V, e \in Envelope : ReceiveEnvelope(w, e) \in V
    BY <1>1, <1>2
  <2> HIDE DEF q, V
  <2>4. IsClosed(V, Envelope)
    BY <2>3 DEF IsClosed
  <2>5. PICK after : Replays(after, v, q, V)
    BY <2>1, <2>2, <2>4, ReplayedSteps
  <2>6. Len(q) \in Nat
    BY <2>1, LenProperties
  <2>7. Replayed(v, q) \in V
    BY <2>5, <2>6 DEF Replays
  <2> QED
    BY <2>1, <2>7 DEF V
<1>5. CASE m.type = "snapshots"
  <2> DEFINE w == Received(v, m)
  <2>1. m.states \in PartialStates /\ m.fromSeq \in Nat
        /\ w = HandleSnapshots(v, m.states, m.fromSeq)
    BY <1>5, AnswerIs DEF Received
  <2> HIDE DEF w
  <2>2. w.lastSeen = IF DOMAIN m.states = {} THEN v.lastSeen
                     ELSE Largest(v.lastSeen, m.fromSeq)
    BY <2>1, HandleSnapshotsIs, ZenonT(40)
  <2>3. v.lastSeen \in Nat
    BY <1>1
  <2> QED
    BY <2>1, <2>2, <2>3 DEF Largest, w
<1> QED
  BY <1>3, <1>4, <1>5, AnswerIs

\* What a client holds after a message is a later part of the log.
LEMMA ReceivedCatchesUp ==
  ASSUME NEW log \in Seq(Action), IsLog(log), NEW v \in RebasedViews, Seen(log, v),
         NEW m \in Answer, Seen(log, Received(v, m)),
         DOMAIN Received(v, m).confirmed = DOMAIN v.confirmed \cup Snap(m)
  PROVE  /\ DOMAIN v.confirmed \subseteq DOMAIN Received(v, m).confirmed
         /\ DOMAIN Received(v, m).confirmed \subseteq Resource
         /\ \A r \in DOMAIN Received(v, m).confirmed :
              IsPrefix(Received(v, m).confirmed[r], server.states[r])
         /\ \A r \in DOMAIN v.confirmed :
              IsPrefix(v.confirmed[r], Received(v, m).confirmed[r])
<1> DEFINE w == Received(v, m)
           k == v.lastSeen
           n == w.lastSeen
<1>1. w \in RebasedViews /\ k <= n
  BY ReceivedIsRebased, ReceivedGoesForward
<1>2. /\ k \in 0 .. Len(log) /\ n \in 0 .. Len(log)
      /\ \A r \in DOMAIN v.confirmed : v.confirmed[r] = At(log, r, k)
      /\ \A r \in DOMAIN w.confirmed : w.confirmed[r] = At(log, r, n)
  BY DEF Seen
<1>3. Len(log) \in Nat
  BY LenProperties
<1>4. DOMAIN w.confirmed \subseteq Resource /\ DOMAIN v.confirmed \subseteq DOMAIN w.confirmed
  BY <1>1 DEF RebasedViews, View, PartialStates
<1> HIDE DEF w, k, n
<1>5. n \in k .. Len(log) /\ Len(log) \in n .. Len(log)
  BY <1>1, <1>2, <1>3
<1>6. ASSUME NEW r \in DOMAIN w.confirmed
      PROVE  IsPrefix(w.confirmed[r], server.states[r])
  <2>1. r \in Resource /\ server.states[r] = At(log, r, Len(log)) /\ w.confirmed[r] = At(log, r, n)
    BY <1>2, <1>4 DEF IsLog
  <2> QED
    BY <1>2, <1>5, <2>1, AtBegins
<1>7. ASSUME NEW r \in DOMAIN v.confirmed
      PROVE  IsPrefix(v.confirmed[r], w.confirmed[r])
  <2>1. r \in Resource /\ v.confirmed[r] = At(log, r, k) /\ w.confirmed[r] = At(log, r, n)
    BY <1>2, <1>4
  <2> QED
    BY <1>2, <1>5, <2>1, AtBegins
<1> QED
  BY <1>4, <1>6, <1>7 DEF w

LEMMA ReplicasPrefix == \A s, t : Replicas!IsPrefix(s, t) <=> IsPrefix(s, t)
BY DEF IsPrefix, Replicas!IsPrefix

\* The host's log of a resource grows by one action.
LEMMA LogsGrow ==
  ASSUME TypeInv, UNCHANGED views, NEW a \in Action,
         server'.states = [server.states EXCEPT ![a.resource] = Append(@, a)]
  PROVE  Replicas!Grow
<1> DEFINE r == a.resource
           log == server.states
           s == log[r]
<1>1. r \in Resource /\ log \in [Resource -> Seq(Action)] /\ s \in Seq(Action)
  BY DEF TypeInv, Action, State
<1>2. /\ Append(s, a) \in Seq(Action) /\ Len(Append(s, a)) = Len(s) + 1 /\ Len(s) \in Nat
      /\ \A i \in 1 .. Len(s) : Append(s, a)[i] = s[i]
  BY <1>1, AppendProperties, LenProperties
<1>3. server'.states[r] = Append(s, a)
      /\ server'.states = [server.states EXCEPT ![r] = server'.states[r]]
  BY <1>1
<1> HIDE DEF s
<1> DEFINE t == Append(s, a)
<1>4. t \in Seq(Action) /\ Len(s) <= Len(t) /\ \A i \in 1 .. Len(s) : t[i] = s[i]
  BY <1>2
<1>5. s \in Seq(Action) /\ Len(t) = Len(s) + 1
  BY <1>1, <1>2
<1> HIDE DEF t
<1>6. IsPrefix(s, t)
  BY ONLY <1>4, <1>5, BeginsWith
<1>7. server'.states[r] = t /\ server.states[r] = s
  BY <1>3 DEF t, s
<1> QED
  BY <1>1, <1>3, <1>5, <1>6, <1>7, ReplicasPrefix DEF Replicas!Grow

\* A step of a client's view is a step along the log, or none.
LEMMA ViewMoves ==
  ASSUME TypeInv, NEW c \in ClientId, NEW log \in Seq(Action), LoggedInv(log),
         views' = [views EXCEPT ![c] = views'[c]], Moves(log, views[c], views'[c]),
         UNCHANGED server.states
  PROVE  [Replicas!Next]_(Replicas!vars)
<1> DEFINE v == views[c]
           w == views'[c]
           view == [d \in ClientId |-> views[d].confirmed]
           next == [d \in ClientId |-> views'[d].confirmed]
<1>1. /\ views \in [ClientId -> RebasedViews] /\ v \in RebasedViews /\ Seen(log, v)
      /\ IsLog(log)
  BY DEF TypeInv, LoggedInv
<1>2. /\ next = [view EXCEPT ![c] = w.confirmed]
      /\ view[c] = v.confirmed /\ next[c] = w.confirmed
  BY <1>1
<1>3. view' = next
  OBVIOUS
<1> HIDE DEF v, w
<1>4. ASSUME NEW r \in DOMAIN v.confirmed, w = DropResource(v, r)
      PROVE  Replicas!Drop(c)
  <2>1. r \in Resource
    BY <1>1 DEF RebasedViews, View, PartialStates
  <2>2. w.confirmed = [x \in DOMAIN v.confirmed \ {r} |-> v.confirmed[x]]
    BY <1>1, <1>4, <2>1, DropResourceIs DEF Dropping
  <2>3. /\ r \in DOMAIN view[c]
        /\ next = [view EXCEPT ![c] = [q \in DOMAIN @ \ {r} |-> @[q]]]
    BY <1>2, <2>2
  <2> QED
    BY <2>3 DEF Replicas!Drop
<1>5. ASSUME NEW a \in Action, w = ApplyOptimistic(v, a)
      PROVE  UNCHANGED Replicas!vars
  <2>1. w.confirmed = v.confirmed
    BY <1>1, <1>5, ApplyOptimisticIs
  <2>2. next = view
    BY <1>2, <2>1
  <2> QED
    BY <1>3, <2>2 DEF Replicas!vars
<1>6. ASSUME NEW m \in Answer, w = Received(v, m), Seen(log, w),
             DOMAIN w.confirmed = DOMAIN v.confirmed \cup Snap(m)
      PROVE  Replicas!CatchUp(c)
  <2>1. /\ DOMAIN v.confirmed \subseteq DOMAIN w.confirmed
        /\ DOMAIN w.confirmed \subseteq Resource
        /\ \A r \in DOMAIN w.confirmed : IsPrefix(w.confirmed[r], server.states[r])
        /\ \A r \in DOMAIN v.confirmed : IsPrefix(v.confirmed[r], w.confirmed[r])
    BY <1>1, <1>6, ReceivedCatchesUp
  <2>2. /\ next = [view EXCEPT ![c] = next[c]]
        /\ DOMAIN view[c] \subseteq DOMAIN next[c]
        /\ DOMAIN next[c] \subseteq Resource
        /\ \A r \in DOMAIN next[c] : Replicas!IsPrefix(next[c][r], server.states[r])
        /\ \A r \in DOMAIN view[c] : Replicas!IsPrefix(view[c][r], next[c][r])
    BY <1>2, <2>1, ReplicasPrefix
  <2> QED
    BY <2>2 DEF Replicas!CatchUp
<1> QED
  BY <1>4, <1>5, <1>6 DEF Moves, Replicas!Next, v, w

\* Clients and server together implement replicated logs: what a client holds of a
\* resource is always a beginning of the host's log of it and moves along that log
\* only forwards (protocolServerHandler.ts, sessionClientState.ts).
THEOREM ViewsFollow ==
  ASSUME ~ Burst
  PROVE  Spec => ViewsFollowTheLog
<1>1. Init => Replicas!Init
  BY DEF Init, NewView, Replicas!Init
<1>2. SyncInv /\ [Next]_vars => [Replicas!Next]_(Replicas!vars)
  <2> SUFFICES ASSUME SyncInv, [Next]_vars
               PROVE  [Replicas!Next]_(Replicas!vars)
    OBVIOUS
  <2>1. TypeInv
    BY DEF SyncInv
  <2>2. CASE UNCHANGED <<server.states, views>>
    BY <2>2 DEF Replicas!vars
  <2>3. ASSUME UNCHANGED views, NEW a \in Action,
               server'.states = [server.states EXCEPT ![a.resource] = Append(@, a)]
        PROVE  Replicas!Next
    BY <2>1, <2>3, LogsGrow DEF Replicas!Next
  <2>4. ASSUME UNCHANGED server.states, NEW c \in ClientId, NEW log \in Seq(Action),
               LoggedInv(log), views' = [views EXCEPT ![c] = views'[c]],
               Moves(log, views[c], views'[c])
        PROVE  [Replicas!Next]_(Replicas!vars)
    BY <2>1, <2>4, ViewMoves
  <2> QED
    BY SyncAssumption, <2>2, <2>3, <2>4, NextMoves
<1> QED
  BY <1>1, <1>2, SyncHolds, PTL DEF Spec, ViewsFollowTheLog, Replicas!Spec

=============================================================================
