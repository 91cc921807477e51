----------------------------- MODULE ProtocolSync -----------------------------
(***************************************************************************)
(* How clients are kept in step with the agent host: the protocol server   *)
(* with its subscriptions and its replay buffer, the connections, and the  *)
(* client's state with confirmed and optimistic views.                     *)
(*                                                                         *)
(* The state of a resource is the sequence of the actions applied to it,   *)
(* which determines what the reducer makes of them: two states are equal   *)
(* whenever the sequences are.                                             *)
(***************************************************************************)
EXTENDS Naturals, Sequences, FiniteSets, SequencesExt, Subsequences

CONSTANTS
  ClientId,    \* client ids
  Conn,        \* connections, each used once
  Resource,    \* everything that can be subscribed to
  Session,     \* the resources clients may dispatch actions to
  Agent,       \* the origin of actions that no client dispatched
  Absent,      \* no client, no connection
  Capacity,    \* REPLAY_BUFFER_CAPACITY
  Initial,     \* what clients may ask for in initialSubscriptions
  Burst,       \* do clients go on without waiting for the answer to a subscribe?
  MaxSeq,      \* bound on the actions the host applies
  MaxDispatch, \* bound on the actions a client dispatches
  MaxUp        \* bound on the messages on their way from a client

ASSUME SyncAssumption ==
  /\ Session \subseteq Resource
  /\ Agent \notin ClientId
  /\ Absent \notin ClientId \cup Conn
  /\ Capacity \in Nat \ {0}
  /\ Initial \subseteq SUBSET Resource
  /\ Burst \in BOOLEAN
  /\ MaxSeq \in Nat
  /\ MaxDispatch \in Nat
  /\ MaxUp \in Nat \ {0}

VARIABLES
  server,   \* the state manager and the maps of the protocol server
  conns,    \* what the server keeps per connection
  line,     \* the state of each connection
  up,       \* messages from the clients, per connection
  down,     \* messages to the clients, per connection
  clients,  \* the protocol client: its connection and requests
  views     \* the client's state manager: confirmed and optimistic states

vars == <<server, conns, line, up, down, clients, views>>

-----------------------------------------------------------------------------
(* Data *)

\* An action is told apart from all others by who sent it and its number there.
Action == [resource : Resource, by : ClientId \cup {Agent}, n : Nat]
Envelope == [seq : Nat, action : Action]
State == Seq(Action)

\* f is a partial function from resources to states.
IsStates(f) == DOMAIN f \subseteq Resource /\ \A r \in DOMAIN f : f[r] \in State

Dropping(f, k) == [x \in DOMAIN f \ {k} |-> f[x]]
Largest(m, n) == IF m >= n THEN m ELSE n
ActionsOn(r) == {a \in Action : a.resource = r}
Of(r, actions) == Within(actions, ActionsOn(r))

NewClient == [conn |-> Absent, ready |-> FALSE, asked |-> {}, nextSeq |-> 1]

\* Broken variant: the last seen sequence number is not initialized.
UninitializedView ==
  [lastSeen |-> Absent, confirmed |-> <<>>, optimistic |-> <<>>, pending |-> <<>>]

NewView ==
  [lastSeen |-> 0, confirmed |-> <<>>, optimistic |-> <<>>, pending |-> <<>>]

NewConn == [client |-> Absent, subs |-> {}, jobs |-> <<>>]

Init ==
  /\ server = [seq |-> 0, states |-> [r \in Resource |-> <<>>],
               buffer |-> <<>>, clients |-> [c \in ClientId |-> Absent]]
  /\ conns = [k \in Conn |-> NewConn]
  /\ line = [k \in Conn |-> "unused"]
  /\ up = [k \in Conn |-> <<>>]
  /\ down = [k \in Conn |-> <<>>]
  /\ clients = [c \in ClientId |-> NewClient]
  /\ views = [c \in ClientId |-> NewView]

-----------------------------------------------------------------------------
(* The client's state, sessionClientState.ts *)

\* The confirmed state of a resource with the pending actions on top.
Rebased(v, r) == v.confirmed[r] \o Of(r, v.pending)

RecomputeOptimistic(v, rs) ==
  [v EXCEPT !.optimistic =
     [r \in DOMAIN v.confirmed |->
        IF r \in rs THEN Rebased(v, r) ELSE @[r]]]

\* Broken variant: pending actions are not applied again to a new snapshot.
HandleSnapshotsOnly(v, states, fromSeq) ==
  LET held == DOMAIN v.confirmed \cup DOMAIN states IN
  [v EXCEPT
     !.lastSeen = IF DOMAIN states = {} THEN @ ELSE Largest(@, fromSeq),
     !.confirmed = [r \in held |-> IF r \in DOMAIN states THEN states[r] ELSE @[r]],
     !.optimistic = [r \in held |-> IF r \in DOMAIN states THEN states[r] ELSE @[r]]]

HandleSnapshots(v, states, fromSeq) ==
  LET taken == [v EXCEPT
        !.lastSeen = IF DOMAIN states = {} THEN @ ELSE Largest(@, fromSeq),
        !.confirmed = [r \in DOMAIN @ \cup DOMAIN states |->
                         IF r \in DOMAIN states THEN states[r] ELSE @[r]]]
  IN RecomputeOptimistic(taken, DOMAIN states)

\* An action is applied to the state of its resource if there is one.
WithAction(states, a) ==
  IF a.resource \in DOMAIN states
  THEN [states EXCEPT ![a.resource] = Append(@, a)] ELSE states

ApplyOptimistic(v, a) ==
  [v EXCEPT !.pending = Append(@, a), !.optimistic = WithAction(@, a)]

\* Broken variant: only sessions with pending actions are recomputed.
ReceiveEnvelopePendingOnly(v, e) ==
  LET seen == [v EXCEPT
        !.lastSeen = Largest(@, e.seq),
        !.confirmed = WithAction(@, e.action),
        !.pending = Within(@, Action \ {e.action})]
  IN RecomputeOptimistic(seen, {p.resource : p \in ToSet(seen.pending)})

\* Root actions have no origin: among the pending actions there is none.
ReceiveEnvelope(v, e) ==
  LET seen == [v EXCEPT
        !.lastSeen = Largest(@, e.seq),
        !.confirmed = WithAction(@, e.action),
        !.pending = Within(@, Action \ {e.action})]
  IN RecomputeOptimistic(seen, {e.action.resource} \cup {p.resource : p \in ToSet(seen.pending)})

DropResource(v, r) ==
  [v EXCEPT !.confirmed = Dropping(@, r),
             !.optimistic = Dropping(@, r),
             !.pending = Within(@, Action \ ActionsOn(r))]

\* A replay is received envelope by envelope.
Replayed(v, envelopes) ==
  LET after[n \in 0 .. Len(envelopes)] ==
        IF n = 0 THEN v ELSE ReceiveEnvelope(after[n - 1], envelopes[n])
  IN after[Len(envelopes)]

\* What a client makes of a message from the server.
Received(v, m) ==
  CASE m.type = "action" -> ReceiveEnvelope(v, m.envelope)
    [] m.type = "replay" -> Replayed(v, m.actions)
    [] m.type = "snapshots" -> HandleSnapshots(v, m.states, m.fromSeq)

-----------------------------------------------------------------------------
(* What clients do *)

Sent(k, m) ==
  /\ Len(up[k]) < MaxUp
  /\ up' = [up EXCEPT ![k] = Append(@, m)]

Online(c) == clients[c].conn # Absent /\ clients[c].ready

\* A client without any state connects, and may ask for snapshots right away.
Connect(c, k, rs) ==
  /\ clients[c].conn = Absent
  /\ DOMAIN views[c].confirmed = {}
  /\ line[k] = "unused"
  /\ line' = [line EXCEPT ![k] = "open"]
  /\ clients' = [clients EXCEPT ![c].conn = k]
  /\ Sent(k, [type |-> "initialize", client |-> c, subs |-> rs])
  /\ UNCHANGED <<server, conns, down, views>>

\* A client that has state takes up again where it was.
Reconnect(c, k) ==
  /\ clients[c].conn = Absent
  /\ DOMAIN views[c].confirmed # {}
  /\ line[k] = "unused"
  /\ line' = [line EXCEPT ![k] = "open"]
  /\ clients' = [clients EXCEPT ![c].conn = k]
  /\ Sent(k, [type |-> "reconnect", client |-> c,
              lastSeen |-> views[c].lastSeen,
              subs |-> DOMAIN views[c].confirmed])
  /\ UNCHANGED <<server, conns, down, views>>

Subscribe(c, r) ==
  /\ Online(c)
  /\ r \notin DOMAIN views[c].confirmed \cup clients[c].asked
  /\ clients' = [clients EXCEPT ![c].asked = @ \cup {r}]
  /\ Sent(clients[c].conn, [type |-> "subscribe", resource |-> r])
  /\ UNCHANGED <<server, conns, line, down, views>>

Unsubscribe(c, r) ==
  /\ Online(c)
  /\ r \in DOMAIN views[c].confirmed
  /\ views' = [views EXCEPT ![c] = DropResource(@, r)]
  /\ Sent(clients[c].conn, [type |-> "unsubscribe", resource |-> r])
  /\ UNCHANGED <<server, conns, line, down, clients>>

\* A client acts on a session it holds, or with Burst on one it has asked for.
Dispatch(c, s) ==
  LET a == [resource |-> s, by |-> c, n |-> clients[c].nextSeq] IN
  /\ Online(c)
  /\ \/ s \in DOMAIN views[c].confirmed
     \/ Burst /\ s \in clients[c].asked
  /\ clients[c].nextSeq <= MaxDispatch
  /\ clients' = [clients EXCEPT ![c].nextSeq = @ + 1]
  /\ views' = [views EXCEPT ![c] = ApplyOptimistic(@, a)]
  /\ Sent(clients[c].conn, [type |-> "dispatchAction", action |-> a])
  /\ UNCHANGED <<server, conns, line, down>>

Receive(c) ==
  LET k == clients[c].conn
      m == Head(down[k])
  IN
  /\ k # Absent
  /\ down[k] # <<>>
  /\ views' = [views EXCEPT ![c] = Received(@, m)]
  /\ clients' = [clients EXCEPT
       ![c].ready = @ \/ m.type # "action",
       ![c].asked = IF m.type = "snapshots" THEN @ \ DOMAIN m.states ELSE @]
  /\ down' = [down EXCEPT ![k] = Tail(@)]
  /\ UNCHANGED <<server, conns, line, up>>

\* The connection breaks: what is on its way to the client is lost, and of what
\* is on its way to the server the last messages may be. A handshake that has not
\* arrived by then is lost: it does not overtake the handshake of a later
\* connection of the same client.
Cut(c) ==
  LET k == clients[c].conn IN
  /\ k # Absent
  /\ line' = [line EXCEPT ![k] = "cut"]
  /\ clients' = [clients EXCEPT ![c].conn = Absent, ![c].ready = FALSE,
                                ![c].asked = {}]
  /\ down' = [down EXCEPT ![k] = <<>>]
  /\ \E n \in 0 .. Len(up[k]) :
       /\ conns[k].client = Absent => n = 0
       /\ up' = [up EXCEPT ![k] = SubSeq(@, 1, n)]
  /\ UNCHANGED <<server, conns, views>>

-----------------------------------------------------------------------------
(* What the server does: sessionStateManager.ts, protocolServerHandler.ts *)

\* Messages for a connection that is gone are dropped.
Answered(k, ms) ==
  IF line[k] = "open" THEN [down EXCEPT ![k] = @ \o ms] ELSE down

IsRelevantToClient(k, e) == e.action.resource \in conns[k].subs

\* The replay buffer with one more envelope: the oldest one goes if it is full.
Buffered(e) ==
  LET buffer == Append(server.buffer, e)
  IN IF Len(buffer) > Capacity THEN Tail(buffer) ELSE buffer

\* The connections of the registered clients that are to get an envelope.
Receivers(e) ==
  {k \in Conn : /\ \E c \in ClientId : server.clients[c] = k
                /\ IsRelevantToClient(k, e)
                /\ line[k] = "open"}

ApplyAndEmit(a) ==
  LET e == [seq |-> server.seq + 1, action |-> a] IN
  /\ server' = [server EXCEPT !.seq = @ + 1,
                              !.states[a.resource] = Append(@, a),
                              !.buffer = Buffered(e)]
  /\ down' = [k \in Conn |->
       IF k \in Receivers(e)
       THEN Append(down[k], [type |-> "action", envelope |-> e])
       ELSE down[k]]

\* While a subscribe is between its snapshot and its answer, nothing else runs
\* but further messages that arrived together with it.
MayRun(k) == \A j \in Conn : conns[j].jobs # <<>> => Burst /\ j = k
Idle == \A j \in Conn : conns[j].jobs = <<>>

\* The server takes the next message of connection k, which has this type.
Takes(k, type) ==
  /\ line[k] \in {"open", "cut"}
  /\ up[k] # <<>>
  /\ Head(up[k]).type = type
  /\ MayRun(k)
  /\ up' = [up EXCEPT ![k] = Tail(@)]

Snapshots(rs) ==
  [type |-> "snapshots", states |-> [r \in rs |-> server.states[r]],
   fromSeq |-> server.seq]

HandleInitialize(k) ==
  LET m == Head(up[k]) IN
  /\ Takes(k, "initialize")
  /\ server' = [server EXCEPT !.clients[m.client] = k]
  /\ conns' = [conns EXCEPT ![k].client = m.client, ![k].subs = m.subs]
  /\ down' = Answered(k, <<Snapshots(m.subs)>>)
  /\ UNCHANGED <<line, clients, views>>

OldestBuffered ==
  IF server.buffer # <<>> THEN Head(server.buffer).seq ELSE server.seq

\* Broken variant: counts one envelope more than the buffer holds.
CanReplayOneMore(lastSeen) == lastSeen + Capacity + 1 >= server.seq

CanReplay(lastSeen) == lastSeen >= OldestBuffered

\* Broken variant: the last envelope the client has seen is replayed, too.
MissedAndSeen(rs, lastSeen) ==
  Within(server.buffer,
         {e \in Envelope : e.seq >= lastSeen /\ e.action.resource \in rs})

Missed(rs, lastSeen) ==
  Within(server.buffer,
         {e \in Envelope : e.seq > lastSeen /\ e.action.resource \in rs})

HandleReconnect(k) ==
  LET m == Head(up[k]) IN
  /\ Takes(k, "reconnect")
  /\ server' = [server EXCEPT !.clients[m.client] = k]
  /\ conns' = [conns EXCEPT ![k].client = m.client, ![k].subs = m.subs]
  /\ down' = Answered(k, <<IF CanReplay(m.lastSeen)
                           THEN [type |-> "replay",
                                 actions |-> Missed(m.subs, m.lastSeen)]
                           ELSE Snapshots(m.subs)>>)
  /\ UNCHANGED <<line, clients, views>>

\* The snapshot is taken; subscribing and answering come after an await.
HandleSubscribe(k) ==
  /\ Takes(k, "subscribe")
  /\ conns' = [conns EXCEPT
       ![k].jobs = Append(@, Snapshots({Head(up[k]).resource}))]
  /\ UNCHANGED <<server, line, down, clients, views>>

FinishSubscribes(k) ==
  LET jobs == conns[k].jobs IN
  /\ jobs # <<>>
  /\ conns' = [conns EXCEPT
       ![k].subs = @ \cup UNION {DOMAIN m.states : m \in ToSet(jobs)},
       ![k].jobs = <<>>]
  /\ down' = Answered(k, jobs)
  /\ UNCHANGED <<server, line, up, clients, views>>

HandleUnsubscribe(k) ==
  /\ Takes(k, "unsubscribe")
  /\ conns' = [conns EXCEPT ![k].subs = @ \ {Head(up[k]).resource}]
  /\ UNCHANGED <<server, line, down, clients, views>>

\* Broken variant: the envelope does not say who dispatched the action.
HandleDispatchNoOrigin(k) ==
  /\ Takes(k, "dispatchAction")
  /\ ApplyAndEmit([Head(up[k]).action EXCEPT !.by = Agent])
  /\ UNCHANGED <<conns, line, clients, views>>

HandleDispatch(k) ==
  /\ Takes(k, "dispatchAction")
  /\ ApplyAndEmit(Head(up[k]).action)
  /\ UNCHANGED <<conns, line, clients, views>>

\* Everything else that changes a resource: the agent's events, root actions.
AgentAction(r) ==
  /\ Idle
  /\ server.seq < MaxSeq
  /\ ApplyAndEmit([resource |-> r, by |-> Agent, n |-> server.seq + 1])
  /\ UNCHANGED <<conns, line, up, clients, views>>

\* Broken variant: removes the client whatever connection it uses by now.
HandleAnyClose(k) ==
  /\ line[k] = "cut"
  /\ up[k] = <<>>
  /\ Idle
  /\ line' = [line EXCEPT ![k] = "closed"]
  /\ server' = [server EXCEPT !.clients =
       [c \in ClientId |-> IF conns[k].client = c THEN Absent ELSE @[c]]]
  /\ UNCHANGED <<conns, up, down, clients, views>>

\* The server notices that a connection is closed, after all its messages.
HandleClose(k) ==
  /\ line[k] = "cut"
  /\ up[k] = <<>>
  /\ Idle
  /\ line' = [line EXCEPT ![k] = "closed"]
  /\ server' = [server EXCEPT !.clients =
       [c \in ClientId |-> IF conns[k].client = c /\ @[c] = k THEN Absent ELSE @[c]]]
  /\ UNCHANGED <<conns, up, down, clients, views>>

-----------------------------------------------------------------------------
ClientStep(c) ==
  \/ \E k \in Conn : Reconnect(c, k) \/ \E rs \in Initial : Connect(c, k, rs)
  \/ \E r \in Resource : Subscribe(c, r) \/ Unsubscribe(c, r)
  \/ \E s \in Session : Dispatch(c, s)
  \/ Receive(c)
  \/ Cut(c)

ServerStep(k) ==
  \/ HandleInitialize(k)
  \/ HandleReconnect(k)
  \/ HandleSubscribe(k)
  \/ FinishSubscribes(k)
  \/ HandleUnsubscribe(k)
  \/ HandleDispatch(k)
  \/ HandleClose(k)

Next ==
  \/ \E c \in ClientId : ClientStep(c)
  \/ \E k \in Conn : ServerStep(k)
  \/ \E r \in Resource : AgentAction(r)

Spec == Init /\ [][Next]_vars

-----------------------------------------------------------------------------
(* Properties *)

Message ==
  [type : {"initialize"}, client : ClientId, subs : SUBSET Resource]
    \cup [type : {"reconnect"}, client : ClientId, lastSeen : Nat,
          subs : SUBSET Resource]
    \cup [type : {"subscribe", "unsubscribe"}, resource : Resource]
    \cup [type : {"dispatchAction"}, action : Action]

IsSnapshots(m) ==
  /\ m = [type |-> "snapshots", states |-> m.states, fromSeq |-> m.fromSeq]
  /\ IsStates(m.states)
  /\ m.fromSeq \in Nat

IsAnswer(m) ==
  \/ m \in [type : {"action"}, envelope : Envelope]
  \/ m \in [type : {"replay"}, actions : Seq(Envelope)]
  \/ m.type = "snapshots" /\ IsSnapshots(m)

\* Every variable has its type.
SyncTypeOK ==
  /\ server \in [seq : Nat, states : [Resource -> State],
                 buffer : Seq(Envelope), clients : [ClientId -> Conn \cup {Absent}]]
  /\ DOMAIN conns = Conn
  /\ \A k \in Conn :
       /\ conns[k].client \in ClientId \cup {Absent}
       /\ conns[k].subs \subseteq Resource
       /\ \A m \in ToSet(conns[k].jobs) : IsSnapshots(m)
       /\ \A m \in ToSet(down[k]) : IsAnswer(m)
  /\ line \in [Conn -> {"unused", "open", "cut", "closed"}]
  /\ up \in [Conn -> Seq(Message)]
  /\ DOMAIN clients = ClientId
  /\ \A c \in ClientId :
       /\ clients[c].conn \in Conn \cup {Absent}
       /\ clients[c].ready \in BOOLEAN
       /\ clients[c].asked \subseteq Resource
       /\ clients[c].nextSeq \in Nat
  /\ DOMAIN views = ClientId
  /\ \A c \in ClientId :
       /\ views[c].lastSeen \in Nat
       /\ IsStates(views[c].confirmed)
       /\ IsStates(views[c].optimistic)
       /\ views[c].pending \in Seq(Action)

\* The cached optimistic state of a resource (_optimisticSessionStates) is the
\* confirmed state with the pending actions on top, whatever arrived in
\* whatever order, and there is one exactly where there is a confirmed state.
OptimisticIsRebased ==
  \A c \in ClientId :
    /\ DOMAIN views[c].optimistic = DOMAIN views[c].confirmed
    /\ \A r \in DOMAIN views[c].confirmed :
         views[c].optimistic[r] = Rebased(views[c], r)

\* The server has answered the handshake of the connection the client uses.
Joined(c) ==
  clients[c].conn # Absent /\ conns[clients[c].conn].client = c

\* What the client holds once it has taken everything that is on its way to it.
Delivered(c) ==
  LET messages == down[clients[c].conn]
      after[n \in 0 .. Len(messages)] ==
        IF n = 0 THEN views[c] ELSE Received(after[n - 1], messages[n])
  IN after[Len(messages)]

\* Nothing is missed, doubled or reordered on the way to a client: once it has
\* taken what is on its way, all it holds is as the server has it and stays
\* subscribed, also after subscribes, replays and snapshots
\* (protocolServerHandler.ts, subscribe, _handleReconnect, _broadcastAction).
ViewsCatchUp ==
  \A c \in ClientId : Joined(c) =>
    LET v == Delivered(c) IN
    \A r \in DOMAIN v.confirmed :
      /\ v.confirmed[r] = server.states[r]
      /\ r \in conns[clients[c].conn].subs

\* A client that is connected is in the server's map with its current
\* connection: the late close of an earlier connection does not remove it
\* (protocolServerHandler.ts, onClose).
StaleCloseIsHarmless ==
  \A c \in ClientId : Joined(c) => server.clients[c] = clients[c].conn

OnItsWay(c, a) ==
  LET k == clients[c].conn IN
  \/ [type |-> "dispatchAction", action |-> a] \in ToSet(up[k])
  \/ \E m \in ToSet(down[k]) : m.type = "action" /\ m.envelope.action = a

\* As long as a client's connection holds, every action it shows optimistically
\* is on its way to the server or its echo on the way back, so none stays
\* pending for good (sessionClientState.ts, receiveEnvelope).
PendingIsOnItsWay ==
  \A c \in ClientId :
    Joined(c) /\ (\A k \in Conn : conns[k].client = c => k = clients[c].conn) =>
      \A a \in ToSet(views[c].pending) : OnItsWay(c, a)

\* What a client shows of a resource it keeps does not vanish again, be it
\* confirmed or still pending: not by the echo of an action, nor by a replay or a
\* new snapshot (sessionClientState.ts, receiveEnvelope).
ShownStaysShown ==
  [][\A c \in ClientId :
       \A r \in DOMAIN views[c].optimistic \cap DOMAIN views'[c].optimistic :
         ToSet(views[c].optimistic[r]) \subseteq ToSet(views'[c].optimistic[r])
    ]_vars

\* Clients and server together implement replicated logs.
Replicas == INSTANCE ReplicatedLog WITH
  Client <- ClientId, log <- server.states, view <- [c \in ClientId |-> views[c].confirmed]

ViewsFollowTheLog == Replicas!Spec
=============================================================================
