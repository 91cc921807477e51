---------------------------- MODULE SessionHost ----------------------------
(***************************************************************************)
(* The agent host process: the state manager that owns every session's     *)
(* state, the side effects that react to client actions and to agent       *)
(* events, the mapper between the two, and the Copilot agent as far as its *)
(* calls can overtake one another.                                         *)
(*                                                                         *)
(* The host runs on one thread, so everything between two awaits is one    *)
(* action: a client action with the whole of handleAction, an agent event  *)
(* with the whole progress listener.  sendMessage, abortSession and        *)
(* sendSteering are not awaited by the host; they are in flight in "calls" *)
(* and "steers" until the agent takes them, in any order the code allows.  *)
(* The agent is a separate process.  The delay of its events is modelled   *)
(* as delay of the calls: an event reaches the host when it is emitted,    *)
(* and a call of the host takes effect at any later time.                  *)
(***************************************************************************)
EXTENDS SessionReducer

CONSTANTS
  Session,       \* session URIs, each created at most once
  TextEvent,     \* the kinds of text events the agent emits
  Environment,   \* what clients, user and agent may do besides normal turns
  MaxParts,      \* bound: parts of the active turn
  MaxText,       \* bound: chunks of one text part
  MaxQueue,      \* bound: queued messages of a session
  MaxSteers,     \* bound: steering calls in flight in a session
  MaxAsks        \* bound: permission requests of one tool call

\* Turn ids are numbers only to hand fresh ones out in order.
ASSUME TurnIds == TurnId \subseteq Nat /\ IsFiniteSet(TurnId)

ASSUME NoneIsNoId == None \notin Session \cup TurnId \cup ToolCallId \cup PartId

ASSUME Bounds == MaxAsks \in Nat

ASSUME EnvironmentKinds ==
  /\ TextEvent \subseteq {"delta", "message", "reasoning"}
  /\ Environment \subseteq {"overlap",   \* clients start turns on a view that is behind
                            "late",      \* clients name turns and calls that are over
                            "cancel",    \* the user cancels turns
                            "dispose",   \* the user disposes sessions
                            "fail",      \* sendMessage and the agent may fail
                            "tools",     \* the agent calls tools
                            "queue",     \* the user queues messages
                            "steer"}     \* the user steers turns

VARIABLES
  host,             \* SessionStateManager: sessions, turn tracking, root count
  created,          \* sessions createSession has returned
  toolCallAgents,   \* tool calls whose confirmation can be routed to the agent
  mapper,           \* AgentEventMapper: the part text goes to, by session and kind
  pendingPermissions, \* CopilotAgentSession: requests waiting for an answer
  calls,            \* sendMessage and abortSession calls, in the order they were made
  steers,           \* sendSteering calls in flight
  runs,             \* what the agent works on, by session: the accepted messages
  turnOf,           \* history: the session each turn was started in
  toolOf            \* history: the turn whose run started a tool call

vars == <<host, created, toolCallAgents, mapper, pendingPermissions, calls,
          steers, runs, turnOf, toolOf>>

Call == [op : {"send", "abort"}, turn : TurnId]

HostState ==
  [sessions : [Session -> SessionState \cup {None}],
   tracked : [TurnId -> Session \cup {None}], activeSessions : Nat]

Run == [turn : TurnId, tool : ToolCallId \cup {None}, asks : 0 .. MaxAsks]

NoParts == [k \in TextKind |-> None]

-----------------------------------------------------------------------------
(* SessionStateManager.                                                    *)

\* Broken variant: failed turns are forgotten.
TurnEndNoError == {"turnComplete", "turnCancelled"}

TurnEnd == {"turnComplete", "turnCancelled", "error"}

\* Broken variant: the end of a turn drops whatever is tracked for its session.
TrackedBySession(h, s, a) ==
  CASE a.type = "turnStarted" -> [h.tracked EXCEPT ![a.turn] = s]
    [] a.type \in TurnEnd     -> [t \in TurnId |-> IF h.tracked[t] = s THEN None
                                                  ELSE h.tracked[t]]
    [] OTHER                  -> h.tracked

\* _applyAndEmit.  The tracking of a turn is dropped even when the reducer finds
\* that the turn is not active; nothing happens in an unknown session.
Tracked(h, s, a) ==
  CASE a.type = "turnStarted" -> [h.tracked EXCEPT ![a.turn] = s]
    [] a.type \in TurnEnd     -> [h.tracked EXCEPT ![a.turn] = None]
    [] OTHER                  -> h.tracked

Size(tracked) == Cardinality({t \in TurnId : tracked[t] # None})

Dispatch(h, s, a) ==
  IF h.sessions[s] = None THEN h
  ELSE [sessions |-> [h.sessions EXCEPT ![s] = Reduce(@, a)],
        tracked |-> Tracked(h, s, a),
        activeSessions |-> IF a.type \in TurnEnd \cup {"turnStarted"}
                           THEN Size(Tracked(h, s, a)) ELSE h.activeSessions]

HasActiveTurn(h, s) == h.sessions[s] # None /\ h.sessions[s].activeTurn # None

\* getActiveTurnId, where there is one.
ActiveTurnId(h, s) == h.sessions[s].activeTurn.id

\* createSession and the SessionReady that follows it.
WithNewSession(h, s) ==
  Dispatch([h EXCEPT !.sessions[s] = NewSession], s, [type |-> "ready"])

\* removeSession: the root count is not updated.
WithoutSession(h, s) ==
  [h EXCEPT !.sessions[s] = None,
            !.tracked = IF HasActiveTurn(h, s)
                        THEN [@ EXCEPT ![ActiveTurnId(h, s)] = None] ELSE @]

-----------------------------------------------------------------------------
(* AgentSideEffects: starting turns.                                       *)

Fresh == {t \in TurnId : turnOf[t] = None}

\* A new uuid.
NextTurn(t) == t \in Fresh /\ \A u \in Fresh : t <= u

\* Broken variant: text of the new turn goes on in the parts of the one before.
LaunchKeepingParts(h, s, t, text, queuedId) ==
  /\ host' = Dispatch(h, s, [type |-> "turnStarted", turn |-> t,
                             message |-> text, queuedId |-> queuedId])
  /\ calls' = [calls EXCEPT ![s] = Append(@, [op |-> "send", turn |-> t])]
  /\ turnOf' = [turnOf EXCEPT ![t] = s]
  /\ UNCHANGED mapper

\* The turn is in the state, text starts new parts, the message is on its way.
Launch(h, s, t, text, queuedId) ==
  /\ host' = Dispatch(h, s, [type |-> "turnStarted", turn |-> t,
                             message |-> text, queuedId |-> queuedId])
  /\ mapper' = [mapper EXCEPT ![s] = NoParts]
  /\ calls' = [calls EXCEPT ![s] = Append(@, [op |-> "send", turn |-> t])]
  /\ turnOf' = [turnOf EXCEPT ![t] = s]

\* Broken variant: a turn in progress does not hold the queue back.
QueueReadyAnytime(h, s) == h.sessions[s] # None /\ h.sessions[s].queued # <<>>

QueueReady(h, s) ==
  /\ h.sessions[s] # None
  /\ h.sessions[s].activeTurn = None
  /\ h.sessions[s].queued # <<>>

\* _tryConsumeNextQueuedMessage, in a state h an action has just made.
TryConsumeNext(h, s) ==
  \/ /\ QueueReady(h, s)
     /\ LET next == Head(h.sessions[s].queued)
        IN \E t \in TurnId : NextTurn(t) /\ Launch(h, s, t, next.text, next.id)
  \/ /\ ~QueueReady(h, s)
     /\ host' = h
     /\ UNCHANGED <<mapper, calls, turnOf>>

\* Every queued message can still get a turn: inputs beyond TurnId are cut off.
QueuedEntries(h) ==
  {e \in Session \X (1 .. MaxQueue) :
     h.sessions[e[1]] # None /\ e[2] <= Len(h.sessions[e[1]].queued)}

-----------------------------------------------------------------------------
Init ==
  /\ host = [sessions |-> [s \in Session |-> None],
             tracked |-> [t \in TurnId |-> None], activeSessions |-> 0]
  /\ created = {}
  /\ toolCallAgents = {}
  /\ mapper = [s \in Session |-> NoParts]
  /\ pendingPermissions = [s \in Session |-> {}]
  /\ calls = [s \in Session |-> <<>>]
  /\ steers = [s \in Session |-> <<>>]
  /\ runs = [s \in Session |-> <<>>]
  /\ turnOf = [t \in TurnId |-> None]
  /\ toolOf = [c \in ToolCallId |-> None]

(* AgentService: sessions come and go.                                     *)

\* createSession, from where the agent has created its session.
CreateSession(s) ==
  /\ s \notin created
  /\ created' = created \cup {s}
  /\ host' = WithNewSession(host, s)
  /\ UNCHANGED <<toolCallAgents, mapper, pendingPermissions, calls, steers, runs,
                 turnOf, toolOf>>

\* disposeSession: the agent drops its session, and the permissions it waits for
\* are denied.  Calls in flight stay in flight: a send resumes the session.
DisposeSession(s) ==
  /\ "dispose" \in Environment
  /\ host.sessions[s] # None
  /\ host' = WithoutSession(host, s)
  /\ runs' = [runs EXCEPT ![s] = <<>>]
  /\ pendingPermissions' = [pendingPermissions EXCEPT ![s] = {}]
  /\ UNCHANGED <<created, toolCallAgents, mapper, calls, steers, turnOf, toolOf>>

-----------------------------------------------------------------------------
(* dispatchAction: a client action is applied, then handleAction reacts.   *)

\* A client that is up to date acts on what the host's state shows; a client that
\* is behind may act on any session, turn and tool call it has known.
Shown(s, lag, condition) ==
  s \in created /\ (lag \in Environment \/ (host.sessions[s] # None /\ condition))

StartTurn(s) ==
  /\ Shown(s, "overlap", ~HasActiveTurn(host, s))
  /\ Cardinality(Fresh) > Cardinality(QueuedEntries(host))
  /\ \E t \in TurnId, m \in Text : NextTurn(t) /\ Launch(host, s, t, m, None)
  /\ UNCHANGED <<created, toolCallAgents, pendingPermissions, steers, runs, toolOf>>

\* handleAction aborts the session whether or not the turn is the active one, and
\* abort() denies the pending permissions before it asks the agent.
CancelTurn(s) ==
  /\ "cancel" \in Environment
  /\ Len(calls[s]) < Cardinality(TurnId)
  /\ \E t \in {u \in TurnId : turnOf[u] = s} :
       /\ Shown(s, "late", HasActiveTurn(host, s) /\ ActiveTurnId(host, s) = t)
       /\ host' = Dispatch(host, s, [type |-> "turnCancelled", turn |-> t])
       /\ calls' = [calls EXCEPT ![s] = Append(@, [op |-> "abort", turn |-> t])]
  /\ pendingPermissions' = [pendingPermissions EXCEPT ![s] = {}]
  /\ UNCHANGED <<created, toolCallAgents, mapper, steers, runs, turnOf, toolOf>>

\* The tool call as the session's state shows it.
CallShown(s, t, c, status) ==
  /\ HasActiveTurn(host, s) /\ ActiveTurnId(host, s) = t
  /\ \E i \in DOMAIN host.sessions[s].activeTurn.parts :
       LET part == host.sessions[s].activeTurn.parts[i]
       IN IsToolCall(part, c) /\ part.status = status

\* The answer is routed to the agent once, through toolCallAgents, and the agent
\* gives it to whichever session has a request for the call.
ConfirmToolCall(s) ==
  /\ \E t \in {u \in TurnId : turnOf[u] = s}, c \in ToolCallId, ok \in BOOLEAN :
       /\ toolOf[c] # None
       /\ Shown(s, "late", CallShown(s, t, c, "pendingConfirmation"))
       /\ host' = Dispatch(host, s, [type |-> "toolCallConfirmed", turn |-> t,
                                     tool |-> c, approved |-> ok])
       /\ toolCallAgents' = toolCallAgents \ {<<s, c>>}
       /\ pendingPermissions' =
            IF <<s, c>> \in toolCallAgents
            THEN [r \in Session |-> pendingPermissions[r] \ {c}]
            ELSE pendingPermissions
  /\ UNCHANGED <<created, mapper, calls, steers, runs, turnOf, toolOf>>

\* The pending message actions, with _syncPendingMessages: the steering message
\* is sent to the agent again after every one of them.
PendingAction(s) ==
     [type : {"pendingMessageSet"}, kind : {"queued"}, id : MessageId, text : Text]
  \cup [type : {"pendingMessageRemoved"}, kind : {"queued"}, id : MessageId]
  \cup [type : {"queuedMessagesReordered"},
        order : {<<>>} \cup {<<m>> : m \in MessageId}]
  \cup (IF "steer" \notin Environment THEN {} ELSE
            [type : {"pendingMessageSet"}, kind : {"steering"}, id : MessageId,
             text : Text]
       \cup [type : {"pendingMessageRemoved"}, kind : {"steering"}, id : MessageId])

ChangePending(s) ==
  /\ "queue" \in Environment
  /\ s \in created /\ host.sessions[s] # None
  /\ \E a \in PendingAction(s) :
       LET h == Dispatch(host, s, a)
           steering == h.sessions[s].steering
       IN /\ Len(h.sessions[s].queued) <= MaxQueue
          /\ Cardinality(Fresh) >= Cardinality(QueuedEntries(h))
          /\ steering # None => Len(steers[s]) < MaxSteers
          /\ steers' = IF steering = None THEN steers
                       ELSE [steers EXCEPT ![s] = Append(@, steering)]
          /\ TryConsumeNext(h, s)
  /\ UNCHANGED <<created, toolCallAgents, pendingPermissions, runs, toolOf>>

-----------------------------------------------------------------------------
(* The agent takes a call.  A send may still wait for plugins or for its   *)
(* session to be resumed when later calls are made, so calls overtake it;  *)
(* nothing overtakes an abort, which is on the wire as soon as it is made. *)

Servable(s, k) ==
  /\ k \in DOMAIN calls[s]
  /\ \A j \in 1 .. (k - 1) : calls[s][j].op # "abort"

Served(s, k) == calls' = [calls EXCEPT ![s] = WithoutAt(@, k)]

SendAccepted(s) ==
  /\ \E k \in DOMAIN calls[s] :
       /\ Servable(s, k) /\ calls[s][k].op = "send"
       /\ Served(s, k)
       /\ runs' = [runs EXCEPT ![s] =
                     Append(@, [turn |-> calls[s][k].turn, tool |-> None, asks |-> 0])]
  /\ UNCHANGED <<host, created, toolCallAgents, mapper, pendingPermissions, steers,
                 turnOf, toolOf>>

\* Broken variant: the rejection is ignored.
SendFailedSilently(s) ==
  /\ "fail" \in Environment
  /\ \E k \in DOMAIN calls[s] :
       Servable(s, k) /\ calls[s][k].op = "send" /\ Served(s, k)
  /\ UNCHANGED <<host, created, toolCallAgents, mapper, pendingPermissions, steers,
                 runs, turnOf, toolOf>>

\* sendMessage rejects: the turn ends in an error.
SendFailed(s) ==
  /\ "fail" \in Environment
  /\ \E k \in DOMAIN calls[s] :
       /\ Servable(s, k) /\ calls[s][k].op = "send"
       /\ Served(s, k)
       /\ host' = Dispatch(host, s, [type |-> "error", turn |-> calls[s][k].turn])
  /\ UNCHANGED <<created, toolCallAgents, mapper, pendingPermissions, steers, runs,
                 turnOf, toolOf>>

\* The agent stops what it works on, silently as the scripted agent of the tests.
AbortTaken(s) ==
  /\ \E k \in DOMAIN calls[s] :
       Servable(s, k) /\ calls[s][k].op = "abort" /\ Served(s, k)
  /\ runs' = [runs EXCEPT ![s] = IF @ = <<>> THEN @ ELSE Tail(@)]
  /\ UNCHANGED <<host, created, toolCallAgents, mapper, pendingPermissions, steers,
                 turnOf, toolOf>>

\* sendSteering: steering_consumed removes the message, if it is still the one.
SteeringTaken(s) ==
  /\ steers[s] # <<>>
  /\ steers' = [steers EXCEPT ![s] = Tail(@)]
  /\ host' = Dispatch(host, s, [type |-> "pendingMessageRemoved",
                                kind |-> "steering", id |-> Head(steers[s]).id])
  /\ UNCHANGED <<created, toolCallAgents, mapper, pendingPermissions, calls, runs,
                 turnOf, toolOf>>

\* The failure of a steering call is only logged.
SteeringFailed(s) ==
  /\ "fail" \in Environment
  /\ steers[s] # <<>>
  /\ steers' = [steers EXCEPT ![s] = Tail(@)]
  /\ UNCHANGED <<host, created, toolCallAgents, mapper, pendingPermissions, calls,
                 runs, turnOf, toolOf>>

-----------------------------------------------------------------------------
(* Agent events and the progress listener.  An event names its session; it *)
(* is taken to be about whatever turn is active there, and dropped if none *)
(* is.                                                                     *)

Current(s) == Head(runs[s])

\* The run goes on unless its tool call waits for a permission.
Working(s) == runs[s] # <<>> /\ Current(s).tool \notin pendingPermissions[s]

SetTool(s, tool, asks) ==
  runs' = [runs EXCEPT ![s] =
             <<[turn |-> Head(@).turn, tool |-> tool, asks |-> asks]>> \o Tail(@)]

ActiveParts(s) == host.sessions[s].activeTurn.parts

UsedParts == UNION {{mapper[s][k] : k \in TextKind} : s \in Session}
  \cup {p \in PartId : \E s \in Session :
          /\ HasActiveTurn(host, s)
          /\ \E i \in DOMAIN ActiveParts(s) :
               ActiveParts(s)[i].kind \in TextKind /\ ActiveParts(s)[i].id = p}

\* delta, reasoning and message.  The first piece opens a part; later deltas go to
\* it, and a whole message is skipped when deltas have already brought its text.
AgentText(s) ==
  /\ Working(s) /\ HasActiveTurn(host, s)
  /\ \E e \in TextEvent, c \in Chunk :
       LET kind == IF e = "reasoning" THEN "reasoning" ELSE "markdown"
           t == ActiveTurnId(host, s)
           open == mapper[s][kind]
       IN \/ /\ open = None
             /\ Len(ActiveParts(s)) < MaxParts
             /\ \E p \in PartId \ UsedParts :
                  /\ mapper' = [mapper EXCEPT ![s][kind] = p]
                  /\ host' = Dispatch(host, s,
                       [type |-> "responsePart", turn |-> t,
                        part |-> [kind |-> kind, id |-> p, content |-> <<c>>]])
          \/ /\ open # None /\ e # "message"
             /\ \A i \in DOMAIN ActiveParts(s) :
                  ActiveParts(s)[i].kind = kind /\ ActiveParts(s)[i].id = open
                    => Len(ActiveParts(s)[i].content) < MaxText
             /\ host' = Dispatch(host, s, [type |-> e, turn |-> t, part |-> open,
                                           chunk |-> c])
             /\ UNCHANGED mapper
  /\ UNCHANGED <<created, toolCallAgents, pendingPermissions, calls, steers, runs,
                 turnOf, toolOf>>

\* tool_start: routing is recorded first, for any session; the call is started and
\* made ready without confirmation, and later text opens a new part.
ToolStart(s) ==
  /\ "tools" \in Environment
  /\ Working(s) /\ Current(s).tool = None
  /\ HasActiveTurn(host, s) => Len(ActiveParts(s)) < MaxParts
  /\ \E c \in {d \in ToolCallId : toolOf[d] = None} :
       /\ SetTool(s, c, 0)
       /\ toolOf' = [toolOf EXCEPT ![c] = Current(s).turn]
       /\ toolCallAgents' = toolCallAgents \cup {<<s, c>>}
       /\ IF HasActiveTurn(host, s)
          THEN LET t == ActiveTurnId(host, s)
               IN /\ host' = Dispatch(
                       Dispatch(host, s, [type |-> "toolCallStart", turn |-> t, tool |-> c]),
                       s, [type |-> "toolCallReady", turn |-> t, tool |-> c,
                           confirmed |-> "notNeeded"])
                  /\ mapper' = [mapper EXCEPT ![s]["markdown"] = None]
          ELSE UNCHANGED <<host, mapper>>
  /\ UNCHANGED <<created, pendingPermissions, calls, steers, turnOf>>

\* handlePermissionRequest and its tool_ready.  A write in the working directory
\* or a harmless command is approved at once and needs no routing any more; else
\* the tool call waits for the user, as long as there is a turn to show it in.
AskPermission(s) ==
  /\ Working(s) /\ Current(s).tool # None /\ Current(s).asks < MaxAsks
  /\ SetTool(s, Current(s).tool, Current(s).asks + 1)
  /\ LET c == Current(s).tool
         asked == [pendingPermissions EXCEPT ![s] = @ \cup {c}]
     IN \/ /\ HasActiveTurn(host, s)
           /\ toolCallAgents' = toolCallAgents \ {<<s, c>>}
           /\ UNCHANGED <<host, pendingPermissions>>
        \/ /\ HasActiveTurn(host, s)
           /\ host' = Dispatch(host, s, [type |-> "toolCallReady",
                turn |-> ActiveTurnId(host, s), tool |-> c, confirmed |-> "none"])
           /\ pendingPermissions' = asked
           /\ UNCHANGED toolCallAgents
        \/ /\ ~HasActiveTurn(host, s)
           /\ pendingPermissions' = asked
           /\ UNCHANGED <<host, toolCallAgents>>
  /\ UNCHANGED <<created, mapper, calls, steers, turnOf, toolOf>>

\* tool_complete, approved or denied.
ToolComplete(s) ==
  /\ Working(s) /\ Current(s).tool # None
  /\ SetTool(s, None, 0)
  /\ host' = IF ~HasActiveTurn(host, s) THEN host
             ELSE Dispatch(host, s, [type |-> "toolCallComplete",
                    turn |-> ActiveTurnId(host, s), tool |-> Current(s).tool,
                    needsResult |-> FALSE])
  /\ UNCHANGED <<created, toolCallAgents, mapper, pendingPermissions, calls, steers,
                 turnOf, toolOf>>

EndActive(s, type) ==
  IF ~HasActiveTurn(host, s) THEN host
  ELSE Dispatch(host, s, [type |-> type, turn |-> ActiveTurnId(host, s)])

\* Broken variant: the next message is not looked at.
AgentIdleLeavingQueue(s) ==
  /\ Working(s) /\ Current(s).tool = None
  /\ runs' = [runs EXCEPT ![s] = Tail(@)]
  /\ host' = EndActive(s, "turnComplete")
  /\ UNCHANGED <<created, toolCallAgents, mapper, pendingPermissions, calls, steers,
                 turnOf, toolOf>>

\* idle: the turn is complete, and the next queued message gets its turn.
AgentIdle(s) ==
  /\ Working(s) /\ Current(s).tool = None
  /\ runs' = [runs EXCEPT ![s] = Tail(@)]
  /\ TryConsumeNext(EndActive(s, "turnComplete"), s)
  /\ UNCHANGED <<created, toolCallAgents, pendingPermissions, steers, toolOf>>

\* error: the turn ends; the queue is left alone.
AgentError(s) ==
  /\ "fail" \in Environment
  /\ Working(s)
  /\ runs' = [runs EXCEPT ![s] = Tail(@)]
  /\ host' = EndActive(s, "error")
  /\ UNCHANGED <<created, toolCallAgents, mapper, pendingPermissions, calls, steers,
                 turnOf, toolOf>>

-----------------------------------------------------------------------------
ClientStep(s) ==
  \/ CreateSession(s) \/ DisposeSession(s) \/ StartTurn(s) \/ CancelTurn(s)
  \/ ConfirmToolCall(s) \/ ChangePending(s)

AgentEvent(s) ==
  \/ AgentText(s) \/ ToolStart(s) \/ AskPermission(s) \/ ToolComplete(s)
  \/ AgentIdle(s) \/ AgentError(s)

CallTaken(s) ==
  \/ SendAccepted(s) \/ SendFailed(s) \/ AbortTaken(s)
  \/ SteeringTaken(s) \/ SteeringFailed(s)

Next == \E s \in Session : ClientStep(s) \/ AgentEvent(s) \/ CallTaken(s)

Spec == Init /\ [][Next]_vars

\* Fairness.  Calls are carried out and answered, the agent finishes its tools and
\* its answer, and the user answers the confirmations on screen; nobody is obliged
\* to start, cancel, queue or steer anything.
Fairness ==
  \A s \in Session :
    /\ WF_vars(SendAccepted(s) \/ SendFailed(s))
    /\ WF_vars(AbortTaken(s))
    /\ WF_vars(SteeringTaken(s) \/ SteeringFailed(s))
    /\ WF_vars(ToolComplete(s) \/ AgentIdle(s))
    /\ WF_vars(ConfirmToolCall(s))

FairSpec == Spec /\ Fairness

-----------------------------------------------------------------------------
(* Every variable has its type, whatever clients, user and agent do.       *)
HostTypeOK ==
  /\ host \in HostState
  /\ created \subseteq Session
  /\ toolCallAgents \subseteq Session \X ToolCallId
  /\ mapper \in [Session -> [TextKind -> PartId \cup {None}]]
  /\ pendingPermissions \in [Session -> SUBSET ToolCallId]
  /\ calls \in [Session -> Seq(Call)]
  /\ steers \in [Session -> Seq(PendingMessage)]
  /\ runs \in [Session -> Seq(Run)]
  /\ turnOf \in [TurnId -> Session \cup {None}]
  /\ toolOf \in [ToolCallId -> TurnId \cup {None}]

\* The turn a session shows as active is tracked as a turn of that session: no
\* late end of another turn, failed send or disposal of another session drops the
\* entry while the turn runs, so the host counts it as long as it is shown.
ActiveTurnsTracked ==
  \A s \in Session :
    HasActiveTurn(host, s) => host.tracked[ActiveTurnId(host, s)] = s

\* The part the event mapper sends text to is one the active turn has.  Were it a
\* part of an earlier turn, the reducer would drop the text without a trace.
MapperPointsIntoActiveTurn ==
  \A s \in Session, k \in TextKind :
    HasActiveTurn(host, s) /\ mapper[s][k] # None =>
      \E i \in DOMAIN ActiveParts(s) :
        ActiveParts(s)[i].kind = k /\ ActiveParts(s)[i].id = mapper[s][k]

-----------------------------------------------------------------------------
(* What holds while clients and user act on what the host shows.           *)

Live(s) == host.sessions[s] # None

(* Whatever the agent works on is the session's active turn.  Its events   *)
(* carry only the session and are dropped without an active turn: a run    *)
(* left over would lose its answers, or complete somebody else's turn.     *)
RunIsOfActiveTurn ==
  \A s \in Session :
    Live(s) /\ runs[s] # <<>> =>
      HasActiveTurn(host, s) /\ ActiveTurnId(host, s) = Current(s).turn

\* An active turn is being worked on: its message is on its way to the agent or
\* the agent has it.  Otherwise nothing would ever end the turn, and the session
\* would stay in progress for good.
ActiveTurnHasWork ==
  \A s \in Session :
    HasActiveTurn(host, s) =>
      LET t == ActiveTurnId(host, s)
      IN \/ \E k \in DOMAIN calls[s] : calls[s][k] = [op |-> "send", turn |-> t]
         \/ \E k \in DOMAIN runs[s] : runs[s][k].turn = t

\* The agent waits for a permission exactly while the user is asked for it, and
\* the answer has a route to the agent.  One direction failing hangs the agent,
\* the other shows a question whose answer has no effect.
PermissionsAnswerable ==
  \A s \in Session, c \in ToolCallId :
    Live(s) =>
      ( c \in pendingPermissions[s] <=>
          /\ HasActiveTurn(host, s)
          /\ CallShown(s, ActiveTurnId(host, s), c, "pendingConfirmation")
          /\ <<s, c>> \in toolCallAgents )

\* Every turn that was started in a session is its active turn or in its history:
\* no turn is overwritten by another one, and none is recorded twice.
NoTurnLost ==
  \A t \in TurnId : turnOf[t] # None /\ Live(turnOf[t]) =>
    LET s == turnOf[t]
        recorded == {i \in DOMAIN host.sessions[s].turns :
                       host.sessions[s].turns[i].id = t}
    IN Cardinality(recorded) =
         IF HasActiveTurn(host, s) /\ ActiveTurnId(host, s) = t THEN 0 ELSE 1

\* root.activeSessions is the number of sessions with a turn in progress, at any
\* moment at which clients see it, though it is only written when turns change.  That
\* is what the code counts, what its test expects ("activeSessions reflects concurrent
\* turn count across sessions") and what keeps a server alive while an agent works.  It
\* is not what state.ts says of the field, "active (non-disposed) sessions": a session
\* without a turn is not counted.
RootCountsActiveTurns ==
  host.activeSessions = Cardinality({s \in Session : HasActiveTurn(host, s)})

\* A queued message only waits while a turn is active: one that is queued in an
\* idle session starts at once, and the end of a turn starts the next one.
QueueWaitsBehindATurn ==
  \A s \in Session :
    Live(s) /\ host.sessions[s].queued # <<>> => HasActiveTurn(host, s)

\* A steering message the clients still see as pending is on its way to the agent,
\* also when it has replaced another one whose sending then completed.
SteeringIsOnItsWay ==
  \A s \in Session :
    Live(s) /\ host.sessions[s].steering # None =>
      \E i \in DOMAIN steers[s] : steers[s][i] = host.sessions[s].steering
=============================================================================
