------------------------- MODULE ChatSessionHandler -------------------------
(***************************************************************************)
(* The chat of the workbench on a session of an agent host: the handler of *)
(* agentHostSessionHandler.ts between the session's state and the chat     *)
(* model, with what ChatService keeps for such a chat.  The handler works  *)
(* on the optimistic state of SessionClientState, whose echoes come back   *)
(* over a channel in order; the host, its agent and other clients do what  *)
(* SessionHost lets them do.  Three trackers turn the parts of a turn into *)
(* progress: that of a request sent here (_handleTurn), that of a turn the *)
(* host started (_trackServerTurnProgress), and that of the turn active    *)
(* when the chat was opened (_reconnectToActiveTurn).  Steering messages,  *)
(* edits of files and the contents of parts are left out.                  *)
(***************************************************************************)
EXTENDS SessionReducer, SequencesExt, Subsequences

CONSTANTS
  MaxTurns,   \* bound: turns; turn ids are numbers, given out in order
  MaxQueue,   \* bound: messages queued in the chat; ids are numbers too
  MaxSent,    \* bound: own actions without an echo, when the user acts
  MaxDown,    \* bound: envelopes under way, when the host acts by itself
  MaxOthers   \* bound: actions of other clients

ASSUME IdsAreNumbers ==
  /\ MaxTurns \in Nat /\ 1 .. MaxTurns \subseteq TurnId
  /\ MaxQueue \in Nat /\ 1 .. MaxQueue \subseteq MessageId

\* There is a prompt to send.
ASSUME TextIsThere == Text # {}

VARIABLES
  host,      \* the session in the host's state manager
  arriving,  \* envelopes on their way to the workbench
  chat,      \* handler and chat service, or None while the chat is closed
  begun,     \* ids given out: turns, messages and tool calls; calls that asked
  approved   \* history: tool calls that a user approved

chatVars == <<host, arriving, chat, begun, approved>>

Tracker == {"request", "server", "reconnect"}

\* What ChatToolInvocation shows of a call: nothing, a question, or its outcome.
Invocation == {"none", "waiting", "executing", "done"}

HandlerState ==
  [confirmed      : SessionState,                  \* _confirmedSessionStates
   sent           : Seq(SessionAction),            \* _pendingActions, oldest first
   queue          : Seq(MessageId),                \* pending requests of the chat model
   synced         : BOOLEAN,                       \* in _pendingMessageSubscriptions
   previousQueued : (SUBSET MessageId) \cup {None}, \* previousQueuedIds
   lastSeen       : TurnId \cup {None},            \* lastSeenTurnId
   turn           : [Tracker -> TurnId \cup {None}],
   invocations    : [Tracker -> [ToolCallId -> Invocation]],
   streaming      : BOOLEAN,                       \* progressObs is read by the chat service
   complete       : BOOLEAN,                       \* isCompleteObs
   request        : {"none", "own", "server"},     \* entry in ChatService._pendingRequests
   listening      : BOOLEAN,                       \* its cancellation listener is set
   interrupts     : TurnId \cup {None}]            \* turn that the interrupt callback names

\* No id, set of ids or handler is the absent value.
ASSUME NoneIsNoId ==
  None \notin TurnId /\ None \notin HandlerState /\ \A S \in SUBSET MessageId : S # None

NoInvocations == [c \in ToolCallId |-> "none"]

ActionEnvelope == [action : SessionAction, own : BOOLEAN]

\* Every state that is kept is one of the types above; the queue of the chat
\* model holds no message twice.
HandlerTypeOK ==
  /\ host \in SessionState
  /\ arriving \in Seq(ActionEnvelope)
  /\ chat # None => chat \in HandlerState /\ IsInjective(chat.queue)
  /\ begun.turns \in 0 .. MaxTurns /\ begun.messages \in 0 .. MaxQueue

-----------------------------------------------------------------------------
(* Reading states.                                                         *)

Applied(s, actions) ==
  LET after[n \in 0 .. Len(actions)] ==
        IF n = 0 THEN s ELSE Reduce(after[n - 1], actions[n])
  IN after[Len(actions)]

\* What the handler reads: the confirmed state with the own actions under way.
View(c) == Applied(c.confirmed, c.sent)

ActiveId(s) == IF s.activeTurn = None THEN None ELSE s.activeTurn.id

\* Parts of turn t, from the active turn or from the history.
PartsOfTurn(s, t) ==
  IF IsActive(s, t) THEN s.activeTurn.parts
  ELSE LET past == {i \in DOMAIN s.turns : s.turns[i].id = t}
       IN IF past = {} THEN <<>> ELSE s.turns[CHOOSE i \in past : TRUE].parts

StatusIn(parts, c) ==
  LET at == {i \in DOMAIN parts : IsToolCall(parts[i], c)}
  IN IF at = {} THEN "absent" ELSE parts[CHOOSE i \in at : TRUE].status

IdsOf(queue) == [i \in DOMAIN queue |-> queue[i].id]

-----------------------------------------------------------------------------
(* Actions the handler dispatches.                                         *)

Prompt == CHOOSE x \in Text : TRUE

StartsTurn(t, q) ==
  [type |-> "turnStarted", turn |-> t, message |-> Prompt, queuedId |-> q]

EndsTurn(type, t) == [type |-> type, turn |-> t]

SetsQueued(id) ==
  [type |-> "pendingMessageSet", kind |-> "queued", id |-> id, text |-> Prompt]

RemovesQueued(id) == [type |-> "pendingMessageRemoved", kind |-> "queued", id |-> id]

Answers(t, calls, yes) ==
  SetToSeq({[type |-> "toolCallConfirmed", turn |-> t, tool |-> c, approved |-> yes] :
            c \in calls})

-----------------------------------------------------------------------------
(* The pending requests of the chat model against the queue of the session.*)

\* Broken variant: messages that left the chat model stay queued.
QueueEditsKeeping(queue, v) ==
  LET new == Within(queue, MessageId \ QueuedIds(v.queued))
  IN [i \in DOMAIN new |-> SetsQueued(new[i])]

\* The removals and additions of _syncPendingMessages.
QueueEdits(queue, v) ==
  LET gone == Within(IdsOf(v.queued), MessageId \ ToSet(queue))
      new  == Within(queue, MessageId \ QueuedIds(v.queued))
  IN [i \in DOMAIN gone |-> RemovesQueued(gone[i])] \o
     [i \in DOMAIN new |-> SetsQueued(new[i])]

\* ... and its reorder, decided on the state these have led to.
QueueOrder(queue, edited) ==
  IF Len(edited) > 1 /\ Len(queue) = Len(edited) /\ queue # IdsOf(edited)
  THEN <<[type |-> "queuedMessagesReordered", order |-> queue]>>
  ELSE <<>>

Synced(c, v, edits) ==
  [c EXCEPT !.sent = @ \o edits \o QueueOrder(c.queue, Applied(v, edits).queued)]

SyncedIn(c, v) == Synced(c, v, QueueEdits(c.queue, v))

\* _syncPendingMessages, where the chat model's changes are listened to.
SyncPendingMessages(c) == IF c.synced THEN SyncedIn(c, View(c)) ELSE c

-----------------------------------------------------------------------------
(* Listeners of onDidChangeSessionState.                                   *)

\* A server-initiated turn gets a request and response of its own in the chat
\* model (startServerRequest), and an entry to stop it by if there is none.
ServerTurnShown(c, t) ==
  [c EXCEPT !.turn["server"] = t,
            !.invocations["server"] = NoInvocations,
            !.complete = FALSE,
            !.request = IF c.streaming /\ @ = "none" THEN "server" ELSE @,
            !.listening = @ \/ (c.streaming /\ c.request = "none")]

\* The watcher of _watchForServerInitiatedTurns.  Own turns are those of the
\* request tracker; a pending request that left the queue was consumed.  One
\* change of the state takes one message from the queue at most.
Watched(c, v) ==
  LET t == ActiveId(v)
      queued == QueuedIds(v.queued)
      consumed == IF c.previousQueued = None THEN {} ELSE c.previousQueued \ queued
      listed == Within(c.queue, MessageId \ consumed)
      seen == [c EXCEPT !.previousQueued = queued, !.lastSeen = IF t = None THEN @ ELSE t]
      shown == ServerTurnShown([seen EXCEPT !.queue = listed], t)
  IN IF t \in {None, c.lastSeen, c.turn["request"]} THEN seen
     ELSE IF listed = c.queue THEN shown
     ELSE SyncPendingMessages(shown)

WatchTurns(c) == Watched(c, View(c))

\* A call that is not over and asks nothing.
Unasked == ToolCallStatus \ (Settled \cup {"pendingConfirmation"})

\* Broken variant: a call is asked for once, not again when it is running.
InvocationAskedOnce(shown, status) ==
  CASE shown = "none" /\ status = "pendingConfirmation" -> "waiting"
    [] status \in Settled -> "done"
    [] shown = "none" /\ status \in Unasked -> "executing"
    [] OTHER -> shown

\* What an invocation shows once the tracker has seen the call's status: a
\* question whenever the call waits for confirmation, and its outcome for good.
InvocationOf(shown, status) ==
  CASE status = "pendingConfirmation" -> "waiting"
    [] status \in Settled -> "done"
    [] shown = "none" /\ status \in Unasked -> "executing"
    [] OTHER -> shown

Shown(shown, parts) == [x \in ToolCallId |-> InvocationOf(shown[x], StatusIn(parts, x))]

Questions(c, k) == {x \in ToolCallId : c.invocations[k][x] = "waiting"}

\* What is answered once the invocations show the state.  A question whose call
\* was settled elsewhere is finalized, and _awaitToolConfirmation takes that for
\* an approval; so does the end of the turn, but for the reconnect tracker, which
\* denies.
RepliesTo(c, k, asked, active) ==
  LET t == c.turn[k]
      finalized == {x \in asked : c.invocations[k][x] = "done"}
      open == IF active THEN {} ELSE asked \ finalized
  IN IF k = "reconnect"
     THEN Answers(t, finalized, TRUE) \o Answers(t, open, FALSE)
     ELSE Answers(t, finalized \cup open, TRUE)

WithAnswers(c, answers, queued) ==
  IF answers = <<>> THEN c
  ELSE [c EXCEPT !.sent = @ \o answers, !.previousQueued = queued]

\* The tracker's turn is over.
Finished(c, k) ==
  [c EXCEPT !.turn[k] = None,
            !.invocations[k] = NoInvocations,
            !.complete = TRUE,
            !.listening = FALSE,
            !.request = IF k = "request" /\ @ = "own" THEN "none" ELSE @]

Tracked(c, k, asked, active, queued) ==
  LET tracked == WithAnswers(c, RepliesTo(c, k, asked, active), queued)
  IN IF active THEN tracked ELSE Finished(tracked, k)

\* A tracker takes in the state.
TracksIn(c, k, v) ==
  Tracked([c EXCEPT !.invocations[k] = Shown(@, PartsOfTurn(v, c.turn[k]))], k,
          Questions(c, k), IsActive(v, c.turn[k]), QueuedIds(v.queued))

Tracks(c, k) == TracksIn(c, k, View(c))

Track(c, k) == IF c.turn[k] = None THEN c ELSE Tracks(c, k)

\* All listeners, in the order they were registered in.  Answers they dispatch
\* are for calls that wait no longer, and change nothing of the state.
Changed(c) ==
  LET watched == WatchTurns(Track(c, "reconnect"))
  IN Track(Track(watched, "server"), "request")

Dispatched(c, a) == Changed([c EXCEPT !.sent = Append(@, a)])

-----------------------------------------------------------------------------
(* The user.                                                               *)

\* Broken variant: the watcher does not know the turn that is reconnected to.
SeenNever(s) == None

\* What the watcher's lastSeenTurnId starts from.
SeenAtFirst(s) == ActiveId(s)

Opened(s) ==
  [confirmed |-> s, sent |-> <<>>, queue |-> <<>>, synced |-> FALSE,
   previousQueued |-> None, lastSeen |-> SeenAtFirst(s),
   turn |-> [k \in Tracker |-> IF k = "reconnect" THEN ActiveId(s) ELSE None],
   invocations |-> [k \in Tracker |-> NoInvocations],
   streaming |-> s.activeTurn # None \/ s.turns = <<>>,
   complete |-> s.activeTurn = None,
   request |-> IF s.activeTurn = None THEN "none" ELSE "server",
   listening |-> s.activeTurn # None,
   interrupts |-> ActiveId(s)]

\* _handleTurn up to where it waits.
TurnHandled(c, t) ==
  Dispatched([c EXCEPT !.turn["request"] = t, !.request = "own"], StartsTurn(t, None))

NewTurn(t) == t = begun.turns + 1 /\ t <= MaxTurns

UserMayAct == chat # None /\ Len(chat.sent) < MaxSent

\* A chat is opened on a session that exists (provideChatSessionContent).  The
\* reconnect tracker awaits the confirmation of every call that is not over,
\* the running ones included, whose invocations count as confirmed.
OpenSession ==
  /\ chat = None
  /\ LET c == Opened(host)
         calls == PartsOfTurn(host, c.interrupts)
         shown == Shown(NoInvocations, calls)
         running == {x \in ToolCallId : shown[x] = "executing"}
         tracked == [c EXCEPT !.invocations["reconnect"] = shown,
                              !.sent = Answers(c.interrupts, running, TRUE)]
     IN chat' = IF running = {} THEN tracked ELSE Changed(tracked)
  /\ UNCHANGED <<host, arriving, begun, approved>>

\* The first request of a new chat creates the session and subscribes to it.
NewChat ==
  /\ chat = None /\ begun.turns = 0 /\ host.queued = <<>>
  /\ \E t \in TurnId :
       /\ NewTurn(t)
       /\ chat' = TurnHandled([Opened(host) EXCEPT !.synced = TRUE], t)
  /\ begun' = [begun EXCEPT !.turns = @ + 1]
  /\ UNCHANGED <<host, arriving, approved>>

\* ChatService.sendRequest.  While a response is in progress the widget queues.
InProgress(c) == c.turn["request"] # None \/ (c.streaming /\ ~c.complete)

Send ==
  /\ UserMayAct
  /\ chat.request = "none" /\ ~InProgress(chat)
  /\ \E t \in TurnId : NewTurn(t) /\ chat' = TurnHandled(chat, t)
  /\ begun' = [begun EXCEPT !.turns = @ + 1]
  /\ UNCHANGED <<host, arriving, approved>>

\* The chat model's pending requests change: addPendingRequest,
\* removePendingRequest, setPendingRequests.
QueueChanges(queue) ==
  chat' = Changed(SyncPendingMessages([chat EXCEPT !.queue = queue]))

Queue ==
  /\ UserMayAct /\ begun.messages < MaxQueue
  /\ QueueChanges(Append(chat.queue, begun.messages + 1))
  /\ begun' = [begun EXCEPT !.messages = @ + 1]
  /\ UNCHANGED <<host, arriving, approved>>

RemoveQueued ==
  /\ UserMayAct
  /\ \E i \in DOMAIN chat.queue : QueueChanges(RemoveAt(chat.queue, i))
  /\ UNCHANGED <<host, arriving, begun, approved>>

\* "Run next" moves a message to the front.
ReorderQueue ==
  /\ UserMayAct
  /\ \E i \in 2 .. Len(chat.queue) :
       QueueChanges(<<chat.queue[i]>> \o RemoveAt(chat.queue, i))
  /\ UNCHANGED <<host, arriving, begun, approved>>

\* The user answers the question shown for a call.
Answer ==
  /\ UserMayAct
  /\ \E k \in Tracker, c \in ToolCallId, yes \in BOOLEAN :
       /\ chat.invocations[k][c] = "waiting"
       /\ k = "server" => chat.streaming
       /\ chat' = Changed([chat EXCEPT
            !.invocations[k][c] = IF yes THEN "executing" ELSE "done",
            !.sent = @ \o Answers(chat.turn[k], {c}, yes)])
       /\ approved' = IF yes THEN approved \cup {c} ELSE approved
  /\ UNCHANGED <<host, arriving, begun>>

\* cancelCurrentRequestForSession on a request sent here: the turn is cancelled,
\* its tracker finishes at once, and its questions are denied.
StopRequest ==
  /\ UserMayAct /\ chat.request = "own"
  /\ LET t == chat.turn["request"]
         open == {c \in ToolCallId : chat.invocations["request"][c] = "waiting"}
     IN chat' = Changed([chat EXCEPT
          !.sent = Append(@, EndsTurn("turnCancelled", t)) \o Answers(t, open, FALSE),
          !.turn["request"] = None, !.invocations["request"] = NoInvocations,
          !.complete = TRUE, !.request = "none", !.listening = FALSE])
  /\ UNCHANGED <<host, arriving, begun, approved>>

\* ... and on a turn of the host: the interrupt callback, if its listener is
\* still set, cancels the turn that the chat was opened on and no other.
StopServerTurn ==
  /\ UserMayAct /\ chat.request = "server"
  /\ LET stopped == [chat EXCEPT !.request = "none", !.listening = FALSE]
     IN chat' = IF chat.listening /\ chat.interrupts # None
                THEN Dispatched(stopped, EndsTurn("turnCancelled", chat.interrupts))
                ELSE stopped
  /\ UNCHANGED <<host, arriving, begun, approved>>

-----------------------------------------------------------------------------
(* The host and the channels.                                              *)

\* The echoes of own actions among envelopes.
EchoesIn(envelopes) == Within(envelopes, [action : SessionAction, own : {TRUE}])

\* Own actions the host has not taken: those sent without an echo under way.
Up == SubSeq(chat.sent, Len(EchoesIn(arriving)) + 1, Len(chat.sent))

HostMayAct == Len(arriving) < MaxDown

Envelopes(actions, own) == [i \in DOMAIN actions |-> [action |-> actions[i], own |-> own]]

\* A client that has not subscribed is sent nothing.
Broadcast(envelopes) == arriving' = IF chat = None THEN <<>> ELSE arriving \o envelopes

\* The queue is consumed by an idle session (_tryConsumeNextQueuedMessage).
Consumes(s) ==
  IF s.activeTurn = None /\ s.queued # <<>> /\ begun.turns < MaxTurns
  THEN <<StartsTurn(begun.turns + 1, s.queued[1].id)>> ELSE <<>>

\* The host applies actions, the first one perhaps of this client, and consumes
\* a queued message afterwards where the handler or the agent's idleness says so.
HostApplies(actions, own, consume) ==
  LET after == Applied(host, actions)
      next == IF consume THEN Consumes(after) ELSE <<>>
  IN /\ host' = Applied(after, next)
     /\ Broadcast(Envelopes(actions, own) \o Envelopes(next, FALSE))
     /\ begun' = [begun EXCEPT !.turns = @ + Len(next)]

QueueAction == {"pendingMessageSet", "pendingMessageRemoved", "queuedMessagesReordered"}

HostReceives ==
  /\ HostMayAct /\ chat # None /\ Up # <<>>
  /\ HostApplies(<<Up[1]>>, TRUE, Up[1].type \in QueueAction)
  /\ UNCHANGED <<chat, approved>>

\* receiveEnvelope, then the listeners.
EnvelopeArrives ==
  /\ arriving # <<>>
  /\ chat' = Changed([chat EXCEPT !.confirmed = Reduce(@, arriving[1].action),
                                  !.sent = IF arriving[1].own THEN Tail(@) ELSE @])
  /\ arriving' = Tail(arriving)
  /\ UNCHANGED <<host, begun, approved>>

ActiveStatus(c) == StatusIn(PartsOfTurn(host, ActiveId(host)), c)

\* The agent calls a tool: start and ready, which needs no confirmation yet.
AgentCalls ==
  /\ HostMayAct /\ host.activeTurn # None
  /\ \E c \in ToolCallId \ begun.calls :
       LET t == ActiveId(host)
           actions == <<[type |-> "toolCallStart", turn |-> t, tool |-> c],
                        [type |-> "toolCallReady", turn |-> t, tool |-> c,
                         confirmed |-> "notNeeded"]>>
           after == Applied(host, actions)
       IN /\ host' = after
          /\ Broadcast(Envelopes(actions, FALSE))
          /\ begun' = [begun EXCEPT !.calls = @ \cup {c}]
  /\ UNCHANGED <<chat, approved>>

\* It asks for permission, once for each call.
AgentAsks ==
  /\ HostMayAct
  /\ \E c \in ToolCallId \ begun.asked :
       /\ ActiveStatus(c) = "running"
       /\ LET a == [type |-> "toolCallReady", turn |-> ActiveId(host), tool |-> c,
                    confirmed |-> "none"]
          IN /\ host' = Reduce(host, a)
             /\ Broadcast(Envelopes(<<a>>, FALSE))
       /\ begun' = [begun EXCEPT !.asked = @ \cup {c}]
  /\ UNCHANGED <<chat, approved>>

AgentCompletesCall ==
  /\ HostMayAct
  /\ \E c \in ToolCallId :
       /\ ActiveStatus(c) = "running"
       /\ HostApplies(<<[type |-> "toolCallComplete", turn |-> ActiveId(host), tool |-> c,
                         needsResult |-> FALSE]>>, FALSE, FALSE)
  /\ UNCHANGED <<chat, approved>>

\* The agent is idle, which it is not while it waits for a permission.
AgentIdles ==
  /\ HostMayAct
  /\ \A c \in ToolCallId : ActiveStatus(c) # "pendingConfirmation"
  /\ host.activeTurn # None \/ Consumes(host) # <<>>
  /\ HostApplies(IF host.activeTurn = None THEN <<>>
                 ELSE <<EndsTurn("turnComplete", ActiveId(host))>>, FALSE, TRUE)
  /\ UNCHANGED <<chat, approved>>

\* sendMessage is rejected, or the agent reports an error.
AgentFails ==
  /\ HostMayAct /\ host.activeTurn # None
  /\ HostApplies(<<EndsTurn("error", ActiveId(host))>>, FALSE, FALSE)
  /\ UNCHANGED <<chat, approved>>

\* Another client cancels, answers, starts a turn or queues a message.
OthersActions ==
  {EndsTurn("turnCancelled", t) : t \in {ActiveId(host)} \ {None}}
  \cup {StartsTurn(t, None) : t \in {u \in TurnId : NewTurn(u)}}
  \cup {SetsQueued(m) : m \in {begun.messages + 1} \cap 1 .. MaxQueue}
  \cup {[type |-> "toolCallConfirmed", turn |-> ActiveId(host), tool |-> c,
         approved |-> yes] :
        c \in {x \in ToolCallId : ActiveStatus(x) = "pendingConfirmation"},
        yes \in BOOLEAN}

OtherClientActs ==
  /\ HostMayAct /\ begun.others < MaxOthers
  /\ \E a \in OthersActions :
       LET after == Reduce(host, a)
           next == IF a.type \in QueueAction THEN Consumes(after) ELSE <<>>
       IN /\ host' = Applied(after, next)
          /\ Broadcast(Envelopes(<<a>> \o next, FALSE))
          /\ begun' = [begun EXCEPT
               !.others = @ + 1,
               !.turns = @ + Len(next) + IF a.type = "turnStarted" THEN 1 ELSE 0,
               !.messages = IF a.type = "pendingMessageSet" THEN @ + 1 ELSE @]
          /\ approved' = IF a.type = "toolCallConfirmed" /\ a.approved
                         THEN approved \cup {a.tool} ELSE approved
  /\ UNCHANGED chat

-----------------------------------------------------------------------------
HandlerInit ==
  /\ host = [NewSession EXCEPT !.lifecycle = "ready"]
  /\ arriving = <<>> /\ chat = None /\ approved = {}
  /\ begun = [turns |-> 0, messages |-> 0, calls |-> {}, asked |-> {}, others |-> 0]

HandlerNext ==
  \/ OpenSession \/ NewChat \/ Send \/ Queue \/ RemoveQueued \/ ReorderQueue
  \/ Answer \/ StopRequest \/ StopServerTurn
  \/ HostReceives \/ EnvelopeArrives
  \/ AgentCalls \/ AgentAsks \/ AgentCompletesCall \/ AgentIdles \/ AgentFails
  \/ OtherClientActs

HandlerSpec == HandlerInit /\ [][HandlerNext]_chatVars

-----------------------------------------------------------------------------
(* Properties.                                                             *)

\* The turn that is active in the state the handler reads is followed by exactly
\* one tracker, and no tracker follows another turn: whoever started the turn, and
\* whatever it replaced, the handler makes progress of its parts once.  That of the
\* server tracker is read by the chat service only if the chat is streaming.
ActiveTurnIsTracked ==
  chat # None =>
    LET t == ActiveId(View(chat))
    IN /\ {chat.turn[k] : k \in Tracker} \ {None} = {t} \ {None}
       /\ t # None => Cardinality({k \in Tracker : chat.turn[k] = t}) = 1

\* When a call waits for confirmation in the state the handler reads, the tracker that
\* follows its turn holds an invocation that waits for an answer, also when the call
\* asks while it is running already.  In the chat it is a question, with one exception:
\* a chat that was opened on an idle session with a history is not streaming, and the
\* questions of turns that the host starts do not get there.
PendingIsAsked ==
  chat # None =>
    LET v == View(chat)
    IN \A k \in Tracker, c \in ToolCallId :
         (chat.turn[k] # None /\ StatusIn(PartsOfTurn(v, chat.turn[k]), c)
                                   = "pendingConfirmation")
           => chat.invocations[k][c] = "waiting"

\* When the pending requests of a chat change, and their changes are synced, the
\* queue of the session follows at once, in ids and in order.
ListIsMirrored ==
  [][(chat # None /\ chat'.synced /\ chat'.queue # chat.queue)
       => IdsOf(View(chat').queued) = chat'.queue]_chatVars

\* "User explicitly approved" (ToolCallConfirmationReason.UserAction): a call of
\* the session that was confirmed for that reason was approved by a user, here
\* or at another client.  Violated: opening a chat answers the calls that run.
ApprovalsAreTheUsers ==
  \A c \in ToolCallId :
    \A i \in DOMAIN PartsOfTurn(host, ActiveId(host)) :
      LET part == PartsOfTurn(host, ActiveId(host))[i]
      IN IsToolCall(part, c) /\ part.confirmed = "userAction" => c \in approved
=============================================================================
