--------------------------- MODULE SessionReducer ---------------------------
(***************************************************************************)
(* The pure session reducer every party of the agent host protocol runs:   *)
(* the host's state manager on the authoritative state, and each client on *)
(* its confirmed and optimistic copies (common/state/protocol/reducers.ts).*)
(*                                                                         *)
(* A session is a record and an action is a record with a "type"; Reduce   *)
(* is the switch of sessionReducer.  User text, streamed text and tool     *)
(* payloads are members of small sets; messages shown to the user, time    *)
(* stamps and tool inputs are left out, because no state change depends on *)
(* them.  An absent optional field is the constant None.                   *)
(***************************************************************************)
EXTENDS Naturals, Sequences, FiniteSets

CONSTANTS
  TurnId,        \* turn ids (uuids chosen by whoever starts the turn)
  ToolCallId,    \* tool call ids (chosen by the agent backend)
  PartId,        \* ids of markdown and reasoning parts (uuids)
  MessageId,     \* ids of pending (steering and queued) messages
  Text,          \* contents of user messages
  Chunk,         \* contents of streamed text deltas
  Client,        \* client ids
  Uri,           \* customization uris
  MetaValue,     \* values of the last-writer-wins metadata fields
  None           \* an absent value

-----------------------------------------------------------------------------
(* The shape of a session (common/state/protocol/state.ts).                *)

ToolCallStatus ==
  {"streaming", "pendingConfirmation", "running",
   "pendingResultConfirmation", "completed", "cancelled"}

Settled == {"completed", "cancelled"}

TextKind == {"markdown", "reasoning"}

TextPart == [kind : TextKind, id : PartId, content : Seq(Chunk)]

ToolPart == [kind : {"toolCall"}, id : ToolCallId, status : ToolCallStatus,
             confirmed : {"none", "notNeeded", "userAction"}]

Part == TextPart \cup ToolPart

ActiveTurn == [id : TurnId, message : Text, parts : Seq(Part), usage : BOOLEAN]

Turn == [id : TurnId, message : Text, parts : Seq(Part), usage : BOOLEAN,
         state : {"complete", "cancelled", "error"}]

PendingMessage == [id : MessageId, text : Text]

MetaField == {"title", "model", "serverTools"}

Customizations == [Uri -> {"absent", "enabled", "disabled"}]

SessionState ==
  [lifecycle      : {"creating", "ready", "creationFailed"},
   status         : {"idle", "in-progress", "error"},
   turns          : Seq(Turn),
   activeTurn     : ActiveTurn \cup {None},
   steering       : PendingMessage \cup {None},
   queued         : Seq(PendingMessage),
   meta           : [MetaField -> MetaValue \cup {None}],
   activeClient   : [client : Client, tools : MetaValue \cup {None}] \cup {None},
   customizations : Customizations]

ASSUME NoneIsNoValue == None \notin ActiveTurn \cup PendingMessage \cup SessionState

\* createSessionState: what a session is before any action reached it.
NewSession ==
  [lifecycle |-> "creating", status |-> "idle", turns |-> <<>>,
   activeTurn |-> None, steering |-> None, queued |-> <<>>,
   meta |-> [f \in MetaField |-> None], activeClient |-> None,
   customizations |-> [u \in Uri |-> "absent"]]

-----------------------------------------------------------------------------
(* Helpers of the reducer.                                                 *)

\* Most turn actions name a turn and are dropped unless it is the active one.
IsActive(s, t) == s.activeTurn # None /\ s.activeTurn.id = t

IsToolCall(part, c) == part.kind = "toolCall" /\ part.id = c

\* Broken variant: only running tool calls are closed.
SettleRunning(part) ==
  IF part.kind = "toolCall" /\ part.status = "running"
  THEN [part EXCEPT !.status = "cancelled", !.confirmed = "none"]
  ELSE part

Settle(part) ==
  IF part.kind = "toolCall" /\ part.status \notin Settled
  THEN [part EXCEPT !.status = "cancelled", !.confirmed = "none"]
  ELSE part

\* Broken variant: the active turn is recorded without its outcome.
EndTurnAsIs(s, t, turnState, status) ==
  IF ~IsActive(s, t) THEN s
  ELSE [s EXCEPT !.turns = Append(@, s.activeTurn), !.activeTurn = None,
                 !.status = status]

\* endTurn: finalise the active turn, cancelling the tool calls still open.
EndTurn(s, t, turnState, status) ==
  IF ~IsActive(s, t) THEN s
  ELSE LET a == s.activeTurn
           settled == [i \in DOMAIN a.parts |-> Settle(a.parts[i])]
           turn == [id |-> a.id, message |-> a.message, parts |-> settled,
                    usage |-> a.usage, state |-> turnState]
       IN [s EXCEPT !.turns = Append(@, turn), !.activeTurn = None,
                    !.status = status]

\* updateToolCallInParts: Upd is applied to every part of tool call c.
UpdateToolCall(s, t, c, Upd(_)) ==
  IF ~IsActive(s, t) THEN s
  ELSE LET parts == s.activeTurn.parts
       IN [s EXCEPT !.activeTurn.parts =
             [i \in DOMAIN parts |->
                IF IsToolCall(parts[i], c) THEN Upd(parts[i]) ELSE parts[i]]]

\* updateResponsePart with the updater of delta and reasoning: text is added to
\* the part with the id, if it is of the kind the action is for.  Part ids are
\* fresh uuids, so the first part with the id is the only one.
AppendText(s, t, kind, p, chunk) ==
  IF ~IsActive(s, t) THEN s
  ELSE LET parts == s.activeTurn.parts
           WithText(part) == [part EXCEPT !.content = Append(@, chunk)]
       IN [s EXCEPT !.activeTurn.parts =
             [i \in DOMAIN parts |->
                IF parts[i].kind = kind /\ parts[i].id = p
                THEN WithText(parts[i]) ELSE parts[i]]]

AppendPart(s, t, part) ==
  IF ~IsActive(s, t) THEN s
  ELSE [s EXCEPT !.activeTurn.parts = Append(@, part)]

\* The updaters of the tool call state machine.
ToolCall(part, status, confirmed) ==
  [part EXCEPT !.status = status, !.confirmed = confirmed]

\* Broken variants: a call is made ready whatever its status, or only once.
ReadyAlways(part, confirmed) ==
  IF confirmed # "none" THEN ToolCall(part, "running", confirmed)
  ELSE ToolCall(part, "pendingConfirmation", "none")

ReadyOnce(part, confirmed) ==
  IF part.status # "streaming" THEN part ELSE ReadyAlways(part, confirmed)

Ready(part, confirmed) ==
  IF part.status \notin {"streaming", "running"} THEN part
  ELSE IF confirmed # "none" THEN ToolCall(part, "running", confirmed)
  ELSE ToolCall(part, "pendingConfirmation", "none")

Confirmed(part, approved) ==
  IF part.status # "pendingConfirmation" THEN part
  ELSE IF approved THEN ToolCall(part, "running", "userAction")
  ELSE ToolCall(part, "cancelled", "none")

Completed(part, needsResult) ==
  LET confirmed == IF part.status = "running" THEN part.confirmed
                   ELSE "notNeeded"
  IN IF part.status \notin {"running", "pendingConfirmation"} THEN part
     ELSE IF needsResult THEN ToolCall(part, "pendingResultConfirmation", confirmed)
     ELSE ToolCall(part, "completed", confirmed)

ResultConfirmed(part, approved) ==
  IF part.status # "pendingResultConfirmation" THEN part
  ELSE IF approved THEN ToolCall(part, "completed", part.confirmed)
  ELSE ToolCall(part, "cancelled", "none")

-----------------------------------------------------------------------------
(* The queue of messages waiting for a turn of their own.                  *)

QueuedIds(queue) == {queue[i].id : i \in DOMAIN queue}

UniqueIds(queue) == \A i, j \in DOMAIN queue : queue[i].id = queue[j].id => i = j

\* A sequence without its k-th entry.
WithoutAt(q, k) == [i \in 1 .. (Len(q) - 1) |-> IF i < k THEN q[i] ELSE q[i + 1]]

\* queuedMessages.filter(m => m.id !== id).  Upsert keeps ids unique, so there
\* is at most one entry to drop.
Without(queue, id) ==
  IF id \notin QueuedIds(queue) THEN queue
  ELSE WithoutAt(queue, CHOOSE k \in DOMAIN queue : queue[k].id = id)

\* Broken variant: an edited message is queued once more.
UpsertAppends(queue, entry) == Append(queue, entry)

\* An entry with the id is replaced where it is, else appended.
Upsert(queue, entry) ==
  IF entry.id \in QueuedIds(queue)
  THEN [i \in DOMAIN queue |-> IF queue[i].id = entry.id THEN entry ELSE queue[i]]
  ELSE Append(queue, entry)

\* Broken variant: messages the order does not name come first.
SortKeyUnnamedFirst(queue, order, i) ==
  LET named == {j \in DOMAIN order : order[j] = queue[i].id}
  IN IF named # {} THEN Len(queue) + CHOOSE j \in named : \A k \in named : j <= k
     ELSE i

\* Where the reordered queue puts entry i: at the first place "order" names its
\* id, or else behind every named entry, in the old order.
SortKey(queue, order, i) ==
  LET named == {j \in DOMAIN order : order[j] = queue[i].id}
  IN IF named # {} THEN CHOOSE j \in named : \A k \in named : j <= k
     ELSE Len(order) + i

Rank(queue, order, i) ==
  Cardinality({j \in DOMAIN queue : SortKey(queue, order, j) <= SortKey(queue, order, i)})

\* Ids in "order" that are not queued, and repeated ones, have no effect.
Reordered(queue, order) ==
  [k \in DOMAIN queue |->
     queue[CHOOSE i \in DOMAIN queue : Rank(queue, order, i) = k]]

-----------------------------------------------------------------------------
(* The actions.                                                            *)

TurnActionType == {"turnComplete", "turnCancelled", "error", "usage"}

SessionAction ==
       [type : {"ready", "creationFailed"}]
  \cup [type : {"turnStarted"}, turn : TurnId, message : Text,
        queuedId : MessageId \cup {None}]
  \cup [type : TurnActionType, turn : TurnId]
  \cup [type : {"responsePart"}, turn : TurnId, part : TextPart]
  \cup [type : {"delta", "reasoning"}, turn : TurnId, part : PartId, chunk : Chunk]
  \cup [type : {"toolCallStart"}, turn : TurnId, tool : ToolCallId]
  \cup [type : {"toolCallReady"}, turn : TurnId, tool : ToolCallId,
        confirmed : {"none", "notNeeded", "userAction"}]
  \cup [type : {"toolCallConfirmed", "toolCallResultConfirmed"}, turn : TurnId,
        tool : ToolCallId, approved : BOOLEAN]
  \cup [type : {"toolCallComplete"}, turn : TurnId, tool : ToolCallId,
        needsResult : BOOLEAN]
  \cup [type : {"metaChanged"}, field : MetaField, value : MetaValue]
  \cup [type : {"activeClientChanged"},
        client : [client : Client, tools : MetaValue \cup {None}] \cup {None}]
  \cup [type : {"activeClientToolsChanged"}, tools : MetaValue]
  \cup [type : {"customizationsChanged"}, customizations : Customizations]
  \cup [type : {"customizationToggled"}, uri : Uri, enabled : BOOLEAN]
  \cup [type : {"pendingMessageSet"}, kind : {"steering", "queued"},
        id : MessageId, text : Text]
  \cup [type : {"pendingMessageRemoved"}, kind : {"steering", "queued"},
        id : MessageId]
  \cup [type : {"queuedMessagesReordered"}, order : Seq(MessageId)]

\* A turn starts whether or not another one is active: the active turn is
\* replaced, it is not ended.  The pending message it came from is removed.
TurnStarted(s, a) ==
  [s EXCEPT
     !.status = "in-progress",
     !.activeTurn = [id |-> a.turn, message |-> a.message, parts |-> <<>>,
                     usage |-> FALSE],
     !.steering = IF a.queuedId # None /\ @ # None /\ @.id = a.queuedId
                  THEN None ELSE @,
     !.queued = IF a.queuedId # None THEN Without(@, a.queuedId) ELSE @]

ToolCallStart(s, a) ==
  AppendPart(s, a.turn, [kind |-> "toolCall", id |-> a.tool,
                         status |-> "streaming", confirmed |-> "none"])

ToolCallReady(s, a) ==
  UpdateToolCall(s, a.turn, a.tool, LAMBDA p : Ready(p, a.confirmed))

ToolCallConfirmed(s, a) ==
  UpdateToolCall(s, a.turn, a.tool, LAMBDA p : Confirmed(p, a.approved))

ToolCallComplete(s, a) ==
  UpdateToolCall(s, a.turn, a.tool, LAMBDA p : Completed(p, a.needsResult))

ToolCallResultConfirmed(s, a) ==
  UpdateToolCall(s, a.turn, a.tool, LAMBDA p : ResultConfirmed(p, a.approved))

PendingMessageSet(s, a) ==
  LET entry == [id |-> a.id, text |-> a.text]
  IN IF a.kind = "steering" THEN [s EXCEPT !.steering = entry]
     ELSE [s EXCEPT !.queued = Upsert(@, entry)]

\* Broken variant: the kind of the message is ignored.
RemovedFromQueue(s, a) == [s EXCEPT !.queued = Without(@, a.id)]

PendingMessageRemoved(s, a) ==
  IF a.kind = "queued" THEN [s EXCEPT !.queued = Without(@, a.id)]
  ELSE IF s.steering # None /\ s.steering.id = a.id THEN [s EXCEPT !.steering = None]
  ELSE s

ActiveClientToolsChanged(s, a) ==
  IF s.activeClient = None THEN s ELSE [s EXCEPT !.activeClient.tools = a.tools]

CustomizationToggled(s, a) ==
  IF s.customizations[a.uri] = "absent" THEN s
  ELSE [s EXCEPT !.customizations[a.uri] =
          IF a.enabled THEN "enabled" ELSE "disabled"]

\* sessionReducer
Reduce(s, a) ==
  CASE a.type = "ready"          -> [s EXCEPT !.lifecycle = "ready", !.status = "idle"]
    [] a.type = "creationFailed" -> [s EXCEPT !.lifecycle = "creationFailed"]
    [] a.type = "turnStarted"    -> TurnStarted(s, a)
    [] a.type = "turnComplete"   -> EndTurn(s, a.turn, "complete", "idle")
    [] a.type = "turnCancelled"  -> EndTurn(s, a.turn, "cancelled", "idle")
    [] a.type = "error"          -> EndTurn(s, a.turn, "error", "error")
    [] a.type = "responsePart"   -> AppendPart(s, a.turn, a.part)
    [] a.type = "delta"          -> AppendText(s, a.turn, "markdown", a.part, a.chunk)
    [] a.type = "reasoning"      -> AppendText(s, a.turn, "reasoning", a.part, a.chunk)
    [] a.type = "usage"          -> IF ~IsActive(s, a.turn) THEN s
                                    ELSE [s EXCEPT !.activeTurn.usage = TRUE]
    [] a.type = "toolCallStart"  -> ToolCallStart(s, a)
    [] a.type = "toolCallReady"  -> ToolCallReady(s, a)
    [] a.type = "toolCallConfirmed" -> ToolCallConfirmed(s, a)
    [] a.type = "toolCallComplete" -> ToolCallComplete(s, a)
    [] a.type = "toolCallResultConfirmed" -> ToolCallResultConfirmed(s, a)
    [] a.type = "metaChanged"    -> [s EXCEPT !.meta[a.field] = a.value]
    [] a.type = "activeClientChanged" -> [s EXCEPT !.activeClient = a.client]
    [] a.type = "activeClientToolsChanged" -> ActiveClientToolsChanged(s, a)
    [] a.type = "customizationsChanged" -> [s EXCEPT !.customizations = a.customizations]
    [] a.type = "customizationToggled" -> CustomizationToggled(s, a)
    [] a.type = "pendingMessageSet" -> PendingMessageSet(s, a)
    [] a.type = "pendingMessageRemoved" -> PendingMessageRemoved(s, a)
    [] a.type = "queuedMessagesReordered" ->
         [s EXCEPT !.queued = Reordered(@, a.order)]
=============================================================================
