--------------------------- MODULE ReducerMachine ---------------------------
(***************************************************************************)
(* One session to which every action of the protocol may be applied at any *)
(* time, in any order: the host applies provider events and the actions of *)
(* several clients as they come, so the reducer itself has to keep the     *)
(* session sound.  Ids are used the way their owners use them: each turn,  *)
(* text part and tool call is started under a fresh id, and the others may *)
(* be named at any time, by late or repeated actions too.                  *)
(***************************************************************************)
EXTENDS SessionReducer, Subsequences

CONSTANTS
  MaxParts,   \* bound: parts of the active turn
  MaxText,    \* bound: chunks of one text part
  MaxQueue    \* bound: queued messages

VARIABLE session

Turns(s) == {s.turns[i] : i \in DOMAIN s.turns} \cup ({s.activeTurn} \ {None})

PartsOf(turn) == {turn.parts[i] : i \in DOMAIN turn.parts}

AllParts(s) == UNION {PartsOf(turn) : turn \in Turns(s)}

UsedIds(s, kinds) == {p.id : p \in {q \in AllParts(s) : q.kind \in kinds}}

RoomForPart == session.activeTurn # None /\ Len(session.activeTurn.parts) < MaxParts

Apply(a) == session' = Reduce(session, a)

-----------------------------------------------------------------------------
Init == session = NewSession

SettleLifecycle ==
  /\ session.lifecycle = "creating"
  /\ \E type \in {"ready", "creationFailed"} : Apply([type |-> type])

\* A client starts a turn, or the host starts one for a pending message.
StartTurn ==
  \E t \in TurnId \ {turn.id : turn \in Turns(session)}, m \in Text,
     q \in MessageId \cup {None} :
    Apply([type |-> "turnStarted", turn |-> t, message |-> m, queuedId |-> q])

OfTurn ==
  \E t \in TurnId, type \in TurnActionType : Apply([type |-> type, turn |-> t])

StartPart ==
  /\ RoomForPart
  /\ \E t \in TurnId :
       \/ \E p \in PartId \ UsedIds(session, TextKind), k \in TextKind, c \in Chunk :
            Apply([type |-> "responsePart", turn |-> t,
                   part |-> [kind |-> k, id |-> p, content |-> <<c>>]])
       \/ \E c \in ToolCallId \ UsedIds(session, {"toolCall"}) :
            Apply([type |-> "toolCallStart", turn |-> t, tool |-> c])

Stream ==
  \E t \in TurnId, p \in PartId, c \in Chunk, type \in {"delta", "reasoning"} :
    /\ \A q \in AllParts(session) :
         q.kind \in TextKind /\ q.id = p => Len(q.content) < MaxText
    /\ Apply([type |-> type, turn |-> t, part |-> p, chunk |-> c])

OfToolCall ==
  \E t \in TurnId, c \in ToolCallId :
    \/ \E w \in {"none", "notNeeded", "userAction"} :
         Apply([type |-> "toolCallReady", turn |-> t, tool |-> c, confirmed |-> w])
    \/ \E ok \in BOOLEAN, type \in {"toolCallConfirmed", "toolCallResultConfirmed"} :
         Apply([type |-> type, turn |-> t, tool |-> c, approved |-> ok])
    \/ \E need \in BOOLEAN :
         Apply([type |-> "toolCallComplete", turn |-> t, tool |-> c,
                needsResult |-> need])

Metadata ==
  \/ \E f \in MetaField, v \in MetaValue :
       Apply([type |-> "metaChanged", field |-> f, value |-> v])
  \/ \E c \in [client : Client, tools : MetaValue \cup {None}] \cup {None} :
       Apply([type |-> "activeClientChanged", client |-> c])
  \/ \E v \in MetaValue : Apply([type |-> "activeClientToolsChanged", tools |-> v])
  \/ \E cs \in Customizations :
       Apply([type |-> "customizationsChanged", customizations |-> cs])
  \/ \E u \in Uri, on \in BOOLEAN :
       Apply([type |-> "customizationToggled", uri |-> u, enabled |-> on])

Orders == UNION {[1 .. n -> MessageId] : n \in 0 .. 3}

Pending ==
  \/ \E k \in {"steering", "queued"}, id \in MessageId, m \in Text :
       /\ Len(session.queued) < MaxQueue \/ id \in QueuedIds(session.queued)
       /\ Apply([type |-> "pendingMessageSet", kind |-> k, id |-> id, text |-> m])
  \/ \E k \in {"steering", "queued"}, id \in MessageId :
       Apply([type |-> "pendingMessageRemoved", kind |-> k, id |-> id])
  \/ \E order \in Orders :
       Apply([type |-> "queuedMessagesReordered", order |-> order])

Next == \/ SettleLifecycle \/ StartTurn \/ OfTurn \/ StartPart \/ Stream
        \/ OfToolCall \/ Metadata \/ Pending

Spec == Init /\ [][Next]_session

-----------------------------------------------------------------------------
\* Every action keeps the session a session: no part, turn or pending message ends
\* up with a field another type of it would have.
ReducerTypeOK == session \in SessionState

\* All tool calls of the turns in the history are settled.
HistorySettled(turns) ==
  \A i \in DOMAIN turns : \A k \in DOMAIN turns[i].parts :
    turns[i].parts[k].kind = "toolCall" => turns[i].parts[k].status \in Settled

\* Once a turn is in the history it is never changed or removed, whatever late
\* action still names it or one of its tool calls, and all its tool calls are
\* settled: endTurn closes the open ones, and every other action only reaches
\* the active turn.
HistorySettledAndFrozen ==
  [][ /\ Len(session'.turns) \in {Len(session.turns), Len(session.turns) + 1}
      /\ \A i \in DOMAIN session.turns : session'.turns[i] = session.turns[i]
      /\ HistorySettled(session'.turns) ]_session

\* However clients set, edit, remove and reorder pending messages, with a stale
\* view or not, no two queue entries share an id: a duplicate would be sent to
\* the agent twice, and removing the message would not remove it.
QueueIdsUnique == UniqueIds(session.queued)

\* sessionReducer's case SessionQueuedMessagesReordered as the code computes it:
\* the named messages in order, once each, then the others in queue order.
CodeReordered(queue, order) ==
  LET known == {i \in DOMAIN order : /\ order[i] \in QueuedIds(queue)
                                     /\ \A j \in 1 .. i - 1 : order[j] # order[i]}
      places == Within([i \in DOMAIN order |-> i], known)
      byId(id) == queue[CHOOSE i \in DOMAIN queue : queue[i].id = id]
      unnamed == {m \in PendingMessage : \A i \in DOMAIN order : order[i] # m.id}
  IN [k \in DOMAIN places |-> byId(order[places[k]])] \o Within(queue, unnamed)

\* For every queue that can arise and every order a client can send, sorting by
\* rank gives what the code's two passes give: nothing is lost or duplicated,
\* and messages a stale order does not mention keep their place at the end.
ReorderIsStable ==
  \A order \in Orders :
    Reordered(session.queued, order) = CodeReordered(session.queued, order)

-----------------------------------------------------------------------------
(* The session as a table of tool calls.                                   *)

\* What the turns hold of tool call c.
CallsOf(s, c) == {p \in AllParts(s) : IsToolCall(p, c)}

StatusOf(s, c) ==
  IF CallsOf(s, c) = {} THEN "absent" ELSE (CHOOSE p \in CallsOf(s, c) : TRUE).status

Calls == INSTANCE ToolCallLifecycle
           WITH status <- [c \in ToolCallId |-> StatusOf(session, c)]

\* The reducer implements the tool call life cycle: no sequence of actions, in
\* particular a confirmation or a completion that arrives late or twice, takes a
\* tool call back from a settled state or over an edge the protocol lacks.
ToolCallFollowsLifecycle == Calls!Spec
=============================================================================
