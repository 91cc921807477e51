------------------------ MODULE ReducerMachineProofs ------------------------
(***************************************************************************)
(* Whatever actions reach a session, in whatever order, it stays sound,    *)
(* its history only grows, and its tool calls follow their life cycle: for *)
(* every set of ids, texts and clients, and without the bounds of the      *)
(* model-checked instances.                                                *)
(***************************************************************************)
EXTENDS ReducerMachine, SessionReducerProofs, SubsequenceLemmas

\* Wherever a tool call appears in a session, it is the same.
CallsAreOne(s) == \A c \in ToolCallId : \A p, q \in CallsOf(s, c) : p = q

\* The history is settled as well as the session being sound: a step can only be
\* shown to keep settled what the steps before it have settled.  That a call is
\* one thing is what its status rests on.
MachineInv == /\ Sound(session)
              /\ HistorySettled(session.turns)
              /\ CallsAreOne(session)

\* What an action may do to the history.
Extends(new, old) ==
  /\ Len(new) \in {Len(old), Len(old) + 1}
  /\ \A i \in DOMAIN old : new[i] = old[i]
  /\ HistorySettled(new)

-----------------------------------------------------------------------------
\* endTurn leaves no tool call open.
LEMMA EndTurnSettles ==
  ASSUME NEW s \in SessionState, HistorySettled(s.turns),
         NEW t \in TurnId, NEW turnState, NEW status
  PROVE  Extends(EndTurn(s, t, turnState, status).turns, s.turns)
<1> DEFINE r == EndTurn(s, t, turnState, status)
<1>1. s.turns \in Seq(Turn) /\ Len(s.turns) \in Nat /\ DOMAIN s.turns = 1 .. Len(s.turns)
  BY LenProperties DEF SessionState
<1>2. CASE ~IsActive(s, t)
  BY <1>1, <1>2 DEF EndTurn, Extends
<1>3. CASE IsActive(s, t)
  <2> DEFINE parts == s.activeTurn.parts
             settled == [i \in DOMAIN parts |-> Settle(parts[i])]
             turn == [id |-> s.activeTurn.id, message |-> s.activeTurn.message,
                      parts |-> settled, usage |-> s.activeTurn.usage,
                      state |-> turnState]
  <2>1. s.activeTurn \in ActiveTurn
    BY <1>3 DEF IsActive, SessionState
  <2>2. \A i \in DOMAIN parts : parts[i] \in Part
    BY <2>1, LenProperties DEF ActiveTurn
  <2>3. \A i \in DOMAIN settled : settled[i].kind = "toolCall" => settled[i].status \in Settled
    BY <2>2 DEF Settle, Settled, Part, TextPart, ToolPart, TextKind
  <2>4. r.turns = Append(s.turns, turn)
    BY <1>3 DEF EndTurn, SessionState
  <2>5. turn.parts = settled
    OBVIOUS
  <2> HIDE DEF turn, settled
  <2>6. /\ Len(r.turns) = Len(s.turns) + 1
        /\ DOMAIN r.turns = 1 .. (Len(s.turns) + 1)
        /\ \A i \in 1 .. Len(s.turns) : r.turns[i] = s.turns[i]
        /\ r.turns[Len(s.turns) + 1] = turn
    BY <1>1, <2>4
  <2>7. HistorySettled(r.turns)
    BY <1>1, <2>3, <2>5, <2>6 DEF HistorySettled
  <2> QED
    BY <1>1, <2>6, <2>7 DEF Extends
<1> QED
  BY <1>2, <1>3

\* No action changes or removes a turn of the history.
LEMMA ReduceHistory ==
  ASSUME NEW s \in SessionState, HistorySettled(s.turns), NEW a \in SessionAction
  PROVE  Extends(Reduce(s, a).turns, s.turns)
<1>0. Extends(s.turns, s.turns)
  BY DEF Extends
<1>1. CASE a.type \in {"turnComplete", "turnCancelled", "error"}
  <2>1. a.turn \in TurnId
    BY <1>1 DEF SessionAction, TurnActionType
  <2>2. Reduce(s, a) = EndTurn(s, a.turn,
                         IF a.type = "turnComplete" THEN "complete"
                         ELSE IF a.type = "turnCancelled" THEN "cancelled" ELSE "error",
                         IF a.type = "error" THEN "error" ELSE "idle")
    BY <1>1 DEF Reduce
  <2> QED
    BY <2>1, <2>2, EndTurnSettles
<1>2. CASE a.type \in {"turnStarted", "delta", "reasoning", "responsePart",
                     "toolCallStart", "usage"}
  <2>1. Reduce(s, a).turns = s.turns
    BY <1>2 DEF Reduce, TurnStarted, AppendText, AppendPart, ToolCallStart, SessionState
  <2> QED
    BY <1>0, <2>1
<1>3. CASE a.type \in {"toolCallReady", "toolCallConfirmed", "toolCallComplete",
                     "toolCallResultConfirmed"}
  <2>1. CASE a.type = "toolCallReady"
    BY <1>0, <2>1 DEF Reduce, ToolCallReady, UpdateToolCall, SessionState
  <2>2. CASE a.type = "toolCallConfirmed"
    BY <1>0, <2>2 DEF Reduce, ToolCallConfirmed, UpdateToolCall, SessionState
  <2>3. CASE a.type = "toolCallComplete"
    BY <1>0, <2>3 DEF Reduce, ToolCallComplete, UpdateToolCall, SessionState
  <2>4. CASE a.type = "toolCallResultConfirmed"
    BY <1>0, <2>4 DEF Reduce, ToolCallResultConfirmed, UpdateToolCall, SessionState
  <2> QED
    BY <1>3, <2>1, <2>2, <2>3, <2>4
<1>4. CASE a.type \in {"ready", "creationFailed", "metaChanged", "activeClientChanged",
                     "activeClientToolsChanged", "customizationsChanged",
                     "customizationToggled", "pendingMessageSet",
                     "pendingMessageRemoved", "queuedMessagesReordered"}
  <2>1. Reduce(s, a).turns = s.turns
    BY <1>4 DEF Reduce, ActiveClientToolsChanged, CustomizationToggled,
         PendingMessageSet, PendingMessageRemoved, SessionState
  <2> QED
    BY <1>0, <2>1
<1> QED
  BY <1>1, <1>2, <1>3, <1>4 DEF SessionAction, TurnActionType

-----------------------------------------------------------------------------
(* Where the parts of a session are.                                       *)

HistoryParts(turns) == UNION {PartsOf(turns[i]) : i \in DOMAIN turns}

LEMMA PartsAreSomewhere ==
  ASSUME NEW s
  PROVE  /\ s.activeTurn = None => AllParts(s) = HistoryParts(s.turns)
         /\ s.activeTurn # None =>
              AllParts(s) = HistoryParts(s.turns) \cup PartsOf(s.activeTurn)
BY DEF AllParts, HistoryParts, Turns

LEMMA PartsAreParts ==
  ASSUME NEW s \in SessionState
  PROVE  AllParts(s) \subseteq Part
<1>1. ASSUME NEW turn \in Turns(s)
      PROVE  turn.parts \in Seq(Part)
  <2>1. turn \in Turn \/ turn \in ActiveTurn
    <3>1. \A i \in DOMAIN s.turns : s.turns[i] \in Turn
      BY LenProperties DEF SessionState
    <3> QED
      BY <3>1 DEF Turns, SessionState
  <2> QED
    BY <2>1 DEF Turn, ActiveTurn
<1>2. ASSUME NEW parts \in Seq(Part), NEW i \in DOMAIN parts
      PROVE  parts[i] \in Part
  BY <1>2, LenProperties
<1> QED
  BY <1>1, <1>2 DEF AllParts, PartsOf

LEMMA HistoryIsSettled ==
  ASSUME NEW turns, HistorySettled(turns), NEW p \in HistoryParts(turns),
         p.kind = "toolCall"
  PROVE  p.status \in Settled
BY DEF HistorySettled, HistoryParts, PartsOf

-----------------------------------------------------------------------------
(* How an action may move tool calls.                                      *)

\* The life cycle once a call is started; a running call that is made ready again
\* keeps running.
MovesTo(v, w) ==
  \/ v \in {"streaming", "running"} /\ w = "pendingConfirmation"
  \/ v \in {"streaming", "pendingConfirmation", "running"} /\ w = "running"
  \/ v \in {"running", "pendingConfirmation"} /\ w = "pendingResultConfirmation"
  \/ /\ v \in {"running", "pendingConfirmation", "pendingResultConfirmation"}
     /\ w = "completed"
  \/ v \notin Settled /\ w = "cancelled"

\* A part that an action has put in the place of another.
PartFollows(p, q) ==
  \/ p = q
  \/ p.kind \in TextKind /\ q.kind \in TextKind
  \/ /\ p.kind = "toolCall" /\ p.status \notin Settled
     /\ q.kind = "toolCall" /\ q.id = p.id
     /\ MovesTo(p.status, q.status)

CallMoves(s, r, c) ==
  \/ CallsOf(r, c) = CallsOf(s, c)
  \/ CallsOf(r, c) = {}
  \/ CallsOf(s, c) = {} /\ \E p : CallsOf(r, c) = {p} /\ p.status = "streaming"
  \/ \E p, q : /\ CallsOf(s, c) = {p} /\ CallsOf(r, c) = {q}
               /\ MovesTo(p.status, q.status)

\* Parts changed one by one, equal ones equally.
Replaces(new, old) ==
  /\ DOMAIN new = DOMAIN old
  /\ \A i \in DOMAIN new : PartFollows(old[i], new[i])
  /\ \A i, j \in DOMAIN new : old[i] = old[j] => new[i] = new[j]

LEMMA PartsFollow ==
  ASSUME NEW s \in SessionState, HistorySettled(s.turns), CallsAreOne(s),
         s.activeTurn # None, NEW c \in ToolCallId, NEW r, NEW new,
         AllParts(r) = HistoryParts(s.turns) \cup {new[i] : i \in DOMAIN new},
         Replaces(new, s.activeTurn.parts)
  PROVE  CallMoves(s, r, c)
<1> DEFINE parts == s.activeTurn.parts
           H == HistoryParts(s.turns)
<1>0. /\ DOMAIN new = DOMAIN parts
      /\ \A i \in DOMAIN new : PartFollows(parts[i], new[i])
      /\ \A i, j \in DOMAIN new : parts[i] = parts[j] => new[i] = new[j]
  BY DEF Replaces
<1>1. AllParts(s) = H \cup PartsOf(s.activeTurn)
  BY PartsAreSomewhere
<1>2. \A p : p \in CallsOf(s, c) <=>
        /\ IsToolCall(p, c)
        /\ p \in H \/ \E i \in DOMAIN parts : p = parts[i]
  BY <1>1 DEF CallsOf, PartsOf
<1>3. \A p : p \in CallsOf(r, c) <=>
        /\ IsToolCall(p, c)
        /\ p \in H \/ \E i \in DOMAIN new : p = new[i]
  BY DEF CallsOf
<1>4. \A p \in H : IsToolCall(p, c) => p.status \in Settled
  BY HistoryIsSettled DEF IsToolCall
<1>5. \A i \in DOMAIN new : IsToolCall(new[i], c) <=> IsToolCall(parts[i], c)
  BY <1>0 DEF PartFollows, IsToolCall, TextKind
<1>6. CASE CallsOf(s, c) = {}
  <2>1. \A p : p \notin CallsOf(r, c)
    BY <1>0, <1>2, <1>3, <1>5, <1>6
  <2> QED
    BY <2>1 DEF CallMoves
<1>7. ASSUME NEW p, p \in CallsOf(s, c)
      PROVE  CallMoves(s, r, c)
  <2>1. CallsOf(s, c) = {p}
    BY <1>7 DEF CallsAreOne
  <2>2. IsToolCall(p, c)
    BY <1>7 DEF CallsOf
  <2>3. \A i \in DOMAIN new : IsToolCall(new[i], c) => parts[i] = p
    BY <1>0, <1>2, <1>5, <2>1
  <2>4. CASE p.status \in Settled
    <3>1. \A i \in DOMAIN new : parts[i] = p => new[i] = p
      BY <1>0, <2>2, <2>4 DEF PartFollows, IsToolCall, TextKind
    <3>2. \A q \in CallsOf(r, c) : q = p
      BY <1>0, <1>2, <1>3, <2>1, <2>3, <3>1
    <3>3. p \in CallsOf(r, c)
      BY <1>0, <1>2, <1>3, <1>7, <3>1
    <3>4. CallsOf(r, c) = CallsOf(s, c)
      BY <2>1, <3>2, <3>3
    <3> QED
      BY <3>4 DEF CallMoves
  <2>5. CASE p.status \notin Settled
    <3>1. p \notin H
      BY <1>4, <2>2, <2>5
    <3>2. PICK k \in DOMAIN new : parts[k] = p
      BY <1>0, <1>2, <1>7, <3>1
    <3>3. IsToolCall(new[k], c)
      BY <1>5, <2>2, <3>2
    <3>4. \A q \in CallsOf(r, c) : q = new[k]
      <4> SUFFICES ASSUME NEW q \in CallsOf(r, c)
                   PROVE  q = new[k]
        OBVIOUS
      <4>1. CASE q \in H
        <5>1. q \in CallsOf(s, c)
          BY <1>2, <1>3, <4>1
        <5> QED
          BY <2>1, <3>1, <4>1, <5>1
      <4>2. CASE \E i \in DOMAIN new : q = new[i]
        <5>1. PICK i \in DOMAIN new : q = new[i]
          BY <4>2
        <5>2. parts[i] = parts[k]
          BY <1>0, <1>3, <2>3, <3>2, <5>1
        <5> QED
          BY <1>0, <3>2, <5>1, <5>2
      <4> QED
        BY <1>3, <4>1, <4>2
    <3>5. new[k] \in CallsOf(r, c)
      BY <1>0, <1>3, <3>3
    <3>6. CallsOf(r, c) = {new[k]}
      BY <3>4, <3>5
    <3>7. PartFollows(p, new[k])
      BY <1>0, <3>2
    <3>8. p = new[k] \/ MovesTo(p.status, new[k].status)
      BY <2>2, <3>7 DEF PartFollows, IsToolCall, TextKind
    <3> QED
      BY <2>1, <3>6, <3>8 DEF CallMoves
  <2> QED
    BY <2>4, <2>5
<1> QED
  BY <1>6, <1>7

LEMMA SameTurnsSameCalls ==
  ASSUME NEW s, NEW r, r.turns = s.turns, r.activeTurn = s.activeTurn, NEW c
  PROVE  CallMoves(s, r, c)
<1>1. AllParts(r) = AllParts(s)
  BY DEF AllParts, Turns
<1> QED
  BY <1>1 DEF CallsOf, CallMoves

\* The turn that is replaced takes its calls along.
LEMMA TurnStartedCalls ==
  ASSUME NEW s \in SessionState, CallsAreOne(s), NEW a \in SessionAction,
         a.type = "turnStarted", NEW c \in ToolCallId
  PROVE  CallMoves(s, Reduce(s, a), c)
<1> DEFINE r == Reduce(s, a)
           turn == [id |-> a.turn, message |-> a.message, parts |-> <<>>, usage |-> FALSE]
<1>1. r.turns = s.turns /\ r.activeTurn = turn
  BY DEF Reduce, TurnStarted, SessionState
<1>2. a.turn \in TurnId /\ a.message \in Text
  BY DEF SessionAction, TurnActionType
<1>3. turn \in ActiveTurn
  BY <1>2 DEF ActiveTurn
<1>4. r.activeTurn # None
  BY <1>1, <1>3, NoneIsNoValue
<1>5. PartsOf(turn) = {}
  BY DEF PartsOf
<1> HIDE DEF r, turn
<1>6. AllParts(r) = HistoryParts(s.turns)
  BY <1>1, <1>4, <1>5, PartsAreSomewhere
<1>7. AllParts(r) \subseteq AllParts(s)
  BY <1>6, PartsAreSomewhere
<1>8. CallsOf(r, c) \subseteq CallsOf(s, c)
  BY <1>7 DEF CallsOf
<1>9. CallsOf(r, c) = {} \/ CallsOf(r, c) = CallsOf(s, c)
  BY <1>8 DEF CallsAreOne
<1> QED
  BY <1>9 DEF CallMoves, r

LEMMA EndTurnCalls ==
  ASSUME NEW s \in SessionState, HistorySettled(s.turns), CallsAreOne(s),
         NEW t, NEW turnState, NEW status, NEW c \in ToolCallId
  PROVE  CallMoves(s, EndTurn(s, t, turnState, status), c)
<1> DEFINE r == EndTurn(s, t, turnState, status)
<1>1. CASE ~IsActive(s, t)
  BY <1>1, SameTurnsSameCalls DEF EndTurn
<1>2. CASE IsActive(s, t)
  <2> DEFINE parts == s.activeTurn.parts
             new == [i \in DOMAIN parts |-> Settle(parts[i])]
             turn == [id |-> s.activeTurn.id, message |-> s.activeTurn.message,
                      parts |-> new, usage |-> s.activeTurn.usage,
                      state |-> turnState]
  <2>1. r.turns = Append(s.turns, turn) /\ r.activeTurn = None
    BY <1>2 DEF EndTurn, SessionState
  <2>2. s.activeTurn \in ActiveTurn /\ s.activeTurn # None
    BY <1>2 DEF IsActive, SessionState
  <2>3. \A i \in DOMAIN parts : parts[i] \in Part
    BY <2>2, LenProperties DEF ActiveTurn
  <2>4. ASSUME NEW i \in DOMAIN new
        PROVE  PartFollows(parts[i], new[i])
    <3>1. parts[i] \in Part
      BY <2>3
    <3>2. new[i] = Settle(parts[i])
      OBVIOUS
    <3> QED
      BY <3>1, <3>2 DEF PartFollows, Settle, MovesTo, Settled, Part, TextPart, ToolPart
  <2>5. \A i, j \in DOMAIN new : parts[i] = parts[j] => new[i] = new[j]
    OBVIOUS
  <2>6. s.turns \in Seq(Turn)
    BY DEF SessionState
  <2>7. PartsOf(turn) = {new[i] : i \in DOMAIN new}
    BY DEF PartsOf
  <2>8. DOMAIN new = DOMAIN parts
    OBVIOUS
  <2> HIDE DEF new, turn, r
  <2>9. /\ DOMAIN r.turns = DOMAIN s.turns \cup {Len(s.turns) + 1}
        /\ \A i \in DOMAIN s.turns : r.turns[i] = s.turns[i]
        /\ r.turns[Len(s.turns) + 1] = turn
    BY <2>1, <2>6
  <2>10. HistoryParts(r.turns) = HistoryParts(s.turns) \cup PartsOf(turn)
    BY <2>9 DEF HistoryParts
  <2>11. AllParts(r) = HistoryParts(s.turns) \cup {new[i] : i \in DOMAIN new}
    BY <2>1, <2>7, <2>10, PartsAreSomewhere
  <2>12. Replaces(new, parts)
    BY <2>4, <2>5, <2>8 DEF Replaces
  <2>13. CallMoves(s, r, c)
    BY <2>2, <2>11, <2>12, PartsFollow
  <2> QED
    BY <2>13 DEF r
<1> QED
  BY <1>1, <1>2

\* Parts of the active turn are put in the place of others.
LEMMA NewPartsCalls ==
  ASSUME NEW s \in SessionState, HistorySettled(s.turns), CallsAreOne(s),
         s.activeTurn # None, NEW c \in ToolCallId, NEW new,
         Replaces(new, s.activeTurn.parts),
         NEW r, r.turns = s.turns, r.activeTurn # None, r.activeTurn.parts = new
  PROVE  CallMoves(s, r, c)
<1>1. PartsOf(r.activeTurn) = {new[i] : i \in DOMAIN new}
  BY DEF PartsOf
<1>2. AllParts(r) = HistoryParts(s.turns) \cup {new[i] : i \in DOMAIN new}
  BY <1>1, PartsAreSomewhere
<1> QED
  BY <1>2, PartsFollow

LEMMA ChangedPartsCalls ==
  ASSUME NEW s, Sound(s), HistorySettled(s.turns), CallsAreOne(s),
         s.activeTurn # None, NEW c \in ToolCallId, NEW new \in Seq(Part),
         Replaces(new, s.activeTurn.parts)
  PROVE  CallMoves(s, [s EXCEPT !.activeTurn.parts = new], c)
<1> DEFINE r == [s EXCEPT !.activeTurn.parts = new]
<1>1. s.activeTurn \in ActiveTurn /\ s \in SessionState
  BY DEF Sound, SessionState
<1>2. r.turns = s.turns /\ r.activeTurn = [s.activeTurn EXCEPT !.parts = new]
  BY <1>1 DEF SessionState
<1>3. r.activeTurn \in ActiveTurn /\ r.activeTurn.parts = new
  BY <1>1, <1>2 DEF ActiveTurn
<1>4. r.activeTurn # None
  BY <1>3, NoneIsNoValue
<1> HIDE DEF r
<1>5. CallMoves(s, r, c)
  BY <1>1, <1>2, <1>3, <1>4, NewPartsCalls
<1> QED
  BY <1>5 DEF r

\* The updaters of the tool call state machine follow the life cycle, whatever
\* the status of the call they meet.
LEMMA UpdatersFollow ==
  ASSUME NEW part \in Part, NEW c, IsToolCall(part, c), NEW ok \in BOOLEAN,
         NEW w \in {"none", "notNeeded", "userAction"}
  PROVE  /\ PartFollows(part, Ready(part, w)) /\ Ready(part, w) \in Part
         /\ PartFollows(part, Confirmed(part, ok)) /\ Confirmed(part, ok) \in Part
         /\ PartFollows(part, Completed(part, ok)) /\ Completed(part, ok) \in Part
         /\ PartFollows(part, ResultConfirmed(part, ok))
         /\ ResultConfirmed(part, ok) \in Part
<1>1. part \in ToolPart
  BY ToolCallIsToolPart
<1>2. PartFollows(part, Ready(part, w))
  BY <1>1 DEF PartFollows, Ready, ToolCall, ToolPart, ToolCallStatus, MovesTo, Settled
<1>3. PartFollows(part, Confirmed(part, ok))
  BY <1>1 DEF PartFollows, Confirmed, ToolCall, ToolPart, ToolCallStatus, MovesTo, Settled
<1>4. PartFollows(part, Completed(part, ok))
  BY <1>1 DEF PartFollows, Completed, ToolCall, ToolPart, ToolCallStatus, MovesTo, Settled
<1>5. PartFollows(part, ResultConfirmed(part, ok))
  BY <1>1 DEF PartFollows, ResultConfirmed, ToolCall, ToolPart, ToolCallStatus, MovesTo,
              Settled
<1> QED
  BY <1>1, <1>2, <1>3, <1>4, <1>5, ToolUpdatersType

LEMMA UpdatedCalls ==
  ASSUME NEW s, Sound(s), HistorySettled(s.turns), CallsAreOne(s),
         NEW a \in SessionAction, NEW c \in ToolCallId,
         a.type \in {"toolCallReady", "toolCallConfirmed", "toolCallComplete",
                     "toolCallResultConfirmed"}
  PROVE  CallMoves(s, Reduce(s, a), c)
<1> DEFINE parts == s.activeTurn.parts
<1>1. CASE ~IsActive(s, a.turn)
  <2>1. Reduce(s, a) = s
    BY <1>1 DEF Reduce, ToolCallReady, ToolCallConfirmed, ToolCallComplete,
                ToolCallResultConfirmed, UpdateToolCall
  <2> QED
    BY <2>1, SameTurnsSameCalls
<1>2. CASE IsActive(s, a.turn)
  <2>0. /\ s.activeTurn # None /\ parts \in Seq(Part)
        /\ \A i \in DOMAIN parts : parts[i] \in Part
    BY <1>2, ActivePartsType DEF IsActive
  <2>1. CASE a.type = "toolCallReady"
    <3> DEFINE new == [i \in DOMAIN parts |->
                         IF IsToolCall(parts[i], a.tool) THEN Ready(parts[i], a.confirmed)
                         ELSE parts[i]]
    <3>1. a.confirmed \in {"none", "notNeeded", "userAction"}
      BY <2>1 DEF SessionAction, TurnActionType
    <3>2. ASSUME NEW i \in DOMAIN parts
          PROVE  new[i] \in Part /\ PartFollows(parts[i], new[i])
      <4>1. CASE IsToolCall(parts[i], a.tool)
        <5>1. new[i] = Ready(parts[i], a.confirmed)
          BY <4>1
        <5>2. parts[i] \in Part
          BY <2>0
        <5> QED
          BY <3>1, <4>1, <5>1, <5>2, UpdatersFollow
      <4>2. CASE ~IsToolCall(parts[i], a.tool)
        BY <2>0, <4>2 DEF PartFollows
      <4> QED
        BY <4>1, <4>2
    <3>3. Reduce(s, a) = [s EXCEPT !.activeTurn.parts = new]
      BY <1>2, <2>1 DEF Reduce, ToolCallReady, UpdateToolCall
    <3>4. new \in Seq(Part) /\ Replaces(new, parts)
      BY <2>0, <3>2, MappedParts DEF Replaces
    <3> HIDE DEF new
    <3> QED
      BY <2>0, <3>3, <3>4, ChangedPartsCalls
  <2>2. CASE a.type = "toolCallConfirmed"
    <3> DEFINE new == [i \in DOMAIN parts |->
                         IF IsToolCall(parts[i], a.tool) THEN Confirmed(parts[i], a.approved)
                         ELSE parts[i]]
    <3>1. a.approved \in BOOLEAN
      BY <2>2 DEF SessionAction, TurnActionType
    <3>2. ASSUME NEW i \in DOMAIN parts
          PROVE  new[i] \in Part /\ PartFollows(parts[i], new[i])
      <4>1. CASE IsToolCall(parts[i], a.tool)
        <5>1. new[i] = Confirmed(parts[i], a.approved)
          BY <4>1
        <5>2. parts[i] \in Part
          BY <2>0
        <5> QED
          BY <3>1, <4>1, <5>1, <5>2, UpdatersFollow
      <4>2. CASE ~IsToolCall(parts[i], a.tool)
        BY <2>0, <4>2 DEF PartFollows
      <4> QED
        BY <4>1, <4>2
    <3>3. Reduce(s, a) = [s EXCEPT !.activeTurn.parts = new]
      BY <1>2, <2>2 DEF Reduce, ToolCallConfirmed, UpdateToolCall
    <3>4. new \in Seq(Part) /\ Replaces(new, parts)
      BY <2>0, <3>2, MappedParts DEF Replaces
    <3> HIDE DEF new
    <3> QED
      BY <2>0, <3>3, <3>4, ChangedPartsCalls
  <2>3. CASE a.type = "toolCallComplete"
    <3> DEFINE new == [i \in DOMAIN parts |->
                         IF IsToolCall(parts[i], a.tool)
                         THEN Completed(parts[i], a.needsResult) ELSE parts[i]]
    <3>1. a.needsResult \in BOOLEAN
      BY <2>3 DEF SessionAction, TurnActionType
    <3>2. ASSUME NEW i \in DOMAIN parts
          PROVE  new[i] \in Part /\ PartFollows(parts[i], new[i])
      <4>1. CASE IsToolCall(parts[i], a.tool)
        <5>1. new[i] = Completed(parts[i], a.needsResult)
          BY <4>1
        <5>2. parts[i] \in Part
          BY <2>0
        <5> QED
          BY <3>1, <4>1, <5>1, <5>2, UpdatersFollow
      <4>2. CASE ~IsToolCall(parts[i], a.tool)
        BY <2>0, <4>2 DEF PartFollows
      <4> QED
        BY <4>1, <4>2
    <3>3. Reduce(s, a) = [s EXCEPT !.activeTurn.parts = new]
      BY <1>2, <2>3 DEF Reduce, ToolCallComplete, UpdateToolCall
    <3>4. new \in Seq(Part) /\ Replaces(new, parts)
      BY <2>0, <3>2, MappedParts DEF Replaces
    <3> HIDE DEF new
    <3> QED
      BY <2>0, <3>3, <3>4, ChangedPartsCalls
  <2>4. CASE a.type = "toolCallResultConfirmed"
    <3> DEFINE new == [i \in DOMAIN parts |->
                         IF IsToolCall(parts[i], a.tool)
                         THEN ResultConfirmed(parts[i], a.approved) ELSE parts[i]]
    <3>1. a.approved \in BOOLEAN
      BY <2>4 DEF SessionAction, TurnActionType
    <3>2. ASSUME NEW i \in DOMAIN parts
          PROVE  new[i] \in Part /\ PartFollows(parts[i], new[i])
      <4>1. CASE IsToolCall(parts[i], a.tool)
        <5>1. new[i] = ResultConfirmed(parts[i], a.approved)
          BY <4>1
        <5>2. parts[i] \in Part
          BY <2>0
        <5> QED
          BY <3>1, <4>1, <5>1, <5>2, UpdatersFollow
      <4>2. CASE ~IsToolCall(parts[i], a.tool)
        BY <2>0, <4>2 DEF PartFollows
      <4> QED
        BY <4>1, <4>2
    <3>3. Reduce(s, a) = [s EXCEPT !.activeTurn.parts = new]
      BY <1>2, <2>4 DEF Reduce, ToolCallResultConfirmed, UpdateToolCall
    <3>4. new \in Seq(Part) /\ Replaces(new, parts)
      BY <2>0, <3>2, MappedParts DEF Replaces
    <3> HIDE DEF new
    <3> QED
      BY <2>0, <3>3, <3>4, ChangedPartsCalls
  <2> QED
    BY <2>1, <2>2, <2>3, <2>4
<1> QED
  BY <1>1, <1>2

\* Streamed text reaches parts that are text and stay text.
LEMMA AppendTextCalls ==
  ASSUME NEW s, Sound(s), HistorySettled(s.turns), CallsAreOne(s), NEW c \in ToolCallId,
         NEW t, NEW kind \in TextKind, NEW p, NEW chunk \in Chunk
  PROVE  CallMoves(s, AppendText(s, t, kind, p, chunk), c)
<1> DEFINE parts == s.activeTurn.parts
           new == [i \in DOMAIN parts |->
                     IF parts[i].kind = kind /\ parts[i].id = p
                     THEN [parts[i] EXCEPT !.content = Append(@, chunk)]
                     ELSE parts[i]]
<1>1. CASE ~IsActive(s, t)
  BY <1>1, SameTurnsSameCalls DEF AppendText
<1>2. CASE IsActive(s, t)
  <2>1. /\ s.activeTurn # None /\ parts \in Seq(Part)
        /\ \A i \in DOMAIN parts : parts[i] \in Part
    BY <1>2, ActivePartsType DEF IsActive
  <2>2. ASSUME NEW i \in DOMAIN parts
        PROVE  new[i] \in Part /\ PartFollows(parts[i], new[i])
    <3>1. CASE parts[i].kind = kind /\ parts[i].id = p
      <4>1. parts[i] \in TextPart
        BY <2>1, <3>1 DEF Part, TextPart, ToolPart, TextKind
      <4>2. Append(parts[i].content, chunk) \in Seq(Chunk)
        BY <4>1 DEF TextPart
      <4>3. new[i] = [parts[i] EXCEPT !.content = Append(parts[i].content, chunk)]
        BY <3>1
      <4>4. new[i] \in TextPart
        BY <4>1, <4>2, <4>3 DEF TextPart
      <4> QED
        BY <4>1, <4>4 DEF PartFollows, Part, TextPart
    <3>2. CASE ~(parts[i].kind = kind /\ parts[i].id = p)
      BY <2>1, <3>2 DEF PartFollows
    <3> QED
      BY <3>1, <3>2
  <2>3. AppendText(s, t, kind, p, chunk) = [s EXCEPT !.activeTurn.parts = new]
    BY <1>2 DEF AppendText
  <2>4. new \in Seq(Part) /\ Replaces(new, parts)
    BY <2>1, <2>2, MappedParts DEF Replaces
  <2> HIDE DEF new
  <2> QED
    BY <2>1, <2>3, <2>4, ChangedPartsCalls
<1> QED
  BY <1>1, <1>2

LEMMA AppendPartCalls ==
  ASSUME NEW s, Sound(s), NEW c \in ToolCallId, NEW t, NEW part \in Part,
         IsToolCall(part, c) => CallsOf(s, c) = {} /\ part.status = "streaming"
  PROVE  CallMoves(s, AppendPart(s, t, part), c)
<1> DEFINE r == AppendPart(s, t, part)
           new == Append(s.activeTurn.parts, part)
<1>1. CASE ~IsActive(s, t)
  BY <1>1, SameTurnsSameCalls DEF AppendPart
<1>2. CASE IsActive(s, t)
  <2>1. s.activeTurn # None /\ s \in SessionState /\ s.activeTurn \in ActiveTurn
    BY <1>2 DEF IsActive, Sound, SessionState
  <2>2. s.activeTurn.parts \in Seq(Part)
    BY <2>1 DEF ActiveTurn
  <2>3. r.turns = s.turns /\ r.activeTurn = [s.activeTurn EXCEPT !.parts = new]
    BY <1>2, <2>1 DEF AppendPart, SessionState
  <2>4. new \in Seq(Part)
    BY <2>2
  <2>5. r.activeTurn \in ActiveTurn /\ r.activeTurn.parts = new
    BY <2>1, <2>3, <2>4 DEF ActiveTurn
  <2>6. r.activeTurn # None
    BY <2>5, NoneIsNoValue
  <2>7. /\ DOMAIN new = DOMAIN s.activeTurn.parts \cup {Len(s.activeTurn.parts) + 1}
        /\ \A i \in DOMAIN s.activeTurn.parts : new[i] = s.activeTurn.parts[i]
        /\ new[Len(s.activeTurn.parts) + 1] = part
    BY <2>2
  <2> HIDE DEF r, new
  <2>8. PartsOf(r.activeTurn) = PartsOf(s.activeTurn) \cup {part}
    BY <2>5, <2>7 DEF PartsOf
  <2>9. AllParts(r) = AllParts(s) \cup {part}
    BY <2>1, <2>3, <2>6, <2>8, PartsAreSomewhere
  <2>10. CASE IsToolCall(part, c)
    <3>1. CallsOf(r, c) = {part} /\ CallsOf(s, c) = {}
      BY <2>9, <2>10 DEF CallsOf
    <3> QED
      BY <2>10, <3>1 DEF CallMoves, r
  <2>11. CASE ~IsToolCall(part, c)
    <3>1. CallsOf(r, c) = CallsOf(s, c)
      BY <2>9, <2>11 DEF CallsOf
    <3> QED
      BY <3>1 DEF CallMoves, r
  <2> QED
    BY <2>10, <2>11
<1> QED
  BY <1>1, <1>2

\* Calls are started under fresh ids.
StartsFresh(s, a) == a.type = "toolCallStart" => CallsOf(s, a.tool) = {}

LEMMA ReduceCalls ==
  ASSUME NEW s, Sound(s), HistorySettled(s.turns), CallsAreOne(s),
         NEW a \in SessionAction, StartsFresh(s, a), NEW c \in ToolCallId
  PROVE  CallMoves(s, Reduce(s, a), c)
<1>0. s \in SessionState
  BY DEF Sound
<1>1. CASE a.type \in {"turnComplete", "turnCancelled", "error"}
  <2>1. Reduce(s, a) = EndTurn(s, a.turn,
                         IF a.type = "turnComplete" THEN "complete"
                         ELSE IF a.type = "turnCancelled" THEN "cancelled" ELSE "error",
                         IF a.type = "error" THEN "error" ELSE "idle")
    BY <1>1 DEF Reduce
  <2> QED
    BY <1>0, <2>1, EndTurnCalls
<1>2. CASE a.type = "turnStarted"
  BY <1>0, <1>2, TurnStartedCalls
<1>3. CASE a.type = "delta"
  <2>1. a.chunk \in Chunk
    BY <1>3 DEF SessionAction, TurnActionType
  <2>2. Reduce(s, a) = AppendText(s, a.turn, "markdown", a.part, a.chunk)
    BY <1>3 DEF Reduce
  <2> QED
    BY <2>1, <2>2, AppendTextCalls DEF TextKind
<1>4. CASE a.type = "reasoning"
  <2>1. a.chunk \in Chunk
    BY <1>4 DEF SessionAction, TurnActionType
  <2>2. Reduce(s, a) = AppendText(s, a.turn, "reasoning", a.part, a.chunk)
    BY <1>4 DEF Reduce
  <2> QED
    BY <2>1, <2>2, AppendTextCalls DEF TextKind
<1>5. CASE a.type = "responsePart"
  <2>1. a.part \in TextPart
    BY <1>5 DEF SessionAction, TurnActionType
  <2>2. a.part \in Part /\ ~IsToolCall(a.part, c)
    BY <2>1 DEF Part, TextPart, TextKind, IsToolCall
  <2> QED
    BY <1>5, <2>2, AppendPartCalls DEF Reduce
<1>6. CASE a.type = "toolCallStart"
  <2> DEFINE part == [kind |-> "toolCall", id |-> a.tool, status |-> "streaming",
                      confirmed |-> "none"]
  <2>1. a.tool \in ToolCallId
    BY <1>6 DEF SessionAction, TurnActionType
  <2>2. part \in Part
    BY <2>1 DEF Part, ToolPart, ToolCallStatus
  <2>3. IsToolCall(part, c) => CallsOf(s, c) = {} /\ part.status = "streaming"
    BY <1>6 DEF IsToolCall, StartsFresh
  <2>4. Reduce(s, a) = AppendPart(s, a.turn, part)
    BY <1>6 DEF Reduce, ToolCallStart
  <2> HIDE DEF part
  <2> QED
    BY <2>2, <2>3, <2>4, AppendPartCalls
<1>7. CASE a.type \in {"toolCallReady", "toolCallConfirmed", "toolCallComplete",
                     "toolCallResultConfirmed"}
  BY <1>7, UpdatedCalls
<1>8. CASE a.type = "usage"
  <2>1. CASE ~IsActive(s, a.turn)
    BY <1>8, <2>1, SameTurnsSameCalls DEF Reduce
  <2>2. CASE IsActive(s, a.turn)
    <3>1. s.activeTurn \in ActiveTurn
      BY <1>0, <2>2 DEF IsActive, SessionState
    <3> DEFINE r == Reduce(s, a)
               turn == [s.activeTurn EXCEPT !.usage = TRUE]
    <3>2. r.turns = s.turns /\ r.activeTurn = turn
      BY <1>0, <1>8, <2>2 DEF Reduce, SessionState
    <3>3. turn \in ActiveTurn /\ turn.parts = s.activeTurn.parts
      BY <3>1 DEF ActiveTurn
    <3>4. s.activeTurn # None /\ turn # None
      BY <3>1, <3>3, NoneIsNoValue
    <3> HIDE DEF r, turn
    <3>5. PartsOf(turn) = PartsOf(s.activeTurn)
      BY <3>3 DEF PartsOf
    <3>6. AllParts(r) = AllParts(s)
      BY <3>2, <3>4, <3>5, PartsAreSomewhere
    <3> QED
      BY <3>6 DEF CallMoves, CallsOf, r
  <2> QED
    BY <2>1, <2>2
<1>9. CASE a.type \in {"ready", "creationFailed", "metaChanged", "activeClientChanged",
                     "activeClientToolsChanged", "customizationsChanged",
                     "customizationToggled", "pendingMessageSet",
                     "pendingMessageRemoved", "queuedMessagesReordered"}
  <2>1. Reduce(s, a).turns = s.turns /\ Reduce(s, a).activeTurn = s.activeTurn
    BY <1>0, <1>9 DEF Reduce, ActiveClientToolsChanged, CustomizationToggled,
         PendingMessageSet, PendingMessageRemoved, SessionState
  <2> QED
    BY <2>1, SameTurnsSameCalls
<1> QED
  BY <1>1, <1>2, <1>3, <1>4, <1>5, <1>6, <1>7, <1>8, <1>9 DEF SessionAction, TurnActionType

LEMMA CallsStayOne ==
  ASSUME NEW s, CallsAreOne(s), NEW r, \A c \in ToolCallId : CallMoves(s, r, c)
  PROVE  CallsAreOne(r)
BY DEF CallsAreOne, CallMoves

-----------------------------------------------------------------------------
\* Every step applies an action of the protocol.
LEMMA StepApplies ==
  ASSUME Next
  PROVE  \E a \in SessionAction :
           session' = Reduce(session, a) /\ StartsFresh(session, a)
<1>1. CASE SettleLifecycle
  BY <1>1 DEF SettleLifecycle, Apply, SessionAction, StartsFresh
<1>2. CASE StartTurn
  BY <1>2 DEF StartTurn, Apply, SessionAction, StartsFresh
<1>3. CASE OfTurn
  BY <1>3 DEF OfTurn, Apply, SessionAction, StartsFresh, TurnActionType
<1>4. CASE StartPart
  <2>1. CASE \E t \in TurnId, p \in PartId, k \in TextKind, c \in Chunk :
               Apply([type |-> "responsePart", turn |-> t,
                      part |-> [kind |-> k, id |-> p, content |-> <<c>>]])
    <3>1. PICK t \in TurnId, p \in PartId, k \in TextKind, c \in Chunk :
            Apply([type |-> "responsePart", turn |-> t,
                   part |-> [kind |-> k, id |-> p, content |-> <<c>>]])
      BY <2>1
    <3> DEFINE part == [kind |-> k, id |-> p, content |-> <<c>>]
    <3>2. <<c>> \in Seq(Chunk)
      OBVIOUS
    <3>3. part \in TextPart
      BY <3>2 DEF TextPart
    <3> HIDE DEF part
    <3>4. [type |-> "responsePart", turn |-> t, part |-> part] \in SessionAction
      BY <3>3 DEF SessionAction
    <3>5. session' = Reduce(session, [type |-> "responsePart", turn |-> t, part |-> part])
      BY <3>1 DEF Apply, part
    <3> QED
      BY <3>4, <3>5 DEF StartsFresh
  <2>2. CASE \E t \in TurnId, c \in ToolCallId \ UsedIds(session, {"toolCall"}) :
               Apply([type |-> "toolCallStart", turn |-> t, tool |-> c])
    <3>1. PICK t \in TurnId, c \in ToolCallId \ UsedIds(session, {"toolCall"}) :
            Apply([type |-> "toolCallStart", turn |-> t, tool |-> c])
      BY <2>2
    <3>2. CallsOf(session, c) = {}
      BY <3>1 DEF CallsOf, UsedIds, IsToolCall
    <3> QED
      BY <3>1, <3>2 DEF Apply, SessionAction, StartsFresh
  <2> QED
    BY <1>4, <2>1, <2>2 DEF StartPart
<1>5. CASE Stream
  BY <1>5 DEF Stream, Apply, SessionAction, StartsFresh
<1>6. CASE OfToolCall
  <2>1. PICK t \in TurnId, c \in ToolCallId :
          \/ \E w \in {"none", "notNeeded", "userAction"} :
               Apply([type |-> "toolCallReady", turn |-> t, tool |-> c, confirmed |-> w])
          \/ \E ok \in BOOLEAN, type \in {"toolCallConfirmed", "toolCallResultConfirmed"} :
               Apply([type |-> type, turn |-> t, tool |-> c, approved |-> ok])
          \/ \E need \in BOOLEAN :
               Apply([type |-> "toolCallComplete", turn |-> t, tool |-> c,
                      needsResult |-> need])
    BY <1>6 DEF OfToolCall
  <2>2. ASSUME NEW w \in {"none", "notNeeded", "userAction"},
               Apply([type |-> "toolCallReady", turn |-> t, tool |-> c, confirmed |-> w])
        PROVE  \E a \in SessionAction :
                 session' = Reduce(session, a) /\ StartsFresh(session, a)
    BY <2>2 DEF Apply, SessionAction, StartsFresh
  <2>3. ASSUME NEW ok \in BOOLEAN,
               NEW type \in {"toolCallConfirmed", "toolCallResultConfirmed"},
               Apply([type |-> type, turn |-> t, tool |-> c, approved |-> ok])
        PROVE  \E a \in SessionAction :
                 session' = Reduce(session, a) /\ StartsFresh(session, a)
    BY <2>3 DEF Apply, SessionAction, StartsFresh
  <2>4. ASSUME NEW need \in BOOLEAN,
               Apply([type |-> "toolCallComplete", turn |-> t, tool |-> c,
                      needsResult |-> need])
        PROVE  \E a \in SessionAction :
                 session' = Reduce(session, a) /\ StartsFresh(session, a)
    BY <2>4 DEF Apply, SessionAction, StartsFresh
  <2> QED
    BY <2>1, <2>2, <2>3, <2>4
<1>7. CASE Metadata
  <2>1. ASSUME NEW f \in MetaField, NEW v \in MetaValue,
               Apply([type |-> "metaChanged", field |-> f, value |-> v])
        PROVE  \E a \in SessionAction :
                 session' = Reduce(session, a) /\ StartsFresh(session, a)
    BY <2>1 DEF Apply, SessionAction, StartsFresh
  <2>2. ASSUME NEW c \in [client : Client, tools : MetaValue \cup {None}] \cup {None},
               Apply([type |-> "activeClientChanged", client |-> c])
        PROVE  \E a \in SessionAction :
                 session' = Reduce(session, a) /\ StartsFresh(session, a)
    BY <2>2 DEF Apply, SessionAction, StartsFresh
  <2>3. ASSUME NEW v \in MetaValue,
               Apply([type |-> "activeClientToolsChanged", tools |-> v])
        PROVE  \E a \in SessionAction :
                 session' = Reduce(session, a) /\ StartsFresh(session, a)
    BY <2>3 DEF Apply, SessionAction, StartsFresh
  <2>4. ASSUME NEW cs \in Customizations,
               Apply([type |-> "customizationsChanged", customizations |-> cs])
        PROVE  \E a \in SessionAction :
                 session' = Reduce(session, a) /\ StartsFresh(session, a)
    BY <2>4 DEF Apply, SessionAction, StartsFresh
  <2>5. ASSUME NEW u \in Uri, NEW on \in BOOLEAN,
               Apply([type |-> "customizationToggled", uri |-> u, enabled |-> on])
        PROVE  \E a \in SessionAction :
                 session' = Reduce(session, a) /\ StartsFresh(session, a)
    BY <2>5 DEF Apply, SessionAction, StartsFresh
  <2> QED
    BY <1>7, <2>1, <2>2, <2>3, <2>4, <2>5 DEF Metadata
<1>8. CASE Pending
  <2>1. ASSUME NEW order \in Orders,
               Apply([type |-> "queuedMessagesReordered", order |-> order])
        PROVE  \E a \in SessionAction :
                 session' = Reduce(session, a) /\ StartsFresh(session, a)
    <3>1. PICK n \in 0 .. 3 : order \in [1 .. n -> MessageId]
      BY DEF Orders
    <3>2. n \in Nat
      OBVIOUS
    <3>3. order \in Seq(MessageId)
      BY <3>1, <3>2, SeqDef, Zenon
    <3>4. [type |-> "queuedMessagesReordered", order |-> order] \in SessionAction
      BY <3>3 DEF SessionAction
    <3> QED
      BY <2>1, <3>4 DEF Apply, StartsFresh
  <2>2. ASSUME NEW k \in {"steering", "queued"}, NEW id \in MessageId, NEW m \in Text,
               Apply([type |-> "pendingMessageSet", kind |-> k, id |-> id, text |-> m])
        PROVE  \E a \in SessionAction :
                 session' = Reduce(session, a) /\ StartsFresh(session, a)
    BY <2>2 DEF Apply, SessionAction, StartsFresh
  <2>3. ASSUME NEW k \in {"steering", "queued"}, NEW id \in MessageId,
               Apply([type |-> "pendingMessageRemoved", kind |-> k, id |-> id])
        PROVE  \E a \in SessionAction :
                 session' = Reduce(session, a) /\ StartsFresh(session, a)
    BY <2>3 DEF Apply, SessionAction, StartsFresh
  <2> QED
    BY <1>8, <2>1, <2>2, <2>3 DEF Pending
<1> QED
  BY <1>1, <1>2, <1>3, <1>4, <1>5, <1>6, <1>7, <1>8 DEF Next

LEMMA MachineInit == Init => MachineInv
<1> SUFFICES ASSUME Init
             PROVE  MachineInv
  OBVIOUS
<1>1. session = NewSession /\ session.turns = <<>> /\ session.activeTurn = None
  BY DEF Init, NewSession
<1>2. HistorySettled(session.turns)
  BY <1>1 DEF HistorySettled
<1>3. AllParts(session) = {}
  BY <1>1 DEF AllParts, Turns
<1> QED
  BY <1>1, <1>2, <1>3, NewSessionSound DEF MachineInv, CallsAreOne, CallsOf

LEMMA MachineStep ==
  ASSUME MachineInv, Next
  PROVE  /\ MachineInv'
         /\ Extends(session'.turns, session.turns)
         /\ \A c \in ToolCallId : CallMoves(session, session', c)
<1>1. PICK a \in SessionAction : session' = Reduce(session, a) /\ StartsFresh(session, a)
  BY StepApplies
<1>2. Sound(session')
  BY <1>1, ReduceSound DEF MachineInv
<1>3. Extends(session'.turns, session.turns)
  BY <1>1, ReduceHistory DEF MachineInv, Sound
<1>4. \A c \in ToolCallId : CallMoves(session, session', c)
  BY <1>1, ReduceCalls DEF MachineInv
<1>5. CallsAreOne(session')
  BY <1>4, CallsStayOne DEF MachineInv
<1>6. HistorySettled(session'.turns)
  BY <1>3 DEF Extends
<1> QED
  BY <1>2, <1>3, <1>4, <1>5, <1>6 DEF MachineInv

LEMMA MachineInvariant == Spec => []MachineInv
<1>1. MachineInv /\ [Next]_session => MachineInv'
  BY MachineStep DEF MachineInv
<1> QED
  BY MachineInit, <1>1, PTL DEF Spec

-----------------------------------------------------------------------------
\* sessionReducer maps sessions to sessions, whatever actions it is given.
THEOREM ReducerTypeCorrect == Spec => []ReducerTypeOK
<1>1. MachineInv => ReducerTypeOK
  BY DEF MachineInv, Sound, ReducerTypeOK
<1> QED
  BY <1>1, MachineInvariant, PTL

\* The queue of pending messages never holds two messages with one id, however
\* they are set, edited, removed, started as turns and reordered.
THEOREM QueueIdsStayUnique == Spec => []QueueIdsUnique
<1>1. MachineInv => QueueIdsUnique
  BY DEF MachineInv, Sound, QueueIdsUnique
<1> QED
  BY <1>1, MachineInvariant, PTL

\* A turn in the history stays as it is, with every tool call settled, whatever
\* late actions still name it.
THEOREM HistoryStaysSettledAndFrozen == Spec => HistorySettledAndFrozen
<1>1. MachineInv /\ [Next]_session =>
        [ /\ Len(session'.turns) \in {Len(session.turns), Len(session.turns) + 1}
          /\ \A i \in DOMAIN session.turns : session'.turns[i] = session.turns[i]
          /\ HistorySettled(session'.turns) ]_session
  BY MachineStep DEF Extends
<1> QED
  BY <1>1, MachineInvariant, PTL DEF Spec, HistorySettledAndFrozen

-----------------------------------------------------------------------------
(* The session as a table of tool calls.                                   *)

LEMMA StatusIsTyped ==
  ASSUME NEW s \in SessionState, NEW c \in ToolCallId
  PROVE  StatusOf(s, c) \in Calls!Status
<1>1. CASE CallsOf(s, c) = {}
  BY <1>1 DEF StatusOf, Calls!Status
<1>2. CASE CallsOf(s, c) # {}
  <2>1. PICK p \in CallsOf(s, c) : StatusOf(s, c) = p.status
    BY <1>2 DEF StatusOf
  <2>2. p \in Part /\ IsToolCall(p, c)
    BY PartsAreParts DEF CallsOf
  <2>3. p \in ToolPart
    BY <2>2, ToolCallIsToolPart
  <2> QED
    BY <2>1, <2>3 DEF ToolPart, ToolCallStatus, Calls!Status
<1> QED
  BY <1>1, <1>2

\* What a step does to a call is an edge of the life cycle, or nothing.
LEMMA MovesAreEdges ==
  ASSUME NEW s \in SessionState, NEW r, NEW c \in ToolCallId, CallMoves(s, r, c)
  PROVE  LET v == StatusOf(s, c)
             w == StatusOf(r, c)
         IN \/ v = w
            \/ v = "absent" /\ w = "streaming"
            \/ v # "absent" /\ w = "absent"
            \/ v \in ToolCallStatus /\ MovesTo(v, w)
<1>1. CASE CallsOf(r, c) = CallsOf(s, c)
  BY <1>1 DEF StatusOf
<1>2. CASE CallsOf(r, c) = {}
  BY <1>2 DEF StatusOf
<1>3. CASE CallsOf(s, c) = {} /\ \E p : CallsOf(r, c) = {p} /\ p.status = "streaming"
  <2>1. PICK p : CallsOf(r, c) = {p} /\ p.status = "streaming"
    BY <1>3
  <2>2. StatusOf(r, c) = "streaming" /\ StatusOf(s, c) = "absent"
    BY <1>3, <2>1 DEF StatusOf
  <2> QED
    BY <2>2
<1>4. ASSUME NEW p, NEW q, CallsOf(s, c) = {p}, CallsOf(r, c) = {q},
             MovesTo(p.status, q.status)
      PROVE  StatusOf(s, c) \in ToolCallStatus /\ MovesTo(StatusOf(s, c), StatusOf(r, c))
  <2>1. StatusOf(s, c) = p.status /\ StatusOf(r, c) = q.status
    BY <1>4 DEF StatusOf
  <2>2. p \in Part /\ IsToolCall(p, c)
    BY <1>4, PartsAreParts DEF CallsOf
  <2>3. p.status \in ToolCallStatus
    BY <2>2, ToolCallIsToolPart DEF ToolPart
  <2> QED
    BY <1>4, <2>1, <2>3
<1> QED
  BY <1>1, <1>2, <1>3, <1>4 DEF CallMoves

\* The reducer implements the life cycle of tool calls: calls start once, move along
\* the documented edges only, several of them at a time when their turn ends, and
\* stay settled, whatever late and repeated actions arrive.
THEOREM CallsFollowTheLifecycle == Spec => ToolCallFollowsLifecycle
<1>1. Init => Calls!Init
  <2> SUFFICES ASSUME Init
               PROVE  Calls!Init
    OBVIOUS
  <2>1. session.turns = <<>> /\ session.activeTurn = None
    BY DEF Init, NewSession
  <2>2. AllParts(session) = {}
    BY <2>1 DEF AllParts, Turns
  <2> QED
    BY <2>2 DEF Calls!Init, StatusOf, CallsOf
<1>2. MachineInv /\ [Next]_session => [Calls!Next]_[c \in ToolCallId |-> StatusOf(session, c)]
  <2> DEFINE status == [c \in ToolCallId |-> StatusOf(session, c)]
  <2> SUFFICES ASSUME MachineInv, [Next]_session
               PROVE  Calls!Next \/ status' = status
    OBVIOUS
  <2>1. CASE UNCHANGED session
    BY <2>1 DEF StatusOf, CallsOf, AllParts, Turns, PartsOf
  <2>2. CASE Next
    <3>1. session \in SessionState /\ session' \in SessionState
      BY <2>2, MachineStep DEF MachineInv, Sound
    <3>2. \A c \in ToolCallId : CallMoves(session, session', c)
      BY <2>2, MachineStep
    <3>3. \A c \in ToolCallId : StatusOf(session', c) \in Calls!Status
      BY <3>1, StatusIsTyped
    <3>4. /\ status' = [c \in ToolCallId |-> StatusOf(session', c)]
      BY DEF StatusOf, CallsOf, AllParts, Turns, PartsOf
    <3>5. status' \in [ToolCallId -> Calls!Status]
      BY <3>3, <3>4
    <3>6. ASSUME NEW c \in ToolCallId
          PROVE  status'[c] = status[c] \/ Calls!Step(c)
      <4>1. status[c] = StatusOf(session, c) /\ status'[c] = StatusOf(session', c)
        BY <3>4
      <4>2. \/ status[c] = status'[c]
            \/ status[c] = "absent" /\ status'[c] = "streaming"
            \/ status[c] # "absent" /\ status'[c] = "absent"
            \/ status[c] \in ToolCallStatus /\ MovesTo(status[c], status'[c])
        BY <3>1, <3>2, <4>1, MovesAreEdges
      <4>3. status[c] \in Calls!Status
        BY <3>1, <4>1, StatusIsTyped
      <4> HIDE DEF status
      <4> QED
        BY <4>2, <4>3 DEF Calls!Step, Calls!Start, Calls!AskConfirmation, Calls!Run,
             Calls!AskResultConfirmation, Calls!Complete, Calls!Cancel, Calls!Forget,
             Calls!Moves, Calls!Status, ToolCallStatus, MovesTo, Settled, status
    <3> QED
      BY <3>5, <3>6 DEF Calls!Next
  <2> QED
    BY <2>1, <2>2
<1> QED
  BY <1>1, <1>2, MachineInvariant, PTL DEF Spec, Calls!Spec, ToolCallFollowsLifecycle
-----------------------------------------------------------------------------
(* Reordering the queue.                                                   *)

\* p lists the numbers up to n by ascending key.
Lists(p, N, n, key) ==
  /\ p \in [1 .. N -> 1 .. n]
  /\ \A i, j \in 1 .. N : i < j => key[p[i]] < key[p[j]]
  /\ \A i \in 1 .. n : \E k \in 1 .. N : p[k] = i

\* Up to the k-th of n numbers that are listed by ascending key there are k of them.
LEMMA ListedByKey ==
  ASSUME NEW n \in Nat, NEW N \in Nat, NEW key \in [1 .. n -> Nat],
         NEW p, Lists(p, N, n, key)
  PROVE  /\ N = n
         /\ \A k \in 1 .. N : Cardinality({j \in 1 .. n : key[j] <= key[p[k]]}) = k
<1> USE DEF Lists
<1>1. \A i, j \in 1 .. N : p[i] = p[j] => i = j
  <2>1. \A i \in 1 .. N : key[p[i]] \in Nat
    OBVIOUS
  <2>2. ASSUME NEW i \in 1 .. N, NEW j \in 1 .. N, p[i] = p[j], i # j
        PROVE  FALSE
    <3>1. i < j \/ j < i
      BY <2>2
    <3>2. key[p[i]] < key[p[j]] \/ key[p[j]] < key[p[i]]
      BY <3>1
    <3> QED
      BY <2>1, <2>2, <3>2
  <2> QED
    BY <2>2
<1>2. ASSUME NEW m \in Nat
      PROVE  IsFiniteSet(1 .. m) /\ Cardinality(1 .. m) = m
  <2>1. m \in Int /\ 1 \in Int
    BY <1>2
  <2>2. IsFiniteSet(1 .. m) /\ Cardinality(1 .. m) = IF 1 > m THEN 0 ELSE m - 1 + 1
    BY ONLY <2>1, FS_Interval
  <2> QED
    BY <1>2, <2>2
<1>3. N = n
  <2>1. p \in Bijection(1 .. N, 1 .. n)
    BY <1>1, Fun_IsBij
  <2>2. ExistsBijection(1 .. N, 1 .. n)
    BY <2>1 DEF ExistsBijection
  <2>3. Cardinality(1 .. n) = Cardinality(1 .. N)
    BY <1>2, <2>2, FS_Bijection
  <2> QED
    BY <1>2, <2>3
<1>4. ASSUME NEW k \in 1 .. N
      PROVE  Cardinality({j \in 1 .. n : key[j] <= key[p[k]]}) = k
  <2> DEFINE upTo == {j \in 1 .. n : key[j] <= key[p[k]]}
             q == [i \in 1 .. k |-> p[i]]
  <2>1. ASSUME NEW i \in 1 .. k
        PROVE  q[i] \in upTo
    <3>1. i \in 1 .. N /\ (i = k \/ i < k)
      OBVIOUS
    <3>2. p[i] \in 1 .. n /\ key[p[i]] \in Nat /\ key[p[k]] \in Nat
      BY <3>1
    <3>3. i < k => key[p[i]] < key[p[k]]
      BY <3>1
    <3>4. key[p[i]] <= key[p[k]]
      BY ONLY <3>1, <3>2, <3>3
    <3> QED
      BY <3>2, <3>4
  <2>2. ASSUME NEW j \in upTo
        PROVE  \E i \in 1 .. k : q[i] = j
    <3>1. PICK i \in 1 .. N : p[i] = j
      OBVIOUS
    <3>2. ~(k < i)
      <4>1. key[p[i]] \in Nat /\ key[p[k]] \in Nat /\ key[p[i]] <= key[p[k]]
        BY <3>1
      <4>2. k < i => key[p[k]] < key[p[i]]
        OBVIOUS
      <4> QED
        BY ONLY <4>1, <4>2
    <3>3. i \in 1 .. k
      BY <3>2
    <3> QED
      BY <3>1, <3>3
  <2>3. ASSUME NEW i \in 1 .. k, NEW j \in 1 .. k, q[i] = q[j]
        PROVE  i = j
    <3>1. i \in 1 .. N /\ j \in 1 .. N /\ p[i] = p[j]
      BY <2>3
    <3> QED
      BY <1>1, <3>1
  <2> HIDE DEF upTo
  <2>4. q \in Bijection(1 .. k, upTo)
    <3>1. q \in [1 .. k -> upTo]
      BY <2>1
    <3>2. \A j \in upTo : \E i \in 1 .. k : q[i] = j
      BY <2>2
    <3> HIDE DEF q
    <3> QED
      BY <2>3, <3>1, <3>2, Fun_IsBij
  <2>5. ExistsBijection(1 .. k, upTo)
    BY <2>4 DEF ExistsBijection
  <2>6. k \in Nat
    OBVIOUS
  <2>7. Cardinality(upTo) = Cardinality(1 .. k)
    BY <1>2, <2>5, <2>6, FS_Bijection
  <2> QED
    BY <1>2, <2>6, <2>7 DEF upTo
<1> QED
  BY <1>3, <1>4

\* The places of an order at which an id of the queue appears first.
FirstNamed(queue, order) ==
  {i \in DOMAIN order : /\ order[i] \in QueuedIds(queue)
                        /\ \A j \in 1 .. i - 1 : order[j] # order[i]}

\* The messages an order does not name.
Unnamed(order) == {m \in PendingMessage : \A i \in DOMAIN order : order[i] # m.id}

\* A named message is sorted by the first place of its id, any other behind those.
LEMMA SortKeyIs ==
  ASSUME NEW queue \in Seq(PendingMessage), NEW order \in Seq(MessageId),
         NEW i \in DOMAIN queue
  PROVE  \/ /\ queue[i] \notin Unnamed(order)
            /\ SortKey(queue, order, i) \in FirstNamed(queue, order)
            /\ order[SortKey(queue, order, i)] = queue[i].id
         \/ /\ queue[i] \in Unnamed(order)
            /\ SortKey(queue, order, i) = Len(order) + i
<1> DEFINE named == {j \in DOMAIN order : order[j] = queue[i].id}
           key == CHOOSE j \in named : \A k \in named : j <= k
<1>1. /\ Len(order) \in Nat /\ DOMAIN order = 1 .. Len(order)
      /\ DOMAIN queue = 1 .. Len(queue)
  BY LenProperties
<1>2. queue[i] \in PendingMessage
  BY <1>1
<1>3. CASE named # {}
  <2>1. named \in SUBSET Nat
    BY <1>1
  <2>2. \E j \in named : \A k \in named : j <= k
    BY <1>3, <2>1, LeastExists
  <2>3. key \in named /\ \A k \in named : key <= k
    BY <2>2
  <2>4. SortKey(queue, order, i) = key
    BY <1>3 DEF SortKey
  <2> HIDE DEF key
  <2>5. key \in DOMAIN order /\ order[key] = queue[i].id
    BY <2>3
  <2>6. ASSUME NEW j \in 1 .. key - 1
        PROVE  order[j] # order[key]
    <3>1. j \in DOMAIN order /\ ~(key <= j)
      BY <1>1, <2>5
    <3> QED
      BY <2>3, <2>5, <3>1
  <2>7. key \in FirstNamed(queue, order)
    BY <2>5, <2>6 DEF FirstNamed, QueuedIds
  <2>8. queue[i] \notin Unnamed(order)
    BY <2>5 DEF Unnamed
  <2> QED
    BY <2>4, <2>5, <2>7, <2>8
<1>4. CASE named = {}
  <2>1. SortKey(queue, order, i) = Len(order) + i
    BY <1>4 DEF SortKey
  <2>2. queue[i] \in Unnamed(order)
    BY <1>2, <1>4 DEF Unnamed
  <2> QED
    BY <2>1, <2>2
<1> QED
  BY <1>3, <1>4

\* Where the code's two passes take entry k of the new queue from.
CodePlaces(at, places, rest, queue, order) ==
  /\ at \in [1 .. Len(places) + Len(rest) -> 1 .. Len(queue)]
  /\ \A k \in 1 .. Len(places) + Len(rest) :
       /\ k <= Len(places) => /\ queue[at[k]].id = order[places[k]]
                              /\ SortKey(queue, order, at[k]) = places[k]
       /\ k > Len(places) => /\ queue[at[k]] = rest[k - Len(places)]
                             /\ SortKey(queue, order, at[k]) = Len(order) + at[k]
  /\ \A i, j \in 1 .. Len(places) + Len(rest) :
       i < j => SortKey(queue, order, at[i]) < SortKey(queue, order, at[j])
  /\ \A i \in 1 .. Len(queue) : \E k \in 1 .. Len(places) + Len(rest) : at[k] = i

LEMMA PlacesOfCode ==
  ASSUME NEW queue \in Seq(PendingMessage), UniqueIds(queue),
         NEW order \in Seq(MessageId),
         NEW places, places = Within([i \in DOMAIN order |-> i], FirstNamed(queue, order)),
         NEW rest, rest = Within(queue, Unnamed(order))
  PROVE  \E at : CodePlaces(at, places, rest, queue, order)
<1> DEFINE n == Len(queue)
           L == Len(order)
           a == Len(places)
           b == Len(rest)
           ids == [i \in DOMAIN order |-> i]
           First == FirstNamed(queue, order)
           key(i) == SortKey(queue, order, i)
<1>1. /\ L \in Nat /\ DOMAIN order = 1 .. L
      /\ n \in Nat /\ DOMAIN queue = 1 .. n
      /\ \A i \in 1 .. L : order[i] \in MessageId
      /\ \A i \in 1 .. n : queue[i] \in PendingMessage
  BY LenProperties
<1>2. ids \in Seq(1 .. L) /\ Len(ids) = L /\ \A i \in 1 .. L : ids[i] = i
  BY <1>1, SeqDef, LenProperties
<1> HIDE DEF ids
<1>3. PICK f : Picks(f, places, ids, First)
  BY <1>2, WithinPicks DEF ids
<1>4. PICK g : Picks(g, rest, queue, Unnamed(order))
  BY WithinPicks
<1>5. places \in Seq(1 .. L) /\ a \in Nat
  BY <1>2, WithinType, LenProperties DEF ids
<1>6. rest \in Seq(PendingMessage) /\ b \in Nat
  BY WithinType, LenProperties
<1> HIDE DEF n, L, a, b, First, key
<1>7. ASSUME NEW k \in 1 .. a
      PROVE  places[k] \in First /\ places[k] \in 1 .. L /\ places[k] = f[k]
  BY <1>2, <1>3 DEF Picks, L, a
<1>8. ASSUME NEW k \in 1 .. b
      PROVE  g[k] \in 1 .. n /\ rest[k] = queue[g[k]] /\ queue[g[k]] \in Unnamed(order)
  BY <1>4 DEF Picks, n, b
<1>9. ASSUME NEW k \in 1 .. a
      PROVE  \E i \in 1 .. n : queue[i].id = order[places[k]] /\ key(i) = places[k]
  <2>1. PICK i \in 1 .. n : queue[i].id = order[places[k]]
    <3>1. order[places[k]] \in QueuedIds(queue)
      BY <1>7 DEF First, FirstNamed
    <3> QED
      BY <1>1, <3>1 DEF QueuedIds
  <2>2. queue[i] \notin Unnamed(order)
    BY <1>1, <1>7, <2>1 DEF Unnamed
  <2>3. key(i) \in First /\ order[key(i)] = queue[i].id
    BY <1>1, <2>2, SortKeyIs DEF key, First
  <2>4. key(i) \in 1 .. L /\ \A j \in 1 .. key(i) - 1 : order[j] # order[key(i)]
    BY <1>1, <2>3 DEF First, FirstNamed
  <2>5. places[k] \in 1 .. L /\ \A j \in 1 .. places[k] - 1 : order[j] # order[places[k]]
    BY <1>1, <1>7 DEF First, FirstNamed
  <2>6. key(i) = places[k]
    <3>1. key(i) < places[k] => key(i) \in 1 .. places[k] - 1
      BY <2>4, <2>5
    <3>2. places[k] < key(i) => places[k] \in 1 .. key(i) - 1
      BY <2>4, <2>5
    <3> QED
      BY <2>1, <2>3, <2>4, <2>5, <3>1, <3>2
  <2> QED
    BY <2>1, <2>6
<1> DEFINE of(k) == CHOOSE i \in 1 .. n : queue[i].id = order[places[k]] /\ key(i) = places[k]
           at == [k \in 1 .. a + b |-> IF k <= a THEN of(k) ELSE g[k - a]]
<1>10. ASSUME NEW k \in 1 .. a
       PROVE  /\ of(k) \in 1 .. n
              /\ queue[of(k)].id = order[places[k]] /\ key(of(k)) = places[k]
  BY <1>9
<1> HIDE DEF of
<1>11. ASSUME NEW k \in 1 .. a
       PROVE  /\ k \in 1 .. a + b
              /\ at[k] \in 1 .. n
              /\ queue[at[k]].id = order[places[k]] /\ key(at[k]) = places[k]
  <2>1. k \in 1 .. a + b /\ at[k] = of(k)
    BY <1>5, <1>6
  <2> QED
    BY <1>10, <2>1
<1>12. ASSUME NEW k \in 1 .. b
       PROVE  /\ a + k \in 1 .. a + b
              /\ at[a + k] = g[k] /\ at[a + k] \in 1 .. n
              /\ queue[at[a + k]] = rest[k] /\ key(at[a + k]) = L + g[k]
  <2>1. a + k \in 1 .. a + b /\ at[a + k] = g[k]
    BY <1>5, <1>6
  <2>2. key(g[k]) = L + g[k]
    BY <1>1, <1>8, SortKeyIs DEF key, L
  <2> QED
    BY <1>8, <2>1, <2>2
<1> HIDE DEF at
<1>13. ASSUME NEW k \in 1 .. a + b
       PROVE  \/ k \in 1 .. a
              \/ k - a \in 1 .. b /\ k > a /\ a + (k - a) = k
  BY <1>5, <1>6
<1>14. at \in [1 .. a + b -> 1 .. n]
  <2>1. ASSUME NEW k \in 1 .. a + b
        PROVE  at[k] \in 1 .. n
    <3>1. CASE k \in 1 .. a
      BY <1>11, <3>1
    <3>2. CASE k - a \in 1 .. b /\ a + (k - a) = k
      BY <1>12, <3>2
    <3> QED
      BY <1>13, <3>1, <3>2
  <2> QED
    BY <2>1 DEF at
<1>15. ASSUME NEW k \in 1 .. a + b
       PROVE  /\ k <= a => queue[at[k]].id = order[places[k]] /\ key(at[k]) = places[k]
              /\ k > a => queue[at[k]] = rest[k - a] /\ key(at[k]) = L + at[k]
  <2>1. CASE k \in 1 .. a
    BY <1>5, <1>11, <2>1
  <2>2. CASE k - a \in 1 .. b /\ k > a /\ a + (k - a) = k
    <3>1. queue[at[k]] = rest[k - a] /\ key(at[k]) = L + at[k]
      BY <1>12, <2>2
    <3>2. ~(k <= a)
      BY <1>5, <2>2
    <3> QED
      BY <3>1, <3>2
  <2> QED
    BY <1>13, <2>1, <2>2
<1>16. ASSUME NEW i \in 1 .. a + b, NEW j \in 1 .. a + b, i < j
       PROVE  key(at[i]) < key(at[j])
  <2>1. CASE i \in 1 .. a /\ j \in 1 .. a
    <3>1. places[i] < places[j]
      BY <1>3, <1>7, <1>16, <2>1 DEF Picks, a
    <3> QED
      BY <1>11, <2>1, <3>1
  <2>2. CASE i \in 1 .. a /\ j - a \in 1 .. b /\ a + (j - a) = j
    <3>1. key(at[i]) \in 1 .. L
      BY <1>7, <1>11, <2>2
    <3>2. key(at[j]) = L + g[j - a] /\ g[j - a] \in 1 .. n
      BY <1>8, <1>12, <2>2
    <3> QED
      BY <1>1, <3>1, <3>2
  <2>3. CASE /\ i - a \in 1 .. b /\ a + (i - a) = i
             /\ j - a \in 1 .. b /\ a + (j - a) = j
    <3>1. i - a < j - a
      BY <1>5, <1>16
    <3>2. g[i - a] < g[j - a] /\ g[i - a] \in 1 .. n /\ g[j - a] \in 1 .. n
      BY <1>4, <1>8, <2>3, <3>1 DEF Picks, b
    <3>3. key(at[i]) = L + g[i - a] /\ key(at[j]) = L + g[j - a]
      BY <1>12, <2>3
    <3> QED
      BY <1>1, <3>2, <3>3
  <2>4. ~(i > a /\ j \in 1 .. a)
    BY <1>5, <1>16
  <2> QED
    BY <1>13, <2>1, <2>2, <2>3, <2>4
<1>17. ASSUME NEW i \in 1 .. n
       PROVE  \E k \in 1 .. a + b : at[k] = i
  <2>1. CASE queue[i] \in Unnamed(order)
    <3>1. PICK k \in 1 .. b : g[k] = i
      BY <1>4, <2>1 DEF Picks, n, b
    <3> QED
      BY <1>12, <3>1
  <2>2. CASE queue[i] \notin Unnamed(order)
    <3>1. key(i) \in First /\ order[key(i)] = queue[i].id
      BY <1>1, <2>2, SortKeyIs DEF key, First
    <3>2. key(i) \in 1 .. L
      BY <1>1, <3>1 DEF First, FirstNamed
    <3>3. PICK k \in 1 .. a : f[k] = key(i)
      BY <1>2, <1>3, <3>1, <3>2 DEF Picks, L, a
    <3>4. places[k] = key(i)
      BY <1>7, <3>3
    <3>5. at[k] = i
      BY <1>1, <1>11, <3>1, <3>4 DEF UniqueIds
    <3> QED
      BY <1>11, <3>5
  <2> QED
    BY <2>1, <2>2
<1>18. CodePlaces(at, places, rest, queue, order)
  BY <1>14, <1>15, <1>16, <1>17 DEF CodePlaces, n, L, a, b, key
<1> QED
  BY <1>18

\* Sorting the queue by key gives what the code computes in two passes.
LEMMA ReorderedAsCoded ==
  ASSUME NEW queue \in Seq(PendingMessage), UniqueIds(queue),
         NEW order \in Seq(MessageId)
  PROVE  Reordered(queue, order) = CodeReordered(queue, order)
<1> DEFINE n == Len(queue)
           places == Within([i \in DOMAIN order |-> i], FirstNamed(queue, order))
           rest == Within(queue, Unnamed(order))
           a == Len(places)
           N == a + Len(rest)
           byId(id) == queue[CHOOSE i \in DOMAIN queue : queue[i].id = id]
           named == [k \in DOMAIN places |-> byId(order[places[k]])]
           key == [i \in 1 .. n |-> SortKey(queue, order, i)]
           new == Reordered(queue, order)
<1>1. /\ Len(order) \in Nat /\ DOMAIN order = 1 .. Len(order)
      /\ n \in Nat /\ DOMAIN queue = 1 .. n
      /\ \A i \in 1 .. n : queue[i] \in PendingMessage
  BY LenProperties
<1>2. CodeReordered(queue, order) = named \o rest
  BY DEF CodeReordered, FirstNamed, Unnamed
<1>3. PICK at : CodePlaces(at, places, rest, queue, order)
  BY PlacesOfCode
<1>4. places \in Seq(1 .. Len(order)) /\ a \in Nat /\ DOMAIN places = 1 .. a
  <2>1. [i \in DOMAIN order |-> i] \in Seq(1 .. Len(order))
    BY <1>1, SeqDef
  <2> QED
    BY <2>1, WithinType, LenProperties
<1>5. rest \in Seq(PendingMessage) /\ Len(rest) \in Nat
  BY WithinType, LenProperties
<1> HIDE DEF places, rest
<1>6. key \in [1 .. n -> Nat]
  BY <1>1, SortKeyInjective
<1>7. /\ N \in Nat
      /\ at \in [1 .. N -> 1 .. n]
      /\ \A i, j \in 1 .. N : i < j => key[at[i]] < key[at[j]]
      /\ \A i \in 1 .. n : \E k \in 1 .. N : at[k] = i
  <2>1. N \in Nat
    BY <1>4, <1>5
  <2>2. /\ at \in [1 .. N -> 1 .. n]
        /\ \A i, j \in 1 .. N :
             i < j => SortKey(queue, order, at[i]) < SortKey(queue, order, at[j])
        /\ \A i \in 1 .. n : \E k \in 1 .. N : at[k] = i
    BY <1>3 DEF CodePlaces
  <2> HIDE DEF N, n
  <2>3. \A i \in 1 .. N : key[at[i]] = SortKey(queue, order, at[i])
    BY <2>2
  <2> QED
    BY <2>1, <2>2, <2>3
<1> HIDE DEF N, n, a
<1>8. /\ N = n
      /\ \A k \in 1 .. N : Cardinality({j \in 1 .. n : key[j] <= key[at[k]]}) = k
  <2> HIDE DEF key
  <2>1. n \in Nat
    BY <1>1
  <2>2. Lists(at, N, n, key)
    BY <1>7 DEF Lists
  <2> QED
    BY ONLY <2>1, <2>2, <1>6, <1>7, ListedByKey
<1>9. ASSUME NEW k \in 1 .. n
      PROVE  at[k] \in 1 .. n /\ Rank(queue, order, at[k]) = k
  <2>1. at[k] \in 1 .. n
    BY <1>7, <1>8
  <2>2. {j \in 1 .. n : key[j] <= key[at[k]]} =
          {j \in DOMAIN queue : SortKey(queue, order, j) <= SortKey(queue, order, at[k])}
    BY <1>1, <2>1
  <2>3. Cardinality({j \in 1 .. n : key[j] <= key[at[k]]}) = k
    BY <1>8
  <2> HIDE DEF key
  <2> QED
    BY <2>1, <2>2, <2>3 DEF Rank
<1>10. ASSUME NEW k \in 1 .. n
       PROVE  new[k] = queue[at[k]]
  <2> DEFINE i == CHOOSE j \in DOMAIN queue : Rank(queue, order, j) = k
  <2>1. i \in 1 .. n /\ Rank(queue, order, i) = k
    BY <1>1, <1>9
  <2>2. new[k] = queue[i]
    BY <1>1 DEF Reordered
  <2> HIDE DEF i
  <2>3. PICK m \in 1 .. n : at[m] = i
    BY <1>7, <1>8, <2>1
  <2>4. m = k
    BY <1>9, <2>1, <2>3
  <2> QED
    BY <2>2, <2>3, <2>4
<1>11. ASSUME NEW k \in 1 .. a
       PROVE  k \in 1 .. n /\ named[k] = queue[at[k]]
  <2>1. k \in 1 .. n /\ k <= a
    BY <1>4, <1>5, <1>8 DEF N, a
  <2>2. queue[at[k]].id = order[places[k]]
    BY <1>3, <1>8, <2>1 DEF CodePlaces, N, a
  <2>3. at[k] \in DOMAIN queue
    BY <1>1, <1>9, <2>1
  <2>4. byId(order[places[k]]) = queue[at[k]]
    BY <2>2, <2>3 DEF UniqueIds
  <2> QED
    BY <1>4, <2>1, <2>4
<1>12. named \in Seq(PendingMessage) /\ Len(named) = a
  <2>1. named \in [1 .. a -> PendingMessage]
    BY <1>1, <1>4, <1>9, <1>11
  <2>2. DOMAIN named = 1 .. a
    BY <1>4
  <2> HIDE DEF named
  <2>3. named \in Seq(PendingMessage)
    BY <1>4, <2>1, SeqDef
  <2> QED
    BY <1>4, <2>2, <2>3, LenProperties
<1> HIDE DEF named
<1>13. /\ Len(named \o rest) = n
       /\ named \o rest \in Seq(PendingMessage)
       /\ \A k \in 1 .. n : (named \o rest)[k] =
                              IF k <= a THEN named[k] ELSE rest[k - a]
  <2>1. /\ named \o rest \in Seq(PendingMessage)
        /\ Len(named \o rest) = Len(named) + Len(rest)
        /\ \A k \in 1 .. Len(named) + Len(rest) :
             (named \o rest)[k] = IF k <= Len(named) THEN named[k] ELSE rest[k - Len(named)]
    BY <1>5, <1>12, ConcatProperties
  <2>2. Len(named) = a /\ Len(named) + Len(rest) = n
    BY <1>8, <1>12 DEF N
  <2> QED
    BY ONLY <2>1, <2>2
<1>14. ASSUME NEW k \in 1 .. n
       PROVE  (named \o rest)[k] = queue[at[k]]
  <2>1. CASE k <= a
    <3>1. k \in 1 .. a
      BY <1>4, <2>1 DEF a
    <3> QED
      BY <1>11, <1>13, <2>1, <3>1
  <2>2. CASE ~(k <= a)
    <3>1. k > a
      BY <1>4, <2>2
    <3>2. queue[at[k]] = rest[k - a]
      BY <1>3, <1>8, <3>1 DEF CodePlaces, N, a
    <3> QED
      BY <1>13, <2>2, <3>2
  <2> QED
    BY <2>1, <2>2
<1>15. new \in Seq(PendingMessage) /\ Len(new) = n
  <2>1. new \in Seq(PendingMessage) /\ DOMAIN new = 1 .. n
    BY <1>1, ReorderedSound DEF Reordered
  <2> QED
    BY <1>1, <2>1, LenProperties
<1> HIDE DEF new
<1>16. new = named \o rest
  BY <1>10, <1>13, <1>14, <1>15, SeqEqual
<1> QED
  BY <1>2, <1>16 DEF new

\* Whatever order a client sends, on a stale view of the queue or not, the sort by
\* rank that the reducer is modelled with is the code's two passes over order and
\* queue: no message is lost or doubled, and the unnamed ones stay behind the others.
THEOREM ReorderStaysStable == Spec => []ReorderIsStable
<1>1. MachineInv => ReorderIsStable
  <2> SUFFICES ASSUME MachineInv, NEW order \in Orders
               PROVE  Reordered(session.queued, order) = CodeReordered(session.queued, order)
    BY DEF ReorderIsStable
  <2>1. order \in Seq(MessageId)
    <3>1. PICK m \in 0 .. 3 : order \in [1 .. m -> MessageId]
      BY DEF Orders
    <3> QED
      BY <3>1, SeqDef
  <2>2. session.queued \in Seq(PendingMessage) /\ UniqueIds(session.queued)
    BY DEF MachineInv, Sound, SessionState
  <2> QED
    BY <2>1, <2>2, ReorderedAsCoded
<1> QED
  BY <1>1, MachineInvariant, PTL
=============================================================================
