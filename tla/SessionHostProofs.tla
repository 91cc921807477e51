------------------------- MODULE SessionHostProofs -------------------------
(***************************************************************************)
(* What the agent host keeps to, for any number of sessions, turns, tool   *)
(* calls and messages.  Its types, and the tracking of every active turn,  *)
(* hold however clients, user and agent behave.  Tracking is not inductive *)
(* by itself: a failed send or a late cancellation ends the tracking of    *)
(* the turn it names, so the invariant has to say that such a turn can     *)
(* only be one of the same session.                                        *)
(*                                                                         *)
(* The theorems on turns, queues and permissions name, as kinds of the     *)
(* environment that do not occur, what the code does not cope with:        *)
(*                                                                         *)
(*   fail      a failed turn does not look at the queue, and a steering    *)
(*             call that failed is forgotten                               *)
(*   cancel    the agent may be in the middle of its answer, or not have   *)
(*             the message yet, when the next turn starts                  *)
(*   overlap   a turn replaces the active one without ending it            *)
(*   late      a late answer takes the route of a call before it asks; a   *)
(*             late cancel stops the turn that has started meanwhile       *)
(*   dispose   the root count is not written when a session goes           *)
(*                                                                         *)
(* Everything else is allowed, in any order, in any number of sessions.    *)
(***************************************************************************)
EXTENDS SessionHost, SessionReducerProofs

\* Host states in which every session is sound.
SoundHost(h) ==
  h \in HostState /\ \A s \in Session : h.sessions[s] # None => Sound(h.sessions[s])

\* Active turns are tracked, and belong to the session that started them.
Tracks(h, owner) ==
  \A s \in Session : HasActiveTurn(h, s) =>
    /\ h.tracked[ActiveTurnId(h, s)] = s
    /\ owner[ActiveTurnId(h, s)] = s

CallsOwned == \A s \in Session : \A k \in DOMAIN calls[s] : turnOf[calls[s][k].turn] = s

\* What starting a turn changes, with h in the place of the host state.
TurnsInv(h) ==
  /\ SoundHost(h)
  /\ mapper \in [Session -> [TextKind -> PartId \cup {None}]]
  /\ calls \in [Session -> Seq(Call)]
  /\ turnOf \in [TurnId -> Session \cup {None}]
  /\ Tracks(h, turnOf)
  /\ CallsOwned

OthersType ==
  /\ created \subseteq Session
  /\ toolCallAgents \subseteq Session \X ToolCallId
  /\ pendingPermissions \in [Session -> SUBSET ToolCallId]
  /\ steers \in [Session -> Seq(PendingMessage)]
  /\ runs \in [Session -> Seq(Run)]
  /\ toolOf \in [ToolCallId -> TurnId \cup {None}]

HostInv == TurnsInv(host) /\ OthersType

-----------------------------------------------------------------------------
(* Actions applied to the host state.                                      *)

\* The counted turns are finitely many.
LEMMA SizeType ==
  ASSUME NEW tracked
  PROVE  Size(tracked) \in Nat
<1>1. IsFiniteSet({t \in TurnId : tracked[t] # None})
  BY TurnIds, FS_Subset
<1> QED
  BY <1>1, FS_CardinalityType DEF Size

LEMMA TrackedType ==
  ASSUME NEW h \in HostState, NEW s \in Session, NEW a \in SessionAction
  PROVE  Tracked(h, s, a) \in [TurnId -> Session \cup {None}]
<1>1. h.tracked \in [TurnId -> Session \cup {None}]
  BY DEF HostState
<1>2. CASE a.type = "turnStarted"
  BY <1>1, <1>2 DEF Tracked, TurnEnd
<1>3. CASE a.type \in TurnEnd
  BY <1>1, <1>3 DEF Tracked, TurnEnd
<1>4. CASE a.type \notin TurnEnd \cup {"turnStarted"}
  BY <1>1, <1>4 DEF Tracked, TurnEnd
<1> QED
  BY <1>2, <1>3, <1>4

\* _applyAndEmit keeps every session sound.
LEMMA DispatchSound ==
  ASSUME NEW h, SoundHost(h), NEW s \in Session, NEW a \in SessionAction
  PROVE  SoundHost(Dispatch(h, s, a))
<1>1. CASE h.sessions[s] = None
  BY <1>1 DEF Dispatch
<1>2. CASE h.sessions[s] # None
  <2> DEFINE st == h.sessions[s]
             d == Dispatch(h, s, a)
  <2>1. h \in HostState /\ h.sessions \in [Session -> SessionState \cup {None}]
    BY DEF SoundHost, HostState
  <2>2. Sound(Reduce(st, a))
    BY <1>2, ReduceSound DEF SoundHost
  <2>3. Reduce(st, a) \in SessionState
    BY <2>2 DEF Sound
  <2>4. [h.sessions EXCEPT ![s] = Reduce(@, a)] \in [Session -> SessionState \cup {None}]
    BY <2>1, <2>3
  <2>5. Tracked(h, s, a) \in [TurnId -> Session \cup {None}]
    BY <2>1, TrackedType
  <2>6. Size(Tracked(h, s, a)) \in Nat /\ h.activeSessions \in Nat
    BY <2>1, SizeType DEF HostState
  <2>7. d \in HostState
    BY <1>2, <2>4, <2>5, <2>6 DEF Dispatch, HostState
  <2>8. \A r \in Session : d.sessions[r] # None => Sound(d.sessions[r])
    BY <1>2, <2>1, <2>2 DEF Dispatch, SoundHost
  <2> QED
    BY <2>7, <2>8 DEF SoundHost
<1> QED
  BY <1>1, <1>2

\* No action but a start gives a session another active turn, and an action that
\* ends the active turn leaves none.
LEMMA ReduceActive ==
  ASSUME NEW s, Sound(s), NEW a \in SessionAction, a.type # "turnStarted"
  PROVE  LET r == Reduce(s, a)
         IN /\ r.activeTurn # None =>
                 s.activeTurn # None /\ r.activeTurn.id = s.activeTurn.id
            /\ a.type \in TurnEnd /\ IsActive(s, a.turn) => r.activeTurn = None
<1> DEFINE r == Reduce(s, a)
<1>0. s \in SessionState
  BY DEF Sound
<1>1. CASE a.type \in TurnEnd
  BY <1>0, <1>1 DEF Reduce, TurnEnd, EndTurn, SessionState
<1>2. CASE a.type \in {"delta", "reasoning", "responsePart", "toolCallStart", "usage"}
  <2>1. s.activeTurn # None => s.activeTurn \in ActiveTurn
    BY <1>0 DEF SessionState
  <2> QED
    BY <1>0, <1>2, <2>1 DEF Reduce, TurnEnd, AppendText, AppendPart, ToolCallStart,
         IsActive, SessionState, ActiveTurn
<1>3. CASE a.type \in {"toolCallReady", "toolCallConfirmed", "toolCallComplete",
                     "toolCallResultConfirmed"}
  <2>1. s.activeTurn # None => s.activeTurn \in ActiveTurn
    BY <1>0 DEF SessionState
  <2>2. CASE a.type = "toolCallReady"
    BY <1>0, <2>1, <2>2 DEF Reduce, TurnEnd, ToolCallReady, UpdateToolCall,
         IsActive, SessionState, ActiveTurn
  <2>3. CASE a.type = "toolCallConfirmed"
    BY <1>0, <2>1, <2>3 DEF Reduce, TurnEnd, ToolCallConfirmed, UpdateToolCall,
         IsActive, SessionState, ActiveTurn
  <2>4. CASE a.type = "toolCallComplete"
    BY <1>0, <2>1, <2>4 DEF Reduce, TurnEnd, ToolCallComplete, UpdateToolCall,
         IsActive, SessionState, ActiveTurn
  <2>5. CASE a.type = "toolCallResultConfirmed"
    BY <1>0, <2>1, <2>5 DEF Reduce, TurnEnd, ToolCallResultConfirmed, UpdateToolCall,
         IsActive, SessionState, ActiveTurn
  <2> QED
    BY <1>3, <2>2, <2>3, <2>4, <2>5
<1>4. CASE a.type \in {"ready", "creationFailed", "metaChanged", "activeClientChanged",
                     "activeClientToolsChanged", "customizationsChanged",
                     "customizationToggled", "pendingMessageSet",
                     "pendingMessageRemoved", "queuedMessagesReordered"}
  BY <1>0, <1>4 DEF Reduce, TurnEnd, ActiveClientToolsChanged, CustomizationToggled,
       PendingMessageSet, PendingMessageRemoved, SessionState
<1>5. \/ a.type \in TurnEnd
      \/ a.type \in {"delta", "reasoning", "responsePart", "toolCallStart", "usage"}
      \/ a.type \in {"toolCallReady", "toolCallConfirmed", "toolCallComplete",
                    "toolCallResultConfirmed"}
      \/ a.type \in {"ready", "creationFailed", "metaChanged", "activeClientChanged",
                    "activeClientToolsChanged", "customizationsChanged",
                    "customizationToggled", "pendingMessageSet",
                    "pendingMessageRemoved", "queuedMessagesReordered"}
  BY DEF SessionAction, TurnActionType, TurnEnd
<1> QED
  BY <1>1, <1>2, <1>3, <1>4, <1>5

\* Dispatching any action but a start keeps active turns tracked, provided a turn
\* it ends is one of the same session.
LEMMA DispatchTracks ==
  ASSUME NEW h, SoundHost(h), NEW s \in Session, NEW a \in SessionAction,
         a.type # "turnStarted",
         NEW owner, Tracks(h, owner), a.type \in TurnEnd => owner[a.turn] = s
  PROVE  Tracks(Dispatch(h, s, a), owner)
<1>1. CASE h.sessions[s] = None
  BY <1>1 DEF Dispatch
<1>2. CASE h.sessions[s] # None
  <2> DEFINE d == Dispatch(h, s, a)
  <2>1. /\ h.sessions \in [Session -> SessionState \cup {None}]
        /\ h.tracked \in [TurnId -> Session \cup {None}]
    BY DEF SoundHost, HostState
  <2>2. /\ d.sessions = [h.sessions EXCEPT ![s] = Reduce(@, a)]
        /\ d.tracked = Tracked(h, s, a)
    BY <1>2 DEF Dispatch
  <2>3. Sound(h.sessions[s])
    BY <1>2 DEF SoundHost
  <2>4. Tracked(h, s, a) = IF a.type \in TurnEnd THEN [h.tracked EXCEPT ![a.turn] = None]
                           ELSE h.tracked
    BY DEF Tracked, TurnEnd
  <2>5. ASSUME NEW r \in Session, HasActiveTurn(d, r), r # s
        PROVE  d.tracked[ActiveTurnId(d, r)] = r /\ owner[ActiveTurnId(d, r)] = r
    <3>1. d.sessions[r] = h.sessions[r]
      BY <2>1, <2>2, <2>5
    <3>2. /\ h.tracked[ActiveTurnId(h, r)] = r /\ owner[ActiveTurnId(h, r)] = r
          /\ ActiveTurnId(d, r) = ActiveTurnId(h, r)
      BY <2>5, <3>1 DEF Tracks, HasActiveTurn, ActiveTurnId
    <3>3. a.type \in TurnEnd => a.turn # ActiveTurnId(h, r)
      BY <2>5, <3>2
    <3> QED
      BY <2>1, <2>2, <2>4, <3>2, <3>3
  <2>6. ASSUME HasActiveTurn(d, s)
        PROVE  d.tracked[ActiveTurnId(d, s)] = s /\ owner[ActiveTurnId(d, s)] = s
    <3>1. d.sessions[s] = Reduce(h.sessions[s], a)
      BY <2>1, <2>2
    <3>2. /\ HasActiveTurn(h, s)
          /\ ActiveTurnId(d, s) = ActiveTurnId(h, s)
          /\ ~(a.type \in TurnEnd /\ IsActive(h.sessions[s], a.turn))
      BY <1>2, <2>3, <2>6, <3>1, ReduceActive DEF HasActiveTurn, ActiveTurnId
    <3>3. h.tracked[ActiveTurnId(h, s)] = s /\ owner[ActiveTurnId(h, s)] = s
      BY <3>2 DEF Tracks
    <3>4. a.type \in TurnEnd => a.turn # ActiveTurnId(h, s)
      BY <3>2 DEF IsActive, HasActiveTurn, ActiveTurnId
    <3> QED
      BY <2>1, <2>2, <2>4, <3>2, <3>3, <3>4
  <2> QED
    BY <2>5, <2>6 DEF Tracks
<1> QED
  BY <1>1, <1>2

LEMMA ActiveTurnIdType ==
  ASSUME NEW h, SoundHost(h), NEW s \in Session, HasActiveTurn(h, s)
  PROVE  ActiveTurnId(h, s) \in TurnId
BY DEF SoundHost, HostState, Sound, HasActiveTurn, ActiveTurnId, SessionState, ActiveTurn

\* Ending the active turn, if there is one.
LEMMA EndActiveInv ==
  ASSUME NEW s \in Session, NEW type \in {"turnComplete", "error"}, HostInv
  PROVE  SoundHost(EndActive(s, type)) /\ Tracks(EndActive(s, type), turnOf)
<1>1. CASE ~HasActiveTurn(host, s)
  BY <1>1 DEF EndActive, HostInv, TurnsInv
<1>2. CASE HasActiveTurn(host, s)
  <2> DEFINE t == ActiveTurnId(host, s)
             a == [type |-> type, turn |-> t]
  <2>1. SoundHost(host) /\ Tracks(host, turnOf)
    BY DEF HostInv, TurnsInv
  <2>2. t \in TurnId /\ turnOf[t] = s
    BY <1>2, <2>1, ActiveTurnIdType DEF Tracks
  <2>3. a \in SessionAction
    BY <2>2 DEF SessionAction, TurnActionType
  <2>4. EndActive(s, type) = Dispatch(host, s, a)
    BY <1>2 DEF EndActive
  <2> QED
    BY <2>1, <2>2, <2>3, <2>4, DispatchSound, DispatchTracks
<1> QED
  BY <1>1, <1>2

-----------------------------------------------------------------------------
(* Starting a turn.                                                        *)

LEMMA AppendedCall ==
  ASSUME NEW q \in Seq(Call), NEW c \in Call
  PROVE  /\ Append(q, c) \in Seq(Call)
         /\ \A k \in DOMAIN Append(q, c) :
              Append(q, c)[k] = c \/ \E j \in DOMAIN q : Append(q, c)[k] = q[j]
<1>1. Len(q) \in Nat /\ DOMAIN q = 1 .. Len(q)
  BY LenProperties
<1>2. /\ Append(q, c) \in Seq(Call) /\ Len(Append(q, c)) = Len(q) + 1
      /\ \A i \in 1 .. Len(q) : Append(q, c)[i] = q[i]
      /\ Append(q, c)[Len(q) + 1] = c
  BY AppendProperties
<1>3. DOMAIN Append(q, c) = 1 .. (Len(q) + 1)
  BY <1>2, LenProperties
<1> QED
  BY <1>1, <1>2, <1>3

LEMMA LaunchInv ==
  ASSUME NEW h, TurnsInv(h), NEW s \in Session, NEW t \in TurnId, turnOf[t] = None,
         NEW text \in Text, NEW q \in MessageId \cup {None}, Launch(h, s, t, text, q)
  PROVE  TurnsInv(host)'
<1> DEFINE a == [type |-> "turnStarted", turn |-> t, message |-> text, queuedId |-> q]
           c == [op |-> "send", turn |-> t]
<1>1. a \in SessionAction /\ host' = Dispatch(h, s, a)
  BY DEF SessionAction, Launch
<1>2. SoundHost(host')
  BY <1>1, DispatchSound DEF TurnsInv
<1>3. mapper' \in [Session -> [TextKind -> PartId \cup {None}]]
  BY DEF TurnsInv, Launch, NoParts
<1>4. turnOf' = [turnOf EXCEPT ![t] = s] /\ turnOf' \in [TurnId -> Session \cup {None}]
  BY DEF TurnsInv, Launch
<1>5. c \in Call /\ calls' = [calls EXCEPT ![s] = Append(@, c)]
  BY DEF Launch, Call
<1>6. calls' \in [Session -> Seq(Call)]
  BY <1>5 DEF TurnsInv
<1>7. None \notin Session
  BY NoneIsNoId
<1>8. CallsOwned'
  <2> SUFFICES ASSUME NEW r \in Session, NEW k \in DOMAIN calls'[r]
               PROVE  turnOf'[calls'[r][k].turn] = r
    BY DEF CallsOwned
  <2>1. calls[r] \in Seq(Call) /\ \A j \in DOMAIN calls[r] : calls[r][j] \in Call
    BY LenProperties DEF TurnsInv
  <2>2. \A j \in DOMAIN calls[r] : turnOf'[calls[r][j].turn] = r
    BY <1>4, <1>7, <2>1 DEF TurnsInv, CallsOwned, Call
  <2>3. CASE r = s
    <3>1. calls'[r] = Append(calls[r], c)
      BY <1>5, <2>3 DEF TurnsInv
    <3>2. calls'[r][k] = c \/ \E j \in DOMAIN calls[r] : calls'[r][k] = calls[r][j]
      BY <1>5, <2>1, <3>1, AppendedCall
    <3>3. turnOf'[c.turn] = r
      BY <1>4, <2>3 DEF TurnsInv
    <3> QED
      BY <2>2, <3>2, <3>3
  <2>4. CASE r # s
    BY <1>5, <2>2, <2>4 DEF TurnsInv
  <2> QED
    BY <2>3, <2>4
<1>9. Tracks(host', turnOf')
  <2>1. CASE h.sessions[s] = None
    <3>1. host' = h
      BY <1>1, <2>1 DEF Dispatch
    <3>2. ASSUME NEW r \in Session, HasActiveTurn(h, r)
          PROVE  turnOf'[ActiveTurnId(h, r)] = r
      BY <1>4, <1>7, <3>2, ActiveTurnIdType DEF TurnsInv, Tracks
    <3> QED
      BY <3>1, <3>2 DEF TurnsInv, Tracks
  <2>2. CASE h.sessions[s] # None
    <3>1. /\ h.sessions \in [Session -> SessionState \cup {None}]
          /\ h.tracked \in [TurnId -> Session \cup {None}]
      BY DEF TurnsInv, SoundHost, HostState
    <3>2. /\ host'.sessions = [h.sessions EXCEPT ![s] = TurnStarted(@, a)]
          /\ host'.tracked = [h.tracked EXCEPT ![t] = s]
      <4>1. a.type = "turnStarted" /\ a.turn = t
        OBVIOUS
      <4> HIDE DEF a
      <4>2. Reduce(h.sessions[s], a) = TurnStarted(h.sessions[s], a)
        BY <4>1 DEF Reduce
      <4>3. Tracked(h, s, a) = [h.tracked EXCEPT ![t] = s]
        BY <4>1 DEF Tracked, TurnEnd
      <4>4. /\ host'.sessions = [h.sessions EXCEPT ![s] = Reduce(@, a)]
            /\ host'.tracked = Tracked(h, s, a)
        BY <1>1, <2>2 DEF Dispatch
      <4> QED
        BY <4>2, <4>3, <4>4
    <3>3. h.sessions[s] \in SessionState
      BY <2>2, <3>1
    <3>4. ActiveTurnId(host', s) = t
      BY <3>1, <3>2, <3>3 DEF ActiveTurnId, TurnStarted, SessionState
    <3>5. ASSUME NEW r \in Session, HasActiveTurn(host', r), r # s
          PROVE  /\ host'.tracked[ActiveTurnId(host', r)] = r
                 /\ turnOf'[ActiveTurnId(host', r)] = r
      <4>1. host'.sessions[r] = h.sessions[r]
        BY <3>1, <3>2, <3>5
      <4>2. /\ HasActiveTurn(h, r) /\ ActiveTurnId(host', r) = ActiveTurnId(h, r)
            /\ h.tracked[ActiveTurnId(h, r)] = r /\ turnOf[ActiveTurnId(h, r)] = r
        BY <3>5, <4>1 DEF HasActiveTurn, ActiveTurnId, TurnsInv, Tracks
      <4>3. ActiveTurnId(h, r) \in TurnId /\ ActiveTurnId(h, r) # t
        BY <1>7, <4>2, ActiveTurnIdType DEF TurnsInv
      <4> QED
        BY <1>4, <3>1, <3>2, <4>2, <4>3 DEF TurnsInv
    <3>6. host'.tracked[t] = s /\ turnOf'[t] = s
      BY <1>4, <3>1, <3>2 DEF TurnsInv
    <3> QED
      BY <3>4, <3>5, <3>6 DEF Tracks
  <2> QED
    BY <2>1, <2>2
<1> QED
  BY <1>2, <1>3, <1>4, <1>6, <1>8, <1>9 DEF TurnsInv, CallsOwned

\* _tryConsumeNextQueuedMessage in the state an action has made.
LEMMA TryConsumeNextInv ==
  ASSUME NEW h, TurnsInv(h), NEW s \in Session, TryConsumeNext(h, s)
  PROVE  TurnsInv(host)'
<1>1. CASE QueueReady(h, s)
  <2> DEFINE next == Head(h.sessions[s].queued)
  <2>1. next \in PendingMessage
    <3>1. h.sessions[s].queued \in Seq(PendingMessage) /\ h.sessions[s].queued # <<>>
      BY <1>1 DEF QueueReady, TurnsInv, SoundHost, HostState, Sound, SessionState
    <3> QED
      BY <3>1, HeadTailProperties
  <2>2. next.text \in Text /\ next.id \in MessageId
    BY <2>1 DEF PendingMessage
  <2>3. PICK t \in TurnId : NextTurn(t) /\ Launch(h, s, t, next.text, next.id)
    BY <1>1 DEF TryConsumeNext
  <2>4. turnOf[t] = None
    BY <2>3 DEF NextTurn, Fresh
  <2> QED
    BY <2>2, <2>3, <2>4, LaunchInv
<1>2. CASE ~QueueReady(h, s)
  <2>1. host' = h /\ UNCHANGED <<mapper, calls, turnOf>>
    BY <1>2 DEF TryConsumeNext
  <2> QED
    BY <2>1 DEF TurnsInv, CallsOwned
<1> QED
  BY <1>1, <1>2

-----------------------------------------------------------------------------
(* The actions, one lemma for those that change the same things.           *)

\* An action whose effect on the host state is one dispatch.
LEMMA DispatchInv ==
  ASSUME HostInv, NEW s \in Session, NEW a \in SessionAction,
         a.type # "turnStarted", a.type \in TurnEnd => turnOf[a.turn] = s
  PROVE  SoundHost(Dispatch(host, s, a)) /\ Tracks(Dispatch(host, s, a), turnOf)
BY DispatchSound, DispatchTracks DEF HostInv, TurnsInv

LEMMA CreateSessionInv ==
  ASSUME HostInv, NEW s \in Session, CreateSession(s)
  PROVE  HostInv'
<1> DEFINE h == [host EXCEPT !.sessions[s] = NewSession]
           a == [type |-> "ready"]
<1>1. SoundHost(host) /\ Tracks(host, turnOf)
  BY DEF HostInv, TurnsInv
<1>2. /\ host \in HostState
      /\ h.sessions = [host.sessions EXCEPT ![s] = NewSession]
      /\ h.tracked = host.tracked /\ h.activeSessions = host.activeSessions
  BY <1>1 DEF SoundHost, HostState
<1>3. h \in HostState
  BY <1>2, NewSessionSound DEF HostState, Sound
<1>4. SoundHost(h)
  BY <1>1, <1>2, <1>3, NewSessionSound DEF SoundHost, HostState
<1>5. Tracks(h, turnOf)
  <2>1. ~HasActiveTurn(h, s)
    BY <1>2 DEF HasActiveTurn, NewSession, HostState
  <2>2. \A r \in Session \ {s} : h.sessions[r] = host.sessions[r]
    BY <1>2 DEF HostState
  <2> QED
    BY <1>1, <1>2, <2>1, <2>2 DEF Tracks, HasActiveTurn, ActiveTurnId
<1>6. a \in SessionAction
  BY DEF SessionAction
<1>7. host' = Dispatch(h, s, a)
  BY DEF CreateSession, WithNewSession
<1>8. SoundHost(host') /\ Tracks(host', turnOf)
  BY <1>4, <1>5, <1>6, <1>7, DispatchSound, DispatchTracks DEF TurnEnd
<1> QED
  BY <1>8 DEF CreateSession, HostInv, TurnsInv, OthersType, CallsOwned

LEMMA DisposeSessionInv ==
  ASSUME HostInv, NEW s \in Session, DisposeSession(s)
  PROVE  HostInv'
<1>1. SoundHost(host) /\ Tracks(host, turnOf) /\ host' = WithoutSession(host, s)
  BY DEF HostInv, TurnsInv, DisposeSession
<1>2. host \in HostState
  BY <1>1 DEF SoundHost
<1>3. /\ host'.sessions = [host.sessions EXCEPT ![s] = None]
      /\ host'.tracked = IF HasActiveTurn(host, s)
                         THEN [host.tracked EXCEPT ![ActiveTurnId(host, s)] = None]
                         ELSE host.tracked
      /\ host'.activeSessions = host.activeSessions
      /\ host' \in HostState
  BY <1>1, <1>2 DEF WithoutSession, HostState
<1>4. \A r \in Session \ {s} : host'.sessions[r] = host.sessions[r]
  BY <1>2, <1>3 DEF HostState
<1>5. host'.sessions[s] = None
  BY <1>2, <1>3 DEF HostState
<1>6. SoundHost(host')
  BY <1>1, <1>3, <1>4, <1>5 DEF SoundHost
<1>7. ASSUME NEW r \in Session, HasActiveTurn(host', r)
      PROVE  /\ host'.tracked[ActiveTurnId(host', r)] = r
             /\ turnOf[ActiveTurnId(host', r)] = r
  <2>1. r # s
    BY <1>5, <1>7 DEF HasActiveTurn
  <2>2. /\ HasActiveTurn(host, r) /\ ActiveTurnId(host', r) = ActiveTurnId(host, r)
        /\ host.tracked[ActiveTurnId(host, r)] = r /\ turnOf[ActiveTurnId(host, r)] = r
    BY <1>1, <1>4, <1>7, <2>1 DEF HasActiveTurn, ActiveTurnId, Tracks
  <2>3. HasActiveTurn(host, s) => ActiveTurnId(host, s) # ActiveTurnId(host, r)
    BY <1>1, <2>1, <2>2 DEF Tracks
  <2> QED
    BY <1>2, <1>3, <2>2, <2>3 DEF HostState
<1>8. Tracks(host', turnOf)
  BY <1>7 DEF Tracks
<1>9. runs' \in [Session -> Seq(Run)] /\ pendingPermissions' \in [Session -> SUBSET ToolCallId]
  BY DEF HostInv, OthersType, DisposeSession
<1> QED
  BY <1>6, <1>8, <1>9 DEF DisposeSession, HostInv, TurnsInv, OthersType, CallsOwned

LEMMA StartTurnInv ==
  ASSUME HostInv, NEW s \in Session, StartTurn(s)
  PROVE  HostInv'
<1>1. PICK t \in TurnId, m \in Text : NextTurn(t) /\ Launch(host, s, t, m, None)
  BY DEF StartTurn
<1>2. turnOf[t] = None
  BY <1>1 DEF NextTurn, Fresh
<1>3. TurnsInv(host)'
  BY <1>1, <1>2, LaunchInv DEF HostInv
<1> QED
  BY <1>3 DEF StartTurn, HostInv, OthersType

LEMMA CancelTurnInv ==
  ASSUME HostInv, NEW s \in Session, CancelTurn(s)
  PROVE  HostInv'
<1>1. PICK t \in {u \in TurnId : turnOf[u] = s} :
        /\ host' = Dispatch(host, s, [type |-> "turnCancelled", turn |-> t])
        /\ calls' = [calls EXCEPT ![s] = Append(@, [op |-> "abort", turn |-> t])]
  BY DEF CancelTurn
<1> DEFINE a == [type |-> "turnCancelled", turn |-> t]
           c == [op |-> "abort", turn |-> t]
<1>2. a \in SessionAction
  BY DEF SessionAction, TurnActionType
<1>3. SoundHost(host') /\ Tracks(host', turnOf)
  BY <1>1, <1>2, DispatchInv
<1>4. c \in Call
  BY DEF Call
<1>5. calls' \in [Session -> Seq(Call)]
  BY <1>1, <1>4 DEF HostInv, TurnsInv
<1>6. ASSUME NEW r \in Session, NEW k \in DOMAIN calls'[r]
      PROVE  turnOf[calls'[r][k].turn] = r
  <2>1. calls[r] \in Seq(Call) /\ \A j \in DOMAIN calls[r] : turnOf[calls[r][j].turn] = r
    BY DEF HostInv, TurnsInv, CallsOwned
  <2>2. CASE r = s
    <3>1. calls'[r] = Append(calls[r], c)
      BY <1>1, <2>2 DEF HostInv, TurnsInv
    <3>2. calls'[r][k] = c \/ \E j \in DOMAIN calls[r] : calls'[r][k] = calls[r][j]
      BY <1>4, <1>6, <2>1, <3>1, AppendedCall
    <3> QED
      BY <2>1, <2>2, <3>2
  <2>3. CASE r # s
    BY <1>1, <1>6, <2>1, <2>3 DEF HostInv, TurnsInv
  <2> QED
    BY <2>2, <2>3
<1>7. pendingPermissions' \in [Session -> SUBSET ToolCallId]
  BY DEF HostInv, OthersType, CancelTurn
<1> QED
  BY <1>3, <1>5, <1>6, <1>7 DEF CancelTurn, HostInv, TurnsInv, OthersType, CallsOwned

LEMMA ConfirmToolCallInv ==
  ASSUME HostInv, NEW s \in Session, ConfirmToolCall(s)
  PROVE  HostInv'
<1>1. PICK t \in {u \in TurnId : turnOf[u] = s}, c \in ToolCallId, ok \in BOOLEAN :
        /\ host' = Dispatch(host, s, [type |-> "toolCallConfirmed", turn |-> t,
                                      tool |-> c, approved |-> ok])
        /\ toolCallAgents' = toolCallAgents \ {<<s, c>>}
        /\ pendingPermissions' =
             IF <<s, c>> \in toolCallAgents
             THEN [r \in Session |-> pendingPermissions[r] \ {c}]
             ELSE pendingPermissions
  BY DEF ConfirmToolCall
<1> DEFINE a == [type |-> "toolCallConfirmed", turn |-> t, tool |-> c, approved |-> ok]
<1>2. a \in SessionAction
  BY DEF SessionAction
<1>3. SoundHost(host') /\ Tracks(host', turnOf)
  BY <1>1, <1>2, DispatchInv DEF TurnEnd
<1>4. pendingPermissions' \in [Session -> SUBSET ToolCallId]
  BY <1>1 DEF HostInv, OthersType
<1> QED
  BY <1>1, <1>3, <1>4 DEF ConfirmToolCall, HostInv, TurnsInv, OthersType, CallsOwned

LEMMA ChangePendingInv ==
  ASSUME HostInv, NEW s \in Session, ChangePending(s)
  PROVE  HostInv'
<1>1. PICK a \in PendingAction(s) :
        LET h == Dispatch(host, s, a)
            steering == h.sessions[s].steering
        IN /\ steers' = IF steering = None THEN steers
                        ELSE [steers EXCEPT ![s] = Append(@, steering)]
           /\ TryConsumeNext(h, s)
  BY DEF ChangePending
<1> DEFINE h == Dispatch(host, s, a)
           steering == h.sessions[s].steering
<1>2. a \in SessionAction /\ a.type # "turnStarted" /\ a.type \notin TurnEnd
  <2>1. CASE a \in [type : {"pendingMessageSet"}, kind : {"queued", "steering"},
                    id : MessageId, text : Text]
    BY <2>1 DEF SessionAction, TurnEnd
  <2>2. CASE a \in [type : {"pendingMessageRemoved"}, kind : {"queued", "steering"},
                    id : MessageId]
    BY <2>2 DEF SessionAction, TurnEnd
  <2>3. CASE a \in [type : {"queuedMessagesReordered"},
                    order : {<<>>} \cup {<<m>> : m \in MessageId}]
    <3>1. a.order \in Seq(MessageId)
      <4>1. a.order = <<>> \/ \E m \in MessageId : a.order = <<m>>
        BY <2>3, Zenon
      <4>2. \A m \in MessageId : <<m>> \in Seq(MessageId)
        OBVIOUS
      <4>3. <<>> \in Seq(MessageId)
        OBVIOUS
      <4> QED
        BY <4>1, <4>2, <4>3, Zenon
    <3>2. a = [type |-> "queuedMessagesReordered", order |-> a.order]
      BY <2>3
    <3>3. a \in [type : {"queuedMessagesReordered"}, order : Seq(MessageId)]
      BY <3>1, <3>2
    <3> QED
      BY <3>2, <3>3 DEF SessionAction, TurnEnd
  <2> QED
    BY <2>1, <2>2, <2>3 DEF PendingAction
<1>3. SoundHost(h) /\ Tracks(h, turnOf)
  BY <1>2, DispatchInv
<1>4. TurnsInv(host)'
  <2>1. TurnsInv(h)
    BY <1>3 DEF HostInv, TurnsInv
  <2> QED
    BY <1>1, <2>1, TryConsumeNextInv
<1>5. steering # None => steering \in PendingMessage
  <2>1. host.sessions[s] # None
    BY DEF ChangePending
  <2>2. Sound(Reduce(host.sessions[s], a))
    BY <1>2, <2>1, ReduceSound DEF HostInv, TurnsInv, SoundHost
  <2>3. h.sessions[s] = Reduce(host.sessions[s], a)
    BY <2>1 DEF Dispatch, HostInv, TurnsInv, SoundHost, HostState
  <2> QED
    BY <2>2, <2>3 DEF Sound, SessionState
<1>6. steers' \in [Session -> Seq(PendingMessage)]
  BY <1>1, <1>5 DEF HostInv, OthersType
<1> QED
  BY <1>4, <1>6 DEF ChangePending, HostInv, OthersType

-----------------------------------------------------------------------------
(* The agent takes a call.                                                 *)

\* Taking a call from the calls in flight leaves calls that were in flight.
LEMMA ServedSound ==
  ASSUME NEW q \in Seq(Call), NEW k \in DOMAIN q
  PROVE  /\ WithoutAt(q, k) \in Seq(Call)
         /\ \A i \in DOMAIN WithoutAt(q, k) : \E j \in DOMAIN q : WithoutAt(q, k)[i] = q[j]
<1>1. Len(q) \in Nat /\ DOMAIN q = 1 .. Len(q) /\ \A i \in DOMAIN q : q[i] \in Call
  BY LenProperties
<1>2. /\ Len(q) - 1 \in Nat
      /\ \A i \in 1 .. (Len(q) - 1) : i \in DOMAIN q /\ i + 1 \in DOMAIN q
  BY <1>1
<1>3. WithoutAt(q, k) \in [1 .. (Len(q) - 1) -> Call]
  BY <1>1, <1>2 DEF WithoutAt
<1>4. WithoutAt(q, k) \in Seq(Call)
  BY <1>2, <1>3, SeqDef
<1>5. \A i \in DOMAIN WithoutAt(q, k) : \E j \in DOMAIN q : WithoutAt(q, k)[i] = q[j]
  BY <1>2 DEF WithoutAt
<1> QED
  BY <1>4, <1>5

LEMMA ServedInv ==
  ASSUME HostInv, NEW s \in Session, NEW k \in DOMAIN calls[s], Served(s, k)
  PROVE  /\ calls' \in [Session -> Seq(Call)]
         /\ \A r \in Session : \A i \in DOMAIN calls'[r] : turnOf[calls'[r][i].turn] = r
<1>1. calls \in [Session -> Seq(Call)] /\ CallsOwned
  BY DEF HostInv, TurnsInv
<1>2. calls' = [calls EXCEPT ![s] = WithoutAt(calls[s], k)]
  BY <1>1 DEF Served
<1>3. calls[s] \in Seq(Call)
  BY <1>1
<1>4. /\ WithoutAt(calls[s], k) \in Seq(Call)
      /\ \A i \in DOMAIN WithoutAt(calls[s], k) :
           \E j \in DOMAIN calls[s] : WithoutAt(calls[s], k)[i] = calls[s][j]
  BY <1>3, ServedSound
<1>5. calls' \in [Session -> Seq(Call)]
  BY <1>1, <1>2, <1>4
<1>6. ASSUME NEW r \in Session, NEW i \in DOMAIN calls'[r]
      PROVE  turnOf[calls'[r][i].turn] = r
  <2>1. CASE r = s
    <3>1. calls'[r] = WithoutAt(calls[s], k)
      BY <1>1, <1>2, <2>1
    <3>2. PICK j \in DOMAIN calls[s] : calls'[r][i] = calls[s][j]
      BY <1>4, <1>6, <3>1
    <3> QED
      BY <1>1, <2>1, <3>2 DEF CallsOwned
  <2>2. CASE r # s
    BY <1>1, <1>2, <1>6, <2>2 DEF CallsOwned
  <2> QED
    BY <2>1, <2>2
<1> QED
  BY <1>5, <1>6

LEMMA RunType ==
  ASSUME NEW t \in TurnId, NEW c \in ToolCallId \cup {None}, NEW n \in 0 .. MaxAsks
  PROVE  [turn |-> t, tool |-> c, asks |-> n] \in Run
BY DEF Run

LEMMA CallTurn ==
  ASSUME HostInv, NEW s \in Session, NEW k \in DOMAIN calls[s]
  PROVE  calls[s][k].turn \in TurnId /\ turnOf[calls[s][k].turn] = s
<1>1. calls[s] \in Seq(Call) /\ turnOf[calls[s][k].turn] = s
  BY DEF HostInv, TurnsInv, CallsOwned
<1>2. calls[s][k] \in Call
  BY <1>1, LenProperties
<1> QED
  BY <1>1, <1>2 DEF Call

LEMMA SendAcceptedInv ==
  ASSUME HostInv, NEW s \in Session, SendAccepted(s)
  PROVE  HostInv'
<1>1. PICK k \in DOMAIN calls[s] :
        /\ Served(s, k)
        /\ runs' = [runs EXCEPT ![s] =
                      Append(@, [turn |-> calls[s][k].turn, tool |-> None, asks |-> 0])]
  BY DEF SendAccepted
<1>2. [turn |-> calls[s][k].turn, tool |-> None, asks |-> 0] \in Run
  BY CallTurn, RunType, Bounds, SMTT(30)
<1>3. runs' \in [Session -> Seq(Run)]
  BY <1>1, <1>2 DEF HostInv, OthersType
<1> QED
  BY <1>1, <1>3, ServedInv DEF SendAccepted, HostInv, TurnsInv, OthersType, CallsOwned

LEMMA SendFailedInv ==
  ASSUME HostInv, NEW s \in Session, SendFailed(s)
  PROVE  HostInv'
<1>1. PICK k \in DOMAIN calls[s] :
        /\ Served(s, k)
        /\ host' = Dispatch(host, s, [type |-> "error", turn |-> calls[s][k].turn])
  BY DEF SendFailed
<1> DEFINE a == [type |-> "error", turn |-> calls[s][k].turn]
<1>2. a \in SessionAction /\ a.type # "turnStarted" /\ turnOf[a.turn] = s
  BY CallTurn DEF SessionAction, TurnActionType
<1>3. SoundHost(host') /\ Tracks(host', turnOf)
  BY <1>1, <1>2, DispatchInv
<1> QED
  BY <1>1, <1>3, ServedInv DEF SendFailed, HostInv, TurnsInv, OthersType, CallsOwned

LEMMA AbortTakenInv ==
  ASSUME HostInv, NEW s \in Session, AbortTaken(s)
  PROVE  HostInv'
<1>1. PICK k \in DOMAIN calls[s] : Served(s, k)
  BY DEF AbortTaken
<1>2. runs' \in [Session -> Seq(Run)]
  <2>1. runs \in [Session -> Seq(Run)] /\ runs[s] \in Seq(Run)
    BY DEF HostInv, OthersType
  <2>2. runs[s] # <<>> => Tail(runs[s]) \in Seq(Run)
    BY <2>1, HeadTailProperties
  <2> QED
    BY <2>1, <2>2 DEF AbortTaken
<1> QED
  BY <1>1, <1>2, ServedInv DEF AbortTaken, HostInv, TurnsInv, OthersType, CallsOwned

LEMMA SteeringTakenInv ==
  ASSUME HostInv, NEW s \in Session, SteeringTaken(s)
  PROVE  HostInv'
<1> DEFINE a == [type |-> "pendingMessageRemoved", kind |-> "steering",
                 id |-> Head(steers[s]).id]
<1>1. steers[s] \in Seq(PendingMessage) /\ steers[s] # <<>>
  BY DEF SteeringTaken, HostInv, OthersType
<1>2. Head(steers[s]) \in PendingMessage /\ Tail(steers[s]) \in Seq(PendingMessage)
  BY <1>1, HeadTailProperties
<1>3. a \in SessionAction
  BY <1>2 DEF PendingMessage, SessionAction
<1>4. SoundHost(host') /\ Tracks(host', turnOf)
  BY <1>3, DispatchInv DEF SteeringTaken, TurnEnd
<1>5. steers' \in [Session -> Seq(PendingMessage)]
  BY <1>2 DEF SteeringTaken, HostInv, OthersType
<1> QED
  BY <1>4, <1>5 DEF SteeringTaken, HostInv, TurnsInv, OthersType, CallsOwned

LEMMA SteeringFailedInv ==
  ASSUME HostInv, NEW s \in Session, SteeringFailed(s)
  PROVE  HostInv'
<1>1. steers[s] \in Seq(PendingMessage) /\ steers[s] # <<>>
  BY DEF SteeringFailed, HostInv, OthersType
<1>2. Tail(steers[s]) \in Seq(PendingMessage)
  BY <1>1, HeadTailProperties
<1>3. steers' \in [Session -> Seq(PendingMessage)]
  BY <1>2 DEF SteeringFailed, HostInv, OthersType
<1> QED
  BY <1>3 DEF SteeringFailed, HostInv, TurnsInv, OthersType, CallsOwned

-----------------------------------------------------------------------------
(* Agent events.                                                           *)

LEMMA CurrentType ==
  ASSUME HostInv, NEW s \in Session, Working(s)
  PROVE  /\ runs[s] # <<>> /\ Current(s) \in Run
         /\ Tail(runs[s]) \in Seq(Run)
         /\ [runs EXCEPT ![s] = Tail(@)] \in [Session -> Seq(Run)]
<1>1. runs \in [Session -> Seq(Run)] /\ runs[s] \in Seq(Run) /\ runs[s] # <<>>
  BY DEF HostInv, OthersType, Working
<1>2. Head(runs[s]) \in Run /\ Tail(runs[s]) \in Seq(Run)
  BY <1>1, HeadTailProperties
<1> QED
  BY <1>1, <1>2 DEF Current

LEMMA SetToolType ==
  ASSUME HostInv, NEW s \in Session, Working(s),
         NEW tool \in ToolCallId \cup {None}, NEW asks \in 0 .. MaxAsks,
         SetTool(s, tool, asks)
  PROVE  runs' \in [Session -> Seq(Run)]
<1> DEFINE run == [turn |-> Head(runs[s]).turn, tool |-> tool, asks |-> asks]
<1>1. runs \in [Session -> Seq(Run)] /\ Current(s) \in Run /\ Tail(runs[s]) \in Seq(Run)
  BY CurrentType DEF HostInv, OthersType
<1>2. run \in Run
  BY <1>1, RunType DEF Current, Run
<1>3. runs' = [runs EXCEPT ![s] = <<run>> \o Tail(runs[s])]
  BY <1>1 DEF SetTool
<1> HIDE DEF run
<1>4. <<run>> \in Seq(Run)
  BY <1>2
<1>5. <<run>> \o Tail(runs[s]) \in Seq(Run)
  BY <1>1, <1>4, ConcatProperties
<1> QED
  BY <1>1, <1>3, <1>5

LEMMA AgentTextInv ==
  ASSUME HostInv, NEW s \in Session, AgentText(s)
  PROVE  HostInv'
<1>1. PICK e \in TextEvent, c \in Chunk :
        LET kind == IF e = "reasoning" THEN "reasoning" ELSE "markdown"
            t == ActiveTurnId(host, s)
            open == mapper[s][kind]
        IN \/ /\ open = None
              /\ \E p \in PartId \ UsedParts :
                   /\ mapper' = [mapper EXCEPT ![s][kind] = p]
                   /\ host' = Dispatch(host, s,
                        [type |-> "responsePart", turn |-> t,
                         part |-> [kind |-> kind, id |-> p, content |-> <<c>>]])
           \/ /\ open # None /\ e # "message"
              /\ host' = Dispatch(host, s, [type |-> e, turn |-> t, part |-> open,
                                            chunk |-> c])
              /\ UNCHANGED mapper
  BY DEF AgentText
<1> DEFINE kind == IF e = "reasoning" THEN "reasoning" ELSE "markdown"
           t == ActiveTurnId(host, s)
           open == mapper[s][kind]
<1>2. t \in TurnId
  BY ActiveTurnIdType DEF AgentText, HostInv, TurnsInv
<1>3. kind \in TextKind
  BY DEF TextKind
<1>4. mapper \in [Session -> [TextKind -> PartId \cup {None}]] /\ open \in PartId \cup {None}
  BY <1>3 DEF HostInv, TurnsInv
<1>5. \/ \E p \in PartId : /\ mapper' = [mapper EXCEPT ![s][kind] = p]
                            /\ host' = Dispatch(host, s,
                                 [type |-> "responsePart", turn |-> t,
                                  part |-> [kind |-> kind, id |-> p, content |-> <<c>>]])
      \/ /\ open # None /\ e # "message"
         /\ host' = Dispatch(host, s, [type |-> e, turn |-> t, part |-> open,
                                       chunk |-> c])
         /\ UNCHANGED mapper
  BY <1>1
<1> HIDE DEF kind, t, open
<1>6. /\ SoundHost(host') /\ Tracks(host', turnOf)
      /\ mapper' \in [Session -> [TextKind -> PartId \cup {None}]]
  <2>1. ASSUME NEW p \in PartId, mapper' = [mapper EXCEPT ![s][kind] = p],
               host' = Dispatch(host, s,
                         [type |-> "responsePart", turn |-> t,
                          part |-> [kind |-> kind, id |-> p, content |-> <<c>>]])
        PROVE  <1>6!:
    <3> DEFINE part == [kind |-> kind, id |-> p, content |-> <<c>>]
               a == [type |-> "responsePart", turn |-> t, part |-> part]
    <3>1. <<c>> \in Seq(Chunk)
      OBVIOUS
    <3>2. part \in TextPart
      BY <1>3, <3>1 DEF TextPart
    <3> HIDE DEF part
    <3>3. a \in SessionAction
      BY <1>2, <3>2 DEF SessionAction
    <3>4. a.type # "turnStarted" /\ a.type \notin TurnEnd
      BY DEF TurnEnd
    <3>5. host' = Dispatch(host, s, a)
      BY <2>1 DEF part
    <3>6. SoundHost(host') /\ Tracks(host', turnOf)
      BY <3>3, <3>4, <3>5, DispatchInv
    <3>7. mapper' \in [Session -> [TextKind -> PartId \cup {None}]]
      BY <1>3, <1>4, <2>1
    <3> QED
      BY <3>6, <3>7
  <2>2. ASSUME open # None, e # "message", UNCHANGED mapper,
               host' = Dispatch(host, s, [type |-> e, turn |-> t, part |-> open,
                                          chunk |-> c])
        PROVE  <1>6!:
    <3> DEFINE a == [type |-> e, turn |-> t, part |-> open, chunk |-> c]
    <3>1. e \in {"delta", "reasoning"}
      BY <2>2, EnvironmentKinds
    <3>2. open \in PartId
      BY <1>4, <2>2
    <3>3. a \in SessionAction
      BY <1>2, <3>1, <3>2 DEF SessionAction
    <3>4. a.type # "turnStarted" /\ a.type \notin TurnEnd
      BY <3>1 DEF TurnEnd
    <3>5. SoundHost(host') /\ Tracks(host', turnOf)
      BY <2>2, <3>3, <3>4, DispatchInv
    <3> QED
      BY <1>4, <2>2, <3>5
  <2> QED
    BY <1>5, <2>1, <2>2
<1> QED
  BY <1>6 DEF AgentText, HostInv, TurnsInv, OthersType, CallsOwned

LEMMA ToolStartInv ==
  ASSUME HostInv, NEW s \in Session, ToolStart(s)
  PROVE  HostInv'
<1>1. PICK c \in ToolCallId :
        /\ SetTool(s, c, 0)
        /\ toolOf' = [toolOf EXCEPT ![c] = Current(s).turn]
        /\ toolCallAgents' = toolCallAgents \cup {<<s, c>>}
        /\ IF HasActiveTurn(host, s)
           THEN LET t == ActiveTurnId(host, s)
                IN /\ host' = Dispatch(
                        Dispatch(host, s, [type |-> "toolCallStart", turn |-> t, tool |-> c]),
                        s, [type |-> "toolCallReady", turn |-> t, tool |-> c,
                            confirmed |-> "notNeeded"])
                   /\ mapper' = [mapper EXCEPT ![s]["markdown"] = None]
           ELSE UNCHANGED <<host, mapper>>
  BY DEF ToolStart
<1>2. Current(s) \in Run
  BY CurrentType DEF ToolStart
<1>3. 0 \in 0 .. MaxAsks
  BY Bounds
<1>4. runs' \in [Session -> Seq(Run)]
  BY <1>1, <1>3, SetToolType DEF ToolStart
<1>5. toolOf' \in [ToolCallId -> TurnId \cup {None}]
  BY <1>1, <1>2 DEF Run, HostInv, OthersType
<1>6. toolCallAgents' \subseteq Session \X ToolCallId
  BY <1>1 DEF HostInv, OthersType
<1>7. /\ SoundHost(host') /\ Tracks(host', turnOf)
      /\ mapper' \in [Session -> [TextKind -> PartId \cup {None}]]
  <2>1. CASE HasActiveTurn(host, s)
    <3> DEFINE t == ActiveTurnId(host, s)
               start == [type |-> "toolCallStart", turn |-> t, tool |-> c]
               ready == [type |-> "toolCallReady", turn |-> t, tool |-> c,
                         confirmed |-> "notNeeded"]
               h == Dispatch(host, s, start)
    <3>1. t \in TurnId
      BY <2>1, ActiveTurnIdType DEF HostInv, TurnsInv
    <3>2. start \in SessionAction /\ start.type # "turnStarted" /\ start.type \notin TurnEnd
      BY <3>1 DEF SessionAction, TurnEnd
    <3>3. ready \in SessionAction /\ ready.type # "turnStarted" /\ ready.type \notin TurnEnd
      BY <3>1 DEF SessionAction, TurnEnd
    <3>4. host' = Dispatch(h, s, ready) /\ mapper' = [mapper EXCEPT ![s]["markdown"] = None]
      BY <1>1, <2>1
    <3> HIDE DEF start, ready
    <3>5. SoundHost(h) /\ Tracks(h, turnOf)
      BY <3>2, DispatchInv
    <3>6. SoundHost(host') /\ Tracks(host', turnOf)
      BY <3>3, <3>4, <3>5, DispatchSound, DispatchTracks
    <3>7. mapper' \in [Session -> [TextKind -> PartId \cup {None}]]
      BY <3>4 DEF HostInv, TurnsInv
    <3> QED
      BY <3>6, <3>7
  <2>2. CASE ~HasActiveTurn(host, s)
    BY <1>1, <2>2 DEF HostInv, TurnsInv
  <2> QED
    BY <2>1, <2>2
<1> QED
  BY <1>4, <1>5, <1>6, <1>7 DEF ToolStart, HostInv, TurnsInv, OthersType, CallsOwned

LEMMA AskPermissionInv ==
  ASSUME HostInv, NEW s \in Session, AskPermission(s)
  PROVE  HostInv'
<1> DEFINE c == Current(s).tool
           a == [type |-> "toolCallReady", turn |-> ActiveTurnId(host, s), tool |-> c,
                 confirmed |-> "none"]
<1>1. Current(s) \in Run
  BY CurrentType DEF AskPermission
<1>2. c \in ToolCallId
  BY <1>1 DEF AskPermission, Run
<1>3. Current(s).asks + 1 \in 0 .. MaxAsks
  <2>1. Current(s).asks \in 0 .. MaxAsks /\ Current(s).asks < MaxAsks
    BY <1>1 DEF AskPermission, Run
  <2> QED
    BY <2>1, Bounds
<1>4. runs' \in [Session -> Seq(Run)]
  BY <1>2, <1>3, SetToolType DEF AskPermission
<1>5. toolCallAgents' \subseteq Session \X ToolCallId
  BY DEF AskPermission, HostInv, OthersType
<1>6. pendingPermissions' \in [Session -> SUBSET ToolCallId]
  <2>1. \/ UNCHANGED pendingPermissions
        \/ pendingPermissions' = [pendingPermissions EXCEPT ![s] = @ \cup {c}]
    BY DEF AskPermission
  <2>2. pendingPermissions \in [Session -> SUBSET ToolCallId]
    BY DEF HostInv, OthersType
  <2>3. pendingPermissions[s] \cup {c} \in SUBSET ToolCallId
    BY <1>2, <2>2
  <2> QED
    BY <2>1, <2>2, <2>3
<1>7. SoundHost(host') /\ Tracks(host', turnOf)
  <2>1. CASE HasActiveTurn(host, s) /\ host' = Dispatch(host, s, a)
    <3>1. ActiveTurnId(host, s) \in TurnId
      BY <2>1, ActiveTurnIdType DEF HostInv, TurnsInv
    <3>2. a \in SessionAction /\ a.type # "turnStarted" /\ a.type \notin TurnEnd
      BY <1>2, <3>1 DEF SessionAction, TurnEnd
    <3> QED
      BY <2>1, <3>2, DispatchInv
  <2>2. CASE host' = host
    BY <2>2 DEF HostInv, TurnsInv
  <2> QED
    BY <2>1, <2>2 DEF AskPermission
<1> QED
  BY <1>4, <1>5, <1>6, <1>7 DEF AskPermission, HostInv, TurnsInv, OthersType, CallsOwned

LEMMA ToolCompleteInv ==
  ASSUME HostInv, NEW s \in Session, ToolComplete(s)
  PROVE  HostInv'
<1> DEFINE c == Current(s).tool
           a == [type |-> "toolCallComplete", turn |-> ActiveTurnId(host, s), tool |-> c,
                 needsResult |-> FALSE]
<1>1. Current(s) \in Run
  BY CurrentType DEF ToolComplete
<1>2. c \in ToolCallId
  BY <1>1 DEF ToolComplete, Run
<1>3. 0 \in 0 .. MaxAsks
  BY Bounds
<1>4. runs' \in [Session -> Seq(Run)]
  BY <1>3, SetToolType DEF ToolComplete
<1>5. SoundHost(host') /\ Tracks(host', turnOf)
  <2>1. CASE HasActiveTurn(host, s)
    <3>1. ActiveTurnId(host, s) \in TurnId
      BY <2>1, ActiveTurnIdType DEF HostInv, TurnsInv
    <3>2. a \in SessionAction /\ a.type # "turnStarted" /\ a.type \notin TurnEnd
      BY <1>2, <3>1 DEF SessionAction, TurnEnd
    <3>3. host' = Dispatch(host, s, a)
      BY <2>1 DEF ToolComplete
    <3> QED
      BY <3>2, <3>3, DispatchInv
  <2>2. CASE ~HasActiveTurn(host, s)
    BY <2>2 DEF ToolComplete, HostInv, TurnsInv
  <2> QED
    BY <2>1, <2>2
<1> QED
  BY <1>4, <1>5 DEF ToolComplete, HostInv, TurnsInv, OthersType, CallsOwned

LEMMA AgentIdleInv ==
  ASSUME HostInv, NEW s \in Session, AgentIdle(s)
  PROVE  HostInv'
<1> DEFINE h == EndActive(s, "turnComplete")
<1>1. SoundHost(h) /\ Tracks(h, turnOf)
  BY EndActiveInv
<1>2. TurnsInv(h)
  BY <1>1 DEF HostInv, TurnsInv
<1>3. TryConsumeNext(h, s)
  BY DEF AgentIdle
<1> HIDE DEF h
<1>4. TurnsInv(host)'
  BY <1>2, <1>3, TryConsumeNextInv
<1>5. runs' \in [Session -> Seq(Run)]
  BY CurrentType DEF AgentIdle
<1> QED
  BY <1>4, <1>5 DEF AgentIdle, HostInv, OthersType

LEMMA AgentErrorInv ==
  ASSUME HostInv, NEW s \in Session, AgentError(s)
  PROVE  HostInv'
<1>1. SoundHost(host') /\ Tracks(host', turnOf)
  BY EndActiveInv DEF AgentError
<1>2. runs' \in [Session -> Seq(Run)]
  BY CurrentType DEF AgentError
<1> QED
  BY <1>1, <1>2 DEF AgentError, HostInv, TurnsInv, OthersType, CallsOwned

-----------------------------------------------------------------------------
(* The theorems.                                                           *)

LEMMA InitInv == Init => HostInv
<1> SUFFICES ASSUME Init
             PROVE  HostInv
  OBVIOUS
<1>1. host \in HostState
  BY DEF Init, HostState
<1>2. \A s \in Session : host.sessions[s] = None
  BY DEF Init
<1>3. SoundHost(host) /\ Tracks(host, turnOf)
  BY <1>1, <1>2 DEF SoundHost, Tracks, HasActiveTurn
<1>4. calls \in [Session -> Seq(Call)] /\ \A s \in Session : calls[s] = <<>>
  BY DEF Init
<1>5. CallsOwned
  BY <1>4 DEF CallsOwned
<1>6. OthersType
  BY DEF Init, OthersType
<1>7. /\ mapper \in [Session -> [TextKind -> PartId \cup {None}]]
      /\ turnOf \in [TurnId -> Session \cup {None}]
  BY DEF Init, NoParts
<1> QED
  BY <1>3, <1>4, <1>5, <1>6, <1>7 DEF HostInv, TurnsInv

LEMMA NextInv == HostInv /\ [Next]_vars => HostInv'
<1> SUFFICES ASSUME HostInv, [Next]_vars
             PROVE  HostInv'
  OBVIOUS
<1>1. ASSUME NEW s \in Session, ClientStep(s)
      PROVE  HostInv'
  BY <1>1, CreateSessionInv, DisposeSessionInv, StartTurnInv, CancelTurnInv,
     ConfirmToolCallInv, ChangePendingInv DEF ClientStep
<1>2. ASSUME NEW s \in Session, AgentEvent(s)
      PROVE  HostInv'
  BY <1>2, AgentTextInv, ToolStartInv, AskPermissionInv, ToolCompleteInv,
     AgentIdleInv, AgentErrorInv DEF AgentEvent
<1>3. ASSUME NEW s \in Session, CallTaken(s)
      PROVE  HostInv'
  BY <1>3, SendAcceptedInv, SendFailedInv, AbortTakenInv, SteeringTakenInv,
     SteeringFailedInv DEF CallTaken
<1>4. CASE UNCHANGED vars
  BY <1>4 DEF vars, HostInv, TurnsInv, OthersType, CallsOwned
<1> QED
  BY <1>1, <1>2, <1>3, <1>4 DEF Next

LEMMA HostInvariant == Spec => []HostInv
BY InitInv, NextInv, PTL DEF Spec

\* Every variable of the agent host keeps its type, and with it every session
\* state: no order of client actions, agent events and late calls makes
\* sessionReducer produce a malformed session or history.
THEOREM HostTypeCorrect == Spec => []HostTypeOK
<1>1. HostInv => HostTypeOK
  BY DEF HostInv, TurnsInv, OthersType, SoundHost, HostTypeOK
<1> QED
  BY <1>1, HostInvariant, PTL

\* The turn a session shows as active is always tracked for that session by
\* SessionStateManager, whatever other turns end, fail or are disposed of.
THEOREM TrackingCorrect == Spec => []ActiveTurnsTracked
<1>1. HostInv => ActiveTurnsTracked
  BY DEF HostInv, TurnsInv, Tracks, ActiveTurnsTracked
<1> QED
  BY <1>1, HostInvariant, PTL

\* No queue of any session of the host ever holds two messages with one id, so
\* removing, replacing or starting a queued message means one message only.
THEOREM HostQueueIdsUnique ==
  Spec => [](\A s \in Session : host.sessions[s] # None => UniqueIds(host.sessions[s].queued))
<1>1. HostInv => \A s \in Session : host.sessions[s] # None => UniqueIds(host.sessions[s].queued)
  BY DEF HostInv, TurnsInv, SoundHost, Sound
<1> QED
  BY <1>1, HostInvariant, PTL

-----------------------------------------------------------------------------
(* The ends of turns, and the types of actions.                            *)

\* The turns of session s after action a: the active turn has moved to the history.
TurnEnded(s, a, r) ==
  /\ r.activeTurn = None
  /\ \E turn \in Turn : turn.id = a.turn /\ r.turns = Append(s.turns, turn)

\* The end of the active turn records it, the end of another turn does nothing.
LEMMA ReduceEnd ==
  ASSUME NEW s, Sound(s), NEW a \in SessionAction, a.type \in TurnEnd
  PROVE  /\ IsActive(s, a.turn) => TurnEnded(s, a, Reduce(s, a))
         /\ ~IsActive(s, a.turn) => Reduce(s, a) = s
         /\ SamePending(s, Reduce(s, a))
<1> DEFINE state == CASE a.type = "turnComplete" -> "complete"
                      [] a.type = "turnCancelled" -> "cancelled"
                      [] a.type = "error" -> "error"
           status == IF a.type = "error" THEN "error" ELSE "idle"
<1>1. Reduce(s, a) = EndTurn(s, a.turn, state, status)
  BY DEF Reduce, TurnEnd
<1>2. state \in {"complete", "cancelled", "error"} /\ status \in {"error", "idle"}
  BY DEF TurnEnd
<1> HIDE DEF state, status
<1>3. CASE ~IsActive(s, a.turn)
  BY <1>1, <1>3 DEF EndTurn, SamePending
<1>4. CASE IsActive(s, a.turn)
  <2> DEFINE act == s.activeTurn
             settled == [i \in DOMAIN act.parts |-> Settle(act.parts[i])]
             turn == [id |-> act.id, message |-> act.message, parts |-> settled,
                      usage |-> act.usage, state |-> state]
  <2>1. act # None /\ act.id = a.turn /\ s \in SessionState
    BY <1>4 DEF IsActive, Sound
  <2>2. act \in ActiveTurn
    BY <2>1 DEF SessionState
  <2>3. settled \in Seq(Part)
    BY <2>1, ActivePartsType, SettleType, MappedParts
  <2> HIDE DEF settled
  <2>4. turn \in Turn /\ turn.id = a.turn
    BY <1>2, <2>1, <2>2, <2>3 DEF Turn, ActiveTurn
  <2>5. EndTurn(s, a.turn, state, status) =
          [s EXCEPT !.turns = Append(@, turn), !.activeTurn = None, !.status = status]
    BY <1>4 DEF EndTurn, settled
  <2> HIDE DEF turn
  <2>6. /\ Reduce(s, a).turns = Append(s.turns, turn) /\ Reduce(s, a).activeTurn = None
        /\ Reduce(s, a).queued = s.queued /\ Reduce(s, a).steering = s.steering
    BY <1>1, <2>1, <2>5 DEF SessionState
  <2> QED
    BY <1>4, <2>4, <2>6 DEF TurnEnded, SamePending
<1> QED
  BY <1>3, <1>4

\* The types of actions, by what they change of a session.
LEMMA ActionTypes ==
  ASSUME NEW a \in SessionAction
  PROVE  a.type \in TurnEnd \cup {"turnStarted"} \cup TurnAction \cup PendingType \cup MetaAction
BY DEF SessionAction, TurnActionType, TurnEnd, TurnAction, PendingType, MetaAction

\* _applyAndEmit changes one session, by the reducer.
LEMMA DispatchSessions ==
  ASSUME NEW h, SoundHost(h), NEW s \in Session, NEW a
  PROVE  /\ Dispatch(h, s, a).sessions[s] = IF h.sessions[s] = None THEN None
                                            ELSE Reduce(h.sessions[s], a)
         /\ \A r \in Session \ {s} : Dispatch(h, s, a).sessions[r] = h.sessions[r]
         /\ h.sessions[s] # None => Sound(h.sessions[s])
<1>1. h.sessions \in [Session -> SessionState \cup {None}]
  BY DEF SoundHost, HostState
<1> QED
  BY <1>1 DEF Dispatch, SoundHost

-----------------------------------------------------------------------------
(* The actions as far as the host state and the mapper go.                 *)

\* One action of one of these types is applied to session s; one that ends a turn
\* names a turn of s.
Dispatches(s, types) ==
  \E a \in SessionAction :
    /\ a.type \in types
    /\ a.type \in TurnEnd => turnOf[a.turn] = s
    /\ host' = Dispatch(host, s, a)

LEMMA ClientDispatches ==
  ASSUME HostInv, NEW s \in Session
  PROVE  /\ CancelTurn(s) => Dispatches(s, {"turnCancelled"})
         /\ ConfirmToolCall(s) => Dispatches(s, {"toolCallConfirmed"})
<1>1. ASSUME CancelTurn(s)
      PROVE  Dispatches(s, {"turnCancelled"})
  <2>1. PICK t \in {u \in TurnId : turnOf[u] = s} :
          host' = Dispatch(host, s, [type |-> "turnCancelled", turn |-> t])
    BY <1>1 DEF CancelTurn
  <2>2. [type |-> "turnCancelled", turn |-> t] \in SessionAction
    BY DEF SessionAction, TurnActionType
  <2> QED
    BY <2>1, <2>2 DEF Dispatches
<1>2. ASSUME ConfirmToolCall(s)
      PROVE  Dispatches(s, {"toolCallConfirmed"})
  <2>1. PICK t \in {u \in TurnId : turnOf[u] = s}, c \in ToolCallId, ok \in BOOLEAN :
          host' = Dispatch(host, s, [type |-> "toolCallConfirmed", turn |-> t,
                                     tool |-> c, approved |-> ok])
    BY <1>2 DEF ConfirmToolCall
  <2> DEFINE a == [type |-> "toolCallConfirmed", turn |-> t, tool |-> c, approved |-> ok]
  <2>2. a \in SessionAction /\ a.type = "toolCallConfirmed"
    BY DEF SessionAction
  <2> QED
    BY <2>1, <2>2 DEF Dispatches, TurnEnd
<1> QED
  BY <1>1, <1>2

LEMMA CallDispatches ==
  ASSUME HostInv, NEW s \in Session
  PROVE  /\ SendFailed(s) => Dispatches(s, {"error"})
         /\ SteeringTaken(s) => Dispatches(s, {"pendingMessageRemoved"})
<1>1. ASSUME SendFailed(s)
      PROVE  Dispatches(s, {"error"})
  <2>1. PICK k \in DOMAIN calls[s] :
          host' = Dispatch(host, s, [type |-> "error", turn |-> calls[s][k].turn])
    BY <1>1 DEF SendFailed
  <2> DEFINE a == [type |-> "error", turn |-> calls[s][k].turn]
  <2>2. a \in SessionAction /\ a.type = "error" /\ turnOf[a.turn] = s
    BY CallTurn DEF SessionAction, TurnActionType
  <2> QED
    BY <2>1, <2>2 DEF Dispatches
<1>2. ASSUME SteeringTaken(s)
      PROVE  Dispatches(s, {"pendingMessageRemoved"})
  <2> DEFINE a == [type |-> "pendingMessageRemoved", kind |-> "steering",
                   id |-> Head(steers[s]).id]
  <2>1. steers[s] \in Seq(PendingMessage) /\ steers[s] # <<>>
    BY <1>2 DEF SteeringTaken, HostInv, OthersType
  <2>2. Head(steers[s]) \in PendingMessage
    BY <2>1, HeadTailProperties
  <2>3. a \in SessionAction /\ a.type = "pendingMessageRemoved" /\ a.type \notin TurnEnd
    BY <2>2 DEF PendingMessage, SessionAction, TurnEnd
  <2>4. host' = Dispatch(host, s, a)
    BY <1>2 DEF SteeringTaken
  <2> HIDE DEF a
  <2> QED
    BY <2>3, <2>4 DEF Dispatches
<1> QED
  BY <1>1, <1>2

\* The agent's events reach the active turn, or nothing.
LEMMA EventDispatches ==
  ASSUME HostInv, NEW s \in Session
  PROVE  /\ AskPermission(s) => host' = host \/ Dispatches(s, {"toolCallReady"})
         /\ ToolComplete(s) => host' = host \/ Dispatches(s, {"toolCallComplete"})
         /\ AgentError(s) => host' = host \/ Dispatches(s, {"error"})
<1> DEFINE t == ActiveTurnId(host, s)
           c == Current(s).tool
<1>1. HasActiveTurn(host, s) => t \in TurnId /\ turnOf[t] = s
  BY ActiveTurnIdType DEF HostInv, TurnsInv, Tracks
<1>2. Working(s) /\ c # None => c \in ToolCallId
  BY CurrentType DEF Run
<1> HIDE DEF t, c
<1>3. ASSUME AskPermission(s), host' # host
      PROVE  Dispatches(s, {"toolCallReady"})
  <2> DEFINE a == [type |-> "toolCallReady", turn |-> t, tool |-> c, confirmed |-> "none"]
  <2>1. HasActiveTurn(host, s) /\ host' = Dispatch(host, s, a)
    BY <1>3 DEF AskPermission, t, c
  <2>2. a \in SessionAction /\ a.type = "toolCallReady" /\ a.type \notin TurnEnd
    BY <1>1, <1>2, <1>3, <2>1 DEF AskPermission, SessionAction, TurnEnd, c
  <2> QED
    BY <2>1, <2>2 DEF Dispatches
<1>4. ASSUME ToolComplete(s), host' # host
      PROVE  Dispatches(s, {"toolCallComplete"})
  <2> DEFINE a == [type |-> "toolCallComplete", turn |-> t, tool |-> c, needsResult |-> FALSE]
  <2>1. HasActiveTurn(host, s) /\ host' = Dispatch(host, s, a)
    BY <1>4 DEF ToolComplete, t, c
  <2>2. a \in SessionAction /\ a.type = "toolCallComplete" /\ a.type \notin TurnEnd
    BY <1>1, <1>2, <1>4, <2>1 DEF ToolComplete, SessionAction, TurnEnd, c
  <2> QED
    BY <2>1, <2>2 DEF Dispatches
<1>5. ASSUME AgentError(s), host' # host
      PROVE  Dispatches(s, {"error"})
  <2> DEFINE a == [type |-> "error", turn |-> t]
  <2>1. HasActiveTurn(host, s) /\ host' = Dispatch(host, s, a)
    BY <1>5 DEF AgentError, EndActive, t
  <2>2. a \in SessionAction /\ a.type = "error" /\ turnOf[a.turn] = s
    BY <1>1, <2>1 DEF SessionAction, TurnActionType
  <2> QED
    BY <2>1, <2>2 DEF Dispatches
<1> QED
  BY <1>3, <1>4, <1>5

\* The end of a run completes the turn, if there is one.
LEMMA EndActiveIs ==
  ASSUME HostInv, NEW s \in Session
  PROVE  \/ EndActive(s, "turnComplete") = host /\ ~HasActiveTurn(host, s)
         \/ /\ HasActiveTurn(host, s)
            /\ \E a \in SessionAction :
                 /\ a.type = "turnComplete" /\ a.turn = ActiveTurnId(host, s)
                 /\ turnOf[a.turn] = s
                 /\ EndActive(s, "turnComplete") = Dispatch(host, s, a)
<1> DEFINE t == ActiveTurnId(host, s)
           a == [type |-> "turnComplete", turn |-> t]
<1>1. HasActiveTurn(host, s) => t \in TurnId /\ turnOf[t] = s
  BY ActiveTurnIdType DEF HostInv, TurnsInv, Tracks
<1>2. HasActiveTurn(host, s) => a \in SessionAction
  BY <1>1 DEF SessionAction, TurnActionType
<1> QED
  BY <1>1, <1>2 DEF EndActive

LEMMA PendingActionType ==
  ASSUME NEW s, NEW a \in PendingAction(s)
  PROVE  a \in SessionAction /\ a.type \in PendingType /\ a.type \notin TurnEnd \cup {"turnStarted"}
<1>1. CASE a \in [type : {"pendingMessageSet"}, kind : {"queued", "steering"},
                  id : MessageId, text : Text]
  BY <1>1 DEF SessionAction, TurnEnd, PendingType
<1>2. CASE a \in [type : {"pendingMessageRemoved"}, kind : {"queued", "steering"},
                  id : MessageId]
  BY <1>2 DEF SessionAction, TurnEnd, PendingType
<1>3. CASE a \in [type : {"queuedMessagesReordered"},
                  order : {<<>>} \cup {<<m>> : m \in MessageId}]
  <2>1. a.order \in Seq(MessageId)
    <3>1. a.order = <<>> \/ \E m \in MessageId : a.order = <<m>>
      BY <1>3, Zenon
    <3>2. \A m \in MessageId : <<m>> \in Seq(MessageId)
      OBVIOUS
    <3>3. <<>> \in Seq(MessageId)
      OBVIOUS
    <3> QED
      BY <3>1, <3>2, <3>3, Zenon
  <2>2. a = [type |-> "queuedMessagesReordered", order |-> a.order]
    BY <1>3
  <2>3. a \in [type : {"queuedMessagesReordered"}, order : Seq(MessageId)]
    BY <2>1, <2>2
  <2> QED
    BY <2>2, <2>3 DEF SessionAction, TurnEnd, PendingType
<1> QED
  BY <1>1, <1>2, <1>3 DEF PendingAction

\* The queue is looked at in a state h: a message starts its turn, or nothing does.
Consumes(h, s) ==
  /\ QueueReady(h, s)
  /\ \E t \in TurnId, text \in Text, q \in MessageId :
       turnOf[t] = None /\ Launch(h, s, t, text, q)

LEMMA TryConsumeNextIs ==
  ASSUME NEW h, SoundHost(h), NEW s \in Session, TryConsumeNext(h, s)
  PROVE  \/ Consumes(h, s)
         \/ ~QueueReady(h, s) /\ host' = h /\ UNCHANGED <<mapper, calls, turnOf>>
<1>1. CASE QueueReady(h, s)
  <2> DEFINE next == Head(h.sessions[s].queued)
  <2>1. h.sessions[s].queued \in Seq(PendingMessage) /\ h.sessions[s].queued # <<>>
    BY <1>1 DEF QueueReady, SoundHost, HostState, Sound, SessionState
  <2>2. next \in PendingMessage
    BY <2>1, HeadTailProperties
  <2>3. PICK t \in TurnId : NextTurn(t) /\ Launch(h, s, t, next.text, next.id)
    BY <1>1 DEF TryConsumeNext
  <2>4. next.text \in Text /\ next.id \in MessageId /\ turnOf[t] = None
    BY <2>2, <2>3 DEF PendingMessage, NextTurn, Fresh
  <2> QED
    BY <1>1, <2>3, <2>4 DEF Consumes
<1>2. CASE ~QueueReady(h, s)
  BY <1>2 DEF TryConsumeNext
<1> QED
  BY <1>1, <1>2

\* Creating and disposing of a session leave no active turn there, and the other
\* sessions as they were.
LEMMA ComesAndGoes ==
  ASSUME HostInv, NEW s \in Session
  PROVE  /\ CreateSession(s) =>
              /\ host'.sessions[s] # None /\ host'.sessions[s] = Reduce(NewSession, [type |-> "ready"])
              /\ host'.sessions[s].activeTurn = None /\ host'.sessions[s].turns = <<>>
              /\ host'.sessions[s].queued = <<>> /\ host'.sessions[s].steering = None
              /\ host'.tracked = host.tracked /\ host'.activeSessions = host.activeSessions
         /\ DisposeSession(s) => host'.sessions[s] = None
         /\ CreateSession(s) \/ DisposeSession(s) =>
              \A r \in Session \ {s} : host'.sessions[r] = host.sessions[r]
<1>1. /\ host \in HostState /\ host.sessions \in [Session -> SessionState \cup {None}]
      /\ SoundHost(host)
  BY DEF HostInv, TurnsInv, SoundHost, HostState
<1>2. ASSUME DisposeSession(s)
      PROVE  /\ host'.sessions[s] = None
             /\ \A r \in Session \ {s} : host'.sessions[r] = host.sessions[r]
  <2>1. host'.sessions = [host.sessions EXCEPT ![s] = None]
    BY <1>1, <1>2 DEF DisposeSession, WithoutSession, HostState
  <2> QED
    BY <1>1, <2>1
<1>3. ASSUME CreateSession(s)
      PROVE  /\ host'.sessions[s] # None /\ host'.sessions[s] = Reduce(NewSession, [type |-> "ready"])
             /\ host'.sessions[s].activeTurn = None /\ host'.sessions[s].turns = <<>>
             /\ host'.sessions[s].queued = <<>> /\ host'.sessions[s].steering = None
             /\ host'.tracked = host.tracked /\ host'.activeSessions = host.activeSessions
             /\ \A r \in Session \ {s} : host'.sessions[r] = host.sessions[r]
  <2> DEFINE h == [host EXCEPT !.sessions[s] = NewSession]
             a == [type |-> "ready"]
  <2>1. /\ h.sessions = [host.sessions EXCEPT ![s] = NewSession]
        /\ h.tracked = host.tracked /\ h.activeSessions = host.activeSessions
    BY <1>1 DEF HostState
  <2>2. a \in SessionAction /\ a.type \in MetaAction /\ a.type = "ready"
    BY DEF SessionAction, MetaAction
  <2>3. host' = Dispatch(h, s, a)
    BY <1>3 DEF CreateSession, WithNewSession
  <2>4. Sound(NewSession) /\ NewSession # None
    BY NewSessionSound, NoneIsNoValue DEF Sound
  <2> HIDE DEF h, a
  <2>5. h.sessions[s] = NewSession /\ \A r \in Session \ {s} : h.sessions[r] = host.sessions[r]
    BY <1>1, <2>1
  <2>6. /\ host'.sessions = [h.sessions EXCEPT ![s] = Reduce(NewSession, a)]
        /\ host'.tracked = h.tracked /\ host'.activeSessions = h.activeSessions
    BY <2>2, <2>3, <2>4, <2>5 DEF Dispatch, Tracked, TurnEnd
  <2>7. /\ host'.sessions[s] = Reduce(NewSession, a)
        /\ \A r \in Session \ {s} : host'.sessions[r] = host.sessions[r]
    BY <1>1, <2>1, <2>5, <2>6
  <2>8. /\ Reduce(NewSession, a).activeTurn = None /\ Reduce(NewSession, a).turns = <<>>
        /\ Reduce(NewSession, a).queued = <<>> /\ Reduce(NewSession, a).steering = None
    BY <2>2, <2>4, ReduceMeta DEF NewSession, SamePending
  <2>9. Reduce(NewSession, a) # None
    BY <2>2, <2>4, ReduceSound, NoneIsNoValue DEF Sound
  <2> QED
    BY <2>1, <2>6, <2>7, <2>8, <2>9 DEF a
<1> QED
  BY <1>2, <1>3

\* What AgentText does: it opens a part, or adds to the open one.
LEMMA AgentTextIs ==
  ASSUME HostInv, NEW s \in Session, AgentText(s)
  PROVE  \/ /\ Dispatches(s, {"delta", "reasoning"}) /\ UNCHANGED mapper
         \/ \E k \in TextKind, p \in PartId, c \in Chunk :
              LET a == [type |-> "responsePart", turn |-> ActiveTurnId(host, s),
                        part |-> [kind |-> k, id |-> p, content |-> <<c>>]]
              IN /\ a \in SessionAction
                 /\ mapper' = [mapper EXCEPT ![s][k] = p]
                 /\ host' = Dispatch(host, s, a)
<1>1. PICK e \in TextEvent, c \in Chunk :
        LET kind == IF e = "reasoning" THEN "reasoning" ELSE "markdown"
            t == ActiveTurnId(host, s)
            open == mapper[s][kind]
        IN \/ /\ open = None
              /\ \E p \in PartId \ UsedParts :
                   /\ mapper' = [mapper EXCEPT ![s][kind] = p]
                   /\ host' = Dispatch(host, s,
                        [type |-> "responsePart", turn |-> t,
                         part |-> [kind |-> kind, id |-> p, content |-> <<c>>]])
           \/ /\ open # None /\ e # "message"
              /\ host' = Dispatch(host, s, [type |-> e, turn |-> t, part |-> open,
                                            chunk |-> c])
              /\ UNCHANGED mapper
  BY DEF AgentText
<1> DEFINE kind == IF e = "reasoning" THEN "reasoning" ELSE "markdown"
           t == ActiveTurnId(host, s)
           open == mapper[s][kind]
<1>2. t \in TurnId
  BY ActiveTurnIdType DEF AgentText, HostInv, TurnsInv
<1>3. kind \in TextKind
  BY DEF TextKind
<1>4. open \in PartId \cup {None}
  BY <1>3 DEF HostInv, TurnsInv
<1>5. \/ \E p \in PartId : /\ mapper' = [mapper EXCEPT ![s][kind] = p]
                            /\ host' = Dispatch(host, s,
                                 [type |-> "responsePart", turn |-> t,
                                  part |-> [kind |-> kind, id |-> p, content |-> <<c>>]])
      \/ /\ open # None /\ e # "message"
         /\ host' = Dispatch(host, s, [type |-> e, turn |-> t, part |-> open,
                                       chunk |-> c])
         /\ UNCHANGED mapper
  BY <1>1
<1>6. ASSUME NEW p \in PartId
      PROVE  [type |-> "responsePart", turn |-> t,
              part |-> [kind |-> kind, id |-> p, content |-> <<c>>]] \in SessionAction
  <2>1. <<c>> \in Seq(Chunk)
    OBVIOUS
  <2> HIDE DEF kind, t
  <2>2. [kind |-> kind, id |-> p, content |-> <<c>>] \in TextPart
    BY <1>3, <2>1 DEF TextPart
  <2> QED
    BY <1>2, <2>2 DEF SessionAction
<1>7. e # "message" => e \in {"delta", "reasoning"}
  BY EnvironmentKinds
<1> HIDE DEF kind, open
<1>8. ASSUME open # None, e # "message"
      PROVE  LET a == [type |-> e, turn |-> t, part |-> open, chunk |-> c]
             IN a \in SessionAction /\ a.type \in {"delta", "reasoning"} /\ a.type \notin TurnEnd
  <2> HIDE DEF t
  <2> QED
    BY <1>2, <1>4, <1>7, <1>8 DEF SessionAction, TurnEnd
<1> QED
  BY <1>3, <1>5, <1>6, <1>8 DEF Dispatches

\* What ToolStart does to the state: nothing, or the call is started and made ready.
LEMMA ToolStartIs ==
  ASSUME HostInv, NEW s \in Session, NEW c \in ToolCallId, HasActiveTurn(host, s)
  PROVE  LET t == ActiveTurnId(host, s)
             start == [type |-> "toolCallStart", turn |-> t, tool |-> c]
             ready == [type |-> "toolCallReady", turn |-> t, tool |-> c,
                       confirmed |-> "notNeeded"]
         IN start \in SessionAction /\ ready \in SessionAction
<1>1. ActiveTurnId(host, s) \in TurnId
  BY ActiveTurnIdType DEF HostInv, TurnsInv
<1> QED
  BY <1>1 DEF SessionAction

\* The call is started and made ready at once, if there is a turn to show it in.
LEMMA ToolStartDispatches ==
  ASSUME HostInv, NEW s \in Session, ToolStart(s), host' # host
  PROVE  \E a, b \in SessionAction :
           /\ a.type = "toolCallStart" /\ b.type = "toolCallReady"
           /\ host' = Dispatch(Dispatch(host, s, a), s, b)
<1>1. PICK c \in ToolCallId :
        LET t == ActiveTurnId(host, s)
        IN /\ HasActiveTurn(host, s)
           /\ host' = Dispatch(
                Dispatch(host, s, [type |-> "toolCallStart", turn |-> t, tool |-> c]),
                s, [type |-> "toolCallReady", turn |-> t, tool |-> c,
                    confirmed |-> "notNeeded"])
  BY DEF ToolStart
<1> DEFINE t == ActiveTurnId(host, s)
           start == [type |-> "toolCallStart", turn |-> t, tool |-> c]
           ready == [type |-> "toolCallReady", turn |-> t, tool |-> c,
                     confirmed |-> "notNeeded"]
<1>2. start \in SessionAction /\ ready \in SessionAction
  BY <1>1, ToolStartIs
<1>3. start.type = "toolCallStart" /\ ready.type = "toolCallReady"
  OBVIOUS
<1>4. host' = Dispatch(Dispatch(host, s, start), s, ready)
  BY <1>1
<1> HIDE DEF start, ready
<1> QED
  BY <1>2, <1>3, <1>4

-----------------------------------------------------------------------------
(* The part the mapper sends text to.                                      *)

HasPart(st, k, p) ==
  \E i \in DOMAIN st.activeTurn.parts :
    st.activeTurn.parts[i].kind = k /\ st.activeTurn.parts[i].id = p

\* MapperPointsIntoActiveTurn for any host state and mapper.
MapperFits(h, m) ==
  \A s \in Session, k \in TextKind :
    HasActiveTurn(h, s) /\ m[s][k] # None => HasPart(h.sessions[s], k, m[s][k])

LEMMA PartAfterKeepsId ==
  ASSUME NEW part \in Part, NEW a
  PROVE  PartAfter(part, a).kind = part.kind /\ PartAfter(part, a).id = part.id
<1>1. CASE part \in ToolPart
  BY <1>1 DEF ToolPart, PartAfter, Ready, Confirmed, Completed, ResultConfirmed, ToolCall
<1>2. CASE part \in TextPart
  BY <1>2 DEF TextPart, TextKind, PartAfter, IsToolCall
<1> QED
  BY <1>1, <1>2 DEF Part

\* The parts a turn action leaves.
LEMMA PartsAfterProperties ==
  ASSUME NEW parts \in Seq(Part), NEW a \in SessionAction, a.type \in TurnAction
  PROVE  /\ a.type \in AddsPart =>
              /\ DOMAIN PartsAfter(parts, a) = DOMAIN parts \cup {Len(parts) + 1}
              /\ \A i \in DOMAIN parts : PartsAfter(parts, a)[i] = parts[i]
              /\ PartsAfter(parts, a)[Len(parts) + 1] = Added(a)
         /\ a.type \notin AddsPart =>
              /\ DOMAIN PartsAfter(parts, a) = DOMAIN parts
              /\ \A i \in DOMAIN parts : PartsAfter(parts, a)[i] = PartAfter(parts[i], a)
<1>1. CASE a.type \in AddsPart
  <2> DEFINE p == Added(a)
  <2>1. PartsAfter(parts, a) = Append(parts, p)
    BY <1>1 DEF PartsAfter
  <2>2. p \in Part
    BY <1>1, AddedType
  <2> HIDE DEF p
  <2>3. /\ Append(parts, p) \in Seq(Part) /\ Len(Append(parts, p)) = Len(parts) + 1
        /\ \A i \in 1 .. Len(parts) : Append(parts, p)[i] = parts[i]
        /\ Append(parts, p)[Len(parts) + 1] = p
    BY <2>2, AppendProperties
  <2>4. /\ Len(parts) \in Nat /\ DOMAIN parts = 1 .. Len(parts)
        /\ DOMAIN Append(parts, p) = 1 .. Len(Append(parts, p))
    BY <2>3, LenProperties
  <2>5. DOMAIN Append(parts, p) = DOMAIN parts \cup {Len(parts) + 1}
    BY <2>3, <2>4
  <2> QED
    BY <1>1, <2>1, <2>3, <2>4, <2>5 DEF p
<1>2. CASE a.type \notin AddsPart
  BY <1>2 DEF PartsAfter
<1> QED
  BY <1>1, <1>2

\* Whatever is done to a session whose turn stays active, its turn keeps its parts.
LEMMA ReduceKeepsParts ==
  ASSUME NEW st, Sound(st), NEW a \in SessionAction, a.type # "turnStarted",
         Reduce(st, a).activeTurn # None, NEW k, NEW p,
         st.activeTurn # None => HasPart(st, k, p)
  PROVE  st.activeTurn # None /\ HasPart(Reduce(st, a), k, p)
<1>1. CASE a.type \in TurnEnd
  <2>1. ~IsActive(st, a.turn)
    BY <1>1, ReduceEnd DEF TurnEnded
  <2> QED
    BY <1>1, <2>1, ReduceEnd
<1>2. CASE a.type \in TurnAction
  <2>1. st.activeTurn # None /\ HasPart(st, k, p)
    BY <1>2, ReduceParts DEF SameTurns
  <2>2. CASE ~IsActive(st, a.turn) \/ a.type = "usage"
    BY <1>2, <2>1, <2>2, ReduceParts DEF HasPart
  <2>3. CASE IsActive(st, a.turn) /\ a.type # "usage"
    <3> DEFINE parts == st.activeTurn.parts
    <3>1. parts \in Seq(Part) /\ \A i \in DOMAIN parts : parts[i] \in Part
      BY <2>1, ActivePartsType
    <3>2. Reduce(st, a).activeTurn.parts = PartsAfter(parts, a)
      BY <1>2, <2>3, ReduceParts
    <3>3. PICK i \in DOMAIN parts : parts[i].kind = k /\ parts[i].id = p
      BY <2>1 DEF HasPart
    <3> HIDE DEF parts
    <3>4. i \in DOMAIN PartsAfter(parts, a)
      BY <1>2, <3>1, PartsAfterProperties, ZenonT(40)
    <3>5. PartsAfter(parts, a)[i] = parts[i] \/ PartsAfter(parts, a)[i] = PartAfter(parts[i], a)
      BY <1>2, <3>1, PartsAfterProperties
    <3>6. PartsAfter(parts, a)[i].kind = k /\ PartsAfter(parts, a)[i].id = p
      BY <3>1, <3>3, <3>5, PartAfterKeepsId
    <3> QED
      BY <2>1, <3>2, <3>4, <3>6 DEF HasPart
  <2> QED
    BY <2>2, <2>3
<1>3. CASE a.type \in PendingType
  BY <1>3, ReducePending DEF HasPart
<1>4. CASE a.type \in MetaAction
  BY <1>4, ReduceMeta DEF HasPart
<1> QED
  BY <1>1, <1>2, <1>3, <1>4, ActionTypes

LEMMA DispatchFits ==
  ASSUME NEW h, SoundHost(h), NEW m, MapperFits(h, m),
         NEW s \in Session, NEW a \in SessionAction, a.type # "turnStarted"
  PROVE  MapperFits(Dispatch(h, s, a), m)
<1> DEFINE d == Dispatch(h, s, a)
<1> SUFFICES ASSUME NEW r \in Session, NEW k \in TextKind, HasActiveTurn(d, r), m[r][k] # None
             PROVE  HasPart(d.sessions[r], k, m[r][k])
  BY DEF MapperFits
<1>1. CASE r # s
  <2>1. d.sessions[r] = h.sessions[r]
    BY <1>1, DispatchSessions
  <2> QED
    BY <2>1 DEF MapperFits, HasActiveTurn
<1>2. CASE r = s
  <2>1. /\ h.sessions[s] # None /\ Sound(h.sessions[s])
        /\ d.sessions[s] = Reduce(h.sessions[s], a) /\ Reduce(h.sessions[s], a).activeTurn # None
    BY <1>2, DispatchSessions DEF HasActiveTurn
  <2>2. h.sessions[s].activeTurn # None => HasPart(h.sessions[s], k, m[s][k])
    BY <1>2, <2>1 DEF MapperFits, HasActiveTurn
  <2> QED
    BY <1>2, <2>1, <2>2, ReduceKeepsParts
<1> QED
  BY <1>1, <1>2

\* A start opens no part: the mapper forgets those of the turn before.
LEMMA LaunchFits ==
  ASSUME NEW h, TurnsInv(h), MapperFits(h, mapper), NEW s \in Session, NEW t \in TurnId,
         NEW text \in Text, NEW q \in MessageId \cup {None}, Launch(h, s, t, text, q)
  PROVE  MapperFits(host, mapper)'
<1> DEFINE a == [type |-> "turnStarted", turn |-> t, message |-> text, queuedId |-> q]
<1>1. host' = Dispatch(h, s, a) /\ mapper' = [mapper EXCEPT ![s] = NoParts] /\ SoundHost(h)
  BY DEF Launch, TurnsInv
<1> HIDE DEF a
<1> SUFFICES ASSUME NEW r \in Session, NEW k \in TextKind, HasActiveTurn(host', r),
                    mapper'[r][k] # None
             PROVE  HasPart(host'.sessions[r], k, mapper'[r][k])
  BY DEF MapperFits
<1>2. mapper \in [Session -> [TextKind -> PartId \cup {None}]]
  BY DEF TurnsInv
<1>3. r # s
  BY <1>1, <1>2 DEF NoParts
<1>4. mapper'[r] = mapper[r] /\ host'.sessions[r] = h.sessions[r]
  BY <1>1, <1>2, <1>3, DispatchSessions
<1> QED
  BY <1>4 DEF MapperFits, HasActiveTurn

LEMMA TryConsumeNextFits ==
  ASSUME NEW h, TurnsInv(h), MapperFits(h, mapper), NEW s \in Session, TryConsumeNext(h, s)
  PROVE  MapperFits(host, mapper)'
<1>1. CASE Consumes(h, s)
  BY <1>1, LaunchFits DEF Consumes
<1>2. CASE host' = h /\ UNCHANGED mapper
  BY <1>2
<1> QED
  BY <1>1, <1>2, TryConsumeNextIs DEF TurnsInv

LEMMA DispatchesFits ==
  ASSUME HostInv, MapperFits(host, mapper), NEW s \in Session, NEW types,
         "turnStarted" \notin types, Dispatches(s, types), UNCHANGED mapper
  PROVE  MapperFits(host, mapper)'
<1>1. PICK a \in SessionAction : a.type \in types /\ host' = Dispatch(host, s, a)
  BY DEF Dispatches
<1>2. a.type # "turnStarted" /\ SoundHost(host)
  BY <1>1 DEF HostInv, TurnsInv
<1>3. MapperFits(host', mapper)
  BY <1>1, <1>2, DispatchFits
<1> QED
  BY <1>3

LEMMA AgentTextFits ==
  ASSUME HostInv, MapperFits(host, mapper), NEW s \in Session, AgentText(s)
  PROVE  MapperFits(host, mapper)'
<1>1. CASE Dispatches(s, {"delta", "reasoning"}) /\ UNCHANGED mapper
  BY <1>1, DispatchesFits
<1>2. ASSUME NEW k \in TextKind, NEW p \in PartId, NEW c \in Chunk,
             NEW a, a = [type |-> "responsePart", turn |-> ActiveTurnId(host, s),
                         part |-> [kind |-> k, id |-> p, content |-> <<c>>]],
             a \in SessionAction,
             mapper' = [mapper EXCEPT ![s][k] = p], host' = Dispatch(host, s, a)
      PROVE  MapperFits(host, mapper)'
  <2> DEFINE st == host.sessions[s]
  <2>1. /\ a.type = "responsePart" /\ a.type \in TurnAction /\ a.type \in AddsPart
        /\ a.part.kind = k /\ a.part.id = p /\ Added(a) = a.part /\ a.turn = ActiveTurnId(host, s)
    BY <1>2 DEF TurnAction, AddsPart, Added
  <2>2. SoundHost(host) /\ mapper \in [Session -> [TextKind -> PartId \cup {None}]]
    BY DEF HostInv, TurnsInv
  <2>3. MapperFits(host', mapper)
    BY ONLY <1>2, <2>1, <2>2, MapperFits(host, mapper), DispatchFits
  <2>4. HasPart(host'.sessions[s], k, p)
    <3>1. HasActiveTurn(host, s) /\ Sound(st) /\ host'.sessions[s] = Reduce(st, a)
      BY <1>2, <2>2, DispatchSessions DEF AgentText, HasActiveTurn
    <3>2. st.activeTurn # None /\ IsActive(st, a.turn)
      BY <2>1, <3>1 DEF HasActiveTurn, ActiveTurnId, IsActive
    <3> DEFINE parts == st.activeTurn.parts
    <3>3. parts \in Seq(Part)
      BY <3>1, <3>2, ActivePartsType
    <3>4. Reduce(st, a).activeTurn.parts = PartsAfter(parts, a)
      BY ONLY <1>2, <2>1, <3>1, <3>2, ReduceParts
    <3> HIDE DEF parts
    <3>5. /\ Len(parts) + 1 \in DOMAIN PartsAfter(parts, a)
          /\ PartsAfter(parts, a)[Len(parts) + 1] = a.part
      BY ONLY <1>2, <2>1, <3>3, PartsAfterProperties, ZenonT(40)
    <3> QED
      BY <2>1, <3>1, <3>4, <3>5 DEF HasPart
  <2> SUFFICES ASSUME NEW r \in Session, NEW l \in TextKind, HasActiveTurn(host', r),
                      mapper'[r][l] # None
               PROVE  HasPart(host'.sessions[r], l, mapper'[r][l])
    BY DEF MapperFits
  <2>5. CASE r = s /\ l = k
    BY <1>2, <2>2, <2>4, <2>5
  <2>6. CASE ~(r = s /\ l = k)
    <3>1. mapper'[r][l] = mapper[r][l]
      BY <1>2, <2>2, <2>6
    <3> QED
      BY <2>3, <3>1 DEF MapperFits
  <2> QED
    BY <2>5, <2>6
<1> QED
  BY <1>1, <1>2, AgentTextIs, ZenonT(40)

LEMMA ToolStartFits ==
  ASSUME HostInv, MapperFits(host, mapper), NEW s \in Session, ToolStart(s)
  PROVE  MapperFits(host, mapper)'
<1>1. CASE UNCHANGED <<host, mapper>>
  BY <1>1
<1>2. CASE ~UNCHANGED <<host, mapper>>
  <2>1. PICK c \in ToolCallId :
          LET t == ActiveTurnId(host, s)
          IN /\ HasActiveTurn(host, s)
             /\ host' = Dispatch(
                  Dispatch(host, s, [type |-> "toolCallStart", turn |-> t, tool |-> c]),
                  s, [type |-> "toolCallReady", turn |-> t, tool |-> c,
                      confirmed |-> "notNeeded"])
             /\ mapper' = [mapper EXCEPT ![s]["markdown"] = None]
    BY <1>2 DEF ToolStart
  <2> DEFINE t == ActiveTurnId(host, s)
             start == [type |-> "toolCallStart", turn |-> t, tool |-> c]
             ready == [type |-> "toolCallReady", turn |-> t, tool |-> c,
                       confirmed |-> "notNeeded"]
             h == Dispatch(host, s, start)
  <2>2. /\ start \in SessionAction /\ start.type # "turnStarted"
        /\ ready \in SessionAction /\ ready.type # "turnStarted"
    BY <2>1, ToolStartIs
  <2>3. host' = Dispatch(h, s, ready)
    BY <2>1
  <2> HIDE DEF start, ready
  <2>4. SoundHost(host)
    BY DEF HostInv, TurnsInv
  <2>5. SoundHost(h) /\ MapperFits(h, mapper)
    BY <2>2, <2>4, DispatchSound, DispatchFits
  <2> HIDE DEF h
  <2>6. MapperFits(host', mapper)
    BY <2>2, <2>3, <2>5, DispatchFits
  <2>7. mapper \in [Session -> [TextKind -> PartId \cup {None}]]
    BY DEF HostInv, TurnsInv
  <2>8. \A r \in Session, k \in TextKind : mapper'[r][k] # None => mapper'[r][k] = mapper[r][k]
    BY <2>1, <2>7
  <2> QED
    BY <2>6, <2>8 DEF MapperFits
<1> QED
  BY <1>1, <1>2

LEMMA NextFits ==
  ASSUME HostInv, MapperFits(host, mapper), [Next]_vars
  PROVE  MapperFits(host, mapper)'
<1>1. ASSUME NEW s \in Session, CreateSession(s) \/ DisposeSession(s)
      PROVE  MapperFits(host, mapper)'
  <2>1. UNCHANGED mapper /\ \A r \in Session \ {s} : host'.sessions[r] = host.sessions[r]
    BY <1>1, ComesAndGoes DEF CreateSession, DisposeSession
  <2>2. ~HasActiveTurn(host', s)
    BY <1>1, ComesAndGoes DEF HasActiveTurn
  <2>3. ASSUME NEW r \in Session, NEW k \in TextKind, HasActiveTurn(host', r), mapper'[r][k] # None
        PROVE  HasPart(host'.sessions[r], k, mapper'[r][k])
    BY <2>1, <2>2, <2>3 DEF MapperFits, HasActiveTurn
  <2> QED
    BY <2>3 DEF MapperFits
<1>2. ASSUME NEW s \in Session, StartTurn(s)
      PROVE  MapperFits(host, mapper)'
  BY <1>2, LaunchFits DEF StartTurn, HostInv
<1>3. ASSUME NEW s \in Session, CancelTurn(s) \/ ConfirmToolCall(s)
      PROVE  MapperFits(host, mapper)'
  BY <1>3, ClientDispatches, DispatchesFits DEF CancelTurn, ConfirmToolCall
<1>4. ASSUME NEW s \in Session, ChangePending(s)
      PROVE  MapperFits(host, mapper)'
  <2>1. PICK a \in PendingAction(s) : TryConsumeNext(Dispatch(host, s, a), s)
    BY <1>4 DEF ChangePending
  <2> DEFINE h == Dispatch(host, s, a)
  <2>2. a \in SessionAction /\ a.type \notin TurnEnd \cup {"turnStarted"}
    BY PendingActionType
  <2>3. TurnsInv(h) /\ MapperFits(h, mapper)
    BY <2>2, DispatchInv, DispatchFits DEF HostInv, TurnsInv
  <2> HIDE DEF h
  <2> QED
    BY <2>1, <2>3, TryConsumeNextFits DEF h
<1>5. ASSUME NEW s \in Session, SendFailed(s) \/ SteeringTaken(s)
      PROVE  MapperFits(host, mapper)'
  BY <1>5, CallDispatches, DispatchesFits DEF SendFailed, SteeringTaken
<1>6. ASSUME NEW s \in Session, SendAccepted(s) \/ AbortTaken(s) \/ SteeringFailed(s)
      PROVE  MapperFits(host, mapper)'
  BY <1>6 DEF SendAccepted, AbortTaken, SteeringFailed
<1>7. ASSUME NEW s \in Session, AskPermission(s) \/ ToolComplete(s) \/ AgentError(s)
      PROVE  MapperFits(host, mapper)'
  <2>1. UNCHANGED mapper
    BY <1>7 DEF AskPermission, ToolComplete, AgentError
  <2>2. CASE host' = host
    BY <2>1, <2>2
  <2> QED
    BY <1>7, <2>1, <2>2, EventDispatches, DispatchesFits
<1>8. ASSUME NEW s \in Session, AgentIdle(s)
      PROVE  MapperFits(host, mapper)'
  <2> DEFINE h == EndActive(s, "turnComplete")
  <2>1. TryConsumeNext(h, s)
    BY <1>8 DEF AgentIdle
  <2>2. TurnsInv(h)
    BY EndActiveInv DEF HostInv, TurnsInv
  <2>3. MapperFits(h, mapper)
    BY EndActiveIs, DispatchFits DEF HostInv, TurnsInv
  <2> HIDE DEF h
  <2> QED
    BY <2>1, <2>2, <2>3, TryConsumeNextFits
<1>9. CASE UNCHANGED vars
  BY <1>9 DEF vars
<1> QED
  BY <1>1, <1>2, <1>3, <1>4, <1>5, <1>6, <1>7, <1>8, <1>9, AgentTextFits, ToolStartFits
  DEF Next, ClientStep, AgentEvent, CallTaken

\* Text is never sent to a part the active turn does not have, where the reducer
\* would drop it, whatever clients, user and agent do: also when a turn replaces
\* another one, is cancelled, or is the next of the queue.
THEOREM TextHasItsPart == Spec => []MapperPointsIntoActiveTurn
<1>1. Init => MapperFits(host, mapper)
  BY DEF Init, MapperFits, HasActiveTurn
<1>2. MapperFits(host, mapper) => MapperPointsIntoActiveTurn
  BY DEF MapperFits, HasPart, MapperPointsIntoActiveTurn, ActiveParts
<1>3. HostInv /\ MapperFits(host, mapper) /\ [Next]_vars => MapperFits(host, mapper)'
  BY NextFits
<1> QED
  BY <1>1, <1>2, <1>3, HostInvariant, PTL DEF Spec

-----------------------------------------------------------------------------
(* Pending messages.                                                       *)

\* The queue of one session waits behind its active turn.
Queues(st) == st # None /\ st.queued # <<>> => st.activeTurn # None

QueuesWait(h) == \A s \in Session : Queues(h.sessions[s])

\* Nothing but a pending message action adds to the queue, and the steering message
\* is changed by nothing else, except that a start may remove it.
LEMMA ReduceQueue ==
  ASSUME NEW st, Sound(st), NEW a \in SessionAction
  PROVE  /\ a.type \notin PendingType \cup {"turnStarted"} => Reduce(st, a).queued = st.queued
         /\ a.type \notin PendingType /\ Reduce(st, a).steering # None =>
              Reduce(st, a).steering = st.steering
         /\ a.type \notin TurnEnd /\ st.activeTurn # None => Reduce(st, a).activeTurn # None
         /\ Reduce(st, a) # None
<1>0. Reduce(st, a) # None
  BY ReduceSound, NoneIsNoValue DEF Sound
<1>1. CASE a.type \in TurnEnd
  BY <1>0, <1>1, ReduceEnd DEF SamePending, TurnEnd, PendingType
<1>2. CASE a.type = "turnStarted"
  BY <1>0, <1>2, ReduceStart
<1>3. CASE a.type \in TurnAction
  BY <1>0, <1>3, ReduceParts DEF SamePending, SameTurns
<1>4. CASE a.type \in PendingType
  BY <1>0, <1>4, ReducePending
<1>5. CASE a.type \in MetaAction
  BY <1>0, <1>5, ReduceMeta DEF SamePending
<1> QED
  BY <1>1, <1>2, <1>3, <1>4, <1>5, ActionTypes

LEMMA DispatchQueuesWait ==
  ASSUME NEW h, SoundHost(h), QueuesWait(h), NEW s \in Session, NEW a \in SessionAction
  PROVE  /\ a.type \notin PendingType \cup TurnEnd => QueuesWait(Dispatch(h, s, a))
         /\ \A r \in Session \ {s} : Queues(Dispatch(h, s, a).sessions[r])
<1> DEFINE d == Dispatch(h, s, a)
<1>1. \A r \in Session \ {s} : Queues(d.sessions[r])
  BY DispatchSessions DEF QueuesWait
<1>2. ASSUME a.type \notin PendingType \cup TurnEnd
      PROVE  Queues(d.sessions[s])
  <2>1. CASE h.sessions[s] = None
    BY <2>1, DispatchSessions DEF Queues
  <2>2. CASE h.sessions[s] # None
    <3>1. d.sessions[s] = Reduce(h.sessions[s], a) /\ Sound(h.sessions[s])
      BY <2>2, DispatchSessions
    <3>2. CASE a.type = "turnStarted"
      BY <3>1, <3>2, ReduceStart DEF Queues
    <3>3. CASE a.type # "turnStarted"
      BY <1>2, <2>2, <3>1, <3>3, ReduceQueue DEF Queues, QueuesWait
    <3> QED
      BY <3>2, <3>3
  <2> QED
    BY <2>1, <2>2
<1> QED
  BY <1>1, <1>2 DEF QueuesWait

\* After the queue has been looked at, it waits.
LEMMA TryConsumeNextQueuesWait ==
  ASSUME NEW h, SoundHost(h), NEW s \in Session, \A r \in Session \ {s} : Queues(h.sessions[r]),
         TryConsumeNext(h, s)
  PROVE  QueuesWait(host')
<1>1. CASE ~QueueReady(h, s) /\ host' = h
  BY <1>1 DEF QueueReady, QueuesWait, Queues
<1>2. CASE Consumes(h, s)
  <2>1. PICK t \in TurnId, text \in Text, q \in MessageId : Launch(h, s, t, text, q)
    BY <1>2 DEF Consumes
  <2> DEFINE a == [type |-> "turnStarted", turn |-> t, message |-> text, queuedId |-> q]
  <2>2. a \in SessionAction /\ a.type = "turnStarted" /\ host' = Dispatch(h, s, a)
    BY <2>1 DEF Launch, SessionAction
  <2> HIDE DEF a
  <2>3. host'.sessions[s] = Reduce(h.sessions[s], a) /\ Sound(h.sessions[s])
        /\ \A r \in Session \ {s} : host'.sessions[r] = h.sessions[r]
    BY <1>2, <2>2, DispatchSessions DEF Consumes, QueueReady
  <2>4. host'.sessions[s].activeTurn # None
    BY <2>2, <2>3, ReduceStart
  <2> QED
    BY <2>3, <2>4 DEF QueuesWait, Queues
<1> QED
  BY <1>1, <1>2, TryConsumeNextIs

LEMMA NextQueuesWait ==
  ASSUME "fail" \notin Environment, "cancel" \notin Environment,
         HostInv, QueuesWait(host), [Next]_vars
  PROVE  QueuesWait(host')
<1>0. SoundHost(host)
  BY DEF HostInv, TurnsInv
<1>1. ASSUME NEW s \in Session, CreateSession(s) \/ DisposeSession(s)
      PROVE  QueuesWait(host')
  <2>1. Queues(host'.sessions[s])
    BY <1>1, ComesAndGoes DEF Queues
  <2> QED
    BY <1>1, <2>1, ComesAndGoes DEF QueuesWait
<1>2. ASSUME NEW s \in Session, StartTurn(s)
      PROVE  QueuesWait(host')
  <2>1. PICK t \in TurnId, m \in Text : Launch(host, s, t, m, None)
    BY <1>2 DEF StartTurn
  <2> DEFINE a == [type |-> "turnStarted", turn |-> t, message |-> m, queuedId |-> None]
  <2>2. a \in SessionAction /\ a.type \notin PendingType \cup TurnEnd /\ host' = Dispatch(host, s, a)
    BY <2>1 DEF Launch, SessionAction, PendingType, TurnEnd
  <2> HIDE DEF a
  <2> QED
    BY <1>0, <2>2, DispatchQueuesWait
<1>3. ASSUME NEW s \in Session, NEW types, types \cap (PendingType \cup TurnEnd) = {},
             Dispatches(s, types)
      PROVE  QueuesWait(host')
  BY <1>0, <1>3, DispatchQueuesWait DEF Dispatches
<1>4. ASSUME NEW s \in Session, ConfirmToolCall(s)
      PROVE  QueuesWait(host')
  BY <1>3, <1>4, ClientDispatches DEF PendingType, TurnEnd
<1>5. ASSUME NEW s \in Session, ChangePending(s)
      PROVE  QueuesWait(host')
  <2>1. PICK a \in PendingAction(s) : TryConsumeNext(Dispatch(host, s, a), s)
    BY <1>5 DEF ChangePending
  <2> DEFINE h == Dispatch(host, s, a)
  <2>2. a \in SessionAction
    BY PendingActionType
  <2>3. SoundHost(h) /\ \A r \in Session \ {s} : Queues(h.sessions[r])
    BY <1>0, <2>2, DispatchSound, DispatchQueuesWait
  <2> HIDE DEF h
  <2> QED
    BY <2>1, <2>3, TryConsumeNextQueuesWait DEF h
<1>6. ASSUME NEW s \in Session, SteeringTaken(s)
      PROVE  QueuesWait(host')
  <2> DEFINE st == host.sessions[s]
             a == [type |-> "pendingMessageRemoved", kind |-> "steering",
                   id |-> Head(steers[s]).id]
  <2>1. host' = Dispatch(host, s, a)
    BY <1>6 DEF SteeringTaken
  <2>2. st # None => Reduce(st, a).queued = st.queued /\ Reduce(st, a).activeTurn = st.activeTurn
    <3>1. st # None => st \in SessionState
      BY <1>0 DEF SoundHost, Sound
    <3> QED
      BY <3>1 DEF Reduce, PendingMessageRemoved, SessionState
  <2> HIDE DEF a
  <2>3. /\ host'.sessions[s] = IF st = None THEN None ELSE Reduce(st, a)
        /\ \A r \in Session \ {s} : host'.sessions[r] = host.sessions[r]
    BY <1>0, <2>1, DispatchSessions
  <2> QED
    BY <2>2, <2>3 DEF QueuesWait, Queues
<1>7. ASSUME NEW s \in Session, AskPermission(s) \/ ToolComplete(s)
      PROVE  QueuesWait(host')
  BY <1>3, <1>7, EventDispatches DEF PendingType, TurnEnd
<1>8. ASSUME NEW s \in Session, SendAccepted(s) \/ AbortTaken(s)
      PROVE  QueuesWait(host')
  BY <1>8 DEF SendAccepted, AbortTaken
<1>9. ASSUME NEW s \in Session, AgentIdle(s)
      PROVE  QueuesWait(host')
  <2> DEFINE h == EndActive(s, "turnComplete")
  <2>1. TryConsumeNext(h, s)
    BY <1>9 DEF AgentIdle
  <2>2. SoundHost(h)
    BY EndActiveInv
  <2>3. \A r \in Session \ {s} : Queues(h.sessions[r])
    <3>1. CASE h = host
      BY <3>1 DEF QueuesWait
    <3>2. CASE h # host
      <4>1. PICK a \in SessionAction : h = Dispatch(host, s, a)
        BY <3>2, EndActiveIs
      <4> QED
        BY <1>0, <4>1, DispatchQueuesWait
    <3> QED
      BY <3>1, <3>2
  <2> HIDE DEF h
  <2> QED
    BY <2>1, <2>2, <2>3, TryConsumeNextQueuesWait
<1>10. ASSUME NEW s \in Session, AgentText(s)
       PROVE  QueuesWait(host')
  <2>1. PICK a \in SessionAction : a.type \notin PendingType \cup TurnEnd /\ host' = Dispatch(host, s, a)
    BY <1>10, AgentTextIs DEF Dispatches, PendingType, TurnEnd
  <2> QED
    BY <1>0, <2>1, DispatchQueuesWait
<1>11. ASSUME NEW s \in Session, ToolStart(s)
       PROVE  QueuesWait(host')
  <2>1. CASE host' = host
    BY <2>1
  <2>2. CASE host' # host
    <3>1. PICK a, b \in SessionAction :
            /\ a.type = "toolCallStart" /\ b.type = "toolCallReady"
            /\ host' = Dispatch(Dispatch(host, s, a), s, b)
      BY <1>11, <2>2, ToolStartDispatches
    <3> DEFINE h == Dispatch(host, s, a)
    <3>2. SoundHost(h) /\ QueuesWait(h)
      BY <1>0, <3>1, DispatchSound, DispatchQueuesWait DEF PendingType, TurnEnd
    <3>3. host' = Dispatch(h, s, b)
      BY <3>1
    <3> HIDE DEF h
    <3> QED
      BY <3>1, <3>2, <3>3, DispatchQueuesWait DEF PendingType, TurnEnd
  <2> QED
    BY <2>1, <2>2
<1>12. CASE UNCHANGED vars
  BY <1>12 DEF vars
<1>13. ~ \E s \in Session : CancelTurn(s) \/ SendFailed(s) \/ SteeringFailed(s) \/ AgentError(s)
  BY DEF CancelTurn, SendFailed, SteeringFailed, AgentError
<1> QED
  BY <1>1, <1>2, <1>4, <1>5, <1>6, <1>7, <1>8, <1>9, <1>10, <1>11, <1>12, <1>13
  DEF Next, ClientStep, AgentEvent, CallTaken

\* Unless turns fail or are cancelled, a queued message never waits in a session
\* without an active turn: whenever the queue could move on, the code that made it
\* possible looks at the queue in the same step.
THEOREM QueueAlwaysWaitsBehindATurn ==
  ASSUME "fail" \notin Environment, "cancel" \notin Environment
  PROVE  Spec => []QueueWaitsBehindATurn
<1>1. Init => QueuesWait(host)
  BY DEF Init, QueuesWait, Queues
<1>2. QueuesWait(host) => QueueWaitsBehindATurn
  BY DEF QueuesWait, Queues, QueueWaitsBehindATurn, Live, HasActiveTurn
<1>3. HostInv /\ QueuesWait(host) /\ [Next]_vars => QueuesWait(host')
  BY NextQueuesWait
<1>4. HostInv /\ QueuesWait(host) /\ [Next]_vars => QueuesWait(host)'
  BY <1>3
<1> QED
  BY <1>1, <1>2, <1>4, HostInvariant, PTL DEF Spec

-----------------------------------------------------------------------------
(* Steering.                                                               *)

\* The steering message of a session is among those on their way.
Steered(st, sent) ==
  st # None /\ st.steering # None => \E i \in DOMAIN sent : sent[i] = st.steering

SteeringsSent(h, sent) == \A s \in Session : Steered(h.sessions[s], sent[s])

LEMMA DispatchSteered ==
  ASSUME NEW h, SoundHost(h), NEW sent, SteeringsSent(h, sent),
         NEW s \in Session, NEW a \in SessionAction, a.type \notin PendingType
  PROVE  SteeringsSent(Dispatch(h, s, a), sent)
<1>1. \A r \in Session \ {s} : Steered(Dispatch(h, s, a).sessions[r], sent[r])
  BY DispatchSessions DEF SteeringsSent
<1>2. CASE h.sessions[s] = None
  <2>1. Dispatch(h, s, a).sessions[s] = None
    BY <1>2, DispatchSessions
  <2> QED
    BY <1>1, <2>1 DEF SteeringsSent, Steered
<1>3. CASE h.sessions[s] # None
  <2>1. Dispatch(h, s, a).sessions[s] = Reduce(h.sessions[s], a) /\ Sound(h.sessions[s])
    BY <1>3, DispatchSessions
  <2>2. Reduce(h.sessions[s], a).steering # None =>
          Reduce(h.sessions[s], a).steering = h.sessions[s].steering
    BY <2>1, ReduceQueue
  <2>3. Steered(h.sessions[s], sent[s])
    BY DEF SteeringsSent
  <2>4. Steered(Dispatch(h, s, a).sessions[s], sent[s])
    BY <1>3, <2>1, <2>2, <2>3 DEF Steered
  <2> QED
    BY <1>1, <2>4 DEF SteeringsSent
<1> QED
  BY <1>2, <1>3

LEMMA LaunchSteered ==
  ASSUME NEW h, SoundHost(h), NEW sent, SteeringsSent(h, sent), NEW s \in Session,
         NEW t \in TurnId, NEW text \in Text, NEW q \in MessageId \cup {None},
         Launch(h, s, t, text, q)
  PROVE  SteeringsSent(host', sent)
<1> DEFINE a == [type |-> "turnStarted", turn |-> t, message |-> text, queuedId |-> q]
<1>1. a \in SessionAction /\ a.type \notin PendingType /\ host' = Dispatch(h, s, a)
  BY DEF Launch, SessionAction, PendingType
<1> HIDE DEF a
<1> QED
  BY <1>1, DispatchSteered

LEMMA TryConsumeNextSteered ==
  ASSUME NEW h, SoundHost(h), NEW sent, SteeringsSent(h, sent), NEW s \in Session,
         TryConsumeNext(h, s)
  PROVE  SteeringsSent(host', sent)
BY TryConsumeNextIs, LaunchSteered DEF Consumes

\* A pending message action is followed by sending the steering message there is.
LEMMA ChangePendingSteered ==
  ASSUME HostInv, SteeringsSent(host, steers), NEW s \in Session, ChangePending(s)
  PROVE  SteeringsSent(host', steers')
<1>1. PICK a \in PendingAction(s) :
        LET h == Dispatch(host, s, a)
            steering == h.sessions[s].steering
        IN /\ steers' = IF steering = None THEN steers
                        ELSE [steers EXCEPT ![s] = Append(@, steering)]
           /\ TryConsumeNext(h, s)
  BY DEF ChangePending
<1> DEFINE h == Dispatch(host, s, a)
           steering == h.sessions[s].steering
<1>2. a \in SessionAction /\ SoundHost(host) /\ host.sessions[s] # None
  BY PendingActionType DEF HostInv, TurnsInv, ChangePending
<1>3. SoundHost(h)
  BY <1>2, DispatchSound
<1>4. \A r \in Session \ {s} : h.sessions[r] = host.sessions[r]
  BY <1>2, DispatchSessions
<1>5. h.sessions[s] # None
  BY <1>2, DispatchSessions, ReduceSound, NoneIsNoValue DEF Sound
<1>6. steering # None => steering \in PendingMessage
  BY <1>3, <1>5 DEF SoundHost, Sound, SessionState
<1>7. steers \in [Session -> Seq(PendingMessage)]
  BY DEF HostInv, OthersType
<1> SUFFICES SteeringsSent(host', steers')
  OBVIOUS
<1>8. steers' = IF steering = None THEN steers ELSE [steers EXCEPT ![s] = Append(@, steering)]
  BY <1>1
<1>9. TryConsumeNext(h, s)
  BY <1>1
<1> HIDE DEF h
<1>10. Steered(h.sessions[s], steers'[s])
  <2>1. CASE steering = None
    BY <2>1 DEF Steered
  <2>2. CASE steering # None
    <3> DEFINE sent == Append(steers[s], steering)
    <3>1. sent \in Seq(PendingMessage) /\ Len(sent) = Len(steers[s]) + 1
          /\ sent[Len(steers[s]) + 1] = steering
      BY <1>6, <1>7, <2>2, AppendProperties
    <3>2. Len(steers[s]) \in Nat /\ DOMAIN sent = 1 .. Len(sent)
      BY <1>7, <3>1, LenProperties
    <3>3. steers'[s] = sent
      BY <1>7, <1>8, <2>2
    <3> HIDE DEF sent
    <3>4. Len(steers[s]) + 1 \in DOMAIN sent
      BY <3>1, <3>2
    <3> QED
      BY <3>1, <3>3, <3>4 DEF Steered
  <2> QED
    BY <2>1, <2>2
<1>11. \A r \in Session \ {s} : Steered(h.sessions[r], steers'[r])
  BY <1>4, <1>7, <1>8 DEF SteeringsSent
<1>12. SteeringsSent(h, steers')
  BY <1>10, <1>11 DEF SteeringsSent
<1> QED
  BY <1>3, <1>9, <1>12, TryConsumeNextSteered

\* The message the agent has taken is removed by its id; a later one stays on its way.
LEMMA SteeringTakenSteered ==
  ASSUME HostInv, SteeringsSent(host, steers), NEW s \in Session, SteeringTaken(s)
  PROVE  SteeringsSent(host', steers')
<1> DEFINE st == host.sessions[s]
           a == [type |-> "pendingMessageRemoved", kind |-> "steering",
                 id |-> Head(steers[s]).id]
<1>1. SoundHost(host) /\ steers \in [Session -> Seq(PendingMessage)]
  BY DEF HostInv, TurnsInv, OthersType
<1>2. host' = Dispatch(host, s, a) /\ steers' = [steers EXCEPT ![s] = Tail(@)] /\ steers[s] # <<>>
  BY DEF SteeringTaken
<1>3. /\ host'.sessions[s] = IF st = None THEN None ELSE Reduce(st, a)
      /\ \A r \in Session \ {s} : host'.sessions[r] = host.sessions[r]
      /\ st # None => Sound(st)
  BY <1>1, <1>2, DispatchSessions
<1>4. ASSUME st # None, Reduce(st, a).steering # None
      PROVE  st.steering = Reduce(st, a).steering /\ st.steering.id # Head(steers[s]).id
  <2>1. st \in SessionState
    BY <1>3, <1>4 DEF Sound
  <2>2. Reduce(st, a) = IF st.steering # None /\ st.steering.id = Head(steers[s]).id
                        THEN [st EXCEPT !.steering = None] ELSE st
    BY DEF Reduce, PendingMessageRemoved
  <2> HIDE DEF a
  <2> QED
    BY <1>4, <2>1, <2>2 DEF SessionState
<1>5. /\ Tail(steers[s]) \in Seq(PendingMessage) /\ Len(Tail(steers[s])) = Len(steers[s]) - 1
      /\ \A i \in 1 .. Len(Tail(steers[s])) : Tail(steers[s])[i] = steers[s][i + 1]
  BY <1>1, <1>2, HeadTailProperties
<1>6. steers'[s] = Tail(steers[s]) /\ \A r \in Session \ {s} : steers'[r] = steers[r]
  BY <1>1, <1>2
<1> HIDE DEF a
<1>7. Steered(host'.sessions[s], steers'[s])
  <2> SUFFICES ASSUME st # None, Reduce(st, a).steering # None
               PROVE  \E i \in DOMAIN steers'[s] : steers'[s][i] = Reduce(st, a).steering
    BY <1>3 DEF Steered
  <2>1. PICK i \in DOMAIN steers[s] : steers[s][i] = st.steering
    BY <1>4 DEF SteeringsSent, Steered
  <2>2. steers[s][i].id # Head(steers[s]).id
    BY <1>4, <2>1
  <2>3. Head(steers[s]) = steers[s][1]
    OBVIOUS
  <2>4. /\ Len(steers[s]) \in Nat /\ DOMAIN steers[s] = 1 .. Len(steers[s])
        /\ DOMAIN Tail(steers[s]) = 1 .. Len(Tail(steers[s]))
    BY <1>1, <1>5, LenProperties
  <2>5. i # 1 /\ i - 1 \in 1 .. Len(Tail(steers[s])) /\ (i - 1) + 1 = i
    BY <1>5, <2>2, <2>3, <2>4
  <2>6. Tail(steers[s])[i - 1] = steers[s][i]
    BY <1>5, <2>5
  <2> QED
    BY <1>4, <1>6, <2>1, <2>4, <2>5, <2>6
<1> QED
  BY <1>3, <1>6, <1>7 DEF SteeringsSent

LEMMA NextSteered ==
  ASSUME "fail" \notin Environment, HostInv, SteeringsSent(host, steers), [Next]_vars
  PROVE  SteeringsSent(host', steers')
<1>0. SoundHost(host)
  BY DEF HostInv, TurnsInv
<1>1. ASSUME NEW s \in Session, CreateSession(s) \/ DisposeSession(s)
      PROVE  SteeringsSent(host', steers')
  <2>1. Steered(host'.sessions[s], steers'[s])
    BY <1>1, ComesAndGoes DEF Steered
  <2>2. UNCHANGED steers
    BY <1>1 DEF CreateSession, DisposeSession
  <2> QED
    BY <1>1, <2>1, <2>2, ComesAndGoes DEF SteeringsSent
<1>2. ASSUME NEW s \in Session, StartTurn(s)
      PROVE  SteeringsSent(host', steers')
  BY <1>0, <1>2, LaunchSteered DEF StartTurn
<1>3. ASSUME NEW s \in Session, NEW types, types \cap PendingType = {}, Dispatches(s, types),
             UNCHANGED steers
      PROVE  SteeringsSent(host', steers')
  BY <1>0, <1>3, DispatchSteered DEF Dispatches
<1>4. ASSUME NEW s \in Session, CancelTurn(s) \/ ConfirmToolCall(s)
      PROVE  SteeringsSent(host', steers')
  BY <1>3, <1>4, ClientDispatches DEF PendingType, CancelTurn, ConfirmToolCall
<1>5. ASSUME NEW s \in Session, AskPermission(s) \/ ToolComplete(s)
      PROVE  SteeringsSent(host', steers')
  BY <1>3, <1>5, EventDispatches DEF PendingType, AskPermission, ToolComplete
<1>6. ASSUME NEW s \in Session, SendAccepted(s) \/ AbortTaken(s)
      PROVE  SteeringsSent(host', steers')
  BY <1>6 DEF SendAccepted, AbortTaken
<1>7. ASSUME NEW s \in Session, AgentIdle(s)
      PROVE  SteeringsSent(host', steers')
  <2> DEFINE h == EndActive(s, "turnComplete")
  <2>1. TryConsumeNext(h, s) /\ UNCHANGED steers
    BY <1>7 DEF AgentIdle
  <2>2. SoundHost(h)
    BY EndActiveInv
  <2>3. SteeringsSent(h, steers)
    BY <1>0, EndActiveIs, DispatchSteered DEF PendingType
  <2> HIDE DEF h
  <2> QED
    BY <2>1, <2>2, <2>3, TryConsumeNextSteered
<1>8. ASSUME NEW s \in Session, AgentText(s)
      PROVE  SteeringsSent(host', steers')
  <2>1. PICK a \in SessionAction : a.type \notin PendingType /\ host' = Dispatch(host, s, a)
    BY <1>8, AgentTextIs DEF Dispatches, PendingType
  <2>2. UNCHANGED steers
    BY <1>8 DEF AgentText
  <2> QED
    BY <1>0, <2>1, <2>2, DispatchSteered
<1>9. ASSUME NEW s \in Session, ToolStart(s)
      PROVE  SteeringsSent(host', steers')
  <2>0. UNCHANGED steers
    BY <1>9 DEF ToolStart
  <2>1. CASE host' = host
    BY <2>0, <2>1
  <2>2. CASE host' # host
    <3>1. PICK a, b \in SessionAction :
            /\ a.type \notin PendingType /\ b.type \notin PendingType
            /\ host' = Dispatch(Dispatch(host, s, a), s, b)
      BY <1>9, <2>2, ToolStartDispatches DEF PendingType
    <3> DEFINE h == Dispatch(host, s, a)
    <3>2. SoundHost(h) /\ SteeringsSent(h, steers)
      BY <1>0, <3>1, DispatchSound, DispatchSteered
    <3>3. host' = Dispatch(h, s, b)
      BY <3>1
    <3> HIDE DEF h
    <3> QED
      BY <2>0, <3>1, <3>2, <3>3, DispatchSteered
  <2> QED
    BY <2>1, <2>2
<1>10. CASE UNCHANGED vars
  BY <1>10 DEF vars
<1>11. ~ \E s \in Session : SendFailed(s) \/ SteeringFailed(s) \/ AgentError(s)
  BY DEF SendFailed, SteeringFailed, AgentError
<1> QED
  BY <1>1, <1>2, <1>4, <1>5, <1>6, <1>7, <1>8, <1>9, <1>10, <1>11,
     ChangePendingSteered, SteeringTakenSteered
  DEF Next, ClientStep, AgentEvent, CallTaken

\* Unless the agent fails, a steering message that clients see as pending is on its
\* way to the agent: replacing it while another one is being taken does not lose it,
\* because the one taken is removed by its id.
THEOREM SteeringStaysOnItsWay ==
  ASSUME "fail" \notin Environment
  PROVE  Spec => []SteeringIsOnItsWay
<1>1. Init => SteeringsSent(host, steers)
  BY DEF Init, SteeringsSent, Steered
<1>2. SteeringsSent(host, steers) => SteeringIsOnItsWay
  BY DEF SteeringsSent, Steered, SteeringIsOnItsWay, Live
<1>3. HostInv /\ SteeringsSent(host, steers) /\ [Next]_vars => SteeringsSent(host, steers)'
  <2>1. HostInv /\ SteeringsSent(host, steers) /\ [Next]_vars => SteeringsSent(host', steers')
    BY NextSteered
  <2> QED
    BY <2>1
<1> QED
  BY <1>1, <1>2, <1>3, HostInvariant, PTL DEF Spec

-----------------------------------------------------------------------------
(* Turns: none is lost, and the root state counts the active ones.         *)

\* A session has the turns started in it and no others, each of them once: as its
\* active turn or in its history.
Book(st, s, owner) ==
  /\ \A i \in DOMAIN st.turns :
       /\ st.turns[i].id \in TurnId
       /\ owner[st.turns[i].id] = s
       /\ ~IsActive(st, st.turns[i].id)
  /\ \A i, j \in DOMAIN st.turns : st.turns[i].id = st.turns[j].id => i = j
  /\ \A t \in TurnId : owner[t] = s => IsActive(st, t) \/ \E i \in DOMAIN st.turns : st.turns[i].id = t

Books(h, owner) == \A s \in Session : h.sessions[s] # None => Book(h.sessions[s], s, owner)

LEMMA ReduceOther ==
  ASSUME NEW st, Sound(st), NEW a \in SessionAction, a.type \notin TurnEnd \cup {"turnStarted"}
  PROVE  SameTurns(st, Reduce(st, a))
BY ActionTypes, ReduceParts, ReducePending, ReduceMeta DEF SameTurns

LEMMA SameTurnsBook ==
  ASSUME NEW st, NEW r, SameTurns(st, r), NEW s, NEW owner, Book(st, s, owner)
  PROVE  Book(r, s, owner)
<1>1. r.turns = st.turns /\ \A t : IsActive(r, t) <=> IsActive(st, t)
  BY DEF SameTurns, IsActive
<1> QED
  BY <1>1 DEF Book

\* Only the end of the active turn touches the book, and it moves the turn.
LEMMA BookReduce ==
  ASSUME NEW st, Sound(st), NEW a \in SessionAction, a.type # "turnStarted",
         NEW s \in Session, NEW owner, Book(st, s, owner),
         a.type \in TurnEnd => owner[a.turn] = s
  PROVE  Book(Reduce(st, a), s, owner)
<1>1. CASE a.type \notin TurnEnd
  BY <1>1, ReduceOther, SameTurnsBook
<1>2. CASE a.type \in TurnEnd /\ ~IsActive(st, a.turn)
  BY <1>2, ReduceEnd
<1>3. CASE a.type \in TurnEnd /\ IsActive(st, a.turn)
  <2> DEFINE r == Reduce(st, a)
             q == st.turns
  <2>1. r.activeTurn = None
    BY <1>3, ReduceEnd DEF TurnEnded
  <2>2. PICK turn \in Turn : turn.id = a.turn /\ r.turns = Append(q, turn)
    BY <1>3, ReduceEnd DEF TurnEnded
  <2>3. q \in Seq(Turn)
    BY DEF Sound, SessionState
  <2> DEFINE e == Append(q, turn)
  <2>4. /\ e \in Seq(Turn) /\ Len(e) = Len(q) + 1
        /\ \A i \in 1 .. Len(q) : e[i] = q[i]
        /\ e[Len(q) + 1] = turn
    BY <2>2, <2>3, AppendProperties
  <2>5. /\ Len(q) \in Nat /\ DOMAIN q = 1 .. Len(q) /\ DOMAIN e = 1 .. Len(e)
    BY <2>3, <2>4, LenProperties
  <2>6. r.turns = e
    BY <2>2
  <2> HIDE DEF e, r
  <2>7. \A i \in DOMAIN e : i \in DOMAIN q \/ i = Len(q) + 1
    BY <2>4, <2>5
  <2>8. \A i \in DOMAIN q : e[i].id = q[i].id /\ q[i].id # turn.id /\ q[i].id \in TurnId
                            /\ owner[q[i].id] = s
    BY <1>3, <2>2, <2>4, <2>5 DEF Book
  <2>9. turn.id \in TurnId /\ owner[turn.id] = s /\ e[Len(q) + 1].id = turn.id
    BY <1>3, <2>2, <2>4 DEF Turn
  <2>10. \A i \in DOMAIN e : e[i].id \in TurnId /\ owner[e[i].id] = s
    BY <2>7, <2>8, <2>9
  <2>11. \A i, j \in DOMAIN e : e[i].id = e[j].id => i = j
    BY <2>7, <2>8, <2>9 DEF Book
  <2>12. ASSUME NEW t \in TurnId, owner[t] = s
         PROVE  \E i \in DOMAIN e : e[i].id = t
    <3>1. CASE IsActive(st, t)
      <4>1. t = turn.id
        BY <1>3, <2>2, <3>1 DEF IsActive
      <4>2. Len(q) + 1 \in DOMAIN e
        BY <2>4, <2>5
      <4> QED
        BY <2>9, <4>1, <4>2
    <3>2. CASE ~IsActive(st, t)
      <4>1. PICK i \in DOMAIN q : q[i].id = t
        BY <2>12, <3>2 DEF Book
      <4>2. i \in DOMAIN e
        BY <2>4, <2>5
      <4> QED
        BY <2>8, <4>1, <4>2
    <3> QED
      BY <3>1, <3>2
  <2>13. \A t : ~IsActive(r, t)
    BY <2>1 DEF IsActive
  <2>14. Book(r, s, owner)
    BY <2>6, <2>10, <2>11, <2>12, <2>13 DEF Book
  <2> QED
    BY <2>14 DEF r
<1> QED
  BY <1>1, <1>2, <1>3

\* A start enters a fresh turn into an idle session.
LEMMA BookStart ==
  ASSUME NEW st, Sound(st), st.activeTurn = None,
         NEW a \in SessionAction, a.type = "turnStarted",
         NEW s \in Session, NEW owner \in [TurnId -> Session \cup {None}],
         owner[a.turn] = None, Book(st, s, owner)
  PROVE  Book(Reduce(st, a), s, [owner EXCEPT ![a.turn] = s])
<1> DEFINE r == Reduce(st, a)
           o == [owner EXCEPT ![a.turn] = s]
<1>1. a.turn \in TurnId
  BY DEF SessionAction, TurnActionType
<1>2. r.turns = st.turns /\ r.activeTurn # None /\ r.activeTurn.id = a.turn
  BY ReduceStart
<1>3. \A t : IsActive(r, t) <=> t = a.turn
  BY <1>2 DEF IsActive
<1>4. \A t : ~IsActive(st, t)
  BY DEF IsActive
<1>5. None \notin Session
  BY NoneIsNoId
<1>6. o[a.turn] = s /\ \A t \in TurnId : t # a.turn => o[t] = owner[t]
  BY <1>1
<1> HIDE DEF r, o
<1>7. \A i \in DOMAIN r.turns : /\ r.turns[i].id \in TurnId /\ r.turns[i].id # a.turn
                                /\ owner[r.turns[i].id] = s
  BY <1>2, <1>5 DEF Book
<1>8. \A t \in TurnId : o[t] = s => IsActive(r, t) \/ \E i \in DOMAIN r.turns : r.turns[i].id = t
  BY <1>2, <1>3, <1>4, <1>6 DEF Book
<1>9. \A i, j \in DOMAIN r.turns : r.turns[i].id = r.turns[j].id => i = j
  BY <1>2 DEF Book
<1>10. Book(r, s, o)
  BY <1>3, <1>6, <1>7, <1>8, <1>9 DEF Book
<1> QED
  BY <1>10 DEF r, o

\* The turns other sessions start are not entered here.
LEMMA BookOther ==
  ASSUME NEW st, NEW s \in Session, NEW r \in Session, r # s, NEW t \in TurnId,
         NEW owner \in [TurnId -> Session \cup {None}], owner[t] = None, Book(st, r, owner)
  PROVE  Book(st, r, [owner EXCEPT ![t] = s])
<1> DEFINE o == [owner EXCEPT ![t] = s]
<1>1. \A u \in TurnId : o[u] = r <=> owner[u] = r
  BY NoneIsNoId
<1> HIDE DEF o
<1>2. Book(st, r, o)
  BY <1>1 DEF Book
<1> QED
  BY <1>2 DEF o

LEMMA DispatchBooks ==
  ASSUME NEW h, SoundHost(h), NEW owner, Books(h, owner), NEW s \in Session,
         NEW a \in SessionAction, a.type # "turnStarted", a.type \in TurnEnd => owner[a.turn] = s
  PROVE  Books(Dispatch(h, s, a), owner)
<1>1. \A r \in Session \ {s} : Dispatch(h, s, a).sessions[r] = h.sessions[r]
  BY DispatchSessions
<1>2. CASE h.sessions[s] = None
  <2>1. Dispatch(h, s, a).sessions[s] = None
    BY <1>2, DispatchSessions
  <2> QED
    BY <1>1, <2>1 DEF Books
<1>3. CASE h.sessions[s] # None
  <2>1. Dispatch(h, s, a).sessions[s] = Reduce(h.sessions[s], a) /\ Sound(h.sessions[s])
    BY <1>3, DispatchSessions
  <2>2. Book(h.sessions[s], s, owner)
    BY <1>3 DEF Books
  <2>3. Book(Reduce(h.sessions[s], a), s, owner)
    BY <2>1, <2>2, BookReduce
  <2> QED
    BY <1>1, <2>1, <2>3 DEF Books
<1> QED
  BY <1>2, <1>3

\* A turn that starts in a session without an active one.
LEMMA LaunchBooks ==
  ASSUME NEW h, TurnsInv(h), Books(h, turnOf), NEW s \in Session, h.sessions[s] # None,
         ~HasActiveTurn(h, s), NEW t \in TurnId, turnOf[t] = None, NEW text \in Text,
         NEW q \in MessageId \cup {None}, Launch(h, s, t, text, q)
  PROVE  Books(host, turnOf)'
<1> DEFINE a == [type |-> "turnStarted", turn |-> t, message |-> text, queuedId |-> q]
<1>1. a \in SessionAction /\ a.type = "turnStarted" /\ a.turn = t
  BY DEF SessionAction
<1>2. /\ host' = Dispatch(h, s, a) /\ turnOf' = [turnOf EXCEPT ![t] = s]
      /\ SoundHost(h) /\ turnOf \in [TurnId -> Session \cup {None}]
  BY DEF Launch, TurnsInv
<1> HIDE DEF a
<1>3. /\ host'.sessions[s] = Reduce(h.sessions[s], a) /\ Sound(h.sessions[s])
      /\ \A r \in Session \ {s} : host'.sessions[r] = h.sessions[r]
  BY <1>2, DispatchSessions
<1>4. h.sessions[s].activeTurn = None /\ Book(h.sessions[s], s, turnOf)
  BY DEF HasActiveTurn, Books
<1>5. Book(Reduce(h.sessions[s], a), s, turnOf')
  BY <1>1, <1>2, <1>3, <1>4, BookStart
<1>6. \A r \in Session \ {s} : h.sessions[r] # None => Book(h.sessions[r], r, turnOf')
  BY <1>2, BookOther DEF Books
<1>7. Books(host', turnOf')
  BY <1>3, <1>5, <1>6 DEF Books
<1> QED
  BY <1>7

-----------------------------------------------------------------------------
(* The steps as far as turns go.                                           *)

\* No start, and no end of a turn of another session.
Ordinary(s, a) == a.type # "turnStarted" /\ (a.type \in TurnEnd => turnOf[a.turn] = s)

\* The host state before the queue is looked at: with one or two actions applied.
Reached(h, s) ==
  \/ h = host
  \/ \E a \in SessionAction : Ordinary(s, a) /\ h = Dispatch(host, s, a)
  \/ \E a, b \in SessionAction : /\ Ordinary(s, a) /\ Ordinary(s, b)
                                 /\ h = Dispatch(Dispatch(host, s, a), s, b)

LEMMA DispatchesReached ==
  ASSUME NEW s \in Session, NEW types, "turnStarted" \notin types, Dispatches(s, types)
  PROVE  Reached(host', s)
BY DEF Dispatches, Reached, Ordinary

LEMMA ClientReached ==
  ASSUME HostInv, NEW s \in Session
  PROVE  /\ CancelTurn(s) => Reached(host', s) /\ UNCHANGED <<turnOf, created>>
         /\ ConfirmToolCall(s) => Reached(host', s) /\ UNCHANGED <<turnOf, created>>
BY ClientDispatches, DispatchesReached DEF CancelTurn, ConfirmToolCall

LEMMA AgentReached ==
  ASSUME HostInv, NEW s \in Session, AgentEvent(s) \/ CallTaken(s), ~AgentIdle(s)
  PROVE  Reached(host', s) /\ UNCHANGED <<turnOf, created>>
<1>1. CASE AgentText(s)
  <2>1. PICK a \in SessionAction : a.type \notin TurnEnd \cup {"turnStarted"} /\ host' = Dispatch(host, s, a)
    BY <1>1, AgentTextIs DEF Dispatches, TurnEnd
  <2> QED
    BY <1>1, <2>1 DEF Reached, Ordinary, AgentText
<1>2. CASE ToolStart(s)
  <2>1. CASE host' # host
    <3>1. PICK a, b \in SessionAction :
            /\ a.type = "toolCallStart" /\ b.type = "toolCallReady"
            /\ host' = Dispatch(Dispatch(host, s, a), s, b)
      BY <1>2, <2>1, ToolStartDispatches
    <3>2. Ordinary(s, a) /\ Ordinary(s, b)
      BY <3>1 DEF Ordinary, TurnEnd
    <3> QED
      BY <1>2, <3>1, <3>2 DEF Reached, ToolStart
  <2>2. CASE host' = host
    BY <1>2, <2>2 DEF Reached, ToolStart
  <2> QED
    BY <2>1, <2>2
<1>3. CASE AskPermission(s) \/ ToolComplete(s) \/ AgentError(s)
  <2>1. host' = host => Reached(host', s)
    BY DEF Reached
  <2>2. Reached(host', s)
    BY <1>3, <2>1, EventDispatches, DispatchesReached
  <2> QED
    BY <1>3, <2>2 DEF AskPermission, ToolComplete, AgentError
<1>4. CASE SendFailed(s) \/ SteeringTaken(s)
  BY <1>4, CallDispatches, DispatchesReached DEF SendFailed, SteeringTaken
<1>5. CASE SendAccepted(s) \/ AbortTaken(s) \/ SteeringFailed(s)
  BY <1>5 DEF Reached, SendAccepted, AbortTaken, SteeringFailed
<1> QED
  BY <1>1, <1>2, <1>3, <1>4, <1>5 DEF AgentEvent, CallTaken

LEMMA QueueReached ==
  ASSUME HostInv, NEW s \in Session, ChangePending(s) \/ AgentIdle(s)
  PROVE  /\ UNCHANGED created
         /\ \E h : /\ Reached(h, s)
                   /\ \/ host' = h /\ UNCHANGED turnOf
                      \/ Consumes(h, s)
<1>1. ASSUME NEW h, Reached(h, s), SoundHost(h), TryConsumeNext(h, s)
      PROVE  \E g : /\ Reached(g, s)
                    /\ \/ host' = g /\ UNCHANGED turnOf
                       \/ Consumes(g, s)
  BY <1>1, TryConsumeNextIs
<1>2. CASE ChangePending(s)
  <2>1. PICK a \in PendingAction(s) : TryConsumeNext(Dispatch(host, s, a), s)
    BY <1>2 DEF ChangePending
  <2>2. a \in SessionAction /\ Ordinary(s, a) /\ SoundHost(host)
    BY PendingActionType DEF Ordinary, HostInv, TurnsInv
  <2>3. Reached(Dispatch(host, s, a), s) /\ SoundHost(Dispatch(host, s, a))
    BY <2>2, DispatchSound DEF Reached
  <2> QED
    BY <1>1, <1>2, <2>1, <2>3 DEF ChangePending
<1>3. CASE AgentIdle(s)
  <2>1. TryConsumeNext(EndActive(s, "turnComplete"), s)
    BY <1>3 DEF AgentIdle
  <2>2. Reached(EndActive(s, "turnComplete"), s)
    <3>1. CASE EndActive(s, "turnComplete") = host
      BY <3>1 DEF Reached
    <3>2. CASE EndActive(s, "turnComplete") # host
      <4>1. PICK a \in SessionAction : /\ a.type = "turnComplete" /\ turnOf[a.turn] = s
                                       /\ EndActive(s, "turnComplete") = Dispatch(host, s, a)
        BY <3>2, EndActiveIs
      <4> QED
        BY <4>1 DEF Reached, Ordinary
    <3> QED
      BY <3>1, <3>2
  <2>3. SoundHost(EndActive(s, "turnComplete"))
    BY EndActiveInv
  <2> QED
    BY <1>1, <1>3, <2>1, <2>2, <2>3 DEF AgentIdle
<1> QED
  BY <1>2, <1>3

\* Every step is one of these.
StepAt(s) ==
  \/ CreateSession(s) \/ DisposeSession(s) \/ StartTurn(s)
  \/ /\ UNCHANGED created
     /\ \E h : /\ Reached(h, s)
               /\ \/ host' = h /\ UNCHANGED turnOf
                  \/ Consumes(h, s)

LEMMA NextIs ==
  ASSUME HostInv, [Next]_vars
  PROVE  UNCHANGED <<host, turnOf, created>> \/ \E s \in Session : StepAt(s)
<1>1. ASSUME NEW s \in Session, Reached(host', s), UNCHANGED <<turnOf, created>>
      PROVE  StepAt(s)
  BY <1>1 DEF StepAt
<1>2. ASSUME NEW s \in Session, ClientStep(s)
      PROVE  StepAt(s)
  <2>1. CASE CreateSession(s) \/ DisposeSession(s) \/ StartTurn(s)
    BY <2>1 DEF StepAt
  <2>2. CASE CancelTurn(s) \/ ConfirmToolCall(s)
    BY <1>1, <2>2, ClientReached
  <2>3. CASE ChangePending(s)
    BY <2>3, QueueReached DEF StepAt
  <2> QED
    BY <1>2, <2>1, <2>2, <2>3 DEF ClientStep
<1>3. ASSUME NEW s \in Session, AgentEvent(s) \/ CallTaken(s)
      PROVE  StepAt(s)
  <2>1. CASE AgentIdle(s)
    BY <2>1, QueueReached DEF StepAt
  <2>2. CASE ~AgentIdle(s)
    BY <1>1, <1>3, <2>2, AgentReached
  <2> QED
    BY <2>1, <2>2
<1>4. CASE UNCHANGED vars
  BY <1>4 DEF vars
<1> QED
  BY <1>2, <1>3, <1>4 DEF Next

\* A state reached keeps sessions, tracked turns and books.
LEMMA ReachedSound ==
  ASSUME HostInv, NEW s \in Session, NEW h, Reached(h, s)
  PROVE  /\ TurnsInv(h)
         /\ \A r \in Session : h.sessions[r] = None <=> host.sessions[r] = None
         /\ Books(host, turnOf) => Books(h, turnOf)
<1>1. ASSUME NEW g, SoundHost(g), Tracks(g, turnOf), NEW a \in SessionAction, Ordinary(s, a)
      PROVE  /\ SoundHost(Dispatch(g, s, a)) /\ Tracks(Dispatch(g, s, a), turnOf)
             /\ \A r \in Session : Dispatch(g, s, a).sessions[r] = None <=> g.sessions[r] = None
             /\ Books(g, turnOf) => Books(Dispatch(g, s, a), turnOf)
  <2>1. SoundHost(Dispatch(g, s, a)) /\ Tracks(Dispatch(g, s, a), turnOf)
    BY <1>1, DispatchSound, DispatchTracks DEF Ordinary
  <2>2. g.sessions[s] # None => Reduce(g.sessions[s], a) # None
    BY <1>1, DispatchSessions, ReduceQueue
  <2>3. \A r \in Session : Dispatch(g, s, a).sessions[r] = None <=> g.sessions[r] = None
    BY <1>1, <2>2, DispatchSessions
  <2>4. Books(g, turnOf) => Books(Dispatch(g, s, a), turnOf)
    BY <1>1, DispatchBooks DEF Ordinary
  <2> QED
    BY <2>1, <2>3, <2>4
<1>2. SoundHost(host) /\ Tracks(host, turnOf)
  BY DEF HostInv, TurnsInv
<1>3. /\ SoundHost(h) /\ Tracks(h, turnOf)
      /\ \A r \in Session : h.sessions[r] = None <=> host.sessions[r] = None
      /\ Books(host, turnOf) => Books(h, turnOf)
  <2>1. CASE h = host
    BY <1>2, <2>1
  <2>2. CASE \E a \in SessionAction : Ordinary(s, a) /\ h = Dispatch(host, s, a)
    BY <1>1, <1>2, <2>2
  <2>3. CASE \E a, b \in SessionAction : /\ Ordinary(s, a) /\ Ordinary(s, b)
                                         /\ h = Dispatch(Dispatch(host, s, a), s, b)
    <3>1. PICK a, b \in SessionAction : /\ Ordinary(s, a) /\ Ordinary(s, b)
                                        /\ h = Dispatch(Dispatch(host, s, a), s, b)
      BY <2>3
    <3> DEFINE g == Dispatch(host, s, a)
    <3>2. /\ SoundHost(g) /\ Tracks(g, turnOf)
          /\ \A r \in Session : g.sessions[r] = None <=> host.sessions[r] = None
          /\ Books(host, turnOf) => Books(g, turnOf)
      BY <1>1, <1>2, <3>1
    <3>3. h = Dispatch(g, s, b)
      BY <3>1
    <3> HIDE DEF g
    <3>4. /\ SoundHost(h) /\ Tracks(h, turnOf)
          /\ \A r \in Session : h.sessions[r] = None <=> g.sessions[r] = None
          /\ Books(g, turnOf) => Books(h, turnOf)
      BY <1>1, <3>1, <3>2, <3>3
    <3> QED
      BY <3>2, <3>4
  <2> QED
    BY <2>1, <2>2, <2>3 DEF Reached
<1> QED
  BY <1>3 DEF HostInv, TurnsInv

\* Sessions and turns are those of uris that have been created.
Past ==
  /\ \A s \in Session : host.sessions[s] # None => s \in created
  /\ \A t \in TurnId : turnOf[t] # None => turnOf[t] \in created

LEMMA LaunchSessions ==
  ASSUME NEW h, SoundHost(h), NEW s \in Session, NEW t \in TurnId, NEW text \in Text,
         NEW q \in MessageId \cup {None}, Launch(h, s, t, text, q)
  PROVE  /\ \A r \in Session : host'.sessions[r] = None <=> h.sessions[r] = None
         /\ turnOf' = [turnOf EXCEPT ![t] = s]
<1> DEFINE a == [type |-> "turnStarted", turn |-> t, message |-> text, queuedId |-> q]
<1>1. a \in SessionAction /\ host' = Dispatch(h, s, a) /\ turnOf' = [turnOf EXCEPT ![t] = s]
  BY DEF Launch, SessionAction
<1> HIDE DEF a
<1>2. h.sessions[s] # None => Reduce(h.sessions[s], a) # None
  BY <1>1, DispatchSessions, ReduceQueue
<1> QED
  BY <1>1, <1>2, DispatchSessions

\* What a start of a turn finds, unless clients act on views that are behind.
LEMMA StartTurnIs ==
  ASSUME "overlap" \notin Environment, HostInv, NEW s \in Session, StartTurn(s)
  PROVE  /\ UNCHANGED created /\ s \in created
         /\ host.sessions[s] # None /\ ~HasActiveTurn(host, s)
         /\ \E t \in TurnId, m \in Text : turnOf[t] = None /\ Launch(host, s, t, m, None)
BY DEF StartTurn, Shown, NextTurn, Fresh

LEMMA NextPast ==
  ASSUME "overlap" \notin Environment, HostInv, Past, [Next]_vars
  PROVE  Past'
<1>0. turnOf \in [TurnId -> Session \cup {None}]
  BY DEF HostInv, TurnsInv
<1>1. ASSUME NEW s \in Session, CreateSession(s) \/ DisposeSession(s)
      PROVE  Past'
  <2>1. /\ UNCHANGED turnOf /\ created \subseteq created'
        /\ \A r \in Session \ {s} : host'.sessions[r] = host.sessions[r]
        /\ host'.sessions[s] # None => s \in created'
    BY <1>1, ComesAndGoes DEF CreateSession, DisposeSession
  <2> QED
    BY <2>1 DEF Past
<1>2. ASSUME NEW s \in Session, UNCHANGED created, s \in created,
             NEW h, SoundHost(h), \A r \in Session : h.sessions[r] = None <=> host.sessions[r] = None,
             NEW t \in TurnId, NEW text \in Text, NEW q \in MessageId \cup {None},
             Launch(h, s, t, text, q)
      PROVE  Past'
  <2>1. /\ \A r \in Session : host'.sessions[r] = None <=> host.sessions[r] = None
        /\ turnOf' = [turnOf EXCEPT ![t] = s]
    BY <1>2, LaunchSessions
  <2>2. \A u \in TurnId : turnOf'[u] = turnOf[u] \/ turnOf'[u] = s
    BY <1>0, <2>1
  <2> QED
    BY <1>2, <2>1, <2>2 DEF Past
<1>3. ASSUME NEW s \in Session, StartTurn(s)
      PROVE  Past'
  <2>1. SoundHost(host)
    BY DEF HostInv, TurnsInv
  <2> QED
    BY <1>2, <1>3, <2>1, StartTurnIs
<1>4. ASSUME NEW s \in Session, UNCHANGED created, NEW h, Reached(h, s), host' = h, UNCHANGED turnOf
      PROVE  Past'
  BY <1>4, ReachedSound DEF Past
<1>5. ASSUME NEW s \in Session, UNCHANGED created, NEW h, Reached(h, s), Consumes(h, s)
      PROVE  Past'
  <2>1. PICK t \in TurnId, text \in Text, q \in MessageId : Launch(h, s, t, text, q)
    BY <1>5 DEF Consumes
  <2>2. SoundHost(h) /\ \A r \in Session : h.sessions[r] = None <=> host.sessions[r] = None
    BY <1>5, ReachedSound DEF TurnsInv
  <2>3. s \in created
    BY <1>5, <2>2 DEF Consumes, QueueReady, Past
  <2> QED
    BY <1>2, <1>5, <2>1, <2>2, <2>3
<1>6. CASE UNCHANGED <<host, turnOf, created>>
  BY <1>6 DEF Past
<1> QED
  BY <1>1, <1>3, <1>4, <1>5, <1>6, NextIs DEF StepAt

LEMMA NextBooks ==
  ASSUME "overlap" \notin Environment, HostInv, Past, Books(host, turnOf), [Next]_vars
  PROVE  Books(host, turnOf)'
<1>0. turnOf \in [TurnId -> Session \cup {None}] /\ TurnsInv(host)
  BY DEF HostInv, TurnsInv
<1>1. ASSUME NEW s \in Session, CreateSession(s)
      PROVE  Books(host, turnOf)'
  <2>1. /\ UNCHANGED turnOf /\ s \notin created
        /\ \A r \in Session \ {s} : host'.sessions[r] = host.sessions[r]
        /\ host'.sessions[s].turns = <<>> /\ host'.sessions[s].activeTurn = None
    BY <1>1, ComesAndGoes DEF CreateSession
  <2>2. \A t \in TurnId : turnOf[t] # s
    BY <2>1, NoneIsNoId DEF Past
  <2>3. DOMAIN <<>> = {}
    OBVIOUS
  <2>4. Book(host'.sessions[s], s, turnOf)
    BY <2>1, <2>2, <2>3 DEF Book
  <2>5. Books(host', turnOf)
    BY <2>1, <2>4 DEF Books
  <2> QED
    BY <2>1, <2>5
<1>2. ASSUME NEW s \in Session, DisposeSession(s)
      PROVE  Books(host, turnOf)'
  <2>1. /\ UNCHANGED turnOf /\ host'.sessions[s] = None
        /\ \A r \in Session \ {s} : host'.sessions[r] = host.sessions[r]
    BY <1>2, ComesAndGoes DEF DisposeSession
  <2>2. Books(host', turnOf)
    BY <2>1 DEF Books
  <2> QED
    BY <2>1, <2>2
<1>3. ASSUME NEW s \in Session, StartTurn(s)
      PROVE  Books(host, turnOf)'
  BY <1>0, <1>3, StartTurnIs, LaunchBooks
<1>4. ASSUME NEW s \in Session, NEW h, Reached(h, s), host' = h, UNCHANGED turnOf
      PROVE  Books(host, turnOf)'
  BY <1>4, ReachedSound
<1>5. ASSUME NEW s \in Session, NEW h, Reached(h, s), Consumes(h, s)
      PROVE  Books(host, turnOf)'
  <2>1. PICK t \in TurnId, text \in Text, q \in MessageId : turnOf[t] = None /\ Launch(h, s, t, text, q)
    BY <1>5 DEF Consumes
  <2>2. h.sessions[s] # None /\ ~HasActiveTurn(h, s)
    BY <1>5 DEF Consumes, QueueReady, HasActiveTurn
  <2>3. TurnsInv(h) /\ Books(h, turnOf)
    BY <1>5, ReachedSound
  <2> QED
    BY <2>1, <2>2, <2>3, LaunchBooks
<1>6. CASE UNCHANGED <<host, turnOf>>
  BY <1>6
<1> QED
  BY <1>1, <1>2, <1>3, <1>4, <1>5, <1>6, NextIs DEF StepAt

\* As long as clients start turns on what the host shows, no turn is lost: every
\* turn of a session that lives is its active turn or recorded once in its history,
\* also if turns fail, are cancelled late, or come from the queue.
THEOREM NoTurnIsLost ==
  ASSUME "overlap" \notin Environment
  PROVE  Spec => []NoTurnLost
<1>1. Init => Past /\ Books(host, turnOf)
  BY DEF Init, Past, Books
<1>2. ASSUME HostInv, Books(host, turnOf)
      PROVE  NoTurnLost
  <2> SUFFICES ASSUME NEW t \in TurnId, turnOf[t] # None, Live(turnOf[t])
               PROVE  LET s == turnOf[t]
                          recorded == {i \in DOMAIN host.sessions[s].turns :
                                         host.sessions[s].turns[i].id = t}
                      IN Cardinality(recorded) =
                           IF HasActiveTurn(host, s) /\ ActiveTurnId(host, s) = t THEN 0 ELSE 1
    BY DEF NoTurnLost
  <2> DEFINE s == turnOf[t]
             st == host.sessions[s]
             recorded == {i \in DOMAIN st.turns : st.turns[i].id = t}
  <2>1. s \in Session /\ st # None
    BY <1>2 DEF HostInv, TurnsInv, Live
  <2>2. Book(st, s, turnOf)
    BY <1>2, <2>1 DEF Books
  <2>3. IsActive(st, t) <=> HasActiveTurn(host, s) /\ ActiveTurnId(host, s) = t
    BY <2>1 DEF IsActive, HasActiveTurn, ActiveTurnId
  <2>4. CASE IsActive(st, t)
    <3>1. recorded = {}
      BY <2>2, <2>4 DEF Book
    <3> QED
      BY <2>3, <2>4, <3>1, FS_EmptySet
  <2>5. CASE ~IsActive(st, t)
    <3>1. PICK i \in DOMAIN st.turns : st.turns[i].id = t
      BY <2>2, <2>5 DEF Book
    <3>2. recorded = {i}
      BY <2>2, <3>1 DEF Book
    <3> QED
      BY <2>3, <2>5, <3>2, FS_Singleton
  <2> QED
    BY <2>4, <2>5
<1>3. HostInv /\ Past /\ Books(host, turnOf) /\ [Next]_vars => (Past /\ Books(host, turnOf))'
  BY NextPast, NextBooks
<1>4. HostInv /\ Books(host, turnOf) => NoTurnLost
  BY <1>2
<1> QED
  BY <1>1, <1>3, <1>4, HostInvariant, PTL DEF Spec

\* A turn is tracked only while it is active, and the count is that of tracked turns.
Exact(h) ==
  /\ h.activeSessions = Size(h.tracked)
  /\ \A s \in Session, t \in TurnId :
       h.tracked[t] = s => HasActiveTurn(h, s) /\ ActiveTurnId(h, s) = t

LEMMA DispatchExact ==
  ASSUME NEW h, SoundHost(h), Exact(h), NEW s \in Session, NEW a \in SessionAction,
         a.type # "turnStarted"
  PROVE  Exact(Dispatch(h, s, a))
<1> DEFINE d == Dispatch(h, s, a)
           st == h.sessions[s]
<1>1. CASE st = None
  BY <1>1 DEF Dispatch
<1>2. CASE st # None
  <2>1. Sound(st) /\ d.sessions[s] = Reduce(st, a)
        /\ \A r \in Session \ {s} : d.sessions[r] = h.sessions[r]
    BY <1>2, DispatchSessions
  <2>2. d.tracked = Tracked(h, s, a)
        /\ d.activeSessions = IF a.type \in TurnEnd THEN Size(Tracked(h, s, a)) ELSE h.activeSessions
    BY <1>2 DEF Dispatch
  <2>3. h.tracked \in [TurnId -> Session \cup {None}]
    BY DEF SoundHost, HostState
  <2> HIDE DEF d
  <2>4. CASE a.type \in TurnEnd
    <3>1. d.tracked = [h.tracked EXCEPT ![a.turn] = None] /\ d.activeSessions = Size(d.tracked)
      BY <2>2, <2>4 DEF Tracked, TurnEnd
    <3>2. ASSUME NEW r \in Session, NEW t \in TurnId, d.tracked[t] = r
          PROVE  HasActiveTurn(d, r) /\ ActiveTurnId(d, r) = t
      <4>1. t # a.turn /\ h.tracked[t] = r
        BY <2>3, <3>1, <3>2, NoneIsNoId
      <4>2. HasActiveTurn(h, r) /\ ActiveTurnId(h, r) = t
        BY <4>1 DEF Exact
      <4>3. CASE r = s
        <5>1. ~IsActive(st, a.turn)
          BY <4>1, <4>2, <4>3 DEF IsActive, ActiveTurnId
        <5>2. d.sessions[r] = h.sessions[r]
          BY <2>1, <2>4, <4>3, <5>1, ReduceEnd
        <5> QED
          BY <4>2, <5>2 DEF HasActiveTurn, ActiveTurnId
      <4>4. CASE r # s
        BY <2>1, <4>2, <4>4 DEF HasActiveTurn, ActiveTurnId
      <4> QED
        BY <4>3, <4>4
    <3> QED
      BY <3>1, <3>2 DEF Exact, d
  <2>5. CASE a.type \notin TurnEnd
    <3>1. d.tracked = h.tracked /\ d.activeSessions = h.activeSessions
      BY <2>2, <2>5 DEF Tracked
    <3>2. SameTurns(st, Reduce(st, a)) /\ Reduce(st, a) # None
      BY <2>1, <2>5, ReduceOther, ReduceQueue
    <3>3. ASSUME NEW r \in Session, HasActiveTurn(h, r)
          PROVE  HasActiveTurn(d, r) /\ ActiveTurnId(d, r) = ActiveTurnId(h, r)
      BY <2>1, <3>2, <3>3 DEF HasActiveTurn, ActiveTurnId, SameTurns
    <3> QED
      BY <3>1, <3>3 DEF Exact, d
  <2> QED
    BY <2>4, <2>5
<1> QED
  BY <1>1, <1>2

LEMMA LaunchExact ==
  ASSUME NEW h, SoundHost(h), Exact(h), NEW s \in Session, h.sessions[s] # None,
         ~HasActiveTurn(h, s), NEW t \in TurnId, NEW text \in Text,
         NEW q \in MessageId \cup {None}, Launch(h, s, t, text, q)
  PROVE  Exact(host')
<1> DEFINE a == [type |-> "turnStarted", turn |-> t, message |-> text, queuedId |-> q]
<1>1. a \in SessionAction /\ a.type = "turnStarted" /\ a.turn = t /\ host' = Dispatch(h, s, a)
  BY DEF Launch, SessionAction
<1> HIDE DEF a
<1>2. /\ Sound(h.sessions[s]) /\ host'.sessions[s] = Reduce(h.sessions[s], a)
      /\ \A r \in Session \ {s} : host'.sessions[r] = h.sessions[r]
  BY <1>1, DispatchSessions
<1>3. host'.tracked = [h.tracked EXCEPT ![t] = s] /\ host'.activeSessions = Size(host'.tracked)
  <2>1. Tracked(h, s, a) = [h.tracked EXCEPT ![t] = s] /\ a.type \in TurnEnd \cup {"turnStarted"}
    BY <1>1 DEF Tracked, TurnEnd
  <2> QED
    BY <1>1, <2>1 DEF Dispatch
<1>4. HasActiveTurn(host', s) /\ ActiveTurnId(host', s) = t
  <2>1. Reduce(h.sessions[s], a) # None
    BY <1>1, <1>2, ReduceQueue
  <2> QED
    BY <1>1, <1>2, <2>1, ReduceStart DEF HasActiveTurn, ActiveTurnId
<1>5. ASSUME NEW r \in Session, NEW u \in TurnId, host'.tracked[u] = r
      PROVE  HasActiveTurn(host', r) /\ ActiveTurnId(host', r) = u
  <2>1. h.tracked \in [TurnId -> Session \cup {None}]
    BY DEF SoundHost, HostState
  <2>2. CASE u = t
    BY <1>3, <1>4, <1>5, <2>1, <2>2
  <2>3. CASE u # t
    <3>1. HasActiveTurn(h, r) /\ ActiveTurnId(h, r) = u
      BY <1>3, <1>5, <2>1, <2>3 DEF Exact
    <3> QED
      BY <1>2, <3>1 DEF HasActiveTurn, ActiveTurnId
  <2> QED
    BY <2>2, <2>3
<1> QED
  BY <1>3, <1>5 DEF Exact

LEMMA NextExact ==
  ASSUME "overlap" \notin Environment, "dispose" \notin Environment,
         HostInv, Past, Exact(host), [Next]_vars
  PROVE  Exact(host')
<1>0. SoundHost(host)
  BY DEF HostInv, TurnsInv
<1>1. ASSUME NEW s \in Session, CreateSession(s)
      PROVE  Exact(host')
  <2>1. /\ host'.tracked = host.tracked /\ host'.activeSessions = host.activeSessions
        /\ \A r \in Session \ {s} : host'.sessions[r] = host.sessions[r]
        /\ host.sessions[s] = None
    BY <1>1, ComesAndGoes DEF CreateSession, Past
  <2> QED
    BY <2>1 DEF Exact, HasActiveTurn, ActiveTurnId
<1>2. ASSUME NEW s \in Session, StartTurn(s)
      PROVE  Exact(host')
  BY <1>0, <1>2, StartTurnIs, LaunchExact
<1>3. ASSUME NEW s \in Session, NEW h, Reached(h, s)
      PROVE  Exact(h)
  <2>1. CASE \E a, b \in SessionAction : /\ Ordinary(s, a) /\ Ordinary(s, b)
                                         /\ h = Dispatch(Dispatch(host, s, a), s, b)
    BY <1>0, <2>1, DispatchSound, DispatchExact DEF Ordinary
  <2>2. CASE \E a \in SessionAction : Ordinary(s, a) /\ h = Dispatch(host, s, a)
    BY <1>0, <2>2, DispatchExact DEF Ordinary
  <2> QED
    BY <1>3, <2>1, <2>2 DEF Reached
<1>4. ASSUME NEW s \in Session, NEW h, Reached(h, s), Consumes(h, s)
      PROVE  Exact(host')
  <2>1. PICK t \in TurnId, text \in Text, q \in MessageId : Launch(h, s, t, text, q)
    BY <1>4 DEF Consumes
  <2>2. h.sessions[s] # None /\ ~HasActiveTurn(h, s)
    BY <1>4 DEF Consumes, QueueReady, HasActiveTurn
  <2>3. SoundHost(h) /\ Exact(h)
    BY <1>3, <1>4, ReachedSound DEF TurnsInv
  <2> QED
    BY <2>1, <2>2, <2>3, LaunchExact
<1>5. ~ \E s \in Session : DisposeSession(s)
  BY DEF DisposeSession
<1> QED
  BY <1>1, <1>2, <1>3, <1>4, <1>5, NextIs DEF StepAt

\* Every tracked turn is the active turn of the session it is tracked for, and
\* every active turn is tracked: the two are counted alike.
LEMMA CountIsExact ==
  ASSUME NEW h, SoundHost(h), Exact(h), NEW owner, Tracks(h, owner)
  PROVE  h.activeSessions = Cardinality({s \in Session : HasActiveTurn(h, s)})
<1> DEFINE T == {t \in TurnId : h.tracked[t] # None}
           S == {s \in Session : HasActiveTurn(h, s)}
           f == [t \in T |-> h.tracked[t]]
<1>1. h.tracked \in [TurnId -> Session \cup {None}]
  BY DEF SoundHost, HostState
<1>2. IsFiniteSet(T)
  BY TurnIds, FS_Subset
<1>3. f \in [T -> S]
  BY <1>1 DEF Exact
<1>4. \A t, u \in T : f[t] = f[u] => t = u
  BY <1>1 DEF Exact
<1>5. \A s \in S : \E t \in T : f[t] = s
  <2> SUFFICES ASSUME NEW s \in S
               PROVE  \E t \in T : f[t] = s
    OBVIOUS
  <2>1. ActiveTurnId(h, s) \in TurnId /\ h.tracked[ActiveTurnId(h, s)] = s
    BY ActiveTurnIdType DEF Tracks
  <2>2. ActiveTurnId(h, s) \in T
    BY <2>1, NoneIsNoId
  <2> QED
    BY <2>1, <2>2
<1> HIDE DEF f
<1>6. f \in Bijection(T, S)
  BY <1>3, <1>4, <1>5 DEF Bijection, Injection, Surjection, IsInjective
<1>7. ExistsBijection(T, S)
  BY <1>6 DEF ExistsBijection
<1>8. Cardinality(S) = Cardinality(T)
  BY <1>2, <1>7, FS_Bijection
<1> QED
  BY <1>8 DEF Exact, Size

\* root.activeSessions is the number of sessions with a turn in progress at every moment,
\* though it is only written when a turn starts or ends: sessions that are disposed
\* during a turn, and turns that replace others, are all that makes it another number.
\* The sessions that are not disposed and have no turn are not counted.
THEOREM RootCountIsRight ==
  ASSUME "overlap" \notin Environment, "dispose" \notin Environment
  PROVE  Spec => []RootCountsActiveTurns
<1>1. Init => Past /\ Exact(host)
  <2> SUFFICES ASSUME Init
               PROVE  Past /\ Exact(host)
    OBVIOUS
  <2>1. \A t \in TurnId : host.tracked[t] = None
    BY DEF Init
  <2>2. {t \in TurnId : host.tracked[t] # None} = {}
    BY <2>1
  <2>3. Size(host.tracked) = 0 /\ host.activeSessions = 0
    BY <2>2, FS_EmptySet DEF Size, Init
  <2>4. \A s \in Session, t \in TurnId : host.tracked[t] # s
    BY <2>1, NoneIsNoId
  <2> QED
    BY <2>3, <2>4 DEF Init, Past, Exact
<1>2. ASSUME HostInv, Past, Exact(host), [Next]_vars
      PROVE  Past' /\ Exact(host)'
  <2>1. Exact(host')
    BY <1>2, NextExact
  <2> QED
    BY <1>2, <2>1, NextPast
<1>3. HostInv /\ Exact(host) => RootCountsActiveTurns
  BY CountIsExact DEF HostInv, TurnsInv, RootCountsActiveTurns
<1>4. HostInv /\ Past /\ Exact(host) /\ [Next]_vars => (Past /\ Exact(host))'
  BY <1>2
<1> QED
  BY <1>1, <1>3, <1>4, HostInvariant, PTL DEF Spec

-----------------------------------------------------------------------------
(* Sessions, calls and runs are in step.                                   *)

\* A session without an active turn has no call in flight and nothing the agent
\* works on.  With an active turn, its message is in flight or being worked on.
Paced(h, s, cs, rs) ==
  IF ~HasActiveTurn(h, s) THEN cs = <<>> /\ rs = <<>>
  ELSE \/ cs = <<[op |-> "send", turn |-> ActiveTurnId(h, s)]>> /\ rs = <<>>
       \/ /\ cs = <<>>
          /\ \E run \in Run : rs = <<run>> /\ run.turn = ActiveTurnId(h, s)

\* Nothing happens in a session before it is created, and nothing is asked of a
\* session that is disposed.
InStepAt(h, made, s, cs, rs) ==
  /\ h.sessions[s] # None => s \in made /\ Paced(h, s, cs, rs)
  /\ s \notin made => cs = <<>> /\ rs = <<>>

InStep == \A s \in Session : InStepAt(host, created, s, calls[s], runs[s])

\* The same turn is active in session s, or none, before and after.
SameActive(h, g, s) ==
  /\ g.sessions[s] = None <=> h.sessions[s] = None
  /\ HasActiveTurn(g, s) <=> HasActiveTurn(h, s)
  /\ HasActiveTurn(h, s) => ActiveTurnId(g, s) = ActiveTurnId(h, s)

\* The other sessions are left alone.
OthersSame(s) ==
  \A r \in Session \ {s} : /\ host'.sessions[r] = host.sessions[r]
                           /\ calls'[r] = calls[r] /\ runs'[r] = runs[r]

LEMMA StepInStep ==
  ASSUME InStep, NEW s \in Session, OthersSame(s), created' \in {created, created \cup {s}},
         InStepAt(host', created', s, calls'[s], runs'[s])
  PROVE  InStep'
<1>1. ASSUME NEW r \in Session, r # s
      PROVE  InStepAt(host', created', r, calls'[r], runs'[r])
  <2>1. InStepAt(host, created, r, calls[r], runs[r])
    BY DEF InStep
  <2> QED
    BY <1>1, <2>1 DEF InStepAt, Paced, OthersSame, HasActiveTurn, ActiveTurnId
<1> QED
  BY <1>1 DEF InStep

LEMMA SameInStep ==
  ASSUME NEW h, NEW g, NEW s \in Session, SameActive(h, g, s), NEW made, NEW cs, NEW rs,
         InStepAt(h, made, s, cs, rs)
  PROVE  InStepAt(g, made, s, cs, rs)
BY DEF SameActive, InStepAt, Paced

LEMMA DispatchActive ==
  ASSUME NEW h, SoundHost(h), NEW s \in Session, NEW a \in SessionAction
  PROVE  /\ a.type \notin TurnEnd \cup {"turnStarted"} => SameActive(h, Dispatch(h, s, a), s)
         /\ a.type \in TurnEnd /\ HasActiveTurn(h, s) /\ a.turn = ActiveTurnId(h, s) =>
              /\ Dispatch(h, s, a).sessions[s] # None
              /\ ~HasActiveTurn(Dispatch(h, s, a), s)
         /\ \A r \in Session \ {s} : Dispatch(h, s, a).sessions[r] = h.sessions[r]
<1> DEFINE d == Dispatch(h, s, a)
           st == h.sessions[s]
<1>1. \A r \in Session \ {s} : d.sessions[r] = h.sessions[r]
  BY DispatchSessions
<1>2. CASE st = None
  <2>1. d.sessions[s] = None
    BY <1>2, DispatchSessions
  <2> QED
    BY <1>1, <1>2, <2>1 DEF SameActive, HasActiveTurn
<1>3. CASE st # None
  <2>1. Sound(st) /\ d.sessions[s] = Reduce(st, a) /\ Reduce(st, a) # None
    BY <1>3, DispatchSessions, ReduceQueue
  <2>2. a.type \notin TurnEnd \cup {"turnStarted"} => SameTurns(st, Reduce(st, a))
    BY <2>1, ReduceOther
  <2>3. a.type \in TurnEnd /\ IsActive(st, a.turn) => Reduce(st, a).activeTurn = None
    BY <2>1, ReduceEnd DEF TurnEnded
  <2> HIDE DEF d
  <2>4. a.type \notin TurnEnd \cup {"turnStarted"} => SameActive(h, d, s)
    BY <1>3, <2>1, <2>2 DEF SameActive, SameTurns, HasActiveTurn, ActiveTurnId
  <2>5. a.type \in TurnEnd /\ HasActiveTurn(h, s) /\ a.turn = ActiveTurnId(h, s) =>
          d.sessions[s] # None /\ ~HasActiveTurn(d, s)
    BY <1>3, <2>1, <2>3 DEF HasActiveTurn, ActiveTurnId, IsActive
  <2> QED
    BY <1>1, <2>4, <2>5 DEF d
<1> QED
  BY <1>2, <1>3

LEMMA LaunchActive ==
  ASSUME NEW h, SoundHost(h), NEW s \in Session, h.sessions[s] # None, NEW t \in TurnId,
         NEW text \in Text, NEW q \in MessageId \cup {None}, Launch(h, s, t, text, q)
  PROVE  /\ host'.sessions[s] # None /\ HasActiveTurn(host', s) /\ ActiveTurnId(host', s) = t
         /\ host'.sessions[s].activeTurn.parts = <<>>
         /\ \A r \in Session \ {s} : host'.sessions[r] = h.sessions[r]
<1> DEFINE a == [type |-> "turnStarted", turn |-> t, message |-> text, queuedId |-> q]
<1>1. a \in SessionAction /\ a.type = "turnStarted" /\ a.turn = t /\ host' = Dispatch(h, s, a)
  BY DEF Launch, SessionAction
<1> HIDE DEF a
<1>2. /\ Sound(h.sessions[s]) /\ host'.sessions[s] = Reduce(h.sessions[s], a)
      /\ \A r \in Session \ {s} : host'.sessions[r] = h.sessions[r]
  BY <1>1, DispatchSessions
<1>3. Reduce(h.sessions[s], a) # None
  BY <1>1, <1>2, ReduceQueue
<1> QED
  BY <1>1, <1>2, <1>3, ReduceStart DEF HasActiveTurn, ActiveTurnId

\* A turn starts in a session where nothing is under way.
LEMMA LaunchPaced ==
  ASSUME HostInv, InStep, NEW s \in Session, NEW h, SoundHost(h), h.sessions[s] # None,
         \A r \in Session \ {s} : h.sessions[r] = host.sessions[r], s \in created,
         calls[s] = <<>>, runs'[s] = <<>>,
         \A r \in Session \ {s} : runs'[r] = runs[r], UNCHANGED created,
         NEW t \in TurnId, NEW text \in Text, NEW q \in MessageId \cup {None},
         Launch(h, s, t, text, q)
  PROVE  InStep'
<1>1. calls \in [Session -> Seq(Call)]
  BY DEF HostInv, TurnsInv
<1>2. calls'[s] = Append(<<>>, [op |-> "send", turn |-> t]) /\ \A r \in Session \ {s} : calls'[r] = calls[r]
  BY <1>1 DEF Launch
<1>3. calls'[s] = <<[op |-> "send", turn |-> t]>>
  BY <1>2
<1>4. /\ HasActiveTurn(host', s) /\ ActiveTurnId(host', s) = t
      /\ \A r \in Session \ {s} : host'.sessions[r] = h.sessions[r]
  BY LaunchActive
<1>5. InStepAt(host', created', s, calls'[s], runs'[s])
  BY <1>3, <1>4 DEF InStepAt, Paced
<1> QED
  BY <1>2, <1>4, <1>5, StepInStep DEF OthersSame

\* The dispatch of an action that leaves the active turn alone.
LEMMA DispatchesInStep ==
  ASSUME HostInv, InStep, NEW s \in Session, NEW types,
         types \cap (TurnEnd \cup {"turnStarted"}) = {}, Dispatches(s, types),
         UNCHANGED <<created, calls, runs>>
  PROVE  InStep'
<1>1. PICK a \in SessionAction : a.type \notin TurnEnd \cup {"turnStarted"} /\ host' = Dispatch(host, s, a)
  BY DEF Dispatches
<1>2. SoundHost(host)
  BY DEF HostInv, TurnsInv
<1>3. SameActive(host, host', s) /\ \A r \in Session \ {s} : host'.sessions[r] = host.sessions[r]
  BY <1>1, <1>2, DispatchActive
<1>4. InStepAt(host', created, s, calls[s], runs[s])
  BY <1>3, SameInStep DEF InStep
<1> QED
  BY <1>3, <1>4, StepInStep DEF OthersSame

LEMMA WithoutOnly ==
  ASSUME NEW c, NEW k \in DOMAIN <<c>>
  PROVE  WithoutAt(<<c>>, k) = <<>>
<1>1. 1 .. (Len(<<c>>) - 1) = {}
  OBVIOUS
<1> QED
  BY <1>1 DEF WithoutAt

\* A call in flight is the message of the active turn, or its session is disposed.
LEMMA CallInFlight ==
  ASSUME HostInv, InStep, NEW s \in Session, NEW k \in DOMAIN calls[s]
  PROVE  /\ s \in created
         /\ host.sessions[s] # None =>
              /\ HasActiveTurn(host, s) /\ runs[s] = <<>>
              /\ calls[s][k].op = "send" /\ calls[s][k].turn = ActiveTurnId(host, s)
              /\ WithoutAt(calls[s], k) = <<>>
<1>1. calls[s] # <<>> /\ InStepAt(host, created, s, calls[s], runs[s])
  BY DEF InStep
<1>2. s \in created
  BY <1>1 DEF InStepAt
<1>3. ASSUME host.sessions[s] # None
      PROVE  /\ HasActiveTurn(host, s) /\ runs[s] = <<>>
             /\ calls[s][k].op = "send" /\ calls[s][k].turn = ActiveTurnId(host, s)
             /\ WithoutAt(calls[s], k) = <<>>
  <2>1. /\ HasActiveTurn(host, s) /\ runs[s] = <<>>
        /\ calls[s] = <<[op |-> "send", turn |-> ActiveTurnId(host, s)]>>
    BY <1>1, <1>3 DEF InStepAt, Paced
  <2> DEFINE c == [op |-> "send", turn |-> ActiveTurnId(host, s)]
  <2>2. calls[s] = <<c>>
    BY <2>1
  <2> HIDE DEF c
  <2>3. calls[s][k] = c /\ WithoutAt(calls[s], k) = <<>>
    BY <2>2, WithoutOnly
  <2> QED
    BY <2>1, <2>3 DEF c
<1> QED
  BY <1>2, <1>3

\* What the agent works on is the active turn, or its session is disposed.
LEMMA RunUnderWay ==
  ASSUME InStep, NEW s \in Session, runs[s] # <<>>
  PROVE  /\ s \in created
         /\ host.sessions[s] # None =>
              /\ HasActiveTurn(host, s) /\ calls[s] = <<>>
              /\ Current(s) \in Run /\ runs[s] = <<Current(s)>> /\ Tail(runs[s]) = <<>>
              /\ Current(s).turn = ActiveTurnId(host, s)
<1>1. InStepAt(host, created, s, calls[s], runs[s])
  BY DEF InStep
<1>2. s \in created
  BY <1>1 DEF InStepAt
<1>3. ASSUME host.sessions[s] # None
      PROVE  /\ HasActiveTurn(host, s) /\ calls[s] = <<>>
             /\ Current(s) \in Run /\ runs[s] = <<Current(s)>> /\ Tail(runs[s]) = <<>>
             /\ Current(s).turn = ActiveTurnId(host, s)
  <2>1. HasActiveTurn(host, s) /\ calls[s] = <<>>
    BY <1>1, <1>3 DEF InStepAt, Paced
  <2>2. PICK run \in Run : runs[s] = <<run>> /\ run.turn = ActiveTurnId(host, s)
    BY <1>1, <1>3 DEF InStepAt, Paced
  <2>3. Head(<<run>>) = run /\ Tail(<<run>>) = <<>>
    OBVIOUS
  <2> QED
    BY <2>1, <2>2, <2>3 DEF Current
<1> QED
  BY <1>2, <1>3

LEMMA SendAcceptedInStep ==
  ASSUME HostInv, InStep, NEW s \in Session, SendAccepted(s)
  PROVE  InStep'
<1>1. PICK k \in DOMAIN calls[s] :
        /\ Served(s, k)
        /\ runs' = [runs EXCEPT ![s] =
                      Append(@, [turn |-> calls[s][k].turn, tool |-> None, asks |-> 0])]
  BY DEF SendAccepted
<1> DEFINE run == [turn |-> calls[s][k].turn, tool |-> None, asks |-> 0]
<1>2. run \in Run /\ run.turn = calls[s][k].turn
  <2>1. calls[s][k].turn \in TurnId /\ 0 \in 0 .. MaxAsks
    BY CallTurn, Bounds
  <2> QED
    BY <2>1, RunType
<1> HIDE DEF run
<1>3. /\ calls'[s] = WithoutAt(calls[s], k) /\ runs'[s] = Append(runs[s], run)
      /\ \A r \in Session \ {s} : calls'[r] = calls[r] /\ runs'[r] = runs[r]
  BY <1>1 DEF Served, HostInv, TurnsInv, OthersType, run
<1>4. host' = host /\ created' = created
  BY DEF SendAccepted
<1>5. ASSUME host.sessions[s] # None
      PROVE  Paced(host, s, calls'[s], runs'[s])
  <2>1. /\ HasActiveTurn(host, s) /\ runs[s] = <<>> /\ calls'[s] = <<>>
        /\ run.turn = ActiveTurnId(host, s)
    BY <1>2, <1>3, <1>5, CallInFlight
  <2>2. runs'[s] = <<run>>
    BY <1>3, <2>1
  <2> QED
    BY <1>2, <2>1, <2>2 DEF Paced
<1>6. InStepAt(host', created', s, calls'[s], runs'[s])
  BY <1>4, <1>5, CallInFlight DEF InStepAt
<1> QED
  BY <1>3, <1>4, <1>6, StepInStep DEF OthersSame

LEMMA SendFailedInStep ==
  ASSUME HostInv, InStep, NEW s \in Session, SendFailed(s)
  PROVE  InStep'
<1>1. PICK k \in DOMAIN calls[s] :
        /\ Served(s, k)
        /\ host' = Dispatch(host, s, [type |-> "error", turn |-> calls[s][k].turn])
  BY DEF SendFailed
<1> DEFINE a == [type |-> "error", turn |-> calls[s][k].turn]
<1>2. a \in SessionAction /\ a.type \in TurnEnd /\ a.turn = calls[s][k].turn
  BY CallTurn DEF SessionAction, TurnActionType, TurnEnd
<1>3. SoundHost(host) /\ host' = Dispatch(host, s, a)
  BY <1>1 DEF HostInv, TurnsInv
<1> HIDE DEF a
<1>4. /\ calls'[s] = WithoutAt(calls[s], k)
      /\ \A r \in Session \ {s} : calls'[r] = calls[r] /\ host'.sessions[r] = host.sessions[r]
  BY <1>1, <1>2, <1>3, DispatchActive DEF Served, HostInv, TurnsInv
<1>5. runs' = runs /\ created' = created
  BY DEF SendFailed
<1>6. host'.sessions[s] # None => host.sessions[s] # None
  BY <1>3, DispatchSessions
<1>7. ASSUME host.sessions[s] # None
      PROVE  Paced(host', s, calls'[s], runs'[s])
  <2>1. /\ HasActiveTurn(host, s) /\ runs[s] = <<>> /\ calls'[s] = <<>>
        /\ a.turn = ActiveTurnId(host, s)
    BY <1>2, <1>4, <1>7, CallInFlight
  <2>2. ~HasActiveTurn(host', s)
    BY <1>2, <1>3, <2>1, DispatchActive
  <2> QED
    BY <1>5, <2>1, <2>2 DEF Paced
<1>8. InStepAt(host', created', s, calls'[s], runs'[s])
  BY <1>5, <1>6, <1>7, CallInFlight DEF InStepAt
<1> QED
  BY <1>4, <1>5, <1>8, StepInStep DEF OthersSame

LEMMA AbortTakenInStep ==
  ASSUME HostInv, InStep, NEW s \in Session, AbortTaken(s)
  PROVE  InStep'
<1>1. PICK k \in DOMAIN calls[s] : calls[s][k].op = "abort" /\ Served(s, k)
  BY DEF AbortTaken
<1>2. s \in created /\ host.sessions[s] = None
  BY <1>1, CallInFlight
<1>3. /\ host' = host /\ created' = created
      /\ \A r \in Session \ {s} : calls'[r] = calls[r] /\ runs'[r] = runs[r]
  BY <1>1 DEF AbortTaken, Served, HostInv, TurnsInv, OthersType
<1>4. InStepAt(host', created', s, calls'[s], runs'[s])
  BY <1>2, <1>3 DEF InStepAt
<1> QED
  BY <1>3, <1>4, StepInStep DEF OthersSame

LEMMA SetToolIs ==
  ASSUME HostInv, InStep, NEW s \in Session, Working(s),
         NEW tool \in ToolCallId \cup {None}, NEW asks \in 0 .. MaxAsks, SetTool(s, tool, asks)
  PROVE  /\ \A r \in Session \ {s} : runs'[r] = runs[r]
         /\ s \in created
         /\ host.sessions[s] # None =>
              LET run == [turn |-> Current(s).turn, tool |-> tool, asks |-> asks]
              IN run \in Run /\ runs'[s] = <<run>>
<1>1. runs \in [Session -> Seq(Run)] /\ runs[s] # <<>>
  BY DEF HostInv, OthersType, Working
<1> DEFINE run == [turn |-> Current(s).turn, tool |-> tool, asks |-> asks]
<1>2. /\ runs'[s] = <<run>> \o Tail(runs[s])
      /\ \A r \in Session \ {s} : runs'[r] = runs[r]
  BY <1>1 DEF SetTool, Current
<1>3. Current(s).turn \in TurnId
  BY CurrentType DEF Run
<1>4. run \in Run
  BY <1>3, RunType
<1> HIDE DEF run
<1>5. host.sessions[s] # None => Tail(runs[s]) = <<>>
  BY <1>1, RunUnderWay
<1>6. <<run>> \o <<>> = <<run>>
  OBVIOUS
<1>7. host.sessions[s] # None => runs'[s] = <<run>>
  BY <1>2, <1>5, <1>6
<1> QED
  BY <1>1, <1>2, <1>4, <1>7, RunUnderWay DEF run

\* The steps of a run: its turn stays the active one.
LEMMA SetToolInStep ==
  ASSUME HostInv, InStep, NEW s \in Session, Working(s),
         NEW tool \in ToolCallId \cup {None}, NEW asks \in 0 .. MaxAsks, SetTool(s, tool, asks),
         UNCHANGED <<created, calls>>, SameActive(host, host', s),
         \A r \in Session \ {s} : host'.sessions[r] = host.sessions[r]
  PROVE  InStep'
<1>1. runs[s] # <<>>
  BY DEF Working
<1>2. ASSUME host'.sessions[s] # None
      PROVE  Paced(host', s, calls'[s], runs'[s])
  <2>1. host.sessions[s] # None
    BY <1>2 DEF SameActive
  <2>2. /\ HasActiveTurn(host, s) /\ calls[s] = <<>> /\ Current(s).turn = ActiveTurnId(host, s)
    BY <1>1, <2>1, RunUnderWay
  <2> DEFINE run == [turn |-> Current(s).turn, tool |-> tool, asks |-> asks]
  <2>3. run \in Run /\ runs'[s] = <<run>> /\ run.turn = Current(s).turn
    BY <2>1, SetToolIs
  <2> HIDE DEF run
  <2> QED
    BY <2>2, <2>3 DEF Paced, SameActive
<1>3. InStepAt(host', created', s, calls'[s], runs'[s])
  BY <1>1, <1>2, RunUnderWay DEF InStepAt
<1> QED
  BY <1>3, SetToolIs, StepInStep DEF OthersSame

LEMMA ToolStartActive ==
  ASSUME HostInv, NEW s \in Session, ToolStart(s)
  PROVE  SameActive(host, host', s) /\ \A r \in Session \ {s} : host'.sessions[r] = host.sessions[r]
<1>1. SoundHost(host)
  BY DEF HostInv, TurnsInv
<1>2. CASE host' = host
  BY <1>2 DEF SameActive
<1>3. CASE host' # host
  <2>1. PICK a, b \in SessionAction :
          /\ a.type = "toolCallStart" /\ b.type = "toolCallReady"
          /\ host' = Dispatch(Dispatch(host, s, a), s, b)
    BY <1>3, ToolStartDispatches
  <2> DEFINE h == Dispatch(host, s, a)
  <2>2. /\ SoundHost(h) /\ SameActive(host, h, s)
        /\ \A r \in Session \ {s} : h.sessions[r] = host.sessions[r]
    BY <1>1, <2>1, DispatchSound, DispatchActive DEF TurnEnd
  <2> HIDE DEF h
  <2>3. SameActive(h, host', s) /\ \A r \in Session \ {s} : host'.sessions[r] = h.sessions[r]
    BY <2>1, <2>2, DispatchActive DEF TurnEnd, h
  <2> QED
    BY <2>2, <2>3 DEF SameActive
<1> QED
  BY <1>2, <1>3

LEMMA ToolStartInStep ==
  ASSUME HostInv, InStep, NEW s \in Session, ToolStart(s)
  PROVE  InStep'
<1>1. PICK c \in ToolCallId : SetTool(s, c, 0)
  BY DEF ToolStart
<1>2. SameActive(host, host', s) /\ \A r \in Session \ {s} : host'.sessions[r] = host.sessions[r]
  BY ToolStartActive
<1> QED
  BY <1>1, <1>2, SetToolInStep, Bounds DEF ToolStart

LEMMA DispatchesActive ==
  ASSUME HostInv, NEW s \in Session, NEW types,
         types \cap (TurnEnd \cup {"turnStarted"}) = {}, host' = host \/ Dispatches(s, types)
  PROVE  SameActive(host, host', s) /\ \A r \in Session \ {s} : host'.sessions[r] = host.sessions[r]
<1>1. CASE host' = host
  BY <1>1 DEF SameActive
<1>2. CASE Dispatches(s, types)
  BY <1>2, DispatchActive DEF Dispatches, HostInv, TurnsInv
<1> QED
  BY <1>1, <1>2

LEMMA AskInStep ==
  ASSUME HostInv, InStep, NEW s \in Session, AskPermission(s) \/ ToolComplete(s)
  PROVE  InStep'
<1>1. SameActive(host, host', s) /\ \A r \in Session \ {s} : host'.sessions[r] = host.sessions[r]
  BY EventDispatches, DispatchesActive DEF TurnEnd
<1>2. CASE AskPermission(s)
  <2>1. Current(s).tool \in ToolCallId \cup {None} /\ Current(s).asks + 1 \in 0 .. MaxAsks
    BY <1>2, CurrentType, Bounds DEF AskPermission, Run
  <2> QED
    BY <1>1, <1>2, <2>1, SetToolInStep DEF AskPermission
<1>3. CASE ToolComplete(s)
  <2>1. 0 \in 0 .. MaxAsks /\ SetTool(s, None, 0)
    BY <1>3, Bounds DEF ToolComplete
  <2> QED
    BY <1>1, <1>3, <2>1, SetToolInStep DEF ToolComplete
<1> QED
  BY <1>2, <1>3

\* The queue is looked at in a state in which nothing is under way, or a turn is.
LEMMA TryConsumeInStep ==
  ASSUME HostInv, InStep, NEW s \in Session, NEW h, SoundHost(h), TryConsumeNext(h, s),
         \A r \in Session \ {s} : h.sessions[r] = host.sessions[r] /\ runs'[r] = runs[r],
         InStepAt(h, created, s, calls[s], runs'[s]), UNCHANGED created
  PROVE  InStep'
<1>1. CASE Consumes(h, s)
  <2>1. PICK t \in TurnId, text \in Text, q \in MessageId : Launch(h, s, t, text, q)
    BY <1>1 DEF Consumes
  <2>2. h.sessions[s] # None /\ ~HasActiveTurn(h, s)
    BY <1>1 DEF Consumes, QueueReady, HasActiveTurn
  <2>3. s \in created /\ calls[s] = <<>> /\ runs'[s] = <<>>
    BY <2>2 DEF InStepAt, Paced
  <2> QED
    BY <2>1, <2>2, <2>3, LaunchPaced
<1>2. CASE host' = h /\ UNCHANGED calls
  BY <1>2, StepInStep DEF OthersSame
<1> QED
  BY <1>1, <1>2, TryConsumeNextIs

LEMMA ChangePendingInStep ==
  ASSUME HostInv, InStep, NEW s \in Session, ChangePending(s)
  PROVE  InStep'
<1>1. PICK a \in PendingAction(s) : TryConsumeNext(Dispatch(host, s, a), s)
  BY DEF ChangePending
<1> DEFINE h == Dispatch(host, s, a)
<1>2. a \in SessionAction /\ a.type \notin TurnEnd \cup {"turnStarted"} /\ SoundHost(host)
  BY PendingActionType DEF HostInv, TurnsInv
<1>3. /\ SoundHost(h) /\ SameActive(host, h, s)
      /\ \A r \in Session \ {s} : h.sessions[r] = host.sessions[r]
  BY <1>2, DispatchSound, DispatchActive
<1>4. TryConsumeNext(h, s)
  BY <1>1
<1> HIDE DEF h
<1>5. runs' = runs /\ created' = created
  BY DEF ChangePending
<1>6. InStepAt(h, created, s, calls[s], runs'[s])
  BY <1>3, <1>5, SameInStep DEF InStep
<1> QED
  BY <1>3, <1>4, <1>5, <1>6, TryConsumeInStep

\* The end of the run is the end of the turn.
LEMMA EndActiveInStep ==
  ASSUME HostInv, InStep, NEW s \in Session, Working(s), NEW type \in {"turnComplete", "error"}
  PROVE  /\ SoundHost(EndActive(s, type))
         /\ \A r \in Session \ {s} : EndActive(s, type).sessions[r] = host.sessions[r]
         /\ EndActive(s, type).sessions[s] # None =>
              ~HasActiveTurn(EndActive(s, type), s) /\ calls[s] = <<>> /\ Tail(runs[s]) = <<>>
         /\ s \in created
<1>1. SoundHost(host) /\ runs[s] # <<>>
  BY DEF HostInv, TurnsInv, Working
<1>2. CASE ~HasActiveTurn(host, s)
  <2>1. EndActive(s, type) = host
    BY <1>2 DEF EndActive
  <2> QED
    BY <1>1, <1>2, <2>1, RunUnderWay
<1>3. CASE HasActiveTurn(host, s)
  <2> DEFINE t == ActiveTurnId(host, s)
             a == [type |-> type, turn |-> t]
  <2>1. t \in TurnId
    BY <1>1, <1>3, ActiveTurnIdType
  <2>2. a \in SessionAction /\ a.type \in TurnEnd /\ a.turn = t
    BY <2>1 DEF SessionAction, TurnActionType, TurnEnd
  <2>3. EndActive(s, type) = Dispatch(host, s, a)
    BY <1>3 DEF EndActive
  <2> HIDE DEF a
  <2>4. /\ ~HasActiveTurn(EndActive(s, type), s)
        /\ \A r \in Session \ {s} : EndActive(s, type).sessions[r] = host.sessions[r]
        /\ SoundHost(EndActive(s, type))
    BY <1>1, <1>3, <2>2, <2>3, DispatchActive, DispatchSound
  <2>5. host.sessions[s] # None
    BY <1>3 DEF HasActiveTurn
  <2> QED
    BY <1>1, <2>4, <2>5, RunUnderWay
<1> QED
  BY <1>2, <1>3

LEMMA AgentIdleInStep ==
  ASSUME HostInv, InStep, NEW s \in Session, AgentIdle(s)
  PROVE  InStep'
<1> DEFINE h == EndActive(s, "turnComplete")
<1>1. /\ SoundHost(h) /\ s \in created
      /\ \A r \in Session \ {s} : h.sessions[r] = host.sessions[r]
      /\ h.sessions[s] # None => ~HasActiveTurn(h, s) /\ calls[s] = <<>> /\ Tail(runs[s]) = <<>>
  BY EndActiveInStep DEF AgentIdle
<1>2. TryConsumeNext(h, s) /\ UNCHANGED created
  BY DEF AgentIdle
<1> HIDE DEF h
<1>3. runs'[s] = Tail(runs[s]) /\ \A r \in Session \ {s} : runs'[r] = runs[r]
  BY DEF AgentIdle, HostInv, OthersType
<1>4. InStepAt(h, created, s, calls[s], runs'[s])
  BY <1>1, <1>3 DEF InStepAt, Paced
<1> QED
  BY <1>1, <1>2, <1>3, <1>4, TryConsumeInStep

LEMMA AgentErrorInStep ==
  ASSUME HostInv, InStep, NEW s \in Session, AgentError(s)
  PROVE  InStep'
<1> DEFINE h == EndActive(s, "error")
<1>1. /\ s \in created /\ host' = h /\ calls' = calls /\ created' = created
      /\ \A r \in Session \ {s} : h.sessions[r] = host.sessions[r]
      /\ h.sessions[s] # None => ~HasActiveTurn(h, s) /\ calls[s] = <<>> /\ Tail(runs[s]) = <<>>
  BY EndActiveInStep DEF AgentError
<1> HIDE DEF h
<1>2. runs'[s] = Tail(runs[s]) /\ \A r \in Session \ {s} : runs'[r] = runs[r]
  BY DEF AgentError, HostInv, OthersType
<1>3. InStepAt(host', created', s, calls'[s], runs'[s])
  BY <1>1, <1>2 DEF InStepAt, Paced
<1> QED
  BY <1>1, <1>2, <1>3, StepInStep DEF OthersSame

LEMMA ClientInStep ==
  ASSUME "overlap" \notin Environment, "cancel" \notin Environment,
         HostInv, InStep, NEW s \in Session, ClientStep(s)
  PROVE  InStep'
<1>1. InStepAt(host, created, s, calls[s], runs[s])
  BY DEF InStep
<1>2. CASE CreateSession(s)
  <2>1. host'.sessions[s] # None /\ host'.sessions[s].activeTurn = None
    BY <1>2, ComesAndGoes
  <2>2. InStepAt(host', created', s, calls'[s], runs'[s])
    BY <1>1, <1>2, <2>1 DEF CreateSession, InStepAt, Paced, HasActiveTurn
  <2> QED
    BY <1>2, <2>2, ComesAndGoes, StepInStep DEF CreateSession, OthersSame
<1>3. CASE DisposeSession(s)
  <2>1. s \in created /\ host'.sessions[s] = None
    BY <1>1, <1>3, ComesAndGoes DEF DisposeSession, InStepAt
  <2>2. InStepAt(host', created', s, calls'[s], runs'[s])
    BY <1>3, <2>1 DEF DisposeSession, InStepAt
  <2>3. \A r \in Session \ {s} : runs'[r] = runs[r]
    BY <1>3 DEF DisposeSession, HostInv, OthersType
  <2> QED
    BY <1>3, <2>2, <2>3, ComesAndGoes, StepInStep DEF DisposeSession, OthersSame
<1>4. CASE StartTurn(s)
  <2>1. /\ host.sessions[s] # None /\ ~HasActiveTurn(host, s) /\ s \in created /\ UNCHANGED created
        /\ \E t \in TurnId, m \in Text : Launch(host, s, t, m, None)
    BY <1>4, StartTurnIs
  <2>2. runs' = runs /\ SoundHost(host)
    BY <1>4 DEF StartTurn, HostInv, TurnsInv
  <2>3. calls[s] = <<>> /\ runs'[s] = <<>>
    BY <1>1, <2>1, <2>2 DEF InStepAt, Paced
  <2> QED
    BY <2>1, <2>2, <2>3, LaunchPaced
<1>5. CASE CancelTurn(s)
  BY <1>5 DEF CancelTurn
<1>6. CASE ConfirmToolCall(s)
  BY <1>6, ClientDispatches, DispatchesInStep DEF ConfirmToolCall, TurnEnd
<1>7. CASE ChangePending(s)
  BY <1>7, ChangePendingInStep
<1> QED
  BY <1>2, <1>3, <1>4, <1>5, <1>6, <1>7 DEF ClientStep

LEMMA AgentTextInStep ==
  ASSUME HostInv, InStep, NEW s \in Session, AgentText(s)
  PROVE  InStep'
<1>1. UNCHANGED <<created, calls, runs>>
  BY DEF AgentText
<1>2. Dispatches(s, {"delta", "reasoning", "responsePart"})
  BY AgentTextIs DEF Dispatches, TurnEnd
<1> QED
  BY <1>1, <1>2, DispatchesInStep DEF TurnEnd

LEMMA NextInStep ==
  ASSUME "overlap" \notin Environment, "cancel" \notin Environment,
         HostInv, InStep, [Next]_vars
  PROVE  InStep'
<1>1. ASSUME NEW s \in Session, SteeringTaken(s) \/ SteeringFailed(s)
      PROVE  InStep'
  <2>1. CASE SteeringTaken(s)
    BY <2>1, CallDispatches, DispatchesInStep DEF SteeringTaken, TurnEnd
  <2>2. CASE SteeringFailed(s)
    BY <2>2 DEF SteeringFailed, InStep
  <2> QED
    BY <1>1, <2>1, <2>2
<1>2. CASE UNCHANGED vars
  BY <1>2 DEF vars, InStep
<1> QED
  BY <1>1, <1>2, ClientInStep, SendAcceptedInStep, SendFailedInStep, AbortTakenInStep,
     AgentTextInStep, ToolStartInStep, AskInStep, AgentIdleInStep, AgentErrorInStep
  DEF Next, ClientStep, AgentEvent, CallTaken

LEMMA InitInStep == Init => InStep
BY DEF Init, InStep, InStepAt

LEMMA InStepInvariant ==
  ASSUME "overlap" \notin Environment, "cancel" \notin Environment
  PROVE  Spec => [](HostInv /\ InStep)
<1>1. HostInv /\ InStep /\ [Next]_vars => InStep'
  BY NextInStep
<1> QED
  BY <1>1, InitInStep, HostInvariant, PTL DEF Spec

\* What the agent works on is what the session shows as active, as long as clients
\* start turns on what the host shows and nobody cancels: no run is left over, also
\* after failures, from the queue, or when sessions are disposed meanwhile.
THEOREM RunsAreActive ==
  ASSUME "overlap" \notin Environment, "cancel" \notin Environment
  PROVE  Spec => []RunIsOfActiveTurn
<1>1. InStep => RunIsOfActiveTurn
  BY RunUnderWay DEF RunIsOfActiveTurn, Live
<1> QED
  BY <1>1, InStepInvariant, PTL

-----------------------------------------------------------------------------
(* The active turn is worked on.                                           *)

NoAbort(cs) == \A k \in DOMAIN cs : cs[k].op # "abort"

\* The message is on its way, and nothing behind it stops the agent.
Sent(cs, t) ==
  \E k \in DOMAIN cs : /\ cs[k] = [op |-> "send", turn |-> t]
                       /\ \A j \in DOMAIN cs : j > k => cs[j].op # "abort"

AtWork(rs, t) == \E k \in DOMAIN rs : rs[k].turn = t

\* An abort that is on its way was made before the message of the active turn.
WorkAt(h, s, cs, rs) ==
  HasActiveTurn(h, s) =>
    \/ Sent(cs, ActiveTurnId(h, s))
    \/ AtWork(rs, ActiveTurnId(h, s)) /\ NoAbort(cs)

Work == \A s \in Session : WorkAt(host, s, calls[s], runs[s])

LEMMA StepWork ==
  ASSUME Work, NEW s \in Session, OthersSame(s), WorkAt(host', s, calls'[s], runs'[s])
  PROVE  Work'
<1>1. ASSUME NEW r \in Session, r # s
      PROVE  WorkAt(host', r, calls'[r], runs'[r])
  <2>1. WorkAt(host, r, calls[r], runs[r])
    BY DEF Work
  <2> QED
    BY <1>1, <2>1 DEF WorkAt, OthersSame, HasActiveTurn, ActiveTurnId
<1> QED
  BY <1>1 DEF Work

\* What is left when a call is taken that no abort comes before.
LEMMA TakenCall ==
  ASSUME NEW q \in Seq(Call), NEW k \in DOMAIN q, \A i \in 1 .. (k - 1) : q[i].op # "abort"
  PROVE  /\ NoAbort(q) => NoAbort(WithoutAt(q, k))
         /\ \A t : Sent(q, t) => \/ Sent(WithoutAt(q, k), t)
                                 \/ q[k].turn = t /\ NoAbort(WithoutAt(q, k))
         /\ \A t : Sent(q, t) /\ q[k].op = "abort" => Sent(WithoutAt(q, k), t)
<1> DEFINE w == WithoutAt(q, k)
<1>1. /\ Len(q) \in Nat /\ DOMAIN q = 1 .. Len(q) /\ DOMAIN w = 1 .. (Len(q) - 1)
      /\ \A i \in DOMAIN w : w[i] = IF i < k THEN q[i] ELSE q[i + 1]
  BY LenProperties DEF WithoutAt
<1> HIDE DEF w
<1>2. k \in 1 .. Len(q)
  BY <1>1
<1>3. NoAbort(q) => NoAbort(w)
  BY <1>1, <1>2 DEF NoAbort
<1>4. ASSUME NEW t, NEW j \in DOMAIN q, q[j] = [op |-> "send", turn |-> t],
             \A i \in DOMAIN q : i > j => q[i].op # "abort"
      PROVE  /\ j # k => Sent(w, t)
             /\ j = k => q[k].turn = t /\ NoAbort(w) /\ q[k].op = "send"
  <2>1. CASE j < k
    <3>1. j \in DOMAIN w /\ w[j] = q[j]
      BY <1>1, <1>2, <1>4, <2>1
    <3>2. \A i \in DOMAIN w : i > j => w[i].op # "abort"
      BY <1>1, <1>2, <1>4, <2>1
    <3> QED
      BY <1>4, <2>1, <3>1, <3>2, <1>1, <1>2 DEF Sent
  <2>2. CASE j > k
    <3>1. (j - 1) \in DOMAIN w /\ w[j - 1] = q[j]
      BY <1>1, <1>2, <1>4, <2>2
    <3>2. \A i \in DOMAIN w : i > j - 1 => w[i].op # "abort"
      BY <1>1, <1>2, <1>4, <2>2
    <3> QED
      BY <1>4, <2>2, <3>1, <3>2, <1>1, <1>2 DEF Sent
  <2>3. CASE j = k
    <3>1. \A i \in DOMAIN w : w[i].op # "abort"
      BY <1>1, <1>2, <1>4, <2>3
    <3> QED
      BY <1>4, <2>3, <3>1 DEF NoAbort
  <2> QED
    BY <1>1, <1>2, <2>1, <2>2, <2>3
<1>5. ASSUME NEW t, Sent(q, t)
      PROVE  /\ Sent(w, t) \/ (q[k].turn = t /\ NoAbort(w))
             /\ q[k].op = "abort" => Sent(w, t)
  <2>1. PICK j \in DOMAIN q : /\ q[j] = [op |-> "send", turn |-> t]
                              /\ \A i \in DOMAIN q : i > j => q[i].op # "abort"
    BY <1>5 DEF Sent
  <2>2. /\ j # k => Sent(w, t)
        /\ j = k => q[k].turn = t /\ NoAbort(w) /\ q[k].op = "send"
    BY <1>4, <2>1
  <2> QED
    BY <2>2
<1> QED
  BY <1>3, <1>5 DEF w

LEMMA MadeCall ==
  ASSUME NEW q \in Seq(Call), NEW t
  PROVE  Sent(Append(q, [op |-> "send", turn |-> t]), t)
<1> DEFINE c == [op |-> "send", turn |-> t]
<1> HIDE DEF c
<1>1. Len(q) \in Nat /\ DOMAIN Append(q, c) = 1 .. (Len(q) + 1) /\ Append(q, c)[Len(q) + 1] = c
  BY LenProperties
<1>2. Sent(Append(q, c), t)
  BY <1>1 DEF Sent, c
<1> QED
  BY <1>2 DEF c

\* A turn that starts has its message in flight, whatever was there before.
LEMMA LaunchWork ==
  ASSUME HostInv, Work, NEW s \in Session, NEW h, SoundHost(h),
         \A r \in Session \ {s} : h.sessions[r] = host.sessions[r] /\ runs'[r] = runs[r],
         NEW t \in TurnId, NEW text \in Text, NEW q \in MessageId \cup {None},
         Launch(h, s, t, text, q)
  PROVE  Work'
<1> DEFINE c == [op |-> "send", turn |-> t]
<1>1. calls \in [Session -> Seq(Call)]
  BY DEF HostInv, TurnsInv
<1>2. calls'[s] = Append(calls[s], c) /\ \A r \in Session \ {s} : calls'[r] = calls[r]
  BY <1>1 DEF Launch
<1>3. Sent(calls'[s], t)
  BY <1>1, <1>2, MadeCall
<1>4. HasActiveTurn(host', s) => ActiveTurnId(host', s) = t
  <2>1. CASE h.sessions[s] # None
    BY <2>1, LaunchActive
  <2>2. CASE h.sessions[s] = None
    BY <2>2, LaunchSessions DEF HasActiveTurn
  <2> QED
    BY <2>1, <2>2
<1>5. \A r \in Session \ {s} : host'.sessions[r] = h.sessions[r]
  <2> DEFINE a == [type |-> "turnStarted", turn |-> t, message |-> text, queuedId |-> q]
  <2>1. host' = Dispatch(h, s, a)
    BY DEF Launch
  <2> HIDE DEF a
  <2> QED
    BY <2>1, DispatchSessions
<1>6. WorkAt(host', s, calls'[s], runs'[s])
  BY <1>3, <1>4 DEF WorkAt
<1> QED
  BY <1>2, <1>5, <1>6, StepWork, ZenonT(40) DEF OthersSame

\* Steps that keep the active turn, the calls and the turns the agent works on.
LEMMA SameWork ==
  ASSUME Work, NEW s \in Session, SameActive(host, host', s), UNCHANGED calls,
         \A r \in Session \ {s} : host'.sessions[r] = host.sessions[r] /\ runs'[r] = runs[r],
         \A t : AtWork(runs[s], t) => AtWork(runs'[s], t)
  PROVE  Work'
<1>1. WorkAt(host, s, calls[s], runs[s])
  BY DEF Work
<1>2. WorkAt(host', s, calls'[s], runs'[s])
  BY <1>1 DEF WorkAt, SameActive
<1> QED
  BY <1>2, StepWork DEF OthersSame

LEMMA DispatchesWork ==
  ASSUME HostInv, Work, NEW s \in Session, NEW types,
         types \cap (TurnEnd \cup {"turnStarted"}) = {}, host' = host \/ Dispatches(s, types),
         UNCHANGED <<calls, runs>>
  PROVE  Work'
BY DispatchesActive, SameWork

\* The run the agent is at keeps its turn when it comes to a tool call.
LEMMA SetToolWork ==
  ASSUME HostInv, NEW s \in Session, Working(s), NEW tool, NEW asks, SetTool(s, tool, asks)
  PROVE  /\ \A r \in Session \ {s} : runs'[r] = runs[r]
         /\ \A t : AtWork(runs[s], t) => AtWork(runs'[s], t)
<1> DEFINE run == [turn |-> Head(runs[s]).turn, tool |-> tool, asks |-> asks]
           q == runs[s]
<1>1. runs \in [Session -> Seq(Run)] /\ q \in Seq(Run) /\ q # <<>>
  BY DEF HostInv, OthersType, Working
<1>2. /\ runs'[s] = <<run>> \o Tail(q)
      /\ \A r \in Session \ {s} : runs'[r] = runs[r]
  BY <1>1 DEF SetTool
<1>3. run.turn = q[1].turn
  BY <1>1, HeadTailProperties
<1> HIDE DEF run, q
<1>4. /\ DOMAIN q = 1 .. Len(q) /\ Len(q) \in Nat /\ Len(q) # 0 /\ Tail(q) \in Seq(Run)
      /\ Len(Tail(q)) = Len(q) - 1 /\ \A i \in 1 .. Len(Tail(q)) : Tail(q)[i] = q[i + 1]
  BY <1>1, HeadTailProperties, LenProperties, EmptySeq
<1>5. DOMAIN (<<run>> \o Tail(q)) = DOMAIN q /\ \A k \in DOMAIN q : (<<run>> \o Tail(q))[k].turn = q[k].turn
  <2>1. Len(<<run>>) = 1 /\ <<run>>[1] = run
    OBVIOUS
  <2>2. /\ DOMAIN (<<run>> \o Tail(q)) = 1 .. (1 + Len(Tail(q)))
        /\ \A k \in 1 .. (1 + Len(Tail(q))) :
             (<<run>> \o Tail(q))[k] = IF k <= 1 THEN <<run>>[k] ELSE Tail(q)[k - 1]
    BY <1>4, <2>1
  <2> QED
    BY <1>3, <1>4, <2>1, <2>2
<1>6. \A t : AtWork(q, t) => AtWork(runs'[s], t)
  BY <1>2, <1>5 DEF AtWork
<1> QED
  BY <1>2, <1>6 DEF q

LEMMA ToolStartWork ==
  ASSUME HostInv, Work, NEW s \in Session, ToolStart(s)
  PROVE  Work'
<1>1. SoundHost(host) /\ calls' = calls
  BY DEF HostInv, TurnsInv, ToolStart
<1>2. \A r \in Session \ {s} : runs'[r] = runs[r]
  BY SetToolWork DEF ToolStart
<1>3. \A t : AtWork(runs[s], t) => AtWork(runs'[s], t)
  BY SetToolWork DEF ToolStart
<1>4. SameActive(host, host', s) /\ \A r \in Session \ {s} : host'.sessions[r] = host.sessions[r]
  BY ToolStartActive
<1> QED
  BY <1>1, <1>2, <1>3, <1>4, SameWork

LEMMA AskWork ==
  ASSUME HostInv, Work, NEW s \in Session, AskPermission(s) \/ ToolComplete(s)
  PROVE  Work'
<1>1. SameActive(host, host', s) /\ \A r \in Session \ {s} : host'.sessions[r] = host.sessions[r]
  BY EventDispatches, DispatchesActive DEF TurnEnd
<1>2. PICK tool, asks : Working(s) /\ SetTool(s, tool, asks) /\ calls' = calls
  BY DEF AskPermission, ToolComplete
<1> QED
  BY <1>1, <1>2, SetToolWork, SameWork

\* The end of a turn leaves no active turn but one that was active and is not it.
LEMMA EndedActive ==
  ASSUME NEW h, SoundHost(h), NEW s \in Session, NEW a \in SessionAction, a.type \in TurnEnd
  PROVE  /\ HasActiveTurn(Dispatch(h, s, a), s) =>
              /\ HasActiveTurn(h, s) /\ ActiveTurnId(h, s) # a.turn
              /\ ActiveTurnId(Dispatch(h, s, a), s) = ActiveTurnId(h, s)
         /\ \A r \in Session \ {s} : Dispatch(h, s, a).sessions[r] = h.sessions[r]
<1> DEFINE d == Dispatch(h, s, a)
           st == h.sessions[s]
<1>1. \A r \in Session \ {s} : d.sessions[r] = h.sessions[r]
  BY DispatchSessions
<1>2. ASSUME HasActiveTurn(d, s)
      PROVE  HasActiveTurn(h, s) /\ ActiveTurnId(h, s) # a.turn /\ ActiveTurnId(d, s) = ActiveTurnId(h, s)
  <2>1. st # None /\ d.sessions[s] = Reduce(st, a) /\ Sound(st)
    BY <1>2, DispatchSessions DEF HasActiveTurn
  <2>2. /\ IsActive(st, a.turn) => Reduce(st, a).activeTurn = None
        /\ ~IsActive(st, a.turn) => Reduce(st, a) = st
    BY <2>1, ReduceEnd DEF TurnEnded
  <2> HIDE DEF d
  <2> QED
    BY <1>2, <2>1, <2>2 DEF HasActiveTurn, ActiveTurnId, IsActive
<1> QED
  BY <1>1, <1>2

\* The end of a run ends the turn that is active, whichever it is.
LEMMA EndActiveWork ==
  ASSUME HostInv, NEW s \in Session, NEW type \in {"turnComplete", "error"}
  PROVE  /\ SoundHost(EndActive(s, type)) /\ ~HasActiveTurn(EndActive(s, type), s)
         /\ \A r \in Session \ {s} : EndActive(s, type).sessions[r] = host.sessions[r]
<1>1. SoundHost(host)
  BY DEF HostInv, TurnsInv
<1>2. CASE ~HasActiveTurn(host, s)
  <2>1. EndActive(s, type) = host
    BY <1>2 DEF EndActive
  <2> QED
    BY <1>1, <1>2, <2>1
<1>3. CASE HasActiveTurn(host, s)
  <2> DEFINE a == [type |-> type, turn |-> ActiveTurnId(host, s)]
  <2>1. a \in SessionAction /\ a.type \in TurnEnd /\ a.turn = ActiveTurnId(host, s)
    BY <1>1, <1>3, ActiveTurnIdType DEF SessionAction, TurnActionType, TurnEnd
  <2>2. EndActive(s, type) = Dispatch(host, s, a)
    BY <1>3 DEF EndActive
  <2> HIDE DEF a
  <2> QED
    BY <1>1, <1>3, <2>1, <2>2, DispatchActive, DispatchSound
<1> QED
  BY <1>2, <1>3

\* The queue is looked at after a step that left the active turn its work.
LEMMA TryConsumeWork ==
  ASSUME HostInv, Work, NEW s \in Session, NEW h, SoundHost(h), TryConsumeNext(h, s),
         \A r \in Session \ {s} : h.sessions[r] = host.sessions[r] /\ runs'[r] = runs[r],
         WorkAt(h, s, calls[s], runs'[s])
  PROVE  Work'
<1>1. CASE Consumes(h, s)
  BY <1>1, LaunchWork DEF Consumes
<1>2. CASE host' = h /\ UNCHANGED calls
  BY <1>2, StepWork DEF OthersSame
<1> QED
  BY <1>1, <1>2, TryConsumeNextIs

LEMMA AgentEndWork ==
  ASSUME HostInv, Work, NEW s \in Session, AgentIdle(s) \/ AgentError(s)
  PROVE  Work'
<1>1. \A r \in Session \ {s} : runs'[r] = runs[r]
  BY DEF AgentIdle, AgentError, HostInv, OthersType
<1>2. ASSUME NEW type \in {"turnComplete", "error"}, NEW h, h = EndActive(s, type)
      PROVE  /\ SoundHost(h) /\ WorkAt(h, s, calls[s], runs'[s])
             /\ \A r \in Session \ {s} : h.sessions[r] = host.sessions[r]
  BY <1>2, EndActiveWork DEF WorkAt
<1>3. CASE AgentIdle(s)
  <2>1. TryConsumeNext(EndActive(s, "turnComplete"), s)
    BY <1>3 DEF AgentIdle
  <2> QED
    BY <1>1, <1>2, <2>1, TryConsumeWork
<1>4. CASE AgentError(s)
  <2>1. host' = EndActive(s, "error") /\ calls' = calls
    BY <1>4 DEF AgentError
  <2> QED
    BY <1>1, <1>2, <2>1, StepWork DEF OthersSame
<1> QED
  BY <1>3, <1>4

LEMMA ChangePendingWork ==
  ASSUME HostInv, Work, NEW s \in Session, ChangePending(s)
  PROVE  Work'
<1>1. PICK a \in PendingAction(s) : TryConsumeNext(Dispatch(host, s, a), s)
  BY DEF ChangePending
<1> DEFINE h == Dispatch(host, s, a)
<1>2. a \in SessionAction /\ a.type \notin TurnEnd \cup {"turnStarted"} /\ SoundHost(host)
  BY PendingActionType DEF HostInv, TurnsInv
<1>3. /\ SoundHost(h) /\ SameActive(host, h, s)
      /\ \A r \in Session \ {s} : h.sessions[r] = host.sessions[r]
  BY <1>2, DispatchSound, DispatchActive
<1>4. TryConsumeNext(h, s) /\ runs' = runs
  BY <1>1 DEF ChangePending
<1> HIDE DEF h
<1>5. WorkAt(h, s, calls[s], runs'[s])
  BY <1>3, <1>4 DEF Work, WorkAt, SameActive
<1> QED
  BY <1>3, <1>4, <1>5, TryConsumeWork

\* A message that is accepted becomes a run; one that is refused ends its turn.
LEMMA SendAcceptedWork ==
  ASSUME HostInv, Work, NEW s \in Session, SendAccepted(s)
  PROVE  Work'
<1>1. PICK k \in DOMAIN calls[s] :
        /\ Servable(s, k) /\ Served(s, k)
        /\ runs' = [runs EXCEPT ![s] =
                      Append(@, [turn |-> calls[s][k].turn, tool |-> None, asks |-> 0])]
  BY DEF SendAccepted
<1> DEFINE run == [turn |-> calls[s][k].turn, tool |-> None, asks |-> 0]
           q == runs[s]
<1>2. /\ calls'[s] = WithoutAt(calls[s], k) /\ runs'[s] = Append(q, run)
      /\ \A r \in Session \ {s} : calls'[r] = calls[r] /\ runs'[r] = runs[r]
      /\ calls[s] \in Seq(Call) /\ q \in Seq(Run) /\ host' = host
  BY <1>1 DEF Served, HostInv, TurnsInv, OthersType, SendAccepted
<1>3. run.turn = calls[s][k].turn
  OBVIOUS
<1>4. WorkAt(host, s, calls[s], q)
  BY DEF Work
<1> HIDE DEF run, q
<1>5. /\ \A t : AtWork(q, t) => AtWork(Append(q, run), t)
      /\ AtWork(Append(q, run), run.turn)
  <2>1. /\ Len(q) \in Nat /\ DOMAIN q = 1 .. Len(q) /\ DOMAIN Append(q, run) = 1 .. (Len(q) + 1)
        /\ \A i \in 1 .. Len(q) : Append(q, run)[i] = q[i]
        /\ Append(q, run)[Len(q) + 1] = run
    BY <1>2
  <2>2. DOMAIN q \subseteq DOMAIN Append(q, run) /\ Len(q) + 1 \in DOMAIN Append(q, run)
    BY <2>1
  <2> QED
    BY <2>1, <2>2 DEF AtWork
<1>6. WorkAt(host', s, calls'[s], runs'[s])
  <2>1. \A i \in 1 .. (k - 1) : calls[s][i].op # "abort"
    BY <1>1 DEF Servable
  <2>2. /\ NoAbort(calls[s]) => NoAbort(calls'[s])
        /\ \A t : Sent(calls[s], t) => \/ Sent(calls'[s], t)
                                       \/ calls[s][k].turn = t /\ NoAbort(calls'[s])
    BY <1>2, <2>1, TakenCall
  <2> QED
    BY <1>2, <1>3, <1>4, <1>5, <2>2 DEF WorkAt
<1> QED
  BY <1>2, <1>6, StepWork DEF OthersSame

LEMMA SendFailedWork ==
  ASSUME HostInv, Work, NEW s \in Session, SendFailed(s)
  PROVE  Work'
<1>1. PICK k \in DOMAIN calls[s] :
        /\ Servable(s, k) /\ Served(s, k)
        /\ host' = Dispatch(host, s, [type |-> "error", turn |-> calls[s][k].turn])
  BY DEF SendFailed
<1> DEFINE a == [type |-> "error", turn |-> calls[s][k].turn]
<1>2. a \in SessionAction /\ a.type \in TurnEnd /\ a.turn = calls[s][k].turn
  BY CallTurn DEF SessionAction, TurnActionType, TurnEnd
<1>3. SoundHost(host) /\ host' = Dispatch(host, s, a)
  BY <1>1 DEF HostInv, TurnsInv
<1> HIDE DEF a
<1>4. /\ calls'[s] = WithoutAt(calls[s], k) /\ calls[s] \in Seq(Call) /\ runs' = runs
      /\ \A r \in Session \ {s} : calls'[r] = calls[r]
  BY <1>1 DEF Served, HostInv, TurnsInv, SendFailed
<1>5. /\ HasActiveTurn(host', s) => /\ HasActiveTurn(host, s) /\ ActiveTurnId(host, s) # a.turn
                                    /\ ActiveTurnId(host', s) = ActiveTurnId(host, s)
      /\ \A r \in Session \ {s} : host'.sessions[r] = host.sessions[r]
  BY <1>2, <1>3, EndedActive
<1>6. WorkAt(host, s, calls[s], runs[s]) /\ \A i \in 1 .. (k - 1) : calls[s][i].op # "abort"
  BY <1>1 DEF Work, Servable
<1>7. /\ NoAbort(calls[s]) => NoAbort(calls'[s])
      /\ \A t : Sent(calls[s], t) => Sent(calls'[s], t) \/ a.turn = t
  BY <1>2, <1>4, <1>6, TakenCall
<1>8. WorkAt(host', s, calls'[s], runs'[s])
  BY <1>4, <1>5, <1>6, <1>7 DEF WorkAt
<1> QED
  BY <1>4, <1>5, <1>8, StepWork DEF OthersSame

\* An abort leaves the agent with what was sent after it.
LEMMA AbortTakenWork ==
  ASSUME HostInv, Work, NEW s \in Session, AbortTaken(s)
  PROVE  Work'
<1>1. PICK k \in DOMAIN calls[s] : Servable(s, k) /\ calls[s][k].op = "abort" /\ Served(s, k)
  BY DEF AbortTaken
<1>2. /\ calls'[s] = WithoutAt(calls[s], k) /\ calls[s] \in Seq(Call) /\ host' = host
      /\ \A r \in Session \ {s} : calls'[r] = calls[r] /\ runs'[r] = runs[r]
  BY <1>1 DEF Served, HostInv, TurnsInv, OthersType, AbortTaken
<1>3. \A i \in 1 .. (k - 1) : calls[s][i].op # "abort"
  BY <1>1 DEF Servable
<1>4. ~NoAbort(calls[s]) /\ WorkAt(host, s, calls[s], runs[s])
  BY <1>1 DEF NoAbort, Work
<1>5. \A t : Sent(calls[s], t) => Sent(calls'[s], t)
  BY <1>1, <1>2, <1>3, TakenCall
<1>6. WorkAt(host', s, calls'[s], runs'[s])
  BY <1>2, <1>4, <1>5 DEF WorkAt
<1> QED
  BY <1>2, <1>6, StepWork DEF OthersSame

\* A client that is up to date cancels the turn that is active.
LEMMA CancelWork ==
  ASSUME "late" \notin Environment, HostInv, Work, NEW s \in Session, CancelTurn(s)
  PROVE  Work'
<1>1. PICK t \in TurnId :
        /\ turnOf[t] = s /\ HasActiveTurn(host, s) /\ ActiveTurnId(host, s) = t
        /\ host' = Dispatch(host, s, [type |-> "turnCancelled", turn |-> t])
        /\ calls' = [calls EXCEPT ![s] = Append(@, [op |-> "abort", turn |-> t])]
  BY DEF CancelTurn, Shown
<1> DEFINE a == [type |-> "turnCancelled", turn |-> t]
<1>2. a \in SessionAction /\ a.type \in TurnEnd /\ a.turn = t /\ host' = Dispatch(host, s, a)
  BY <1>1 DEF SessionAction, TurnActionType, TurnEnd
<1> HIDE DEF a
<1>3. ~HasActiveTurn(host', s) /\ \A r \in Session \ {s} : host'.sessions[r] = host.sessions[r]
  <2>1. SoundHost(host) /\ HasActiveTurn(host, s) /\ a.turn = ActiveTurnId(host, s)
    BY <1>1, <1>2 DEF HostInv, TurnsInv
  <2> QED
    BY <1>2, <2>1, DispatchActive
<1>4. runs' = runs /\ \A r \in Session \ {s} : calls'[r] = calls[r]
  BY <1>1 DEF CancelTurn, HostInv, TurnsInv
<1>5. WorkAt(host', s, calls'[s], runs'[s])
  BY <1>3 DEF WorkAt
<1> QED
  BY <1>3, <1>4, <1>5, StepWork DEF OthersSame

LEMMA ClientWork ==
  ASSUME ~({"cancel", "late"} \subseteq Environment), HostInv, Work,
         NEW s \in Session, ClientStep(s)
  PROVE  Work'
<1>1. SoundHost(host) /\ runs \in [Session -> Seq(Run)]
  BY DEF HostInv, TurnsInv, OthersType
<1>2. CASE CreateSession(s) \/ DisposeSession(s)
  <2>1. ~HasActiveTurn(host', s) /\ \A r \in Session \ {s} : host'.sessions[r] = host.sessions[r]
    BY <1>2, ComesAndGoes DEF HasActiveTurn
  <2>2. calls' = calls /\ \A r \in Session \ {s} : runs'[r] = runs[r]
    BY <1>1, <1>2 DEF CreateSession, DisposeSession
  <2> QED
    BY <1>1, <2>1, <2>2, StepWork DEF WorkAt, OthersSame
<1>3. CASE StartTurn(s)
  <2>1. PICK t \in TurnId, m \in Text : Launch(host, s, t, m, None)
    BY <1>3 DEF StartTurn
  <2>2. runs' = runs
    BY <1>3 DEF StartTurn
  <2> QED
    BY <1>1, <2>1, <2>2, LaunchWork
<1>4. CASE CancelTurn(s)
  BY <1>4, CancelWork DEF CancelTurn
<1>5. CASE ConfirmToolCall(s)
  BY <1>5, ClientDispatches, DispatchesWork DEF ConfirmToolCall, TurnEnd
<1>6. CASE ChangePending(s)
  BY <1>6, ChangePendingWork
<1> QED
  BY <1>2, <1>3, <1>4, <1>5, <1>6 DEF ClientStep

LEMMA NextWork ==
  ASSUME ~({"cancel", "late"} \subseteq Environment), HostInv, Work, [Next]_vars
  PROVE  Work'
<1>1. ASSUME NEW s \in Session, AgentText(s)
      PROVE  Work'
  <2>1. Dispatches(s, {"delta", "reasoning", "responsePart"}) /\ UNCHANGED <<calls, runs>>
    BY <1>1, AgentTextIs DEF Dispatches, TurnEnd, AgentText
  <2> QED
    BY <2>1, DispatchesWork DEF TurnEnd
<1>2. ASSUME NEW s \in Session, SteeringTaken(s) \/ SteeringFailed(s)
      PROVE  Work'
  <2>1. CASE SteeringTaken(s)
    BY <2>1, CallDispatches, DispatchesWork DEF SteeringTaken, TurnEnd
  <2>2. CASE SteeringFailed(s)
    BY <2>2 DEF SteeringFailed, Work
  <2> QED
    BY <1>2, <2>1, <2>2
<1>3. CASE UNCHANGED vars
  BY <1>3 DEF vars, Work
<1> QED
  BY <1>1, <1>2, <1>3, ClientWork, ToolStartWork, AskWork, AgentEndWork,
     SendAcceptedWork, SendFailedWork, AbortTakenWork
  DEF Next, ClientStep, AgentEvent, CallTaken

\* No session is in progress with nothing to end its turn: the message is in flight
\* to the agent or the agent works on it, also when clients start turns over others,
\* cancel what they see, calls fail, or sessions are disposed meanwhile.  Only a
\* cancel that comes late, when the next turn has started, stops that one.
THEOREM ActiveTurnsAreWorkedOn ==
  ASSUME ~({"cancel", "late"} \subseteq Environment)
  PROVE  Spec => []ActiveTurnHasWork
<1>1. Init => Work
  BY DEF Init, Work, WorkAt, HasActiveTurn
<1>2. HostInv /\ Work /\ [Next]_vars => Work'
  BY NextWork
<1>3. Work => ActiveTurnHasWork
  BY DEF Work, WorkAt, Sent, AtWork, ActiveTurnHasWork
<1> QED
  BY <1>1, <1>2, <1>3, HostInvariant, PTL DEF Spec

-----------------------------------------------------------------------------
(* Permissions: what the active turn shows of a tool call.                 *)

Shows(st, c, status) ==
  /\ st.activeTurn # None
  /\ \E i \in DOMAIN st.activeTurn.parts :
       IsToolCall(st.activeTurn.parts[i], c) /\ st.activeTurn.parts[i].status = status

\* The actions that leave every tool call as it is.
LeavesTools == PendingType \cup MetaAction \cup {"delta", "reasoning", "responsePart", "usage"}

UpdatesTool == {"toolCallReady", "toolCallConfirmed", "toolCallComplete"}

LEMMA ToolPartStays ==
  ASSUME NEW part \in Part, NEW a, NEW c, NEW x,
         a.type \in {"delta", "reasoning"} \/ (a.type \in UpdatesTool /\ c # a.tool)
  PROVE  IsToolCall(PartAfter(part, a), c) /\ PartAfter(part, a).status = x
           <=> IsToolCall(part, c) /\ part.status = x
<1>1. PartAfter(part, a).kind = part.kind /\ PartAfter(part, a).id = part.id
  BY PartAfterKeepsId
<1>2. IsToolCall(part, c) => PartAfter(part, a) = part
  BY DEF PartAfter, IsToolCall, UpdatesTool
<1>3. IsToolCall(PartAfter(part, a), c) <=> IsToolCall(part, c)
  BY <1>1 DEF IsToolCall
<1> QED
  BY <1>2, <1>3

LEMMA ShowsSame ==
  ASSUME NEW st, Sound(st), NEW a \in SessionAction, a.type \in LeavesTools, NEW c, NEW x
  PROVE  Shows(Reduce(st, a), c, x) <=> Shows(st, c, x)
<1> DEFINE r == Reduce(st, a)
<1>1. CASE a.type \in PendingType \cup MetaAction
  <2>1. r.activeTurn = st.activeTurn
    BY <1>1, ReducePending, ReduceMeta
  <2> QED
    BY <2>1 DEF Shows
<1>2. CASE a.type \in {"delta", "reasoning", "responsePart", "usage"}
  <2>1. a.type \in TurnAction
    BY <1>2 DEF TurnAction
  <2>2. /\ r.activeTurn # None <=> st.activeTurn # None
        /\ ~IsActive(st, a.turn) => r = st
        /\ IsActive(st, a.turn) =>
             r.activeTurn.parts = IF a.type = "usage" THEN st.activeTurn.parts
                                  ELSE PartsAfter(st.activeTurn.parts, a)
    BY <2>1, ReduceParts DEF SameTurns
  <2> HIDE DEF r
  <2>3. CASE ~IsActive(st, a.turn)
    BY <2>2, <2>3 DEF r
  <2>4. CASE IsActive(st, a.turn) /\ a.type = "usage"
    BY <2>2, <2>4 DEF Shows, r, IsActive
  <2>5. CASE IsActive(st, a.turn) /\ a.type # "usage"
    <3> DEFINE parts == st.activeTurn.parts
    <3>1. st.activeTurn # None
      BY <2>5 DEF IsActive
    <3>2. parts \in Seq(Part) /\ \A i \in DOMAIN parts : parts[i] \in Part
      BY <3>1, ActivePartsType
    <3>3. r.activeTurn # None /\ r.activeTurn.parts = PartsAfter(parts, a)
      BY <2>2, <2>5, <3>1
    <3> HIDE DEF parts
    <3>4. CASE a.type = "responsePart"
      <4>1. /\ DOMAIN PartsAfter(parts, a) = DOMAIN parts \cup {Len(parts) + 1}
            /\ \A i \in DOMAIN parts : PartsAfter(parts, a)[i] = parts[i]
            /\ PartsAfter(parts, a)[Len(parts) + 1] = a.part
        BY <2>1, <3>2, <3>4, PartsAfterProperties DEF AddsPart, Added
      <4>2. a.part \in TextPart
        BY <3>4 DEF SessionAction, TurnActionType
      <4>3. ~IsToolCall(a.part, c)
        BY <4>2 DEF TextPart, TextKind, IsToolCall
      <4> QED
        BY <3>1, <3>3, <4>1, <4>3 DEF Shows, parts, r
    <3>5. CASE a.type # "responsePart"
      <4>1. /\ DOMAIN PartsAfter(parts, a) = DOMAIN parts
            /\ \A i \in DOMAIN parts : PartsAfter(parts, a)[i] = PartAfter(parts[i], a)
        BY <1>2, <2>1, <3>2, <3>5, PartsAfterProperties DEF AddsPart
      <4>2. \A i \in DOMAIN parts :
              IsToolCall(PartsAfter(parts, a)[i], c) /\ PartsAfter(parts, a)[i].status = x
                <=> IsToolCall(parts[i], c) /\ parts[i].status = x
        <5>1. a.type \in {"delta", "reasoning"}
          BY <1>2, <2>5, <3>5
        <5>2. \A i \in DOMAIN parts :
                IsToolCall(PartAfter(parts[i], a), c) /\ PartAfter(parts[i], a).status = x
                  <=> IsToolCall(parts[i], c) /\ parts[i].status = x
          BY <3>2, <5>1, ToolPartStays
        <5> QED
          BY <4>1, <5>2
      <4> QED
        BY <3>1, <3>3, <4>1, <4>2 DEF Shows, parts, r
    <3> QED
      BY <3>4, <3>5
  <2> QED
    BY <2>3, <2>4, <2>5
<1> QED
  BY <1>1, <1>2 DEF LeavesTools

\* An update of a tool call of the active turn.
LEMMA ShowsUpdated ==
  ASSUME NEW st, Sound(st), NEW a \in SessionAction, a.type \in UpdatesTool,
         IsActive(st, a.turn), NEW c, NEW x
  PROVE  LET r == Reduce(st, a)
             parts == st.activeTurn.parts
         IN /\ c # a.tool => (Shows(r, c, x) <=> Shows(st, c, x))
            /\ Shows(r, a.tool, x) <=>
                 \E i \in DOMAIN parts :
                   IsToolCall(parts[i], a.tool) /\ PartAfter(parts[i], a).status = x
<1> DEFINE r == Reduce(st, a)
           parts == st.activeTurn.parts
<1>1. a.type \in TurnAction /\ a.type \notin AddsPart /\ a.type # "usage" /\ st.activeTurn # None
  BY DEF UpdatesTool, TurnAction, AddsPart, IsActive
<1>2. parts \in Seq(Part) /\ \A i \in DOMAIN parts : parts[i] \in Part
  BY <1>1, ActivePartsType
<1>3. r.activeTurn # None /\ r.activeTurn.parts = PartsAfter(parts, a)
  BY <1>1, ReduceParts DEF SameTurns
<1>4. /\ DOMAIN PartsAfter(parts, a) = DOMAIN parts
      /\ \A i \in DOMAIN parts : PartsAfter(parts, a)[i] = PartAfter(parts[i], a)
  BY <1>1, <1>2, PartsAfterProperties
<1>5. Shows(st, c, x) <=> \E i \in DOMAIN parts : IsToolCall(parts[i], c) /\ parts[i].status = x
  BY <1>1 DEF Shows
<1> HIDE DEF r, parts
<1>6. \A d : Shows(r, d, x) <=>
               \E i \in DOMAIN parts : IsToolCall(PartAfter(parts[i], a), d)
                                       /\ PartAfter(parts[i], a).status = x
  BY <1>3, <1>4 DEF Shows
<1>7. c # a.tool => (Shows(r, c, x) <=> Shows(st, c, x))
  <2> SUFFICES ASSUME c # a.tool
               PROVE  Shows(r, c, x) <=> Shows(st, c, x)
    OBVIOUS
  <2>1. \A i \in DOMAIN parts : IsToolCall(PartAfter(parts[i], a), c) /\ PartAfter(parts[i], a).status = x
                                  <=> IsToolCall(parts[i], c) /\ parts[i].status = x
    BY <1>2, ToolPartStays
  <2> QED
    BY <1>5, <1>6, <2>1
<1>8. \A i \in DOMAIN parts : IsToolCall(PartAfter(parts[i], a), a.tool) <=> IsToolCall(parts[i], a.tool)
  BY <1>2, PartAfterKeepsId DEF IsToolCall
<1>9. Shows(r, a.tool, x) <=> \E i \in DOMAIN parts :
                                IsToolCall(parts[i], a.tool) /\ PartAfter(parts[i], a).status = x
  BY <1>6, <1>8
<1> QED
  BY <1>7, <1>9 DEF r, parts

\* What an update makes of the status of a part.
LEMMA StatusAfter ==
  ASSUME NEW part \in Part, NEW a, IsToolCall(part, a.tool)
  PROVE  LET status == PartAfter(part, a).status
         IN /\ a.type \in {"toolCallConfirmed", "toolCallComplete"} => status # "pendingConfirmation"
            /\ a.type = "toolCallReady" /\ a.confirmed = "notNeeded" =>
                 /\ part.status = "streaming" => status = "running"
                 /\ part.status # "pendingConfirmation" => status # "pendingConfirmation"
            /\ a.type = "toolCallReady" /\ a.confirmed = "none" /\ part.status = "running" =>
                 status = "pendingConfirmation"
<1>1. part \in ToolPart
  BY ToolCallIsToolPart
<1>2. \A x, y : ToolCall(part, x, y).status = x
  BY <1>1 DEF ToolPart, ToolCall
<1>3. CASE a.type = "toolCallConfirmed"
  BY <1>2, <1>3 DEF PartAfter, Confirmed
<1>4. CASE a.type = "toolCallComplete"
  BY <1>2, <1>4 DEF PartAfter, Completed
<1>5. CASE a.type = "toolCallReady"
  BY <1>2, <1>5 DEF PartAfter, Ready
<1> QED
  BY <1>3, <1>4, <1>5

LEMMA ShowsAnswered ==
  ASSUME NEW st, Sound(st), NEW a \in SessionAction, IsActive(st, a.turn),
         a.type \in {"toolCallConfirmed", "toolCallComplete"}
  PROVE  ~Shows(Reduce(st, a), a.tool, "pendingConfirmation")
<1>1. st.activeTurn # None /\ a.type \in UpdatesTool
  BY DEF IsActive, UpdatesTool
<1>2. \A i \in DOMAIN st.activeTurn.parts : st.activeTurn.parts[i] \in Part
  BY <1>1, ActivePartsType
<1> QED
  BY <1>1, <1>2, StatusAfter, ShowsUpdated

LEMMA ShowsReady ==
  ASSUME NEW st, Sound(st), NEW a \in SessionAction, IsActive(st, a.turn),
         a.type = "toolCallReady"
  PROVE  /\ a.confirmed = "notNeeded" =>
              /\ Shows(st, a.tool, "streaming") => Shows(Reduce(st, a), a.tool, "running")
              /\ ~Shows(st, a.tool, "pendingConfirmation") =>
                   ~Shows(Reduce(st, a), a.tool, "pendingConfirmation")
         /\ a.confirmed = "none" /\ Shows(st, a.tool, "running") =>
              Shows(Reduce(st, a), a.tool, "pendingConfirmation")
<1>1. st.activeTurn # None /\ a.type \in UpdatesTool
  BY DEF IsActive, UpdatesTool
<1>2. \A i \in DOMAIN st.activeTurn.parts : st.activeTurn.parts[i] \in Part
  BY <1>1, ActivePartsType
<1> DEFINE parts == st.activeTurn.parts
<1>3. \A x : Shows(Reduce(st, a), a.tool, x) <=>
              \E i \in DOMAIN parts : IsToolCall(parts[i], a.tool) /\ PartAfter(parts[i], a).status = x
  BY <1>1, ShowsUpdated
<1>4. \A x : Shows(st, a.tool, x) <=>
              \E i \in DOMAIN parts : IsToolCall(parts[i], a.tool) /\ parts[i].status = x
  BY <1>1 DEF Shows
<1> HIDE DEF parts
<1>5. \A i \in DOMAIN parts : IsToolCall(parts[i], a.tool) =>
        /\ a.confirmed = "notNeeded" =>
             /\ parts[i].status = "streaming" => PartAfter(parts[i], a).status = "running"
             /\ parts[i].status # "pendingConfirmation" =>
                  PartAfter(parts[i], a).status # "pendingConfirmation"
        /\ a.confirmed = "none" /\ parts[i].status = "running" =>
             PartAfter(parts[i], a).status = "pendingConfirmation"
  BY <1>2, StatusAfter DEF parts
<1> QED
  BY <1>3, <1>4, <1>5

LEMMA ShowsStarted ==
  ASSUME NEW st, Sound(st), NEW a \in SessionAction, IsActive(st, a.turn),
         a.type = "toolCallStart"
  PROVE  /\ Shows(Reduce(st, a), a.tool, "streaming")
         /\ \A c : Shows(Reduce(st, a), c, "pendingConfirmation") => Shows(st, c, "pendingConfirmation")
<1> DEFINE r == Reduce(st, a)
           parts == st.activeTurn.parts
<1>1. a.type \in TurnAction /\ a.type \in AddsPart /\ a.type # "usage" /\ st.activeTurn # None
  BY DEF TurnAction, AddsPart, IsActive
<1>2. parts \in Seq(Part)
  BY <1>1, ActivePartsType
<1>3. r.activeTurn # None /\ r.activeTurn.parts = PartsAfter(parts, a)
  BY <1>1, ReduceParts DEF SameTurns
<1>4. \A c : (\E i \in DOMAIN parts : IsToolCall(parts[i], c) /\ parts[i].status = "pendingConfirmation")
               => Shows(st, c, "pendingConfirmation")
  BY <1>1 DEF Shows
<1> HIDE DEF r, parts
<1>5. /\ DOMAIN PartsAfter(parts, a) = DOMAIN parts \cup {Len(parts) + 1}
      /\ \A i \in DOMAIN parts : PartsAfter(parts, a)[i] = parts[i]
      /\ PartsAfter(parts, a)[Len(parts) + 1] = Added(a)
  BY <1>1, <1>2, PartsAfterProperties
<1>6. IsToolCall(Added(a), a.tool) /\ Added(a).status = "streaming"
  BY DEF Added, IsToolCall
<1> QED
  BY <1>3, <1>4, <1>5, <1>6 DEF Shows, r

-----------------------------------------------------------------------------
(* Permissions: the agent waits for what the user is asked.                *)

Routed(s) == {c \in ToolCallId : <<s, c>> \in toolCallAgents}

\* The requests the agent waits for are those on screen.  They are of the call the
\* run is at, which has asked and whose answer is routed; a call that has not asked
\* yet is shown as running, and an answer would be routed.
AsksAt(st, asked, rs, routed) ==
  /\ \A c \in ToolCallId : c \in asked <=> Shows(st, c, "pendingConfirmation")
  /\ \A c \in asked : rs # <<>> /\ Head(rs).tool = c /\ Head(rs).asks # 0 /\ c \in routed
  /\ rs # <<>> /\ Head(rs).tool # None /\ Head(rs).asks = 0 =>
       Head(rs).tool \in routed /\ Shows(st, Head(rs).tool, "running")

Asks ==
  \A s \in Session :
    /\ host.sessions[s] # None =>
         AsksAt(host.sessions[s], pendingPermissions[s], runs[s], Routed(s))
    /\ s \notin created => pendingPermissions[s] = {}

\* A call is routed for the session it was started in, and for no other.
Routes ==
  /\ \A s \in Session : \A c \in Routed(s) : toolOf[c] # None
  /\ \A s, r \in Session : Routed(s) \cap Routed(r) # {} => s = r

\* The other sessions are left alone.
OthersAsk(s) ==
  \A r \in Session \ {s} :
    /\ host'.sessions[r] = host.sessions[r] /\ runs'[r] = runs[r]
    /\ pendingPermissions'[r] = pendingPermissions[r]
    /\ Routed(r)' = Routed(r)

LEMMA StepAsks ==
  ASSUME Asks, NEW s \in Session, OthersAsk(s), created \subseteq created',
         host'.sessions[s] # None =>
           AsksAt(host'.sessions[s], pendingPermissions'[s], runs'[s], Routed(s)'),
         s \in created' \/ pendingPermissions'[s] = {}
  PROVE  Asks'
BY DEF Asks, OthersAsk

\* No question is open.
Quiet(st, asked) == asked = {} /\ \A c \in ToolCallId : ~Shows(st, c, "pendingConfirmation")

LEMMA IsQuiet ==
  ASSUME HostInv, Asks, NEW s \in Session, host.sessions[s] # None,
         runs[s] = <<>> \/ Working(s)
  PROVE  Quiet(host.sessions[s], pendingPermissions[s])
<1>1. AsksAt(host.sessions[s], pendingPermissions[s], runs[s], Routed(s))
  BY DEF Asks
<1>2. pendingPermissions[s] \subseteq ToolCallId
  BY DEF HostInv, OthersType
<1>3. pendingPermissions[s] = {}
  <2>1. CASE runs[s] = <<>>
    BY <1>1, <2>1 DEF AsksAt
  <2>2. CASE Working(s)
    BY <1>1, <2>2 DEF AsksAt, Working, Current
  <2> QED
    BY <2>1, <2>2
<1> QED
  BY <1>1, <1>3 DEF AsksAt, Quiet

\* Without open questions, and without a call that could ask one.
LEMMA QuietAsks ==
  ASSUME NEW st, NEW asked, Quiet(st, asked), NEW rs, NEW routed,
         rs # <<>> => Head(rs).tool = None \/ Head(rs).asks # 0
  PROVE  AsksAt(st, asked, rs, routed)
BY DEF Quiet, AsksAt

LEMMA RoutesKept ==
  ASSUME Routes, toolCallAgents' \subseteq toolCallAgents, UNCHANGED toolOf
  PROVE  Routes'
<1>1. \A s \in Session : Routed(s)' \subseteq Routed(s)
  BY DEF Routed
<1> QED
  BY <1>1 DEF Routes

\* An action that leaves tool calls alone, and the active turn where it is.
LEMMA DispatchesAsk ==
  ASSUME HostInv, Asks, NEW s \in Session, NEW types, types \subseteq LeavesTools,
         Dispatches(s, types),
         UNCHANGED <<created, runs, pendingPermissions, toolCallAgents>>
  PROVE  Asks'
<1>1. PICK a \in SessionAction : a.type \in LeavesTools /\ host' = Dispatch(host, s, a)
  BY DEF Dispatches
<1>2. SoundHost(host)
  BY DEF HostInv, TurnsInv
<1> DEFINE st == host.sessions[s]
<1>3. \A r \in Session \ {s} : host'.sessions[r] = host.sessions[r]
  BY <1>1, <1>2, DispatchSessions
<1>4. ASSUME host'.sessions[s] # None
      PROVE  AsksAt(host'.sessions[s], pendingPermissions[s], runs[s], Routed(s))
  <2>1. st # None /\ Sound(st) /\ host'.sessions[s] = Reduce(st, a)
    BY <1>1, <1>2, <1>4, DispatchSessions
  <2>2. AsksAt(st, pendingPermissions[s], runs[s], Routed(s))
    BY <2>1 DEF Asks
  <2>3. \A c, x : Shows(Reduce(st, a), c, x) <=> Shows(st, c, x)
    BY <1>1, <2>1, ShowsSame
  <2> QED
    BY <2>1, <2>2, <2>3 DEF AsksAt
<1>5. \A r \in Session : Routed(r)' = Routed(r)
  BY DEF Routed
<1>6. s \in created' \/ pendingPermissions'[s] = {}
  BY DEF Asks
<1> QED
  BY <1>3, <1>4, <1>5, <1>6, StepAsks DEF OthersAsk

\* A new turn shows no tool call.
LEMMA LaunchAsks ==
  ASSUME HostInv, Asks, NEW s \in Session, s \in created, UNCHANGED created,
         NEW h, SoundHost(h), h.sessions[s] # None,
         \A r \in Session \ {s} : h.sessions[r] = host.sessions[r] /\ runs'[r] = runs[r],
         pendingPermissions[s] = {}, runs'[s] = <<>>,
         UNCHANGED <<pendingPermissions, toolCallAgents>>,
         NEW t \in TurnId, NEW text \in Text, NEW q \in MessageId \cup {None},
         Launch(h, s, t, text, q)
  PROVE  Asks'
<1>1. /\ host'.sessions[s].activeTurn.parts = <<>>
      /\ \A r \in Session \ {s} : host'.sessions[r] = h.sessions[r]
  BY LaunchActive
<1>2. DOMAIN <<>> = {}
  OBVIOUS
<1>3. Quiet(host'.sessions[s], pendingPermissions'[s])
  BY <1>1, <1>2 DEF Quiet, Shows
<1>4. AsksAt(host'.sessions[s], pendingPermissions'[s], runs'[s], Routed(s)')
  BY <1>3, QuietAsks
<1>5. \A r \in Session : Routed(r)' = Routed(r)
  BY DEF Routed
<1> QED
  BY <1>1, <1>4, <1>5, StepAsks DEF OthersAsk

\* The agent starts the call it is at, and it is routed before it can ask.
LEMMA ToolStartAsks ==
  ASSUME HostInv, InStep, Asks, Routes, NEW s \in Session, ToolStart(s)
  PROVE  Asks' /\ Routes'
<1>1. PICK c \in ToolCallId :
        /\ toolOf[c] = None /\ SetTool(s, c, 0)
        /\ toolOf' = [toolOf EXCEPT ![c] = Current(s).turn]
        /\ toolCallAgents' = toolCallAgents \cup {<<s, c>>}
        /\ IF HasActiveTurn(host, s)
           THEN host' = Dispatch(
                  Dispatch(host, s, [type |-> "toolCallStart",
                                     turn |-> ActiveTurnId(host, s), tool |-> c]),
                  s, [type |-> "toolCallReady", turn |-> ActiveTurnId(host, s), tool |-> c,
                      confirmed |-> "notNeeded"])
           ELSE UNCHANGED host
  BY DEF ToolStart
<1>2. Working(s) /\ runs[s] # <<>> /\ SoundHost(host)
  BY DEF ToolStart, Working, HostInv, TurnsInv
<1>3. /\ \A r \in Session \ {s} : runs'[r] = runs[r]
      /\ s \in created
      /\ host.sessions[s] # None =>
           runs'[s] = <<[turn |-> Current(s).turn, tool |-> c, asks |-> 0]>>
  BY <1>1, <1>2, SetToolIs, Bounds
<1>4. /\ Routed(s)' = Routed(s) \cup {c}
      /\ \A r \in Session \ {s} : Routed(r)' = Routed(r)
  BY <1>1 DEF Routed
<1>5. Routes'
  <2>1. \A r \in Session : c \notin Routed(r)
    BY <1>1 DEF Routes
  <2>2. Current(s).turn \in TurnId /\ toolOf \in [ToolCallId -> TurnId \cup {None}]
    BY <1>2, CurrentType DEF Run, HostInv, OthersType
  <2>3. toolOf'[c] # None /\ \A d \in ToolCallId : toolOf[d] # None => toolOf'[d] # None
    BY <1>1, <2>2, NoneIsNoId
  <2>4. \A r \in Session : Routed(r) \subseteq ToolCallId
    BY DEF Routed
  <2>5. ASSUME NEW r \in Session, NEW d \in Routed(r)'
        PROVE  toolOf'[d] # None
    BY <1>4, <2>3, <2>4, <2>5 DEF Routes
  <2>6. ASSUME NEW r \in Session, NEW u \in Session, NEW d \in Routed(r)', d \in Routed(u)'
        PROVE  r = u
    <3>1. CASE d = c
      BY <1>4, <2>1, <2>6, <3>1
    <3>2. CASE d # c
      BY <1>4, <2>6, <3>2 DEF Routes
    <3> QED
      BY <3>1, <3>2
  <2> QED
    BY <2>5, <2>6 DEF Routes
<1>6. CASE host.sessions[s] = None
  <2>1. host' = host
    BY <1>1, <1>6 DEF HasActiveTurn
  <2>2. Asks'
    BY <1>3, <1>4, <1>6, <2>1, StepAsks DEF OthersAsk, ToolStart
  <2> QED
    BY <1>5, <2>2
<1>7. CASE host.sessions[s] # None
  <2> DEFINE st == host.sessions[s]
             t == ActiveTurnId(host, s)
             start == [type |-> "toolCallStart", turn |-> t, tool |-> c]
             ready == [type |-> "toolCallReady", turn |-> t, tool |-> c,
                       confirmed |-> "notNeeded"]
             h == Dispatch(host, s, start)
             mid == Reduce(st, start)
  <2>1. HasActiveTurn(host, s)
    BY <1>2, <1>7, RunUnderWay
  <2>2. /\ start \in SessionAction /\ start.type = "toolCallStart"
        /\ start.tool = c /\ start.turn = t
        /\ ready \in SessionAction /\ ready.type = "toolCallReady"
        /\ ready.tool = c /\ ready.turn = t /\ ready.confirmed = "notNeeded"
    BY <2>1, ToolStartIs
  <2>3. host' = Dispatch(h, s, ready)
    BY <1>1, <2>1
  <2>4. Quiet(st, pendingPermissions[s])
    BY <1>2, <1>7, IsQuiet
  <2> HIDE DEF start, ready, h, t
  <2>5. /\ Sound(st) /\ st.activeTurn # None /\ IsActive(st, t)
    BY <1>2, <2>1, DispatchSessions DEF HasActiveTurn, ActiveTurnId, IsActive, t
  <2>6. /\ SoundHost(h) /\ h.sessions[s] = mid /\ mid # None
        /\ \A r \in Session \ {s} : h.sessions[r] = host.sessions[r]
    BY <1>2, <1>7, <2>2, <2>5, DispatchSound, DispatchSessions, ReduceQueue DEF h
  <2>7. /\ Sound(mid) /\ host'.sessions[s] = Reduce(mid, ready)
        /\ \A r \in Session \ {s} : host'.sessions[r] = h.sessions[r]
    BY <2>3, <2>6, DispatchSessions
  <2>8. SameTurns(st, mid)
    BY <2>2, <2>5, ReduceParts DEF TurnAction
  <2> HIDE DEF mid
  <2>9. IsActive(mid, ready.turn)
    BY <2>2, <2>5, <2>8 DEF SameTurns, IsActive
  <2>10. /\ Shows(mid, c, "streaming")
         /\ \A d : Shows(mid, d, "pendingConfirmation") => Shows(st, d, "pendingConfirmation")
    BY <2>2, <2>5, ShowsStarted DEF mid
  <2>11. Shows(Reduce(mid, ready), c, "running") /\ ~Shows(Reduce(mid, ready), c, "pendingConfirmation")
    BY <2>2, <2>4, <2>7, <2>9, <2>10, ShowsReady DEF Quiet
  <2>12. \A d : d # c => (Shows(Reduce(mid, ready), d, "pendingConfirmation")
                           <=> Shows(mid, d, "pendingConfirmation"))
    BY <2>2, <2>7, <2>9, ShowsUpdated DEF UpdatesTool
  <2>13. Quiet(host'.sessions[s], pendingPermissions[s])
    BY <2>4, <2>7, <2>10, <2>11, <2>12 DEF Quiet
  <2> DEFINE run == [turn |-> Current(s).turn, tool |-> c, asks |-> 0]
  <2>14. run.tool = c /\ runs'[s] = <<run>>
    BY <1>3, <1>7
  <2> HIDE DEF run
  <2>15. Head(runs'[s]) = run
    BY <2>14
  <2>16. AsksAt(host'.sessions[s], pendingPermissions'[s], runs'[s], Routed(s)')
    BY <1>4, <2>7, <2>11, <2>13, <2>14, <2>15 DEF Quiet, AsksAt, ToolStart
  <2>17. OthersAsk(s) /\ created' = created
    BY <1>3, <1>4, <2>6, <2>7 DEF OthersAsk, ToolStart
  <2>18. Asks'
    BY <1>3, <2>16, <2>17, StepAsks
  <2> QED
    BY <1>5, <2>18
<1> QED
  BY <1>6, <1>7

\* The effect of an event that updates the call the run is at.
LEMMA EventUpdates ==
  ASSUME HostInv, InStep, NEW s \in Session, Working(s), host.sessions[s] # None,
         NEW a \in SessionAction, a.type \in UpdatesTool, a.turn = ActiveTurnId(host, s),
         host' = Dispatch(host, s, a)
  PROVE  /\ Sound(host.sessions[s]) /\ IsActive(host.sessions[s], a.turn)
         /\ host'.sessions[s] = Reduce(host.sessions[s], a)
         /\ \A c : c # a.tool =>
              (Shows(host'.sessions[s], c, "pendingConfirmation")
                 <=> Shows(host.sessions[s], c, "pendingConfirmation"))
<1>1. HasActiveTurn(host, s)
  BY RunUnderWay DEF Working
<1>2. SoundHost(host)
  BY DEF HostInv, TurnsInv
<1>3. /\ Sound(host.sessions[s]) /\ IsActive(host.sessions[s], a.turn)
      /\ host'.sessions[s] = Reduce(host.sessions[s], a)
  BY <1>1, <1>2, DispatchSessions DEF HasActiveTurn, ActiveTurnId, IsActive
<1>4. \A c : c # a.tool =>
        (Shows(host'.sessions[s], c, "pendingConfirmation")
           <=> Shows(host.sessions[s], c, "pendingConfirmation"))
  BY <1>3, ShowsUpdated
<1> QED
  BY <1>3, <1>4

\* A call asks once: it is approved at once, or the user is asked and can answer.
LEMMA AskPermissionAsks ==
  ASSUME MaxAsks <= 1, HostInv, InStep, Asks, Routes, NEW s \in Session, AskPermission(s)
  PROVE  Asks' /\ Routes'
<1> DEFINE c == Current(s).tool
           run == [turn |-> Current(s).turn, tool |-> c, asks |-> Current(s).asks + 1]
<1>1. /\ Working(s) /\ c # None /\ Current(s).asks < MaxAsks /\ runs[s] # <<>>
      /\ SetTool(s, c, Current(s).asks + 1)
      /\ UNCHANGED <<created, toolOf>>
  BY DEF AskPermission, Working
<1>2. Current(s).asks = 0 /\ c \in ToolCallId
  BY <1>1, CurrentType, Bounds DEF Run
<1>3. Current(s).asks + 1 \in 0 .. MaxAsks
  BY <1>1, <1>2, Bounds
<1>4. /\ \A r \in Session \ {s} : runs'[r] = runs[r]
      /\ s \in created
      /\ host.sessions[s] # None => run \in Run /\ runs'[s] = <<run>>
  BY <1>1, <1>2, <1>3, SetToolIs
<1>5. run.asks # 0 /\ run.tool = c
  BY <1>2
<1> HIDE DEF run, c
<1>6. toolCallAgents' = toolCallAgents \/ toolCallAgents' = toolCallAgents \ {<<s, c>>}
  BY DEF AskPermission, c
<1>7. Routes'
  BY <1>1, <1>6, RoutesKept
<1>8. \A r \in Session \ {s} : Routed(r)' = Routed(r)
  BY <1>6 DEF Routed
<1>9. \A r \in Session \ {s} : host'.sessions[r] = host.sessions[r]
  BY EventDispatches, DispatchesActive DEF TurnEnd
<1>10. pendingPermissions' = pendingPermissions \/ pendingPermissions' = [pendingPermissions EXCEPT ![s] = @ \cup {c}]
  BY DEF AskPermission, c
<1>11. pendingPermissions \in [Session -> SUBSET ToolCallId]
  BY DEF HostInv, OthersType
<1>12. OthersAsk(s) /\ created' = created
  BY <1>1, <1>4, <1>8, <1>9, <1>10, <1>11 DEF OthersAsk
<1>13. ASSUME host'.sessions[s] # None
       PROVE  AsksAt(host'.sessions[s], pendingPermissions'[s], runs'[s], Routed(s)')
  <2> DEFINE st == host.sessions[s]
  <2>1. st # None
    BY <1>13, EventDispatches, DispatchesActive DEF SameActive, TurnEnd
  <2>2. HasActiveTurn(host, s)
    BY <1>1, <2>1, RunUnderWay
  <2>3. Quiet(st, pendingPermissions[s])
    BY <1>1, <2>1, IsQuiet
  <2>4. Head(runs'[s]) = run
    BY <1>4, <2>1
  <2>5. AsksAt(st, pendingPermissions[s], runs[s], Routed(s))
    BY <2>1 DEF Asks
  <2>6. c \in Routed(s) /\ Shows(st, c, "running")
    BY <1>1, <1>2, <2>5 DEF AsksAt, Current, c
  <2>7. CASE UNCHANGED <<host, pendingPermissions>>
    BY <1>5, <2>3, <2>4, <2>7, QuietAsks
  <2>8. CASE ~UNCHANGED <<host, pendingPermissions>>
    <3> DEFINE a == [type |-> "toolCallReady", turn |-> ActiveTurnId(host, s), tool |-> c,
                     confirmed |-> "none"]
    <3>1. /\ host' = Dispatch(host, s, a)
          /\ pendingPermissions' = [pendingPermissions EXCEPT ![s] = @ \cup {c}]
          /\ toolCallAgents' = toolCallAgents
      BY <2>2, <2>8 DEF AskPermission, c
    <3>2. ActiveTurnId(host, s) \in TurnId
      BY <2>2, ActiveTurnIdType DEF HostInv, TurnsInv
    <3>3. /\ a \in SessionAction /\ a.type = "toolCallReady" /\ a.turn = ActiveTurnId(host, s)
          /\ a.tool = c /\ a.confirmed = "none"
      BY <1>2, <3>2 DEF SessionAction
    <3> HIDE DEF a
    <3>4. /\ Sound(st) /\ IsActive(st, a.turn) /\ host'.sessions[s] = Reduce(st, a)
          /\ \A d : d # a.tool => (Shows(host'.sessions[s], d, "pendingConfirmation")
                                     <=> Shows(st, d, "pendingConfirmation"))
      BY <1>1, <2>1, <3>1, <3>3, EventUpdates DEF UpdatesTool
    <3>5. Shows(host'.sessions[s], c, "pendingConfirmation")
      BY <2>6, <3>3, <3>4, ShowsReady
    <3>6. pendingPermissions'[s] = {c}
      BY <1>11, <2>3, <3>1 DEF Quiet
    <3>7. \A d \in ToolCallId : d \in {c} <=> Shows(host'.sessions[s], d, "pendingConfirmation")
      BY <2>3, <3>3, <3>4, <3>5 DEF Quiet
    <3>8. c \in Routed(s)'
      BY <2>6, <3>1 DEF Routed
    <3>9. runs'[s] # <<>>
      <4>1. \A x : <<x>> # <<>>
        OBVIOUS
      <4> QED
        BY <1>4, <2>1, <4>1
    <3> QED
      BY <1>5, <2>4, <3>6, <3>7, <3>8, <3>9 DEF AsksAt
  <2> QED
    BY <2>7, <2>8
<1>14. Asks'
  BY <1>4, <1>12, <1>13, StepAsks
<1> QED
  BY <1>7, <1>14

\* The call the run was at is over, and nothing is asked.
LEMMA ToolCompleteAsks ==
  ASSUME HostInv, InStep, Asks, Routes, NEW s \in Session, ToolComplete(s)
  PROVE  Asks' /\ Routes'
<1> DEFINE c == Current(s).tool
           run == [turn |-> Current(s).turn, tool |-> None, asks |-> 0]
<1>1. /\ Working(s) /\ c # None /\ runs[s] # <<>> /\ SetTool(s, None, 0)
      /\ UNCHANGED <<created, toolOf, toolCallAgents, pendingPermissions>>
  BY DEF ToolComplete, Working
<1>2. c \in ToolCallId /\ 0 \in 0 .. MaxAsks
  BY <1>1, CurrentType, Bounds DEF Run
<1>3. /\ \A r \in Session \ {s} : runs'[r] = runs[r]
      /\ s \in created
      /\ host.sessions[s] # None => run \in Run /\ runs'[s] = <<run>>
  BY <1>1, <1>2, SetToolIs
<1>4. run.tool = None
  OBVIOUS
<1> HIDE DEF run, c
<1>5. Routes' /\ \A r \in Session : Routed(r)' = Routed(r)
  BY <1>1, RoutesKept DEF Routed
<1>6. \A r \in Session \ {s} : host'.sessions[r] = host.sessions[r]
  BY EventDispatches, DispatchesActive DEF TurnEnd
<1>7. OthersAsk(s)
  BY <1>1, <1>3, <1>5, <1>6 DEF OthersAsk
<1>8. ASSUME host'.sessions[s] # None
      PROVE  AsksAt(host'.sessions[s], pendingPermissions'[s], runs'[s], Routed(s)')
  <2> DEFINE st == host.sessions[s]
  <2>1. st # None
    BY <1>8, EventDispatches, DispatchesActive DEF SameActive, TurnEnd
  <2>2. HasActiveTurn(host, s)
    BY <1>1, <2>1, RunUnderWay
  <2>3. Quiet(st, pendingPermissions[s])
    BY <1>1, <2>1, IsQuiet
  <2>4. Head(runs'[s]) = run
    BY <1>3, <2>1
  <2> DEFINE a == [type |-> "toolCallComplete", turn |-> ActiveTurnId(host, s), tool |-> c,
                   needsResult |-> FALSE]
  <2>5. host' = Dispatch(host, s, a)
    BY <2>2 DEF ToolComplete, c
  <2>6. ActiveTurnId(host, s) \in TurnId
    BY <2>2, ActiveTurnIdType DEF HostInv, TurnsInv
  <2>7. /\ a \in SessionAction /\ a.type = "toolCallComplete" /\ a.turn = ActiveTurnId(host, s)
        /\ a.tool = c
    BY <1>2, <2>6 DEF SessionAction
  <2> HIDE DEF a
  <2>8. /\ Sound(st) /\ IsActive(st, a.turn) /\ host'.sessions[s] = Reduce(st, a)
        /\ \A d : d # a.tool => (Shows(host'.sessions[s], d, "pendingConfirmation")
                                   <=> Shows(st, d, "pendingConfirmation"))
    BY <1>1, <2>1, <2>5, <2>7, EventUpdates DEF UpdatesTool
  <2>9. ~Shows(host'.sessions[s], a.tool, "pendingConfirmation")
    BY <2>7, <2>8, ShowsAnswered
  <2>10. Quiet(host'.sessions[s], pendingPermissions'[s])
    BY <1>1, <2>3, <2>8, <2>9 DEF Quiet
  <2> QED
    BY <1>4, <2>4, <2>10, QuietAsks
<1>9. Asks'
  BY <1>1, <1>3, <1>7, <1>8, StepAsks
<1> QED
  BY <1>5, <1>9

\* The answer takes the question off the screen, and the agent has it.
LEMMA ConfirmAsks ==
  ASSUME "late" \notin Environment, HostInv, InStep, Asks, Routes,
         NEW s \in Session, ConfirmToolCall(s)
  PROVE  Asks' /\ Routes'
<1>1. PICK t \in TurnId, c \in ToolCallId, ok \in BOOLEAN :
        /\ CallShown(s, t, c, "pendingConfirmation")
        /\ host' = Dispatch(host, s, [type |-> "toolCallConfirmed", turn |-> t,
                                      tool |-> c, approved |-> ok])
        /\ toolCallAgents' = toolCallAgents \ {<<s, c>>}
        /\ pendingPermissions' =
             IF <<s, c>> \in toolCallAgents
             THEN [r \in Session |-> pendingPermissions[r] \ {c}]
             ELSE pendingPermissions
  BY DEF ConfirmToolCall, Shown
<1>2. UNCHANGED <<created, runs, toolOf>>
  BY DEF ConfirmToolCall
<1> DEFINE st == host.sessions[s]
           a == [type |-> "toolCallConfirmed", turn |-> t, tool |-> c, approved |-> ok]
<1>3. st # None /\ IsActive(st, t) /\ Shows(st, c, "pendingConfirmation")
  BY <1>1 DEF CallShown, HasActiveTurn, ActiveTurnId, IsActive, Shows
<1>4. AsksAt(st, pendingPermissions[s], runs[s], Routed(s)) /\ s \in created
  BY <1>3 DEF Asks, InStep, InStepAt
<1>5. c \in pendingPermissions[s] /\ c \in Routed(s)
  BY <1>3, <1>4 DEF AsksAt
<1>6. runs[s] # <<>> /\ Head(runs[s]).tool = c /\ Head(runs[s]).asks # 0
  BY <1>4, <1>5 DEF AsksAt
<1>7. \A d \in pendingPermissions[s] : d = c
  BY <1>4, <1>6 DEF AsksAt
<1>8. pendingPermissions' = [r \in Session |-> pendingPermissions[r] \ {c}]
  BY <1>1, <1>5 DEF Routed
<1>9. Routes' /\ \A r \in Session \ {s} : Routed(r)' = Routed(r)
  BY <1>1, <1>2, RoutesKept DEF Routed
<1>10. /\ a \in SessionAction /\ a.type = "toolCallConfirmed" /\ a.turn = t /\ a.tool = c
       /\ host' = Dispatch(host, s, a) /\ SoundHost(host)
  BY <1>1 DEF SessionAction, HostInv, TurnsInv
<1> HIDE DEF a
<1>11. /\ Sound(st) /\ host'.sessions[s] = Reduce(st, a)
       /\ \A r \in Session \ {s} : host'.sessions[r] = host.sessions[r]
  BY <1>3, <1>10, DispatchSessions
<1> HIDE DEF st
<1>12. ~Shows(host'.sessions[s], c, "pendingConfirmation")
  BY <1>3, <1>10, <1>11, ShowsAnswered
<1>13. \A d : d # c => (Shows(host'.sessions[s], d, "pendingConfirmation")
                          <=> Shows(st, d, "pendingConfirmation"))
  BY <1>3, <1>10, <1>11, ShowsUpdated DEF UpdatesTool
<1>14. pendingPermissions'[s] = {}
  BY <1>7, <1>8
<1>15. \A d \in ToolCallId : ~Shows(host'.sessions[s], d, "pendingConfirmation")
  BY <1>4, <1>7, <1>12, <1>13 DEF AsksAt
<1>16. AsksAt(host'.sessions[s], pendingPermissions'[s], runs'[s], Routed(s)')
  BY <1>2, <1>6, <1>14, <1>15, QuietAsks DEF Quiet
<1>17. ASSUME NEW r \in Session, r # s, host.sessions[r] # None
       PROVE  pendingPermissions'[r] = pendingPermissions[r]
  <2>1. AsksAt(host.sessions[r], pendingPermissions[r], runs[r], Routed(r))
    BY <1>17 DEF Asks
  <2>2. c \notin Routed(r)
    BY <1>5, <1>17 DEF Routes
  <2>3. c \notin pendingPermissions[r]
    BY <2>1, <2>2 DEF AsksAt
  <2> QED
    BY <1>8, <2>3
<1>18. \A r \in Session : pendingPermissions'[r] \subseteq pendingPermissions[r]
  BY <1>8
<1>19. Asks'
  <2>1. ASSUME NEW r \in Session, r # s
        PROVE  /\ host'.sessions[r] # None =>
                    AsksAt(host'.sessions[r], pendingPermissions'[r], runs'[r], Routed(r)')
               /\ r \notin created' => pendingPermissions'[r] = {}
    <3>1. r \notin created' => pendingPermissions'[r] = {}
      BY <1>2, <1>18 DEF Asks
    <3>2. ASSUME host'.sessions[r] # None
          PROVE  AsksAt(host'.sessions[r], pendingPermissions'[r], runs'[r], Routed(r)')
      <4>1. AsksAt(host.sessions[r], pendingPermissions[r], runs[r], Routed(r))
        BY <1>11, <2>1, <3>2 DEF Asks
      <4> QED
        BY <1>2, <1>9, <1>11, <1>17, <2>1, <3>2, <4>1
    <3> QED
      BY <3>1, <3>2
  <2> QED
    BY <1>2, <1>4, <1>16, <2>1 DEF Asks
<1> QED
  BY <1>9, <1>19

LEMMA TryConsumeAsks ==
  ASSUME HostInv, InStep, Asks, NEW s \in Session, NEW h, SoundHost(h), TryConsumeNext(h, s),
         \A r \in Session \ {s} : h.sessions[r] = host.sessions[r] /\ runs'[r] = runs[r],
         s \in created, UNCHANGED <<created, pendingPermissions, toolCallAgents>>,
         h.sessions[s] # None =>
           AsksAt(h.sessions[s], pendingPermissions[s], runs'[s], Routed(s)),
         h.sessions[s] # None /\ ~HasActiveTurn(h, s) => runs'[s] = <<>>
  PROVE  Asks'
<1>1. CASE Consumes(h, s)
  <2>1. PICK t \in TurnId, text \in Text, q \in MessageId : Launch(h, s, t, text, q)
    BY <1>1 DEF Consumes
  <2>2. h.sessions[s] # None /\ ~HasActiveTurn(h, s)
    BY <1>1 DEF Consumes, QueueReady, HasActiveTurn
  <2>3. runs'[s] = <<>> /\ pendingPermissions[s] = {}
    BY <2>2 DEF AsksAt
  <2> QED
    BY <2>1, <2>2, <2>3, LaunchAsks
<1>2. CASE host' = h
  <2>1. \A r \in Session : Routed(r)' = Routed(r)
    BY DEF Routed
  <2>2. OthersAsk(s)
    BY <1>2, <2>1 DEF OthersAsk
  <2> QED
    BY <1>2, <2>1, <2>2, StepAsks
<1> QED
  BY <1>1, <1>2, TryConsumeNextIs

LEMMA ChangePendingAsks ==
  ASSUME HostInv, InStep, Asks, Routes, NEW s \in Session, ChangePending(s)
  PROVE  Asks' /\ Routes'
<1>1. PICK a \in PendingAction(s) : TryConsumeNext(Dispatch(host, s, a), s)
  BY DEF ChangePending
<1> DEFINE h == Dispatch(host, s, a)
<1>2. a \in SessionAction /\ a.type \in LeavesTools /\ SoundHost(host)
      /\ a.type \notin TurnEnd \cup {"turnStarted"}
  BY PendingActionType DEF HostInv, TurnsInv, LeavesTools
<1>3. /\ SoundHost(h) /\ SameActive(host, h, s)
      /\ \A r \in Session \ {s} : h.sessions[r] = host.sessions[r]
  BY <1>2, DispatchSound, DispatchActive
<1>4. TryConsumeNext(h, s)
  BY <1>1
<1>5. runs' = runs /\ s \in created /\ UNCHANGED <<created, pendingPermissions, toolCallAgents, toolOf>>
  BY DEF ChangePending
<1>6. ASSUME h.sessions[s] # None
      PROVE  AsksAt(h.sessions[s], pendingPermissions[s], runs'[s], Routed(s))
  <2> DEFINE st == host.sessions[s]
  <2>1. st # None /\ Sound(st) /\ h.sessions[s] = Reduce(st, a)
    BY <1>2, <1>6, DispatchSessions
  <2>2. AsksAt(st, pendingPermissions[s], runs[s], Routed(s))
    BY <2>1 DEF Asks
  <2> HIDE DEF h
  <2>3. \A c, x : Shows(Reduce(st, a), c, x) <=> Shows(st, c, x)
    BY <1>2, <2>1, ShowsSame
  <2> QED
    BY <1>5, <2>1, <2>2, <2>3 DEF AsksAt
<1> HIDE DEF h
<1>7. h.sessions[s] # None /\ ~HasActiveTurn(h, s) => runs'[s] = <<>>
  BY <1>3, <1>5 DEF SameActive, InStep, InStepAt, Paced
<1>8. Asks'
  BY <1>3, <1>4, <1>5, <1>6, <1>7, TryConsumeAsks
<1>9. Routes'
  BY <1>5, RoutesKept
<1> QED
  BY <1>8, <1>9

\* With the run, its questions are over.
LEMMA AgentEndAsks ==
  ASSUME HostInv, InStep, Asks, Routes, NEW s \in Session, AgentIdle(s) \/ AgentError(s)
  PROVE  Asks' /\ Routes'
<1>1. PICK type \in {"turnComplete", "error"} :
        TryConsumeNext(EndActive(s, type), s) \/ host' = EndActive(s, type)
  BY DEF AgentIdle, AgentError
<1> DEFINE h == EndActive(s, type)
<1>2. /\ Working(s) /\ UNCHANGED <<created, pendingPermissions, toolCallAgents, toolOf>>
      /\ runs' = [runs EXCEPT ![s] = Tail(@)]
  BY DEF AgentIdle, AgentError
<1>3. /\ SoundHost(h) /\ s \in created
      /\ \A r \in Session \ {s} : h.sessions[r] = host.sessions[r]
      /\ h.sessions[s] # None => ~HasActiveTurn(h, s) /\ calls[s] = <<>> /\ Tail(runs[s]) = <<>>
  BY <1>2, EndActiveInStep
<1>4. TryConsumeNext(h, s) \/ host' = h
  BY <1>1
<1>5. h.sessions[s] # None => host.sessions[s] # None
  BY DispatchSessions DEF EndActive, HostInv, TurnsInv
<1> HIDE DEF h
<1>6. runs'[s] = Tail(runs[s]) /\ \A r \in Session \ {s} : runs'[r] = runs[r]
  BY <1>2 DEF HostInv, OthersType
<1>7. ASSUME h.sessions[s] # None
      PROVE  AsksAt(h.sessions[s], pendingPermissions[s], runs'[s], Routed(s))
  <2>1. pendingPermissions[s] = {}
    BY <1>2, <1>5, <1>7, IsQuiet DEF Quiet
  <2>2. Quiet(h.sessions[s], pendingPermissions[s])
    BY <1>3, <1>7, <2>1 DEF Quiet, Shows, HasActiveTurn
  <2>3. runs'[s] = <<>>
    BY <1>3, <1>6, <1>7
  <2> QED
    BY <2>2, <2>3, QuietAsks
<1>8. Routes' /\ \A r \in Session : Routed(r)' = Routed(r)
  BY <1>2, RoutesKept DEF Routed
<1>9. CASE TryConsumeNext(h, s)
  BY <1>2, <1>3, <1>6, <1>7, <1>8, <1>9, TryConsumeAsks
<1>10. CASE host' = h
  <2>1. OthersAsk(s)
    BY <1>2, <1>3, <1>6, <1>8, <1>10 DEF OthersAsk
  <2> QED
    BY <1>2, <1>3, <1>7, <1>8, <1>10, <2>1, StepAsks
<1> QED
  BY <1>4, <1>9, <1>10

LEMMA SendAsks ==
  ASSUME HostInv, InStep, Asks, Routes, NEW s \in Session, SendAccepted(s) \/ SendFailed(s) \/ AbortTaken(s)
  PROVE  Asks' /\ Routes'
<1>1. UNCHANGED <<created, pendingPermissions, toolCallAgents, toolOf>>
  BY DEF SendAccepted, SendFailed, AbortTaken
<1>2. PICK k \in DOMAIN calls[s] :
        \/ /\ host' = host /\ calls[s][k].op = "send"
           /\ runs' = [runs EXCEPT ![s] =
                         Append(@, [turn |-> calls[s][k].turn, tool |-> None, asks |-> 0])]
        \/ /\ host' = Dispatch(host, s, [type |-> "error", turn |-> calls[s][k].turn])
           /\ runs' = runs
        \/ /\ host' = host /\ calls[s][k].op = "abort"
           /\ runs' = [runs EXCEPT ![s] = IF @ = <<>> THEN @ ELSE Tail(@)]
  BY DEF SendAccepted, SendFailed, AbortTaken
<1>3. /\ s \in created
      /\ host.sessions[s] # None =>
           /\ HasActiveTurn(host, s) /\ runs[s] = <<>>
           /\ calls[s][k].op = "send" /\ calls[s][k].turn = ActiveTurnId(host, s)
  BY CallInFlight
<1>4. Routes' /\ \A r \in Session : Routed(r)' = Routed(r)
  BY <1>1, RoutesKept DEF Routed
<1>5. runs \in [Session -> Seq(Run)] /\ SoundHost(host)
  BY DEF HostInv, OthersType, TurnsInv
<1> DEFINE a == [type |-> "error", turn |-> calls[s][k].turn]
<1>6. a \in SessionAction /\ a.type \in TurnEnd /\ a.turn = calls[s][k].turn
  BY CallTurn DEF SessionAction, TurnActionType, TurnEnd
<1>7. host' = host \/ host' = Dispatch(host, s, a)
  BY <1>2
<1> HIDE DEF a
<1>8. /\ \A r \in Session \ {s} : host'.sessions[r] = host.sessions[r]
      /\ host'.sessions[s] # None => host.sessions[s] # None
  BY <1>5, <1>6, <1>7, DispatchSessions
<1>9. \A r \in Session \ {s} : runs'[r] = runs[r]
  BY <1>2, <1>5
<1>10. OthersAsk(s)
  BY <1>1, <1>4, <1>8, <1>9 DEF OthersAsk
<1>11. ASSUME host'.sessions[s] # None
       PROVE  AsksAt(host'.sessions[s], pendingPermissions'[s], runs'[s], Routed(s)')
  <2>1. /\ host.sessions[s] # None /\ HasActiveTurn(host, s) /\ runs[s] = <<>>
        /\ calls[s][k].op = "send" /\ a.turn = ActiveTurnId(host, s)
    BY <1>3, <1>6, <1>8, <1>11
  <2>2. Quiet(host.sessions[s], pendingPermissions[s])
    BY <2>1, IsQuiet
  <2>3. CASE host' = host /\ runs' = [runs EXCEPT ![s] =
               Append(@, [turn |-> calls[s][k].turn, tool |-> None, asks |-> 0])]
    <3> DEFINE run == [turn |-> calls[s][k].turn, tool |-> None, asks |-> 0]
    <3>1. run.tool = None
      OBVIOUS
    <3>2. runs'[s] = Append(<<>>, run)
      BY <1>5, <2>1, <2>3
    <3> HIDE DEF run
    <3>3. Head(Append(<<>>, run)) = run
      OBVIOUS
    <3> QED
      BY <1>1, <2>2, <2>3, <3>1, <3>2, <3>3, QuietAsks
  <2>4. CASE host' = Dispatch(host, s, a) /\ runs' = runs
    <3>1. ~HasActiveTurn(host', s)
      BY <1>5, <1>6, <2>1, <2>4, DispatchActive
    <3>2. Quiet(host'.sessions[s], pendingPermissions'[s])
      BY <1>1, <1>11, <2>2, <3>1 DEF Quiet, Shows, HasActiveTurn
    <3> QED
      BY <2>1, <2>4, <3>2, QuietAsks
  <2> QED
    BY <1>2, <2>1, <2>3, <2>4 DEF a
<1>12. Asks'
  BY <1>1, <1>3, <1>10, <1>11, StepAsks
<1> QED
  BY <1>4, <1>12

LEMMA ComeAndGoAsks ==
  ASSUME "overlap" \notin Environment, HostInv, InStep, Asks, Routes, NEW s \in Session,
         CreateSession(s) \/ DisposeSession(s) \/ StartTurn(s)
  PROVE  Asks' /\ Routes'
<1>1. UNCHANGED <<toolCallAgents, toolOf>>
  BY DEF CreateSession, DisposeSession, StartTurn
<1>2. Routes' /\ \A r \in Session : Routed(r)' = Routed(r)
  BY <1>1, RoutesKept DEF Routed
<1>3. CASE CreateSession(s)
  <2>1. /\ host'.sessions[s].activeTurn = None
        /\ \A r \in Session \ {s} : host'.sessions[r] = host.sessions[r]
    BY <1>3, ComesAndGoes
  <2>2. pendingPermissions[s] = {} /\ runs[s] = <<>>
    BY <1>3 DEF CreateSession, Asks, InStep, InStepAt
  <2>3. UNCHANGED <<runs, pendingPermissions>> /\ created' = created \cup {s}
    BY <1>3 DEF CreateSession
  <2>4. Quiet(host'.sessions[s], pendingPermissions'[s])
    BY <2>1, <2>2, <2>3 DEF Quiet, Shows
  <2>5. AsksAt(host'.sessions[s], pendingPermissions'[s], runs'[s], Routed(s)')
    BY <2>2, <2>3, <2>4, QuietAsks
  <2>6. OthersAsk(s)
    BY <1>2, <2>1, <2>3 DEF OthersAsk
  <2> QED
    BY <1>2, <2>2, <2>3, <2>5, <2>6, StepAsks
<1>4. CASE DisposeSession(s)
  <2>1. host'.sessions[s] = None /\ \A r \in Session \ {s} : host'.sessions[r] = host.sessions[r]
    BY <1>4, ComesAndGoes
  <2>2. /\ \A r \in Session \ {s} : runs'[r] = runs[r] /\ pendingPermissions'[r] = pendingPermissions[r]
        /\ pendingPermissions'[s] = {} /\ created' = created
    BY <1>4 DEF DisposeSession, HostInv, OthersType
  <2>3. OthersAsk(s)
    BY <1>2, <2>1, <2>2 DEF OthersAsk
  <2> QED
    BY <1>2, <2>1, <2>2, <2>3, StepAsks
<1>5. CASE StartTurn(s)
  <2>1. /\ host.sessions[s] # None /\ ~HasActiveTurn(host, s) /\ s \in created /\ UNCHANGED created
        /\ \E t \in TurnId, m \in Text : Launch(host, s, t, m, None)
    BY <1>5, StartTurnIs
  <2>2. UNCHANGED <<runs, pendingPermissions, toolCallAgents>> /\ SoundHost(host)
    BY <1>5 DEF StartTurn, HostInv, TurnsInv
  <2>3. runs[s] = <<>>
    BY <2>1 DEF InStep, InStepAt, Paced
  <2>4. pendingPermissions[s] = {}
    BY <2>1, <2>3, IsQuiet DEF Quiet
  <2>5. Asks'
    BY <2>1, <2>2, <2>3, <2>4, LaunchAsks
  <2> QED
    BY <1>2, <2>5
<1> QED
  BY <1>3, <1>4, <1>5

LEMMA NextAsks ==
  ASSUME "overlap" \notin Environment, "cancel" \notin Environment, "late" \notin Environment,
         MaxAsks <= 1, HostInv, InStep, Asks, Routes, [Next]_vars
  PROVE  Asks' /\ Routes'
<1>1. ASSUME NEW s \in Session, SteeringTaken(s) \/ SteeringFailed(s) \/ AgentText(s)
      PROVE  Asks' /\ Routes'
  <2>1. UNCHANGED <<created, runs, pendingPermissions, toolCallAgents, toolOf>>
    BY <1>1 DEF SteeringTaken, SteeringFailed, AgentText
  <2>2. Routes'
    BY <2>1, RoutesKept
  <2>3. CASE SteeringTaken(s) \/ AgentText(s)
    <3>1. Dispatches(s, {"pendingMessageRemoved", "delta", "reasoning", "responsePart"})
      <4>1. CASE SteeringTaken(s)
        BY <4>1, CallDispatches DEF Dispatches
      <4>2. CASE AgentText(s)
        BY <4>2, AgentTextIs DEF Dispatches, TurnEnd
      <4> QED
        BY <2>3, <4>1, <4>2
    <3>2. Asks'
      BY <2>1, <3>1, DispatchesAsk DEF LeavesTools, PendingType
    <3> QED
      BY <2>2, <3>2
  <2>4. CASE SteeringFailed(s)
    BY <2>2, <2>4 DEF SteeringFailed, Asks, Routed
  <2> QED
    BY <1>1, <2>3, <2>4
<1>2. CASE UNCHANGED vars
  BY <1>2 DEF vars, Asks, Routes, Routed
<1>3. \A s \in Session : ~CancelTurn(s)
  BY DEF CancelTurn
<1> QED
  BY <1>1, <1>2, <1>3, ComeAndGoAsks, ConfirmAsks, ChangePendingAsks, ToolStartAsks,
     AskPermissionAsks, ToolCompleteAsks, AgentEndAsks, SendAsks
  DEF Next, ClientStep, AgentEvent, CallTaken

\* The agent waits for a permission exactly while the user is asked for it, and the
\* answer has its route, as long as clients act on what the host shows, nobody
\* cancels, and a tool call asks at most once: an agent is not left hanging, and no
\* question is left on screen, also when other sessions are disposed of, sends fail
\* or the agent stops with an error.
THEOREM QuestionsAreAnswerable ==
  ASSUME "overlap" \notin Environment, "cancel" \notin Environment, "late" \notin Environment,
         MaxAsks <= 1
  PROVE  Spec => []PermissionsAnswerable
<1>1. Init => Asks /\ Routes
  <2> SUFFICES ASSUME Init
               PROVE  Asks /\ Routes
    OBVIOUS
  <2>1. \A s \in Session : Routed(s) = {}
    BY DEF Init, Routed
  <2> QED
    BY <2>1 DEF Init, Asks, Routes
<1>2. HostInv /\ InStep /\ Asks /\ Routes /\ [Next]_vars => Asks' /\ Routes'
  BY NextAsks
<1>3. Asks => PermissionsAnswerable
  <2> SUFFICES ASSUME Asks, NEW s \in Session, NEW c \in ToolCallId, Live(s)
               PROVE  c \in pendingPermissions[s] <=>
                        /\ HasActiveTurn(host, s)
                        /\ CallShown(s, ActiveTurnId(host, s), c, "pendingConfirmation")
                        /\ <<s, c>> \in toolCallAgents
    BY DEF PermissionsAnswerable
  <2>1. AsksAt(host.sessions[s], pendingPermissions[s], runs[s], Routed(s))
    BY DEF Asks, Live
  <2>2. Shows(host.sessions[s], c, "pendingConfirmation") <=>
          HasActiveTurn(host, s) /\ CallShown(s, ActiveTurnId(host, s), c, "pendingConfirmation")
    BY DEF Shows, CallShown, HasActiveTurn, Live
  <2> QED
    BY <2>1, <2>2 DEF AsksAt, Routed
<1> QED
  BY <1>1, <1>2, <1>3, InStepInvariant, PTL DEF Spec
=============================================================================
