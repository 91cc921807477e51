--------------------------- MODULE MCSessionHost ---------------------------
(* Model checking of the agent host: the small sets, liveness, and claims  *)
(* of the documentation.                                                   *)
EXTENDS SessionHost, TLC

CONSTANTS s1, s2, c1, c2, m1, m2, p1, p2, p3, x1, d1

\* Sessions, tool calls, parts and messages have no order.
HostSymmetry == Permutations(Session) \cup Permutations(ToolCallId)
                \cup Permutations(PartId) \cup Permutations(MessageId)

-----------------------------------------------------------------------------
(* Every turn that starts ends, if the agent answers and the user answers  *)
(* what is asked: no permission, call or event is lost on the way.         *)
TurnsEnd ==
  \A s \in Session, t \in TurnId :
    (HasActiveTurn(host, s) /\ ActiveTurnId(host, s) = t)
      ~> ~(HasActiveTurn(host, s) /\ ActiveTurnId(host, s) = t)

\* Every queued message leaves the queue, to be sent or because it was removed.
QueueDrains ==
  \A s \in Session, m \in MessageId :
    (Live(s) /\ m \in QueuedIds(host.sessions[s].queued))
      ~> ~(Live(s) /\ m \in QueuedIds(host.sessions[s].queued))

-----------------------------------------------------------------------------
(* Claims of the documentation that the code does not keep.                *)

\* "so that incoming provider events (which carry only session URI) can be
\* associated with the correct active turn" (getActiveTurnId): when an event can
\* arrive and a turn is active, the event is about that turn.
EventsReachTheirTurn ==
  \A s \in Session :
    HasActiveTurn(host, s) /\ runs[s] # <<>> =>
      ActiveTurnId(host, s) = Current(s).turn

\* "Number of active (non-disposed) sessions on the server" (state.ts): whatever makes
\* a session active, one that is disposed is not counted, so that there are never fewer
\* sessions than are counted.  That there are as many is no claim of the code at all:
\* RootCountsActiveTurns says what it counts.
RootCountsLiveSessions ==
  host.activeSessions <= Cardinality({s \in Session : Live(s)})
=============================================================================
