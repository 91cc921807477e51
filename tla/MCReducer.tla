----------------------------- MODULE MCReducer ------------------------------
(* Model checking of the session reducer under every sequence of actions.  *)
EXTENDS ReducerMachine, TLC

CONSTANTS t1, t2, c1, c2, p1, m1, m2, m3, x1, u1, v1, k1

\* The session's own ids have no order, so runs are symmetric in them.
ReducerSymmetry == Permutations(TurnId) \cup Permutations(ToolCallId)
                   \cup Permutations(MessageId)

-----------------------------------------------------------------------------
(* Bounds.  Turns with their parts, pending messages and metadata concern  *)
(* each other only where a turn consumes a message.  A run explores one of  *)
(* them in full, and pending messages together with a turn without parts.   *)
NoTurns == session.turns = <<>> /\ session.activeTurn = None

NoPending == session.queued = <<>> /\ session.steering = None

NoMetadata ==
  session = [session EXCEPT !.meta = NewSession.meta,
                            !.activeClient = NewSession.activeClient,
                            !.customizations = NewSession.customizations]

OneConcern ==
  \/ NoPending /\ NoMetadata
  \/ NoMetadata /\ AllParts(session) = {} /\ Cardinality(Turns(session)) <= 1
  \/ NoTurns /\ NoPending
=============================================================================
