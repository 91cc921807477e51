----------------------------- MODULE MCServices -----------------------------
(* Model checking of two services: the Copilot agent, and the chat with its  *)
(* paid requests and tools.  They share no variable; a behaviour runs one   *)
(* and leaves the other alone.                                              *)
EXTENDS CopilotSessions, AgentLoop

CONSTANTS
  s1, t1, a1, c1, c2, g1, none,
  Parts  \* the services that a run explores

VARIABLE part

servicesVars == <<part, copilotVars, loopVars>>

\* A service that does not run starts in one of its initial states.
ServicesInit ==
  /\ part \in Parts
  /\ CopilotInit /\ LoopInit
  /\ part # "copilot" => orderly = {} /\ stored = {}
  /\ part # "agent" => permitted

ServicesNext ==
  /\ \/ part = "copilot" /\ CopilotNext /\ UNCHANGED loopVars
     \/ part = "agent" /\ LoopNext /\ UNCHANGED copilotVars
  /\ UNCHANGED part

\* The fairness of a service asks nothing where that service never moves.
ServicesSpec ==
  ServicesInit /\ [][ServicesNext]_servicesVars /\ CopilotFairness /\ LoopFairness
=============================================================================
