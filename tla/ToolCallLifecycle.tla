------------------------- MODULE ToolCallLifecycle --------------------------
(***************************************************************************)
(* What the protocol promises of each tool call, whatever turn it is in    *)
(* and whoever sends the actions: the life cycle that ToolCallStatus and   *)
(* the IToolCall...State types describe (common/state/protocol/state.ts).  *)
(* The two settled states are final.  One action may move several calls,   *)
(* as all that are open are cancelled with their turn.                     *)
(***************************************************************************)
CONSTANT ToolCallId

VARIABLE status   \* of each call; "absent" until it is started

Status == {"absent", "streaming", "pendingConfirmation", "running",
           "pendingResultConfirmation", "completed", "cancelled"}

Init == status = [c \in ToolCallId |-> "absent"]

Moves(c, from, to) == status[c] \in from /\ status'[c] = to

Start(c) == Moves(c, {"absent"}, "streaming")

\* Parameters are complete, or the running tool is confirmed once more.
AskConfirmation(c) == Moves(c, {"streaming", "running"}, "pendingConfirmation")

Run(c) == Moves(c, {"streaming", "pendingConfirmation"}, "running")

AskResultConfirmation(c) ==
  Moves(c, {"running", "pendingConfirmation"}, "pendingResultConfirmation")

Complete(c) ==
  Moves(c, {"running", "pendingConfirmation", "pendingResultConfirmation"}, "completed")

Cancel(c) == Moves(c, Status \ {"absent", "completed", "cancelled"}, "cancelled")

\* The turn of the call is replaced by another turn and leaves no record.
Forget(c) == Moves(c, Status \ {"absent"}, "absent")

Step(c) == \/ Start(c) \/ AskConfirmation(c) \/ Run(c) \/ AskResultConfirmation(c)
           \/ Complete(c) \/ Cancel(c) \/ Forget(c)

Next == /\ status' \in [ToolCallId -> Status]
        /\ \A c \in ToolCallId : status'[c] = status[c] \/ Step(c)

Spec == Init /\ [][Next]_status
=============================================================================
