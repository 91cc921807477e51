---------------------------- MODULE ReplicatedLog ----------------------------
(***************************************************************************)
(* What keeping clients in step with the agent host promises: every        *)
(* resource has one log of actions, kept by the host, and what a client    *)
(* holds of a resource is always a beginning of that log.  A client may    *)
(* fall behind and drop what it holds, but as long as it holds it, it      *)
(* moves along the log only forwards, without leaving anything out.        *)
(***************************************************************************)
EXTENDS Sequences, SequencesExt

CONSTANTS Client, Resource

VARIABLES
  log,    \* log[r]: the actions applied to resource r, oldest first
  view    \* view[c]: partial function from resources to beginnings of logs

Init ==
  /\ log = [r \in Resource |-> <<>>]
  /\ view = [c \in Client |-> <<>>]

\* The host applies one more action to a resource.
Grow ==
  /\ \E r \in Resource :
       /\ Len(log'[r]) = Len(log[r]) + 1
       /\ IsPrefix(log[r], log'[r])
       /\ log' = [log EXCEPT ![r] = log'[r]]
  /\ UNCHANGED view

\* A client takes over a later part of the log, of any number of resources.
CatchUp(c) ==
  /\ view' = [view EXCEPT ![c] = view'[c]]
  /\ DOMAIN view[c] \subseteq DOMAIN view'[c]
  /\ DOMAIN view'[c] \subseteq Resource
  /\ \A r \in DOMAIN view'[c] : IsPrefix(view'[c][r], log[r])
  /\ \A r \in DOMAIN view[c] : IsPrefix(view[c][r], view'[c][r])
  /\ UNCHANGED log

\* A client drops what it holds of a resource.
Drop(c) ==
  /\ \E r \in DOMAIN view[c] :
       view' = [view EXCEPT ![c] = [q \in DOMAIN @ \ {r} |-> @[q]]]
  /\ UNCHANGED log

Next == Grow \/ \E c \in Client : CatchUp(c) \/ Drop(c)

vars == <<log, view>>

Spec == Init /\ [][Next]_vars
=============================================================================
