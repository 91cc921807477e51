----------------------------- MODULE MCClients ------------------------------
(***************************************************************************)
(* Model checking of the client side and of what clients bring: the views  *)
(* of ProtocolSync for one client, whose connection may break once, with   *)
(* the root state and one session; the plugins of clients in the cache of  *)
(* the host; the handler of agent host chats; and the connections to       *)
(* remote hosts.  They share no variable; a behaviour runs one and leaves  *)
(* the others as they are.  In the first, what other clients dispatch      *)
(* reaches this one as the agent's actions do, with an origin that is not  *)
(* its own.                                                                *)
(***************************************************************************)
EXTENDS ProtocolSync, PluginCache, ChatSessionHandler, RemoteHosts

CONSTANTS
  c1, k1, k2, root, session, p1, p2, p3, t1, x1, a1, a2, none,
  Parts  \* the components that a run explores

VARIABLE part

\* Connections are told apart by their use alone: the first is used first.
InOrder == \A k \in Conn : line'[k] # "unused" => line'[k1] # "unused"

\* One plugin changes, one never does and one has no nonce; a call syncs at most two of
\* them, and one may become doubtful.
FewChanges ==
  /\ version'[p2] = 1 /\ version'[p3] = 1
  /\ Cardinality(InCall') <= 2 /\ Cardinality(doubtful') <= 1

\* Only the SSH service makes clients for SSH hosts: nobody reconnects one by hand
\* before it is configured.
SSHClientsAreGiven ==
  \A a \in Tunnel, i \in HostClient :
    hosts'[a].clients[i] # Free => hosts'[a].clients[i].given

clientsVars == <<part, vars, cacheVars, chatVars, remoteVars>>

\* A component that does not run starts in one of its initial states.
ClientsInit ==
  /\ part \in Parts
  /\ Init /\ CacheInit /\ HandlerInit /\ RemoteInit
  /\ part # "hosts" => ~enabled /\ configured = {}

ClientsNext ==
  /\ \/ part = "sync" /\ Next /\ InOrder /\ UNCHANGED <<cacheVars, chatVars, remoteVars>>
     \/ /\ part = "plugins" /\ CacheNext /\ FewChanges
        /\ UNCHANGED <<vars, chatVars, remoteVars>>
     \/ part = "chat" /\ HandlerNext /\ UNCHANGED <<vars, cacheVars, remoteVars>>
     \/ /\ part = "hosts" /\ RemoteNext /\ SSHClientsAreGiven
        /\ UNCHANGED <<vars, cacheVars, chatVars>>
  /\ UNCHANGED part

ClientsSpec == ClientsInit /\ [][ClientsNext]_clientsVars
=============================================================================
