---------------------------- MODULE RemoteHosts ----------------------------
(***************************************************************************)
(* RemoteAgentHostService of the workbench: the settings name remote agent *)
(* hosts, and the service keeps one connection entry per address, connects *)
(* again after failures and lets callers wait for a connection.            *)
(*                                                                         *)
(* Addresses in Tunnel are configured with an SSH host: the SSH service    *)
(* hands in a client that is connected.  Names, tokens and the length of   *)
(* the back-off are left out.                                              *)
(***************************************************************************)
EXTENDS Naturals

CONSTANTS
  Address,     \* normalized addresses
  Tunnel,      \* those reached through SSH
  MaxClients,  \* bound: clients of an address that are not settled yet
  MaxRequests, \* bound: calls under way at the same time
  NoCall, Free

ASSUME RemoteAssumption ==
  /\ Tunnel \subseteq Address
  /\ MaxClients \in Nat \ {0} /\ MaxRequests \in Nat
  /\ Free \notin [state : {"connecting", "connected", "closed"}, disposed : BOOLEAN,
                  given : BOOLEAN]

VARIABLES
  enabled,     \* setting chat.remoteAgentHostsEnabled
  configured,  \* addresses in the setting chat.remoteAgentHosts
  hosts,       \* _entries and _reconnectTimeouts of each address, with its clients
  requests     \* calls under way; the waiting ones are _pendingConnectionWaits

remoteVars == <<enabled, configured, hosts, requests>>

-----------------------------------------------------------------------------
HostClient == 1 .. MaxClients

\* A client stays after its disposal until its connect promise has settled.  It is
\* given if the SSH service has handed it in.
RemoteClient == [state : {"connecting", "connected", "closed"}, disposed : BOOLEAN,
                 given : BOOLEAN]

Host == [entry : HostClient \cup {0}, clients : [HostClient -> RemoteClient \cup {Free}],
         timer : BOOLEAN]

\* A call stores the list of entries that it has computed, has stored it, waits on
\* the promise in _pendingConnectionWaits, or on one that is no longer there.
Request == [op : {"add", "remove", "ssh"}, address : Address,
            at : {"store", "stored", "wait", "orphan"}, connected : BOOLEAN,
            entries : SUBSET Address]

Slot == 1 .. MaxRequests

RemoteTypeOK ==
  /\ enabled \in BOOLEAN
  /\ configured \in SUBSET Address
  /\ hosts \in [Address -> Host]
  /\ requests \in [Slot -> Request \cup {NoCall}]
  /\ \A a \in Address, i \in HostClient :
       hosts[a].clients[i] # Free =>
         (hosts[a].clients[i].disposed => hosts[a].clients[i].state = "connecting")

-----------------------------------------------------------------------------
(* Helpers on one host.                                                    *)

FreeIds(h) == {i \in HostClient : h.clients[i] = Free}

HasRoom(h) == FreeIds(h) # {}

IsConnected(h) == h.entry # 0 /\ h.clients[h.entry].state = "connected"

\* The entry leaves the map and its store is disposed.
WithoutEntry(h) ==
  IF h.entry = 0 THEN h
  ELSE [h EXCEPT
          !.entry = 0,
          !.clients[h.entry] = IF @.state = "connecting" THEN [@ EXCEPT !.disposed = TRUE]
                               ELSE Free]

\* Broken variant: the old client is not disposed.
WithEntryOnly(h, state) ==
  LET new == CHOOSE i \in FreeIds(h) : TRUE
  IN [h EXCEPT !.entry = new,
               !.clients[new] = [state |-> state, disposed |-> FALSE,
                                 given |-> state = "connected"]]

WithEntry(h, state) ==
  LET old == WithoutEntry(h)
      new == CHOOSE i \in FreeIds(h) : TRUE
  IN [old EXCEPT !.entry = new,
                 !.clients[new] = [state |-> state, disposed |-> FALSE,
                                   given |-> state = "connected"]]

\* _connectTo
ConnectTo(h) == WithEntry(h, "connecting")

\* _cancelReconnect and _removeConnection, for an address that has an entry.
Removed(h) == IF h.entry = 0 THEN h ELSE [WithoutEntry(h) EXCEPT !.timer = FALSE]

\* _scheduleReconnect: replaces a pending timer, if the address is configured.
Scheduled(h, a) == [h EXCEPT !.timer = @ \/ a \in configured]

-----------------------------------------------------------------------------
(* Helpers on the service.                                                 *)

Pending == {k \in Slot : requests[k] # NoCall}

\* The list is computed from the settings as they are when the call begins.
Begins(op, a) ==
  /\ Pending # Slot
  /\ LET k == CHOOSE slot \in Slot \ Pending : TRUE
     IN requests' = [requests EXCEPT
          ![k] = [op |-> op, address |-> a, at |-> "store",
                  connected |-> op = "add" /\ IsConnected(hosts[a]),
                  entries |-> IF op = "remove" THEN configured \ {a}
                              ELSE configured \cup {a}]]

\* The waits of these addresses are resolved or rejected.
SettledFor(rs, as) ==
  [k \in Slot |-> IF rs[k] # NoCall /\ rs[k].at = "wait" /\ rs[k].address \in as
                  THEN NoCall ELSE rs[k]]

Reconciled(h, a, on, config) ==
  IF ~on \/ a \notin config THEN Removed(h)
  ELSE IF h.entry = 0 /\ a \notin Tunnel THEN ConnectTo(h)
  ELSE h

\* _reconcileConnections, with the settings as they are now.  While disabled, it
\* passes over addresses without an entry.
ReconcileConnections(on, config, rs) ==
  /\ \A a \in Address : HasRoom(hosts[a])
  /\ hosts' = [a \in Address |-> Reconciled(hosts[a], a, on, config)]
  /\ requests' = SettledFor(rs, {a \in Address : hosts[a].entry # 0 /\ (~on \/ a \notin config)})

NewHost == [entry |-> 0, clients |-> [i \in HostClient |-> Free], timer |-> FALSE]

RemoteInit ==
  /\ enabled \in BOOLEAN
  /\ configured \in SUBSET Address
  /\ hosts = [a \in Address |-> Reconciled(NewHost, a, enabled, configured)]
  /\ requests = [k \in Slot |-> NoCall]

-----------------------------------------------------------------------------
(* The settings.                                                           *)

ToggleEnabled ==
  /\ enabled' = ~enabled
  /\ ReconcileConnections(~enabled, configured, requests)
  /\ UNCHANGED configured

EditSettings ==
  /\ \E config \in (SUBSET Address) \ {configured} :
       /\ configured' = config
       /\ ReconcileConnections(enabled, config, requests)
  /\ UNCHANGED enabled

-----------------------------------------------------------------------------
(* Calls, up to their first await.                                         *)

AddRemoteAgentHost ==
  /\ enabled
  /\ \E a \in Address \ Tunnel : Begins("add", a)
  /\ UNCHANGED <<enabled, configured, hosts>>

RemoveRemoteAgentHost ==
  /\ \E a \in Address : Begins("remove", a)
  /\ UNCHANGED <<enabled, configured, hosts>>

\* The SSH service hands in a client that is connected.
AddSSHConnection ==
  /\ \E a \in Tunnel :
       /\ HasRoom(hosts[a])
       /\ hosts' = [hosts EXCEPT ![a] = WithEntry(@, "connected")]
       /\ Begins("ssh", a)
  /\ UNCHANGED <<enabled, configured>>

\* reconnect passes over entries with an SSH host.  It connects to any other address,
\* one that is not, or no longer, configured included.
ReconnectTo(a) ==
  /\ a \notin configured \cap Tunnel
  /\ HasRoom(hosts[a])
  /\ hosts' = [hosts EXCEPT ![a] = ConnectTo([@ EXCEPT !.timer = FALSE])]
  /\ UNCHANGED <<enabled, configured, requests>>

-----------------------------------------------------------------------------
(* Calls, after their awaits.                                              *)

\* The list is written, whatever other calls and users have written since it was
\* computed.  The service hears of it if anything changes, be it only a name.
Written(k) ==
  /\ requests[k].at = "store"
  /\ LET rs == [requests EXCEPT ![k].at = "stored", ![k].entries = {}]
     IN /\ configured' = requests[k].entries
        /\ \/ ReconcileConnections(enabled, configured', rs)
           \/ /\ configured' = configured
              /\ requests' = rs /\ UNCHANGED hosts
  /\ UNCHANGED enabled

NotWritten(k) ==
  /\ requests[k].at = "store"
  /\ requests' = [requests EXCEPT ![k] = NoCall]
  /\ UNCHANGED <<enabled, configured, hosts>>

\* Broken variant: does not look for a connection that came during the await.
AddedUnchecked(k) ==
  /\ requests[k].op = "add" /\ requests[k].at = "stored"
  /\ requests' = [requests EXCEPT ![k] =
       IF @.connected THEN NoCall ELSE [@ EXCEPT !.at = "wait"]]
  /\ UNCHANGED <<enabled, configured, hosts>>

\* addRemoteAgentHost returns a connection or waits for one.
Added(k) ==
  /\ requests[k].op = "add" /\ requests[k].at = "stored"
  /\ requests' = [requests EXCEPT ![k] =
       IF @.connected \/ IsConnected(hosts[@.address]) THEN NoCall
       ELSE [@ EXCEPT !.at = "wait"]]
  /\ UNCHANGED <<enabled, configured, hosts>>

\* removeRemoteAgentHost clears what a reconcile may have left, or what has come
\* since: the address may have been added again.
HostRemoved(k) ==
  /\ requests[k].op = "remove" /\ requests[k].at = "stored"
  /\ LET a == requests[k].address
         had == {b \in {a} : hosts[b].entry # 0}
     IN /\ hosts' = [hosts EXCEPT ![a] = [WithoutEntry(@) EXCEPT !.timer = FALSE]]
        /\ requests' = SettledFor([requests EXCEPT ![k] = NoCall], had)
  /\ UNCHANGED <<enabled, configured>>

SSHAdded(k) ==
  /\ requests[k].op = "ssh" /\ requests[k].at = "stored"
  /\ requests' = [requests EXCEPT ![k] = NoCall]
  /\ UNCHANGED <<enabled, configured, hosts>>

\* A wait of addRemoteAgentHost times out and takes the promise from the map, which
\* other calls may wait on, too.
TimedOut(k) ==
  /\ requests[k].at \in {"wait", "orphan"}
  /\ requests' = [j \in Slot |->
       IF j = k THEN NoCall
       ELSE IF requests[j] # NoCall /\ requests[j].at = "wait"
               /\ requests[j].address = requests[k].address
            THEN [requests[j] EXCEPT !.at = "orphan"]
            ELSE requests[j]]
  /\ UNCHANGED <<enabled, configured, hosts>>

ContinueRequest(k) ==
  \/ Written(k) \/ NotWritten(k) \/ Added(k) \/ HostRemoved(k) \/ SSHAdded(k)
  \/ TimedOut(k)

-----------------------------------------------------------------------------
(* The clients and the timers.                                             *)

Settles(a, i) == [hosts EXCEPT ![a].clients[i] = Free]

\* connect() resolves.
Connected(a, i) ==
  /\ hosts[a].clients[i] # Free /\ hosts[a].clients[i].state = "connecting"
  /\ IF hosts[a].clients[i].disposed
     THEN hosts' = Settles(a, i) /\ UNCHANGED requests
     ELSE /\ hosts' = [hosts EXCEPT ![a].clients[i].state = "connected"]
          /\ requests' = SettledFor(requests, {a})
  /\ UNCHANGED <<enabled, configured>>

\* Broken variant: only a broken connection is tried again, not a failed attempt.
ConnectFailedForGood(a, i) ==
  /\ hosts[a].clients[i] # Free /\ hosts[a].clients[i].state = "connecting"
  /\ IF hosts[a].entry # i
     THEN hosts' = Settles(a, i) /\ UNCHANGED requests
     ELSE /\ hosts' = [Settles(a, i) EXCEPT ![a].entry = 0]
          /\ requests' = SettledFor(requests, {a})
  /\ UNCHANGED <<enabled, configured>>

\* connect() rejects.
ConnectFailed(a, i) ==
  /\ hosts[a].clients[i] # Free /\ hosts[a].clients[i].state = "connecting"
  /\ IF hosts[a].entry # i
     THEN hosts' = Settles(a, i) /\ UNCHANGED requests
     ELSE /\ hosts' = [Settles(a, i) EXCEPT ![a] = Scheduled([@ EXCEPT !.entry = 0], a)]
          /\ requests' = SettledFor(requests, {a})
  /\ UNCHANGED <<enabled, configured>>

\* The connection breaks; in the middle of the handshake connect() never settles.
\* Only clients that this service has connected are connected again.
Closed(a, i) ==
  /\ hosts[a].entry = i
  /\ hosts[a].clients[i].state # "closed"
  /\ LET closed == [hosts[a] EXCEPT !.clients[i].state = "closed"]
     IN hosts' = [hosts EXCEPT ![a] = IF @.clients[i].given THEN closed ELSE Scheduled(closed, a)]
  /\ UNCHANGED <<enabled, configured, requests>>

\* Broken variant: does not look at the settings again.
TimerFiresUnchecked(a) ==
  /\ hosts[a].timer /\ HasRoom(hosts[a])
  /\ hosts' = [hosts EXCEPT ![a] = ConnectTo([@ EXCEPT !.timer = FALSE])]
  /\ UNCHANGED <<enabled, configured, requests>>

TimerFires(a) ==
  /\ hosts[a].timer /\ HasRoom(hosts[a])
  /\ LET h == [hosts[a] EXCEPT !.timer = FALSE]
     IN hosts' = [hosts EXCEPT ![a] = IF a \in configured THEN ConnectTo(h) ELSE h]
  /\ UNCHANGED <<enabled, configured, requests>>

RemoteNext ==
  \/ ToggleEnabled \/ EditSettings
  \/ AddRemoteAgentHost \/ RemoveRemoteAgentHost \/ AddSSHConnection
  \/ \E a \in Address : ReconnectTo(a)
  \/ \E k \in Pending : ContinueRequest(k)
  \/ \E a \in Address, i \in HostClient :
       Connected(a, i) \/ ConnectFailed(a, i) \/ Closed(a, i)
  \/ \E a \in Address : TimerFires(a)

RemoteSpec == RemoteInit /\ [][RemoteNext]_remoteVars

-----------------------------------------------------------------------------
\* The client of an address's entry is the only one that is not disposed: however
\* timers, reconnects, settings and late results of earlier attempts cross, no
\* replaced client is left running and no late result revives one.
OneLiveClient ==
  \A a \in Address, i \in HostClient :
    hosts[a].entry = i <=>
      hosts[a].clients[i] # Free /\ ~hosts[a].clients[i].disposed

\* A host in the settings is connected, being connected, or has a reconnect scheduled;
\* while connections are disabled it may also have none at all.
Attended(a) ==
  \/ a \notin configured \/ hosts[a].timer
  \/ hosts[a].entry # 0 /\ hosts[a].clients[hosts[a].entry].state # "closed"
  \/ hosts[a].entry = 0 /\ ~enabled

\* removeRemoteAgentHost goes on after its await.
RemovalEnds(a) ==
  \E k \in Pending : requests[k].address = a /\ HostRemoved(k)

\* Failures, late results, timers, settings and overlapping calls leave no host of the
\* settings without a connection or a way to one, with two exceptions: the end of a
\* removal tears down an address that was added again meanwhile, and a connection
\* made before the address was configured may have closed and stays.  A change of
\* the settings mends the first.
NeverForgotten ==
  /\ \A a \in Address \ Tunnel : Attended(a)
  /\ [][\A a \in Address \ Tunnel :
          \/ Attended(a)'
          \/ ~Attended(a) /\ (hosts[a].entry # 0 \/ UNCHANGED <<enabled, configured>>)
          \/ a \notin configured /\ hosts[a].entry # 0
          \/ RemovalEnds(a)]_remoteVars

\* Only a manual reconnect makes a connection to an address that is not in the
\* settings, and never a timer that is still there; an address that is taken from them
\* loses its connection at once, and no late timer, result or write brings one back.
EntriesAreConfigured ==
  [][\A a \in Address \ Tunnel :
       hosts'[a].entry # 0 /\ a \notin configured' =>
         \/ hosts[a].entry # 0 /\ a \notin configured
         \/ ReconnectTo(a) /\ ~TimerFires(a)]_remoteVars

\* Nobody waits on the promise that the service keeps for an address while that
\* address is connected.  A call whose promise the timeout of another has taken from
\* the map is not among them: it waits until its own timeout.
AddsHearOfConnections ==
  \A k \in Pending :
    requests[k].at = "wait" => ~IsConnected(hosts[requests[k].address])
=============================================================================
