-------------------------- MODULE CopilotSessions --------------------------
(***************************************************************************)
(* The Copilot agent: how its SDK client is started and replaced, and how  *)
(* sessions are created, resumed, refreshed and disposed, with the part of *)
(* the agent service that creates and restores them.  Each of these        *)
(* operations is an async function; a call is what is left of one, and a   *)
(* step runs one call from one await to the next.                          *)
(*                                                                         *)
(* The SDK is external: it starts a client or fails to, it answers each    *)
(* request or refuses it, and it stores the sessions it knows.             *)
(***************************************************************************)
EXTENDS Naturals, Sequences, FiniteSets

CONSTANTS
  SessionId,   \* session ids, chosen by clients
  Token,       \* authentication tokens
  Plugins,     \* what the plugins of one sync parse to
  NoPlugins,   \* what sessions get before the first sync
  Nobody,      \* no client, no object, no call
  MaxCalls,    \* bound: operations under way at the same time
  MaxStarts, MaxObjects, MaxSyncs   \* bounds: client starts, objects made, syncs

ASSUME SessionAssumption ==
  /\ NoPlugins \notin Plugins
  /\ Nobody \notin Nat
  /\ {MaxCalls, MaxStarts, MaxObjects, MaxSyncs} \subseteq Nat

VARIABLES
  orderly,    \* sessions whose users wait for one operation before the next
  token,      \* _githubToken
  client,     \* _client: index into clients, or Nobody
  starting,   \* _clientStarting: index of the client being started, or Nobody
  clients,    \* every SDK client made so far, with its token and state
  objects,    \* every CopilotAgentSession made so far
  sessions,   \* _sessions: session id to index into objects, or Nobody
  synced,     \* results of the plugin syncs that have finished
  requested,  \* number of syncs asked for; _lastSynced is the last of them
  calls,      \* operations under way, in MaxCalls places
  states,     \* sessions that are in the state manager
  stored      \* sessions the SDK knows

agentVars  == <<token, client, starting, clients>>
pluginVars == <<synced, requested>>
copilotVars == <<orderly, agentVars, objects, sessions, pluginVars, calls, states, stored>>

-----------------------------------------------------------------------------
\* A client that is told to stop is "stopping" until its stop() resolves, or rejects
\* and leaves it as it is.
CopilotClient == [token : Token \cup {Nobody},
           state : {"starting", "ready", "failed", "stopping", "stopped", "unstopped"}]

\* sdk is the SDK session of the object: not there before initializeSession has
\* set _wrapper, live, or destroyed with the object.
Object == [session : SessionId, plugins : Plugins \cup {NoPlugins},
           sdk : {"none", "live", "destroyed"}, disposed : BOOLEAN]

\* Where a call waits: for the client, for a plugin sync, for the SDK to make or
\* resume the session, for the plugin check of sendMessage, for the SDK's list of
\* sessions, for the SDK to take a message, for its messages, or for whatever
\* AgentService still awaits before it publishes the session.
Await == {"client", "plugins", "init", "check", "list", "sending", "messages",
          "publish"}

Call == [op : {"create", "send", "restore"}, session : SessionId,
         at : Await,
         client : Nat \cup {Nobody}, object : Nat \cup {Nobody},
         sync : Nat, since : Nat]

Place == 1 .. MaxCalls

Running == {k \in Place : calls[k] # Nobody}

CopilotTypeOK ==
  /\ orderly \in SUBSET SessionId
  /\ token \in Token \cup {Nobody}
  /\ clients \in Seq(CopilotClient)
  /\ client \in DOMAIN clients \cup {Nobody}
  /\ starting \in DOMAIN clients \cup {Nobody}
  /\ objects \in Seq(Object)
  /\ sessions \in [SessionId -> DOMAIN objects \cup {Nobody}]
  /\ synced \in Seq(Plugins)
  /\ requested \in Nat
  /\ Len(synced) <= requested
  /\ calls \in [Place -> Call \cup {Nobody}]
  /\ \A k \in Running :
       /\ calls[k].at \in {"client", "list"} => calls[k].client \in DOMAIN clients
       /\ calls[k].at \in {"init", "check", "sending", "messages"} =>
            calls[k].object \in DOMAIN objects
       /\ calls[k].since <= calls[k].sync /\ calls[k].sync <= requested
  /\ states \in SUBSET SessionId
  /\ stored \in SUBSET SessionId

CopilotInit ==
  /\ orderly \in SUBSET SessionId
  /\ token = Nobody /\ client = Nobody /\ starting = Nobody /\ clients = <<>>
  /\ objects = <<>> /\ sessions = [s \in SessionId |-> Nobody]
  /\ synced = <<>> /\ requested = 0
  /\ calls = [k \in Place |-> Nobody] /\ states = {}
  /\ stored \in SUBSET SessionId

-----------------------------------------------------------------------------
(* Helpers.                                                                *)

CallsOf(s) == {k \in Running : calls[k].session = s}

\* A session is unsettled while an operation on it may still replace its object.
Unsettled(s) ==
  \E k \in CallsOf(s) : calls[k].at \in {"client", "plugins", "init", "check", "list"}

MayStart(s) == s \in orderly => ~Unsettled(s)

\* What a promise for the n-th sync resolves with, once n syncs have finished.
SyncResult(n) == IF n = 0 THEN NoPlugins ELSE synced[n]

SyncedUpTo(n) == n <= Len(synced)

\* _ensureClient: the client, the one being started, or a new one.
Acquired ==
  IF client # Nobody THEN client
  ELSE IF starting # Nobody THEN starting ELSE Len(clients) + 1

\* Broken variant: does not see that a client is being started.
StartsClientAgain == client = Nobody

StartsClient == client = Nobody /\ starting = Nobody

EnsureClient ==
  /\ clients' = IF StartsClient
                THEN Append(clients, [token |-> token, state |-> "starting"])
                ELSE clients
  /\ starting' = IF StartsClient THEN Acquired ELSE starting
  /\ UNCHANGED <<token, client>>

\* Broken variant: forgets those that wait for a client that was replaced.
ResolvedReady(c) == clients[c].state = "ready"

\* The promise that _ensureClient returned has been settled.
Resolved(c) == clients[c].state \notin {"starting", "failed"}

DisposedObject(o) ==
  [o EXCEPT !.disposed = TRUE, !.sdk = IF o.sdk = "live" THEN "destroyed" ELSE o.sdk]

\* The objects once the current one of a session has been disposed.
Disposed(s) ==
  IF sessions[s] = Nobody THEN objects
  ELSE [objects EXCEPT ![sessions[s]] = DisposedObject(@)]

NewCall(op, s, at, c, o) ==
  [op |-> op, session |-> s, at |-> at, client |-> c, object |-> o,
   sync |-> requested, since |-> requested]

\* A call makes at most one object.
Begin(call) ==
  /\ Running # Place
  /\ Len(objects) + Cardinality(Running) < MaxObjects
  /\ LET k == CHOOSE place \in Place \ Running : TRUE
     IN calls' = [calls EXCEPT ![k] = call]

Goto(k, at) == calls' = [calls EXCEPT ![k].at = at]

\* The promise of the call is resolved or rejected.
Ends(k) == calls' = [calls EXCEPT ![k] = Nobody]

\* A call that goes on to _resumeSession waits for the client again.
Resume(k) ==
  /\ EnsureClient
  /\ calls' = [calls EXCEPT ![k].at = "client", ![k].client = Acquired]

\* A call of a method of an object: without _wrapper it throws.
UseObject(k, o, at) ==
  IF objects[o].sdk = "none" THEN Ends(k)
  ELSE calls' = [calls EXCEPT ![k].object = o, ![k].at = at]

\* A refused resume ends a call, but getSessionMessages takes it for an empty
\* session and the restore goes on.
ResumeFails(k) ==
  IF calls[k].op = "restore" THEN Goto(k, "publish") ELSE Ends(k)

-----------------------------------------------------------------------------
(* The client.                                                             *)

\* authenticate up to its await: a new token replaces the client, unless sessions use
\* it.  The agent no longer knows the client that it begins to stop.
Authenticate ==
  \E t \in Token :
    LET replaced == /\ t # token /\ client # Nobody
                    /\ \A s \in SessionId : sessions[s] = Nobody
    IN /\ replaced => Len(clients) < MaxStarts
       /\ token' = t
       /\ clients' = IF replaced THEN [clients EXCEPT ![client].state = "stopping"]
                     ELSE clients
       /\ client' = IF replaced THEN Nobody ELSE client
       /\ starting' = IF replaced THEN Nobody ELSE starting
       /\ UNCHANGED <<objects, sessions, pluginVars, calls, states, stored>>

\* Its stop() resolves or rejects; a rejection ends authenticate, and nothing stops
\* the client again.
ClientStopped ==
  \E c \in DOMAIN clients, state \in {"stopped", "unstopped"} :
    /\ clients[c].state = "stopping"
    /\ clients' = [clients EXCEPT ![c].state = state]
    /\ UNCHANGED <<token, client, starting, objects, sessions, pluginVars, calls,
                   states, stored>>

ClientStarted ==
  \E c \in DOMAIN clients :
    /\ clients[c].state = "starting"
    /\ clients' = [clients EXCEPT ![c].state = "ready"]
    /\ client' = c
    /\ starting' = Nobody
    /\ UNCHANGED <<token, objects, sessions, pluginVars, calls, states, stored>>

\* The rejected promise stays in _clientStarting.
ClientFailed ==
  \E c \in DOMAIN clients :
    /\ clients[c].state = "starting"
    /\ clients' = [clients EXCEPT ![c].state = "failed"]
    /\ UNCHANGED <<token, client, starting, objects, sessions, pluginVars, calls,
                   states, stored>>

-----------------------------------------------------------------------------
(* The plugins.  A sync waits for the one before it, so they end in order. *)

SetClientCustomizations ==
  /\ requested < MaxSyncs
  /\ requested' = requested + 1
  /\ UNCHANGED <<agentVars, objects, sessions, synced, calls, states, stored>>

SyncDone ==
  /\ Len(synced) < requested
  /\ \E p \in Plugins : synced' = Append(synced, p)
  /\ UNCHANGED <<agentVars, objects, sessions, requested, calls, states, stored>>

-----------------------------------------------------------------------------
(* Operations, up to their first await.                                    *)

\* A client creates a session under an id that it has made up.
CreateSession ==
  \E s \in SessionId \ stored :
    /\ s \notin states /\ CallsOf(s) = {}
    /\ Begin(NewCall("create", s, "client", Acquired, Nobody))
    /\ EnsureClient
    /\ UNCHANGED <<objects, sessions, pluginVars, states, stored>>

\* A turn of a session is handed to the agent; on a stale view, also one of a
\* session that has been disposed.
SendMessage ==
  \E s \in SessionId :
    /\ s \in states \/ (s \in stored /\ s \notin orderly)
    /\ MayStart(s)
    /\ IF sessions[s] # Nobody
       THEN /\ Begin(NewCall("send", s, "check", Nobody, sessions[s]))
            /\ UNCHANGED agentVars
       ELSE /\ Begin(NewCall("send", s, "client", Acquired, Nobody))
            /\ EnsureClient
    /\ UNCHANGED <<objects, sessions, pluginVars, states, stored>>

\* subscribe to a session that is not in the state manager; it may not exist.
RestoreSession ==
  \E s \in SessionId \ states :
    /\ MayStart(s)
    /\ Begin(NewCall("restore", s, "list", Acquired, Nobody))
    /\ EnsureClient
    /\ UNCHANGED <<objects, sessions, pluginVars, states, stored>>

\* AgentService.disposeSession with the agent's part of it.
DisposeSession ==
  \E s \in states :
    /\ MayStart(s)
    /\ objects' = Disposed(s)
    /\ sessions' = [sessions EXCEPT ![s] = Nobody]
    /\ states' = states \ {s}
    /\ UNCHANGED <<agentVars, pluginVars, calls, stored>>

-----------------------------------------------------------------------------
(* Operations, from one await to the next.                                 *)

\* Broken variant: takes the plugins of the last sync that has finished.
GotClientLastFinished(k) ==
  /\ calls[k].at = "client" /\ Resolved(calls[k].client)
  /\ calls' = [calls EXCEPT ![k].at = "plugins", ![k].sync = Len(synced)]
  /\ UNCHANGED <<agentVars, objects, sessions, pluginVars, states, stored>>

\* createSession and _resumeSession have the client and ask for the plugins.
GotClient(k) ==
  /\ calls[k].at = "client" /\ Resolved(calls[k].client)
  /\ calls' = [calls EXCEPT ![k].at = "plugins", ![k].sync = requested]
  /\ UNCHANGED <<agentVars, objects, sessions, pluginVars, states, stored>>

\* They have the plugins: _createAgentSession puts a new object into the map, which
\* disposes the one it replaces, and initializeSession asks the SDK.
GotPlugins(k) ==
  /\ calls[k].at = "plugins" /\ SyncedUpTo(calls[k].sync)
  /\ LET s == calls[k].session
         new == Len(objects) + 1
     IN /\ objects' = Append(Disposed(s),
                             [session |-> s, plugins |-> SyncResult(calls[k].sync),
                              sdk |-> "none", disposed |-> FALSE])
        /\ sessions' = [sessions EXCEPT ![s] = new]
        /\ calls' = [calls EXCEPT ![k].at = "init", ![k].object = new]
  /\ UNCHANGED <<agentVars, pluginVars, states, stored>>

\* The SDK has created the session, or resumed it, or created it because it had
\* none to resume.  The object takes the SDK session even if it was disposed.
Initialized(k) ==
  /\ calls[k].at = "init"
  /\ objects' = [objects EXCEPT ![calls[k].object].sdk = "live"]
  /\ stored' = stored \cup {calls[k].session}
  /\ Goto(k, CASE calls[k].op = "create" -> "publish"
               [] calls[k].op = "send" -> "sending"
               [] calls[k].op = "restore" -> "messages")
  /\ UNCHANGED <<agentVars, sessions, pluginVars, states>>

\* The SDK refuses.  The object stays in the map, without _wrapper.
InitFailed(k) ==
  /\ calls[k].at = "init"
  /\ ResumeFails(k)
  /\ UNCHANGED <<agentVars, objects, sessions, pluginVars, states, stored>>

\* Broken variant: a refresh drops the old object without disposing it.
CheckedKeepingObject(k) ==
  /\ calls[k].at = "check" /\ SyncedUpTo(calls[k].sync)
  /\ LET s == calls[k].session
     IN IF objects[calls[k].object].plugins # SyncResult(calls[k].sync)
        THEN /\ sessions' = [sessions EXCEPT ![s] = Nobody]
             /\ Resume(k)
        ELSE /\ UseObject(k, calls[k].object, "sending")
             /\ UNCHANGED <<agentVars, sessions>>
  /\ UNCHANGED <<objects, pluginVars, states, stored>>

\* sendMessage knows the plugins that were last asked for when it began.  If the
\* object was made with others, it disposes the session's current object and
\* resumes the session.
Checked(k) ==
  /\ calls[k].at = "check" /\ SyncedUpTo(calls[k].sync)
  /\ LET s == calls[k].session
     IN IF objects[calls[k].object].plugins # SyncResult(calls[k].sync)
        THEN /\ objects' = Disposed(s)
             /\ sessions' = [sessions EXCEPT ![s] = Nobody]
             /\ Resume(k)
        ELSE /\ UseObject(k, calls[k].object, "sending")
             /\ UNCHANGED <<agentVars, objects, sessions>>
  /\ UNCHANGED <<pluginVars, states, stored>>

\* restoreSession has the list and asks for the messages, if the session is in it.
Listed(k) ==
  /\ calls[k].at = "list" /\ Resolved(calls[k].client)
  /\ LET s == calls[k].session
     IN CASE s \notin stored -> Ends(k) /\ UNCHANGED agentVars
          [] s \in stored /\ sessions[s] # Nobody ->
               UseObject(k, sessions[s], "messages") /\ UNCHANGED agentVars
          [] s \in stored /\ sessions[s] = Nobody -> Resume(k)
  /\ UNCHANGED <<objects, sessions, pluginVars, states, stored>>

\* The SDK took the message, or returned the messages.
Answered(k) ==
  /\ calls[k].at \in {"sending", "messages"}
  /\ IF calls[k].at = "sending" THEN Ends(k) ELSE Goto(k, "publish")
  /\ UNCHANGED <<agentVars, objects, sessions, pluginVars, states, stored>>

\* createSession or restoreSession of the agent service puts the session into the
\* state manager, after its last await.
Publish(k) ==
  /\ calls[k].at = "publish"
  /\ states' = states \cup {calls[k].session}
  /\ Ends(k)
  /\ UNCHANGED <<agentVars, objects, sessions, pluginVars, stored>>

\* The client could not be started, or the SDK refuses what it was asked.
Fails(k) ==
  /\ \/ /\ calls[k].at \in {"client", "list"}
        /\ clients[calls[k].client].state = "failed"
     \/ calls[k].at = "list" /\ Resolved(calls[k].client)
     \/ calls[k].at \in {"sending", "messages"}
  /\ IF calls[k].at = "client" THEN ResumeFails(k) ELSE Ends(k)
  /\ UNCHANGED <<agentVars, objects, sessions, pluginVars, states, stored>>

Continue(k) ==
  \/ GotClient(k) \/ GotPlugins(k) \/ Initialized(k) \/ InitFailed(k) \/ Checked(k)
  \/ Listed(k) \/ Answered(k) \/ Publish(k) \/ Fails(k)

CopilotNext ==
  /\ \/ Authenticate \/ ClientStopped \/ ClientStarted \/ ClientFailed
     \/ SetClientCustomizations \/ SyncDone
     \/ CreateSession \/ SendMessage \/ RestoreSession \/ DisposeSession
     \/ \E k \in Running : Continue(k)
  /\ UNCHANGED orderly

CopilotSpec == CopilotInit /\ [][CopilotNext]_copilotVars

\* Starting a client ends, a sync of plugins ends, and the SDK answers.
CopilotFairness ==
  /\ WF_copilotVars((ClientStarted \/ ClientFailed) /\ UNCHANGED orderly)
  /\ WF_copilotVars(SyncDone /\ UNCHANGED orderly)
  /\ \A k \in Place :
       WF_copilotVars(k \in Running /\ Continue(k) /\ UNCHANGED orderly)

FairCopilotSpec == CopilotSpec /\ CopilotFairness

-----------------------------------------------------------------------------
\* Of all clients that have not been told to stop there is at most one, and it is the
\* one the agent knows or has failed to start: calls that need a client at the same
\* time share one start, and no client is replaced without being told to stop.  It
\* may go on running beside the new one, while its stop() takes time or if it fails.
OneClient ==
  \A c \in DOMAIN clients :
    /\ clients[c].state = "ready" => client = c
    /\ clients[c].state \in {"starting", "failed"} => starting = c /\ client = Nobody

\* A message is sent on an object made with plugins at least as new as those asked
\* for when the send began, whatever syncs, refreshes, resumes and disposals go on
\* meanwhile: needsSessionRefresh and getAppliedPlugins wait for the sync in
\* flight and do not read the last finished one.
SendsUseFreshPlugins ==
  \A k \in Running :
    calls[k].op = "send" /\ calls[k].at = "sending" =>
      \E n \in calls[k].since .. Len(synced) :
        objects[calls[k].object].plugins = SyncResult(n)

\* If the users of a session wait for one operation before they start the next, then
\* every live SDK session of it belongs to the object in the map, so that a refresh,
\* a replacement or the disposal of the session destroys it: disposing a
\* CopilotAgentSession "tears down all per-session resources".
LiveIsReachable ==
  \A o \in DOMAIN objects :
    objects[o].session \in orderly /\ objects[o].sdk = "live" =>
      sessions[objects[o].session] = o

\* Every operation ends, with a result or an error: no call waits for a client, a
\* sync or an object that nobody brings forward any more.
CallsEnd ==
  \A k \in Place : k \in Running ~> k \notin Running
=============================================================================
