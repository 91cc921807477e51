---------------------------- MODULE ServicesProofs ----------------------------
(***************************************************************************)
(* Proofs about the services around the agent host: the Copilot agent, for *)
(* any sessions, tokens, plugins and number of operations under way; the   *)
(* connections to remote agent hosts, for any addresses, number of clients *)
(* and calls; the chat with its tools and paid requests, for any chats,    *)
(* signatures, window and number of tool calls; and the plugin manager,    *)
(* for any plugins, versions and limit of the cache.                       *)
(***************************************************************************)
EXTENDS CopilotSessions, RemoteHosts, AgentLoop, PluginCache, SubsequenceLemmas

-----------------------------------------------------------------------------
(* The Copilot agent                                                      *)

\* The client's part of the state.
AgentGood ==
  /\ token \in Token \cup {Nobody}
  /\ clients \in Seq(CopilotClient)
  /\ client \in DOMAIN clients \cup {Nobody}
  /\ starting \in DOMAIN clients \cup {Nobody}
  /\ OneClient

ObjectsGood ==
  /\ objects \in Seq(Object)
  /\ sessions \in [SessionId -> DOMAIN objects \cup {Nobody}]
  /\ LiveIsReachable

PluginsGood ==
  synced \in Seq(Plugins) /\ requested \in Nat /\ Len(synced) <= requested

\* What holds of a call.  The object that it initializes is made for its session and
\* is, in an orderly session, still the one in the map; and the object that a send
\* initializes or uses has plugins that are fresh enough.
CallGood(r) ==
  /\ r \in Call
  /\ r.at \in {"client", "list"} => r.client \in DOMAIN clients
  /\ r.at \in {"init", "check", "sending", "messages"} => r.object \in DOMAIN objects
  /\ r.since <= r.sync /\ r.sync <= requested
  /\ r.at = "init" =>
       /\ objects[r.object].session = r.session
       /\ r.session \in orderly => sessions[r.session] = r.object
  /\ r.op = "send" /\ r.at \in {"init", "sending"} =>
       \E n \in r.since .. Len(synced) : objects[r.object].plugins = SyncResult(n)

UnsettledCall(r) == r.at \in {"client", "plugins", "init", "check", "list"}

\* In an orderly session one operation at a time may replace the object.
OneUnsettled ==
  \A j, k \in Running :
    /\ UnsettledCall(calls[j]) /\ UnsettledCall(calls[k])
    /\ calls[j].session = calls[k].session /\ calls[j].session \in orderly
    => j = k

CallsGood ==
  /\ calls \in [Place -> Call \cup {Nobody}]
  /\ \A k \in Running : CallGood(calls[k])
  /\ OneUnsettled

CopilotInv ==
  /\ orderly \in SUBSET SessionId /\ states \in SUBSET SessionId /\ stored \in SUBSET SessionId
  /\ AgentGood /\ ObjectsGood /\ PluginsGood /\ CallsGood

\* Clients, objects and syncs are only added, and objects keep what they were made
\* for and with.
Grows ==
  /\ orderly' = orderly
  /\ DOMAIN clients \subseteq DOMAIN clients'
  /\ DOMAIN objects \subseteq DOMAIN objects'
  /\ \A o \in DOMAIN objects : /\ objects'[o].session = objects[o].session
                               /\ objects'[o].plugins = objects[o].plugins
  /\ requested \in Nat /\ requested' \in Nat /\ requested <= requested'
  /\ Len(synced) \in Nat /\ Len(synced') \in Nat /\ Len(synced) <= Len(synced')
  /\ \A n \in 1 .. Len(synced) : synced'[n] = synced[n]

-----------------------------------------------------------------------------
(* The client.                                                             *)

LEMMA NobodyIsNoIndex ==
  ASSUME NEW S, NEW q \in Seq(S)
  PROVE  Nobody \notin DOMAIN q /\ Len(q) \in Nat /\ DOMAIN q = 1 .. Len(q)
  BY SessionAssumption

\* A client that is already there or being started is shared; otherwise one starts.
LEMMA EnsureClientGood ==
  ASSUME AgentGood, EnsureClient
  PROVE  AgentGood' /\ Acquired \in DOMAIN clients' /\ DOMAIN clients \subseteq DOMAIN clients'
  <1>1. Nobody \notin DOMAIN clients /\ Len(clients) \in Nat /\ DOMAIN clients = 1 .. Len(clients)
    BY NobodyIsNoIndex DEF AgentGood
  <1>2. CASE StartsClient
    <2> DEFINE c == [token |-> token, state |-> "starting"]
               n == Len(clients) + 1
    <2>1. clients' = Append(clients, c) /\ starting' = n /\ client' = Nobody /\ token' = token
      BY <1>2 DEF EnsureClient, StartsClient, Acquired
    <2>2. c \in CopilotClient
      BY DEF AgentGood, CopilotClient
    <2>3. /\ clients' \in Seq(CopilotClient) /\ DOMAIN clients' = 1 .. n
          /\ clients'[n] = c /\ \A d \in DOMAIN clients : clients'[d] = clients[d]
      BY <1>1, <2>1, <2>2 DEF AgentGood
    <2>4. client = Nobody /\ starting = Nobody
      BY <1>2 DEF StartsClient
    <2>5. \A d \in DOMAIN clients : clients[d].state \notin {"ready", "starting", "failed"}
      BY <1>1, <2>4 DEF AgentGood, OneClient
    <2>6. OneClient'
      BY <1>1, <2>1, <2>3, <2>5 DEF OneClient
    <2>7. Acquired = n /\ n \in 1 .. n /\ 1 .. Len(clients) \subseteq 1 .. n
      BY <1>1, <2>4 DEF Acquired
    <2> QED
      BY <1>1, <2>1, <2>3, <2>6, <2>7 DEF AgentGood
  <1>3. CASE ~StartsClient
    BY <1>3 DEF EnsureClient, StartsClient, Acquired, AgentGood, OneClient
  <1> QED
    BY <1>2, <1>3

LEMMA AuthenticateGood ==
  ASSUME AgentGood, Authenticate
  PROVE  AgentGood' /\ DOMAIN clients' = DOMAIN clients
  <1>1. Nobody \notin DOMAIN clients /\ DOMAIN clients = 1 .. Len(clients)
    BY NobodyIsNoIndex DEF AgentGood
  <1>2. token' \in Token
    BY DEF Authenticate
  <1>3. CASE UNCHANGED <<clients, client, starting>>
    BY <1>2, <1>3 DEF AgentGood, OneClient
  <1>4. ASSUME ~UNCHANGED <<clients, client, starting>>
        PROVE  AgentGood' /\ DOMAIN clients' = DOMAIN clients
    <2>1. /\ client \in DOMAIN clients /\ client' = Nobody /\ starting' = Nobody
          /\ clients' = [clients EXCEPT ![client].state = "stopping"]
      BY <1>4 DEF Authenticate, AgentGood
    <2> DEFINE c == [clients[client] EXCEPT !.state = "stopping"]
    <2>2. clients[client] \in CopilotClient
      BY <2>1, ElementOfSeq, <1>1 DEF AgentGood
    <2>3. c \in CopilotClient /\ c.state = "stopping"
      BY <2>2 DEF CopilotClient
    <2>4. clients' = [clients EXCEPT ![client] = c]
      BY <2>1
    <2> HIDE DEF c
    <2>5. /\ clients' \in Seq(CopilotClient) /\ DOMAIN clients' = DOMAIN clients
          /\ \A d \in DOMAIN clients : clients'[d] = IF d = client THEN c ELSE clients[d]
      BY <1>1, <2>1, <2>3, <2>4, ExceptSeq DEF AgentGood
    <2>6. OneClient'
      BY <1>1, <2>1, <2>3, <2>5 DEF AgentGood, OneClient
    <2> QED
      BY <1>2, <2>1, <2>5, <2>6 DEF AgentGood
  <1> QED
    BY <1>3, <1>4

\* The end of a stop changes no client but the one that was told to stop.
LEMMA StopEndsGood ==
  ASSUME AgentGood, ClientStopped
  PROVE  AgentGood' /\ DOMAIN clients' = DOMAIN clients
  <1>1. Nobody \notin DOMAIN clients /\ DOMAIN clients = 1 .. Len(clients)
    BY NobodyIsNoIndex DEF AgentGood
  <1>2. PICK c \in DOMAIN clients, state \in {"stopped", "unstopped"} :
          /\ clients[c].state = "stopping"
          /\ clients' = [clients EXCEPT ![c].state = state]
          /\ UNCHANGED <<token, client, starting>>
    BY DEF ClientStopped
  <1> DEFINE new == [clients[c] EXCEPT !.state = state]
  <1>3. clients[c] \in CopilotClient
    BY <1>1, ElementOfSeq DEF AgentGood
  <1>4. new \in CopilotClient /\ new.state = state
    BY <1>3 DEF CopilotClient
  <1>5. clients' = [clients EXCEPT ![c] = new]
    BY <1>2
  <1> HIDE DEF new
  <1>6. /\ clients' \in Seq(CopilotClient) /\ DOMAIN clients' = DOMAIN clients
        /\ \A d \in DOMAIN clients : clients'[d] = IF d = c THEN new ELSE clients[d]
    BY <1>1, <1>4, <1>5, ExceptSeq DEF AgentGood
  <1>7. OneClient'
    BY <1>1, <1>2, <1>4, <1>6 DEF AgentGood, OneClient
  <1> QED
    BY <1>2, <1>6, <1>7 DEF AgentGood

LEMMA StartEndsGood ==
  ASSUME AgentGood, ClientStarted \/ ClientFailed
  PROVE  AgentGood' /\ DOMAIN clients' = DOMAIN clients
  <1>1. Nobody \notin DOMAIN clients /\ DOMAIN clients = 1 .. Len(clients)
    BY NobodyIsNoIndex DEF AgentGood
  <1>2. PICK c \in DOMAIN clients, state \in {"ready", "failed"} :
          /\ clients[c].state = "starting"
          /\ clients' = [clients EXCEPT ![c].state = state]
          /\ token' = token
          /\ IF state = "ready" THEN client' = c /\ starting' = Nobody
             ELSE UNCHANGED <<client, starting>>
    BY DEF ClientStarted, ClientFailed
  <1> DEFINE new == [clients[c] EXCEPT !.state = state]
  <1>3. clients[c] \in CopilotClient
    BY <1>1, ElementOfSeq DEF AgentGood
  <1>4. new \in CopilotClient /\ new.state = state
    BY <1>3 DEF CopilotClient
  <1>5. clients' = [clients EXCEPT ![c] = new]
    BY <1>2
  <1> HIDE DEF new
  <1>6. /\ clients' \in Seq(CopilotClient) /\ DOMAIN clients' = DOMAIN clients
        /\ \A d \in DOMAIN clients : clients'[d] = IF d = c THEN new ELSE clients[d]
    BY <1>1, <1>4, <1>5, ExceptSeq DEF AgentGood
  <1>7. starting = c /\ client = Nobody
    BY <1>2 DEF AgentGood, OneClient
  <1>8. OneClient'
    BY <1>1, <1>2, <1>4, <1>6, <1>7 DEF AgentGood, OneClient
  <1> QED
    BY <1>2, <1>6, <1>8 DEF AgentGood

-----------------------------------------------------------------------------
(* The objects.                                                            *)

\* The session's current object is disposed and leaves the map.
LEMMA DisposedGood ==
  ASSUME ObjectsGood, NEW s \in SessionId
  PROVE  /\ Disposed(s) \in Seq(Object) /\ DOMAIN Disposed(s) = DOMAIN objects
         /\ \A o \in DOMAIN objects :
              /\ Disposed(s)[o].session = objects[o].session
              /\ Disposed(s)[o].plugins = objects[o].plugins
              /\ Disposed(s)[o].sdk = "live" => o # sessions[s] /\ objects[o].sdk = "live"
  <1>1. Nobody \notin DOMAIN objects /\ DOMAIN objects = 1 .. Len(objects)
    BY NobodyIsNoIndex DEF ObjectsGood
  <1>2. CASE sessions[s] = Nobody
    BY <1>1, <1>2 DEF Disposed, ObjectsGood
  <1>3. CASE sessions[s] # Nobody
    <2> DEFINE o == sessions[s]
               new == DisposedObject(objects[o])
    <2>1. o \in DOMAIN objects
      BY <1>3 DEF ObjectsGood
    <2>2. objects[o] \in Object
      BY <1>1, <2>1, ElementOfSeq DEF ObjectsGood
    <2>3. /\ new \in Object /\ new.sdk # "live"
          /\ new.session = objects[o].session /\ new.plugins = objects[o].plugins
      BY <2>2 DEF DisposedObject, Object
    <2>4. Disposed(s) = [objects EXCEPT ![o] = new]
      BY <1>3 DEF Disposed
    <2> HIDE DEF new, o
    <2>5. /\ Disposed(s) \in Seq(Object) /\ DOMAIN Disposed(s) = DOMAIN objects
          /\ \A p \in DOMAIN objects : Disposed(s)[p] = IF p = o THEN new ELSE objects[p]
      BY <1>1, <2>1, <2>3, <2>4, ExceptSeq DEF ObjectsGood
    <2>6. \A p \in DOMAIN objects :
            /\ Disposed(s)[p].session = objects[p].session
            /\ Disposed(s)[p].plugins = objects[p].plugins
            /\ Disposed(s)[p].sdk = "live" => p # o /\ objects[p].sdk = "live"
      BY <2>3, <2>5
    <2> QED
      BY <2>5, <2>6 DEF o
  <1> QED
    BY <1>2, <1>3

\* A disposal leaves nothing live out of reach.
LEMMA DisposalGood ==
  ASSUME ObjectsGood, NEW s \in SessionId, objects' = Disposed(s), orderly' = orderly,
         sessions' = [sessions EXCEPT ![s] = Nobody]
  PROVE  ObjectsGood'
  <1>1. /\ objects' \in Seq(Object) /\ DOMAIN objects' = DOMAIN objects
        /\ \A o \in DOMAIN objects :
             /\ objects'[o].session = objects[o].session
             /\ objects'[o].sdk = "live" => o # sessions[s] /\ objects[o].sdk = "live"
    BY DisposedGood
  <1>2. sessions' \in [SessionId -> DOMAIN objects' \cup {Nobody}]
    BY <1>1 DEF ObjectsGood
  <1>3. LiveIsReachable'
    <2> SUFFICES ASSUME NEW o \in DOMAIN objects, objects'[o].session \in orderly,
                        objects'[o].sdk = "live"
                 PROVE  sessions'[objects'[o].session] = o
      BY <1>1 DEF LiveIsReachable
    <2>1. sessions[objects[o].session] = o /\ o # sessions[s] /\ objects'[o].session = objects[o].session
      BY <1>1 DEF ObjectsGood, LiveIsReachable
    <2> QED
      BY <2>1 DEF ObjectsGood
  <1> QED
    BY <1>1, <1>2, <1>3 DEF ObjectsGood

\* A new object takes the place of the old one.
LEMMA ReplacementGood ==
  ASSUME ObjectsGood, NEW s \in SessionId, NEW new \in Object, new.session = s,
         new.sdk = "none", orderly' = orderly,
         objects' = Append(Disposed(s), new),
         sessions' = [sessions EXCEPT ![s] = Len(objects) + 1]
  PROVE  /\ ObjectsGood'
         /\ Len(objects) + 1 \in DOMAIN objects' /\ DOMAIN objects \subseteq DOMAIN objects'
         /\ objects'[Len(objects) + 1] = new
         /\ \A o \in DOMAIN objects : /\ objects'[o].session = objects[o].session
                                      /\ objects'[o].plugins = objects[o].plugins
  <1> DEFINE old == Disposed(s)
             n == Len(objects) + 1
  <1>1. Nobody \notin DOMAIN objects /\ DOMAIN objects = 1 .. Len(objects) /\ Len(objects) \in Nat
    BY NobodyIsNoIndex DEF ObjectsGood
  <1>2. /\ old \in Seq(Object) /\ DOMAIN old = DOMAIN objects
        /\ \A o \in DOMAIN objects :
             /\ old[o].session = objects[o].session /\ old[o].plugins = objects[o].plugins
             /\ old[o].sdk = "live" => o # sessions[s] /\ objects[o].sdk = "live"
    BY DisposedGood
  <1> HIDE DEF old
  <1>3. Len(old) = Len(objects)
    BY <1>1, <1>2, LenProperties
  <1>4. /\ objects' \in Seq(Object) /\ DOMAIN objects' = 1 .. n
        /\ objects'[n] = new /\ \A o \in DOMAIN objects : objects'[o] = old[o]
    BY <1>1, <1>2, <1>3, AppendProperties, LenProperties DEF old
  <1>5. sessions' \in [SessionId -> DOMAIN objects' \cup {Nobody}]
    BY <1>1, <1>4 DEF ObjectsGood
  <1>6. LiveIsReachable'
    <2> SUFFICES ASSUME NEW o \in DOMAIN objects', objects'[o].session \in orderly,
                        objects'[o].sdk = "live"
                 PROVE  sessions'[objects'[o].session] = o
      BY DEF LiveIsReachable
    <2>1. o \in DOMAIN objects
      BY <1>1, <1>4
    <2>2. /\ sessions[objects[o].session] = o /\ o # sessions[s]
          /\ objects'[o].session = objects[o].session
      BY <1>2, <1>4, <2>1 DEF ObjectsGood, LiveIsReachable
    <2> QED
      BY <2>2 DEF ObjectsGood
  <1>7. n \in 1 .. n /\ DOMAIN objects \subseteq 1 .. n
    BY <1>1
  <1> QED
    BY <1>2, <1>4, <1>5, <1>6, <1>7 DEF ObjectsGood

\* An object takes its SDK session; in an orderly session it is the one in the map.
LEMMA LiveGood ==
  ASSUME ObjectsGood, NEW o \in DOMAIN objects, orderly' = orderly, sessions' = sessions,
         objects' = [objects EXCEPT ![o].sdk = "live"],
         objects[o].session \in orderly => sessions[objects[o].session] = o
  PROVE  /\ ObjectsGood' /\ DOMAIN objects' = DOMAIN objects
         /\ \A p \in DOMAIN objects : /\ objects'[p].session = objects[p].session
                                      /\ objects'[p].plugins = objects[p].plugins
  <1>1. DOMAIN objects = 1 .. Len(objects)
    BY NobodyIsNoIndex DEF ObjectsGood
  <1> DEFINE new == [objects[o] EXCEPT !.sdk = "live"]
  <1>2. objects[o] \in Object
    BY <1>1, ElementOfSeq DEF ObjectsGood
  <1>3. new \in Object /\ new.session = objects[o].session /\ new.plugins = objects[o].plugins
    BY <1>2 DEF Object
  <1>4. objects' = [objects EXCEPT ![o] = new]
    OBVIOUS
  <1> HIDE DEF new
  <1>5. /\ objects' \in Seq(Object) /\ DOMAIN objects' = DOMAIN objects
        /\ \A p \in DOMAIN objects : objects'[p] = IF p = o THEN new ELSE objects[p]
    BY <1>1, <1>3, <1>4, ExceptSeq DEF ObjectsGood
  <1>6. LiveIsReachable'
    BY <1>3, <1>5 DEF ObjectsGood, LiveIsReachable
  <1> QED
    BY <1>3, <1>5, <1>6 DEF ObjectsGood

-----------------------------------------------------------------------------
(* The calls.                                                              *)

\* A call stays good while the rest grows, if the object that it initializes stays
\* in the map.
LEMMA CallStaysGood ==
  ASSUME NEW r, CallGood(r), Grows,
         r.at = "init" /\ r.session \in orderly => sessions'[r.session] = sessions[r.session]
  PROVE  CallGood(r)'
  <1>1. /\ r.since \in Nat /\ r.sync \in Nat
        /\ r.since <= r.sync /\ r.sync <= requested'
    BY DEF CallGood, Call, Grows
  <1>2. ASSUME r.at = "init"
        PROVE  /\ objects'[r.object].session = r.session
               /\ r.session \in orderly' => sessions'[r.session] = r.object
    BY <1>2 DEF CallGood, Grows
  <1>3. ASSUME r.op = "send", r.at \in {"init", "sending"}
        PROVE  \E n \in r.since .. Len(synced') : objects'[r.object].plugins = SyncResult(n)'
    <2>1. PICK n \in r.since .. Len(synced) : objects[r.object].plugins = SyncResult(n)
      BY <1>3 DEF CallGood
    <2>2. n \in r.since .. Len(synced') /\ n \in Nat /\ (n # 0 => n \in 1 .. Len(synced))
      BY <1>1, <2>1 DEF Grows
    <2>3. SyncResult(n)' = SyncResult(n)
      BY <2>2 DEF SyncResult, Grows
    <2>4. objects'[r.object].plugins = objects[r.object].plugins
      BY <1>3 DEF CallGood, Grows
    <2> QED
      BY <2>1, <2>2, <2>3, <2>4
  <1> QED
    BY <1>1, <1>2, <1>3 DEF CallGood, Grows

\* Nothing happens to the calls.
LEMMA CallsStayGood ==
  ASSUME CallsGood, Grows, calls' = calls,
         \/ sessions' = sessions
         \/ \E s : /\ s \in orderly => \A k \in CallsOf(s) : ~UnsettledCall(calls[k])
                   /\ \A t \in SessionId \ {s} : sessions'[t] = sessions[t]
  PROVE  CallsGood'
  <1>1. Running' = Running
    BY DEF Running
  <1>2. ASSUME NEW k \in Running, NEW r, r = calls[k] PROVE CallGood(r)'
    <2>1. CallGood(r) /\ r.session \in SessionId
      BY <1>2 DEF CallsGood, CallGood, Call
    <2>2. r.at = "init" /\ r.session \in orderly => sessions'[r.session] = sessions[r.session]
      BY <1>2, <2>1 DEF UnsettledCall, CallsOf
    <2> QED
      BY <2>1, <2>2, CallStaysGood
  <1>3. ASSUME NEW k \in Running' PROVE CallGood(calls[k])'
    <2>1. PICK r : r = calls[k] /\ r = calls'[k]
      OBVIOUS
    <2> QED
      BY <1>1, <1>2, <2>1
  <1>4. OneUnsettled'
    BY <1>1 DEF CallsGood, OneUnsettled, Grows
  <1> QED
    BY <1>1, <1>3, <1>4 DEF CallsGood

\* One call goes on or ends.  It may change the map for its session while it is
\* unsettled, as no other call of an orderly session is then.
LEMMA CallGoesOn ==
  ASSUME CallsGood, Grows, NEW k \in Running, NEW r, calls' = [calls EXCEPT ![k] = r],
         r # Nobody => CallGood(r)',
         r # Nobody => r.session = calls[k].session,
         r # Nobody /\ UnsettledCall(r) => UnsettledCall(calls[k]),
         \/ sessions' = sessions
         \/ /\ UnsettledCall(calls[k])
            /\ \A t \in SessionId \ {calls[k].session} : sessions'[t] = sessions[t]
  PROVE  CallsGood'
  <1>1. /\ k \in Place /\ calls \in [Place -> Call \cup {Nobody}]
        /\ \A j \in Place : calls'[j] = IF j = k THEN r ELSE calls[j]
    BY DEF CallsGood, Running
  <1>2. Running' \subseteq Running
    BY <1>1 DEF Running
  <1>3. ASSUME NEW j \in Running', NEW q, q = calls'[j] PROVE CallGood(q)'
    <2>1. CASE j = k
      <3>1. q = r /\ r # Nobody
        BY <1>1, <1>3, <2>1 DEF Running
      <3> QED
        BY <3>1
    <2>2. CASE j # k
      <3>1. j \in Running /\ q = calls[j] /\ CallGood(q) /\ q.session \in SessionId
        BY <1>1, <1>2, <1>3, <2>2 DEF CallsGood, CallGood, Call, Running
      <3>2. q.at = "init" /\ q.session \in orderly => sessions'[q.session] = sessions[q.session]
        BY <2>2, <3>1 DEF CallsGood, OneUnsettled, UnsettledCall
      <3> QED
        BY <3>1, <3>2, CallStaysGood
    <2> QED
      BY <2>1, <2>2
  <1>4. ASSUME NEW j \in Running' PROVE CallGood(calls[j])'
    <2>1. PICK q : q = calls'[j]
      OBVIOUS
    <2> QED
      BY <1>3, <2>1
  <1>5. ASSUME NEW j \in Running' PROVE calls'[j] \in Call
    BY <1>4 DEF CallGood
  <1>6. OneUnsettled'
    <2>1. ASSUME NEW j \in Running'
          PROVE  /\ calls'[j].session = calls[j].session
                 /\ UnsettledCall(calls'[j]) => UnsettledCall(calls[j])
      <3>1. CASE j # k
        BY <1>1, <2>1, <3>1 DEF Running
      <3>2. CASE j = k
        <4>1. calls'[j] = r /\ r # Nobody
          BY <1>1, <2>1, <3>2 DEF Running
        <4> QED
          BY <3>2, <4>1
      <3> QED
        BY <3>1, <3>2
    <2> SUFFICES ASSUME NEW i \in Running', NEW j \in Running',
                        UnsettledCall(calls'[i]), UnsettledCall(calls'[j]),
                        calls'[i].session = calls'[j].session, calls'[i].session \in orderly
                 PROVE  i = j
      BY DEF OneUnsettled, UnsettledCall, Grows
    <2> QED
      BY <1>2, <2>1 DEF CallsGood, OneUnsettled
  <1>7. calls' \in [Place -> Call \cup {Nobody}]
    BY <1>1, <1>5 DEF Running
  <1> QED
    BY <1>4, <1>6, <1>7 DEF CallsGood

\* A call begins, in an orderly session only if none is unsettled.
LEMMA CopilotCallBegins ==
  ASSUME CallsGood, Grows, NEW r, Begin(r), CallGood(r)', sessions' = sessions,
         MayStart(r.session)
  PROVE  CallsGood'
  <1>1. PICK k \in Place \ Running : calls' = [calls EXCEPT ![k] = r]
    <2>1. Place \ Running # {}
      BY DEF Begin, Running
    <2> QED
      BY <2>1 DEF Begin
  <1>2. /\ calls \in [Place -> Call \cup {Nobody}]
        /\ \A j \in Place : calls'[j] = IF j = k THEN r ELSE calls[j]
    BY <1>1 DEF CallsGood
  <1>3. Running' \subseteq Running \cup {k}
    BY <1>2 DEF Running
  <1>4. ASSUME NEW j \in Running', NEW q, q = calls'[j] PROVE CallGood(q)'
    <2>1. CASE j = k
      BY <1>2, <1>4, <2>1 DEF Running
    <2>2. CASE j # k
      <3>1. j \in Running /\ q = calls[j] /\ CallGood(q)
        BY <1>2, <1>3, <1>4, <2>2 DEF CallsGood, Running
      <3> QED
        BY <3>1, CallStaysGood
    <2> QED
      BY <2>1, <2>2
  <1>5. ASSUME NEW j \in Running' PROVE CallGood(calls[j])'
    <2>1. PICK q : q = calls'[j]
      OBVIOUS
    <2> QED
      BY <1>4, <2>1
  <1>6. \A j \in Running : UnsettledCall(calls[j]) /\ calls[j].session = r.session
                          => r.session \notin orderly
    BY DEF MayStart, Unsettled, CallsOf, UnsettledCall
  <1>7. OneUnsettled'
    <2>1. \A j \in Running' : calls'[j] = (IF j = k THEN r ELSE calls[j]) /\ (j # k => j \in Running)
      BY <1>2, <1>3 DEF Running
    <2> SUFFICES ASSUME NEW i \in Running', NEW j \in Running',
                        UnsettledCall(calls'[i]), UnsettledCall(calls'[j]),
                        calls'[i].session = calls'[j].session, calls'[i].session \in orderly
                 PROVE  i = j
      BY DEF OneUnsettled, UnsettledCall, Grows
    <2> QED
      BY <1>6, <2>1 DEF CallsGood, OneUnsettled
  <1>8. \A j \in Running' : calls'[j] \in Call
    BY <1>5 DEF CallGood
  <1>9. calls' \in [Place -> Call \cup {Nobody}]
    BY <1>1, <1>2, <1>8 DEF CallsGood, Running
  <1> QED
    BY <1>5, <1>7, <1>9 DEF CallsGood

\* What a call becomes is good if what it now refers to is.
LEMMA NextCallGood ==
  ASSUME NEW r, CallGood(r), Grows, NEW q \in Call,
         q.op = r.op, q.session = r.session, q.since = r.since,
         q.sync = r.sync \/ q.sync = requested,
         q.at \in {"client", "list"} => q.client \in DOMAIN clients',
         q.at \in {"init", "check", "sending", "messages"} => q.object \in DOMAIN objects',
         q.at = "init" => objects'[q.object].session = q.session,
         q.at = "init" /\ q.session \in orderly => sessions'[q.session] = q.object,
         q.op = "send" /\ q.at \in {"init", "sending"} =>
           \E n \in q.since .. Len(synced) : objects'[q.object].plugins = SyncResult(n)
  PROVE  CallGood(q)'
  <1>1. /\ r.since \in Nat /\ r.sync \in Nat /\ r.since <= r.sync /\ r.sync <= requested
        /\ requested \in Nat /\ requested' \in Nat /\ requested <= requested'
    BY DEF CallGood, Call, Grows
  <1>2. q.since <= q.sync /\ q.sync <= requested'
    BY <1>1
  <1>3. ASSUME q.op = "send", q.at \in {"init", "sending"}
        PROVE  \E n \in q.since .. Len(synced') : objects'[q.object].plugins = SyncResult(n)'
    <2>1. PICK n \in q.since .. Len(synced) : objects'[q.object].plugins = SyncResult(n)
      BY <1>3
    <2>2. n \in q.since .. Len(synced') /\ (n # 0 => n \in 1 .. Len(synced))
      BY <1>1, <2>1 DEF Grows
    <2>3. SyncResult(n)' = SyncResult(n)
      BY <2>2 DEF SyncResult, Grows
    <2> QED
      BY <2>1, <2>2, <2>3
  <1> QED
    BY <1>2, <1>3 DEF CallGood, Grows

\* A call of an object ends the call or moves it to that object.
LEMMA UseObjectMoves ==
  ASSUME CopilotInv, Grows, NEW k \in Running, NEW o \in DOMAIN objects,
         NEW at \in {"sending", "messages"}, UseObject(k, o, at), sessions' = sessions,
         at = "sending" =>
           \E n \in calls[k].since .. Len(synced) : objects[o].plugins = SyncResult(n)
  PROVE  CallsGood'
  <1>1. CallsGood /\ CallGood(calls[k]) /\ calls[k] \in Call /\ o \in Nat
    BY NobodyIsNoIndex DEF CopilotInv, ObjectsGood, CallsGood, CallGood
  <1>2. CASE calls' = [calls EXCEPT ![k] = Nobody]
    BY <1>1, <1>2, CallGoesOn
  <1>3. CASE calls' = [calls EXCEPT ![k].object = o, ![k].at = at]
    <2> DEFINE q == [calls[k] EXCEPT !.object = o, !.at = at]
    <2>1. calls' = [calls EXCEPT ![k] = q]
      BY <1>1, <1>3 DEF CallsGood, Running
    <2>2. /\ q \in Call /\ q.op = calls[k].op /\ q.session = calls[k].session
          /\ q.since = calls[k].since /\ q.sync = calls[k].sync /\ q.at = at /\ q.object = o
      BY <1>1 DEF Call, Await
    <2>3. PICK r, c : r = q /\ c = calls[k]
      OBVIOUS
    <2>4. /\ objects'[o].plugins = objects[o].plugins /\ o \in DOMAIN objects'
      BY DEF Grows
    <2> HIDE DEF q
    <2>5. CallGood(r)'
      BY <1>1, <2>2, <2>3, <2>4, NextCallGood
    <2>6. ~UnsettledCall(r)
      BY <2>2, <2>3 DEF UnsettledCall
    <2> QED
      BY <1>1, <2>1, <2>2, <2>3, <2>5, <2>6, CallGoesOn
  <1> QED
    BY <1>2, <1>3 DEF UseObject, Ends

-----------------------------------------------------------------------------
(* The invariant is inductive.                                             *)

LEMMA CopilotInit_Inv == CopilotInit => CopilotInv
  <1> SUFFICES ASSUME CopilotInit PROVE CopilotInv
    OBVIOUS
  <1>1. AgentGood
    BY EmptySeq DEF CopilotInit, AgentGood, OneClient
  <1>2. ObjectsGood
    BY EmptySeq DEF CopilotInit, ObjectsGood, LiveIsReachable
  <1>3. PluginsGood
    BY EmptySeq DEF CopilotInit, PluginsGood
  <1>4. CallsGood
    BY DEF CopilotInit, CallsGood, OneUnsettled, Running
  <1> QED
    BY <1>1, <1>2, <1>3, <1>4 DEF CopilotInit, CopilotInv

\* With the plugins as they are, it is enough that clients and objects grow.
LEMMA StepGrows ==
  ASSUME CopilotInv, UNCHANGED <<orderly, pluginVars>>,
         DOMAIN clients \subseteq DOMAIN clients', DOMAIN objects \subseteq DOMAIN objects',
         \A o \in DOMAIN objects : /\ objects'[o].session = objects[o].session
                                  /\ objects'[o].plugins = objects[o].plugins
  PROVE  Grows /\ PluginsGood'
  <1>1. synced \in Seq(Plugins) /\ requested \in Nat /\ Len(synced) \in Nat
    BY DEF CopilotInv, PluginsGood
  <1>2. synced' = synced /\ requested' = requested
    BY DEF pluginVars
  <1> QED
    BY <1>1, <1>2 DEF Grows, CopilotInv, PluginsGood

LEMMA ObjectsStay ==
  ASSUME ObjectsGood, UNCHANGED <<orderly, objects, sessions>>
  PROVE  ObjectsGood'
  BY DEF ObjectsGood, LiveIsReachable

LEMMA AgentStays ==
  ASSUME AgentGood, UNCHANGED agentVars
  PROVE  AgentGood'
  BY DEF AgentGood, OneClient, agentVars

LEMMA Client_Inv ==
  ASSUME CopilotInv, UNCHANGED orderly,
         Authenticate \/ ClientStopped \/ ClientStarted \/ ClientFailed
  PROVE  CopilotInv'
  <1>1. AgentGood' /\ DOMAIN clients' = DOMAIN clients
    BY AuthenticateGood, StopEndsGood, StartEndsGood DEF CopilotInv
  <1>2. UNCHANGED <<orderly, objects, sessions, pluginVars, calls, states, stored>>
    BY DEF Authenticate, ClientStopped, ClientStarted, ClientFailed
  <1>3. Grows /\ PluginsGood'
    BY <1>1, <1>2, StepGrows
  <1>4. ObjectsGood'
    BY <1>2, ObjectsStay DEF CopilotInv
  <1>5. CallsGood'
    BY <1>2, <1>3, CallsStayGood DEF CopilotInv
  <1> QED
    BY <1>1, <1>2, <1>3, <1>4, <1>5 DEF CopilotInv

LEMMA Plugins_Inv ==
  ASSUME CopilotInv, SetClientCustomizations \/ SyncDone, UNCHANGED orderly
  PROVE  CopilotInv'
  <1>1. UNCHANGED <<orderly, agentVars, objects, sessions, calls, states, stored>>
    BY DEF SetClientCustomizations, SyncDone
  <1>2. synced \in Seq(Plugins) /\ requested \in Nat /\ Len(synced) \in Nat /\ Len(synced) <= requested
    BY DEF CopilotInv, PluginsGood
  <1>3. PluginsGood' /\ Grows
    <2>1. CASE SetClientCustomizations
      BY <1>1, <1>2, <2>1 DEF SetClientCustomizations, PluginsGood, Grows, agentVars
    <2>2. CASE SyncDone
      <3>1. PICK p \in Plugins : synced' = Append(synced, p)
        BY <2>2 DEF SyncDone
      <3>2. /\ synced' \in Seq(Plugins) /\ Len(synced') = Len(synced) + 1
            /\ \A n \in 1 .. Len(synced) : synced'[n] = synced[n]
        BY <1>2, <3>1, AppendProperties
      <3>3. requested' = requested /\ Len(synced) < requested
        BY <2>2 DEF SyncDone
      <3> QED
        BY <1>1, <1>2, <3>2, <3>3 DEF PluginsGood, Grows, agentVars
    <2> QED
      BY <2>1, <2>2
  <1>4. AgentGood' /\ ObjectsGood'
    BY <1>1, AgentStays, ObjectsStay DEF CopilotInv
  <1>5. CallsGood'
    BY <1>1, <1>3, CallsStayGood DEF CopilotInv
  <1> QED
    BY <1>1, <1>3, <1>4, <1>5 DEF CopilotInv

\* A call that begins knows the client that it waits for, or the object in the map.
LEMMA NewCallGood ==
  ASSUME CopilotInv, Grows, NEW op \in {"create", "send", "restore"}, NEW s \in SessionId,
         NEW at \in {"client", "list", "check"}, NEW c, NEW o,
         at = "check" => o \in DOMAIN objects /\ c = Nobody,
         at # "check" => c \in DOMAIN clients' /\ o = Nobody, clients' \in Seq(CopilotClient),
         requested' = requested,
         NEW q, q = NewCall(op, s, at, c, o)
  PROVE  CallGood(q)' /\ q.session = s
  <1>1. requested \in Nat /\ DOMAIN clients' \subseteq Nat /\ DOMAIN objects \subseteq Nat
    BY NobodyIsNoIndex DEF CopilotInv, PluginsGood, ObjectsGood
  <1>2. /\ q \in Call /\ q.op = op /\ q.session = s /\ q.at = at /\ q.client = c
        /\ q.object = o /\ q.sync = requested /\ q.since = requested
    BY <1>1 DEF NewCall, Call, Await
  <1> QED
    BY <1>1, <1>2 DEF CallGood, Grows

LEMMA Operation_Inv ==
  ASSUME CopilotInv, CreateSession \/ SendMessage \/ RestoreSession, UNCHANGED orderly
  PROVE  CopilotInv'
  <1>1. /\ UNCHANGED <<orderly, objects, sessions, pluginVars, states, stored>>
        /\ requested' = requested
    BY DEF CreateSession, SendMessage, RestoreSession, pluginVars
  <1>2. PICK op \in {"create", "send", "restore"}, s \in SessionId,
             at \in {"client", "list", "check"}, c \in {Nobody, Acquired},
             o \in {Nobody} \cup {sessions[z] : z \in SessionId} :
          /\ MayStart(s)
          /\ Begin(NewCall(op, s, at, c, o))
          /\ at = "check" => o = sessions[s] /\ o # Nobody /\ c = Nobody /\ UNCHANGED agentVars
          /\ at # "check" => c = Acquired /\ o = Nobody /\ EnsureClient
    <2>1. CASE CreateSession
      <3>1. PICK s \in SessionId : /\ CallsOf(s) = {}
                                  /\ Begin(NewCall("create", s, "client", Acquired, Nobody))
                                  /\ EnsureClient
        BY <2>1 DEF CreateSession
      <3>2. MayStart(s)
        BY <3>1 DEF MayStart, Unsettled
      <3> QED
        BY <3>1, <3>2
    <2>2. CASE SendMessage
      BY <2>2 DEF SendMessage
    <2>3. CASE RestoreSession
      BY <2>3 DEF RestoreSession
    <2> QED
      BY <2>1, <2>2, <2>3
  <1>3. AgentGood' /\ DOMAIN clients \subseteq DOMAIN clients' /\ (at # "check" => Acquired \in DOMAIN clients')
    <2>1. CASE at = "check"
      BY <1>2, <2>1, AgentStays DEF CopilotInv, agentVars
    <2>2. CASE at # "check"
      BY <1>2, <2>2, EnsureClientGood DEF CopilotInv
    <2> QED
      BY <2>1, <2>2
  <1>4. Grows /\ PluginsGood'
    BY <1>1, <1>3, StepGrows
  <1>5. ObjectsGood'
    BY <1>1, ObjectsStay DEF CopilotInv
  <1>6. PICK q : q = NewCall(op, s, at, c, o)
    OBVIOUS
  <1>7. CallGood(q)' /\ q.session = s
    <2>1. at = "check" => o \in DOMAIN objects
      BY <1>2 DEF CopilotInv, ObjectsGood
    <2>2. clients' \in Seq(CopilotClient)
      BY <1>3 DEF AgentGood
    <2> QED
      BY <1>1, <1>2, <1>3, <1>4, <1>6, <2>1, <2>2, NewCallGood
  <1>8. CallsGood'
    BY <1>1, <1>2, <1>4, <1>6, <1>7, CopilotCallBegins DEF CopilotInv
  <1> QED
    BY <1>1, <1>3, <1>4, <1>5, <1>8 DEF CopilotInv

LEMMA DisposeSession_Inv ==
  ASSUME CopilotInv, DisposeSession, UNCHANGED orderly
  PROVE  CopilotInv'
  <1>1. PICK s \in states :
          /\ MayStart(s) /\ objects' = Disposed(s)
          /\ sessions' = [sessions EXCEPT ![s] = Nobody] /\ states' = states \ {s}
          /\ UNCHANGED <<agentVars, pluginVars, calls, stored>>
    BY DEF DisposeSession
  <1>2. s \in SessionId /\ ObjectsGood /\ UNCHANGED clients
    BY <1>1 DEF CopilotInv, agentVars
  <1>3. ObjectsGood'
    BY <1>1, <1>2, DisposalGood
  <1>4. Grows /\ PluginsGood'
    BY <1>1, <1>2, DisposedGood, StepGrows
  <1>5. s \in orderly => \A k \in CallsOf(s) : ~UnsettledCall(calls[k])
    BY <1>1 DEF MayStart, Unsettled, UnsettledCall
  <1>6. \A t \in SessionId \ {s} : sessions'[t] = sessions[t]
    BY <1>1, <1>2 DEF ObjectsGood
  <1>7. CallsGood'
    BY <1>1, <1>4, <1>5, <1>6, CallsStayGood DEF CopilotInv
  <1> QED
    BY <1>1, <1>3, <1>4, <1>7, AgentStays DEF CopilotInv

\* A call that goes on without touching clients, objects or the map.
LEMMA CallMoves ==
  ASSUME CopilotInv, NEW k \in Running, UNCHANGED orderly,
         UNCHANGED <<agentVars, objects, sessions, pluginVars>>,
         states' \in SUBSET SessionId, stored' \in SUBSET SessionId,
         NEW q, calls' = [calls EXCEPT ![k] = q],
         q = Nobody \/ \E at \in {"plugins", "sending", "messages", "publish"}, n \in {calls[k].sync, requested} :
           /\ q = [calls[k] EXCEPT !.at = at, !.sync = n]
           /\ at = "plugins" => UnsettledCall(calls[k])
           /\ at \in {"sending", "messages"} => calls[k].at = "init"
  PROVE  CopilotInv'
  <1>1. Grows /\ PluginsGood' /\ ObjectsGood' /\ AgentGood'
    BY StepGrows, ObjectsStay, AgentStays DEF agentVars, CopilotInv
  <1>2. CallGood(calls[k]) /\ calls[k] \in Call /\ requested \in Nat /\ requested' = requested
    BY DEF CopilotInv, CallsGood, CallGood, PluginsGood, pluginVars
  <1>3. CASE q = Nobody
    BY <1>1, <1>3, CallGoesOn DEF CopilotInv
  <1>4. CASE q # Nobody
    <2>1. PICK at \in {"plugins", "sending", "messages", "publish"}, n \in {calls[k].sync, requested} :
            /\ q = [calls[k] EXCEPT !.at = at, !.sync = n]
            /\ at = "plugins" => UnsettledCall(calls[k])
            /\ at \in {"sending", "messages"} => calls[k].at = "init"
      BY <1>4
    <2>2. PICK c : c = calls[k]
      OBVIOUS
    <2>3. /\ q \in Call /\ q.op = c.op /\ q.session = c.session /\ q.since = c.since
          /\ q.sync = n /\ q.at = at /\ q.object = c.object
      BY <1>2, <2>1, <2>2 DEF Call, Await
    <2>4. at \in {"sending", "messages"} =>
            /\ c.object \in DOMAIN objects'
            /\ q.op = "send" => \E m \in c.since .. Len(synced) :
                                  objects'[c.object].plugins = SyncResult(m)
      BY <1>1, <1>2, <2>1, <2>2, <2>3 DEF CallGood, Grows
    <2>5. CallGood(q)'
      <3>1. CallGood(c) /\ Grows
        BY <1>1, <1>2, <2>2
      <3>2. q.sync = c.sync \/ q.sync = requested
        BY <2>2, <2>3
      <3>3. q.at \notin {"client", "list", "init", "check"}
        BY <2>3
      <3> QED
        BY <2>3, <2>4, <3>1, <3>2, <3>3, NextCallGood
    <2>6. UnsettledCall(q) => UnsettledCall(calls[k])
      BY <2>1, <2>3 DEF UnsettledCall
    <2> QED
      BY <1>1, <2>2, <2>3, <2>5, <2>6, CallGoesOn DEF CopilotInv
  <1>5. CallsGood'
    BY <1>3, <1>4 DEF CopilotInv
  <1> QED
    BY <1>1, <1>5 DEF CopilotInv

\* A call waits for the client again, with or without an object in the map.
LEMMA ResumeGood ==
  ASSUME CopilotInv, NEW k \in Running, Resume(k), Grows, UnsettledCall(calls[k]),
         UNCHANGED pluginVars,
         \A t \in SessionId \ {calls[k].session} : sessions'[t] = sessions[t]
  PROVE  AgentGood' /\ CallsGood' /\ DOMAIN clients \subseteq DOMAIN clients'
  <1>1. AgentGood' /\ Acquired \in DOMAIN clients' /\ DOMAIN clients \subseteq DOMAIN clients'
    BY EnsureClientGood DEF CopilotInv, Resume
  <1>2. CallGood(calls[k]) /\ calls[k] \in Call /\ calls \in [Place -> Call \cup {Nobody}] /\ k \in Place
    BY DEF CopilotInv, CallsGood, CallGood, Running
  <1>3. Acquired \in Nat
    BY <1>1, NobodyIsNoIndex DEF AgentGood
  <1> DEFINE q == [calls[k] EXCEPT !.at = "client", !.client = Acquired]
  <1>4. calls' = [calls EXCEPT ![k] = q]
    BY <1>2 DEF Resume
  <1>5. /\ q \in Call /\ q.op = calls[k].op /\ q.session = calls[k].session
        /\ q.since = calls[k].since /\ q.sync = calls[k].sync /\ q.at = "client"
        /\ q.client = Acquired
    BY <1>2, <1>3 DEF Call, Await
  <1>6. PICK r, c, n : r = q /\ c = calls[k] /\ n = Acquired
    OBVIOUS
  <1>7. n \in DOMAIN clients'
    <2>1. PICK d \in DOMAIN clients' : d = Acquired
      BY <1>1
    <2> QED
      BY <1>6, <2>1
  <1> HIDE DEF q
  <1>8. CallGood(r)'
    BY <1>2, <1>5, <1>6, <1>7, NextCallGood
  <1>9. CallsGood'
    BY <1>4, <1>5, <1>6, <1>8, CallGoesOn DEF CopilotInv
  <1> QED
    BY <1>1, <1>9

-----------------------------------------------------------------------------
(* The steps of a call.                                                    *)

\* The steps that only move the call, publish the session or end the call.
LEMMA Moves_Inv ==
  ASSUME CopilotInv, NEW k \in Running, UNCHANGED orderly,
         GotClient(k) \/ InitFailed(k) \/ Answered(k) \/ Publish(k) \/ Fails(k)
  PROVE  CopilotInv'
  <1>1. /\ calls[k] \in Call /\ calls \in [Place -> Call \cup {Nobody}] /\ k \in Place
        /\ states \in SUBSET SessionId /\ stored \in SUBSET SessionId
    BY DEF CopilotInv, CallsGood, CallGood, Running
  <1>2. UNCHANGED <<agentVars, objects, sessions, pluginVars, stored>>
    BY DEF GotClient, InitFailed, Answered, Publish, Fails
  <1>3. states' \in SUBSET SessionId
    BY <1>1 DEF GotClient, InitFailed, Answered, Publish, Fails, Call
  <1>4. \/ calls' = [calls EXCEPT ![k] = Nobody]
        \/ calls' = [calls EXCEPT ![k].at = "publish"]
        \/ /\ calls' = [calls EXCEPT ![k].at = "plugins", ![k].sync = requested]
           /\ calls[k].at = "client"
    BY DEF GotClient, InitFailed, Answered, Publish, Fails, ResumeFails, Ends, Goto
  <1>5. CASE calls' = [calls EXCEPT ![k] = Nobody]
    BY <1>1, <1>2, <1>3, <1>5, CallMoves
  <1>6. CASE calls' = [calls EXCEPT ![k].at = "publish"]
    <2>1. PICK q : q = [calls[k] EXCEPT !.at = "publish", !.sync = calls[k].sync]
      OBVIOUS
    <2>2. q = [calls[k] EXCEPT !.at = "publish"]
      BY <1>1, <2>1 DEF Call
    <2>3. calls' = [calls EXCEPT ![k] = q]
      BY <1>1, <1>6, <2>2
    <2>4. q = Nobody \/ \E at \in {"plugins", "sending", "messages", "publish"}, n \in {calls[k].sync, requested} :
           /\ q = [calls[k] EXCEPT !.at = at, !.sync = n]
           /\ at = "plugins" => UnsettledCall(calls[k])
           /\ at \in {"sending", "messages"} => calls[k].at = "init"
      BY <2>1
    <2> QED
      BY <1>1, <1>2, <1>3, <2>3, <2>4, CallMoves
  <1>7. CASE /\ calls' = [calls EXCEPT ![k].at = "plugins", ![k].sync = requested]
             /\ calls[k].at = "client"
    <2>1. PICK q : q = [calls[k] EXCEPT !.at = "plugins", !.sync = requested]
      OBVIOUS
    <2>2. calls' = [calls EXCEPT ![k] = q]
      BY <1>1, <1>7, <2>1
    <2>3. UnsettledCall(calls[k])
      BY <1>7 DEF UnsettledCall
    <2>4. q = Nobody \/ \E at \in {"plugins", "sending", "messages", "publish"}, n \in {calls[k].sync, requested} :
           /\ q = [calls[k] EXCEPT !.at = at, !.sync = n]
           /\ at = "plugins" => UnsettledCall(calls[k])
           /\ at \in {"sending", "messages"} => calls[k].at = "init"
      BY <2>1, <2>3
    <2> QED
      BY <1>1, <1>2, <1>3, <2>2, <2>4, CallMoves
  <1> QED
    BY <1>4, <1>5, <1>6, <1>7

LEMMA GotPlugins_Inv ==
  ASSUME CopilotInv, NEW k \in Running, UNCHANGED orderly, GotPlugins(k)
  PROVE  CopilotInv'
  <1>1. PICK c, s, n, new :
          /\ c = calls[k] /\ s = c.session /\ n = Len(objects) + 1
          /\ new = [session |-> s, plugins |-> SyncResult(c.sync), sdk |-> "none", disposed |-> FALSE]
    OBVIOUS
  <1>2. /\ c \in Call /\ CallGood(c) /\ k \in Place /\ calls \in [Place -> Call \cup {Nobody}]
        /\ s \in SessionId
    BY <1>1 DEF CopilotInv, CallsGood, CallGood, Running, Call
  <1>3. /\ c.at = "plugins" /\ c.sync \in Nat /\ c.sync <= Len(synced) /\ c.since \in Nat
        /\ c.since <= c.sync
    BY <1>1, <1>2 DEF GotPlugins, SyncedUpTo, CallGood, Call
  <1>4. SyncResult(c.sync) \in Plugins \cup {NoPlugins}
    <2>1. synced \in Seq(Plugins) /\ Len(synced) \in Nat
      BY DEF CopilotInv, PluginsGood
    <2>2. c.sync # 0 => synced[c.sync] \in Plugins
      BY <1>3, <2>1, ElementOfSeq
    <2> QED
      BY <2>2 DEF SyncResult
  <1>5. new \in Object /\ new.session = s /\ new.sdk = "none" /\ new.plugins = SyncResult(c.sync)
    BY <1>1, <1>2, <1>4 DEF Object
  <1>6. /\ objects' = Append(Disposed(s), new)
        /\ sessions' = [sessions EXCEPT ![s] = n]
        /\ calls' = [calls EXCEPT ![k].at = "init", ![k].object = n]
        /\ UNCHANGED <<agentVars, pluginVars, states, stored>>
    BY <1>1 DEF GotPlugins
  <1>7. /\ ObjectsGood' /\ n \in DOMAIN objects' /\ DOMAIN objects \subseteq DOMAIN objects'
        /\ objects'[n] = new
        /\ \A o \in DOMAIN objects : /\ objects'[o].session = objects[o].session
                                     /\ objects'[o].plugins = objects[o].plugins
    <2>1. ObjectsGood
      BY DEF CopilotInv
    <2>2. sessions' = [sessions EXCEPT ![s] = Len(objects) + 1]
      BY <1>1, <1>6
    <2> QED
      BY <1>1, <1>2, <1>5, <1>6, <2>1, <2>2, ReplacementGood, ZenonT(40)
  <1>8. Grows /\ PluginsGood' /\ AgentGood'
    BY <1>6, <1>7, StepGrows, AgentStays DEF CopilotInv, agentVars
  <1>9. PICK q : q = [c EXCEPT !.at = "init", !.object = n]
    OBVIOUS
  <1>10. n \in Nat
    BY <1>1, NobodyIsNoIndex DEF CopilotInv, ObjectsGood
  <1>11. /\ q \in Call /\ q.op = c.op /\ q.session = s /\ q.since = c.since /\ q.sync = c.sync
         /\ q.at = "init" /\ q.object = n
    BY <1>1, <1>2, <1>9, <1>10 DEF Call, Await
  <1>12. calls' = [calls EXCEPT ![k] = q]
    BY <1>1, <1>2, <1>6, <1>9
  <1>13. sessions'[s] = n
    BY <1>2, <1>6 DEF CopilotInv, ObjectsGood
  <1>14. c.sync \in c.since .. Len(synced)
    BY <1>3 DEF CopilotInv, PluginsGood
  <1>15. CallGood(q)'
    BY <1>1, <1>2, <1>5, <1>7, <1>8, <1>11, <1>13, <1>14, NextCallGood
  <1>16. UnsettledCall(calls[k]) /\ \A t \in SessionId \ {calls[k].session} : sessions'[t] = sessions[t]
    BY <1>1, <1>3, <1>6 DEF UnsettledCall, CopilotInv, ObjectsGood
  <1>17. CallsGood'
    BY <1>1, <1>8, <1>11, <1>12, <1>15, <1>16, CallGoesOn DEF CopilotInv
  <1> QED
    BY <1>6, <1>7, <1>8, <1>17 DEF CopilotInv

LEMMA Initialized_Inv ==
  ASSUME CopilotInv, NEW k \in Running, UNCHANGED orderly, Initialized(k)
  PROVE  CopilotInv'
  <1>1. PICK c, o : c = calls[k] /\ o = c.object
    OBVIOUS
  <1>2. /\ c \in Call /\ CallGood(c) /\ k \in Place /\ calls \in [Place -> Call \cup {Nobody}]
        /\ c.session \in SessionId /\ c.at = "init"
    BY <1>1 DEF CopilotInv, CallsGood, CallGood, Running, Call, Initialized
  <1>3. PICK at \in {"publish", "sending", "messages"} :
          /\ calls' = [calls EXCEPT ![k].at = at]
          /\ at = "sending" <=> c.op = "send"
    <2>1. c.op \in {"create", "send", "restore"}
      BY <1>2 DEF Call
    <2> QED
      BY <1>1, <2>1 DEF Initialized, Goto
  <1>4. /\ objects' = [objects EXCEPT ![o].sdk = "live"]
        /\ stored' = stored \cup {c.session}
        /\ UNCHANGED <<agentVars, sessions, pluginVars, states>>
    BY <1>1 DEF Initialized
  <1>5. /\ o \in DOMAIN objects /\ objects[o].session = c.session
        /\ c.session \in orderly => sessions[c.session] = o
    BY <1>1, <1>2 DEF CallGood
  <1>6. /\ ObjectsGood' /\ DOMAIN objects' = DOMAIN objects
        /\ \A p \in DOMAIN objects : /\ objects'[p].session = objects[p].session
                                     /\ objects'[p].plugins = objects[p].plugins
    BY <1>4, <1>5, LiveGood DEF CopilotInv
  <1>7. Grows /\ PluginsGood' /\ AgentGood'
    BY <1>4, <1>6, StepGrows, AgentStays DEF CopilotInv, agentVars
  <1>8. PICK q : q = [c EXCEPT !.at = at]
    OBVIOUS
  <1>9. /\ q \in Call /\ q.op = c.op /\ q.session = c.session /\ q.since = c.since
        /\ q.sync = c.sync /\ q.at = at /\ q.object = o
    BY <1>1, <1>2, <1>8 DEF Call, Await
  <1>10. calls' = [calls EXCEPT ![k] = q]
    BY <1>1, <1>2, <1>3, <1>8
  <1>11. q.op = "send" => \E n \in q.since .. Len(synced) : objects'[o].plugins = SyncResult(n)
    BY <1>1, <1>2, <1>5, <1>6, <1>9 DEF CallGood
  <1>12. CallGood(q)'
    <2>1. q.at \notin {"client", "list", "init"}
      BY <1>9
    <2> QED
      BY <1>2, <1>5, <1>6, <1>7, <1>9, <1>11, <2>1, NextCallGood
  <1>13. ~UnsettledCall(q)
    BY <1>9 DEF UnsettledCall
  <1>14. CallsGood'
    BY <1>1, <1>4, <1>7, <1>9, <1>10, <1>12, <1>13, CallGoesOn DEF CopilotInv
  <1> QED
    BY <1>2, <1>4, <1>6, <1>7, <1>14 DEF CopilotInv

LEMMA Checked_Inv ==
  ASSUME CopilotInv, NEW k \in Running, UNCHANGED orderly, Checked(k)
  PROVE  CopilotInv'
  <1>1. PICK c, s : c = calls[k] /\ s = c.session
    OBVIOUS
  <1>2. /\ c \in Call /\ CallGood(c) /\ s \in SessionId /\ c.at = "check" /\ UnsettledCall(calls[k])
        /\ c.object \in DOMAIN objects /\ c.since <= c.sync /\ c.sync \in Nat /\ c.since \in Nat
        /\ c.sync <= Len(synced) /\ UNCHANGED <<pluginVars, states, stored>>
    BY <1>1 DEF CopilotInv, CallsGood, CallGood, Call, Checked, UnsettledCall, SyncedUpTo
  <1>3. CASE objects[c.object].plugins # SyncResult(c.sync)
    <2>1. objects' = Disposed(s) /\ sessions' = [sessions EXCEPT ![s] = Nobody] /\ Resume(k)
      BY <1>1, <1>3 DEF Checked
    <2>2. ObjectsGood'
      BY <1>2, <2>1, DisposalGood DEF CopilotInv
    <2>3. DOMAIN clients \subseteq DOMAIN clients'
      BY <2>1, EnsureClientGood DEF Resume, CopilotInv
    <2>4. Grows /\ PluginsGood'
      <3>1. /\ DOMAIN objects' = DOMAIN objects
            /\ \A o \in DOMAIN objects : /\ objects'[o].session = objects[o].session
                                         /\ objects'[o].plugins = objects[o].plugins
        BY <1>2, <2>1, DisposedGood DEF CopilotInv
      <3> QED
        BY <1>2, <2>3, <3>1, StepGrows
    <2>5. \A t \in SessionId \ {calls[k].session} : sessions'[t] = sessions[t]
      BY <1>1, <2>1 DEF CopilotInv, ObjectsGood
    <2>6. AgentGood' /\ CallsGood'
      BY <1>2, <2>1, <2>4, <2>5, ResumeGood
    <2> QED
      BY <1>2, <2>2, <2>4, <2>6 DEF CopilotInv
  <1>4. CASE objects[c.object].plugins = SyncResult(c.sync)
    <2>1. UseObject(k, c.object, "sending") /\ UNCHANGED <<agentVars, objects, sessions>>
      BY <1>1, <1>4 DEF Checked
    <2>2. Grows /\ PluginsGood' /\ ObjectsGood' /\ AgentGood'
      BY <1>2, <2>1, StepGrows, ObjectsStay, AgentStays DEF agentVars, CopilotInv
    <2>3. c.sync \in c.since .. Len(synced)
      BY <1>2 DEF CopilotInv, PluginsGood
    <2>4. CallsGood'
      BY <1>1, <1>2, <1>4, <2>1, <2>2, <2>3, UseObjectMoves
    <2> QED
      BY <1>2, <2>1, <2>2, <2>4 DEF CopilotInv
  <1> QED
    BY <1>3, <1>4

LEMMA Listed_Inv ==
  ASSUME CopilotInv, NEW k \in Running, UNCHANGED orderly, Listed(k)
  PROVE  CopilotInv'
  <1>1. PICK c, s : c = calls[k] /\ s = c.session
    OBVIOUS
  <1>2. /\ c \in Call /\ CallGood(c) /\ s \in SessionId /\ c.at = "list" /\ UnsettledCall(calls[k])
        /\ UNCHANGED <<objects, sessions, pluginVars, states, stored>>
    BY <1>1 DEF CopilotInv, CallsGood, CallGood, Call, Listed, UnsettledCall
  <1>3. ASSUME UNCHANGED agentVars
        PROVE  Grows /\ PluginsGood' /\ ObjectsGood' /\ AgentGood'
    BY <1>2, <1>3, StepGrows, ObjectsStay, AgentStays DEF agentVars, CopilotInv
  <1>4. CASE s \notin stored
    <2>1. Ends(k) /\ UNCHANGED agentVars
      BY <1>1, <1>4 DEF Listed
    <2>2. CallsGood'
      BY <1>2, <1>3, <2>1, CallGoesOn DEF CopilotInv, Ends
    <2> QED
      BY <1>2, <1>3, <2>1, <2>2 DEF CopilotInv
  <1>5. CASE s \in stored /\ sessions[s] # Nobody
    <2>1. UseObject(k, sessions[s], "messages") /\ UNCHANGED agentVars
      BY <1>1, <1>5 DEF Listed
    <2>2. sessions[s] \in DOMAIN objects
      BY <1>2, <1>5 DEF CopilotInv, ObjectsGood
    <2>3. CallsGood'
      BY <1>2, <1>3, <2>1, <2>2, UseObjectMoves
    <2> QED
      BY <1>2, <1>3, <2>1, <2>3 DEF CopilotInv
  <1>6. CASE s \in stored /\ sessions[s] = Nobody
    <2>1. Resume(k)
      BY <1>1, <1>6 DEF Listed
    <2>2. DOMAIN clients \subseteq DOMAIN clients'
      BY <2>1, EnsureClientGood DEF Resume, CopilotInv
    <2>3. Grows /\ PluginsGood' /\ ObjectsGood'
      BY <1>2, <2>2, StepGrows, ObjectsStay DEF CopilotInv
    <2>4. AgentGood' /\ CallsGood'
      BY <1>2, <2>1, <2>3, ResumeGood
    <2> QED
      BY <1>2, <2>3, <2>4 DEF CopilotInv
  <1> QED
    BY <1>4, <1>5, <1>6

LEMMA CopilotNext_Inv == CopilotInv /\ [CopilotNext]_copilotVars => CopilotInv'
  <1> SUFFICES ASSUME CopilotInv, [CopilotNext]_copilotVars PROVE CopilotInv'
    OBVIOUS
  <1>1. CASE UNCHANGED copilotVars
    <2>1. UNCHANGED <<orderly, agentVars, objects, sessions, pluginVars, calls, states, stored>>
      BY <1>1 DEF copilotVars
    <2>2. Grows /\ PluginsGood' /\ ObjectsGood' /\ AgentGood'
      BY <2>1, StepGrows, ObjectsStay, AgentStays DEF agentVars, CopilotInv
    <2>3. CallsGood'
      BY <2>1, <2>2, CallsStayGood DEF CopilotInv
    <2> QED
      BY <2>1, <2>2, <2>3 DEF CopilotInv
  <1>2. CASE CopilotNext
    <2>1. UNCHANGED orderly
      BY <1>2 DEF CopilotNext
    <2>2. CASE Authenticate \/ ClientStopped \/ ClientStarted \/ ClientFailed
      BY <2>1, <2>2, Client_Inv
    <2>3. CASE SetClientCustomizations \/ SyncDone
      BY <2>1, <2>3, Plugins_Inv
    <2>4. CASE CreateSession \/ SendMessage \/ RestoreSession
      BY <2>1, <2>4, Operation_Inv
    <2>5. CASE DisposeSession
      BY <2>1, <2>5, DisposeSession_Inv
    <2>6. ASSUME NEW k \in Running, Continue(k) PROVE CopilotInv'
      BY <2>1, <2>6, Moves_Inv, GotPlugins_Inv, Initialized_Inv, Checked_Inv, Listed_Inv
         DEF Continue
    <2> QED
      BY <1>2, <2>2, <2>3, <2>4, <2>5, <2>6 DEF CopilotNext
  <1> QED
    BY <1>1, <1>2

LEMMA CopilotInvariant == CopilotSpec => []CopilotInv
  BY CopilotInit_Inv, CopilotNext_Inv, PTL DEF CopilotSpec

-----------------------------------------------------------------------------
(* Theorems.                                                               *)

\* Every state has the types of the Copilot agent and its operations: the map and
\* the calls only refer to clients and objects that exist, and a call waits for a
\* sync that has been asked for.
THEOREM CopilotTypeCorrect == CopilotSpec => []CopilotTypeOK
  <1>1. CopilotInv => CopilotTypeOK
    <2> SUFFICES ASSUME CopilotInv PROVE CopilotTypeOK
      OBVIOUS
    <2>1. \A k \in Running : CallGood(calls[k])
      BY DEF CopilotInv, CallsGood
    <2>2. \A k \in Running :
            /\ calls[k].at \in {"client", "list"} => calls[k].client \in DOMAIN clients
            /\ calls[k].at \in {"init", "check", "sending", "messages"} =>
                 calls[k].object \in DOMAIN objects
            /\ calls[k].since <= calls[k].sync /\ calls[k].sync <= requested
      BY <2>1 DEF CallGood
    <2> QED
      BY <2>2 DEF CopilotInv, AgentGood, ObjectsGood, PluginsGood, CallsGood, CopilotTypeOK
  <1> QED
    BY <1>1, CopilotInvariant, PTL

\* At most one SDK client has not been told to stop, and it is the one that _client or
\* _clientStarting knows, however many operations ask for it at once and whatever
\* replaces it; those told to stop may take their time, or fail to.
THEOREM OneClientRuns == CopilotSpec => []OneClient
  <1>1. CopilotInv => OneClient
    BY DEF CopilotInv, AgentGood
  <1> QED
    BY <1>1, CopilotInvariant, PTL

\* sendMessage sends on an object whose plugins are at least as new as those asked
\* for when the send began.
THEOREM SendsAreFresh == CopilotSpec => []SendsUseFreshPlugins
  <1>1. CopilotInv => SendsUseFreshPlugins
    <2> SUFFICES ASSUME CopilotInv, NEW k \in Running, calls[k].op = "send",
                        calls[k].at = "sending"
                 PROVE  \E n \in calls[k].since .. Len(synced) :
                          objects[calls[k].object].plugins = SyncResult(n)
      BY DEF SendsUseFreshPlugins
    <2>1. CallGood(calls[k])
      BY DEF CopilotInv, CallsGood
    <2> QED
      BY <2>1 DEF CallGood
  <1> QED
    BY <1>1, CopilotInvariant, PTL

\* In a session whose users wait for one operation before the next, no live SDK
\* session is out of the map's reach.
THEOREM LiveStaysReachable == CopilotSpec => []LiveIsReachable
  <1>1. CopilotInv => LiveIsReachable
    BY DEF CopilotInv, ObjectsGood
  <1> QED
    BY <1>1, CopilotInvariant, PTL

-----------------------------------------------------------------------------
(* The connections to remote agent hosts                                  *)

\* The clients of a host that is well formed: only attempts may be disposed, and the
\* entry's client is the only one that is not.
Sound(h) ==
  /\ h \in Host
  /\ \A i \in HostClient :
       /\ h.clients[i] # Free /\ h.clients[i].disposed => h.clients[i].state = "connecting"
       /\ h.entry = i <=> h.clients[i] # Free /\ ~h.clients[i].disposed

\* The service connects hosts that are not reached through SSH by itself.
Kept(h, a) ==
  /\ Sound(h)
  /\ a \notin Tunnel /\ h.entry # 0 => ~h.clients[h.entry].given

HostsKept == \A a \in Address : Kept(hosts[a], a)

\* Only additions wait, and none for an SSH host.
WaitsAreAdditions ==
  \A k \in Pending :
    /\ requests[k].op = "add" => requests[k].address \notin Tunnel
    /\ requests[k].at \in {"wait", "orphan"} => requests[k].op = "add"

RequestsKept ==
  /\ requests \in [Slot -> Request \cup {NoCall}]
  /\ WaitsAreAdditions /\ AddsHearOfConnections

RemoteInv ==
  /\ enabled \in BOOLEAN /\ configured \in SUBSET Address
  /\ hosts \in [Address -> Host]
  /\ HostsKept /\ RequestsKept

-----------------------------------------------------------------------------
(* The helpers on one host.                                                *)

LEMMA ClientIds == 0 \notin HostClient
  BY DEF HostClient

LEMMA FreeIsNoClient == Free \notin RemoteClient
  BY RemoteAssumption DEF RemoteClient

\* Without its entry a host is sound and as much room as before is left.
LEMMA WithoutEntrySound ==
  ASSUME NEW h, Sound(h)
  PROVE  /\ Sound(WithoutEntry(h))
         /\ WithoutEntry(h).entry = 0 /\ WithoutEntry(h).timer = h.timer
         /\ FreeIds(h) \subseteq FreeIds(WithoutEntry(h))
  <1>1. CASE h.entry = 0
    BY <1>1 DEF WithoutEntry
  <1>2. CASE h.entry # 0
    <2> DEFINE e == h.entry
               c == h.clients[e]
               left == IF c.state = "connecting" THEN [c EXCEPT !.disposed = TRUE] ELSE Free
               r == [h EXCEPT !.entry = 0, !.clients[e] = left]
    <2>1. e \in HostClient /\ c # Free /\ c \in RemoteClient /\ h \in Host
      BY <1>2 DEF Sound, Host
    <2>2. left \in RemoteClient \cup {Free} /\ (left # Free => left.disposed /\ left.state = "connecting")
      BY <2>1 DEF RemoteClient
    <2>3. WithoutEntry(h) = r
      BY <1>2 DEF WithoutEntry
    <2> HIDE DEF left
    <2>4. /\ r \in Host /\ r.entry = 0 /\ r.timer = h.timer
          /\ \A i \in HostClient : r.clients[i] = IF i = e THEN left ELSE h.clients[i]
      BY <2>1, <2>2 DEF Host
    <2>5. Sound(r)
      BY <2>1, <2>2, <2>4, ClientIds DEF Sound
    <2>6. FreeIds(h) \subseteq FreeIds(r)
      BY <2>1, <2>4 DEF FreeIds
    <2> QED
      BY <2>3, <2>4, <2>5, <2>6
  <1> QED
    BY <1>1, <1>2

\* A new entry takes the place of the old one.
LEMMA WithEntrySound ==
  ASSUME NEW h, Sound(h), HasRoom(h), NEW state \in {"connecting", "connected"}
  PROVE  LET r == WithEntry(h, state)
         IN /\ Sound(r)
            /\ r.entry # 0 /\ r.clients[r.entry].state = state /\ r.timer = h.timer
            /\ state = "connecting" => ~r.clients[r.entry].given
  <1> DEFINE old == WithoutEntry(h)
             new == CHOOSE i \in FreeIds(h) : TRUE
             fresh == [state |-> state, disposed |-> FALSE, given |-> state = "connected"]
             r == [old EXCEPT !.entry = new, !.clients[new] = fresh]
  <1>1. new \in HostClient /\ new \in FreeIds(h)
    BY DEF HasRoom, FreeIds
  <1>2. Sound(old) /\ old.entry = 0 /\ old.timer = h.timer /\ old.clients[new] = Free
    BY <1>1, WithoutEntrySound DEF FreeIds
  <1>3. /\ fresh \in RemoteClient /\ fresh.state = state /\ ~fresh.disposed /\ fresh # Free
        /\ state = "connecting" => ~fresh.given
    <2>1. /\ fresh \in RemoteClient /\ fresh.state = state /\ ~fresh.disposed
          /\ state = "connecting" => ~fresh.given
      BY DEF RemoteClient
    <2> QED
      BY <2>1, FreeIsNoClient
  <1>4. WithEntry(h, state) = r
    BY DEF WithEntry
  <1> HIDE DEF old, new, fresh
  <1>5. /\ r \in Host /\ r.entry = new /\ r.timer = h.timer
        /\ \A i \in HostClient : r.clients[i] = IF i = new THEN fresh ELSE old.clients[i]
    BY <1>1, <1>2, <1>3 DEF Host, Sound
  <1>6. Sound(r)
    BY <1>1, <1>2, <1>3, <1>5, ClientIds DEF Sound
  <1> QED
    BY <1>1, <1>3, <1>4, <1>5, <1>6, ClientIds

\* The timer is no part of soundness.
LEMMA TimerSound ==
  ASSUME NEW h, Sound(h), NEW t \in BOOLEAN
  PROVE  LET r == [h EXCEPT !.timer = t]
         IN Sound(r) /\ r.timer = t /\ r.entry = h.entry /\ r.clients = h.clients
  BY DEF Sound, Host

\* A new connection attempt is the service's own.
LEMMA ConnectKeeps ==
  ASSUME NEW h, NEW a, Sound(h), HasRoom(h)
  PROVE  LET r == ConnectTo(h)
         IN /\ Kept(r, a) /\ r.entry # 0 /\ r.timer = h.timer
            /\ r.clients[r.entry].state = "connecting"
  BY WithEntrySound DEF ConnectTo, Kept

\* A host that is gone has no entry.
LEMMA RemovalKeeps ==
  ASSUME NEW h, NEW a, Sound(h)
  PROVE  /\ Kept(Removed(h), a) /\ Removed(h).entry = 0
         /\ Kept([WithoutEntry(h) EXCEPT !.timer = FALSE], a)
         /\ [WithoutEntry(h) EXCEPT !.timer = FALSE].entry = 0
  <1> DEFINE w == WithoutEntry(h)
             r == [w EXCEPT !.timer = FALSE]
  <1>1. Sound(w) /\ w.entry = 0
    BY WithoutEntrySound
  <1> HIDE DEF w
  <1>2. Sound(r) /\ r.entry = 0
    BY <1>1, TimerSound
  <1> QED
    BY <1>2 DEF Removed, Kept, w

\* Reconciling brings a host in step with new settings.
LEMMA ReconcileKeeps ==
  ASSUME NEW h, NEW a, NEW on \in BOOLEAN, NEW config, HasRoom(h), Kept(h, a),
         NEW r, r = Reconciled(h, a, on, config)
  PROVE  /\ Kept(r, a) /\ r \in Host
         /\ IsConnected(r) => IsConnected(h)
         /\ ~on \/ a \notin config => r.entry = 0
         /\ on /\ a \in config /\ h.entry # 0 => r = h
         /\ on /\ a \in config /\ h.entry = 0 /\ a \notin Tunnel =>
              r.entry # 0 /\ r.clients[r.entry].state = "connecting"
  <1>1. CASE ~on \/ a \notin config
    <2>1. Kept(Removed(h), a) /\ Removed(h).entry = 0
      BY RemovalKeeps DEF Kept
    <2>2. r = Removed(h)
      BY <1>1 DEF Reconciled
    <2> QED
      BY <1>1, <2>1, <2>2 DEF Kept, Sound, IsConnected
  <1>2. CASE on /\ a \in config /\ h.entry = 0 /\ a \notin Tunnel
    <2>1. /\ Kept(ConnectTo(h), a) /\ ConnectTo(h).entry # 0
          /\ ConnectTo(h).clients[ConnectTo(h).entry].state = "connecting"
      BY ConnectKeeps DEF Kept
    <2>2. r = ConnectTo(h)
      BY <1>2 DEF Reconciled
    <2> QED
      BY <1>2, <2>1, <2>2 DEF Kept, Sound, IsConnected
  <1>3. CASE on /\ a \in config /\ ~(h.entry = 0 /\ a \notin Tunnel)
    BY <1>3 DEF Reconciled, Kept, Sound
  <1> QED
    BY <1>1, <1>2, <1>3

-----------------------------------------------------------------------------
(* The calls.                                                              *)

\* Settling ends waits and touches no other call.
LEMMA SettledTyped ==
  ASSUME NEW rs \in [Slot -> Request \cup {NoCall}], NEW as, requests' = SettledFor(rs, as)
  PROVE  /\ requests' \in [Slot -> Request \cup {NoCall}]
         /\ \A k \in Slot : requests'[k] # NoCall =>
              /\ requests'[k] = rs[k]
              /\ rs[k].at = "wait" => rs[k].address \notin as
  BY DEF SettledFor

\* Calls that end leave the others in order.
LEMMA CallsEndInOrder ==
  ASSUME RequestsKept, requests' \in [Slot -> Request \cup {NoCall}],
         \A k \in Slot : requests'[k] # NoCall => requests'[k] = requests[k],
         \A k \in Slot : requests'[k] # NoCall /\ requests'[k].at = "wait" =>
                          ~IsConnected(hosts'[requests'[k].address])
  PROVE  RequestsKept'
  <1>1. Pending' \subseteq Pending
    BY DEF Pending
  <1>2. WaitsAreAdditions'
    BY <1>1 DEF RequestsKept, WaitsAreAdditions, Pending
  <1>3. AddsHearOfConnections'
    BY DEF AddsHearOfConnections, Pending
  <1> QED
    BY <1>2, <1>3 DEF RequestsKept

\* A call begins.
LEMMA CallBegins ==
  ASSUME RequestsKept, configured \in SUBSET Address,
         NEW op \in {"add", "remove", "ssh"}, NEW a \in Address,
         Begins(op, a), op = "add" => a \notin Tunnel,
         \A k \in Pending : requests[k].at = "wait" =>
                            ~IsConnected(hosts'[requests[k].address])
  PROVE  RequestsKept'
  <1> DEFINE entries == IF op = "remove" THEN configured \ {a} ELSE configured \cup {a}
             connected == op = "add" /\ IsConnected(hosts[a])
             r == [op |-> op, address |-> a, at |-> "store", connected |-> connected,
                   entries |-> entries]
  <1>1. PICK k \in Slot : requests' = [requests EXCEPT ![k] = r]
    <2>1. \E slot \in Slot \ Pending : TRUE
      BY DEF Begins, Pending
    <2> QED
      BY <2>1 DEF Begins
  <1>2. connected \in BOOLEAN
    BY DEF IsConnected
  <1>3. entries \in SUBSET Address
    OBVIOUS
  <1> HIDE DEF connected, entries
  <1>4. r \in Request /\ r.op = op /\ r.address = a /\ r.at = "store"
    BY <1>2, <1>3 DEF Request
  <1> HIDE DEF r
  <1>5. /\ requests' \in [Slot -> Request \cup {NoCall}]
        /\ \A j \in Slot : requests'[j] = IF j = k THEN r ELSE requests[j]
    BY <1>1, <1>4 DEF RequestsKept
  <1>6. WaitsAreAdditions'
    BY <1>4, <1>5 DEF RequestsKept, WaitsAreAdditions, Pending
  <1>7. AddsHearOfConnections'
    BY <1>4, <1>5 DEF RequestsKept, AddsHearOfConnections, Pending
  <1> QED
    BY <1>5, <1>6, <1>7 DEF RequestsKept

\* One host changes and is kept.
LEMMA OneHostKept ==
  ASSUME RemoteInv, NEW a \in Address, NEW h, hosts' = [hosts EXCEPT ![a] = h],
         UNCHANGED <<enabled, configured>>, Kept(h, a)
  PROVE  /\ enabled' \in BOOLEAN /\ configured' \in SUBSET Address
         /\ hosts' \in [Address -> Host] /\ HostsKept'
  BY DEF RemoteInv, HostsKept, Kept, Sound

\* One host changes and is not connected after it, or was before; calls only end.
LEMMA OneHostChanges ==
  ASSUME RemoteInv, NEW a \in Address, NEW h, hosts' = [hosts EXCEPT ![a] = h],
         UNCHANGED <<enabled, configured>>, Kept(h, a),
         requests' \in [Slot -> Request \cup {NoCall}],
         \A k \in Slot : requests'[k] # NoCall => requests'[k] = requests[k],
         IsConnected(h) => \/ IsConnected(hosts[a])
                          \/ \A k \in Slot : requests'[k] # NoCall /\ requests'[k].at = "wait"
                                             => requests'[k].address # a
  PROVE  RemoteInv'
  <1>1. /\ enabled' \in BOOLEAN /\ configured' \in SUBSET Address
        /\ hosts' \in [Address -> Host] /\ HostsKept'
    BY OneHostKept
  <1>2. \A k \in Slot : requests'[k] # NoCall /\ requests'[k].at = "wait" =>
                         ~IsConnected(hosts'[requests'[k].address])
    <2> SUFFICES ASSUME NEW k \in Slot, requests'[k] # NoCall, requests'[k].at = "wait"
                 PROVE  ~IsConnected(hosts'[requests'[k].address])
      OBVIOUS
    <2> DEFINE b == requests'[k].address
    <2>1. k \in Pending /\ requests[k].at = "wait" /\ b = requests[k].address /\ b \in Address
      BY DEF RemoteInv, RequestsKept, Pending, Request
    <2>2. ~IsConnected(hosts[b])
      BY <2>1 DEF RemoteInv, RequestsKept, AddsHearOfConnections
    <2>3. hosts'[b] = IF b = a THEN h ELSE hosts[b]
      BY <2>1 DEF RemoteInv
    <2> QED
      BY <2>2, <2>3
  <1>3. RequestsKept'
    BY <1>2, CallsEndInOrder DEF RemoteInv
  <1> QED
    BY <1>1, <1>3 DEF RemoteInv

\* All hosts are reconciled.
LEMMA AllReconciled ==
  ASSUME RemoteInv, NEW on \in BOOLEAN, NEW config \in SUBSET Address, NEW rs,
         ReconcileConnections(on, config, rs), enabled' = on, configured' = config
  PROVE  /\ enabled' \in BOOLEAN /\ configured' \in SUBSET Address
         /\ hosts' \in [Address -> Host] /\ HostsKept'
         /\ \A a \in Address : IsConnected(hosts'[a]) => IsConnected(hosts[a])
  <1>1. \A a \in Address : /\ HasRoom(hosts[a]) /\ Kept(hosts[a], a)
                           /\ hosts'[a] = Reconciled(hosts[a], a, on, config)
    BY DEF ReconcileConnections, RemoteInv, HostsKept
  <1>2. ASSUME NEW a \in Address
        PROVE  /\ Kept(hosts'[a], a) /\ hosts'[a] \in Host
               /\ IsConnected(hosts'[a]) => IsConnected(hosts[a])
    <2>1. PICK r : r = Reconciled(hosts[a], a, on, config)
      OBVIOUS
    <2>2. Kept(r, a) /\ r \in Host /\ (IsConnected(r) => IsConnected(hosts[a]))
      BY <1>1, <2>1, ReconcileKeeps
    <2>3. hosts'[a] = r
      BY <1>1, <2>1
    <2> QED
      BY <2>2, <2>3
  <1>3. hosts' = [a \in Address |-> hosts'[a]]
    BY DEF ReconcileConnections
  <1> QED
    BY <1>2, <1>3 DEF HostsKept

-----------------------------------------------------------------------------
(* The invariant is inductive.                                             *)

LEMMA NewHostSound == Sound(NewHost) /\ HasRoom(NewHost)
  <1>1. 1 \in HostClient
    BY RemoteAssumption DEF HostClient
  <1> QED
    BY <1>1, ClientIds DEF NewHost, Sound, Host, HasRoom, FreeIds

LEMMA RemoteInit_Inv == RemoteInit => RemoteInv
  <1> SUFFICES ASSUME RemoteInit PROVE RemoteInv
    OBVIOUS
  <1>1. \A a \in Address : /\ Kept(hosts[a], a) /\ hosts[a] \in Host
    <2> SUFFICES ASSUME NEW a \in Address
                 PROVE  Kept(hosts[a], a) /\ hosts[a] \in Host
      OBVIOUS
    <2>1. NewHost.entry = 0
      BY DEF NewHost
    <2>2. enabled \in BOOLEAN /\ hosts[a] = Reconciled(NewHost, a, enabled, configured)
      BY DEF RemoteInit
    <2>3. PICK h : h = NewHost
      OBVIOUS
    <2>4. Kept(h, a) /\ HasRoom(h)
      BY <2>1, <2>3, NewHostSound DEF Kept
    <2>5. Kept(Reconciled(h, a, enabled, configured), a)
      BY <2>2, <2>4, ReconcileKeeps
    <2> QED
      BY <2>2, <2>3, <2>5 DEF Kept, Sound
  <1>2. hosts \in [Address -> Host] /\ HostsKept
    BY <1>1 DEF RemoteInit, HostsKept
  <1>3. RequestsKept
    BY DEF RemoteInit, RequestsKept, WaitsAreAdditions, AddsHearOfConnections, Pending
  <1> QED
    BY <1>2, <1>3 DEF RemoteInit, RemoteInv

LEMMA ToggleEnabled_Inv == RemoteInv /\ ToggleEnabled => RemoteInv'
  <1> SUFFICES ASSUME RemoteInv, ToggleEnabled PROVE RemoteInv'
    OBVIOUS
  <1>1. /\ ReconcileConnections(~enabled, configured, requests)
        /\ enabled' = ~enabled /\ configured' = configured
        /\ requests \in [Slot -> Request \cup {NoCall}]
    BY DEF ToggleEnabled, RemoteInv, RequestsKept
  <1>2. /\ enabled' \in BOOLEAN /\ configured' \in SUBSET Address
        /\ hosts' \in [Address -> Host] /\ HostsKept'
        /\ \A a \in Address : IsConnected(hosts'[a]) => IsConnected(hosts[a])
    BY <1>1, AllReconciled DEF RemoteInv
  <1>3. PICK as : requests' = SettledFor(requests, as)
    BY <1>1 DEF ReconcileConnections
  <1>4. /\ requests' \in [Slot -> Request \cup {NoCall}]
        /\ \A k \in Slot : requests'[k] # NoCall => requests'[k] = requests[k]
    BY <1>1, <1>3, SettledTyped
  <1>5. \A k \in Slot : requests'[k] # NoCall /\ requests'[k].at = "wait" =>
                         ~IsConnected(hosts'[requests'[k].address])
    BY <1>2, <1>4 DEF RemoteInv, RequestsKept, AddsHearOfConnections, Pending, Request
  <1> QED
    BY <1>1, <1>2, <1>4, <1>5, CallsEndInOrder DEF RemoteInv

LEMMA EditSettings_Inv == RemoteInv /\ EditSettings => RemoteInv'
  <1> SUFFICES ASSUME RemoteInv, EditSettings PROVE RemoteInv'
    OBVIOUS
  <1>1. /\ ReconcileConnections(enabled, configured', requests)
        /\ enabled' = enabled /\ configured' \in SUBSET Address
        /\ requests \in [Slot -> Request \cup {NoCall}] /\ enabled \in BOOLEAN
    BY DEF EditSettings, RemoteInv, RequestsKept
  <1>2. /\ hosts' \in [Address -> Host] /\ HostsKept'
        /\ \A a \in Address : IsConnected(hosts'[a]) => IsConnected(hosts[a])
    BY <1>1, AllReconciled
  <1>3. PICK as : requests' = SettledFor(requests, as)
    BY <1>1 DEF ReconcileConnections
  <1>4. /\ requests' \in [Slot -> Request \cup {NoCall}]
        /\ \A k \in Slot : requests'[k] # NoCall => requests'[k] = requests[k]
    BY <1>1, <1>3, SettledTyped
  <1>5. \A k \in Slot : requests'[k] # NoCall /\ requests'[k].at = "wait" =>
                         ~IsConnected(hosts'[requests'[k].address])
    BY <1>2, <1>4 DEF RemoteInv, RequestsKept, AddsHearOfConnections, Pending, Request
  <1> QED
    BY <1>1, <1>2, <1>4, <1>5, CallsEndInOrder DEF RemoteInv

LEMMA Begins_Inv ==
  RemoteInv /\ (AddRemoteAgentHost \/ RemoveRemoteAgentHost) => RemoteInv'
  <1> SUFFICES ASSUME RemoteInv, AddRemoteAgentHost \/ RemoveRemoteAgentHost
               PROVE  RemoteInv'
    OBVIOUS
  <1>1. UNCHANGED <<enabled, configured, hosts>>
    BY DEF AddRemoteAgentHost, RemoveRemoteAgentHost
  <1>2. PICK op \in {"add", "remove", "ssh"}, a \in Address :
          Begins(op, a) /\ (op = "add" => a \notin Tunnel)
    BY RemoteAssumption DEF AddRemoteAgentHost, RemoveRemoteAgentHost
  <1>3. RequestsKept'
    BY <1>1, <1>2, CallBegins DEF RemoteInv, RequestsKept, AddsHearOfConnections
  <1> QED
    BY <1>1, <1>3 DEF RemoteInv, HostsKept

\* An SSH host gets a connected client, and nobody waits for one.
LEMMA AddSSHConnection_Inv == RemoteInv /\ AddSSHConnection => RemoteInv'
  <1> SUFFICES ASSUME RemoteInv, AddSSHConnection PROVE RemoteInv'
    OBVIOUS
  <1>1. PICK a \in Tunnel :
          /\ HasRoom(hosts[a])
          /\ hosts' = [hosts EXCEPT ![a] = WithEntry(hosts[a], "connected")]
          /\ Begins("ssh", a) /\ UNCHANGED <<enabled, configured>>
    BY DEF AddSSHConnection, RemoteInv
  <1>2. a \in Address
    BY RemoteAssumption
  <1>3. Kept(WithEntry(hosts[a], "connected"), a)
    BY <1>1, <1>2, WithEntrySound DEF RemoteInv, HostsKept, Kept
  <1>4. /\ enabled' \in BOOLEAN /\ configured' \in SUBSET Address
        /\ hosts' \in [Address -> Host] /\ HostsKept'
    BY <1>1, <1>2, <1>3, OneHostKept
  <1>5. ASSUME NEW k \in Pending, requests[k].at = "wait"
        PROVE  ~IsConnected(hosts'[requests[k].address])
    <2>1. requests[k].address \in Address \ Tunnel /\ ~IsConnected(hosts[requests[k].address])
      BY <1>5 DEF RemoteInv, RequestsKept, WaitsAreAdditions, AddsHearOfConnections,
                  Pending, Request
    <2> QED
      BY <1>1, <2>1 DEF RemoteInv
  <1>6. RequestsKept'
    BY <1>1, <1>2, <1>5, CallBegins DEF RemoteInv
  <1> QED
    BY <1>4, <1>6 DEF RemoteInv

\* Actions that connect again.
LEMMA Connects_Inv ==
  ASSUME RemoteInv, NEW a \in Address, ReconnectTo(a) \/ TimerFires(a)
  PROVE  RemoteInv'
  <1> DEFINE h == [hosts[a] EXCEPT !.timer = FALSE]
  <1>1. UNCHANGED <<enabled, configured, requests>>
    BY DEF ReconnectTo, TimerFires
  <1>2. PICK r \in {ConnectTo(h), h} :
          HasRoom(hosts[a]) /\ hosts' = [hosts EXCEPT ![a] = r]
    BY DEF ReconnectTo, TimerFires
  <1>3. Kept(hosts[a], a)
    BY DEF RemoteInv, HostsKept
  <1>4. /\ Sound(h) /\ HasRoom(h) /\ h.entry = hosts[a].entry
        /\ h.clients = hosts[a].clients
    BY <1>2, <1>3, TimerSound DEF Kept, HasRoom, FreeIds
  <1> HIDE DEF h
  <1>5. Kept(r, a) /\ (IsConnected(r) => IsConnected(hosts[a]))
    <2>1. CASE r = ConnectTo(h)
      BY <1>4, <2>1, ConnectKeeps DEF IsConnected
    <2>2. CASE r = h
      BY <1>3, <1>4, <2>2 DEF Kept, IsConnected
    <2> QED
      BY <2>1, <2>2
  <1> QED
    BY <1>1, <1>2, <1>5, OneHostChanges DEF RemoteInv, RequestsKept

\* Calls that go on without a change of the settings or of a host.
LEMMA CallsGoOn_Inv ==
  ASSUME RemoteInv, NEW k \in Pending,
         NotWritten(k) \/ Added(k) \/ SSHAdded(k) \/ TimedOut(k)
  PROVE  RemoteInv'
  <1>1. UNCHANGED <<enabled, configured, hosts>>
    BY DEF NotWritten, Added, SSHAdded, TimedOut
  <1>2. k \in Slot /\ requests[k] \in Request /\ requests \in [Slot -> Request \cup {NoCall}]
    BY DEF Pending, RemoteInv, RequestsKept
  <1>3. CASE requests' = [requests EXCEPT ![k] = NoCall]
    <2>1. \A j \in Slot : requests'[j] # NoCall => requests'[j] = requests[j]
      BY <1>2, <1>3
    <2>2. RequestsKept'
      BY <1>1, <1>2, <1>3, <2>1, CallsEndInOrder
         DEF RemoteInv, RequestsKept, AddsHearOfConnections, Pending
    <2> QED
      BY <1>1, <2>2 DEF RemoteInv, HostsKept
  <1>4. ASSUME Added(k), requests' # [requests EXCEPT ![k] = NoCall]
        PROVE  RemoteInv'
    <2> DEFINE r == [requests[k] EXCEPT !.at = "wait"]
    <2>1. /\ requests[k].op = "add" /\ ~IsConnected(hosts[requests[k].address])
          /\ requests' = [requests EXCEPT ![k] = r]
      BY <1>2, <1>4 DEF Added
    <2>2. r \in Request /\ r.at = "wait" /\ r.op = "add" /\ r.address = requests[k].address
      BY <1>2, <2>1 DEF Request
    <2> HIDE DEF r
    <2>3. /\ requests' \in [Slot -> Request \cup {NoCall}]
          /\ \A j \in Slot : requests'[j] = IF j = k THEN r ELSE requests[j]
          /\ Pending' \subseteq Pending
      BY <1>2, <2>1, <2>2 DEF Pending
    <2>4. WaitsAreAdditions'
      BY <2>1, <2>2, <2>3 DEF RemoteInv, RequestsKept, WaitsAreAdditions, Pending
    <2>5. AddsHearOfConnections'
      BY <1>1, <2>1, <2>2, <2>3 DEF RemoteInv, RequestsKept, AddsHearOfConnections, Pending
    <2> QED
      BY <1>1, <2>3, <2>4, <2>5 DEF RemoteInv, RequestsKept, HostsKept
  <1>5. CASE TimedOut(k)
    <2>1. \A j \in Slot :
            \/ requests'[j] = NoCall
            \/ requests'[j] = requests[j]
            \/ /\ requests[j] \in Request /\ requests[j].at = "wait"
               /\ requests'[j] = [requests[j] EXCEPT !.at = "orphan"]
      BY <1>2, <1>5 DEF TimedOut
    <2>2. \A j \in Slot :
            requests'[j] # NoCall =>
              \/ requests'[j] = requests[j]
              \/ /\ requests[j] # NoCall /\ requests[j].at = "wait"
                 /\ requests'[j] \in Request /\ requests'[j].at = "orphan"
                 /\ requests'[j].op = requests[j].op
                 /\ requests'[j].address = requests[j].address
      <3> SUFFICES ASSUME NEW j \in Slot, requests'[j] # NoCall, requests'[j] # requests[j]
                   PROVE  /\ requests[j] # NoCall /\ requests[j].at = "wait"
                          /\ requests'[j] \in Request /\ requests'[j].at = "orphan"
                          /\ requests'[j].op = requests[j].op
                          /\ requests'[j].address = requests[j].address
        OBVIOUS
      <3> DEFINE q == requests[j]
      <3>1. q \in Request /\ q.at = "wait" /\ requests'[j] = [q EXCEPT !.at = "orphan"] /\ q # NoCall
        BY <1>5, <2>1 DEF TimedOut
      <3> QED
        BY <3>1 DEF Request
    <2>3. requests' \in [Slot -> Request \cup {NoCall}]
      <3>1. requests' = [j \in Slot |-> requests'[j]]
        BY <1>5 DEF TimedOut
      <3> QED
        BY <1>2, <2>2, <3>1
    <2>4. Pending' \subseteq Pending
      BY <1>2, <2>2 DEF Pending
    <2>5. WaitsAreAdditions'
      BY <2>2, <2>4 DEF RemoteInv, RequestsKept, WaitsAreAdditions, Pending
    <2>6. AddsHearOfConnections'
      BY <1>1, <2>2, <2>4 DEF RemoteInv, RequestsKept, AddsHearOfConnections, Pending
    <2> QED
      BY <1>1, <2>3, <2>5, <2>6 DEF RemoteInv, RequestsKept, HostsKept
  <1> QED
    BY <1>3, <1>4, <1>5 DEF NotWritten, Added, SSHAdded

\* A call that has written the settings: they and all hosts may change.
LEMMA Written_Inv ==
  ASSUME RemoteInv, NEW k \in Pending, Written(k)
  PROVE  RemoteInv'
  <1> DEFINE r == [requests[k] EXCEPT !.at = "stored", !.entries = {}]
             rs == [requests EXCEPT ![k] = r]
             a == requests[k].address
  <1>1. /\ k \in Slot /\ requests[k] \in Request /\ requests[k].at = "store" /\ a \in Address
        /\ requests \in [Slot -> Request \cup {NoCall}] /\ requests[k] # NoCall
    BY DEF Pending, RemoteInv, RequestsKept, Written, Request
  <1>2. /\ r \in Request /\ r.at = "stored" /\ r.address = a /\ r.op = requests[k].op
    BY <1>1 DEF Request
  <1>3. /\ enabled' = enabled /\ enabled \in BOOLEAN /\ configured' \in SUBSET Address
        /\ \/ ReconcileConnections(enabled, configured', rs)
           \/ configured' = configured /\ requests' = rs /\ UNCHANGED hosts
    BY <1>1 DEF Written, RemoteInv, Request
  <1> HIDE DEF r
  <1>4. /\ rs \in [Slot -> Request \cup {NoCall}]
        /\ \A j \in Slot : rs[j] = IF j = k THEN r ELSE requests[j]
    BY <1>1, <1>2
  <1> HIDE DEF rs
  <1>5. /\ hosts' \in [Address -> Host] /\ HostsKept'
        /\ \A b \in Address : IsConnected(hosts'[b]) => IsConnected(hosts[b])
    <2>1. CASE ReconcileConnections(enabled, configured', rs)
      BY <1>3, <2>1, AllReconciled
    <2>2. CASE configured' = configured /\ requests' = rs /\ UNCHANGED hosts
      BY <1>3, <2>2 DEF RemoteInv, HostsKept
    <2> QED
      BY <1>3, <2>1, <2>2
  <1>6. /\ requests' \in [Slot -> Request \cup {NoCall}]
        /\ \A j \in Slot : requests'[j] # NoCall => requests'[j] = rs[j]
    <2>1. (\E as : requests' = SettledFor(rs, as)) \/ requests' = rs
      BY <1>3 DEF ReconcileConnections
    <2> QED
      BY <1>4, <2>1, SettledTyped
  <1>7. /\ \A j \in Pending' : requests'[j] = IF j = k THEN r ELSE requests[j]
        /\ Pending' \subseteq Pending
    BY <1>1, <1>4, <1>6 DEF Pending
  <1>8. WaitsAreAdditions'
    BY <1>2, <1>7 DEF RemoteInv, RequestsKept, WaitsAreAdditions
  <1>9. AddsHearOfConnections'
    <2> SUFFICES ASSUME NEW j \in Pending', requests'[j].at = "wait"
                 PROVE  ~IsConnected(hosts'[requests'[j].address])
      BY DEF AddsHearOfConnections
    <2>1. j \in Pending /\ requests'[j] = requests[j] /\ requests[j].address \in Address
      BY <1>2, <1>7 DEF RemoteInv, RequestsKept, Pending, Request
    <2> QED
      BY <1>5, <2>1 DEF RemoteInv, RequestsKept, AddsHearOfConnections
  <1> QED
    BY <1>3, <1>5, <1>6, <1>8, <1>9 DEF RemoteInv, RequestsKept

\* The host goes, whether or not it is in the settings again.
LEMMA HostRemoved_Inv ==
  ASSUME RemoteInv, NEW k \in Pending, HostRemoved(k)
  PROVE  RemoteInv'
  <1> DEFINE a == requests[k].address
             h == [WithoutEntry(hosts[a]) EXCEPT !.timer = FALSE]
             rs == [requests EXCEPT ![k] = NoCall]
  <1>1. /\ k \in Slot /\ a \in Address
        /\ requests \in [Slot -> Request \cup {NoCall}]
    BY DEF Pending, RemoteInv, RequestsKept, Request
  <1>2. /\ UNCHANGED <<enabled, configured>>
        /\ hosts' = [hosts EXCEPT ![a] = h]
        /\ \E as : requests' = SettledFor(rs, as)
    BY DEF HostRemoved
  <1>3. Sound(hosts[a])
    BY <1>1 DEF RemoteInv, HostsKept, Kept
  <1>4. Kept(h, a)
    BY <1>1, <1>3, RemovalKeeps
  <1>5. Sound(WithoutEntry(hosts[a])) /\ WithoutEntry(hosts[a]).entry = 0
    BY <1>3, WithoutEntrySound
  <1>6. ~IsConnected(h)
    BY <1>5, TimerSound DEF IsConnected
  <1>7. rs \in [Slot -> Request \cup {NoCall}]
    BY <1>1
  <1>8. /\ requests' \in [Slot -> Request \cup {NoCall}]
        /\ \A j \in Slot : requests'[j] # NoCall => requests'[j] = rs[j]
    BY <1>2, <1>7, SettledTyped
  <1>9. \A j \in Slot : requests'[j] # NoCall => requests'[j] = requests[j]
    BY <1>1, <1>8
  <1> HIDE DEF h
  <1> QED
    BY <1>1, <1>2, <1>4, <1>6, <1>8, <1>9, OneHostChanges

-----------------------------------------------------------------------------
(* What clients do.                                                        *)

\* A host with one client replaced.
LEMMA ClientReplaced ==
  ASSUME NEW h, Sound(h), NEW i \in HostClient, NEW c \in RemoteClient \cup {Free}
  PROVE  LET r == [h EXCEPT !.clients[i] = c]
         IN /\ r \in Host /\ r.entry = h.entry /\ r.timer = h.timer
            /\ \A j \in HostClient : r.clients[j] = IF j = i THEN c ELSE h.clients[j]
  BY DEF Sound, Host

\* The promise of a client that is disposed settles, and nothing else changes.
LEMMA SettlesKeeps ==
  ASSUME NEW h, NEW a, Kept(h, a), NEW i \in HostClient,
         h.entry # i
  PROVE  LET r == [h EXCEPT !.clients[i] = Free]
         IN Kept(r, a) /\ (IsConnected(r) => IsConnected(h))
  <1> DEFINE r == [h EXCEPT !.clients[i] = Free]
  <1>1. Sound(h) /\ h \in Host
    BY DEF Kept, Sound
  <1>2. /\ r \in Host /\ r.entry = h.entry /\ r.timer = h.timer
        /\ \A j \in HostClient : r.clients[j] = IF j = i THEN Free ELSE h.clients[j]
    BY <1>1, ClientReplaced
  <1> HIDE DEF r
  <1>3. Sound(r)
    BY <1>1, <1>2 DEF Sound
  <1>4. h.entry # 0 => h.entry \in HostClient /\ r.clients[h.entry] = h.clients[h.entry]
    BY <1>1, <1>2 DEF Host
  <1> QED
    BY <1>2, <1>3, <1>4 DEF Kept, IsConnected, r

\* The entry's client changes its state and stays.
LEMMA EntryMoves ==
  ASSUME NEW h, Sound(h), NEW i \in HostClient, h.entry = i,
         NEW state \in {"connected", "closed"},
         NEW r, r = [h EXCEPT !.clients[i].state = state]
  PROVE  /\ Sound(r) /\ r.entry = i /\ r.timer = h.timer
         /\ r.clients[i].state = state /\ r.clients[i].given = h.clients[i].given
  <1> DEFINE c == [h.clients[i] EXCEPT !.state = state]
  <1>1. /\ Sound(h) /\ h \in Host /\ h.clients[i] # Free /\ ~h.clients[i].disposed
        /\ h.clients[i] \in RemoteClient
    BY DEF Kept, Sound, Host
  <1>2. /\ c \in RemoteClient /\ c.state = state /\ ~c.disposed
        /\ c.given = h.clients[i].given
    BY <1>1 DEF RemoteClient
  <1>3. c # Free
    BY <1>2, FreeIsNoClient
  <1>4. r = [h EXCEPT !.clients[i] = c]
    OBVIOUS
  <1> HIDE DEF c
  <1>5. /\ r \in Host /\ r.entry = h.entry /\ r.timer = h.timer
        /\ \A j \in HostClient : r.clients[j] = IF j = i THEN c ELSE h.clients[j]
    BY <1>4, <1>1, <1>2 DEF Host
  <1>6. Sound(r)
    BY <1>1, <1>2, <1>3, <1>5 DEF Sound
  <1> QED
    BY <1>2, <1>5, <1>6

LEMMA Connected_Inv ==
  ASSUME RemoteInv, NEW a \in Address, NEW i \in HostClient, Connected(a, i)
  PROVE  RemoteInv'
  <1>1. /\ Kept(hosts[a], a) /\ hosts \in [Address -> Host]
        /\ requests \in [Slot -> Request \cup {NoCall}]
        /\ UNCHANGED <<enabled, configured>>
        /\ hosts[a].clients[i] # Free
    BY DEF RemoteInv, HostsKept, RequestsKept, Connected
  <1>2. hosts[a].entry = i <=> ~hosts[a].clients[i].disposed
    BY <1>1 DEF Kept, Sound
  <1>3. CASE hosts[a].clients[i].disposed
    <2> DEFINE h == [hosts[a] EXCEPT !.clients[i] = Free]
    <2>1. hosts' = [hosts EXCEPT ![a] = h] /\ requests' = requests
      BY <1>3 DEF Connected, Settles
    <2>2. Kept(h, a) /\ (IsConnected(h) => IsConnected(hosts[a]))
      BY <1>1, <1>2, <1>3, SettlesKeeps
    <2> HIDE DEF h
    <2> QED
      BY <1>1, <2>1, <2>2, OneHostChanges
  <1>4. CASE ~hosts[a].clients[i].disposed
    <2> DEFINE h == [hosts[a] EXCEPT !.clients[i].state = "connected"]
    <2>1. hosts' = [hosts EXCEPT ![a] = h] /\ requests' = SettledFor(requests, {a})
      BY <1>4 DEF Connected
    <2>2. /\ Sound(h) /\ h.entry = i /\ h.timer = hosts[a].timer
          /\ h.clients[i].state = "connected"
          /\ h.clients[i].given = hosts[a].clients[i].given
      <3>1. Sound(hosts[a]) /\ hosts[a].entry = i
        BY <1>1, <1>2, <1>4 DEF Kept
      <3>2. PICK r : r = h
        OBVIOUS
      <3>3. r = [hosts[a] EXCEPT !.clients[i].state = "connected"]
        BY <3>2
      <3> HIDE DEF h
      <3>4. /\ Sound(r) /\ r.entry = i /\ r.timer = hosts[a].timer
            /\ r.clients[i].state = "connected"
            /\ r.clients[i].given = hosts[a].clients[i].given
        BY <3>1, <3>3, EntryMoves
      <3> QED
        BY <3>2, <3>4
    <2> HIDE DEF h
    <2>3. Kept(h, a)
      BY <1>1, <1>2, <1>4, <2>2 DEF Kept
    <2>4. /\ requests' \in [Slot -> Request \cup {NoCall}]
          /\ \A k \in Slot : requests'[k] # NoCall =>
               /\ requests'[k] = requests[k]
               /\ requests[k].at = "wait" => requests[k].address \notin {a}
      BY <1>1, <2>1, SettledTyped
    <2>5. \A k \in Slot : requests'[k] # NoCall /\ requests'[k].at = "wait" =>
                           requests'[k].address # a
      BY <2>4
    <2> QED
      BY <1>1, <2>1, <2>3, <2>4, <2>5, OneHostChanges
  <1> QED
    BY <1>1, <1>3, <1>4 DEF Kept, Sound, Host, RemoteClient

LEMMA ConnectFailed_Inv ==
  ASSUME RemoteInv, NEW a \in Address, NEW i \in HostClient, ConnectFailed(a, i)
  PROVE  RemoteInv'
  <1>1. /\ Kept(hosts[a], a) /\ hosts \in [Address -> Host]
        /\ Sound(hosts[a]) /\ hosts[a] \in Host
        /\ requests \in [Slot -> Request \cup {NoCall}]
        /\ UNCHANGED <<enabled, configured>>
        /\ hosts[a].clients[i] # Free /\ hosts[a].clients[i].state = "connecting"
        /\ configured \in SUBSET Address
    BY DEF RemoteInv, HostsKept, Kept, Sound, RequestsKept, ConnectFailed
  <1> DEFINE f == [hosts[a] EXCEPT !.clients[i] = Free]
  <1>2. CASE hosts[a].entry # i
    <2>1. hosts' = [hosts EXCEPT ![a] = f] /\ requests' = requests
      BY <1>2 DEF ConnectFailed, Settles
    <2>2. Kept(f, a) /\ (IsConnected(f) => IsConnected(hosts[a]))
      BY <1>1, <1>2, SettlesKeeps
    <2> HIDE DEF f
    <2> QED
      BY <1>1, <2>1, <2>2, OneHostChanges
  <1>3. CASE hosts[a].entry = i
    <2> DEFINE g == [f EXCEPT !.entry = 0]
               h == Scheduled(g, a)
    <2>1. hosts' = [hosts EXCEPT ![a] = h] /\ requests' = SettledFor(requests, {a})
      BY <1>1, <1>3 DEF ConnectFailed, Settles
    <2>2. /\ f \in Host /\ f.timer = hosts[a].timer
          /\ \A j \in HostClient : f.clients[j] = IF j = i THEN Free ELSE hosts[a].clients[j]
      BY <1>1, ClientReplaced
    <2> HIDE DEF f
    <2>3. /\ g \in Host /\ g.entry = 0 /\ g.timer = hosts[a].timer
          /\ \A j \in HostClient : g.clients[j] = IF j = i THEN Free ELSE hosts[a].clients[j]
      BY <2>2 DEF Host
    <2>4. Sound(g)
      BY <1>1, <1>3, <2>3, ClientIds DEF Sound
    <2> HIDE DEF g
    <2>5. /\ Sound(h) /\ h.entry = 0
          /\ h.timer = (hosts[a].timer \/ a \in configured)
      <3>1. (g.timer \/ a \in configured) \in BOOLEAN /\ h = [g EXCEPT !.timer = g.timer \/ a \in configured]
        BY DEF Scheduled
      <3> QED
        BY <2>3, <2>4, <3>1, TimerSound
    <2> HIDE DEF h
    <2>6. /\ requests' \in [Slot -> Request \cup {NoCall}]
          /\ \A k \in Slot : requests'[k] # NoCall => requests'[k] = requests[k]
      BY <1>1, <2>1, SettledTyped
    <2>7. Kept(h, a) /\ ~IsConnected(h)
      BY <2>5 DEF Kept, IsConnected
    <2> QED
      BY <1>1, <2>1, <2>6, <2>7, OneHostChanges
  <1> QED
    BY <1>2, <1>3

LEMMA Closed_Inv ==
  ASSUME RemoteInv, NEW a \in Address, NEW i \in HostClient, Closed(a, i)
  PROVE  RemoteInv'
  <1>1. /\ Kept(hosts[a], a) /\ Sound(hosts[a])
        /\ hosts[a].entry = i /\ i # 0
        /\ requests \in [Slot -> Request \cup {NoCall}]
        /\ UNCHANGED <<enabled, configured, requests>>
    BY ClientIds DEF RemoteInv, HostsKept, Kept, RequestsKept, Closed
  <1>2. PICK r :
          /\ r = [hosts[a] EXCEPT !.clients[i].state = "closed"]
          /\ hosts' = [hosts EXCEPT ![a] =
                         IF hosts[a].clients[i].given THEN r ELSE Scheduled(r, a)]
    BY DEF Closed
  <1>3. /\ Sound(r) /\ r.entry = i /\ r.timer = hosts[a].timer
        /\ r.clients[i].state = "closed" /\ r.clients[i].given = hosts[a].clients[i].given
    BY <1>1, <1>2, EntryMoves
  <1> DEFINE h == [r EXCEPT !.timer = r.timer \/ a \in configured]
  <1>4. Sound(h) /\ h.entry = i /\ h.clients = r.clients
    <2>1. r.timer \in BOOLEAN
      BY <1>3 DEF Sound, Host
    <2>2. (r.timer \/ a \in configured) \in BOOLEAN
      OBVIOUS
    <2> QED
      BY <1>3, <2>2, TimerSound
  <1>5. Scheduled(r, a) = h
    BY DEF Scheduled
  <1> HIDE DEF h
  <1>6. /\ Kept(r, a) /\ ~IsConnected(r)
        /\ Kept(h, a) /\ ~IsConnected(h)
    BY <1>1, <1>3, <1>4 DEF Kept, IsConnected
  <1> QED
    BY <1>1, <1>2, <1>5, <1>6, OneHostChanges

LEMMA RemoteNext_Inv == RemoteInv /\ [RemoteNext]_remoteVars => RemoteInv'
  <1> SUFFICES ASSUME RemoteInv, [RemoteNext]_remoteVars PROVE RemoteInv'
    OBVIOUS
  <1>1. CASE UNCHANGED remoteVars
    BY <1>1 DEF remoteVars, RemoteInv, HostsKept, RequestsKept,
                WaitsAreAdditions, AddsHearOfConnections, Pending
  <1>2. ASSUME NEW k \in Pending, ContinueRequest(k) PROVE RemoteInv'
    BY <1>2, Written_Inv, HostRemoved_Inv, CallsGoOn_Inv DEF ContinueRequest
  <1>3. ASSUME NEW a \in Address, NEW i \in HostClient,
               Connected(a, i) \/ ConnectFailed(a, i) \/ Closed(a, i)
        PROVE  RemoteInv'
    BY <1>3, Connected_Inv, ConnectFailed_Inv, Closed_Inv
  <1>4. CASE ToggleEnabled \/ EditSettings
    BY <1>4, ToggleEnabled_Inv, EditSettings_Inv
  <1>5. CASE AddRemoteAgentHost \/ RemoveRemoteAgentHost \/ AddSSHConnection
    BY <1>5, Begins_Inv, AddSSHConnection_Inv
  <1>6. ASSUME NEW a \in Address, ReconnectTo(a) \/ TimerFires(a) PROVE RemoteInv'
    BY <1>6, Connects_Inv
  <1> QED
    BY <1>1, <1>2, <1>3, <1>4, <1>5, <1>6 DEF RemoteNext

LEMMA RemoteInvariant == RemoteSpec => []RemoteInv
  BY RemoteInit_Inv, RemoteNext_Inv, PTL DEF RemoteSpec

-----------------------------------------------------------------------------
(* What a step may do to one host.                                         *)

\* The steps of NeverForgotten and EntriesAreConfigured, for one address.
StaysAttended(a) ==
  \/ Attended(a)'
  \/ ~Attended(a) /\ (hosts[a].entry # 0 \/ UNCHANGED <<enabled, configured>>)
  \/ a \notin configured /\ hosts[a].entry # 0
  \/ RemovalEnds(a)

StaysConfigured(a) ==
  hosts'[a].entry # 0 /\ a \notin configured' =>
    \/ hosts[a].entry # 0 /\ a \notin configured
    \/ ReconnectTo(a) /\ ~TimerFires(a)

\* Nothing happens to the host.
LEMMA HostStays ==
  ASSUME NEW a, hosts'[a] = hosts[a], UNCHANGED <<enabled, configured>>
  PROVE  StaysAttended(a) /\ StaysConfigured(a)
  BY DEF StaysAttended, StaysConfigured, Attended

\* Settings change: unwanted hosts go, wanted ones without an entry are connected, and
\* the others stay as they are.
LEMMA ReconcilingAttends ==
  ASSUME RemoteInv, NEW a \in Address \ Tunnel, NEW rs, NEW on \in BOOLEAN, NEW config,
         enabled' = on, configured' = config, ReconcileConnections(on, config, rs)
  PROVE  StaysAttended(a) /\ StaysConfigured(a)
  <1>1. PICK h : h = hosts[a]
    OBVIOUS
  <1>2. PICK r : r = Reconciled(h, a, on, config)
    OBVIOUS
  <1>3. HasRoom(h) /\ Kept(h, a)
    BY <1>1 DEF ReconcileConnections, RemoteInv, HostsKept
  <1>4. hosts'[a] = r
    BY <1>1, <1>2 DEF ReconcileConnections
  <1>5. /\ ~on \/ a \notin config => r.entry = 0
        /\ on /\ a \in config /\ h.entry # 0 => r = h
        /\ on /\ a \in config /\ h.entry = 0 =>
             r.entry # 0 /\ r.clients[r.entry].state = "connecting"
    BY <1>2, <1>3, ReconcileKeeps
  <1>6. StaysConfigured(a)
    BY <1>4, <1>5 DEF StaysConfigured
  <1>7. CASE ~on \/ a \notin config
    BY <1>4, <1>5, <1>6, <1>7 DEF StaysAttended, Attended
  <1>8. CASE on /\ a \in config /\ h.entry = 0
    BY <1>4, <1>5, <1>6, <1>8 DEF StaysAttended, Attended
  <1>9. CASE on /\ a \in config /\ h.entry # 0
    <2>1. hosts'[a] = hosts[a]
      BY <1>1, <1>4, <1>5, <1>9
    <2> QED
      BY <1>1, <1>6, <1>9, <2>1 DEF StaysAttended, Attended
  <1> QED
    BY <1>7, <1>8, <1>9

\* A connection attempt that is due or asked for.
LEMMA ConnectingAttends ==
  ASSUME RemoteInv, NEW b \in Address, ReconnectTo(b) \/ TimerFires(b),
         NEW a \in Address \ Tunnel
  PROVE  StaysAttended(a) /\ StaysConfigured(a)
  <1>1. PICK h : h = [hosts[b] EXCEPT !.timer = FALSE]
    OBVIOUS
  <1>2. PICK c : c = ConnectTo(h)
    OBVIOUS
  <1>3. /\ UNCHANGED <<enabled, configured>> /\ hosts \in [Address -> Host]
        /\ \/ ReconnectTo(b) /\ hosts' = [hosts EXCEPT ![b] = c]
           \/ b \in configured /\ hosts' = [hosts EXCEPT ![b] = c]
           \/ b \notin configured /\ hosts' = [hosts EXCEPT ![b] = h]
    BY <1>1, <1>2 DEF ReconnectTo, TimerFires, RemoteInv
  <1>4. Sound(h) /\ HasRoom(h) /\ h.entry = hosts[b].entry
    BY <1>1, TimerSound DEF RemoteInv, HostsKept, Kept, HasRoom, FreeIds, ReconnectTo, TimerFires
  <1>5. c.entry # 0 /\ c.clients[c.entry].state = "connecting"
    BY <1>2, <1>4, ConnectKeeps
  <1>6. CASE a # b
    BY <1>3, <1>6, HostStays
  <1>7. CASE a = b
    <2>1. CASE hosts'[a] = c /\ (ReconnectTo(a) \/ a \in configured)
      <3>1. ASSUME TimerFires(a), a \notin configured PROVE hosts[a].entry # 0
        <4>1. hosts'[a] = h
          BY <1>1, <1>3, <1>7, <3>1 DEF TimerFires
        <4> QED
          BY <1>4, <1>5, <1>7, <2>1, <4>1
      <3> QED
        BY <1>3, <1>5, <2>1, <3>1 DEF StaysAttended, StaysConfigured, Attended
    <2>2. CASE hosts'[a] = h /\ a \notin configured
      BY <1>3, <1>4, <1>7, <2>2 DEF StaysAttended, StaysConfigured, Attended
    <2> QED
      BY <1>3, <1>7, <2>1, <2>2
  <1> QED
    BY <1>6, <1>7

\* What becomes of a connection, or of an attempt that is no longer the entry's.
LEMMA ClientAttends ==
  ASSUME RemoteInv, NEW b \in Address, NEW i \in HostClient,
         Connected(b, i) \/ ConnectFailed(b, i) \/ Closed(b, i),
         NEW a \in Address \ Tunnel
  PROVE  StaysAttended(a) /\ StaysConfigured(a)
  <1>1. PICK h : h = hosts[b]
    OBVIOUS
  <1>2. /\ UNCHANGED <<enabled, configured>> /\ hosts \in [Address -> Host]
        /\ h \in Host /\ Kept(h, b) /\ i # 0
        /\ h.entry = i <=> h.clients[i] # Free /\ ~h.clients[i].disposed
    BY <1>1, ClientIds
       DEF Connected, ConnectFailed, Closed, RemoteInv, HostsKept, Kept, Sound
  <1>3. CASE a # b
    <2>1. hosts'[a] = hosts[a]
      BY <1>2, <1>3 DEF Connected, ConnectFailed, Closed, Settles
    <2> QED
      BY <1>2, <2>1, HostStays
  <1>4. CASE a = b /\ h.entry # i
    <2>1. hosts' = [hosts EXCEPT ![a].clients[i] = Free]
      BY <1>1, <1>2, <1>4 DEF Connected, ConnectFailed, Closed, Settles, Host, RemoteClient
    <2>2. hosts'[a].entry = h.entry /\ hosts'[a].timer = h.timer
      BY <1>1, <1>2, <1>4, <2>1 DEF Host
    <2>3. h.entry # 0 => hosts'[a].clients[h.entry] = h.clients[h.entry]
      BY <1>1, <1>2, <1>4, <2>1 DEF Host
    <2> QED
      BY <1>1, <1>2, <1>4, <2>2, <2>3 DEF StaysAttended, StaysConfigured, Attended
  <1>5. CASE a = b /\ h.entry = i /\ Connected(b, i)
    <2>1. hosts' = [hosts EXCEPT ![a].clients[i].state = "connected"]
      BY <1>1, <1>2, <1>5 DEF Connected
    <2>2. /\ hosts'[a].entry = i
          /\ hosts'[a].clients = [h.clients EXCEPT ![i].state = "connected"]
      BY <1>1, <1>2, <1>5, <2>1 DEF Host
    <2>3. h.clients[i] \in RemoteClient
      BY <1>2, <1>5 DEF Host
    <2>4. hosts'[a].clients[i].state = "connected"
      BY <1>2, <2>2, <2>3 DEF Host, RemoteClient
    <2> QED
      BY <1>1, <1>2, <1>5, <2>2, <2>4 DEF StaysAttended, StaysConfigured, Attended
  <1>6. CASE a = b /\ h.entry = i /\ (ConnectFailed(b, i) \/ Closed(b, i))
    <2>1. a \in configured => hosts'[a].timer
      <3>1. PICK g : /\ g \in Host
                     /\ hosts' = [hosts EXCEPT ![a] = Scheduled(g, a)]
        <4>1. CASE ConnectFailed(b, i)
          <5> DEFINE g == [[h EXCEPT !.clients[i] = Free] EXCEPT !.entry = 0]
          <5>1. g \in Host
            BY <1>2 DEF Host
          <5>2. hosts' = [Settles(a, i) EXCEPT ![a] = Scheduled([@ EXCEPT !.entry = 0], a)]
            BY <1>1, <1>6, <4>1 DEF ConnectFailed
          <5>3. Settles(a, i) = [hosts EXCEPT ![a] = [h EXCEPT !.clients[i] = Free]]
            BY <1>1, <1>2, <1>6 DEF Settles
          <5>4. /\ Settles(a, i)[a] = [h EXCEPT !.clients[i] = Free]
                /\ \A x : [Settles(a, i) EXCEPT ![a] = x] = [hosts EXCEPT ![a] = x]
            BY <1>2, <5>3
          <5>5. hosts' = [hosts EXCEPT ![a] = Scheduled(g, a)]
            BY <5>2, <5>4
          <5> QED
            BY <5>1, <5>5
        <4>2. CASE Closed(b, i)
          <5> DEFINE g == [h EXCEPT !.clients[i].state = "closed"]
          <5>1. g \in Host
            BY <1>2, <1>6, <4>2 DEF Host, RemoteClient
          <5>2. ~h.clients[i].given
            BY <1>2, <1>6, <4>2 DEF Kept
          <5>3. hosts' = [hosts EXCEPT ![a] = Scheduled(g, a)]
            BY <1>1, <1>2, <1>6, <4>2, <5>2 DEF Closed
          <5> QED
            BY <5>1, <5>3
        <4> QED
          BY <1>6, <4>1, <4>2
      <3>2. hosts'[a] = [g EXCEPT !.timer = @ \/ a \in configured]
        BY <1>2, <3>1 DEF Scheduled
      <3> QED
        BY <3>1, <3>2 DEF Host
    <2>2. hosts'[a].entry # 0 => h.entry # 0
      BY <1>2, <1>6
    <2> QED
      BY <1>1, <1>2, <1>6, <2>1, <2>2 DEF StaysAttended, StaysConfigured, Attended
  <1> QED
    BY <1>3, <1>4, <1>5, <1>6

\* A call goes on.
LEMMA RequestAttends ==
  ASSUME RemoteInv, NEW k \in Pending, ContinueRequest(k), NEW a \in Address \ Tunnel
  PROVE  StaysAttended(a) /\ StaysConfigured(a)
  <1>1. CASE UNCHANGED <<enabled, configured, hosts>>
    BY <1>1, HostStays
  <1>2. CASE Written(k) /\ ~UNCHANGED <<configured, hosts>>
    <2>1. PICK rs, config : /\ enabled' = enabled /\ configured' = config
                            /\ ReconcileConnections(enabled, config, rs)
      BY <1>2 DEF Written
    <2> QED
      BY <2>1, ReconcilingAttends DEF RemoteInv
  <1>3. CASE HostRemoved(k)
    <2> DEFINE b == requests[k].address
    <2>1. PICK h : h = [WithoutEntry(hosts[b]) EXCEPT !.timer = FALSE]
      OBVIOUS
    <2>2. /\ UNCHANGED <<enabled, configured>> /\ hosts \in [Address -> Host]
          /\ hosts' = [hosts EXCEPT ![b] = h] /\ b \in Address
      BY <1>3, <2>1 DEF HostRemoved, RemoteInv, RequestsKept, Pending, Request
    <2>3. CASE a # b
      BY <2>2, <2>3, HostStays
    <2>4. CASE a = b
      <3>1. h.entry = 0
        BY <2>1, <2>2, RemovalKeeps DEF RemoteInv, HostsKept, Kept
      <3>2. hosts'[a].entry = 0
        BY <2>2, <2>4, <3>1
      <3>3. RemovalEnds(a)
        BY <1>3, <2>4 DEF RemovalEnds
      <3> QED
        BY <3>2, <3>3 DEF StaysAttended, StaysConfigured
    <2> QED
      BY <2>3, <2>4
  <1> QED
    BY <1>1, <1>2, <1>3 DEF ContinueRequest, Written, NotWritten, Added, SSHAdded, TimedOut

\* Every step does to a host only what NeverForgotten and EntriesAreConfigured allow.
LEMMA StepsAttend ==
  ASSUME RemoteInv, [RemoteNext]_remoteVars, NEW a \in Address \ Tunnel
  PROVE  StaysAttended(a) /\ StaysConfigured(a)
  <1>1. CASE UNCHANGED remoteVars
    BY <1>1, HostStays DEF remoteVars
  <1>2. CASE ToggleEnabled \/ EditSettings
    <2>1. PICK on, config : /\ on \in BOOLEAN /\ enabled' = on /\ configured' = config
                            /\ ReconcileConnections(on, config, requests)
      BY <1>2 DEF ToggleEnabled, EditSettings, RemoteInv
    <2> QED
      BY <2>1, ReconcilingAttends
  <1>3. CASE AddRemoteAgentHost \/ RemoveRemoteAgentHost
    BY <1>3, HostStays DEF AddRemoteAgentHost, RemoveRemoteAgentHost
  <1>4. CASE AddSSHConnection
    <2>1. hosts'[a] = hosts[a] /\ UNCHANGED <<enabled, configured>>
      BY <1>4 DEF AddSSHConnection, RemoteInv
    <2> QED
      BY <2>1, HostStays
  <1>5. ASSUME NEW k \in Pending, ContinueRequest(k)
        PROVE  StaysAttended(a) /\ StaysConfigured(a)
    BY <1>5, RequestAttends
  <1>6. ASSUME NEW b \in Address, NEW i \in HostClient,
               Connected(b, i) \/ ConnectFailed(b, i) \/ Closed(b, i)
        PROVE  StaysAttended(a) /\ StaysConfigured(a)
    BY <1>6, ClientAttends
  <1>7. ASSUME NEW b \in Address, ReconnectTo(b) \/ TimerFires(b)
        PROVE  StaysAttended(a) /\ StaysConfigured(a)
    BY <1>7, ConnectingAttends
  <1> QED
    BY <1>1, <1>2, <1>3, <1>4, <1>5, <1>6, <1>7 DEF RemoteNext

\* At the start every host in the settings is being connected, if they are enabled.
LEMMA StartAttends ==
  ASSUME RemoteInit, NEW a \in Address \ Tunnel
  PROVE  Attended(a)
  <1>1. PICK h : h = NewHost
    OBVIOUS
  <1>2. PICK r : r = Reconciled(h, a, enabled, configured)
    OBVIOUS
  <1>3. hosts[a] = r /\ enabled \in BOOLEAN
    BY <1>1, <1>2 DEF RemoteInit
  <1>4. HasRoom(h) /\ Kept(h, a) /\ h.entry = 0
    BY <1>1, NewHostSound DEF Kept, NewHost
  <1>5. /\ ~enabled \/ a \notin configured => r.entry = 0
        /\ enabled /\ a \in configured =>
             r.entry # 0 /\ r.clients[r.entry].state = "connecting"
    BY <1>2, <1>3, <1>4, ReconcileKeeps
  <1> QED
    BY <1>3, <1>5 DEF Attended

-----------------------------------------------------------------------------
\* The service's state stays of its type: only attempts under way are disposed.
THEOREM RemoteTypeCorrect == RemoteSpec => []RemoteTypeOK
  <1>1. RemoteInv => RemoteTypeOK
    BY RemoteAssumption
       DEF RemoteInv, HostsKept, Kept, Sound, RequestsKept, RemoteTypeOK
  <1> QED
    BY <1>1, RemoteInvariant, PTL

\* However timers, reconnects, settings and late results cross, an address has no
\* live client but that of its entry.
THEOREM OneLiveClientPerAddress == RemoteSpec => []OneLiveClient
  <1>1. RemoteInv => OneLiveClient
    BY DEF RemoteInv, HostsKept, Kept, Sound, OneLiveClient
  <1> QED
    BY <1>1, RemoteInvariant, PTL

\* Whatever fails, fires, is edited or overlaps, a host of the settings loses its
\* connection and the way to one only to the end of an earlier removal of it, or by
\* being added while a stray connection to it is already closed; and a change of the
\* settings connects a host that a removal has left without.
THEOREM WantedHostsAreKept == RemoteSpec => NeverForgotten
  <1>1. RemoteInit => \A a \in Address \ Tunnel : Attended(a)
    BY StartAttends
  <1>2. RemoteInv /\ [RemoteNext]_remoteVars =>
          [\A a \in Address \ Tunnel :
             \/ Attended(a)'
             \/ ~Attended(a) /\ (hosts[a].entry # 0 \/ UNCHANGED <<enabled, configured>>)
             \/ a \notin configured /\ hosts[a].entry # 0
             \/ RemovalEnds(a)]_remoteVars
    BY StepsAttend DEF StaysAttended
  <1> QED
    BY <1>1, <1>2, RemoteInvariant, PTL DEF RemoteSpec, NeverForgotten

\* No timer, late result, call or write connects a host outside the settings or leaves
\* one connected that is taken from them; only a manual reconnect does.
THEOREM StraysAreManual == RemoteSpec => EntriesAreConfigured
  <1>1. RemoteInv /\ [RemoteNext]_remoteVars =>
          [\A a \in Address \ Tunnel :
             hosts'[a].entry # 0 /\ a \notin configured' =>
               \/ hosts[a].entry # 0 /\ a \notin configured
               \/ ReconnectTo(a) /\ ~TimerFires(a)]_remoteVars
    BY StepsAttend DEF StaysConfigured
  <1> QED
    BY <1>1, RemoteInvariant, PTL DEF RemoteSpec, EntriesAreConfigured

\* No call waits on the promise that the service keeps for an address while that
\* address is connected.
THEOREM WaitsHearOfConnections == RemoteSpec => []AddsHearOfConnections
  <1>1. RemoteInv => AddsHearOfConnections
    BY DEF RemoteInv, RequestsKept
  <1> QED
    BY <1>1, RemoteInvariant, PTL

-----------------------------------------------------------------------------
(* The chat with its tools and paid requests                              *)

\* A signature is remembered since it was last sent, or the window is over.
PaidIsRemembered ==
  \A s \in Signature :
    lastPaid[s] # Never =>
      \/ recent[s] # Never /\ recent[s] >= lastPaid[s]
      \/ now - lastPaid[s] > Window

LoopInv == LoopTypeOK /\ PaidIsRemembered

-----------------------------------------------------------------------------
(* Requests.                                                               *)

\* A request that a step may leave behind: with tool calls while it is at one.
WellPlaced(r) ==
  r \in Chatting /\ (r.at \in {"tool", "approval", "server", "call"} => r.tools > 0)

Asking == {"payment", "approval"}

\* A request whose tool call is over has one tool call less and is well placed.
LEMMA ResultWellPlaced ==
  ASSUME NEW r, WellPlaced(r), r.at \in {"tool", "approval", "server", "call"}
  PROVE  WellPlaced(WithResult(r)) /\ WithResult(r).at \notin Asking
  <1>1. r.tools \in 1 .. MaxTools /\ MaxTools \in Nat
    BY LoopAssumption DEF WellPlaced, Chatting
  <1>2. r.tools - 1 \in 0 .. MaxTools /\ (r.tools # 1 => r.tools - 1 > 0)
    BY <1>1
  <1> QED
    BY <1>2 DEF WellPlaced, Chatting, WithResult, Asking

\* A request whose question is closed is well placed and asks nothing.
LEMMA DeclinedWellPlaced ==
  ASSUME NEW r, WellPlaced(r), r.at \in Asking
  PROVE  WellPlaced(Declined(r)) /\ Declined(r).at \notin Asking
  <1>1. CASE r.at = "payment"
    BY <1>1 DEF Declined, At, WellPlaced, Chatting, Asking
  <1>2. CASE r.at = "approval"
    BY <1>2, ResultWellPlaced DEF Declined, Asking
  <1> QED
    BY <1>1, <1>2 DEF Asking

\* The type invariant, with the chats' part in terms of WellPlaced.
LEMMA TypeOfChats ==
  ASSUME LoopTypeOK
  PROVE  /\ \A c \in Chat : WellPlaced(chats[c])
         /\ shown \in Chat => chats[shown].at \in Asking
         /\ shown \in Chat \cup {Nothing}
  BY LoopAssumption DEF LoopTypeOK, WellPlaced, Asking

\* The chats are well typed after a step that keeps every request well placed and
\* the quick input with a request that asks.
LEMMA ChatsTyped ==
  ASSUME LoopTypeOK, now' \in Time,
         recent' \in [Signature -> Time \cup {Never}],
         lastPaid' \in [Signature -> Time \cup {Never}], permitted' \in BOOLEAN,
         chats' = [c \in Chat |-> chats'[c]],
         \A c \in Chat : WellPlaced(chats'[c]),
         shown' \in Chat \cup {Nothing},
         shown' \in Chat => chats'[shown'].at \in Asking
  PROVE  LoopTypeOK'
  BY DEF LoopTypeOK, WellPlaced, Asking

\* One request moves while it is not the one that is shown.
LEMMA OneMoves ==
  ASSUME LoopTypeOK, NEW c \in Chat, NEW r, WellPlaced(r),
         chats' = [chats EXCEPT ![c] = r],
         \/ shown' = shown /\ (chats[c].at \notin Asking \/ r.at = chats[c].at)
         \/ shown = c /\ shown' = Nothing,
         now' \in Time, recent' \in [Signature -> Time \cup {Never}],
         lastPaid' \in [Signature -> Time \cup {Never}], permitted' \in BOOLEAN
  PROVE  LoopTypeOK'
  <1>1. chats \in [Chat -> Chatting]
    BY DEF LoopTypeOK
  <1>2. \A d \in Chat : WellPlaced(chats'[d])
    BY <1>1, TypeOfChats
  <1>3. shown' \in Chat => chats'[shown'].at \in Asking
    BY <1>1, TypeOfChats, LoopAssumption
  <1> QED
    BY <1>1, <1>2, <1>3, TypeOfChats, ChatsTyped

\* A quick input is shown in place of another one.
LEMMA ShowTyped ==
  ASSUME LoopTypeOK, NEW c \in Chat, NEW at \in Asking, Show(c, at),
         at = "approval" => chats[c].tools > 0,
         now' \in Time, recent' \in [Signature -> Time \cup {Never}],
         lastPaid' \in [Signature -> Time \cup {Never}], permitted' \in BOOLEAN
  PROVE  LoopTypeOK'
  <1>1. WellPlaced(At(chats[c], at))
    BY TypeOfChats DEF WellPlaced, At, Asking, Chatting
  <1>2. \A d \in Chat : WellPlaced(chats'[d])
    BY <1>1, TypeOfChats, DeclinedWellPlaced DEF Show
  <1>3. chats'[c].at = at
    BY TypeOfChats DEF Show, At, WellPlaced, Chatting
  <1> QED
    BY <1>2, <1>3, ChatsTyped DEF Show

-----------------------------------------------------------------------------
(* The invariant is inductive.                                             *)

LEMMA LoopInit_Inv == LoopInit => LoopInv
  <1> SUFFICES ASSUME LoopInit PROVE LoopInv
    OBVIOUS
  <1>1. Idle \in Chatting
    BY LoopAssumption DEF Idle, Chatting
  <1> QED
    BY <1>1, LoopAssumption DEF LoopInit, LoopInv, LoopTypeOK, PaidIsRemembered, Idle, Time

LEMMA PurgedTyped ==
  ASSUME LoopTypeOK
  PROVE  Purged \in [Signature -> Time \cup {Never}]
  BY DEF LoopTypeOK, Purged

\* Nothing that still counts is purged.
LEMMA PurgedRemembers ==
  ASSUME LoopInv, recent' = Purged, UNCHANGED <<now, lastPaid>>
  PROVE  PaidIsRemembered'
  <1> SUFFICES ASSUME NEW s \in Signature, lastPaid[s] # Never,
                      ~(now - lastPaid[s] > Window)
               PROVE  recent'[s] # Never /\ recent'[s] >= lastPaid[s]
    BY DEF PaidIsRemembered
  <1>1. recent[s] # Never /\ recent[s] >= lastPaid[s]
    BY DEF LoopInv, PaidIsRemembered
  <1>2. {now, lastPaid[s], recent[s], Window} \subseteq Nat
    BY <1>1, LoopAssumption DEF LoopInv, LoopTypeOK, Time
  <1>3. ~(now - recent[s] > Window)
    BY <1>1, <1>2
  <1> QED
    BY <1>1, <1>3 DEF Purged

\* A signature is sent only if it is not remembered, and is remembered then.
LEMMA PayRemembers ==
  ASSUME LoopInv, NEW c \in Chat, Pay(c)
  PROVE  /\ recent' \in [Signature -> Time \cup {Never}]
         /\ lastPaid' \in [Signature -> Time \cup {Never}]
         /\ PaidIsRemembered'
         /\ chats'[c].at = "paid" =>
              /\ chats'[c].signature \in Signature
              /\ recent[chats'[c].signature] = Never
  <1> DEFINE used(s) == recent[s] # Never
             sent(s) == ~used(s) /\ ~chats[c].cancelled
  <1>1. PICK s \in Signature :
          /\ recent' = IF used(s) THEN recent ELSE [recent EXCEPT ![s] = now]
          /\ lastPaid' = IF sent(s) THEN [lastPaid EXCEPT ![s] = now] ELSE lastPaid
          /\ chats' = [chats EXCEPT ![c].at = IF sent(s) THEN "paid" ELSE "failed",
                                    ![c].signature = IF sent(s) THEN s ELSE @]
    BY DEF Pay
  <1>2. /\ now \in Time /\ now' = now /\ now \in Nat /\ Window \in Nat
        /\ recent \in [Signature -> Time \cup {Never}]
        /\ lastPaid \in [Signature -> Time \cup {Never}]
        /\ chats \in [Chat -> Chatting] /\ Time \subseteq Nat
    BY LoopAssumption DEF LoopInv, LoopTypeOK, Pay, Time
  <1>3. /\ recent' \in [Signature -> Time \cup {Never}]
        /\ lastPaid' \in [Signature -> Time \cup {Never}]
    BY <1>1, <1>2
  <1>4. ASSUME NEW u \in Signature, lastPaid'[u] # Never
        PROVE  \/ recent'[u] # Never /\ recent'[u] >= lastPaid'[u]
               \/ now - lastPaid'[u] > Window
    <2>1. CASE u = s /\ sent(s)
      BY <2>1, <1>1, <1>2, LoopAssumption
    <2>2. CASE ~(u = s /\ sent(s))
      <3>1. lastPaid'[u] = lastPaid[u]
        BY <2>2, <1>1, <1>2
      <3>2. recent'[u] = recent[u] \/ recent[u] = Never
        BY <1>1, <1>2
      <3> QED
        BY <3>1, <3>2, <1>4 DEF LoopInv, PaidIsRemembered
    <2> QED
      BY <2>1, <2>2
  <1>5. PaidIsRemembered'
    BY <1>2, <1>4 DEF PaidIsRemembered
  <1>6. chats'[c].at = (IF sent(s) THEN "paid" ELSE "failed")
        /\ (sent(s) => chats'[c].signature = s)
    BY <1>1, <1>2 DEF Chatting
  <1>7. chats'[c].at = "paid" => chats'[c].signature = s /\ recent[s] = Never
    BY <1>6
  <1> QED
    BY <1>3, <1>5, <1>7

\* Every step keeps the invariant: only Pay and the purge before a payment touch
\* what is remembered, and every other action moves one request.
LEMMA LoopNext_Inv == LoopInv /\ [LoopNext]_loopVars => LoopInv'
  <1> SUFFICES ASSUME LoopInv, [LoopNext]_loopVars PROVE LoopInv'
    OBVIOUS
  <1>1. /\ LoopTypeOK /\ now \in Time /\ permitted \in BOOLEAN
        /\ recent \in [Signature -> Time \cup {Never}]
        /\ lastPaid \in [Signature -> Time \cup {Never}]
        /\ chats \in [Chat -> Chatting]
        /\ now \in Nat /\ Window \in Nat /\ MaxTools \in Nat
        /\ Time \subseteq Nat /\ Never \notin Nat
    BY LoopAssumption DEF LoopInv, LoopTypeOK, Time
  <1>2. ASSUME UNCHANGED <<now, recent, lastPaid>> PROVE PaidIsRemembered'
    BY <1>2 DEF LoopInv, PaidIsRemembered
  <1>3. CASE UNCHANGED loopVars
    BY <1>2, <1>3 DEF loopVars, LoopInv, LoopTypeOK
  <1>4. CASE Tick
    <2>1. now' \in Time /\ now' >= now /\ LoopTypeOK'
      BY <1>1, <1>4, LoopAssumption DEF Tick, LoopTypeOK, Time
    <2>2. PaidIsRemembered'
      <3> SUFFICES ASSUME NEW s \in Signature, lastPaid[s] # Never,
                          now - lastPaid[s] > Window
                   PROVE  now' - lastPaid[s] > Window
        BY <1>4 DEF Tick, LoopInv, PaidIsRemembered
      <3> QED
        BY <1>1, <2>1 DEF Time
    <2> QED
      BY <2>1, <2>2 DEF LoopInv
  <1>5. CASE ChangePolicy
    <2>1. LoopTypeOK'
      BY <1>1, <1>5 DEF ChangePolicy, LoopTypeOK
    <2> QED
      BY <1>2, <1>5, <2>1 DEF ChangePolicy, LoopInv
  <1>6. ASSUME NEW c \in Chat, Pay(c) PROVE LoopInv'
    <2>1. chats[c].at = "payment" /\ shown = c /\ shown' = Nothing
      BY <1>6 DEF Pay
    <2>2. PICK at \in {"paid", "failed"}, u \in Signature \cup {chats[c].signature} :
            chats' = [chats EXCEPT ![c].at = at, ![c].signature = u]
      <3>1. PICK s \in Signature :
              LET sent == recent[s] = Never /\ ~chats[c].cancelled
              IN chats' = [chats EXCEPT ![c].at = IF sent THEN "paid" ELSE "failed",
                                        ![c].signature = IF sent THEN s ELSE @]
        BY <1>6, Zenon DEF Pay
      <3>2. CASE recent[s] = Never /\ ~chats[c].cancelled
        BY <3>1, <3>2
      <3>3. CASE ~(recent[s] = Never /\ ~chats[c].cancelled)
        BY <3>1, <3>3
      <3> QED
        BY <3>2, <3>3
    <2> DEFINE r == [chats[c] EXCEPT !.at = at, !.signature = u]
    <2>3. chats' = [chats EXCEPT ![c] = r]
      BY <1>1, <2>2
    <2>4. WellPlaced(r)
      BY <1>1, <2>2, ZenonT(40) DEF WellPlaced, Chatting
    <2> HIDE DEF r
    <2> QED
      BY <1>1, <1>6, <2>1, <2>3, <2>4, OneMoves, PayRemembers DEF Pay, LoopInv
  <1>7. ASSUME NEW c \in Chat, Readied(c) PROVE LoopInv'
    <2>1. CASE recent' = Purged /\ Show(c, "payment")
      BY <1>1, <1>7, <2>1, PurgedTyped, PurgedRemembers, ShowTyped
         DEF Readied, LoopInv, Asking
    <2>2. CASE Goes(c, "failed") /\ UNCHANGED <<recent, shown>>
      <3>1. WellPlaced([chats[c] EXCEPT !.at = "failed"]) /\ chats[c].at \notin Asking
        BY <1>1, <1>7 DEF WellPlaced, Chatting, Readied, Asking
      <3> QED
        BY <1>1, <1>2, <1>7, <2>2, <3>1, OneMoves DEF Readied, Goes, LoopInv
    <2> QED
      BY <1>7, <2>1, <2>2 DEF Readied
  <1>8. ASSUME NEW c \in Chat, ExecuteTool(c) PROVE LoopInv'
    <2>1. chats[c].at = "tool" /\ chats[c].tools > 0 /\ WellPlaced(chats[c])
      BY <1>8, <1>1, TypeOfChats DEF ExecuteTool, WellPlaced
    <2>2. CASE Show(c, "approval")
      BY <1>1, <1>2, <1>8, <2>1, <2>2, ShowTyped DEF ExecuteTool, LoopInv, Asking
    <2>3. CASE chats' = [chats EXCEPT ![c] = WithResult(@)] /\ UNCHANGED shown
      <3>1. WellPlaced(WithResult(chats[c])) /\ chats[c].at \notin Asking
        BY <2>1, ResultWellPlaced DEF Asking
      <3> QED
        BY <1>1, <1>2, <1>8, <2>3, <3>1, OneMoves DEF ExecuteTool, LoopInv
    <2> QED
      BY <1>8, <2>2, <2>3 DEF ExecuteTool
  <1>9. ASSUME NEW c \in Chat, ToolCalled(c) PROVE LoopInv'
    <2>1. WellPlaced(WithResult(chats[c])) /\ chats[c].at \notin Asking
      BY <1>1, <1>9, TypeOfChats, ResultWellPlaced DEF ToolCalled, Asking
    <2> QED
      BY <1>1, <1>2, <1>9, <2>1, OneMoves DEF ToolCalled, LoopInv
  <1>10. ASSUME NEW c \in Chat, Decline(c) PROVE LoopInv'
    <2>1. WellPlaced(Declined(chats[c]))
      BY <1>1, <1>10, TypeOfChats, DeclinedWellPlaced DEF Decline
    <2> QED
      BY <1>1, <1>2, <1>10, <2>1, OneMoves DEF Decline, LoopInv
  <1>11. ASSUME NEW c \in Chat, Approve(c) PROVE LoopInv'
    <2>1. WellPlaced([chats[c] EXCEPT !.at = "server"])
      BY <1>1, <1>11, TypeOfChats DEF Approve, WellPlaced, Chatting
    <2> QED
      BY <1>1, <1>2, <1>11, <2>1, OneMoves DEF Approve, Goes, LoopInv
  <1>12. ASSUME NEW c \in Chat, SendChatRequest(c) PROVE LoopInv'
    <2>1. Idle \in Chatting
      BY <1>1 DEF Idle, Chatting
    <2>2. At(Idle, "post") \in Chatting /\ At(Idle, "post").at = "post"
      BY <2>1 DEF At, Chatting
    <2>3. WellPlaced(At(Idle, "post")) /\ chats[c].at \notin Asking
      BY <2>2, <1>12 DEF SendChatRequest, WellPlaced, Asking
    <2> QED
      BY <1>1, <1>2, <1>12, <2>3, OneMoves DEF SendChatRequest, LoopInv
  <1>13. ASSUME NEW c \in Chat, Cancel(c) PROVE LoopInv'
    <2> DEFINE at == IF chats[c].at \in {"post", "readiness", "paid", "body"}
                     THEN "failed" ELSE chats[c].at
               r == [chats[c] EXCEPT !.cancelled = TRUE, !.at = at]
    <2>1. chats' = [chats EXCEPT ![c] = r]
      BY <1>1, <1>13 DEF Cancel, Chatting
    <2>2. WellPlaced(r) /\ r.at = at
      BY <1>1, TypeOfChats DEF WellPlaced, Chatting
    <2>3. chats[c].at \notin Asking \/ r.at = chats[c].at
      BY <2>2 DEF Asking
    <2> HIDE DEF r
    <2> QED
      BY <1>1, <1>2, <1>13, <2>1, <2>2, <2>3, OneMoves DEF Cancel, LoopInv
  <1>14. ASSUME NEW c \in Chat, StreamEnds(c) PROVE LoopInv'
    <2>1. PICK n \in 0 .. MaxTools, at \in {"idle", "tool", "failed"} :
            /\ (at = "tool") = (n > 0)
            /\ chats' = [chats EXCEPT ![c].at = at, ![c].tools = n]
      BY <1>14 DEF StreamEnds
    <2> DEFINE r == [chats[c] EXCEPT !.at = at, !.tools = n]
    <2>2. chats' = [chats EXCEPT ![c] = r]
      BY <1>1, <2>1
    <2>3. WellPlaced(r) /\ chats[c].at \notin Asking
      BY <1>1, <1>14, <2>1 DEF WellPlaced, Chatting, StreamEnds, Asking
    <2> HIDE DEF r
    <2> QED
      BY <1>1, <1>2, <1>14, <2>2, <2>3, OneMoves DEF StreamEnds, LoopInv
  <1>15. ASSUME NEW c \in Chat, PaidResponded(c) PROVE LoopInv'
    <2>1. chats[c].at = "paid" /\ chats[c].at \notin Asking
      BY <1>15 DEF PaidResponded, Asking
    <2>2. \E r \in Chatting :
            chats' = [chats EXCEPT ![c] = r] /\ r.at \in {"failed", "body"}
      BY <1>1, <1>15 DEF PaidResponded, Goes, Chatting
    <2>3. \E r : WellPlaced(r) /\ chats' = [chats EXCEPT ![c] = r]
      BY <2>2 DEF WellPlaced
    <2> QED
      BY <1>1, <1>2, <1>15, <2>1, <2>3, OneMoves DEF PaidResponded, LoopInv
  <1>16. ASSUME NEW c \in Chat, Responded(c) \/ BodyRead(c) \/ ServerStarted(c)
         PROVE  LoopInv'
    <2>1. chats[c].at \notin Asking
      BY <1>16 DEF Responded, BodyRead, ServerStarted, Asking
    <2>2. \E at \in {"stream", "readiness", "failed", "call"} :
            /\ chats' = [chats EXCEPT ![c].at = at]
            /\ at = "call" => chats[c].at = "server"
      BY <1>16 DEF Responded, BodyRead, ServerStarted, Goes
    <2>3. \E r : WellPlaced(r) /\ chats' = [chats EXCEPT ![c] = r]
      BY <1>1, <2>2, TypeOfChats DEF WellPlaced, Chatting
    <2> QED
      BY <1>1, <1>2, <1>16, <2>1, <2>3, OneMoves
         DEF Responded, BodyRead, ServerStarted, LoopInv
  <1> QED
    BY <1>3, <1>4, <1>5, <1>6, <1>7, <1>8, <1>9, <1>10, <1>11, <1>12, <1>13, <1>14,
       <1>15, <1>16 DEF LoopNext, UserAnswers

LEMMA LoopInvariant == LoopSpec => []LoopInv
  BY LoopInit_Inv, LoopNext_Inv, PTL DEF LoopSpec

-----------------------------------------------------------------------------
\* The chat's state stays of its type: a request at a tool call has one left, and
\* the quick input belongs to a request that waits for an answer.
THEOREM LoopTypeCorrect == LoopSpec => []LoopTypeOK
  BY LoopInvariant, PTL DEF LoopInv

\* No signature is sent twice within the window, by whatever chats, with whatever
\* purges in between.
THEOREM NoSignatureReplayed == LoopSpec => SignatureNotReplayed
  <1> DEFINE Once == \A c \in Chat :
               chats[c].at = "payment" /\ chats'[c].at = "paid" =>
                 LET s == chats'[c].signature
                 IN lastPaid[s] = Never \/ now - lastPaid[s] > Window
  <1>1. LoopInv /\ [LoopNext]_loopVars => [Once]_loopVars
    <2> SUFFICES ASSUME LoopInv, LoopNext, NEW c \in Chat,
                        chats[c].at = "payment", chats'[c].at = "paid"
                 PROVE  LET s == chats'[c].signature
                        IN lastPaid[s] = Never \/ now - lastPaid[s] > Window
      OBVIOUS
    <2>1. chats \in [Chat -> Chatting]
      BY DEF LoopInv, LoopTypeOK
    <2>2. Pay(c)
      <3>1. ASSUME NEW d \in Chat, NEW at \in Asking, Show(d, at) PROVE FALSE
        BY <2>1, <3>1 DEF Show, At, Declined, Asking, Chatting
      <3>2. ASSUME NEW d \in Chat, Approve(d) \/ Decline(d) PROVE FALSE
        BY <2>1, <3>2 DEF Approve, Decline, Declined, At, Goes, Chatting
      <3>3. ASSUME NEW d \in Chat,
                   Responded(d) \/ PaidResponded(d) \/ BodyRead(d) \/ StreamEnds(d)
                   \/ ServerStarted(d) \/ ToolCalled(d) \/ SendChatRequest(d)
            PROVE  FALSE
        <4>1. chats'[c] = chats[c]
          <5>1. d # c
            BY <3>3 DEF Responded, PaidResponded, BodyRead, StreamEnds, ServerStarted,
                        ToolCalled, SendChatRequest
          <5> QED
            BY <2>1, <3>3, <5>1 DEF Responded, PaidResponded, BodyRead, StreamEnds,
                 ServerStarted, ToolCalled, SendChatRequest, Goes
        <4> QED
          BY <4>1
      <3>4. ASSUME NEW d \in Chat, Cancel(d) PROVE FALSE
        BY <2>1, <3>4 DEF Cancel, Chatting
      <3>5. ASSUME NEW d \in Chat, ExecuteTool(d) PROVE FALSE
        BY <2>1, <3>1, <3>5 DEF ExecuteTool, Asking
      <3>6. ASSUME NEW d \in Chat, Readied(d) PROVE FALSE
        BY <2>1, <3>1, <3>6 DEF Readied, Goes, Asking
      <3>7. ~Tick /\ ~ChangePolicy
        BY DEF Tick, ChangePolicy
      <3>8. \E d \in Chat : Pay(d)
        BY <3>2, <3>3, <3>4, <3>5, <3>6, <3>7 DEF LoopNext, UserAnswers
      <3> QED
        BY <2>1, <3>8, ZenonT(40) DEF Pay
    <2>3. chats'[c].signature \in Signature /\ recent[chats'[c].signature] = Never
      BY <2>2, PayRemembers
    <2> QED
      BY <2>3 DEF LoopInv, PaidIsRemembered
  <1> QED
    BY <1>1, LoopInvariant, PTL DEF LoopSpec, SignatureNotReplayed

-----------------------------------------------------------------------------
(* The plugin manager: the LRU order and what is written of it             *)

\* Keeping elements makes a sequence no longer, leaving one out makes it shorter.
LEMMA WithinShorter ==
  ASSUME NEW E, NEW s \in Seq(E), NEW S
  PROVE  /\ Len(Within(s, S)) <= Len(s)
         /\ (\E i \in 1 .. Len(s) : s[i] \notin S) => Len(Within(s, S)) < Len(s)
<1> DEFINE Lost(q) == \E i \in 1 .. Len(q) : q[i] \notin S
           T == {q \in Seq(E) : /\ Len(Within(q, S)) <= Len(q)
                                /\ Lost(q) => Len(Within(q, S)) < Len(q)}
<1>1. <<>> \in T
  <2>1. Within(<<>>, S) = <<>> /\ <<>> \in Seq(E) /\ Len(<<>>) = 0
    BY WithinEmpty, EmptySeq
  <2> QED
    BY <2>1
<1>2. ASSUME NEW q \in T, NEW e \in E
      PROVE  Append(q, e) \in T
  <2> DEFINE t == Append(q, e)
             w == Within(q, S)
  <2>1. /\ t \in Seq(E) /\ Len(t) = Len(q) + 1 /\ t[Len(q) + 1] = e
        /\ \A i \in 1 .. Len(q) : t[i] = q[i]
        /\ Len(q) \in Nat
    BY AppendProperties, LenProperties
  <2>2. w \in Seq(E) /\ Len(w) \in Nat /\ Len(Append(w, e)) = Len(w) + 1
    BY WithinType, AppendProperties, LenProperties
  <2>3. Within(t, S) = IF e \in S THEN Append(w, e) ELSE w
    BY WithinAppend
  <2>4. Lost(t) => Lost(q) \/ e \notin S
    <3> SUFFICES ASSUME NEW i \in 1 .. Len(t), t[i] \notin S
                 PROVE  Lost(q) \/ e \notin S
      OBVIOUS
    <3> HIDE DEF t
    <3>1. i \in 1 .. Len(q) \/ i = Len(q) + 1
      BY <2>1
    <3> QED
      BY <2>1, <3>1
  <2>5. Len(w) <= Len(q) /\ (Lost(q) => Len(w) < Len(q))
    OBVIOUS
  <2>6. /\ Len(Within(t, S)) <= Len(t)
        /\ Lost(t) => Len(Within(t, S)) < Len(t)
    <3> HIDE DEF t, w, Lost
    <3> QED
      BY <2>1, <2>2, <2>3, <2>4, <2>5
  <2> QED
    BY <2>1, <2>6
<1>3. T \in SUBSET Seq(E)
  OBVIOUS
<1> HIDE DEF T
<1>4. T = Seq(E)
  BY <1>1, <1>2, <1>3, SeqSetInduction
<1> QED
  BY <1>4 DEF T

\* What a sequence keeps of its elements it keeps at different places.
LEMMA WithinKeeps ==
  ASSUME NEW E, NEW s \in Seq(E), NEW S
  PROVE  /\ IsInjective(s) => IsInjective(Within(s, S))
         /\ \A e : Contains(Within(s, S), e) <=> Contains(s, e) /\ e \in S
<1> DEFINE w == Within(s, S)
<1>1. w \in Seq(E) /\ Len(w) \in Nat /\ DOMAIN w = 1 .. Len(w) /\ DOMAIN s = 1 .. Len(s)
  BY WithinType, LenProperties
<1>2. PICK place : Picks(place, w, s, S)
  BY WithinPicks
<1> HIDE DEF w
<1>3. ASSUME IsInjective(s)
      PROVE  IsInjective(w)
  <2> SUFFICES ASSUME NEW i \in 1 .. Len(w), NEW j \in 1 .. Len(w), w[i] = w[j], i < j
               PROVE  FALSE
    BY <1>1 DEF IsInjective
  <2>1. place[i] \in 1 .. Len(s) /\ place[j] \in 1 .. Len(s) /\ place[i] < place[j]
    BY <1>2 DEF Picks
  <2>2. s[place[i]] = s[place[j]]
    BY <1>2 DEF Picks
  <2>3. place[i] = place[j]
    BY <1>1, <1>3, <2>1, <2>2 DEF IsInjective
  <2> QED
    BY <2>1, <2>3
<1>4. ASSUME NEW e
      PROVE  Contains(w, e) <=> Contains(s, e) /\ e \in S
  <2>1. ASSUME Contains(w, e) PROVE Contains(s, e) /\ e \in S
    <3>1. PICK i \in 1 .. Len(w) : w[i] = e
      BY <2>1 DEF Contains
    <3>2. place[i] \in 1 .. Len(s) /\ s[place[i]] = e /\ e \in S
      BY <1>2, <3>1 DEF Picks
    <3> QED
      BY <3>2 DEF Contains
  <2>2. ASSUME Contains(s, e), e \in S PROVE Contains(w, e)
    <3>1. PICK n \in 1 .. Len(s) : s[n] = e
      BY <2>2 DEF Contains
    <3>2. PICK i \in 1 .. Len(w) : place[i] = n
      BY <1>2, <2>2, <3>1 DEF Picks
    <3>3. w[i] = e
      BY <1>2, <3>1, <3>2 DEF Picks
    <3> QED
      BY <3>3 DEF Contains
  <2> QED
    BY <2>1, <2>2
<1> QED
  BY <1>3, <1>4 DEF w

LEMMA OrderTouched ==
  ASSUME NEW order \in Seq(PluginUri), IsInjective(order), NEW u \in PluginUri,
         NEW q, q = Touched(order, u)
  PROVE  /\ q \in Seq(PluginUri) /\ IsInjective(q)
         /\ Len(q) \in Nat \ {0} /\ q[Len(q)] = u
         /\ \A v : Contains(q, v) <=> Contains(order, v) \/ v = u
         /\ Len(q) <= Len(order) + 1
         /\ Contains(order, u) => Len(q) <= Len(order)
<1> DEFINE S == PluginUri \ {u}
           w == Within(order, S)
<1>1. /\ w \in Seq(PluginUri) /\ Len(w) \in Nat /\ DOMAIN w = 1 .. Len(w)
      /\ Len(order) \in Nat
  BY WithinType, LenProperties
<1>2. /\ IsInjective(w) /\ Len(w) <= Len(order)
      /\ \A v : Contains(w, v) <=> Contains(order, v) /\ v \in S
      /\ Contains(order, u) => Len(w) < Len(order)
  BY WithinKeeps, WithinShorter DEF Contains
<1>3. \A v : Contains(order, v) => v \in PluginUri
  BY ElementOfSeq DEF Contains
<1>4. q = Append(w, u)
  BY DEF Touched
<1> HIDE DEF w
<1>5. /\ q \in Seq(PluginUri) /\ Len(q) = Len(w) + 1 /\ q[Len(w) + 1] = u
      /\ \A i \in 1 .. Len(w) : q[i] = w[i]
      /\ DOMAIN q = 1 .. Len(w) + 1
  BY <1>1, <1>4, AppendProperties, LenProperties
<1>6. ~Contains(w, u)
  BY <1>2
<1>7. IsInjective(q)
  BY <1>1, <1>2, <1>5, <1>6 DEF IsInjective, Contains
<1>8. \A v : Contains(q, v) <=> Contains(w, v) \/ v = u
  BY <1>1, <1>5 DEF Contains
<1> QED
  BY <1>1, <1>2, <1>3, <1>5, <1>7, <1>8

LEMMA OrderTail ==
  ASSUME NEW order \in Seq(PluginUri), IsInjective(order), Len(order) > 0,
         NEW q, q = Tail(order), NEW v, v = Head(order)
  PROVE  /\ q \in Seq(PluginUri) /\ IsInjective(q) /\ Len(q) = Len(order) - 1
         /\ \A w : Contains(q, w) <=> Contains(order, w) /\ w # v
         /\ v \in PluginUri
         /\ Len(order) > 1 => Len(q) # 0 /\ q[Len(q)] = order[Len(order)] /\ v # order[Len(order)]
<1>1. Len(order) \in Nat /\ DOMAIN order = 1 .. Len(order) /\ order # <<>>
  BY LenProperties, EmptySeq
<1>2. /\ q \in Seq(PluginUri) /\ Len(q) = Len(order) - 1 /\ v = order[1] /\ v \in PluginUri
      /\ \A i \in 1 .. Len(q) : q[i] = order[i + 1]
  BY <1>1, HeadTailProperties
<1>3. DOMAIN q = 1 .. Len(q)
  BY <1>2, LenProperties
<1>4. IsInjective(q)
  <2> SUFFICES ASSUME NEW i \in 1 .. Len(q), NEW j \in 1 .. Len(q), q[i] = q[j]
               PROVE  i = j
    BY <1>3 DEF IsInjective
  <2>1. order[i + 1] = order[j + 1] /\ i + 1 \in 1 .. Len(order) /\ j + 1 \in 1 .. Len(order)
    BY <1>1, <1>2
  <2>2. i + 1 = j + 1
    BY <1>1, <2>1 DEF IsInjective
  <2> QED
    BY <2>2
<1>5. \A n \in 1 .. Len(order) : order[n] = v => n = 1
  BY <1>1, <1>2 DEF IsInjective
<1>6. ASSUME NEW w
      PROVE  Contains(q, w) <=> Contains(order, w) /\ w # v
  <2>1. ASSUME Contains(q, w) PROVE Contains(order, w) /\ w # v
    <3>1. PICK i \in 1 .. Len(q) : q[i] = w
      BY <2>1 DEF Contains
    <3>2. i + 1 \in 1 .. Len(order) /\ order[i + 1] = w /\ i + 1 # 1
      BY <1>1, <1>2, <3>1
    <3> QED
      BY <1>5, <3>2 DEF Contains
  <2>2. ASSUME Contains(order, w), w # v PROVE Contains(q, w)
    <3>1. PICK n \in 1 .. Len(order) : order[n] = w
      BY <2>2 DEF Contains
    <3>2. n # 1 /\ n - 1 \in 1 .. Len(q) /\ q[n - 1] = order[n - 1 + 1] /\ n - 1 + 1 = n
      BY <1>1, <1>2, <2>2, <3>1
    <3> QED
      BY <3>1, <3>2 DEF Contains
  <2> QED
    BY <2>1, <2>2
<1>7. ASSUME Len(order) > 1
      PROVE  Len(q) # 0 /\ q[Len(q)] = order[Len(order)] /\ v # order[Len(order)]
  <2>1. Len(q) \in 1 .. Len(q) /\ Len(q) + 1 = Len(order)
    BY <1>1, <1>2, <1>7
  <2>2. Len(order) \in 1 .. Len(order) /\ Len(order) # 1
    BY <1>1, <1>7
  <2> QED
    BY <1>2, <1>5, <2>1, <2>2
<1> QED
  BY <1>2, <1>4, <1>6, <1>7

UrisOnce(entries) ==
  \A i, j \in DOMAIN entries : entries[i].uri = entries[j].uri => i = j

LEMMA SnapshotTaken ==
  ASSUME NEW order \in Seq(PluginUri), IsInjective(order),
         NEW known \in [PluginUri -> Versions], NEW s, s = Snapshot(order, known)
  PROVE  /\ s \in Seq(Entry) /\ Len(s) <= Len(order) /\ UrisOnce(s)
         /\ \A i \in DOMAIN s : /\ Contains(order, s[i].uri)
                                /\ s[i].nonce = known[s[i].uri]
<1> DEFINE S == {u \in PluginUri : known[u] # 0}
           w == Within(order, S)
           n == Len(w)
<1>1. w \in Seq(PluginUri \cap S) /\ w \in Seq(PluginUri)
  BY WithinType
<1>2. n \in Nat /\ DOMAIN w = 1 .. n /\ \A i \in 1 .. n : w[i] \in PluginUri /\ w[i] \in S
  BY <1>1, LenProperties, ElementOfSeq
<1>3. IsInjective(w) /\ n <= Len(order) /\ \A v : Contains(w, v) => Contains(order, v)
  BY WithinKeeps, WithinShorter
<1>4. s = [i \in DOMAIN w |-> [uri |-> w[i], nonce |-> known[w[i]]]]
  BY DEF Snapshot
<1> HIDE DEF w
<1>5. DOMAIN s = 1 .. n /\ \A i \in 1 .. n : s[i] = [uri |-> w[i], nonce |-> known[w[i]]]
  BY <1>2, <1>4
<1>6. \A i \in 1 .. n : s[i] \in Entry
  BY <1>2, <1>5 DEF Entry
<1>7. s \in Seq(Entry)
  BY <1>2, <1>4, <1>5, <1>6, IsASeq
<1>8. Len(s) = n
  BY <1>2, <1>5, <1>7, LenProperties
<1>9. UrisOnce(s)
  BY <1>2, <1>3, <1>5 DEF UrisOnce, IsInjective
<1>10. \A i \in 1 .. n : Contains(w, w[i])
  BY DEF Contains
<1> QED
  BY <1>3, <1>5, <1>7, <1>8, <1>9, <1>10
-----------------------------------------------------------------------------
(* The inductive invariant of the plugin manager                           *)

\* A nonce vouches for the content of the directory, or is one that no sync asks for
\* any more.
Vouched(u, n) ==
  \/ dirs[u] >= n
  \/ n < version[u] /\ (u \in InCall => n < tasks[u].nonce)

Order ==
  /\ IsInjective(lru)
  /\ ~loaded => lru = <<>> /\ InCall = {}
  /\ Len(lru) > MaxPlugins => \E u \in PluginUri : TaskAt(u, "evict")

\* What is deleted is out of the order and not synced by the call.
Victims ==
  \A u \in PluginUri : TaskAt(u, "evict") =>
    \/ tasks[u].victim \in doubtful
    \/ tasks[u].victim \notin InCall /\ ~Contains(lru, tasks[u].victim)

KnownNonces ==
  \A u \in PluginUri : nonces[u] # 0 =>
    /\ u \notin Unversioned /\ Contains(lru, u)
    /\ u \notin doubtful =>
         /\ nonces[u] <= version[u]
         /\ u \in InCall => nonces[u] <= tasks[u].nonce
         /\ Vouched(u, nonces[u])

TaskGood(u) ==
  LET t == tasks[u] IN
  /\ u \in Unversioned <=> t.nonce = 0
  /\ u \notin doubtful =>
       /\ t.nonce <= version[u]
       /\ t.at = "copy" => nonces[u] = 0 \/ nonces[u] # t.nonce
       /\ t.at \in {"hash", "evict", "persist", "done"} => dirs[u] # 0 /\ dirs[u] >= t.nonce

\* What is written, or to be written, is of the cache as it is, or as it was.
EntryGood(e) ==
  /\ e.uri \notin Unversioned
  /\ e.uri \notin doubtful =>
       /\ e.nonce <= version[e.uri]
       /\ e.uri \in InCall => e.nonce <= tasks[e.uri].nonce
       /\ Contains(lru, e.uri) => e.nonce <= nonces[e.uri]

Saved(s) ==
  /\ Len(s) <= MaxPlugins /\ UrisOnce(s)
  /\ \A i \in DOMAIN s : EntryGood(s[i])

FileGood ==
  /\ Saved(cacheFile)
  /\ ~loaded => \A i \in DOMAIN cacheFile :
       cacheFile[i].uri \notin doubtful => Vouched(cacheFile[i].uri, cacheFile[i].nonce)

TasksGood ==
  \A u \in InCall : TaskGood(u) /\ (tasks[u].at = "persist" => Saved(tasks[u].snapshot))

CacheInv ==
  CacheTypeOK /\ Order /\ Victims /\ KnownNonces /\ FileGood /\ TasksGood

LEMMA Entries ==
  ASSUME NEW s \in Seq(Entry)
  PROVE  \A i \in DOMAIN s : /\ s[i].uri \in PluginUri
                            /\ s[i].nonce \in Nat \ {0} /\ s[i].nonce \in Versions
<1>1. \A i \in DOMAIN s : s[i] \in Entry
  BY LenProperties, ElementOfSeq
<1>2. Versions \subseteq Nat
  BY CacheAssumption DEF Versions
<1> QED
  BY <1>1, <1>2 DEF Entry

LEMMA Numbers ==
  ASSUME CacheTypeOK
  PROVE  /\ version \in [PluginUri -> Nat] /\ nonces \in [PluginUri -> Nat]
         /\ dirs \in [PluginUri -> Nat]
         /\ \A u \in InCall : u \in PluginUri /\ tasks[u] \in Task /\ tasks[u].nonce \in Nat
         /\ 0 \in Versions
<1>1. Versions \subseteq Nat /\ 0 \in Versions
  BY CacheAssumption DEF Versions
<1> QED
  BY <1>1 DEF CacheTypeOK, InCall, Task

LEMMA NumbersNext ==
  ASSUME CacheTypeOK'
  PROVE  /\ version' \in [PluginUri -> Nat] /\ nonces' \in [PluginUri -> Nat]
         /\ dirs' \in [PluginUri -> Nat]
<1>1. Versions \subseteq Nat
  BY CacheAssumption DEF Versions
<1> QED
  BY <1>1 DEF CacheTypeOK

LEMMA CacheInitGood ==
  CacheInit => CacheInv
<1> SUFFICES ASSUME CacheInit PROVE CacheInv
  OBVIOUS
<1> USE DEF CacheInit
<1>1. InCall = {}
  BY DEF InCall
<1>2. /\ lru = <<>> /\ cacheFile = <<>> /\ Len(lru) = 0 /\ Len(cacheFile) = 0
      /\ DOMAIN lru = {} /\ DOMAIN cacheFile = {}
      /\ lru \in Seq(PluginUri) /\ cacheFile \in Seq(Entry)
  BY EmptySeq
<1>3. CacheTypeOK
  <2>1. 0 \in Versions /\ 1 \in Versions \ {0}
    BY CacheAssumption DEF Versions
  <2>2. /\ version \in [PluginUri -> Versions \ {0}] /\ nonces \in [PluginUri -> Versions]
        /\ dirs \in [PluginUri -> Versions]
    BY <2>1
  <2>3. tasks \in [PluginUri -> Task \cup {NoTask}] /\ \A u \in PluginUri : tasks[u] = NoTask
    OBVIOUS
  <2> QED
    BY <1>2, <2>2, <2>3 DEF CacheTypeOK
<1>4. Order /\ Victims
  <2>1. \A u \in PluginUri : ~TaskAt(u, "evict")
    BY <1>1 DEF TaskAt
  <2> QED
    BY <1>1, <1>2, <2>1, CacheAssumption DEF Order, Victims, IsInjective
<1>5. KnownNonces
  BY DEF KnownNonces
<1>6. FileGood
  BY <1>2, CacheAssumption DEF FileGood, Saved, UrisOnce
<1> QED
  BY <1>1, <1>3, <1>4, <1>5, <1>6 DEF CacheInv, TasksGood

-----------------------------------------------------------------------------
(* What a step may change.                                                 *)

\* A nonce that was written is still no newer than what the cache knows.
Newer(u) ==
  /\ u \notin doubtful
  /\ version[u] <= version'[u]
  /\ u \in InCall' => u \in InCall /\ tasks'[u].nonce = tasks[u].nonce
  /\ Contains(lru', u) =>
       \/ Contains(lru, u) /\ nonces[u] <= nonces'[u]
       \/ u \in InCall /\ tasks[u].nonce <= nonces'[u]

LEMMA SavedStays ==
  ASSUME CacheTypeOK, CacheTypeOK', NEW s \in Seq(Entry), Saved(s),
         \A u \in PluginUri \ doubtful' : Newer(u)
  PROVE  Saved(s)'
<1>1. ASSUME NEW i \in DOMAIN s
      PROVE  EntryGood(s[i])'
  <2>1. PICK e : e = s[i]
    OBVIOUS
  <2>2. e.uri \in PluginUri /\ e.nonce \in Nat /\ EntryGood(e)
    BY <2>1, Entries DEF Saved
  <2>3. EntryGood(e)'
    <3> SUFFICES ASSUME e.uri \notin doubtful'
                 PROVE  /\ e.nonce <= version'[e.uri]
                        /\ e.uri \in InCall' => e.nonce <= tasks'[e.uri].nonce
                        /\ Contains(lru', e.uri) => e.nonce <= nonces'[e.uri]
      BY <2>2 DEF EntryGood
    <3>1. Newer(e.uri)
      BY <2>2
    <3>2. /\ version[e.uri] \in Nat /\ version'[e.uri] \in Nat
          /\ nonces[e.uri] \in Nat /\ nonces'[e.uri] \in Nat
          /\ e.uri \in InCall => tasks[e.uri].nonce \in Nat
      BY <2>2, Numbers, NumbersNext
    <3> QED
      BY <2>2, <3>1, <3>2 DEF EntryGood, Newer
  <2> QED
    BY <2>1, <2>3
<1> QED
  BY <1>1 DEF Saved

\* The task of u goes on, and has an effect on its own plugin and on victims only.
Affects(u) ==
  /\ InCall' = InCall /\ doubtful \subseteq doubtful' /\ version' = version
  /\ loaded /\ loaded' /\ tasks'[u].nonce = tasks[u].nonce
  /\ \A w \in PluginUri : nonces'[w] # 0 => Contains(lru', w)
  /\ \A w \in PluginUri \ {u} :
       /\ tasks'[w] = tasks[w]
       /\ nonces'[w] \in {0, nonces[w]}
       /\ Contains(lru', w) => Contains(lru, w) /\ nonces'[w] = nonces[w]
       /\ w \notin doubtful' /\ dirs'[w] # dirs[w] => w \notin InCall /\ nonces'[w] = 0
  /\ nonces'[u] \in {0, nonces[u], tasks[u].nonce}
  /\ Contains(lru', u) =>
       \/ Contains(lru, u) /\ nonces[u] = nonces'[u]
       \/ tasks[u].nonce = nonces'[u]
  /\ u \notin doubtful' /\ nonces'[u] # 0 => Vouched(u, nonces[u])'

LEMMA NoncesStayKnown ==
  ASSUME CacheInv, NEW u \in PluginUri, u \in InCall, Affects(u)
  PROVE  KnownNonces'
<1> USE DEF CacheInv
<1>1. TaskGood(u) /\ tasks[u].nonce \in Nat /\ version[u] \in Nat
  BY Numbers DEF TasksGood
<1>2. ASSUME NEW w \in PluginUri, nonces'[w] # 0, w # u
      PROVE  /\ w \notin Unversioned
             /\ w \notin doubtful' =>
                  /\ nonces'[w] <= version'[w]
                  /\ w \in InCall' => nonces'[w] <= tasks'[w].nonce
                  /\ Vouched(w, nonces[w])'
  <2>1. /\ nonces'[w] = nonces[w] /\ nonces[w] # 0 /\ tasks'[w] = tasks[w] /\ version' = version
        /\ InCall' = InCall /\ (w \notin doubtful' => w \notin doubtful /\ dirs'[w] = dirs[w])
    BY <1>2 DEF Affects
  <2> QED
    BY <1>2, <2>1 DEF KnownNonces, Vouched
<1>3. ASSUME nonces'[u] # 0
      PROVE  /\ u \notin Unversioned
             /\ u \notin doubtful' =>
                  /\ nonces'[u] <= version'[u]
                  /\ nonces'[u] <= tasks'[u].nonce
                  /\ Vouched(u, nonces[u])'
  <2>1. CASE nonces'[u] = nonces[u]
    BY <1>3, <2>1 DEF Affects, KnownNonces
  <2>2. CASE nonces'[u] = tasks[u].nonce
    BY <1>1, <1>3, <2>2 DEF Affects, TaskGood
  <2> QED
    BY <1>3, <2>1, <2>2 DEF Affects
<1>4. \A w \in PluginUri : nonces'[w] # 0 => Contains(lru', w)
  BY DEF Affects
<1> QED
  BY <1>2, <1>3, <1>4 DEF KnownNonces

LEMMA SavedStaysInTask ==
  ASSUME CacheInv, CacheTypeOK', NEW u \in PluginUri, u \in InCall, Affects(u),
         NEW s \in Seq(Entry), Saved(s)
  PROVE  Saved(s)'
<1> USE DEF CacheInv
<1>1. ASSUME NEW w \in PluginUri \ doubtful'
      PROVE  Newer(w)
  <2>1. w \notin doubtful /\ version[w] <= version'[w]
    BY Numbers DEF Affects
  <2>2. w \in InCall' => w \in InCall /\ tasks'[w].nonce = tasks[w].nonce
    BY DEF Affects
  <2>3. nonces[w] \in Nat /\ tasks[u].nonce \in Nat
    BY Numbers
  <2>4. Contains(lru', w) =>
          \/ Contains(lru, w) /\ nonces[w] <= nonces'[w]
          \/ w \in InCall /\ tasks[w].nonce <= nonces'[w]
    BY <2>3 DEF Affects
  <2> QED
    BY <2>1, <2>2, <2>4 DEF Newer
<1> QED
  BY <1>1, SavedStays

LEMMA OthersStay ==
  ASSUME CacheInv, CacheTypeOK', NEW u \in PluginUri, u \in InCall, Affects(u),
         NEW w \in InCall, w # u
  PROVE  TaskGood(w)' /\ (tasks'[w].at = "persist" => Saved(tasks[w].snapshot)')
<1> USE DEF CacheInv
<1>1. w \in PluginUri /\ tasks'[w] = tasks[w] /\ TaskGood(w)
  BY DEF Affects, InCall, TasksGood
<1>2. TaskGood(w)'
  <2>1. /\ nonces'[w] \in {0, nonces[w]} /\ version' = version
        /\ w \notin doubtful' => w \notin doubtful /\ dirs'[w] = dirs[w]
    BY <1>1 DEF Affects
  <2> QED
    BY <1>1, <2>1 DEF TaskGood
<1>3. ASSUME tasks[w].at = "persist"
      PROVE  Saved(tasks[w].snapshot)'
  <2>1. PICK s : s = tasks[w].snapshot
    OBVIOUS
  <2>2. s \in Seq(Entry) /\ Saved(s)
    BY <1>3, <2>1, Numbers DEF Task, TasksGood
  <2>3. Saved(s)'
    BY <2>2, SavedStaysInTask
  <2> QED
    BY <1>1, <2>1, <2>3
<1> QED
  BY <1>1, <1>2, <1>3

\* What is left to show of a task that goes on.
LEMMA TaskKeeps ==
  ASSUME CacheInv, CacheTypeOK', NEW u \in PluginUri, u \in InCall, Affects(u),
         Order', Victims', TaskGood(u)',
         tasks'[u].at = "persist" => Saved(tasks[u].snapshot)',
         \/ cacheFile' = cacheFile
         \/ tasks[u].at = "persist" /\ cacheFile' = tasks[u].snapshot
  PROVE  CacheInv'
<1>1. KnownNonces'
  BY NoncesStayKnown
<1>2. cacheFile' \in Seq(Entry) /\ Saved(cacheFile')
  <2>1. CASE cacheFile' = cacheFile
    BY <2>1 DEF CacheInv, CacheTypeOK, FileGood
  <2>2. CASE tasks[u].at = "persist" /\ cacheFile' = tasks[u].snapshot
    BY <2>2, Numbers DEF CacheInv, TasksGood, Task
  <2> QED
    BY <2>1, <2>2
<1>3. PICK file : file = cacheFile'
  OBVIOUS
<1>4. Saved(file)'
  BY <1>2, <1>3, SavedStaysInTask
<1>5. FileGood'
  BY <1>3, <1>4 DEF FileGood, Affects
<1>6. TasksGood'
  <2>1. InCall' = InCall
    BY DEF Affects
  <2> QED
    BY <2>1, OthersStay DEF TasksGood
<1> QED
  BY <1>1, <1>5, <1>6 DEF CacheInv

\* One task's record changes.
LEMMA TaskChanges ==
  ASSUME CacheTypeOK, NEW u \in PluginUri, NEW t \in Task,
         u \in InCall, tasks' = [tasks EXCEPT ![u] = t]
  PROVE  /\ InCall' = InCall /\ tasks'[u] = t
         /\ tasks' \in [PluginUri -> Task \cup {NoTask}]
         /\ \A w \in PluginUri : w # u => tasks'[w] = tasks[w]
         /\ (t.at = "evict" => t.victim \in PluginUri) =>
              \A w \in PluginUri : tasks'[w] # NoTask /\ tasks'[w].at = "evict" =>
                                     tasks'[w].victim \in PluginUri
<1>1. /\ tasks'[u] = t /\ \A w \in PluginUri : w # u => tasks'[w] = tasks[w]
      /\ tasks' \in [PluginUri -> Task \cup {NoTask}]
  BY DEF CacheTypeOK
<1>2. t # NoTask
  BY NoTaskIsNone
<1>3. InCall' = InCall
  BY <1>1, <1>2 DEF InCall
<1> QED
  BY <1>1, <1>3 DEF CacheTypeOK

-----------------------------------------------------------------------------
(* The steps of a task.                                                    *)

\* A step that neither evicts nor begins to write.
LEMMA TaskMoves ==
  ASSUME CacheInv, NEW u \in PluginUri, u \in InCall, tasks[u].at # "evict",
         NEW t \in Task, tasks' = [tasks EXCEPT ![u] = t],
         t.nonce = tasks[u].nonce, t.at \notin {"evict", "persist"},
         UNCHANGED <<version, nonces, loaded, doubtful>>,
         lru' \in Seq(PluginUri), IsInjective(lru'), Len(lru') <= Len(lru),
         \A w : Contains(lru', w) <=> Contains(lru, w),
         dirs' \in [PluginUri -> Versions], \A w \in PluginUri : w # u => dirs'[w] = dirs[w],
         u \notin doubtful /\ nonces[u] # 0 => Vouched(u, nonces[u])',
         TaskGood(u)',
         \/ cacheFile' = cacheFile
         \/ tasks[u].at = "persist" /\ cacheFile' = tasks[u].snapshot
  PROVE  CacheInv'
<1> USE DEF CacheInv
<1>1. /\ InCall' = InCall /\ tasks'[u] = t
      /\ tasks' \in [PluginUri -> Task \cup {NoTask}]
      /\ \A w \in PluginUri : w # u => tasks'[w] = tasks[w]
      /\ \A w \in PluginUri : tasks'[w] # NoTask /\ tasks'[w].at = "evict" =>
                                tasks'[w].victim \in PluginUri
  BY TaskChanges
<1>2. CacheTypeOK'
  <2>1. cacheFile' \in Seq(Entry)
    BY Numbers DEF CacheTypeOK, Task
  <2> QED
    BY <1>1, <2>1 DEF CacheTypeOK
<1>3. \A w \in PluginUri : TaskAt(w, "evict")' <=> TaskAt(w, "evict")
  BY <1>1 DEF TaskAt
<1>4. Order'
  <2>1. Len(lru) \in Nat /\ Len(lru') \in Nat
    BY LenProperties DEF CacheTypeOK
  <2>2. Len(lru') > MaxPlugins => Len(lru) > MaxPlugins
    BY <2>1, CacheAssumption
  <2> QED
    BY <1>3, <2>2 DEF Order
<1>5. Victims'
  <2>1. \A w \in PluginUri : TaskAt(w, "evict") => tasks'[w] = tasks[w]
    BY <1>1 DEF TaskAt
  <2> QED
    BY <1>1, <1>3, <2>1 DEF Victims
<1>6. Affects(u)
  BY <1>1 DEF Affects, Order, KnownNonces
<1>7. tasks'[u].at # "persist"
  BY <1>1
<1> QED
  BY <1>2, <1>4, <1>5, <1>6, <1>7, TaskKeeps

LEMMA Moved ==
  ASSUME CacheTypeOK, NEW u \in PluginUri, u \in InCall,
         NEW at \in {"copy", "hash", "done", "failed"}, NEW t, t = [tasks[u] EXCEPT !.at = at]
  PROVE  t \in Task /\ t.nonce = tasks[u].nonce /\ t.at = at
BY Numbers DEF Task

\* A task whose plugin is cached, or begins to be copied.
LEMMA SyncingKeeps ==
  ASSUME CacheInv, NEW u \in PluginUri, SyncPlugin(u)
  PROVE  CacheInv'
<1> USE DEF CacheInv
<1>1. /\ u \in InCall /\ tasks[u].at = "begin"
      /\ UNCHANGED <<version, nonces, loaded, dirs, cacheFile, doubtful>>
  BY DEF SyncPlugin, TaskAt
<1> DEFINE hit == tasks[u].nonce # 0 /\ nonces[u] = tasks[u].nonce
<1>2. PICK at \in {"copy", "done"} : at = IF hit THEN "done" ELSE "copy"
  OBVIOUS
<1>3. PICK t : t = [tasks[u] EXCEPT !.at = at]
  OBVIOUS
<1>4. tasks' = [tasks EXCEPT ![u] = t] /\ lru' = IF hit THEN Touched(lru, u) ELSE lru
  BY <1>2, <1>3 DEF SyncPlugin, MoveTo
<1>5. t \in Task /\ t.nonce = tasks[u].nonce /\ t.at = at
  BY <1>1, <1>3, Moved
<1>6. /\ InCall' = InCall /\ tasks'[u] = t
  BY <1>1, <1>4, <1>5, TaskChanges
<1>7. lru \in Seq(PluginUri) /\ IsInjective(lru) /\ Len(lru) \in Nat
  BY LenProperties DEF Order, CacheTypeOK
<1>8. hit => Contains(lru, u)
  BY DEF KnownNonces
<1>9. /\ lru' \in Seq(PluginUri) /\ IsInjective(lru') /\ Len(lru') <= Len(lru)
      /\ \A w : Contains(lru', w) <=> Contains(lru, w)
  <2>1. PICK q : q = Touched(lru, u)
    OBVIOUS
  <2>2. CASE hit
    <3>1. /\ q \in Seq(PluginUri) /\ IsInjective(q) /\ Len(q) <= Len(lru)
          /\ \A w : Contains(q, w) <=> Contains(lru, w) \/ w = u
      BY <1>7, <1>8, <2>1, <2>2, OrderTouched
    <3> QED
      BY <1>4, <1>8, <2>1, <2>2, <3>1
  <2>3. CASE ~hit
    BY <1>4, <1>7, <2>3
  <2> QED
    BY <2>2, <2>3
<1>10. /\ version[u] \in Nat /\ nonces[u] \in Nat /\ dirs[u] \in Nat /\ tasks[u].nonce \in Nat
  BY <1>1, Numbers
<1>11. u \notin doubtful /\ nonces[u] # 0 => Vouched(u, nonces[u]) /\ Vouched(u, nonces[u])'
  BY <1>1, <1>5, <1>6 DEF KnownNonces, Vouched
<1>12. TaskGood(u)'
  <2>1. TaskGood(u)
    BY <1>1 DEF TasksGood
  <2>2. hit /\ u \notin doubtful => dirs[u] # 0 /\ dirs[u] >= tasks[u].nonce
    BY <1>1, <1>10, <1>11 DEF Vouched
  <2> QED
    BY <1>1, <1>2, <1>5, <1>6, <2>1, <2>2 DEF TaskGood
<1>13. /\ dirs' \in [PluginUri -> Versions] /\ \A w \in PluginUri : w # u => dirs'[w] = dirs[w]
       /\ t.at \notin {"evict", "persist"}
  BY <1>1, <1>5 DEF CacheTypeOK
<1> HIDE DEF hit
<1> QED
  BY <1>1, <1>4, <1>5, <1>9, <1>11, <1>12, <1>13, TaskMoves

\* A task that goes on without the order of the cache.
LEMMA TaskGoesOn ==
  ASSUME CacheInv, NEW u \in PluginUri, u \in InCall, tasks[u].at # "evict",
         NEW t \in Task, tasks' = [tasks EXCEPT ![u] = t],
         t.nonce = tasks[u].nonce, t.at \in {"hash", "done", "failed"},
         UNCHANGED <<version, nonces, lru, loaded, doubtful>>,
         dirs' \in [PluginUri -> Versions], \A w \in PluginUri : w # u => dirs'[w] = dirs[w],
         u \notin doubtful =>
           /\ dirs'[u] = dirs[u] \/ dirs'[u] = version[u] \/ tasks[u].at = "copy"
           /\ t.at # "failed" => dirs'[u] # 0 /\ dirs'[u] >= t.nonce,
         \/ cacheFile' = cacheFile
         \/ tasks[u].at = "persist" /\ cacheFile' = tasks[u].snapshot
  PROVE  CacheInv'
<1> USE DEF CacheInv
<1>1. InCall' = InCall /\ tasks'[u] = t
  BY TaskChanges
<1>2. /\ version[u] \in Nat /\ nonces[u] \in Nat /\ dirs[u] \in Nat /\ t.nonce \in Nat
      /\ dirs'[u] \in Nat
  BY Numbers DEF Versions
<1>3. TaskGood(u)
  BY DEF TasksGood
<1>4. ASSUME u \notin doubtful, nonces[u] # 0
      PROVE  Vouched(u, nonces[u])'
  <2>1. nonces[u] <= version[u] /\ nonces[u] <= t.nonce /\ Vouched(u, nonces[u])
    BY <1>4 DEF KnownNonces
  <2>2. CASE dirs'[u] = dirs[u]
    BY <1>1, <1>4, <2>1, <2>2 DEF Vouched
  <2>3. CASE dirs'[u] = version[u]
    BY <1>1, <1>2, <2>1, <2>3 DEF Vouched
  <2>4. CASE tasks[u].at = "copy"
    <3>1. nonces[u] < t.nonce /\ nonces[u] < version[u]
      BY <1>2, <1>3, <1>4, <2>1, <2>4 DEF TaskGood
    <3> QED
      BY <1>1, <3>1 DEF Vouched
  <2> QED
    BY <1>4, <2>2, <2>3, <2>4
<1>5. TaskGood(u)'
  BY <1>1, <1>3 DEF TaskGood
<1>6. /\ lru' \in Seq(PluginUri) /\ IsInjective(lru') /\ Len(lru') <= Len(lru)
      /\ \A w : Contains(lru', w) <=> Contains(lru, w)
  BY LenProperties DEF CacheTypeOK, Order
<1> QED
  BY <1>4, <1>5, <1>6, TaskMoves

LEMMA CopiedKeeps ==
  ASSUME CacheInv, NEW u \in PluginUri, Copied(u)
  PROVE  CacheInv'
<1> USE DEF CacheInv
<1>1. /\ u \in InCall /\ tasks[u].at = "copy"
      /\ dirs' = [dirs EXCEPT ![u] = version[u]]
      /\ UNCHANGED <<version, nonces, lru, loaded, cacheFile, doubtful>>
  BY DEF Copied, TaskAt
<1>2. PICK t : t = [tasks[u] EXCEPT !.at = "hash"]
  OBVIOUS
<1>3. tasks' = [tasks EXCEPT ![u] = t] /\ t \in Task /\ t.nonce = tasks[u].nonce /\ t.at = "hash"
  BY <1>1, <1>2, Moved DEF Copied, MoveTo
<1>4. /\ dirs' \in [PluginUri -> Versions] /\ dirs'[u] = version[u]
      /\ \A w \in PluginUri : w # u => dirs'[w] = dirs[w]
      /\ version[u] # 0
  BY <1>1 DEF CacheTypeOK
<1>5. u \notin doubtful => dirs'[u] >= t.nonce
  BY <1>1, <1>3, <1>4, Numbers DEF TasksGood, TaskGood
<1> QED
  BY <1>1, <1>3, <1>4, <1>5, TaskGoesOn

\* The nonce that is kept is older than the one that was asked for.
LEMMA CopyFailingKeeps ==
  ASSUME CacheInv, NEW u \in PluginUri, CopyFailed(u)
  PROVE  CacheInv'
<1> USE DEF CacheInv
<1>1. /\ u \in InCall /\ tasks[u].at = "copy"
      /\ UNCHANGED <<version, nonces, lru, loaded, cacheFile, doubtful>>
  BY DEF CopyFailed, TaskAt
<1>2. PICK d \in {0, dirs[u]} : dirs' = [dirs EXCEPT ![u] = d]
  BY DEF CopyFailed
<1>3. PICK t : t = [tasks[u] EXCEPT !.at = "failed"]
  OBVIOUS
<1>4. tasks' = [tasks EXCEPT ![u] = t] /\ t \in Task /\ t.nonce = tasks[u].nonce /\ t.at = "failed"
  BY <1>1, <1>3, Moved DEF CopyFailed, MoveTo
<1>5. /\ dirs' \in [PluginUri -> Versions]
      /\ \A w \in PluginUri : w # u => dirs'[w] = dirs[w]
  BY <1>2, Numbers DEF CacheTypeOK
<1> QED
  BY <1>1, <1>4, <1>5, TaskGoesOn

LEMMA HashFailingKeeps ==
  ASSUME CacheInv, NEW u \in PluginUri, HashFailed(u)
  PROVE  CacheInv'
<1> USE DEF CacheInv
<1>1. /\ u \in InCall /\ tasks[u].at = "hash"
      /\ UNCHANGED <<version, nonces, lru, loaded, dirs, cacheFile, doubtful>>
  BY DEF HashFailed, TaskAt
<1>2. PICK t : t = [tasks[u] EXCEPT !.at = "failed"]
  OBVIOUS
<1>3. tasks' = [tasks EXCEPT ![u] = t] /\ t \in Task /\ t.nonce = tasks[u].nonce /\ t.at = "failed"
  BY <1>1, <1>2, Moved DEF HashFailed, MoveTo
<1> QED
  BY <1>1, <1>3, TaskGoesOn DEF CacheTypeOK

\* The file that is written is of the cache as it is, or an older one.
LEMMA PersistingKeeps ==
  ASSUME CacheInv, NEW u \in PluginUri, Persisted(u)
  PROVE  CacheInv'
<1> USE DEF CacheInv
<1>1. /\ u \in InCall /\ tasks[u].at = "persist"
      /\ UNCHANGED <<version, nonces, lru, loaded, dirs, doubtful>>
      /\ cacheFile' \in {tasks[u].snapshot, cacheFile}
  BY DEF Persisted, TaskAt
<1>2. tasks[u] \in Task /\ <<>> \in Seq(Entry)
  BY <1>1, Numbers, EmptySeq
<1>3. PICK t : t = [tasks[u] EXCEPT !.at = "done", !.snapshot = <<>>]
  OBVIOUS
<1>4. t \in Task /\ t.nonce = tasks[u].nonce /\ t.at = "done"
  BY <1>2, <1>3 DEF Task
<1>5. tasks' = [tasks EXCEPT ![u] = t]
  BY <1>2, <1>3 DEF Persisted, Task
<1>6. u \notin doubtful => dirs[u] # 0 /\ dirs[u] >= t.nonce
  BY <1>1, <1>4 DEF TasksGood, TaskGood
<1> QED
  BY <1>1, <1>4, <1>5, <1>6, TaskGoesOn DEF CacheTypeOK

-----------------------------------------------------------------------------
(* Evictions.                                                              *)

\* What _evictIfNeeded and _persistCache need of the order and the nonces they find,
\* which a task has changed before.
Prepared(u, order, known) ==
  /\ order \in Seq(PluginUri) /\ IsInjective(order)
  /\ known \in [PluginUri -> Versions]
  /\ dirs' \in [PluginUri -> Versions]
  /\ \A w \in PluginUri \ {u} :
       /\ known[w] = nonces[w]
       /\ Contains(order, w) => Contains(lru, w)
       /\ w \notin doubtful /\ dirs'[w] # dirs[w] => w \notin InCall /\ known[w] = 0
  /\ \A w \in PluginUri : known[w] # 0 => Contains(order, w)
  /\ known[u] \in {nonces[u], tasks[u].nonce}
  /\ Contains(order, u) =>
       \/ Contains(lru, u) /\ nonces[u] = known[u]
       \/ tasks[u].nonce = known[u]
  /\ u \notin doubtful /\ known[u] # 0 => dirs'[u] >= known[u]
  /\ u \notin doubtful => dirs'[u] # 0 /\ dirs'[u] >= tasks[u].nonce

LEMMA EvictsOrPersists ==
  ASSUME CacheTypeOK, NEW u \in PluginUri, u \in InCall,
         NEW order \in Seq(PluginUri), IsInjective(order),
         NEW known \in [PluginUri -> Versions], EvictOrPersist(u, order, known)
  PROVE  \E t \in Task, v \in PluginUri, s \in Seq(Entry) :
           /\ tasks' = [tasks EXCEPT ![u] = t] /\ t.nonce = tasks[u].nonce
           /\ Len(order) > MaxPlugins => v = Head(order)
           /\ s = Snapshot(order, known)
           /\ IF Len(order) > MaxPlugins
              THEN /\ lru' = Tail(order) /\ nonces' = [known EXCEPT ![v] = 0]
                   /\ t.at = "evict" /\ t.victim = v
                   /\ doubtful' = doubtful \cup ({v} \cap InCall)
              ELSE /\ lru' = order /\ nonces' = known
                   /\ t.at = "persist" /\ t.snapshot = s /\ doubtful' = doubtful
<1>1. tasks[u] \in Task /\ tasks \in [PluginUri -> Task \cup {NoTask}]
  BY DEF CacheTypeOK, InCall
<1>2. PICK v : v = IF Len(order) > MaxPlugins THEN Head(order) ELSE u
  OBVIOUS
<1>3. PICK s : s = Snapshot(order, known)
  OBVIOUS
<1>4. v \in PluginUri /\ s \in Seq(Entry)
  <2>1. s \in Seq(Entry)
    BY <1>3, SnapshotTaken
  <2>2. ASSUME Len(order) > MaxPlugins
        PROVE  Head(order) \in PluginUri
    <3>1. order # <<>>
      BY <2>2, EmptySeq, CacheAssumption
    <3> QED
      BY <3>1, HeadTailProperties
  <2> QED
    BY <1>2, <2>1, <2>2
<1>5. CASE Len(order) > MaxPlugins
  <2>1. PICK t : t = [tasks[u] EXCEPT !.at = "evict", !.victim = v]
    OBVIOUS
  <2>2. t \in Task /\ t.at = "evict" /\ t.victim = v /\ t.nonce = tasks[u].nonce
    BY <1>1, <1>4, <2>1 DEF Task
  <2>3. tasks' = [tasks EXCEPT ![u] = t]
    BY <1>1, <1>2, <1>5, <2>1 DEF EvictOrPersist
  <2> QED
    BY <1>2, <1>3, <1>4, <1>5, <2>2, <2>3 DEF EvictOrPersist
<1>6. CASE ~(Len(order) > MaxPlugins)
  <2>1. PICK t : t = [tasks[u] EXCEPT !.at = "persist", !.victim = NoUri, !.snapshot = s]
    OBVIOUS
  <2>2. t \in Task /\ t.at = "persist" /\ t.snapshot = s /\ t.nonce = tasks[u].nonce
    BY <1>1, <1>4, <2>1 DEF Task
  <2>3. tasks' = [tasks EXCEPT ![u] = t]
    BY <1>1, <1>3, <1>6, <2>1 DEF EvictOrPersist
  <2> QED
    BY <1>2, <1>3, <1>4, <1>6, <2>2, <2>3 DEF EvictOrPersist
<1> QED
  BY <1>5, <1>6

LEMMA EvictingKeeps ==
  ASSUME CacheInv, NEW u \in PluginUri, u \in InCall, NEW order, NEW known,
         Prepared(u, order, known), EvictOrPersist(u, order, known),
         UNCHANGED <<version, loaded, cacheFile>>
  PROVE  CacheInv'
<1> USE DEF CacheInv
<1>1. /\ order \in Seq(PluginUri) /\ IsInjective(order)
      /\ known \in [PluginUri -> Versions] /\ dirs' \in [PluginUri -> Versions]
  BY DEF Prepared
<1>2. PICK t \in Task, v \in PluginUri, s \in Seq(Entry) :
           /\ tasks' = [tasks EXCEPT ![u] = t] /\ t.nonce = tasks[u].nonce
           /\ Len(order) > MaxPlugins => v = Head(order)
           /\ s = Snapshot(order, known)
           /\ IF Len(order) > MaxPlugins
              THEN /\ lru' = Tail(order) /\ nonces' = [known EXCEPT ![v] = 0]
                   /\ t.at = "evict" /\ t.victim = v
                   /\ doubtful' = doubtful \cup ({v} \cap InCall)
              ELSE /\ lru' = order /\ nonces' = known
                   /\ t.at = "persist" /\ t.snapshot = s /\ doubtful' = doubtful
  BY <1>1, EvictsOrPersists
<1>3. /\ InCall' = InCall /\ tasks'[u] = t
      /\ tasks' \in [PluginUri -> Task \cup {NoTask}]
      /\ \A w \in PluginUri : w # u => tasks'[w] = tasks[w]
      /\ \A w \in PluginUri : tasks'[w] # NoTask /\ tasks'[w].at = "evict" =>
                                tasks'[w].victim \in PluginUri
  <2>1. t.at = "evict" => t.victim \in PluginUri
    BY <1>2
  <2> QED
    BY <1>2, <2>1, TaskChanges
<1>4. /\ lru' \in Seq(PluginUri) /\ IsInjective(lru')
      /\ \A w : Contains(lru', w) <=> Contains(order, w) /\ (w = v => ~(Len(order) > MaxPlugins))
  <2>1. CASE Len(order) > MaxPlugins
    <3>1. PICK q : q = Tail(order)
      OBVIOUS
    <3>2. Len(order) > 0
      BY <1>1, <2>1, LenProperties, CacheAssumption
    <3>3. /\ q \in Seq(PluginUri) /\ IsInjective(q)
          /\ \A w : Contains(q, w) <=> Contains(order, w) /\ w # v
      BY <1>1, <1>2, <2>1, <3>1, <3>2, OrderTail
    <3> QED
      BY <1>2, <2>1, <3>1, <3>3
  <2>2. CASE ~(Len(order) > MaxPlugins)
    BY <1>1, <1>2, <2>2
  <2> QED
    BY <2>1, <2>2
<1>5. /\ nonces' \in [PluginUri -> Versions]
      /\ \A w \in PluginUri :
           nonces'[w] = IF w = v /\ Len(order) > MaxPlugins THEN 0 ELSE known[w]
  BY <1>1, <1>2, Numbers
<1>6. doubtful \subseteq doubtful' /\ doubtful' \in SUBSET PluginUri
  BY <1>2 DEF CacheTypeOK
<1>7. CacheTypeOK'
  BY <1>1, <1>3, <1>4, <1>5, <1>6 DEF CacheTypeOK
<1>8. loaded
  BY DEF Order
<1>9. Order'
  <2>1. Len(lru') > MaxPlugins => TaskAt(u, "evict")'
    BY <1>2, <1>3 DEF TaskAt
  <2> QED
    BY <1>4, <1>8, <2>1 DEF Order
<1>10. Victims'
  <2>1. ASSUME NEW w \in PluginUri, TaskAt(w, "evict")', w # u
        PROVE  \/ tasks'[w].victim \in doubtful'
               \/ tasks'[w].victim \notin InCall' /\ ~Contains(lru', tasks'[w].victim)
    <3>1. tasks'[w] = tasks[w] /\ TaskAt(w, "evict")
      BY <1>3, <2>1 DEF TaskAt
    <3>2. PICK x : x = tasks[w].victim
      OBVIOUS
    <3>3. x \in PluginUri
      BY <3>1, <3>2 DEF CacheTypeOK, TaskAt, InCall
    <3>4. x \in doubtful \/ (x \notin InCall /\ ~Contains(lru, x))
      BY <3>1, <3>2 DEF Victims
    <3>5. x \in doubtful' \/ (x \notin InCall' /\ ~Contains(lru', x))
      BY <1>3, <1>4, <1>6, <3>3, <3>4 DEF Prepared
    <3> QED
      BY <3>1, <3>2, <3>5
  <2>2. ASSUME TaskAt(u, "evict")'
        PROVE  \/ tasks'[u].victim \in doubtful'
               \/ tasks'[u].victim \notin InCall' /\ ~Contains(lru', tasks'[u].victim)
    <3>1. Len(order) > MaxPlugins
      BY <1>2, <1>3, <2>2 DEF TaskAt
    <3> QED
      BY <1>2, <1>3, <1>4, <3>1
  <2> QED
    BY <2>1, <2>2 DEF Victims
<1>11. Affects(u)
  <2>1. ASSUME NEW w \in PluginUri \ {u}
        PROVE  /\ tasks'[w] = tasks[w]
               /\ nonces'[w] \in {0, nonces[w]}
               /\ Contains(lru', w) => Contains(lru, w) /\ nonces'[w] = nonces[w]
               /\ w \notin doubtful' /\ dirs'[w] # dirs[w] => w \notin InCall /\ nonces'[w] = 0
    BY <1>3, <1>4, <1>5, <1>6 DEF Prepared
  <2>2. \A w \in PluginUri : nonces'[w] # 0 => Contains(lru', w)
    BY <1>4, <1>5 DEF Prepared
  <2>3. nonces'[u] \in {0, nonces[u], tasks[u].nonce}
    BY <1>5 DEF Prepared
  <2>4. Contains(lru', u) =>
          \/ Contains(lru, u) /\ nonces[u] = nonces'[u]
          \/ tasks[u].nonce = nonces'[u]
    BY <1>4, <1>5 DEF Prepared
  <2>5. u \notin doubtful' /\ nonces'[u] # 0 => Vouched(u, nonces[u])'
    BY <1>5, <1>6 DEF Prepared, Vouched
  <2> QED
    BY <1>2, <1>3, <1>6, <1>8, <2>1, <2>2, <2>3, <2>4, <2>5 DEF Affects
<1>12. TaskGood(u)'
  <2>1. TaskGood(u)
    BY DEF TasksGood
  <2>2. u \notin doubtful' => dirs'[u] # 0 /\ dirs'[u] >= t.nonce
    BY <1>2, <1>6 DEF Prepared
  <2> QED
    BY <1>2, <1>3, <1>6, <2>1, <2>2 DEF TaskGood
<1>13. ASSUME tasks'[u].at = "persist"
       PROVE  Saved(tasks[u].snapshot)'
  <2>1. ~(Len(order) > MaxPlugins) /\ lru' = order /\ nonces' = known /\ tasks'[u].snapshot = s
    BY <1>2, <1>3, <1>13
  <2>2. /\ Len(s) <= Len(order) /\ UrisOnce(s)
        /\ \A i \in DOMAIN s : Contains(order, s[i].uri) /\ s[i].nonce = known[s[i].uri]
    BY <1>1, <1>2, SnapshotTaken
  <2>3. Len(s) <= MaxPlugins
    BY <1>1, <2>1, <2>2, LenProperties, CacheAssumption
  <2>4. KnownNonces'
    BY <1>11, NoncesStayKnown
  <2>5. ASSUME NEW i \in DOMAIN s
        PROVE  EntryGood(s[i])'
    <3>1. PICK e : e = s[i]
      OBVIOUS
    <3>2. e.uri \in PluginUri /\ e.nonce \in Nat \ {0} /\ e.nonce = nonces'[e.uri]
      BY <2>1, <2>2, <3>1, Entries
    <3>3. EntryGood(e)'
      BY <2>4, <3>2 DEF KnownNonces, EntryGood
    <3> QED
      BY <3>1, <3>3
  <2>6. Saved(s)'
    BY <2>2, <2>3, <2>5 DEF Saved
  <2> QED
    BY <2>1, <2>6
<1> QED
  BY <1>7, <1>9, <1>10, <1>11, <1>12, <1>13, TaskKeeps

LEMMA HashedKeeps ==
  ASSUME CacheInv, NEW u \in PluginUri, Hashed(u)
  PROVE  CacheInv'
<1> USE DEF CacheInv
<1>1. PICK order : order = Touched(lru, u)
  OBVIOUS
<1>2. PICK known : known = IF tasks[u].nonce = 0 THEN nonces ELSE [nonces EXCEPT ![u] = tasks[u].nonce]
  OBVIOUS
<1>3. /\ u \in InCall /\ tasks[u].at = "hash" /\ EvictOrPersist(u, order, known)
      /\ UNCHANGED <<version, loaded, dirs, cacheFile>>
  BY <1>1, <1>2 DEF Hashed, TaskAt
<1>4. lru \in Seq(PluginUri) /\ IsInjective(lru)
  BY DEF Order, CacheTypeOK
<1>5. /\ order \in Seq(PluginUri) /\ IsInjective(order)
      /\ \A w : Contains(order, w) <=> Contains(lru, w) \/ w = u
  BY <1>1, <1>4, OrderTouched
<1>6. tasks[u].nonce \in Versions /\ TaskGood(u) /\ dirs[u] \in Nat
  BY <1>3, Numbers DEF Task, TasksGood
<1>7. tasks[u].nonce = 0 => nonces[u] = 0
  BY <1>6 DEF TaskGood, KnownNonces
<1>8. /\ known \in [PluginUri -> Versions] /\ known[u] = tasks[u].nonce
      /\ \A w \in PluginUri \ {u} : known[w] = nonces[w]
  BY <1>2, <1>6, <1>7 DEF CacheTypeOK
<1>9. u \notin doubtful => dirs[u] # 0 /\ dirs[u] >= tasks[u].nonce
  BY <1>3, <1>6 DEF TaskGood
<1>10. Prepared(u, order, known)
  BY <1>3, <1>5, <1>8, <1>9 DEF Prepared, CacheTypeOK, KnownNonces
<1> QED
  BY <1>3, <1>10, EvictingKeeps

\* The victim is not in the order, and its nonce is forgotten.
LEMMA EvictedKeeps ==
  ASSUME CacheInv, NEW u \in PluginUri, Evicted(u)
  PROVE  CacheInv'
<1> USE DEF CacheInv
<1>1. PICK v : v = tasks[u].victim
  OBVIOUS
<1>2. /\ u \in InCall /\ tasks[u].at = "evict" /\ EvictOrPersist(u, lru, nonces)
      /\ UNCHANGED <<version, loaded, cacheFile>>
  BY DEF Evicted, TaskAt
<1>3. PICK d \in {0, dirs[v]} : dirs' = [dirs EXCEPT ![v] = d]
  BY <1>1 DEF Evicted
<1>4. v \in PluginUri /\ (v \in doubtful \/ (v \notin InCall /\ ~Contains(lru, v)))
  BY <1>1, <1>2 DEF Victims, TaskAt, CacheTypeOK, InCall
<1>5. /\ dirs' \in [PluginUri -> Versions]
      /\ \A w \in PluginUri : w # v => dirs'[w] = dirs[w]
  BY <1>3, <1>4, Numbers DEF CacheTypeOK
<1>6. ASSUME NEW w \in PluginUri, w \notin doubtful
      PROVE  w \in InCall \/ nonces[w] # 0 => dirs'[w] = dirs[w]
  BY <1>4, <1>5, <1>6 DEF KnownNonces
<1>7. u \notin doubtful => dirs'[u] = dirs[u] /\ dirs[u] # 0 /\ dirs[u] >= tasks[u].nonce
  BY <1>2, <1>6 DEF TasksGood, TaskGood
<1>8. u \notin doubtful /\ nonces[u] # 0 => dirs[u] >= nonces[u]
  BY <1>2, <1>7, Numbers DEF KnownNonces
<1>9. Prepared(u, lru, nonces)
  <2>1. lru \in Seq(PluginUri) /\ IsInjective(lru) /\ nonces \in [PluginUri -> Versions]
    BY DEF Order, CacheTypeOK
  <2> QED
    BY <1>5, <1>6, <1>7, <1>8, <2>1 DEF Prepared, KnownNonces
<1> QED
  BY <1>2, <1>9, EvictingKeeps

\* What the cache file says.
LEMMA FromFile ==
  ASSUME NEW file \in Seq(Entry), UrisOnce(file),
         NEW order, order = OrderIn(file), NEW known, known = NoncesIn(file)
  PROVE  /\ order \in Seq(PluginUri) /\ IsInjective(order) /\ Len(order) = Len(file)
         /\ known \in [PluginUri -> Versions]
         /\ \A i \in DOMAIN file : known[file[i].uri] = file[i].nonce
         /\ \A u \in PluginUri : known[u] # 0 =>
              Contains(order, u) /\ \E i \in DOMAIN file : file[i].uri = u
<1> USE DEF OrderIn
<1>1. Len(file) \in Nat /\ DOMAIN file = 1 .. Len(file)
  BY LenProperties
<1>2. \A i \in DOMAIN file : file[i].uri \in PluginUri /\ file[i].nonce \in Versions
  BY Entries
<1>3. order \in Seq(PluginUri)
  BY <1>1, <1>2, IsASeq
<1>4. DOMAIN order = 1 .. Len(file) /\ Len(order) = Len(file)
  BY <1>1, <1>3, LenProperties
<1>5. \A i \in DOMAIN file : order[i] = file[i].uri
  OBVIOUS
<1>6. IsInjective(order)
  BY <1>1, <1>4, <1>5 DEF IsInjective, UrisOnce
<1>7. ASSUME NEW i \in DOMAIN file
      PROVE  known[file[i].uri] = file[i].nonce
  <2>1. \A e \in ToSet(file) : e.uri = file[i].uri => e = file[i]
    BY DEF ToSet, UrisOnce
  <2>2. file[i] \in ToSet(file)
    BY DEF ToSet
  <2>3. (CHOOSE e \in ToSet(file) : e.uri = file[i].uri) = file[i]
    BY <2>1, <2>2
  <2>4. file[i].uri \in ToSet(OrderIn(file))
    BY DEF ToSet
  <2> QED
    BY <1>2, <2>3, <2>4 DEF NoncesIn
<1>8. ASSUME NEW u \in PluginUri
      PROVE  /\ known[u] \in Versions
             /\ known[u] # 0 => \E i \in DOMAIN file : file[i].uri = u
  <2>1. CASE \E i \in DOMAIN file : file[i].uri = u
    BY <1>2, <1>7, <2>1
  <2>2. CASE ~\E i \in DOMAIN file : file[i].uri = u
    BY <2>2, CacheAssumption DEF Versions, NoncesIn, ToSet
  <2> QED
    BY <2>1, <2>2
<1>9. known \in [PluginUri -> Versions]
  BY <1>8 DEF NoncesIn
<1>10. \A u : (\E i \in DOMAIN file : file[i].uri = u) => Contains(order, u)
  BY <1>1, <1>4, <1>5 DEF Contains
<1> QED
  BY <1>3, <1>4, <1>6, <1>7, <1>8, <1>9, <1>10

-----------------------------------------------------------------------------
(* The other steps.                                                        *)

\* A client that changes a plugin.
LEMMA EditingKeeps ==
  ASSUME CacheInv, ClientEdits
  PROVE  CacheInv'
<1> USE DEF CacheInv
<1>1. PICK u \in PluginUri, v \in Versions \ {0} :
        /\ version' = [version EXCEPT ![u] = v]
        /\ doubtful' = IF v < version[u] THEN doubtful \cup {u} ELSE doubtful
        /\ UNCHANGED <<nonces, lru, loaded, tasks, dirs, cacheFile>>
  BY DEF ClientEdits
<1>2. InCall' = InCall /\ \A w, at : TaskAt(w, at)' = TaskAt(w, at)
  BY <1>1 DEF InCall, TaskAt
<1>3. /\ version' \in [PluginUri -> Versions \ {0}]
      /\ doubtful \subseteq doubtful' /\ doubtful' \in SUBSET PluginUri
  BY <1>1 DEF CacheTypeOK
<1>4. CacheTypeOK'
  BY <1>1, <1>3 DEF CacheTypeOK
<1>5. ASSUME NEW w \in PluginUri, w \notin doubtful'
      PROVE  w \notin doubtful /\ \A n \in Nat : n <= version[w] => n <= version'[w]
  <2>1. version[w] \in Nat /\ version'[w] \in Nat
    BY <1>4, Numbers, NumbersNext
  <2>2. version[w] <= version'[w]
    <3>1. CASE w = u
      <4>1. version'[w] = v /\ ~(v < version[w])
        BY <1>1, <1>5, <3>1 DEF CacheTypeOK
      <4> QED
        BY <2>1, <4>1
    <3>2. CASE w # u
      BY <1>1, <2>1, <3>2 DEF CacheTypeOK
    <3> QED
      BY <3>1, <3>2
  <2> QED
    BY <1>3, <1>5, <2>1, <2>2
<1>6. Order' /\ Victims'
  BY <1>1, <1>2, <1>3 DEF Order, Victims
<1>7. ASSUME NEW w \in PluginUri, w \notin doubtful', NEW n \in Nat, Vouched(w, n)
      PROVE  Vouched(w, n)'
  <2>1. version[w] \in Nat /\ version'[w] \in Nat /\ version[w] <= version'[w]
    BY <1>4, <1>5, <1>7, Numbers, NumbersNext
  <2> QED
    BY <1>1, <1>2, <1>7, <2>1 DEF Vouched
<1>8. KnownNonces'
  BY <1>1, <1>2, <1>5, <1>7, Numbers DEF KnownNonces
<1>9. ASSUME NEW s \in Seq(Entry), Saved(s)
      PROVE  Saved(s)'
  <2>1. ASSUME NEW w \in PluginUri \ doubtful'
        PROVE  Newer(w)
    <3>1. w \notin doubtful /\ version[w] <= version'[w] /\ nonces[w] <= nonces[w]
      BY <1>5, Numbers
    <3> QED
      BY <1>1, <1>2, <3>1 DEF Newer
  <2> QED
    BY <1>4, <1>9, <2>1, SavedStays
<1>10. FileGood'
  <2>1. PICK file \in Seq(Entry) : file = cacheFile
    BY DEF CacheTypeOK
  <2>2. Saved(file)'
    BY <1>9, <2>1 DEF FileGood
  <2>3. ASSUME ~loaded, NEW i \in DOMAIN file, file[i].uri \notin doubtful'
        PROVE  Vouched(file[i].uri, file[i].nonce)'
    <3>1. PICK e : e = file[i]
      OBVIOUS
    <3>2. e.uri \in PluginUri /\ e.nonce \in Nat
      BY <3>1, Entries
    <3>3. Vouched(e.uri, e.nonce)
      BY <1>3, <2>1, <2>3, <3>1 DEF FileGood
    <3>4. Vouched(e.uri, e.nonce)'
      BY <1>7, <2>3, <3>1, <3>2, <3>3
    <3> QED
      BY <1>1, <1>2, <3>1, <3>4 DEF Vouched
  <2>4. file = cacheFile'
    BY <1>1, <2>1
  <2> QED
    BY <1>1, <1>2, <2>2, <2>3, <2>4 DEF FileGood, Vouched
<1>11. TasksGood'
  <2> SUFFICES ASSUME NEW w \in InCall
               PROVE  TaskGood(w)' /\ (tasks[w].at = "persist" => Saved(tasks[w].snapshot)')
    BY <1>1, <1>2 DEF TasksGood
  <2>1. w \in PluginUri /\ TaskGood(w) /\ tasks[w].nonce \in Nat /\ tasks[w] \in Task
    BY Numbers DEF TasksGood
  <2>2. TaskGood(w)'
    BY <1>1, <1>5, <2>1 DEF TaskGood
  <2>3. ASSUME tasks[w].at = "persist"
        PROVE  Saved(tasks[w].snapshot)'
    <3>1. PICK s \in Seq(Entry) : s = tasks[w].snapshot
      BY <2>1 DEF Task
    <3>2. Saved(s)'
      BY <1>9, <2>3, <3>1 DEF TasksGood
    <3> QED
      BY <1>1, <3>1, <3>2
  <2> QED
    BY <2>2, <2>3
<1> QED
  BY <1>4, <1>6, <1>8, <1>10, <1>11

LEMMA CacheLoaded ==
  ASSUME CacheInv, InCall = {}, NEW cache \in Loaded
  PROVE  /\ cache.order \in Seq(PluginUri) /\ IsInjective(cache.order)
         /\ Len(cache.order) <= MaxPlugins
         /\ cache.known \in [PluginUri -> Versions]
         /\ \A u \in PluginUri : cache.known[u] # 0 =>
              /\ u \notin Unversioned /\ Contains(cache.order, u)
              /\ u \notin doubtful =>
                   cache.known[u] <= version[u] /\ Vouched(u, cache.known[u])
         /\ \A i \in DOMAIN cacheFile :
              cacheFile[i].uri \notin doubtful /\ Contains(cache.order, cacheFile[i].uri) =>
                cacheFile[i].nonce <= cache.known[cacheFile[i].uri]
<1> USE DEF CacheInv
<1>1. CASE loaded
  <2>1. cache.order = lru /\ cache.known = nonces
    BY <1>1 DEF Loaded
  <2>2. Len(lru) <= MaxPlugins
    <3>1. Len(lru) \in Nat
      BY LenProperties DEF CacheTypeOK
    <3>2. \A u \in PluginUri : ~TaskAt(u, "evict")
      BY DEF TaskAt
    <3> QED
      BY <3>1, <3>2, CacheAssumption DEF Order
  <2> QED
    BY <2>1, <2>2 DEF Order, CacheTypeOK, KnownNonces, FileGood, Saved, EntryGood
<1>2. CASE ~loaded
  <2>1. PICK file \in {cacheFile, <<>>} :
          cache.order = OrderIn(file) /\ cache.known = NoncesIn(file)
    BY <1>2 DEF Loaded
  <2>2. file \in Seq(Entry) /\ UrisOnce(file) /\ Len(file) <= MaxPlugins
    <3>1. CASE file = cacheFile
      BY <3>1 DEF CacheTypeOK, FileGood, Saved
    <3>2. CASE file = <<>>
      <4>1. <<>> \in Seq(Entry) /\ Len(<<>>) = 0 /\ DOMAIN <<>> = {}
        BY EmptySeq
      <4> QED
        BY <3>2, <4>1, CacheAssumption DEF UrisOnce
    <3> QED
      BY <3>1, <3>2
  <2> DEFINE order == cache.order
             known == cache.known
  <2>3. /\ order \in Seq(PluginUri) /\ IsInjective(order) /\ Len(order) = Len(file)
        /\ known \in [PluginUri -> Versions]
        /\ \A i \in DOMAIN file : known[file[i].uri] = file[i].nonce
        /\ \A u \in PluginUri : known[u] # 0 =>
             Contains(order, u) /\ \E i \in DOMAIN file : file[i].uri = u
    BY <2>1, <2>2, FromFile
  <2>4. ASSUME NEW u \in PluginUri, known[u] # 0
        PROVE  /\ u \notin Unversioned /\ Contains(order, u)
               /\ u \notin doubtful => known[u] <= version[u] /\ Vouched(u, known[u])
    <3>1. PICK i \in DOMAIN file : file[i].uri = u
      BY <2>3, <2>4
    <3>2. file = cacheFile
      BY <3>1
    <3>3. EntryGood(file[i]) /\ (u \notin doubtful => Vouched(u, file[i].nonce))
      BY <1>2, <3>1, <3>2 DEF FileGood, Saved
    <3> QED
      BY <2>3, <2>4, <3>1, <3>3 DEF EntryGood
  <2>5. ASSUME NEW i \in DOMAIN cacheFile, Contains(order, cacheFile[i].uri)
        PROVE  cacheFile[i].nonce <= known[cacheFile[i].uri]
    <3>1. CASE file = cacheFile
      BY <2>3, <3>1, Entries DEF CacheTypeOK
    <3>2. CASE file = <<>>
      BY <2>3, <2>5, <3>2 DEF Contains
    <3> QED
      BY <3>1, <3>2
  <2> QED
    BY <2>2, <2>3, <2>4, <2>5
<1> QED
  BY <1>1, <1>2

LEMMA StartingKeeps ==
  ASSUME CacheInv, SyncCustomizations
  PROVE  CacheInv'
<1> USE DEF CacheInv
<1>1. InCall = {} /\ UNCHANGED <<version, dirs, cacheFile, doubtful>>
  BY DEF SyncCustomizations
<1>2. PICK cache \in Loaded, refs \in (SUBSET PluginUri) \ {{}} :
        /\ lru' = cache.order /\ nonces' = cache.known /\ loaded' = TRUE
        /\ tasks' = [u \in PluginUri |->
             IF u \notin refs THEN NoTask
             ELSE [nonce |-> IF u \in Unversioned THEN 0 ELSE version[u],
                   at |-> "begin", victim |-> NoUri, snapshot |-> <<>>]]
  BY DEF SyncCustomizations
<1>3. /\ lru' \in Seq(PluginUri) /\ IsInjective(lru') /\ Len(lru') <= MaxPlugins
      /\ Len(lru') \in Nat
      /\ nonces' \in [PluginUri -> Versions]
  BY <1>1, <1>2, CacheLoaded, LenProperties
<1>4. \A u \in PluginUri : nonces'[u] # 0 =>
        /\ u \notin Unversioned /\ Contains(lru', u)
        /\ u \notin doubtful =>
             /\ nonces'[u] <= version[u]
             /\ dirs[u] >= nonces'[u] \/ nonces'[u] < version[u]
  BY <1>1, <1>2, CacheLoaded DEF Vouched
<1>5. \A i \in DOMAIN cacheFile :
        cacheFile[i].uri \notin doubtful /\ Contains(lru', cacheFile[i].uri) =>
          cacheFile[i].nonce <= nonces'[cacheFile[i].uri]
  BY <1>1, <1>2, CacheLoaded
<1>6. /\ version \in [PluginUri -> Versions \ {0}] /\ 0 \in Versions
      /\ version \in [PluginUri -> Nat]
  BY Numbers DEF CacheTypeOK
<1>7. ASSUME NEW u \in PluginUri, u \in refs
      PROVE  /\ tasks'[u] \in Task /\ tasks'[u].at = "begin"
             /\ tasks'[u].nonce = IF u \in Unversioned THEN 0 ELSE version[u]
  <2>1. tasks'[u] = [nonce |-> IF u \in Unversioned THEN 0 ELSE version[u],
                     at |-> "begin", victim |-> NoUri, snapshot |-> <<>>]
    BY <1>2, <1>7
  <2>2. <<>> \in Seq(Entry) /\ (IF u \in Unversioned THEN 0 ELSE version[u]) \in Versions
    BY <1>6, EmptySeq
  <2> QED
    BY <2>1, <2>2 DEF Task
<1>8. \A u \in PluginUri : u \notin refs => tasks'[u] = NoTask
  BY <1>2
<1>9. InCall' = refs
  BY <1>2, <1>7, <1>8, NoTaskIsNone DEF InCall
<1>10. CacheTypeOK'
  <2>1. tasks' \in [PluginUri -> Task \cup {NoTask}]
    BY <1>2, <1>7, <1>8
  <2>2. \A u \in PluginUri : tasks'[u] # NoTask => tasks'[u].at # "evict"
    BY <1>7, <1>8
  <2> QED
    BY <1>1, <1>2, <1>3, <2>1, <2>2 DEF CacheTypeOK
<1>11. Order' /\ Victims'
  <2>1. \A u \in PluginUri : ~TaskAt(u, "evict")'
    BY <1>7, <1>9 DEF TaskAt
  <2> QED
    BY <1>2, <1>3, <2>1, CacheAssumption DEF Order, Victims
<1>12. KnownNonces'
  <2> SUFFICES ASSUME NEW u \in PluginUri, nonces'[u] # 0, u \notin doubtful
               PROVE  /\ u \in refs => nonces'[u] <= tasks'[u].nonce
                      /\ Vouched(u, nonces[u])'
    BY <1>1, <1>4, <1>9 DEF KnownNonces
  <2>1. u \in refs => tasks'[u].nonce = version[u]
    BY <1>4, <1>7
  <2> QED
    BY <1>1, <1>4, <1>9, <2>1 DEF Vouched
<1>13. FileGood'
  <2>1. ASSUME NEW i \in DOMAIN cacheFile
        PROVE  EntryGood(cacheFile[i])'
    <3>1. PICK e : e = cacheFile[i]
      OBVIOUS
    <3>2. e.uri \in PluginUri /\ EntryGood(e)
      BY <3>1, Entries DEF CacheTypeOK, FileGood, Saved
    <3>3. e.uri \notin doubtful /\ Contains(lru', e.uri) => e.nonce <= nonces'[e.uri]
      BY <1>5, <3>1
    <3>4. EntryGood(e)'
      BY <1>1, <1>7, <1>9, <3>2, <3>3 DEF EntryGood
    <3> QED
      BY <1>1, <3>1, <3>4 DEF EntryGood
  <2> QED
    BY <1>1, <1>2, <2>1 DEF FileGood, Saved, EntryGood
<1>14. TasksGood'
  <2>1. \A u \in InCall' : u \in PluginUri /\ u \in refs
    BY <1>9
  <2>2. \A u \in PluginUri : version[u] # 0 /\ version[u] <= version[u]
    BY <1>6
  <2>3. ASSUME NEW u \in InCall'
        PROVE  TaskGood(u)' /\ tasks'[u].at = "begin"
    <3>1. u \in PluginUri /\ u \in refs
      BY <2>1, <2>3
    <3>2. tasks'[u].at = "begin" /\ tasks'[u].nonce = IF u \in Unversioned THEN 0 ELSE version[u]
      BY <1>7, <3>1
    <3>3. /\ u \in Unversioned <=> tasks'[u].nonce = 0
          /\ tasks'[u].nonce <= version'[u]
      BY <1>1, <1>6, <2>2, <3>1, <3>2
    <3> QED
      BY <3>2, <3>3 DEF TaskGood
  <2> QED
    BY <2>3 DEF TasksGood
<1> QED
  BY <1>10, <1>11, <1>12, <1>13, <1>14

LEMMA ReturningKeeps ==
  ASSUME CacheInv, SyncReturns
  PROVE  CacheInv'
<1> USE DEF CacheInv
<1>1. /\ InCall # {} /\ \A u \in InCall : tasks[u].at \in {"done", "failed"}
      /\ tasks' = [u \in PluginUri |-> NoTask]
      /\ UNCHANGED <<version, nonces, lru, loaded, dirs, cacheFile, doubtful>>
  BY DEF SyncReturns
<1>2. InCall' = {} /\ \A u \in PluginUri : ~TaskAt(u, "evict") /\ ~TaskAt(u, "evict")'
  BY <1>1 DEF InCall, TaskAt
<1>3. CacheTypeOK'
  BY <1>1 DEF CacheTypeOK
<1>4. Order' /\ Victims' /\ loaded
  BY <1>1, <1>2 DEF Order, Victims
<1>5. \A u \in PluginUri, n \in Nat : Vouched(u, n) => Vouched(u, n)'
  BY <1>1, <1>2 DEF Vouched
<1>6. KnownNonces'
  BY <1>1, <1>2, <1>5, Numbers DEF KnownNonces
<1>7. FileGood'
  <2>1. PICK file \in Seq(Entry) : file = cacheFile
    BY DEF CacheTypeOK
  <2>2. \A w \in PluginUri \ doubtful' : Newer(w)
    BY <1>1, <1>2, Numbers DEF Newer
  <2>3. Saved(file)'
    BY <1>3, <2>1, <2>2, SavedStays DEF FileGood
  <2> QED
    BY <1>1, <1>4, <2>1, <2>3 DEF FileGood
<1> QED
  BY <1>2, <1>3, <1>4, <1>6, <1>7 DEF TasksGood

\* A plugin that the file lists and that is not doubtful is one that the cache knows,
\* so the file's nonce is no newer than the cache's, which vouches for the directory.
LEMMA RestartingKeeps ==
  ASSUME CacheInv, Restart
  PROVE  CacheInv'
<1> USE DEF CacheInv
<1>1. /\ loaded
      /\ nonces' = [u \in PluginUri |-> 0] /\ lru' = <<>> /\ loaded' = FALSE
      /\ tasks' = [u \in PluginUri |-> NoTask]
      /\ version' = version
      /\ doubtful' = doubtful \cup (ToSet(OrderIn(cacheFile')) \ ToSet(lru))
  BY DEF Restart
<1>2. PICK lost \in SUBSET {u \in PluginUri : TaskAt(u, "copy")} :
        dirs' = [u \in PluginUri |-> IF u \in lost THEN 0 ELSE dirs[u]]
  BY DEF Restart
<1>3. \/ cacheFile' = cacheFile
      \/ \E w \in PluginUri : TaskAt(w, "persist") /\ cacheFile' = tasks[w].snapshot
  BY DEF Restart
<1>4. PICK file : file = cacheFile'
  OBVIOUS
<1>5. file \in Seq(Entry) /\ Saved(file)
  <2>1. CASE file = cacheFile
    BY <2>1 DEF FileGood, CacheTypeOK
  <2>2. CASE \E w \in PluginUri : TaskAt(w, "persist") /\ file = tasks[w].snapshot
    BY <2>2, Numbers DEF TaskAt, Task, TasksGood
  <2> QED
    BY <1>3, <1>4, <2>1, <2>2
<1>6. InCall' = {} /\ \A u \in PluginUri : ~TaskAt(u, "evict")'
  BY <1>1 DEF InCall, TaskAt
<1>7. lru' \in Seq(PluginUri) /\ Len(lru') = 0 /\ DOMAIN lru' = {}
  BY <1>1, EmptySeq
<1>8. 0 \in Versions /\ version \in [PluginUri -> Nat] /\ nonces \in [PluginUri -> Nat]
      /\ dirs \in [PluginUri -> Nat]
  BY Numbers
<1>9. \A i \in DOMAIN file : file[i].uri \in PluginUri /\ file[i].nonce \in Nat \ {0}
  BY <1>5, Entries
<1>10. ToSet(OrderIn(file)) \subseteq PluginUri /\ \A i \in DOMAIN file : file[i].uri \in ToSet(OrderIn(file))
  BY <1>9 DEF ToSet, OrderIn
<1>11. CacheTypeOK'
  <2>1. dirs' \in [PluginUri -> Versions]
    BY <1>2, <1>8 DEF CacheTypeOK
  <2>2. doubtful' \in SUBSET PluginUri
    BY <1>1, <1>4, <1>10 DEF CacheTypeOK
  <2>3. nonces' \in [PluginUri -> Versions]
    BY <1>1, <1>8
  <2> QED
    BY <1>1, <1>4, <1>5, <1>7, <2>1, <2>2, <2>3 DEF CacheTypeOK
<1>12. Order' /\ Victims'
  BY <1>1, <1>6, <1>7, CacheAssumption DEF Order, Victims, IsInjective
<1>13. KnownNonces'
  BY <1>1 DEF KnownNonces
<1>14. ASSUME NEW u \in PluginUri, u \notin doubtful, nonces[u] # 0
       PROVE  dirs'[u] >= nonces[u] \/ nonces[u] < version[u]
  <2>1. CASE u \in lost
    <3>1. TaskAt(u, "copy") /\ u \in InCall
      BY <2>1 DEF TaskAt
    <3>2. TaskGood(u) /\ tasks[u].nonce \in Nat
      BY <3>1, Numbers DEF TasksGood
    <3> QED
      BY <1>8, <1>14, <3>1, <3>2 DEF TaskGood, KnownNonces, TaskAt
  <2>2. CASE u \notin lost
    BY <1>2, <1>8, <1>14, <2>2 DEF KnownNonces, Vouched
  <2> QED
    BY <2>1, <2>2
<1>15. Saved(file)'
  <2>1. ASSUME NEW w \in PluginUri \ doubtful'
        PROVE  Newer(w)
    <3>1. w \notin doubtful /\ version[w] <= version'[w] /\ ~Contains(lru', w)
      BY <1>1, <1>7, <1>8 DEF Contains
    <3> QED
      BY <1>6, <3>1 DEF Newer
  <2> QED
    BY <1>5, <1>11, <2>1, SavedStays
<1>16. ASSUME NEW i \in DOMAIN file, file[i].uri \notin doubtful'
       PROVE  Vouched(file[i].uri, file[i].nonce)'
  <2>1. PICK e : e = file[i]
    OBVIOUS
  <2>2. e.uri \in PluginUri /\ e.nonce \in Nat \ {0} /\ EntryGood(e)
    BY <1>5, <1>9, <2>1 DEF Saved
  <2>3. e.uri \notin doubtful /\ e.uri \in ToSet(lru)
    BY <1>1, <1>4, <1>10, <1>16, <2>1
  <2>4. Contains(lru, e.uri)
    <3>1. DOMAIN lru = 1 .. Len(lru)
      BY LenProperties DEF CacheTypeOK
    <3> QED
      BY <2>3, <3>1 DEF ToSet, Contains
  <2>5. e.nonce <= nonces[e.uri]
    BY <2>2, <2>3, <2>4 DEF EntryGood
  <2>6. nonces[e.uri] # 0 /\ dirs'[e.uri] \in Nat
    BY <1>2, <1>8, <2>2, <2>5
  <2>7. nonces[e.uri] <= version[e.uri]
    BY <2>2, <2>3, <2>6 DEF KnownNonces
  <2>8. dirs'[e.uri] >= e.nonce \/ e.nonce < version[e.uri]
    BY <1>8, <1>14, <2>2, <2>3, <2>5, <2>6, <2>7
  <2>9. Vouched(e.uri, e.nonce)'
    BY <1>1, <1>6, <2>8 DEF Vouched
  <2> QED
    BY <1>4, <2>1, <2>9 DEF Vouched
<1>17. FileGood'
  BY <1>4, <1>15, <1>16 DEF FileGood, Vouched
<1> QED
  BY <1>6, <1>11, <1>12, <1>13, <1>17 DEF TasksGood

-----------------------------------------------------------------------------
(* The theorems about the plugin manager                                   *)

LEMMA CacheStepKeeps ==
  CacheInv /\ [CacheNext]_cacheVars => CacheInv'
<1>1. ASSUME CacheInv, CacheNext
      PROVE  CacheInv'
  <2>1. ASSUME NEW u \in PluginUri, TaskStep(u)
        PROVE  CacheInv'
    BY <1>1, <2>1, SyncingKeeps, CopiedKeeps, CopyFailingKeeps, HashedKeeps,
       HashFailingKeeps, EvictedKeeps, PersistingKeeps DEF TaskStep
  <2> QED
    BY <1>1, <2>1, EditingKeeps, StartingKeeps, ReturningKeeps, RestartingKeeps
       DEF CacheNext
<1>2. ASSUME CacheInv, UNCHANGED cacheVars
      PROVE  CacheInv'
  <2>1. InCall' = InCall /\ \A u, at : TaskAt(u, at)' = TaskAt(u, at)
    BY <1>2 DEF cacheVars, InCall, TaskAt
  <2>2. \A u, n : Vouched(u, n)' = Vouched(u, n)
    BY <1>2, <2>1 DEF cacheVars, Vouched
  <2>3. CacheTypeOK' /\ Order' /\ Victims'
    BY <1>2, <2>1 DEF cacheVars, CacheInv, CacheTypeOK, Order, Victims
  <2>4. \A s : Saved(s)' = Saved(s)
    BY <1>2, <2>1 DEF cacheVars, Saved, EntryGood
  <2>5. KnownNonces' /\ FileGood'
    BY <1>2, <2>1, <2>2, <2>4 DEF cacheVars, CacheInv, KnownNonces, FileGood
  <2>6. \A u : TaskGood(u)' = TaskGood(u)
    BY <1>2 DEF cacheVars, TaskGood
  <2>7. TasksGood'
    BY <1>2, <2>1, <2>4, <2>6 DEF cacheVars, CacheInv, TasksGood
  <2> QED
    BY <2>3, <2>5, <2>7 DEF CacheInv
<1> QED
  BY <1>1, <1>2

LEMMA CacheStaysGood ==
  CacheSpec => []CacheInv
BY CacheInitGood, CacheStepKeeps, PTL DEF CacheSpec

\* AgentPluginManager: memory, disk and tasks keep their types, for any number of
\* plugins and any limit of the cache.
THEOREM CacheIsTyped ==
  CacheSpec => []CacheTypeOK
<1>1. CacheInv => CacheTypeOK
  BY DEF CacheInv
<1> QED
  BY <1>1, CacheStaysGood, PTL

\* However copies, hashes, deletions and writes fail, run side by side or are cut off
\* by a restart, a directory that syncCustomizations returns has the version that was
\* asked for or a later one, for every plugin whose content never went back, that no
\* call both synced and evicted, and that the file never listed without the cache
\* when the process ended.
THEOREM SyncedStaysOnDisk ==
  CacheSpec => []SyncedIsOnDisk
<1>1. CacheInv => SyncedIsOnDisk
  BY DEF CacheInv, SyncedIsOnDisk, TaskAt, TasksGood, TaskGood
<1> QED
  BY <1>1, CacheStaysGood, PTL

\* _maxPlugins bounds the cache between calls, across restarts included, and the
\* nonces that let a copy be skipped are of listed plugins.
THEOREM CacheStaysBounded ==
  CacheSpec => []CacheBounded
<1>1. CacheInv => CacheBounded
  <2> SUFFICES ASSUME CacheInv PROVE CacheBounded
    OBVIOUS
  <2>1. InCall = {} => Len(lru) <= MaxPlugins
    <3>1. Len(lru) \in Nat
      BY LenProperties DEF CacheInv, CacheTypeOK
    <3> QED
      BY <3>1, CacheAssumption DEF CacheInv, Order, TaskAt
  <2> QED
    BY <2>1 DEF CacheInv, CacheBounded, Order, KnownNonces
<1> QED
  BY <1>1, CacheStaysGood, PTL
=============================================================================
