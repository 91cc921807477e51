------------------------ MODULE SessionReducerProofs ------------------------
(***************************************************************************)
(* Facts about the session reducer for every session and every action:     *)
(* what each helper returns, and that sessionReducer keeps a session sound,*)
(* that is, well typed and with a queue in which no id occurs twice.       *)
(* Uniqueness is needed for the type: reordering a queue with a repeated   *)
(* id would leave places of the new queue unfilled.                        *)
(***************************************************************************)
EXTENDS SessionReducer, SequenceTheorems, FiniteSetTheorems,
        FunctionTheorems, NaturalsInduction, TLAPS

Sound(s) == s \in SessionState /\ UniqueIds(s.queued)

-----------------------------------------------------------------------------
(* The queue.                                                              *)

\* Every non-empty set of numbers has a least one.
LEMMA LeastExists ==
  ASSUME NEW S \in SUBSET Nat, S # {}
  PROVE  \E x \in S : \A y \in S : x <= y
<1>1. PICK x \in S : \A y \in S : ~(<<y, x>> \in OpToRel(<, Nat))
  BY NatLessThanWellFounded, WFMin
<1>2. \A y \in S : ~(y < x)
  BY <1>1 DEF OpToRel
<1> QED
  BY <1>2

\* A message that is removed is the only change of the queue.
LEMMA WithoutSound ==
  ASSUME NEW queue \in Seq(PendingMessage), UniqueIds(queue), NEW id
  PROVE  Without(queue, id) \in Seq(PendingMessage) /\ UniqueIds(Without(queue, id))
<1>1. CASE id \notin QueuedIds(queue)
  BY <1>1 DEF Without, WithoutAt
<1>2. CASE id \in QueuedIds(queue)
  <2> DEFINE k == CHOOSE k \in DOMAIN queue : queue[k].id = id
             n == Len(queue)
             new == [i \in 1 .. (n - 1) |-> IF i < k THEN queue[i] ELSE queue[i + 1]]
  <2>1. n \in Nat /\ DOMAIN queue = 1 .. n
    BY LenProperties
  <2>2. k \in 1 .. n
    BY <1>2, <2>1 DEF QueuedIds
  <2> HIDE DEF k
  <2>3. \A i \in 1 .. n : queue[i] \in PendingMessage
    BY <2>1
  <2>4. new \in [1 .. (n - 1) -> PendingMessage]
    BY <2>1, <2>2, <2>3
  <2>5. new \in Seq(PendingMessage)
    BY <2>1, <2>2, <2>4, SeqDef
  <2>6. UniqueIds(new)
    <3> SUFFICES ASSUME NEW i \in 1 .. (n - 1), NEW j \in 1 .. (n - 1),
                        new[i].id = new[j].id
                 PROVE  i = j
      BY DEF UniqueIds
    <3> DEFINE old(x) == IF x < k THEN x ELSE x + 1
    <3>1. /\ old(i) \in 1 .. n /\ old(j) \in 1 .. n
          /\ new[i] = queue[old(i)] /\ new[j] = queue[old(j)]
      BY <2>1, <2>2
    <3>2. old(i) = old(j)
      BY <2>1, <3>1 DEF UniqueIds
    <3> QED
      BY <2>1, <2>2, <3>2
  <2>7. Without(queue, id) = new
    BY <1>2 DEF Without, WithoutAt, k
  <2> QED
    BY <2>5, <2>6, <2>7
<1> QED
  BY <1>1, <1>2

LEMMA UpsertSound ==
  ASSUME NEW queue \in Seq(PendingMessage), UniqueIds(queue),
         NEW entry \in PendingMessage
  PROVE  Upsert(queue, entry) \in Seq(PendingMessage) /\ UniqueIds(Upsert(queue, entry))
<1> DEFINE n == Len(queue)
<1>1. n \in Nat /\ DOMAIN queue = 1 .. n
  BY LenProperties
<1>2. \A i \in 1 .. n : queue[i] \in PendingMessage
  BY <1>1
<1>3. CASE entry.id \in QueuedIds(queue)
  <2> DEFINE new == [i \in DOMAIN queue |->
                       IF queue[i].id = entry.id THEN entry ELSE queue[i]]
  <2>1. new \in [1 .. n -> PendingMessage]
    BY <1>1, <1>2
  <2>2. new \in Seq(PendingMessage)
    BY <1>1, <2>1, SeqDef
  <2>3. \A i \in DOMAIN queue : new[i].id = queue[i].id
    OBVIOUS
  <2>4. UniqueIds(new)
    BY <2>3 DEF UniqueIds
  <2> QED
    BY <1>3, <2>2, <2>4 DEF Upsert
<1>4. CASE entry.id \notin QueuedIds(queue)
  <2>1. /\ Append(queue, entry) \in Seq(PendingMessage)
        /\ DOMAIN Append(queue, entry) = 1 .. (n + 1)
        /\ \A i \in 1 .. n : Append(queue, entry)[i] = queue[i]
        /\ Append(queue, entry)[n + 1] = entry
    BY <1>1, AppendProperties, LenProperties
  <2>2. \A i \in 1 .. n : queue[i].id # entry.id
    BY <1>1, <1>4 DEF QueuedIds
  <2>3. UniqueIds(Append(queue, entry))
    BY <1>1, <2>1, <2>2 DEF UniqueIds
  <2> QED
    BY <1>4, <2>1, <2>3 DEF Upsert
<1> QED
  BY <1>3, <1>4

\* Entries are placed apart: a named one by the first place of its id, all others
\* behind every named one and by where they are.
LEMMA SortKeyInjective ==
  ASSUME NEW queue \in Seq(PendingMessage), UniqueIds(queue),
         NEW order \in Seq(MessageId)
  PROVE  /\ \A i \in DOMAIN queue : SortKey(queue, order, i) \in Nat
         /\ \A i, j \in DOMAIN queue :
              SortKey(queue, order, i) = SortKey(queue, order, j) => i = j
<1> DEFINE named(i) == {j \in DOMAIN order : order[j] = queue[i].id}
           key(i) == SortKey(queue, order, i)
<1>1. /\ Len(order) \in Nat /\ DOMAIN order = 1 .. Len(order)
      /\ Len(queue) \in Nat /\ DOMAIN queue = 1 .. Len(queue)
  BY LenProperties
<1>2. ASSUME NEW i \in DOMAIN queue, named(i) # {}
      PROVE  key(i) \in 1 .. Len(order) /\ order[key(i)] = queue[i].id
  <2>1. named(i) \in SUBSET Nat
    BY <1>1
  <2>2. \E j \in named(i) : \A k \in named(i) : j <= k
    BY <1>2, <2>1, LeastExists
  <2>3. key(i) = CHOOSE j \in named(i) : \A k \in named(i) : j <= k
    BY <1>2 DEF SortKey
  <2>4. key(i) \in named(i)
    BY <2>2, <2>3
  <2> QED
    BY <1>1, <2>4
<1>3. ASSUME NEW i \in DOMAIN queue, named(i) = {}
      PROVE  key(i) = Len(order) + i
  BY <1>3 DEF SortKey
<1> HIDE DEF key, named
<1>4. \A i \in DOMAIN queue : key(i) \in Nat
  BY <1>1, <1>2, <1>3
<1>5. ASSUME NEW i \in DOMAIN queue, NEW j \in DOMAIN queue, key(i) = key(j)
      PROVE  i = j
  <2>1. CASE named(i) # {} /\ named(j) # {}
    BY <1>2, <1>5, <2>1 DEF UniqueIds
  <2>2. CASE named(i) # {} /\ named(j) = {}
    BY <1>1, <1>2, <1>3, <1>5, <2>2
  <2>3. CASE named(i) = {} /\ named(j) # {}
    BY <1>1, <1>2, <1>3, <1>5, <2>3
  <2>4. CASE named(i) = {} /\ named(j) = {}
    BY <1>1, <1>3, <1>5, <2>4
  <2> QED
    BY <2>1, <2>2, <2>3, <2>4
<1> QED
  BY <1>4, <1>5 DEF key

\* Each place of the reordered queue has exactly one entry ranked for it.
LEMMA RankBijective ==
  ASSUME NEW queue \in Seq(PendingMessage), UniqueIds(queue),
         NEW order \in Seq(MessageId)
  PROVE  \A k \in DOMAIN queue :
           \E i \in DOMAIN queue : Rank(queue, order, i) = k
<1> DEFINE n == Len(queue)
           D == 1 .. n
           key(i) == SortKey(queue, order, i)
           upTo(i) == {j \in D : key(j) <= key(i)}
           rank == [i \in D |-> Cardinality(upTo(i))]
<1>1. n \in Nat /\ DOMAIN queue = D
  BY LenProperties
<1>2. /\ \A i \in D : key(i) \in Nat
      /\ \A i, j \in D : key(i) = key(j) => i = j
  BY <1>1, SortKeyInjective
<1> HIDE DEF key
<1>3. IsFiniteSet(D) /\ Cardinality(D) = n
  <2> HIDE DEF n
  <2>1. n \in Nat /\ n \in Int /\ 1 \in Int
    BY <1>1
  <2>2. IsFiniteSet(D) /\ Cardinality(D) = IF 1 > n THEN 0 ELSE n - 1 + 1
    BY ONLY <2>1, FS_Interval
  <2> QED
    BY <2>1, <2>2
<1>4. ASSUME NEW i \in D
      PROVE  /\ IsFiniteSet(upTo(i)) /\ Cardinality(upTo(i)) \in D
  <2>1. IsFiniteSet(upTo(i)) /\ Cardinality(upTo(i)) <= n
    BY <1>3, FS_Subset
  <2>2. Cardinality(upTo(i)) \in Nat
    BY <2>1, FS_CardinalityType
  <2>3. i \in upTo(i)
    BY <1>2
  <2>4. Cardinality(upTo(i)) # 0
    BY <2>1, <2>3, FS_EmptySet
  <2> QED
    BY <1>1, <2>1, <2>2, <2>4
<1>5. rank \in [D -> D]
  BY <1>4
<1>6. ASSUME NEW i \in D, NEW j \in D, rank[i] = rank[j], key(i) <= key(j)
      PROVE  i = j
  <2>1. upTo(i) \in SUBSET upTo(j)
    BY <1>2, <1>6
  <2>2. Cardinality(upTo(j)) = Cardinality(upTo(i))
    BY <1>6
  <2>3. upTo(j) = upTo(i)
    BY <1>4, <2>1, <2>2, FS_Subset
  <2>4. key(j) <= key(i)
    BY <1>2, <2>3
  <2> QED
    BY <1>2, <1>6, <2>4
<1>7. \A i, j \in D : rank[i] = rank[j] => i = j
  BY <1>2, <1>6
<1>8. rank \in Injection(D, D)
  BY <1>5, <1>7, Fun_IsInj
<1>9. rank \in Surjection(D, D)
  BY <1>3, <1>8, FS_Injection
<1>10. \A k \in D : \E i \in D : rank[i] = k
  BY <1>9 DEF Surjection
<1>11. \A i \in D : Rank(queue, order, i) = rank[i]
  BY <1>1 DEF Rank, key
<1> QED
  BY <1>1, <1>10, <1>11

\* A reordered queue holds the same number of messages, all of them queued before,
\* and none of them twice.
LEMMA ReorderedSound ==
  ASSUME NEW queue \in Seq(PendingMessage), UniqueIds(queue),
         NEW order \in Seq(MessageId)
  PROVE  Reordered(queue, order) \in Seq(PendingMessage)
         /\ UniqueIds(Reordered(queue, order))
<1> DEFINE n == Len(queue)
           at(k) == CHOOSE i \in DOMAIN queue : Rank(queue, order, i) = k
           new == [k \in DOMAIN queue |-> queue[at(k)]]
<1>1. n \in Nat /\ DOMAIN queue = 1 .. n
  BY LenProperties
<1>2. \A k \in DOMAIN queue : at(k) \in DOMAIN queue /\ Rank(queue, order, at(k)) = k
  BY RankBijective
<1> HIDE DEF at
<1>3. new \in [1 .. n -> PendingMessage]
  BY <1>1, <1>2
<1>4. new \in Seq(PendingMessage)
  BY <1>1, <1>3, SeqDef
<1>5. UniqueIds(new)
  BY <1>2 DEF UniqueIds
<1>6. Reordered(queue, order) = new
  BY DEF Reordered, at
<1> QED
  BY <1>4, <1>5, <1>6

-----------------------------------------------------------------------------
(* Parts and turns.                                                        *)

\* The parts of the active turn may be replaced by any others.
LEMMA NewPartsSound ==
  ASSUME NEW s, Sound(s), s.activeTurn # None,
         NEW parts \in Seq(Part)
  PROVE  Sound([s EXCEPT !.activeTurn.parts = parts])
<1>1. s \in SessionState /\ s.activeTurn \in ActiveTurn
  BY DEF Sound, SessionState
<1>2. [s.activeTurn EXCEPT !.parts = parts] \in ActiveTurn
  BY <1>1 DEF ActiveTurn
<1> QED
  BY <1>1, <1>2 DEF Sound, SessionState

\* Parts changed one by one are parts again.
LEMMA MappedParts ==
  ASSUME NEW parts \in Seq(Part), NEW new,
         DOMAIN new = DOMAIN parts, new = [i \in DOMAIN new |-> new[i]],
         \A i \in DOMAIN parts : new[i] \in Part
  PROVE  new \in Seq(Part)
<1>1. Len(parts) \in Nat /\ DOMAIN parts = 1 .. Len(parts)
  BY LenProperties
<1>2. new \in [1 .. Len(parts) -> Part]
  BY <1>1
<1> QED
  BY <1>1, <1>2, SeqDef

LEMMA ActivePartsType ==
  ASSUME NEW s, Sound(s), s.activeTurn # None
  PROVE  /\ s.activeTurn.parts \in Seq(Part)
         /\ \A i \in DOMAIN s.activeTurn.parts : s.activeTurn.parts[i] \in Part
<1>1. s.activeTurn.parts \in Seq(Part)
  BY DEF Sound, SessionState, ActiveTurn
<1> QED
  BY <1>1, LenProperties

LEMMA SettleType ==
  ASSUME NEW part \in Part
  PROVE  Settle(part) \in Part
BY DEF Settle, Settled, Part, TextPart, ToolPart, TextKind, ToolCallStatus

\* Ending a turn moves it to the history, whatever parts it has.
LEMMA EndTurnSound ==
  ASSUME NEW s, Sound(s), NEW t,
         NEW turnState \in {"complete", "cancelled", "error"},
         NEW status \in {"idle", "error"}
  PROVE  Sound(EndTurn(s, t, turnState, status))
<1>1. CASE ~IsActive(s, t)
  BY <1>1 DEF EndTurn
<1>2. CASE IsActive(s, t)
  <2> DEFINE a == s.activeTurn
             settled == [i \in DOMAIN a.parts |-> Settle(a.parts[i])]
             turn == [id |-> a.id, message |-> a.message, parts |-> settled,
                      usage |-> a.usage, state |-> turnState]
  <2>1. s.activeTurn # None
    BY <1>2 DEF IsActive
  <2>2. a \in ActiveTurn
    BY <2>1 DEF Sound, SessionState
  <2>3. settled \in Seq(Part)
    BY <2>1, ActivePartsType, SettleType, MappedParts
  <2>4. turn \in Turn
    BY <2>2, <2>3 DEF Turn, ActiveTurn
  <2>5. Append(s.turns, turn) \in Seq(Turn)
    BY <2>4 DEF Sound, SessionState
  <2> QED
    BY <1>2, <2>5 DEF EndTurn, Sound, SessionState
<1> QED
  BY <1>1, <1>2

\* No updater of the tool call state machine leaves the type of a tool call.
LEMMA ToolUpdatersType ==
  ASSUME NEW part \in ToolPart, NEW ok \in BOOLEAN,
         NEW w \in {"none", "notNeeded", "userAction"}
  PROVE  /\ Ready(part, w) \in Part
         /\ Confirmed(part, ok) \in Part
         /\ Completed(part, ok) \in Part
         /\ ResultConfirmed(part, ok) \in Part
BY DEF Ready, Confirmed, Completed, ResultConfirmed, ToolCall, Part, ToolPart,
       ToolCallStatus

LEMMA ToolCallIsToolPart ==
  ASSUME NEW part \in Part, NEW c, IsToolCall(part, c)
  PROVE  part \in ToolPart
BY DEF IsToolCall, Part, TextPart, ToolPart, TextKind

\* What updateToolCallInParts does to a session, for the updated parts given.
LEMMA UpdatedCallsSound ==
  ASSUME NEW s, Sound(s), NEW t, NEW c, IsActive(s, t),
         NEW new, DOMAIN new = DOMAIN s.activeTurn.parts,
         new = [i \in DOMAIN new |-> new[i]],
         \A i \in DOMAIN new : IF IsToolCall(s.activeTurn.parts[i], c)
                              THEN new[i] \in Part
                              ELSE new[i] = s.activeTurn.parts[i]
  PROVE  Sound([s EXCEPT !.activeTurn.parts = new])
<1>1. s.activeTurn # None
  BY DEF IsActive
<1>2. new \in Seq(Part)
  BY <1>1, ActivePartsType, MappedParts
<1> QED
  BY <1>1, <1>2, NewPartsSound

LEMMA AppendTextSound ==
  ASSUME NEW s, Sound(s), NEW t, NEW kind \in TextKind, NEW p, NEW chunk \in Chunk
  PROVE  Sound(AppendText(s, t, kind, p, chunk))
<1>1. CASE ~IsActive(s, t)
  BY <1>1 DEF AppendText
<1>2. CASE IsActive(s, t)
  <2> DEFINE parts == s.activeTurn.parts
             new == [i \in DOMAIN parts |->
                       IF parts[i].kind = kind /\ parts[i].id = p
                       THEN [parts[i] EXCEPT !.content = Append(@, chunk)]
                       ELSE parts[i]]
  <2>1. s.activeTurn # None
    BY <1>2 DEF IsActive
  <2>2. ASSUME NEW i \in DOMAIN parts
        PROVE  new[i] \in Part
    <3>1. parts[i] \in Part
      BY <2>1, ActivePartsType
    <3>2. CASE parts[i].kind = kind /\ parts[i].id = p
      <4>1. parts[i] \in TextPart
        BY <3>1, <3>2 DEF Part, TextPart, ToolPart, TextKind
      <4>2. Append(parts[i].content, chunk) \in Seq(Chunk)
        BY <4>1 DEF TextPart
      <4> QED
        BY <3>2, <4>1, <4>2 DEF Part, TextPart
    <3> QED
      BY <3>1, <3>2
  <2>3. new \in Seq(Part)
    BY <2>1, <2>2, ActivePartsType, MappedParts
  <2> QED
    BY <1>2, <2>1, <2>3, NewPartsSound DEF AppendText
<1> QED
  BY <1>1, <1>2

LEMMA AppendPartSound ==
  ASSUME NEW s, Sound(s), NEW t, NEW part \in Part
  PROVE  Sound(AppendPart(s, t, part))
<1>1. CASE ~IsActive(s, t)
  BY <1>1 DEF AppendPart
<1>2. CASE IsActive(s, t)
  <2>1. s.activeTurn # None
    BY <1>2 DEF IsActive
  <2>2. Append(s.activeTurn.parts, part) \in Seq(Part)
    BY <2>1, ActivePartsType
  <2> QED
    BY <1>2, <2>1, <2>2, NewPartsSound DEF AppendPart
<1> QED
  BY <1>1, <1>2

-----------------------------------------------------------------------------
(* The reducer.                                                            *)

LEMMA TurnStartedSound ==
  ASSUME NEW s, Sound(s), NEW a \in SessionAction, a.type = "turnStarted"
  PROVE  Sound(TurnStarted(s, a))
<1>1. a.turn \in TurnId /\ a.message \in Text
  BY DEF SessionAction, TurnActionType
<1>2. [id |-> a.turn, message |-> a.message, parts |-> <<>>, usage |-> FALSE]
        \in ActiveTurn
  BY <1>1 DEF ActiveTurn
<1>3. s.queued \in Seq(PendingMessage) /\ UniqueIds(s.queued)
  BY DEF Sound, SessionState
<1>4. Without(s.queued, a.queuedId) \in Seq(PendingMessage)
      /\ UniqueIds(Without(s.queued, a.queuedId))
  BY <1>3, WithoutSound
<1> QED
  BY <1>2, <1>3, <1>4 DEF TurnStarted, Sound, SessionState

LEMMA PendingSound ==
  ASSUME NEW s, Sound(s), NEW a \in SessionAction
  PROVE  /\ a.type = "pendingMessageSet" => Sound(PendingMessageSet(s, a))
         /\ a.type = "pendingMessageRemoved" => Sound(PendingMessageRemoved(s, a))
         /\ a.type = "queuedMessagesReordered" =>
              Sound([s EXCEPT !.queued = Reordered(@, a.order)])
<1>1. s.queued \in Seq(PendingMessage) /\ UniqueIds(s.queued)
  BY DEF Sound, SessionState
<1>2. CASE a.type = "pendingMessageSet"
  <2>1. [id |-> a.id, text |-> a.text] \in PendingMessage
    BY <1>2 DEF SessionAction, TurnActionType, PendingMessage
  <2>2. Upsert(s.queued, [id |-> a.id, text |-> a.text]) \in Seq(PendingMessage)
        /\ UniqueIds(Upsert(s.queued, [id |-> a.id, text |-> a.text]))
    BY <1>1, <2>1, UpsertSound
  <2> QED
    BY <1>2, <2>1, <2>2 DEF PendingMessageSet, Sound, SessionState
<1>3. CASE a.type = "pendingMessageRemoved"
  <2>1. Without(s.queued, a.id) \in Seq(PendingMessage)
        /\ UniqueIds(Without(s.queued, a.id))
    BY <1>1, WithoutSound
  <2> QED
    BY <1>3, <2>1 DEF PendingMessageRemoved, Sound, SessionState
<1>4. CASE a.type = "queuedMessagesReordered"
  <2>1. a.order \in Seq(MessageId)
    BY <1>4 DEF SessionAction, TurnActionType
  <2>2. Reordered(s.queued, a.order) \in Seq(PendingMessage)
        /\ UniqueIds(Reordered(s.queued, a.order))
    BY <1>1, <2>1, ReorderedSound
  <2> QED
    BY <1>4, <2>2 DEF Sound, SessionState
<1> QED
  BY <1>2, <1>3, <1>4

LEMMA MetadataSound ==
  ASSUME NEW s, Sound(s), NEW a \in SessionAction,
         a.type \in {"metaChanged", "activeClientChanged", "activeClientToolsChanged",
                    "customizationsChanged", "customizationToggled"}
  PROVE  Sound(Reduce(s, a))
<1>1. CASE a.type = "metaChanged"
  <2>1. a.field \in MetaField /\ a.value \in MetaValue
    BY <1>1 DEF SessionAction, TurnActionType
  <2> QED
    BY <1>1, <2>1 DEF Reduce, Sound, SessionState
<1>2. CASE a.type = "activeClientChanged"
  <2>1. a.client \in [client : Client, tools : MetaValue \cup {None}] \cup {None}
    BY <1>2 DEF SessionAction, TurnActionType
  <2> QED
    BY <1>2, <2>1 DEF Reduce, Sound, SessionState
<1>3. CASE a.type = "activeClientToolsChanged"
  <2>1. a.tools \in MetaValue
    BY <1>3 DEF SessionAction, TurnActionType
  <2> QED
    BY <1>3, <2>1 DEF Reduce, ActiveClientToolsChanged, Sound, SessionState
<1>4. CASE a.type = "customizationsChanged"
  <2>1. a.customizations \in Customizations
    BY <1>4 DEF SessionAction, TurnActionType
  <2> QED
    BY <1>4, <2>1 DEF Reduce, Sound, SessionState
<1>5. CASE a.type = "customizationToggled"
  <2>1. a.uri \in Uri
    BY <1>5 DEF SessionAction, TurnActionType
  <2> QED
    BY <1>5, <2>1 DEF Reduce, CustomizationToggled, Sound, SessionState, Customizations
<1> QED
  BY <1>1, <1>2, <1>3, <1>4, <1>5

LEMMA ToolCallActionsSound ==
  ASSUME NEW s, Sound(s), NEW a \in SessionAction,
         a.type \in {"toolCallReady", "toolCallConfirmed", "toolCallComplete",
                    "toolCallResultConfirmed"}
  PROVE  Sound(Reduce(s, a))
<1>1. CASE a.type = "toolCallReady"
  <2> DEFINE parts == s.activeTurn.parts
             new == [i \in DOMAIN parts |->
                       IF IsToolCall(parts[i], a.tool) THEN Ready(parts[i], a.confirmed)
                       ELSE parts[i]]
  <2>1. a.confirmed \in {"none", "notNeeded", "userAction"}
    BY <1>1 DEF SessionAction, TurnActionType
  <2>2. CASE ~IsActive(s, a.turn)
    BY <1>1, <2>2 DEF Reduce, ToolCallReady, UpdateToolCall
  <2>3. CASE IsActive(s, a.turn)
    <3>1. \A i \in DOMAIN parts : IsToolCall(parts[i], a.tool) => new[i] \in Part
      BY <2>1, <2>3, ActivePartsType, ToolCallIsToolPart, ToolUpdatersType DEF IsActive
    <3>2. Sound([s EXCEPT !.activeTurn.parts = new])
      BY <2>3, <3>1, UpdatedCallsSound
    <3>3. Reduce(s, a) = [s EXCEPT !.activeTurn.parts = new]
      BY <1>1, <2>3 DEF Reduce, ToolCallReady, UpdateToolCall
    <3> QED
      BY <3>2, <3>3
  <2> QED
    BY <2>2, <2>3
<1>2. CASE a.type = "toolCallConfirmed"
  <2> DEFINE parts == s.activeTurn.parts
             new == [i \in DOMAIN parts |->
                       IF IsToolCall(parts[i], a.tool) THEN Confirmed(parts[i], a.approved)
                       ELSE parts[i]]
  <2>1. a.approved \in BOOLEAN
    BY <1>2 DEF SessionAction, TurnActionType
  <2>2. CASE ~IsActive(s, a.turn)
    BY <1>2, <2>2 DEF Reduce, ToolCallConfirmed, UpdateToolCall
  <2>3. CASE IsActive(s, a.turn)
    <3>1. \A i \in DOMAIN parts : IsToolCall(parts[i], a.tool) => new[i] \in Part
      BY <2>1, <2>3, ActivePartsType, ToolCallIsToolPart, ToolUpdatersType DEF IsActive
    <3>2. Sound([s EXCEPT !.activeTurn.parts = new])
      BY <2>3, <3>1, UpdatedCallsSound
    <3>3. Reduce(s, a) = [s EXCEPT !.activeTurn.parts = new]
      BY <1>2, <2>3 DEF Reduce, ToolCallConfirmed, UpdateToolCall
    <3> QED
      BY <3>2, <3>3
  <2> QED
    BY <2>2, <2>3
<1>3. CASE a.type = "toolCallComplete"
  <2> DEFINE parts == s.activeTurn.parts
             new == [i \in DOMAIN parts |->
                       IF IsToolCall(parts[i], a.tool) THEN Completed(parts[i], a.needsResult)
                       ELSE parts[i]]
  <2>1. a.needsResult \in BOOLEAN
    BY <1>3 DEF SessionAction, TurnActionType
  <2>2. CASE ~IsActive(s, a.turn)
    BY <1>3, <2>2 DEF Reduce, ToolCallComplete, UpdateToolCall
  <2>3. CASE IsActive(s, a.turn)
    <3>1. \A i \in DOMAIN parts : IsToolCall(parts[i], a.tool) => new[i] \in Part
      BY <2>1, <2>3, ActivePartsType, ToolCallIsToolPart, ToolUpdatersType DEF IsActive
    <3>2. Sound([s EXCEPT !.activeTurn.parts = new])
      BY <2>3, <3>1, UpdatedCallsSound
    <3>3. Reduce(s, a) = [s EXCEPT !.activeTurn.parts = new]
      BY <1>3, <2>3 DEF Reduce, ToolCallComplete, UpdateToolCall
    <3> QED
      BY <3>2, <3>3
  <2> QED
    BY <2>2, <2>3
<1>4. CASE a.type = "toolCallResultConfirmed"
  <2> DEFINE parts == s.activeTurn.parts
             new == [i \in DOMAIN parts |->
                       IF IsToolCall(parts[i], a.tool) THEN ResultConfirmed(parts[i], a.approved)
                       ELSE parts[i]]
  <2>1. a.approved \in BOOLEAN
    BY <1>4 DEF SessionAction, TurnActionType
  <2>2. CASE ~IsActive(s, a.turn)
    BY <1>4, <2>2 DEF Reduce, ToolCallResultConfirmed, UpdateToolCall
  <2>3. CASE IsActive(s, a.turn)
    <3>1. \A i \in DOMAIN parts : IsToolCall(parts[i], a.tool) => new[i] \in Part
      BY <2>1, <2>3, ActivePartsType, ToolCallIsToolPart, ToolUpdatersType DEF IsActive
    <3>2. Sound([s EXCEPT !.activeTurn.parts = new])
      BY <2>3, <3>1, UpdatedCallsSound
    <3>3. Reduce(s, a) = [s EXCEPT !.activeTurn.parts = new]
      BY <1>4, <2>3 DEF Reduce, ToolCallResultConfirmed, UpdateToolCall
    <3> QED
      BY <3>2, <3>3
  <2> QED
    BY <2>2, <2>3
<1> QED
  BY <1>1, <1>2, <1>3, <1>4

\* sessionReducer: whatever action comes, a sound session stays sound.
THEOREM ReduceSound ==
  ASSUME NEW s, Sound(s), NEW a \in SessionAction
  PROVE  Sound(Reduce(s, a))
<1>1. CASE a.type \in {"ready", "creationFailed"}
  BY <1>1 DEF Reduce, Sound, SessionState
<1>2. CASE a.type = "turnStarted"
  BY <1>2, TurnStartedSound DEF Reduce
<1>3. CASE a.type \in {"turnComplete", "turnCancelled", "error"}
  BY <1>3, EndTurnSound DEF Reduce
<1>4. CASE a.type = "usage"
  <2>1. CASE ~IsActive(s, a.turn)
    BY <1>4, <2>1 DEF Reduce
  <2>2. CASE IsActive(s, a.turn)
    <3>1. s \in SessionState /\ s.activeTurn \in ActiveTurn
      BY <2>2 DEF IsActive, Sound, SessionState
    <3>2. [s.activeTurn EXCEPT !.usage = TRUE] \in ActiveTurn
      BY <3>1 DEF ActiveTurn
    <3> QED
      BY <1>4, <2>2, <3>1, <3>2 DEF Reduce, Sound, SessionState
  <2> QED
    BY <2>1, <2>2
<1>5. CASE a.type = "responsePart"
  <2>1. a.part \in Part
    BY <1>5 DEF SessionAction, TurnActionType, Part
  <2> QED
    BY <1>5, <2>1, AppendPartSound DEF Reduce
<1>6. CASE a.type \in {"delta", "reasoning"}
  <2>1. a.chunk \in Chunk
    BY <1>6 DEF SessionAction, TurnActionType
  <2> QED
    BY <1>6, <2>1, AppendTextSound DEF Reduce, TextKind
<1>7. CASE a.type = "toolCallStart"
  <2>1. [kind |-> "toolCall", id |-> a.tool, status |-> "streaming",
         confirmed |-> "none"] \in Part
    BY <1>7 DEF SessionAction, TurnActionType, Part, ToolPart, ToolCallStatus
  <2> QED
    BY <1>7, <2>1, AppendPartSound DEF Reduce, ToolCallStart
<1>8. CASE a.type \in {"toolCallReady", "toolCallConfirmed", "toolCallComplete",
                      "toolCallResultConfirmed"}
  BY <1>8, ToolCallActionsSound
<1>9. CASE a.type \in {"metaChanged", "activeClientChanged",
                      "activeClientToolsChanged", "customizationsChanged",
                      "customizationToggled"}
  BY <1>9, MetadataSound
<1>10. CASE a.type \in {"pendingMessageSet", "pendingMessageRemoved",
                       "queuedMessagesReordered"}
  BY <1>10, PendingSound DEF Reduce
<1>11. a.type \in {"ready", "creationFailed", "turnStarted", "turnComplete",
                  "turnCancelled", "error", "usage", "responsePart", "delta",
                  "reasoning", "toolCallStart", "toolCallReady",
                  "toolCallConfirmed", "toolCallComplete",
                  "toolCallResultConfirmed", "metaChanged",
                  "activeClientChanged", "activeClientToolsChanged",
                  "customizationsChanged", "customizationToggled",
                  "pendingMessageSet", "pendingMessageRemoved",
                  "queuedMessagesReordered"}
  BY DEF SessionAction, TurnActionType
<1> QED
  BY <1>1, <1>2, <1>3, <1>4, <1>5, <1>6, <1>7, <1>8, <1>9, <1>10, <1>11

LEMMA NewSessionSound == Sound(NewSession)
BY DEF NewSession, Sound, SessionState, UniqueIds, Customizations

-----------------------------------------------------------------------------
(* What an action changes of a session, by the part of its state.          *)

\* The turns of r are those of s; the parts of the active turn may differ.
SameTurns(s, r) ==
  /\ r.turns = s.turns
  /\ r.activeTurn # None <=> s.activeTurn # None
  /\ s.activeTurn # None => r.activeTurn.id = s.activeTurn.id

SamePending(s, r) == r.queued = s.queued /\ r.steering = s.steering

\* A start puts its turn in the place of the active one, without parts.
LEMMA ReduceStart ==
  ASSUME NEW s, Sound(s), NEW a \in SessionAction, a.type = "turnStarted"
  PROVE  LET r == Reduce(s, a)
         IN /\ r.turns = s.turns
            /\ r.activeTurn # None /\ r.activeTurn.id = a.turn /\ r.activeTurn.parts = <<>>
            /\ r.steering # None => r.steering = s.steering
<1>1. Reduce(s, a) = TurnStarted(s, a)
  BY DEF Reduce
<1>2. s \in SessionState
  BY DEF Sound
<1>3. a.turn \in TurnId /\ a.message \in Text
  BY DEF SessionAction, TurnActionType
<1>4. [id |-> a.turn, message |-> a.message, parts |-> <<>>, usage |-> FALSE] \in ActiveTurn
  BY <1>3 DEF ActiveTurn
<1>5. [id |-> a.turn, message |-> a.message, parts |-> <<>>, usage |-> FALSE] # None
  BY <1>4, NoneIsNoValue
<1> QED
  BY <1>1, <1>2, <1>5 DEF TurnStarted, SessionState

\* The actions that change neither the history nor which turn is active.
TurnAction == {"delta", "reasoning", "responsePart", "toolCallStart", "usage",
               "toolCallReady", "toolCallConfirmed", "toolCallComplete",
               "toolCallResultConfirmed"}

PendingType == {"pendingMessageSet", "pendingMessageRemoved", "queuedMessagesReordered"}

MetaAction == {"ready", "creationFailed", "metaChanged", "activeClientChanged",
               "activeClientToolsChanged", "customizationsChanged", "customizationToggled"}

\* What changes neither turns nor pending messages.
LEMMA ReduceMeta ==
  ASSUME NEW s, Sound(s), NEW a \in SessionAction, a.type \in MetaAction
  PROVE  /\ Reduce(s, a).turns = s.turns /\ Reduce(s, a).activeTurn = s.activeTurn
         /\ SamePending(s, Reduce(s, a))
<1>0. s \in SessionState
  BY DEF Sound
<1>1. CASE a.type \in {"ready", "creationFailed", "metaChanged", "activeClientChanged"}
  BY <1>0, <1>1 DEF Reduce, SamePending, SessionState
<1>2. CASE a.type \in {"activeClientToolsChanged", "customizationsChanged", "customizationToggled"}
  BY <1>0, <1>2 DEF Reduce, ActiveClientToolsChanged, CustomizationToggled, SamePending, SessionState
<1> QED
  BY <1>1, <1>2 DEF MetaAction

LEMMA ReducePending ==
  ASSUME NEW s, Sound(s), NEW a \in SessionAction, a.type \in PendingType
  PROVE  Reduce(s, a).turns = s.turns /\ Reduce(s, a).activeTurn = s.activeTurn
<1>0. s \in SessionState
  BY DEF Sound
<1> QED
  BY <1>0 DEF Reduce, PendingType, PendingMessageSet, PendingMessageRemoved, SessionState

\* A session whose active turn has other parts.
WithParts(s, parts) == [s EXCEPT !.activeTurn.parts = parts]

LEMMA WithPartsProperties ==
  ASSUME NEW s, Sound(s), s.activeTurn # None, NEW parts
  PROVE  /\ WithParts(s, parts).turns = s.turns
         /\ WithParts(s, parts).queued = s.queued /\ WithParts(s, parts).steering = s.steering
         /\ WithParts(s, parts).activeTurn.id = s.activeTurn.id
         /\ WithParts(s, parts).activeTurn.parts = parts
<1>1. s \in SessionState /\ s.activeTurn \in ActiveTurn
  BY DEF Sound, SessionState
<1> QED
  BY <1>1 DEF WithParts, SessionState, ActiveTurn

\* What a turn action makes of one part of the turn, and of all its parts.
PartAfter(part, a) ==
  CASE a.type = "delta" ->
         IF part.kind = "markdown" /\ part.id = a.part
         THEN [part EXCEPT !.content = Append(@, a.chunk)] ELSE part
    [] a.type = "reasoning" ->
         IF part.kind = "reasoning" /\ part.id = a.part
         THEN [part EXCEPT !.content = Append(@, a.chunk)] ELSE part
    [] a.type = "toolCallReady" ->
         IF IsToolCall(part, a.tool) THEN Ready(part, a.confirmed) ELSE part
    [] a.type = "toolCallConfirmed" ->
         IF IsToolCall(part, a.tool) THEN Confirmed(part, a.approved) ELSE part
    [] a.type = "toolCallComplete" ->
         IF IsToolCall(part, a.tool) THEN Completed(part, a.needsResult) ELSE part
    [] a.type = "toolCallResultConfirmed" ->
         IF IsToolCall(part, a.tool) THEN ResultConfirmed(part, a.approved) ELSE part
    [] OTHER -> part

AddsPart == {"responsePart", "toolCallStart"}

Added(a) ==
  IF a.type = "responsePart" THEN a.part
  ELSE [kind |-> "toolCall", id |-> a.tool, status |-> "streaming", confirmed |-> "none"]

PartsAfter(parts, a) ==
  IF a.type \in AddsPart THEN Append(parts, Added(a))
  ELSE [i \in DOMAIN parts |-> PartAfter(parts[i], a)]

LEMMA AddedType ==
  ASSUME NEW a \in SessionAction, a.type \in AddsPart
  PROVE  Added(a) \in Part
<1>1. CASE a.type = "responsePart"
  BY <1>1 DEF SessionAction, TurnActionType, Added, Part
<1>2. CASE a.type = "toolCallStart"
  <2>1. a.tool \in ToolCallId
    BY <1>2 DEF SessionAction, TurnActionType
  <2> QED
    BY <1>2, <2>1 DEF Added, Part, ToolPart, ToolCallStatus
<1> QED
  BY <1>1, <1>2 DEF AddsPart

LEMMA PartAfterType ==
  ASSUME NEW part \in Part, NEW a \in SessionAction, a.type \in TurnAction \ AddsPart
  PROVE  PartAfter(part, a) \in Part
<1>1. CASE a.type \in {"delta", "reasoning"}
  <2>1. a.chunk \in Chunk
    BY <1>1 DEF SessionAction, TurnActionType
  <2>2. CASE part \in TextPart
    <3>1. Append(part.content, a.chunk) \in Seq(Chunk)
      BY <2>1, <2>2 DEF TextPart
    <3> QED
      BY <1>1, <2>2, <3>1 DEF PartAfter, Part, TextPart
  <2>3. CASE part \in ToolPart
    BY <1>1, <2>3 DEF PartAfter, Part, ToolPart
  <2> QED
    BY <2>2, <2>3 DEF Part
<1>2. CASE a.type \in {"toolCallReady", "toolCallConfirmed", "toolCallComplete",
                      "toolCallResultConfirmed"}
  <2>1. CASE a.type = "toolCallReady"
    <3>1. a.confirmed \in {"none", "notNeeded", "userAction"}
      BY <2>1 DEF SessionAction, TurnActionType
    <3> QED
      BY <2>1, <3>1, ToolCallIsToolPart, ToolUpdatersType DEF PartAfter
  <2>2. CASE a.type = "toolCallConfirmed"
    <3>1. a.approved \in BOOLEAN
      BY <2>2 DEF SessionAction, TurnActionType
    <3> QED
      BY <2>2, <3>1, ToolCallIsToolPart, ToolUpdatersType DEF PartAfter
  <2>3. CASE a.type = "toolCallComplete"
    <3>1. a.needsResult \in BOOLEAN
      BY <2>3 DEF SessionAction, TurnActionType
    <3> QED
      BY <2>3, <3>1, ToolCallIsToolPart, ToolUpdatersType DEF PartAfter
  <2>4. CASE a.type = "toolCallResultConfirmed"
    <3>1. a.approved \in BOOLEAN
      BY <2>4 DEF SessionAction, TurnActionType
    <3> QED
      BY <2>4, <3>1, ToolCallIsToolPart, ToolUpdatersType DEF PartAfter
  <2> QED
    BY <1>2, <2>1, <2>2, <2>3, <2>4
<1>3. CASE a.type = "usage"
  BY <1>3 DEF PartAfter
<1> QED
  BY <1>1, <1>2, <1>3 DEF TurnAction, AddsPart

\* The case of the reducer for a turn action of the active turn.
LEMMA ReduceIsPartsAfter ==
  ASSUME NEW s, Sound(s), NEW a \in SessionAction, a.type \in TurnAction, a.type # "usage",
         IsActive(s, a.turn)
  PROVE  Reduce(s, a) = WithParts(s, PartsAfter(s.activeTurn.parts, a))
<1>1. CASE a.type = "responsePart"
  BY <1>1 DEF Reduce, AppendPart, WithParts, PartsAfter, AddsPart, Added
<1>2. CASE a.type = "toolCallStart"
  BY <1>2 DEF Reduce, ToolCallStart, AppendPart, WithParts, PartsAfter, AddsPart, Added
<1>3. CASE a.type = "delta"
  BY <1>3 DEF Reduce, AppendText, WithParts, PartsAfter, AddsPart, PartAfter
<1>4. CASE a.type = "reasoning"
  BY <1>4 DEF Reduce, AppendText, WithParts, PartsAfter, AddsPart, PartAfter
<1>5. CASE a.type = "toolCallReady"
  BY <1>5 DEF Reduce, ToolCallReady, UpdateToolCall, WithParts, PartsAfter, AddsPart, PartAfter
<1>6. CASE a.type = "toolCallConfirmed"
  BY <1>6 DEF Reduce, ToolCallConfirmed, UpdateToolCall, WithParts, PartsAfter, AddsPart, PartAfter
<1>7. CASE a.type = "toolCallComplete"
  BY <1>7 DEF Reduce, ToolCallComplete, UpdateToolCall, WithParts, PartsAfter, AddsPart, PartAfter
<1>8. CASE a.type = "toolCallResultConfirmed"
  BY <1>8 DEF Reduce, ToolCallResultConfirmed, UpdateToolCall, WithParts, PartsAfter, AddsPart,
       PartAfter
<1> QED
  BY <1>1, <1>2, <1>3, <1>4, <1>5, <1>6, <1>7, <1>8 DEF TurnAction

\* A turn action changes the parts of the active turn, or nothing.
LEMMA ReduceParts ==
  ASSUME NEW s, Sound(s), NEW a \in SessionAction, a.type \in TurnAction
  PROVE  LET r == Reduce(s, a)
         IN /\ SameTurns(s, r) /\ SamePending(s, r)
            /\ ~IsActive(s, a.turn) => r = s
            /\ IsActive(s, a.turn) =>
                 r.activeTurn.parts = IF a.type = "usage" THEN s.activeTurn.parts
                                      ELSE PartsAfter(s.activeTurn.parts, a)
<1>0. s \in SessionState /\ (s.activeTurn # None => s.activeTurn \in ActiveTurn)
  BY DEF Sound, SessionState
<1>1. CASE ~IsActive(s, a.turn)
  <2>1. Reduce(s, a) = s
    BY <1>1 DEF Reduce, TurnAction, AppendPart, AppendText, UpdateToolCall, ToolCallStart,
         ToolCallReady, ToolCallConfirmed, ToolCallComplete, ToolCallResultConfirmed
  <2> QED
    BY <1>1, <2>1 DEF SameTurns, SamePending
<1>2. CASE IsActive(s, a.turn) /\ a.type = "usage"
  <2>1. Reduce(s, a) = [s EXCEPT !.activeTurn.usage = TRUE]
    BY <1>2 DEF Reduce
  <2>2. [s.activeTurn EXCEPT !.usage = TRUE] \in ActiveTurn
    BY <1>0, <1>2 DEF IsActive, ActiveTurn
  <2>3. /\ Reduce(s, a).activeTurn = [s.activeTurn EXCEPT !.usage = TRUE]
        /\ Reduce(s, a).turns = s.turns
        /\ Reduce(s, a).queued = s.queued /\ Reduce(s, a).steering = s.steering
    BY <1>0, <2>1 DEF SessionState
  <2>4. /\ Reduce(s, a).activeTurn # None /\ s.activeTurn # None
        /\ Reduce(s, a).activeTurn.id = s.activeTurn.id
        /\ Reduce(s, a).activeTurn.parts = s.activeTurn.parts
    BY <1>0, <1>2, <2>2, <2>3, NoneIsNoValue DEF IsActive, ActiveTurn
  <2> QED
    BY <1>2, <2>3, <2>4 DEF SameTurns, SamePending
<1>3. CASE IsActive(s, a.turn) /\ a.type # "usage"
  <2> DEFINE parts == PartsAfter(s.activeTurn.parts, a)
  <2>1. s.activeTurn # None
    BY <1>3 DEF IsActive
  <2>2. Reduce(s, a) = WithParts(s, parts)
    BY <1>3, ReduceIsPartsAfter
  <2>3. Sound(Reduce(s, a))
    BY ReduceSound
  <2>4. Reduce(s, a).activeTurn \in ActiveTurn \cup {None}
    BY <2>3 DEF Sound, SessionState
  <2>5. parts \in Seq(Part)
    <3>1. CASE a.type \in AddsPart
      BY <2>1, <3>1, ActivePartsType, AddedType, AppendProperties DEF PartsAfter
    <3>2. CASE a.type \notin AddsPart
      <4>1. parts = [i \in DOMAIN s.activeTurn.parts |-> PartAfter(s.activeTurn.parts[i], a)]
        BY <3>2 DEF PartsAfter
      <4> HIDE DEF parts
      <4>2. \A i \in DOMAIN s.activeTurn.parts : PartAfter(s.activeTurn.parts[i], a) \in Part
        BY <2>1, <3>2, ActivePartsType, PartAfterType
      <4>3. /\ DOMAIN parts = DOMAIN s.activeTurn.parts
            /\ parts = [i \in DOMAIN parts |-> parts[i]]
            /\ \A i \in DOMAIN s.activeTurn.parts : parts[i] \in Part
        BY <4>1, <4>2
      <4> QED
        BY <2>1, <4>3, ActivePartsType, MappedParts
    <3> QED
      BY <3>1, <3>2
  <2> HIDE DEF parts
  <2>6. [s.activeTurn EXCEPT !.parts = parts] \in ActiveTurn
    BY <1>0, <2>1, <2>5 DEF ActiveTurn
  <2>7. /\ Reduce(s, a).activeTurn = [s.activeTurn EXCEPT !.parts = parts]
        /\ Reduce(s, a).turns = s.turns
        /\ Reduce(s, a).queued = s.queued /\ Reduce(s, a).steering = s.steering
    BY <1>0, <2>2 DEF SessionState, WithParts
  <2>8. /\ Reduce(s, a).activeTurn # None
        /\ Reduce(s, a).activeTurn.id = s.activeTurn.id
        /\ Reduce(s, a).activeTurn.parts = parts
    BY <1>0, <2>1, <2>6, <2>7, NoneIsNoValue DEF ActiveTurn
  <2> QED
    BY <1>3, <2>1, <2>7, <2>8 DEF SameTurns, SamePending, parts
<1> QED
  BY <1>1, <1>2, <1>3
=============================================================================
