---------------------------- MODULE HandlerProofs ----------------------------
(***************************************************************************)
(* What the chat of a session keeps to, for any number of turns, tool      *)
(* calls and messages, and whatever the host, its agent and other clients  *)
(* do in whatever order: the turn that the handler sees active is followed *)
(* by one tracker, a call that waits for permission is asked about, and    *)
(* the queue of the session is that of the chat.                           *)
(***************************************************************************)
EXTENDS ChatSessionHandler, SessionReducerProofs, SubsequenceLemmas

-----------------------------------------------------------------------------
(* Sequences.                                                              *)

LEMMA ElementsOfAppend ==
  ASSUME NEW E, NEW s \in Seq(E), NEW e \in E
  PROVE  ToSet(Append(s, e)) = ToSet(s) \cup {e}
<1> DEFINE t == Append(s, e)
           n == Len(s)
<1>1. n \in Nat /\ Len(t) = n + 1 /\ t[n + 1] = e /\ \A i \in 1 .. n : t[i] = s[i]
  BY AppendProperties, LenProperties
<1> HIDE DEF t, n
<1>2. ToSet(s) = {s[i] : i \in 1 .. n} /\ ToSet(t) = {t[i] : i \in 1 .. n + 1}
  BY <1>1 DEF ToSet, n, t
<1>3. \A i \in 1 .. n + 1 : i \in 1 .. n \/ i = n + 1
  BY <1>1
<1>4. n + 1 \in 1 .. n + 1 /\ \A i \in 1 .. n : i \in 1 .. n + 1
  BY <1>1
<1>5. ToSet(t) = ToSet(s) \cup {e}
  BY <1>1, <1>2, <1>3, <1>4
<1> QED
  BY <1>5 DEF t

\* Filtering keeps the elements that are to be kept, each where it was alone.
LEMMA ElementsWithin ==
  ASSUME NEW E, NEW s \in Seq(E), NEW S
  PROVE  /\ ToSet(Within(s, S)) = ToSet(s) \cap S
         /\ IsInjective(s) => IsInjective(Within(s, S))
<1> DEFINE w == Within(s, S)
<1>1. PICK place : Picks(place, w, s, S)
  BY WithinPicks
<1>2. w \in Seq(E)
  BY WithinType
<1> HIDE DEF w
<1>3. /\ DOMAIN w = 1 .. Len(w) /\ Len(w) \in Nat
      /\ DOMAIN s = 1 .. Len(s) /\ Len(s) \in Nat
  BY <1>2, LenProperties
<1>4. ToSet(w) = ToSet(s) \cap S
  BY <1>1, <1>3 DEF ToSet, Picks
<1>5. ASSUME IsInjective(s), NEW i \in DOMAIN w, NEW j \in DOMAIN w, w[i] = w[j]
      PROVE  i = j
  <2>1. place[i] \in 1 .. Len(s) /\ place[j] \in 1 .. Len(s) /\ s[place[i]] = s[place[j]]
    BY <1>1, <1>3, <1>5 DEF Picks
  <2>2. place[i] = place[j]
    BY <1>3, <1>5, <2>1 DEF IsInjective
  <2>3. i < j => place[i] < place[j]
    BY <1>1, <1>3 DEF Picks
  <2>4. j < i => place[j] < place[i]
    BY <1>1, <1>3 DEF Picks
  <2> QED
    BY <1>3, <2>1, <2>2, <2>3, <2>4
<1>6. IsInjective(s) => IsInjective(w)
  BY <1>5 DEF IsInjective
<1> QED
  BY <1>4, <1>6 DEF w

\* Filtering what is left of a sequence without its first element.
LEMMA WithinTail ==
  ASSUME NEW E, NEW s \in Seq(E), s # <<>>, NEW S
  PROVE  /\ s[1] \in S => Within(s, S) # <<>> /\ Within(s, S)[1] = s[1]
                          /\ Within(Tail(s), S) = Tail(Within(s, S))
         /\ s[1] \notin S => Within(Tail(s), S) = Within(s, S)
<1> DEFINE Good(q) == q # <<>> =>
             /\ q[1] \in S => Within(q, S) # <<>> /\ Within(q, S)[1] = q[1]
                              /\ Within(Tail(q), S) = Tail(Within(q, S))
             /\ q[1] \notin S => Within(Tail(q), S) = Within(q, S)
           T == {q \in Seq(E) : Good(q)}
<1>1. <<>> \in T
  BY EmptySeq
<1>2. ASSUME NEW q \in T, NEW e \in E
      PROVE  Append(q, e) \in T
  <2> DEFINE r == Append(q, e)
             w == Within(q, S)
  <2>1. q \in Seq(E) /\ Good(q)
    BY <1>2
  <2>2. r \in Seq(E) /\ w \in Seq(E)
    BY <2>1, AppendProperties, WithinType
  <2>3. Within(r, S) = IF e \in S THEN Append(w, e) ELSE w
    <3>1. q \in Seq(E) /\ e \in E
      BY <2>1
    <3> QED
      BY ONLY <3>1, WithinAppend
  <2>4. CASE q = <<>>
    <3>1. w = <<>> /\ r = <<e>> /\ Tail(r) = <<>> /\ r[1] = e
      BY <2>4, WithinEmpty
    <3>2. Tail(<<e>>) = <<>> /\ Append(<<>>, e) = <<e>> /\ <<e>> # <<>> /\ <<e>>[1] = e
      OBVIOUS
    <3>3. Within(Tail(r), S) = <<>>
      BY <3>1, WithinEmpty
    <3> HIDE DEF r, w
    <3>4. Good(r)
      BY <2>3, <3>1, <3>2, <3>3
    <3> QED
      BY <2>2, <3>4 DEF r
  <2>5. CASE q # <<>>
    <3>1. Tail(q) \in Seq(E) /\ Tail(r) = Append(Tail(q), e)
      BY <2>1, <2>5, HeadTailProperties, HeadTailAppend
    <3>2. Within(Tail(r), S) = IF e \in S THEN Append(Within(Tail(q), S), e)
                               ELSE Within(Tail(q), S)
      <4>1. PICK x \in Seq(E) : x = Tail(q)
        BY <3>1
      <4> HIDE DEF r, w, T, Good
      <4>2. Within(Append(x, e), S) = IF e \in S THEN Append(Within(x, S), e)
                                      ELSE Within(x, S)
        BY ONLY x \in Seq(E), e \in E, WithinAppend
      <4> QED
        BY <3>1, <4>1, <4>2
    <3>3. r[1] = q[1]
      <4>1. Len(q) \in Nat \ {0}
        BY <2>1, <2>5, EmptySeq
      <4>2. 1 \in 1 .. Len(q)
        BY <4>1
      <4> QED
        BY <2>1, <4>2, AppendProperties
    <3>4. CASE q[1] \in S
      <4>1. w # <<>> /\ w[1] = q[1] /\ Within(Tail(q), S) = Tail(w)
        BY <2>1, <2>5, <3>4
      <4>2. Tail(Append(w, e)) = Append(Tail(w), e)
        BY <2>2, <4>1, HeadTailAppend
      <4>3. Append(w, e) # <<>> /\ Append(w, e)[1] = w[1]
        <5>1. Len(w) \in Nat \ {0}
          BY <2>2, <4>1, EmptySeq
        <5>2. 1 \in 1 .. Len(w)
          BY <5>1
        <5> QED
          BY <2>2, <5>2, AppendProperties
      <4> HIDE DEF r, w
      <4>4. Good(r)
        BY <2>3, <3>2, <3>3, <3>4, <4>1, <4>2, <4>3
      <4> QED
        BY <2>2, <4>4 DEF r
    <3>5. CASE q[1] \notin S
      <4>1. Within(Tail(q), S) = w
        BY <2>1, <2>5, <3>5
      <4> HIDE DEF r, w
      <4>2. Good(r)
        BY <2>3, <3>2, <3>3, <3>5, <4>1
      <4> QED
        BY <2>2, <4>2 DEF r
    <3> QED
      BY <3>4, <3>5
  <2> QED
    BY <2>4, <2>5
<1>3. T \in SUBSET Seq(E)
  OBVIOUS
<1> HIDE DEF T
<1>4. T = Seq(E)
  BY <1>1, <1>2, <1>3, SeqSetInduction
<1>5. Good(s)
  BY <1>4 DEF T
<1> QED
  BY <1>5

LEMMA AppendOfConcat ==
  ASSUME NEW E, NEW s \in Seq(E), NEW t \in Seq(E), NEW e \in E
  PROVE  s \o Append(t, e) = Append(s \o t, e)
<1>1. s \o t \in Seq(E) /\ <<e>> \in Seq(E)
  BY ConcatProperties
<1>2. Append(t, e) = t \o <<e>> /\ Append(s \o t, e) = (s \o t) \o <<e>>
  BY <1>1, AppendIsConcat
<1>3. (s \o t) \o <<e>> = s \o (t \o <<e>>)
  BY <1>1, ConcatAssociative
<1> QED
  BY <1>2, <1>3

\* Filtering is continued with a second sequence.
LEMMA WithinConcat ==
  ASSUME NEW E, NEW s \in Seq(E), NEW t \in Seq(E), NEW S
  PROVE  Within(s \o t, S) = Within(s, S) \o Within(t, S)
<1> DEFINE T == {q \in Seq(E) : Within(s \o q, S) = Within(s, S) \o Within(q, S)}
<1>1. Within(s, S) \in Seq(E)
  BY WithinType
<1>2. <<>> \in T
  <2>1. s \o <<>> = s /\ Within(s, S) \o <<>> = Within(s, S) /\ Within(<<>>, S) = <<>>
    BY <1>1, ConcatEmptySeq, WithinEmpty
  <2> QED
    BY <2>1, EmptySeq
<1>3. ASSUME NEW q \in T, NEW e \in E
      PROVE  Append(q, e) \in T
  <2>1. q \in Seq(E) /\ Within(s \o q, S) = Within(s, S) \o Within(q, S)
    BY <1>3
  <2>2. s \o q \in Seq(E) /\ Within(q, S) \in Seq(E) /\ Append(q, e) \in Seq(E)
    BY <2>1, ConcatProperties, WithinType, AppendProperties
  <2>3. s \o Append(q, e) = Append(s \o q, e)
    BY <2>1, AppendOfConcat
  <2>4. Within(Append(s \o q, e), S) = IF e \in S THEN Append(Within(s \o q, S), e)
                                       ELSE Within(s \o q, S)
    <3>1. PICK x \in Seq(E) : x = s \o q
      BY <2>2
    <3>2. Within(Append(x, e), S) = IF e \in S THEN Append(Within(x, S), e)
                                    ELSE Within(x, S)
      BY WithinAppend
    <3> QED
      BY <3>1, <3>2
  <2>5. Within(Append(q, e), S) = IF e \in S THEN Append(Within(q, S), e) ELSE Within(q, S)
    BY <2>1, WithinAppend
  <2>6. Within(s, S) \o Append(Within(q, S), e) = Append(Within(s, S) \o Within(q, S), e)
    BY <1>1, <2>2, AppendOfConcat
  <2> QED
    BY <2>1, <2>2, <2>3, <2>4, <2>5, <2>6
<1>4. T \in SUBSET Seq(E)
  OBVIOUS
<1> HIDE DEF T
<1>5. T = Seq(E)
  BY <1>2, <1>3, <1>4, SeqSetInduction
<1> QED
  BY <1>5 DEF T

\* What is sent in three parts.
LEMMA SentInParts ==
  ASSUME NEW x \in Seq(SessionAction), NEW y \in Seq(SessionAction),
         NEW z \in Seq(SessionAction)
  PROVE  (x \o y) \o z = x \o (y \o z) /\ y \o z \in Seq(SessionAction)
<1>1. (x \o y) \o z = x \o (y \o z)
  BY ConcatAssociative
<1>2. y \o z \in Seq(SessionAction)
  BY ConcatProperties
<1> QED
  BY <1>1, <1>2
-----------------------------------------------------------------------------
(* Several actions, one after the other.                                   *)

\* The recursion that defines Applied.
AppliesTo(after, s, q) ==
  /\ DOMAIN after = 0 .. Len(q)
  /\ after[0] = s
  /\ \A n \in 1 .. Len(q) : after[n] = Reduce(after[n - 1], q[n])
  /\ \A n \in 0 .. Len(q) : Sound(after[n])
  /\ Applied(s, q) = after[Len(q)]

LEMMA AppliedSteps ==
  ASSUME NEW s, Sound(s), NEW q \in Seq(SessionAction)
  PROVE  \E after : AppliesTo(after, s, q)
<1> DEFINE N == Len(q)
           V == {v \in SessionState : Sound(v)}
           step == [n \in 1 .. N |-> [v \in V |-> Reduce(v, q[n])]]
           Next1(f, n) == Reduce(f[n - 1], q[n])
           Kept(f) == f = [n \in 0 .. N |-> IF n = 0 THEN s ELSE Next1(f, n)]
<1>1. N \in Nat /\ \A n \in 1 .. N : q[n] \in SessionAction
  BY LenProperties
<1>2. s \in V
  BY DEF Sound
<1>3. ASSUME NEW n \in 1 .. N
      PROVE  step[n] \in [V -> V]
  <2>1. ASSUME NEW v \in V
        PROVE  Reduce(v, q[n]) \in V
    <3>1. Sound(v)
      OBVIOUS
    <3>2. Sound(Reduce(v, q[n]))
      BY <1>1, <3>1, ReduceSound
    <3> QED
      BY <3>2 DEF Sound
  <2> QED
    BY <2>1
<1>4. \A n \in 1 .. N : \A v \in V : step[n][v] = Reduce(v, q[n])
  OBVIOUS
<1> HIDE DEF step, N, V
<1>5. PICK f : Follows(f, s, step, N, V)
  <2>1. AreStepsOn(step, N, V)
    BY <1>3 DEF AreStepsOn
  <2> QED
    BY <1>1, <1>2, <2>1, Steps
<1>6. ASSUME NEW n \in 0 .. N
      PROVE  f[n] = IF n = 0 THEN s ELSE Next1(f, n)
  <2>1. CASE n = 0
    BY <1>5, <2>1 DEF Follows
  <2>2. CASE n \in 1 .. N
    <3>1. n - 1 \in 0 .. N /\ n # 0
      BY <1>1, <2>2
    <3>2. f[n - 1] \in V /\ f[n] = step[n][f[n - 1]]
      BY <1>5, <2>2, <3>1 DEF Follows
    <3> QED
      BY <1>4, <2>2, <3>1, <3>2
  <2> QED
    BY <1>1, <2>1, <2>2
<1>7. Kept(f)
  <2>1. f = [n \in 0 .. N |-> f[n]]
    BY <1>5 DEF Follows
  <2> QED
    BY <1>6, <2>1
<1> DEFINE g == CHOOSE h : Kept(h)
<1>8. Kept(g) /\ Applied(s, q) = g[N]
  <2>1. Applied(s, q) = g[N]
    BY DEF Applied, N
  <2> HIDE DEF Kept
  <2> QED
    BY <1>7, <2>1
<1> HIDE DEF g
<1>9. g[0] = s /\ \A n \in 1 .. N : g[n] = Next1(g, n)
  <2>1. ASSUME NEW n \in 0 .. N
        PROVE  g[n] = IF n = 0 THEN s ELSE Next1(g, n)
    BY <1>8
  <2> HIDE DEF Next1
  <2> QED
    BY <1>1, <2>1
<1>10. DOMAIN g = 0 .. N
  BY <1>8
<1> DEFINE T == {n \in 0 .. N : Sound(g[n])}
<1>11. \A n \in 0 .. N : n \in T
  <2>1. 0 \in T
    BY <1>1, <1>9
  <2>2. ASSUME NEW n \in 0 .. N - 1, n \in T
        PROVE  n + 1 \in T
    <3>1. n + 1 \in 1 .. N /\ n + 1 - 1 = n /\ n + 1 \in 0 .. N
      BY <1>1, <2>2
    <3>2. g[n + 1] = Reduce(g[n], q[n + 1])
      BY <1>9, <3>1
    <3>3. Sound(g[n]) /\ q[n + 1] \in SessionAction
      BY <1>1, <2>2, <3>1
    <3>4. Sound(g[n + 1])
      BY <3>2, <3>3, ReduceSound
    <3> QED
      BY <3>1, <3>4
  <2> HIDE DEF T
  <2>3. \A n \in 0 .. N - 1 : n \in T => n + 1 \in T
    BY <2>2
  <2> QED
    BY <1>1, <2>1, <2>3, UpTo
<1> QED
  BY <1>8, <1>9, <1>10, <1>11 DEF N, AppliesTo

\* Applying nothing, and one action more.
LEMMA AppliedNone ==
  ASSUME NEW s, Sound(s)
  PROVE  Applied(s, <<>>) = s
<1>1. <<>> \in Seq(SessionAction) /\ Len(<<>>) = 0
  BY EmptySeq
<1>2. PICK after : AppliesTo(after, s, <<>>)
  BY <1>1, AppliedSteps
<1> QED
  BY <1>1, <1>2 DEF AppliesTo

LEMMA AppliedAppend ==
  ASSUME NEW s, Sound(s), NEW q \in Seq(SessionAction), NEW a \in SessionAction
  PROVE  Applied(s, Append(q, a)) = Reduce(Applied(s, q), a)
<1> DEFINE N == Len(q)
           t == Append(q, a)
<1>1. /\ t \in Seq(SessionAction) /\ Len(t) = N + 1 /\ t[N + 1] = a
      /\ \A n \in 1 .. N : t[n] = q[n]
      /\ N \in Nat
  BY AppendProperties, LenProperties
<1> HIDE DEF t
<1>2. PICK f : AppliesTo(f, s, q)
  BY AppliedSteps
<1>3. PICK g : AppliesTo(g, s, t)
  BY <1>1, AppliedSteps
<1> USE DEF AppliesTo
<1> DEFINE T == {n \in 0 .. N : g[n] = f[n]}
<1>4. \A n \in 0 .. N : n \in T
  <2>1. 0 \in T
    BY <1>1, <1>2, <1>3
  <2>2. ASSUME NEW n \in 0 .. N - 1, n \in T
        PROVE  n + 1 \in T
    <3>1. n + 1 \in 1 .. N /\ n + 1 \in 1 .. Len(t) /\ n + 1 \in 0 .. N
          /\ g[n] = f[n] /\ n + 1 - 1 = n
      BY <1>1, <2>2
    <3>2. g[n + 1] = Reduce(g[n], t[n + 1])
      BY <1>3, <3>1
    <3>3. f[n + 1] = Reduce(f[n], q[n + 1])
      BY <1>2, <3>1
    <3>4. g[n + 1] = f[n + 1]
      BY <1>1, <3>1, <3>2, <3>3
    <3> QED
      BY <3>1, <3>4
  <2> HIDE DEF T
  <2>3. \A n \in 0 .. N - 1 : n \in T => n + 1 \in T
    BY <2>2
  <2> QED
    BY <1>1, <2>1, <2>3, UpTo
<1>5. g[N] = Applied(s, q)
  <2>1. N \in 0 .. N
    BY <1>1
  <2> QED
    BY <1>2, <1>4, <2>1
<1>6. N + 1 \in 1 .. Len(t) /\ N + 1 - 1 = N
  BY <1>1
<1>7. g[N + 1] = Reduce(g[N], a)
  BY <1>1, <1>3, <1>6
<1> QED
  BY <1>1, <1>3, <1>5, <1>7 DEF t

LEMMA AppliedSound ==
  ASSUME NEW s, Sound(s), NEW q \in Seq(SessionAction)
  PROVE  Sound(Applied(s, q))
<1>1. PICK f : AppliesTo(f, s, q)
  BY AppliedSteps
<1>2. Len(q) \in 0 .. Len(q)
  BY LenProperties
<1> QED
  BY <1>1, <1>2 DEF AppliesTo

LEMMA AppliedOne ==
  ASSUME NEW s, Sound(s), NEW a \in SessionAction
  PROVE  Applied(s, <<a>>) = Reduce(s, a)
<1>1. Append(<<>>, a) = <<a>> /\ <<>> \in Seq(SessionAction)
  BY EmptySeq
<1>2. Applied(s, Append(<<>>, a)) = Reduce(Applied(s, <<>>), a)
  BY <1>1, AppliedAppend
<1> QED
  BY <1>1, <1>2, AppliedNone

LEMMA AppliedConcat ==
  ASSUME NEW s, Sound(s), NEW p \in Seq(SessionAction), NEW q \in Seq(SessionAction)
  PROVE  Applied(s, p \o q) = Applied(Applied(s, p), q)
<1> DEFINE T == {r \in Seq(SessionAction) : Applied(s, p \o r) = Applied(Applied(s, p), r)}
<1>1. Sound(Applied(s, p))
  BY AppliedSound
<1>2. <<>> \in T
  <2>1. p \o <<>> = p /\ Applied(Applied(s, p), <<>>) = Applied(s, p)
    BY <1>1, ConcatEmptySeq, AppliedNone
  <2> QED
    BY <2>1, EmptySeq
<1>3. ASSUME NEW r \in T, NEW a \in SessionAction
      PROVE  Append(r, a) \in T
  <2>1. r \in Seq(SessionAction) /\ Applied(s, p \o r) = Applied(Applied(s, p), r)
    BY <1>3
  <2>2. p \o r \in Seq(SessionAction) /\ Append(r, a) \in Seq(SessionAction)
    BY <2>1, ConcatProperties, AppendProperties
  <2>3. p \o Append(r, a) = Append(p \o r, a)
    BY <2>1, AppendOfConcat
  <2>4. Applied(s, Append(p \o r, a)) = Reduce(Applied(s, p \o r), a)
    BY <2>2, AppliedAppend
  <2>5. Applied(Applied(s, p), Append(r, a)) = Reduce(Applied(Applied(s, p), r), a)
    BY <1>1, <2>1, AppliedAppend
  <2> QED
    BY <2>1, <2>2, <2>3, <2>4, <2>5
<1>4. T \in SUBSET Seq(SessionAction)
  OBVIOUS
<1> HIDE DEF T
<1>5. T = Seq(SessionAction)
  BY <1>2, <1>3, <1>4, SeqSetInduction
<1> QED
  BY <1>5 DEF T

\* The first action may be applied before the others.
LEMMA AppliedTail ==
  ASSUME NEW s, Sound(s), NEW q \in Seq(SessionAction), q # <<>>
  PROVE  Applied(Reduce(s, q[1]), Tail(q)) = Applied(s, q)
<1>1. Tail(q) \in Seq(SessionAction)
  BY HeadTailProperties
<1>2. Len(q) \in Nat \ {0}
  BY EmptySeq
<1>3. q[1] \in SessionAction
  BY <1>2, ElementOfSeq
<1>4. <<q[1]>> \o Tail(q) = q
  <2>1. 1 \in 1 .. Len(q) /\ Len(q) \in 1 .. Len(q) /\ 1 + 1 = 2
    BY <1>2
  <2>2. SubSeq(q, 1, Len(q)) = <<q[1]>> \o SubSeq(q, 2, Len(q))
    BY <2>1, SubSeqRecursiveFirst
  <2> QED
    BY <2>2, SubSeqFull, TailIsSubSeq
<1>5. Applied(s, <<q[1]>> \o Tail(q)) = Applied(Applied(s, <<q[1]>>), Tail(q))
  <2>1. <<q[1]>> \in Seq(SessionAction)
    BY <1>3
  <2> QED
    BY <1>1, <2>1, AppliedConcat
<1> QED
  BY <1>3, <1>4, <1>5, AppliedOne

-----------------------------------------------------------------------------
(* What actions do to the active turn, to questions and to the queue.      *)

TurnEnds == {"turnComplete", "turnCancelled", "error"}

ActiveAfter(t, a) ==
  IF a.type = "turnStarted" THEN a.turn
  ELSE IF a.type \in TurnEnds /\ a.turn = t THEN None
  ELSE t

LEMMA ActiveAfterReduce ==
  ASSUME NEW s, Sound(s), NEW a \in SessionAction
  PROVE  ActiveId(Reduce(s, a)) = ActiveAfter(ActiveId(s), a)
<1>0. s \in SessionState /\ (s.activeTurn # None => s.activeTurn \in ActiveTurn)
  BY DEF Sound, SessionState
<1>1. CASE a.type = "turnStarted"
  <2>1. a.turn \in TurnId /\ a.message \in Text
    BY <1>1 DEF SessionAction, TurnActionType
  <2>2. [id |-> a.turn, message |-> a.message, parts |-> <<>>, usage |-> FALSE] \in ActiveTurn
    BY <2>1 DEF ActiveTurn
  <2>3. [id |-> a.turn, message |-> a.message, parts |-> <<>>, usage |-> FALSE] # None
    BY <2>2, NoneIsNoValue
  <2>4. Reduce(s, a).activeTurn =
          [id |-> a.turn, message |-> a.message, parts |-> <<>>, usage |-> FALSE]
    BY <1>0, <1>1 DEF Reduce, TurnStarted, SessionState
  <2> QED
    BY <1>1, <2>3, <2>4 DEF ActiveId, ActiveAfter
<1>2. CASE a.type \in TurnEnds
  <2>1. a.turn \in TurnId
    BY <1>2 DEF SessionAction, TurnActionType, TurnEnds
  <2>2. ~IsActive(s, a.turn) => Reduce(s, a) = s
    BY <1>2 DEF Reduce, EndTurn, TurnEnds
  <2>3. IsActive(s, a.turn) => Reduce(s, a).activeTurn = None
    BY <1>0, <1>2 DEF Reduce, EndTurn, TurnEnds, SessionState
  <2>4. IsActive(s, a.turn) <=> ActiveId(s) = a.turn
    BY <2>1, NoneIsNoId DEF IsActive, ActiveId
  <2> QED
    BY <1>2, <2>2, <2>3, <2>4 DEF ActiveId, ActiveAfter, TurnEnds
<1>3. CASE a.type \in TurnAction
  <2>1. SameTurns(s, Reduce(s, a))
    BY <1>3, ReduceParts
  <2> QED
    BY <1>3, <2>1 DEF SameTurns, ActiveId, ActiveAfter, TurnAction, TurnEnds
<1>4. CASE a.type \in PendingType \cup MetaAction
  <2>1. Reduce(s, a).activeTurn = s.activeTurn
    BY <1>4, ReducePending, ReduceMeta
  <2> QED
    BY <1>4, <2>1 DEF ActiveId, ActiveAfter, PendingType, MetaAction, TurnEnds
<1> QED
  BY <1>1, <1>2, <1>3, <1>4
     DEF SessionAction, TurnActionType, TurnEnds, TurnAction, PendingType, MetaAction

\* What the handler dispatches by itself: answers, and edits of the queue.
Confirmation == {a \in SessionAction : a.type = "toolCallConfirmed"}

QueueEdit == {a \in SessionAction : a.type \in QueueAction}

Waits(v, t, c) == StatusIn(PartsOfTurn(v, t), c) = "pendingConfirmation"

\* w is v with fewer questions.
Calmer(w, v) ==
  /\ ActiveId(w) = ActiveId(v)
  /\ \A t \in TurnId, c \in ToolCallId : Waits(w, t, c) => Waits(v, t, c)

LEMMA CalmerTwice ==
  ASSUME NEW u, NEW v, NEW w, Calmer(u, v), Calmer(v, w)
  PROVE  Calmer(u, w)
BY DEF Calmer

\* A call whose parts change their status only has the status of the same part.
LEMMA StatusOfSamePart ==
  ASSUME NEW parts \in Seq(Part), NEW new \in Seq(Part), DOMAIN new = DOMAIN parts,
         \A i \in DOMAIN parts :
           /\ new[i].kind = parts[i].kind /\ new[i].id = parts[i].id
           /\ new[i].kind = "toolCall" /\ new[i].status = "pendingConfirmation"
                => parts[i].status = "pendingConfirmation",
         NEW c, StatusIn(new, c) = "pendingConfirmation"
  PROVE  StatusIn(parts, c) = "pendingConfirmation"
<1> DEFINE at == {i \in DOMAIN parts : IsToolCall(parts[i], c)}
           k == CHOOSE i \in at : TRUE
<1>1. {i \in DOMAIN new : IsToolCall(new[i], c)} = at
  BY DEF IsToolCall
<1>2. StatusIn(new, c) = IF at = {} THEN "absent" ELSE new[k].status
  BY <1>1 DEF StatusIn
<1>3. StatusIn(parts, c) = IF at = {} THEN "absent" ELSE parts[k].status
  BY DEF StatusIn
<1>4. at # {} /\ new[k].status = "pendingConfirmation"
  BY <1>2
<1>5. k \in at
  BY <1>4
<1> HIDE DEF k
<1>6. new[k].kind = "toolCall"
  BY <1>5 DEF IsToolCall
<1> QED
  BY <1>3, <1>4, <1>5, <1>6

LEMMA ConfirmationCalms ==
  ASSUME NEW s, Sound(s), NEW a \in Confirmation
  PROVE  Calmer(Reduce(s, a), s) /\ Reduce(s, a).queued = s.queued
<1>1. a \in SessionAction /\ a.type = "toolCallConfirmed"
  BY DEF Confirmation
<1>2. a.approved \in BOOLEAN /\ a.turn \in TurnId
  BY <1>1 DEF SessionAction, TurnActionType
<1>3. s \in SessionState
  BY DEF Sound
<1>4. ActiveId(Reduce(s, a)) = ActiveId(s)
  BY <1>1, ActiveAfterReduce DEF ActiveAfter, TurnEnds
<1>5. CASE ~IsActive(s, a.turn)
  <2>1. Reduce(s, a) = s
    BY <1>1, <1>5 DEF Reduce, ToolCallConfirmed, UpdateToolCall
  <2> QED
    BY <2>1 DEF Calmer
<1>6. CASE IsActive(s, a.turn)
  <2> DEFINE parts == s.activeTurn.parts
             new == [i \in DOMAIN parts |->
                       IF IsToolCall(parts[i], a.tool) THEN Confirmed(parts[i], a.approved)
                       ELSE parts[i]]
             r == Reduce(s, a)
  <2>1. s.activeTurn # None /\ s.activeTurn \in ActiveTurn
    BY <1>3, <1>6 DEF IsActive, SessionState
  <2>2. r = [s EXCEPT !.activeTurn.parts = new]
    BY <1>1, <1>6 DEF Reduce, ToolCallConfirmed, UpdateToolCall
  <2>3. parts \in Seq(Part) /\ \A i \in DOMAIN parts : parts[i] \in Part
    BY <2>1, ActivePartsType
  <2>4. ASSUME NEW i \in DOMAIN parts
        PROVE  /\ new[i] \in Part
               /\ new[i].kind = parts[i].kind /\ new[i].id = parts[i].id
               /\ new[i].kind = "toolCall" /\ new[i].status = "pendingConfirmation"
                    => parts[i].status = "pendingConfirmation"
    <3>1. CASE IsToolCall(parts[i], a.tool)
      <4>1. parts[i] \in ToolPart
        BY <2>3, <3>1, ToolCallIsToolPart
      <4>2. new[i] = Confirmed(parts[i], a.approved)
        BY <3>1
      <4> HIDE DEF new, parts
      <4> QED
        BY <1>2, <4>1, <4>2, ToolUpdatersType DEF Confirmed, ToolCall, ToolPart
    <3>2. CASE ~IsToolCall(parts[i], a.tool)
      BY <2>3, <3>2
    <3> QED
      BY <3>1, <3>2
  <2>5. DOMAIN new = DOMAIN parts /\ new = [i \in DOMAIN new |-> new[i]]
    OBVIOUS
  <2> HIDE DEF new
  <2>6. new \in Seq(Part)
    BY <2>3, <2>4, <2>5, MappedParts
  <2>7. /\ r.turns = s.turns /\ r.queued = s.queued
        /\ r.activeTurn # None /\ r.activeTurn.id = s.activeTurn.id
        /\ r.activeTurn.parts = new
    <3>1. r.activeTurn = [s.activeTurn EXCEPT !.parts = new]
      BY <1>3, <2>2 DEF SessionState
    <3>2. r.activeTurn \in ActiveTurn
      BY <2>1, <2>6, <3>1 DEF ActiveTurn
    <3>3. r.activeTurn # None
      BY <3>2, NoneIsNoValue
    <3> QED
      BY <1>3, <2>1, <2>2, <3>1, <3>3 DEF SessionState, ActiveTurn
  <2> HIDE DEF r
  <2>8. ASSUME NEW t \in TurnId, NEW c \in ToolCallId, Waits(r, t, c)
        PROVE  Waits(s, t, c)
    <3>0. IsActive(r, t) <=> IsActive(s, t)
      BY <2>1, <2>7 DEF IsActive
    <3>1. CASE IsActive(s, t)
      <4>1. PartsOfTurn(s, t) = parts /\ PartsOfTurn(r, t) = new
        BY <2>7, <3>0, <3>1 DEF PartsOfTurn
      <4>2. StatusIn(new, c) = "pendingConfirmation"
        BY <2>8, <4>1 DEF Waits
      <4> HIDE DEF parts
      <4>3. StatusIn(parts, c) = "pendingConfirmation"
        BY <2>3, <2>4, <2>5, <2>6, <4>2, StatusOfSamePart
      <4> QED
        BY <4>1, <4>3 DEF Waits
    <3>2. CASE ~IsActive(s, t)
      <4>1. PartsOfTurn(r, t) = PartsOfTurn(s, t)
        BY <2>7, <3>0, <3>2 DEF PartsOfTurn
      <4> QED
        BY <2>8, <4>1 DEF Waits
    <3> QED
      BY <3>1, <3>2
  <2> QED
    BY <1>4, <2>7, <2>8 DEF Calmer, r
<1> QED
  BY <1>5, <1>6

LEMMA QueueEditCalms ==
  ASSUME NEW s, Sound(s), NEW a \in QueueEdit
  PROVE  Calmer(Reduce(s, a), s)
<1>1. a \in SessionAction /\ a.type \in QueueAction
  BY DEF QueueEdit
<1>2. s \in SessionState
  BY DEF Sound
<1>3. Reduce(s, a).activeTurn = s.activeTurn /\ Reduce(s, a).turns = s.turns
  BY <1>1, <1>2 DEF Reduce, QueueAction, PendingMessageSet, PendingMessageRemoved,
       SessionState
<1> QED
  BY <1>3 DEF Calmer, ActiveId, Waits, PartsOfTurn, IsActive

\* What the handler dispatches by itself asks nothing and starts nothing; answers
\* leave the queue alone.
LEMMA ReactionsCalm ==
  ASSUME NEW s, Sound(s)
  PROVE  /\ \A q \in Seq(Confirmation \cup QueueEdit) : Calmer(Applied(s, q), s)
         /\ \A q \in Seq(Confirmation) : Applied(s, q).queued = s.queued
<1>0. /\ Confirmation \subseteq SessionAction
      /\ Confirmation \cup QueueEdit \subseteq SessionAction
  BY DEF Confirmation, QueueEdit
<1>1. Applied(s, <<>>) = s
  BY AppliedNone
<1> DEFINE R == Confirmation \cup QueueEdit
           T == {q \in Seq(R) : Calmer(Applied(s, q), s)}
           U == {q \in Seq(Confirmation) : Applied(s, q).queued = s.queued}
<1>2. <<>> \in T /\ <<>> \in U
  <2>1. <<>> \in Seq(R) /\ <<>> \in Seq(Confirmation)
    BY EmptySeq
  <2> QED
    BY <1>1, <2>1 DEF Calmer
<1>3. ASSUME NEW q \in T, NEW a \in R
      PROVE  Append(q, a) \in T
  <2>1. q \in Seq(R) /\ Calmer(Applied(s, q), s)
    BY <1>3
  <2>2. q \in Seq(SessionAction) /\ a \in SessionAction
    BY <1>0, <2>1, SeqMonotonic
  <2>3. Applied(s, Append(q, a)) = Reduce(Applied(s, q), a) /\ Sound(Applied(s, q))
    BY <2>2, AppliedAppend, AppliedSound
  <2>4. Calmer(Reduce(Applied(s, q), a), Applied(s, q))
    BY <1>3, <2>3, ConfirmationCalms, QueueEditCalms
  <2>5. Calmer(Reduce(Applied(s, q), a), s)
    BY <2>1, <2>4, CalmerTwice
  <2> HIDE DEF R
  <2>6. Append(q, a) \in Seq(R)
    BY <2>1, AppendProperties
  <2> QED
    BY <2>3, <2>5, <2>6
<1>4. ASSUME NEW q \in U, NEW a \in Confirmation
      PROVE  Append(q, a) \in U
  <2>1. q \in Seq(Confirmation) /\ Applied(s, q).queued = s.queued
    BY <1>4
  <2>2. q \in Seq(SessionAction) /\ a \in SessionAction
    BY <1>0, <2>1, SeqMonotonic
  <2>3. Applied(s, Append(q, a)) = Reduce(Applied(s, q), a) /\ Sound(Applied(s, q))
    BY <2>2, AppliedAppend, AppliedSound
  <2>4. Reduce(Applied(s, q), a).queued = Applied(s, q).queued
    BY <2>3, ConfirmationCalms
  <2>5. Append(q, a) \in Seq(Confirmation)
    BY <2>1, AppendProperties
  <2> QED
    BY <2>1, <2>3, <2>4, <2>5
<1>5. T \in SUBSET Seq(R) /\ U \in SUBSET Seq(Confirmation)
  OBVIOUS
<1> HIDE DEF T, U, R
<1>6. T = Seq(R)
  BY <1>2, <1>3, <1>5, SeqSetInduction
<1>7. U = Seq(Confirmation)
  BY <1>2, <1>4, <1>5, SeqSetInduction
<1> QED
  BY <1>6, <1>7 DEF T, U, R

\* If the confirmed state changes below the same own actions, what is active above
\* them stays, ends, or is what is active below.
LEMMA ActiveBelow ==
  ASSUME NEW s, Sound(s), NEW r, Sound(r), NEW q \in Seq(SessionAction)
  PROVE  /\ ActiveId(Applied(r, q)) \in {ActiveId(Applied(s, q)), None, ActiveId(r)}
         /\ ActiveId(r) = ActiveId(s) => ActiveId(Applied(r, q)) = ActiveId(Applied(s, q))
<1> DEFINE x(p) == ActiveId(Applied(r, p))
           y(p) == ActiveId(Applied(s, p))
           Good(p) == /\ x(p) \in {y(p), None, ActiveId(r)}
                      /\ ActiveId(r) = ActiveId(s) => x(p) = y(p)
           T == {p \in Seq(SessionAction) : Good(p)}
<1>1. <<>> \in T
  <2>1. Applied(s, <<>>) = s /\ Applied(r, <<>>) = r
    BY AppliedNone
  <2>2. <<>> \in Seq(SessionAction)
    BY EmptySeq
  <2> QED
    BY <2>1, <2>2
<1>2. ASSUME NEW p \in T, NEW a \in SessionAction
      PROVE  Append(p, a) \in T
  <2>1. p \in Seq(SessionAction) /\ Good(p)
    BY <1>2
  <2>2. /\ Applied(s, Append(p, a)) = Reduce(Applied(s, p), a) /\ Sound(Applied(s, p))
        /\ Applied(r, Append(p, a)) = Reduce(Applied(r, p), a) /\ Sound(Applied(r, p))
    BY <2>1, AppliedAppend, AppliedSound
  <2>3. x(Append(p, a)) = ActiveAfter(x(p), a) /\ y(Append(p, a)) = ActiveAfter(y(p), a)
    BY <2>2, ActiveAfterReduce
  <2>4. Append(p, a) \in Seq(SessionAction)
    BY <2>1, AppendProperties
  <2> HIDE DEF x, y
  <2>5. Good(Append(p, a))
    BY <2>1, <2>3 DEF ActiveAfter
  <2> QED
    BY <2>4, <2>5
<1>3. T \in SUBSET Seq(SessionAction)
  OBVIOUS
<1> HIDE DEF T
<1>4. T = Seq(SessionAction)
  BY <1>1, <1>2, <1>3, SeqSetInduction
<1> QED
  BY <1>4 DEF T


-----------------------------------------------------------------------------
(* The types of what the handler computes.                                 *)

\* A finite set is enumerated.
LEMMA SetToSeqType ==
  ASSUME NEW S, IsFiniteSet(S)
  PROVE  SetToSeq(S) \in Seq(S)
<1>1. Cardinality(S) \in Nat /\ ExistsBijection(1 .. Cardinality(S), S)
  BY FS_CardinalityType
<1> DEFINE n == Cardinality(S)
<1>2. PICK f : f \in Bijection(1 .. n, S)
  BY <1>1 DEF ExistsBijection
<1>3. f \in [1 .. n -> S] /\ IsInjective(f)
  BY <1>2 DEF Bijection, Injection, IsInjective
<1>4. SetToSeq(S) \in [1 .. n -> S]
  BY <1>3 DEF SetToSeq
<1> QED
  BY <1>1, <1>4, SeqDef

LEMMA AnswersType ==
  ASSUME NEW t \in TurnId, NEW calls \in SUBSET ToolCallId, IsFiniteSet(calls),
         NEW yes \in BOOLEAN
  PROVE  Answers(t, calls, yes) \in Seq(Confirmation)
<1> DEFINE answer(c) == [type |-> "toolCallConfirmed", turn |-> t, tool |-> c,
                         approved |-> yes]
           S == {answer(c) : c \in calls}
           f == [c \in calls |-> answer(c)]
<1>1. S \subseteq Confirmation
  <2>1. ASSUME NEW c \in calls
        PROVE  answer(c) \in Confirmation
    BY DEF Confirmation, SessionAction
  <2> QED
    BY <2>1
<1>2. f \in Surjection(calls, S)
  BY DEF Surjection
<1> HIDE DEF f, S
<1>3. IsFiniteSet(S)
  BY <1>2, FS_Surjection
<1>4. SetToSeq(S) \in Seq(S)
  BY <1>3, SetToSeqType
<1>5. SetToSeq(S) \in Seq(Confirmation)
  BY <1>1, <1>4, SeqMonotonic
<1> QED
  BY <1>5 DEF Answers, S

LEMMA AnswersNone ==
  ASSUME NEW t, NEW yes
  PROVE  Answers(t, {}, yes) = <<>>
<1>1. IsFiniteSet({})
  BY FS_EmptySet
<1>2. SetToSeq({}) \in Seq({})
  BY <1>1, SetToSeqType
<1>3. SetToSeq({}) = <<>>
  <2>1. PICK x \in Seq({}) : x = SetToSeq({})
    BY <1>2
  <2>2. x = <<>>
    <3>1. Len(x) \in Nat /\ \A i \in 1 .. Len(x) : x[i] \in {}
      BY LenProperties, ElementOfSeq
    <3>2. Len(x) = 0
      <4>1. Len(x) # 0 => 1 \in 1 .. Len(x)
        BY <3>1
      <4> QED
        BY <3>1, <4>1
    <3> QED
      BY <3>2, EmptySeq
  <2> QED
    BY <2>1, <2>2
<1> QED
  BY <1>3 DEF Answers

LEMMA PartsOfTurnType ==
  ASSUME NEW v, Sound(v), NEW t
  PROVE  PartsOfTurn(v, t) \in Seq(Part)
<1>1. v \in SessionState /\ v.turns \in Seq(Turn)
  BY DEF Sound, SessionState
<1>2. CASE IsActive(v, t)
  BY <1>2, ActivePartsType DEF PartsOfTurn, IsActive
<1>3. CASE ~IsActive(v, t)
  <2> DEFINE past == {i \in DOMAIN v.turns : v.turns[i].id = t}
             k == CHOOSE i \in past : TRUE
  <2>1. CASE past = {}
    <3>1. PartsOfTurn(v, t) = <<>>
      BY <1>3, <2>1 DEF PartsOfTurn
    <3> QED
      BY <3>1, EmptySeq
  <2>2. CASE past # {}
    <3>1. PartsOfTurn(v, t) = v.turns[k].parts
      BY <1>3, <2>2 DEF PartsOfTurn
    <3>2. k \in DOMAIN v.turns
      BY <2>2
    <3> HIDE DEF k
    <3>3. v.turns[k] \in Turn
      BY <1>1, <3>2, LenProperties, ElementOfSeq
    <3> QED
      BY <3>1, <3>3 DEF Turn
  <2> QED
    BY <2>1, <2>2
<1> QED
  BY <1>2, <1>3

\* There is nothing of a turn that is absent.
LEMMA PartsOfNoTurn ==
  ASSUME NEW v, Sound(v)
  PROVE  PartsOfTurn(v, None) = <<>>
<1>1. v \in SessionState /\ v.turns \in Seq(Turn)
  BY DEF Sound, SessionState
<1>2. ~IsActive(v, None)
  <2>1. v.activeTurn # None => v.activeTurn \in ActiveTurn
    BY <1>1 DEF SessionState
  <2> QED
    BY <2>1, NoneIsNoId DEF IsActive, ActiveTurn
<1>3. ASSUME NEW i \in DOMAIN v.turns
      PROVE  v.turns[i].id # None
  <2>1. v.turns[i] \in Turn
    BY <1>1, LenProperties, ElementOfSeq
  <2> QED
    BY <2>1, NoneIsNoId DEF Turn
<1>4. {i \in DOMAIN v.turns : v.turns[i].id = None} = {}
  BY <1>3
<1> QED
  BY <1>2, <1>4 DEF PartsOfTurn

\* Calls of which something is shown.
ShownCalls(shown) == {x \in ToolCallId : shown[x] # "none"}

\* Of finitely many parts finitely many calls are shown.
LEMMA ShownType ==
  ASSUME NEW shown \in [ToolCallId -> Invocation], IsFiniteSet(ShownCalls(shown)),
         NEW parts \in Seq(Part)
  PROVE  /\ Shown(shown, parts) \in [ToolCallId -> Invocation]
         /\ IsFiniteSet(ShownCalls(Shown(shown, parts)))
         /\ parts = <<>> => Shown(shown, parts) = shown
<1> DEFINE new == Shown(shown, parts)
           n == Len(parts)
           ids == {parts[i].id : i \in 1 .. n}
           f == [i \in 1 .. n |-> parts[i].id]
<1>1. n \in Nat /\ DOMAIN parts = 1 .. n
  BY LenProperties
<1>2. \A x \in ToolCallId : new[x] = InvocationOf(shown[x], StatusIn(parts, x))
  BY DEF Shown
<1>3. ASSUME NEW x \in ToolCallId
      PROVE  /\ new[x] \in Invocation
             /\ x \notin ids => new[x] = shown[x]
  <2>1. shown[x] \in Invocation
    OBVIOUS
  <2>2. new[x] \in Invocation
    BY <1>2, <2>1 DEF InvocationOf, Invocation, Settled, Unasked
  <2>3. x \notin ids => StatusIn(parts, x) = "absent"
    BY <1>1 DEF StatusIn, IsToolCall
  <2>4. InvocationOf(shown[x], "absent") = shown[x]
    BY DEF InvocationOf, Settled, Unasked, ToolCallStatus
  <2> HIDE DEF new
  <2> QED
    BY <1>2, <2>2, <2>3, <2>4
<1>4. new = [x \in ToolCallId |-> new[x]]
  BY DEF Shown
<1>5. IsFiniteSet(ids)
  <2>1. f \in Surjection(1 .. n, ids)
    BY DEF Surjection
  <2>2. IsFiniteSet(1 .. n)
    <3> HIDE DEF n
    <3>1. n \in Int /\ 1 \in Int
      BY <1>1
    <3> QED
      BY ONLY <3>1, FS_Interval
  <2> HIDE DEF f, ids, n
  <2> QED
    BY ONLY <2>1, <2>2, FS_Surjection
<1>6. IsFiniteSet(ShownCalls(new))
  <2>1. ShownCalls(new) \in SUBSET (ShownCalls(shown) \cup ids)
    BY <1>3 DEF ShownCalls
  <2> HIDE DEF ids, new
  <2>2. IsFiniteSet(ShownCalls(shown) \cup ids)
    BY <1>5, FS_Union
  <2> QED
    BY <2>1, <2>2, FS_Subset
<1>7. ASSUME parts = <<>>
      PROVE  new = shown
  <2>1. ids = {}
    BY <1>1, <1>7
  <2>2. \A x \in ToolCallId : new[x] = shown[x]
    BY <1>3, <2>1
  <2>3. shown = [x \in ToolCallId |-> shown[x]]
    OBVIOUS
  <2> HIDE DEF new
  <2> QED
    BY <1>4, <2>2, <2>3
<1>8. new \in [ToolCallId -> Invocation]
  <2> HIDE DEF new
  <2> QED
    BY <1>3, <1>4
<1> QED
  BY <1>6, <1>7, <1>8

\* A call that waits is asked about, whatever was shown of it.
LEMMA ShownWaits ==
  ASSUME NEW shown, NEW parts, NEW x \in ToolCallId,
         StatusIn(parts, x) = "pendingConfirmation"
  PROVE  Shown(shown, parts)[x] = "waiting"
BY DEF Shown, InvocationOf, Settled, Unasked

-----------------------------------------------------------------------------
(* The trackers.                                                           *)

\* What is kept of a chat in every state it passes through, also within a step: a
\* tracker without a turn shows nothing, and only a request that is tracked is
\* pending as one sent here.
ChatShape(c) ==
  /\ c \in HandlerState /\ Sound(c.confirmed) /\ IsInjective(c.queue)
  /\ \A k \in Tracker : /\ c.turn[k] = None => c.invocations[k] = NoInvocations
                        /\ IsFiniteSet(ShownCalls(c.invocations[k]))
  /\ c.request = "own" => c.turn["request"] # None

LEMMA ChatFields ==
  ASSUME NEW c, ChatShape(c)
  PROVE  /\ c.confirmed \in SessionState /\ Sound(c.confirmed)
         /\ c.sent \in Seq(SessionAction)
         /\ c.queue \in Seq(MessageId) /\ IsInjective(c.queue)
         /\ c.synced \in BOOLEAN
         /\ c.previousQueued \in (SUBSET MessageId) \cup {None}
         /\ c.lastSeen \in TurnId \cup {None}
         /\ c.turn \in [Tracker -> TurnId \cup {None}]
         /\ c.invocations \in [Tracker -> [ToolCallId -> Invocation]]
         /\ c.streaming \in BOOLEAN /\ c.complete \in BOOLEAN
         /\ c.request \in {"none", "own", "server"}
         /\ c.listening \in BOOLEAN
         /\ c.interrupts \in TurnId \cup {None}
BY DEF ChatShape, HandlerState

LEMMA ViewSound ==
  ASSUME NEW c, ChatShape(c)
  PROVE  Sound(View(c)) /\ QueuedIds(View(c).queued) \in SUBSET MessageId
<1>1. Sound(View(c))
  BY ChatFields, AppliedSound DEF View
<1>2. View(c).queued \in Seq(PendingMessage)
  BY <1>1 DEF Sound, SessionState
<1> DEFINE q == View(c).queued
<1>3. \A i \in DOMAIN q : q[i].id \in MessageId
  <2> HIDE DEF q
  <2>1. \A i \in DOMAIN q : q[i] \in PendingMessage
    BY <1>2, LenProperties, ElementOfSeq DEF q
  <2> QED
    BY <2>1 DEF PendingMessage
<1> QED
  BY <1>1, <1>3 DEF QueuedIds

\* More actions are sent.
Sending(c, q) == [c EXCEPT !.sent = @ \o q]

LEMMA SentShape ==
  ASSUME NEW c, ChatShape(c), NEW q \in Seq(SessionAction), NEW d, d = Sending(c, q)
  PROVE  /\ ChatShape(d)
         /\ d.sent = c.sent \o q /\ d.confirmed = c.confirmed /\ d.queue = c.queue
         /\ d.synced = c.synced /\ d.lastSeen = c.lastSeen /\ d.turn = c.turn
         /\ d.invocations = c.invocations /\ d.request = c.request
         /\ View(d) = Applied(View(c), q)
<1>1. c.sent \o q \in Seq(SessionAction)
  BY ChatFields, ConcatProperties
<1> USE DEF Sending
<1>2. d \in HandlerState
  BY <1>1 DEF ChatShape, HandlerState
<1>3. /\ d.sent = c.sent \o q /\ d.confirmed = c.confirmed /\ d.queue = c.queue
      /\ d.synced = c.synced /\ d.lastSeen = c.lastSeen /\ d.turn = c.turn
      /\ d.invocations = c.invocations /\ d.request = c.request
  BY DEF ChatShape, HandlerState
<1>4. View(d) = Applied(View(c), q)
  BY <1>3, ChatFields, AppliedConcat DEF View
<1> QED
  BY <1>2, <1>3, <1>4 DEF ChatShape

LEMMA WithAnswersShape ==
  ASSUME NEW c, ChatShape(c), NEW q \in Seq(Confirmation),
         NEW queued \in SUBSET MessageId, NEW d, d = WithAnswers(c, q, queued)
  PROVE  /\ ChatShape(d)
         /\ d.sent = c.sent \o q /\ d.confirmed = c.confirmed /\ d.queue = c.queue
         /\ d.synced = c.synced /\ d.lastSeen = c.lastSeen /\ d.turn = c.turn
         /\ d.invocations = c.invocations /\ d.request = c.request
<1>1. q \in Seq(SessionAction)
  <2>1. Confirmation \subseteq SessionAction
    BY DEF Confirmation
  <2> QED
    BY <2>1, SeqMonotonic
<1>2. CASE q = <<>>
  <2>1. c.sent \o q = c.sent
    BY <1>2, ChatFields, ConcatEmptySeq
  <2> QED
    BY <1>2, <2>1 DEF WithAnswers
<1>3. CASE q # <<>>
  <2> DEFINE e == Sending(c, q)
  <2>1. ChatShape(e) /\ e.sent = c.sent \o q
    BY <1>1, SentShape
  <2>2. d = [e EXCEPT !.previousQueued = queued]
    BY <1>3 DEF WithAnswers, ChatShape, HandlerState, Sending
  <2>3. /\ e.confirmed = c.confirmed /\ e.queue = c.queue
        /\ e.synced = c.synced /\ e.lastSeen = c.lastSeen /\ e.turn = c.turn
        /\ e.invocations = c.invocations /\ e.request = c.request
    BY <1>1, SentShape
  <2> HIDE DEF e
  <2>4. d \in HandlerState
    BY <2>1, <2>2 DEF ChatShape, HandlerState
  <2>5. /\ d.sent = e.sent /\ d.confirmed = e.confirmed /\ d.queue = e.queue
        /\ d.synced = e.synced /\ d.lastSeen = e.lastSeen /\ d.turn = e.turn
        /\ d.invocations = e.invocations /\ d.request = e.request
    BY <2>1, <2>2 DEF ChatShape, HandlerState
  <2> QED
    BY <2>1, <2>3, <2>4, <2>5 DEF ChatShape
<1> QED
  BY <1>2, <1>3

LEMMA FinishedShape ==
  ASSUME NEW c, ChatShape(c), NEW k \in Tracker, NEW d, d = Finished(c, k)
  PROVE  /\ ChatShape(d)
         /\ d.sent = c.sent /\ d.confirmed = c.confirmed /\ d.queue = c.queue
         /\ d.synced = c.synced /\ d.lastSeen = c.lastSeen
         /\ \A j \in Tracker \ {k} : d.turn[j] = c.turn[j] /\ d.invocations[j] = c.invocations[j]
         /\ d.turn[k] = None
<1>1. NoInvocations \in [ToolCallId -> Invocation] /\ IsFiniteSet(ShownCalls(NoInvocations))
  <2>1. ShownCalls(NoInvocations) = {}
    BY DEF ShownCalls, NoInvocations
  <2> QED
    BY <2>1, FS_EmptySet DEF NoInvocations, Invocation
<1>2. /\ d.turn = [c.turn EXCEPT ![k] = None]
      /\ d.invocations = [c.invocations EXCEPT ![k] = NoInvocations]
      /\ d.request = IF k = "request" /\ c.request = "own" THEN "none" ELSE c.request
      /\ d.sent = c.sent /\ d.confirmed = c.confirmed /\ d.queue = c.queue
      /\ d.synced = c.synced /\ d.lastSeen = c.lastSeen
  BY DEF Finished, ChatShape, HandlerState
<1>3. /\ d.turn \in [Tracker -> TurnId \cup {None}]
      /\ d.invocations \in [Tracker -> [ToolCallId -> Invocation]]
      /\ d.request \in {"none", "own", "server"}
  BY <1>1, <1>2, ChatFields
<1>4. d \in HandlerState
  <2>1. d = [c EXCEPT !.turn = d.turn, !.invocations = d.invocations, !.complete = TRUE,
                      !.listening = FALSE, !.request = d.request]
    BY DEF Finished, ChatShape, HandlerState
  <2>2. c \in HandlerState
    BY DEF ChatShape
  <2> QED
    BY <1>3, <2>1, <2>2 DEF HandlerState
<1>5. /\ \A j \in Tracker \ {k} : d.turn[j] = c.turn[j] /\ d.invocations[j] = c.invocations[j]
      /\ d.turn[k] = None /\ d.invocations[k] = NoInvocations
  BY <1>2, ChatFields
<1>6. d.request = "own" => d.turn["request"] # None
  <2>1. CASE k = "request"
    BY <1>2, <2>1
  <2>2. CASE k # "request"
    BY <1>2, <1>5, <2>2 DEF ChatShape, Tracker
  <2> QED
    BY <2>1, <2>2
<1>7. \A j \in Tracker : /\ d.turn[j] = None => d.invocations[j] = NoInvocations
                         /\ IsFiniteSet(ShownCalls(d.invocations[j]))
  BY <1>1, <1>5 DEF ChatShape
<1> QED
  BY <1>2, <1>4, <1>5, <1>6, <1>7 DEF ChatShape

\* Chat c becomes d when tracker k takes in the state.
TracksTo(c, d, k) ==
  /\ \E q \in Seq(Confirmation) : d.sent = c.sent \o q
  /\ d.confirmed = c.confirmed /\ d.queue = c.queue
  /\ d.synced = c.synced /\ d.lastSeen = c.lastSeen
  /\ \A j \in Tracker \ {k} : d.turn[j] = c.turn[j] /\ d.invocations[j] = c.invocations[j]
  /\ IF c.turn[k] # None /\ IsActive(View(c), c.turn[k])
     THEN /\ d.turn[k] = c.turn[k]
          /\ d.invocations[k] = Shown(c.invocations[k], PartsOfTurn(View(c), c.turn[k]))
     ELSE d.turn[k] = None

LEMMA RepliesType ==
  ASSUME NEW c, ChatShape(c), NEW k \in Tracker, c.turn[k] # None,
         NEW asked \in SUBSET ToolCallId, IsFiniteSet(asked), NEW active \in BOOLEAN
  PROVE  RepliesTo(c, k, asked, active) \in Seq(Confirmation)
<1> DEFINE t == c.turn[k]
           finalized == {x \in asked : c.invocations[k][x] = "done"}
           open == IF active THEN {} ELSE asked \ finalized
<1>1. t \in TurnId
  BY ChatFields
<1>2. /\ finalized \in SUBSET ToolCallId /\ IsFiniteSet(finalized)
      /\ open \in SUBSET ToolCallId /\ IsFiniteSet(open)
      /\ finalized \cup open \in SUBSET ToolCallId /\ IsFiniteSet(finalized \cup open)
  <2>1. finalized \in SUBSET asked /\ open \in SUBSET asked
        /\ finalized \cup open \in SUBSET asked
    OBVIOUS
  <2> HIDE DEF finalized, open
  <2> QED
    BY <2>1, FS_Subset
<1>3. RepliesTo(c, k, asked, active) =
        IF k = "reconnect"
        THEN Answers(t, finalized, TRUE) \o Answers(t, open, FALSE)
        ELSE Answers(t, finalized \cup open, TRUE)
  BY DEF RepliesTo
<1> HIDE DEF t, finalized, open
<1>4. /\ Answers(t, finalized, TRUE) \in Seq(Confirmation)
      /\ Answers(t, open, FALSE) \in Seq(Confirmation)
      /\ Answers(t, finalized \cup open, TRUE) \in Seq(Confirmation)
  BY <1>1, <1>2, AnswersType
<1>5. Answers(t, finalized, TRUE) \o Answers(t, open, FALSE) \in Seq(Confirmation)
  BY <1>4, ConcatProperties
<1> QED
  BY <1>3, <1>4, <1>5

LEMMA TrackShape ==
  ASSUME NEW c, ChatShape(c), NEW k \in Tracker, NEW d, d = Track(c, k)
  PROVE  ChatShape(d) /\ TracksTo(c, d, k)
<1> DEFINE t == c.turn[k]
           v == View(c)
<1>1. CASE t = None
  <2>1. d = c
    BY <1>1 DEF Track
  <2>2. c.sent \o <<>> = c.sent /\ <<>> \in Seq(Confirmation)
    BY ChatFields, ConcatEmptySeq, EmptySeq
  <2> QED
    BY <1>1, <2>1, <2>2 DEF TracksTo
<1>2. CASE t # None
  <2> DEFINE shown == Shown(c.invocations[k], PartsOfTurn(v, t))
             b == [c EXCEPT !.invocations[k] = shown]
             asked == Questions(c, k)
             active == IsActive(v, t)
             queued == QueuedIds(v.queued)
             q == RepliesTo(b, k, asked, active)
             e == WithAnswers(b, q, queued)
  <2>1. d = IF active THEN e ELSE Finished(e, k)
    BY <1>2 DEF Track, Tracks, TracksIn, Tracked
  <2>2. Sound(v) /\ queued \in SUBSET MessageId
    BY ViewSound
  <2>3. /\ shown \in [ToolCallId -> Invocation] /\ IsFiniteSet(ShownCalls(shown))
    <3>1. PartsOfTurn(v, t) \in Seq(Part)
      BY <2>2, PartsOfTurnType
    <3>2. c.invocations[k] \in [ToolCallId -> Invocation]
          /\ IsFiniteSet(ShownCalls(c.invocations[k]))
      BY ChatFields DEF ChatShape
    <3> QED
      BY <3>1, <3>2, ShownType
  <2>4. asked \in SUBSET ToolCallId /\ IsFiniteSet(asked)
    <3>1. asked \in SUBSET ShownCalls(c.invocations[k])
      BY DEF Questions, ShownCalls
    <3>2. IsFiniteSet(ShownCalls(c.invocations[k]))
      BY DEF ChatShape
    <3>3. asked \in SUBSET ToolCallId
      BY DEF Questions
    <3> HIDE DEF asked
    <3> QED
      BY <3>1, <3>2, <3>3, FS_Subset
  <2>5. active \in BOOLEAN
    BY DEF IsActive
  <2> HIDE DEF shown, asked, active, queued
  <2>6. /\ b.sent = c.sent /\ b.confirmed = c.confirmed /\ b.queue = c.queue
        /\ b.synced = c.synced /\ b.lastSeen = c.lastSeen /\ b.turn = c.turn
        /\ b.request = c.request /\ b.invocations = [c.invocations EXCEPT ![k] = shown]
    BY DEF ChatShape, HandlerState
  <2>7. /\ b.invocations \in [Tracker -> [ToolCallId -> Invocation]]
        /\ b.invocations[k] = shown
        /\ \A j \in Tracker \ {k} : b.invocations[j] = c.invocations[j]
    BY <2>3, <2>6, ChatFields
  <2>8. ChatShape(b)
    <3>1. b \in HandlerState
      <4>1. b = [c EXCEPT !.invocations = b.invocations] /\ c \in HandlerState
        BY DEF ChatShape, HandlerState
      <4> HIDE DEF b
      <4> QED
        BY <2>7, <4>1 DEF HandlerState
    <3> HIDE DEF b
    <3>2. \A j \in Tracker : /\ b.turn[j] = None => b.invocations[j] = NoInvocations
                             /\ IsFiniteSet(ShownCalls(b.invocations[j]))
      BY <1>2, <2>3, <2>6, <2>7 DEF ChatShape
    <3> QED
      BY <2>6, <3>1, <3>2 DEF ChatShape
  <2> HIDE DEF b
  <2>9. q \in Seq(Confirmation)
    <3>1. b.turn[k] # None
      BY <1>2, <2>6
    <3> QED
      BY <2>4, <2>5, <2>8, <3>1, RepliesType
  <2> HIDE DEF q
  <2>10. /\ ChatShape(e)
         /\ e.sent = b.sent \o q /\ e.confirmed = b.confirmed /\ e.queue = b.queue
         /\ e.synced = b.synced /\ e.lastSeen = b.lastSeen /\ e.turn = b.turn
         /\ e.invocations = b.invocations /\ e.request = b.request
    BY <2>2, <2>8, <2>9, WithAnswersShape DEF queued
  <2> HIDE DEF e
  <2>11. CASE active
    <3>1. d = e
      BY <2>1, <2>11
    <3>2. TracksTo(c, d, k)
      BY <1>2, <2>6, <2>7, <2>9, <2>10, <2>11, <3>1 DEF TracksTo, active, shown
    <3> QED
      BY <2>10, <3>1, <3>2
  <2>12. CASE ~active
    <3>1. d = Finished(e, k)
      BY <2>1, <2>12
    <3>2. /\ ChatShape(d)
          /\ d.sent = e.sent /\ d.confirmed = e.confirmed /\ d.queue = e.queue
          /\ d.synced = e.synced /\ d.lastSeen = e.lastSeen
          /\ \A j \in Tracker \ {k} : d.turn[j] = e.turn[j] /\ d.invocations[j] = e.invocations[j]
          /\ d.turn[k] = None
      BY <2>10, <3>1, FinishedShape
    <3>3. ~IsActive(View(c), c.turn[k])
      BY <2>12 DEF active
    <3>4. /\ d.sent = c.sent \o q /\ d.confirmed = c.confirmed /\ d.queue = c.queue
          /\ d.synced = c.synced /\ d.lastSeen = c.lastSeen
      BY <2>6, <2>10, <3>2
    <3>5. \A j \in Tracker \ {k} : d.turn[j] = c.turn[j] /\ d.invocations[j] = c.invocations[j]
      BY <2>6, <2>7, <2>10, <3>2
    <3>6. TracksTo(c, d, k)
      BY <2>9, <3>2, <3>3, <3>4, <3>5 DEF TracksTo
    <3> QED
      BY <3>2, <3>6
  <2> QED
    BY <2>11, <2>12
<1> QED
  BY <1>1, <1>2

-----------------------------------------------------------------------------
(* The queue of the session follows that of the chat.                      *)

\* The edits that remove the given messages, and those that add them.
Removals(ids) == [i \in DOMAIN ids |-> RemovesQueued(ids[i])]

Additions(ids) == [i \in DOMAIN ids |-> SetsQueued(ids[i])]

LEMMA EditsType ==
  ASSUME NEW ids \in Seq(MessageId)
  PROVE  Removals(ids) \in Seq(QueueEdit) /\ Additions(ids) \in Seq(QueueEdit)
<1>1. Prompt \in Text
  BY TextIsThere DEF Prompt
<1>2. /\ Len(ids) \in Nat /\ DOMAIN ids = 1 .. Len(ids)
      /\ \A i \in 1 .. Len(ids) : ids[i] \in MessageId
  BY LenProperties, ElementOfSeq
<1>3. ASSUME NEW m \in MessageId
      PROVE  RemovesQueued(m) \in QueueEdit /\ SetsQueued(m) \in QueueEdit
  BY <1>1 DEF RemovesQueued, SetsQueued, QueueEdit, SessionAction, QueueAction
<1>4. /\ Removals(ids) \in [1 .. Len(ids) -> QueueEdit]
      /\ Additions(ids) \in [1 .. Len(ids) -> QueueEdit]
  BY <1>2, <1>3 DEF Removals, Additions
<1> QED
  BY <1>2, <1>4, SeqDef

LEMMA EditsAppend ==
  ASSUME NEW ids \in Seq(MessageId), NEW m \in MessageId
  PROVE  /\ Removals(Append(ids, m)) = Append(Removals(ids), RemovesQueued(m))
         /\ Additions(Append(ids, m)) = Append(Additions(ids), SetsQueued(m))
<1> DEFINE t == Append(ids, m)
           n == Len(ids)
           R == Append(Removals(ids), RemovesQueued(m))
           A == Append(Additions(ids), SetsQueued(m))
<1>1. /\ n \in Nat /\ DOMAIN ids = 1 .. n
      /\ DOMAIN t = 1 .. n + 1 /\ t[n + 1] = m /\ \A i \in 1 .. n : t[i] = ids[i]
  <2>1. t \in Seq(MessageId) /\ Len(t) = n + 1
    BY AppendProperties
  <2> HIDE DEF t
  <2>2. DOMAIN t = 1 .. n + 1
    BY <2>1, LenProperties
  <2> QED
    BY <2>2, LenProperties, AppendProperties DEF t
<1>2. /\ Removals(ids) \in Seq(QueueEdit) /\ Additions(ids) \in Seq(QueueEdit)
      /\ Len(Removals(ids)) = n /\ Len(Additions(ids)) = n
  <2>1. Removals(ids) \in Seq(QueueEdit) /\ Additions(ids) \in Seq(QueueEdit)
    BY EditsType
  <2>2. DOMAIN Removals(ids) = 1 .. n /\ DOMAIN Additions(ids) = 1 .. n
    BY <1>1 DEF Removals, Additions
  <2>3. /\ DOMAIN Removals(ids) = 1 .. Len(Removals(ids)) /\ Len(Removals(ids)) \in Nat
        /\ DOMAIN Additions(ids) = 1 .. Len(Additions(ids)) /\ Len(Additions(ids)) \in Nat
    BY <2>1, LenProperties
  <2>4. Len(Removals(ids)) = n /\ Len(Additions(ids)) = n
    <3>1. \A a, b \in Nat : 1 .. a = 1 .. b => a = b
      OBVIOUS
    <3> HIDE DEF n
    <3>2. n \in Nat
      BY <1>1
    <3> QED
      BY ONLY <3>1, <3>2, <2>2, <2>3
  <2> QED
    BY <2>1, <2>4
<1>3. /\ RemovesQueued(m) \in QueueEdit /\ SetsQueued(m) \in QueueEdit
  <2>1. Prompt \in Text
    BY TextIsThere DEF Prompt
  <2> QED
    BY <2>1 DEF RemovesQueued, SetsQueued, QueueEdit, SessionAction, QueueAction
<1>4. /\ R \in Seq(QueueEdit) /\ Len(R) = n + 1 /\ R[n + 1] = RemovesQueued(m)
      /\ \A i \in 1 .. n : R[i] = Removals(ids)[i]
  BY <1>2, <1>3, AppendProperties
<1>5. /\ A \in Seq(QueueEdit) /\ Len(A) = n + 1 /\ A[n + 1] = SetsQueued(m)
      /\ \A i \in 1 .. n : A[i] = Additions(ids)[i]
  BY <1>2, <1>3, AppendProperties
<1>6. \A i \in 1 .. n : Removals(ids)[i] = RemovesQueued(ids[i])
                        /\ Additions(ids)[i] = SetsQueued(ids[i])
  BY <1>1 DEF Removals, Additions
<1> HIDE DEF R, A, t
<1>7. /\ R = [i \in 1 .. n + 1 |-> R[i]] /\ A = [i \in 1 .. n + 1 |-> A[i]]
  BY <1>4, <1>5, LenProperties, SeqDef
<1>8. \A i \in 1 .. n + 1 : i \in 1 .. n \/ i = n + 1
  BY <1>1
<1>9. \A i \in 1 .. n + 1 : R[i] = RemovesQueued(t[i]) /\ A[i] = SetsQueued(t[i])
  BY <1>1, <1>4, <1>5, <1>6, <1>8
<1>10. R = Removals(t)
  BY <1>1, <1>7, <1>9 DEF Removals
<1>11. A = Additions(t)
  BY <1>1, <1>7, <1>9 DEF Additions
<1> QED
  BY <1>10, <1>11 DEF R, A, t

LEMMA WithoutIds ==
  ASSUME NEW queue \in Seq(PendingMessage), UniqueIds(queue), NEW id
  PROVE  QueuedIds(Without(queue, id)) = QueuedIds(queue) \ {id}
<1> DEFINE n == Len(queue)
           k == CHOOSE i \in DOMAIN queue : queue[i].id = id
<1>1. n \in Nat /\ DOMAIN queue = 1 .. n
  BY LenProperties
<1>2. CASE id \notin QueuedIds(queue)
  BY <1>2 DEF Without
<1>3. CASE id \in QueuedIds(queue)
  <2>1. k \in 1 .. n /\ queue[k].id = id
    BY <1>1, <1>3 DEF QueuedIds
  <2>2. Without(queue, id) = WithoutAt(queue, k)
    BY <1>3 DEF Without
  <2> HIDE DEF k
  <2> DEFINE w == WithoutAt(queue, k)
  <2>3. /\ DOMAIN w = 1 .. n - 1
        /\ \A i \in 1 .. n - 1 : w[i] = IF i < k THEN queue[i] ELSE queue[i + 1]
    BY DEF WithoutAt
  <2> HIDE DEF w, n
  <2>4. ASSUME NEW i \in 1 .. n - 1
        PROVE  \E j \in 1 .. n : j # k /\ w[i] = queue[j]
    <3>1. CASE i < k
      BY <1>1, <2>1, <2>3, <3>1
    <3>2. CASE ~(i < k)
      <4>1. i + 1 \in 1 .. n /\ i + 1 # k
        BY <1>1, <2>1, <3>2
      <4> QED
        BY <2>3, <3>2, <4>1
    <3> QED
      BY <3>1, <3>2
  <2>5. ASSUME NEW j \in 1 .. n, j # k
        PROVE  \E i \in 1 .. n - 1 : w[i] = queue[j]
    <3>1. CASE j < k
      <4>1. j \in 1 .. n - 1
        BY <1>1, <2>1, <3>1
      <4> QED
        BY <2>3, <3>1, <4>1
    <3>2. CASE j > k
      <4>1. j - 1 \in 1 .. n - 1 /\ ~(j - 1 < k) /\ j - 1 + 1 = j
        BY <1>1, <2>1, <3>2
      <4> QED
        BY <2>3, <4>1
    <3> QED
      BY <1>1, <2>1, <2>5, <3>1, <3>2
  <2>6. \A j \in 1 .. n : j # k => queue[j].id # id
    BY <1>1, <2>1 DEF UniqueIds
  <2>7. QueuedIds(w) = QueuedIds(queue) \ {id}
    <3>1. /\ QueuedIds(w) = {w[i].id : i \in 1 .. n - 1}
          /\ QueuedIds(queue) = {queue[j].id : j \in 1 .. n}
      BY <1>1, <2>3 DEF QueuedIds, n
    <3>2. ASSUME NEW i \in 1 .. n - 1
          PROVE  w[i].id \in {queue[j].id : j \in 1 .. n} \ {id}
      BY <2>4, <2>6
    <3>3. ASSUME NEW j \in 1 .. n, queue[j].id # id
          PROVE  queue[j].id \in {w[i].id : i \in 1 .. n - 1}
      <4>1. j # k
        BY <2>1, <3>3
      <4> QED
        BY <2>5, <4>1
    <3> QED
      BY <3>1, <3>2, <3>3
  <2> QED
    BY <2>2, <2>7 DEF w
<1> QED
  BY <1>2, <1>3

LEMMA UpsertIds ==
  ASSUME NEW queue \in Seq(PendingMessage), NEW entry \in PendingMessage
  PROVE  QueuedIds(Upsert(queue, entry)) = QueuedIds(queue) \cup {entry.id}
<1>1. Len(queue) \in Nat /\ DOMAIN queue = 1 .. Len(queue)
  BY LenProperties
<1>2. CASE entry.id \in QueuedIds(queue)
  BY <1>2 DEF Upsert, QueuedIds
<1>3. CASE entry.id \notin QueuedIds(queue)
  <2> DEFINE n == Len(queue)
             u == Append(queue, entry)
  <2>1. /\ u \in Seq(PendingMessage) /\ Len(u) = n + 1 /\ u[n + 1] = entry
        /\ \A i \in 1 .. n : u[i] = queue[i]
    BY AppendProperties
  <2> HIDE DEF u
  <2>2. DOMAIN u = 1 .. n + 1
    BY <2>1, LenProperties
  <2> HIDE DEF n
  <2>3. n \in Nat /\ DOMAIN queue = 1 .. n
    BY <1>1 DEF n
  <2>4. (\A i \in 1 .. n + 1 : i \in 1 .. n \/ i = n + 1) /\ n + 1 \in 1 .. n + 1
        /\ \A i \in 1 .. n : i \in 1 .. n + 1
    BY <2>3
  <2>5. QueuedIds(u) = QueuedIds(queue) \cup {entry.id}
    BY <2>1, <2>2, <2>3, <2>4 DEF QueuedIds
  <2> QED
    BY <1>3, <2>5 DEF Upsert, u
<1> QED
  BY <1>2, <1>3

\* What the edits make of the ids that are queued.
LEMMA EditedIds ==
  ASSUME NEW s, Sound(s), NEW ids \in Seq(MessageId)
  PROVE  /\ QueuedIds(Applied(s, Removals(ids)).queued) = QueuedIds(s.queued) \ ToSet(ids)
         /\ QueuedIds(Applied(s, Additions(ids)).queued) = QueuedIds(s.queued) \cup ToSet(ids)
<1> DEFINE R(p) == QueuedIds(Applied(s, Removals(p)).queued) = QueuedIds(s.queued) \ ToSet(p)
           A(p) == QueuedIds(Applied(s, Additions(p)).queued) = QueuedIds(s.queued) \cup ToSet(p)
           T == {p \in Seq(MessageId) : R(p) /\ A(p)}
<1>0. QueueEdit \subseteq SessionAction
  BY DEF QueueEdit
<1>1. <<>> \in T
  <2>1. Removals(<<>>) = <<>> /\ Additions(<<>>) = <<>> /\ ToSet(<<>>) = {}
    BY DEF Removals, Additions, ToSet
  <2>2. Applied(s, <<>>) = s
    BY AppliedNone
  <2>3. <<>> \in Seq(MessageId)
    BY EmptySeq
  <2> QED
    BY <2>1, <2>2, <2>3
<1>2. ASSUME NEW p \in T, NEW m \in MessageId
      PROVE  Append(p, m) \in T
  <2>1. p \in Seq(MessageId) /\ R(p) /\ A(p) /\ Append(p, m) \in Seq(MessageId)
    BY <1>2, AppendProperties
  <2>2. Removals(p) \in Seq(SessionAction) /\ Additions(p) \in Seq(SessionAction)
    BY <1>0, <2>1, EditsType, SeqMonotonic
  <2> DEFINE x == Applied(s, Removals(p))
             y == Applied(s, Additions(p))
  <2>3. Sound(x) /\ Sound(y)
    BY <2>2, AppliedSound
  <2>4. /\ RemovesQueued(m) \in SessionAction /\ SetsQueued(m) \in SessionAction
        /\ [id |-> m, text |-> Prompt] \in PendingMessage
    <3>1. Prompt \in Text
      BY TextIsThere DEF Prompt
    <3> QED
      BY <3>1 DEF RemovesQueued, SetsQueued, SessionAction, PendingMessage
  <2>5. /\ Applied(s, Removals(Append(p, m))) = Reduce(x, RemovesQueued(m))
        /\ Applied(s, Additions(Append(p, m))) = Reduce(y, SetsQueued(m))
    <3>1. /\ Applied(s, Append(Removals(p), RemovesQueued(m))) = Reduce(x, RemovesQueued(m))
          /\ Applied(s, Append(Additions(p), SetsQueued(m))) = Reduce(y, SetsQueued(m))
      <4>1. \A q \in Seq(SessionAction), a \in SessionAction :
              Applied(s, Append(q, a)) = Reduce(Applied(s, q), a)
        BY AppliedAppend
      <4> QED
        BY <2>2, <2>4, <4>1
    <3>2. /\ Removals(Append(p, m)) = Append(Removals(p), RemovesQueued(m))
          /\ Additions(Append(p, m)) = Append(Additions(p), SetsQueued(m))
      BY <2>1, EditsAppend
    <3> QED
      BY <3>1, <3>2
  <2> HIDE DEF x, y
  <2>6. /\ Reduce(x, RemovesQueued(m)).queued = Without(x.queued, m)
        /\ Reduce(y, SetsQueued(m)).queued = Upsert(y.queued, [id |-> m, text |-> Prompt])
    BY <2>3 DEF Reduce, RemovesQueued, SetsQueued, PendingMessageRemoved, PendingMessageSet,
         Sound, SessionState
  <2>7. /\ x.queued \in Seq(PendingMessage) /\ UniqueIds(x.queued)
        /\ y.queued \in Seq(PendingMessage)
    BY <2>3 DEF Sound, SessionState
  <2>8. QueuedIds(Without(x.queued, m)) = QueuedIds(x.queued) \ {m}
    BY <2>7, WithoutIds
  <2>9. QueuedIds(Upsert(y.queued, [id |-> m, text |-> Prompt])) = QueuedIds(y.queued) \cup {m}
    BY <2>4, <2>7, UpsertIds
  <2>10. ToSet(Append(p, m)) = ToSet(p) \cup {m}
    BY <2>1, ElementsOfAppend
  <2>11. R(Append(p, m))
    <3>1. QueuedIds(x.queued) = QueuedIds(s.queued) \ ToSet(p)
      BY <2>1 DEF x
    <3> QED
      BY <2>5, <2>6, <2>8, <2>10, <3>1
  <2>12. A(Append(p, m))
    <3>1. QueuedIds(y.queued) = QueuedIds(s.queued) \cup ToSet(p)
      BY <2>1 DEF y
    <3> QED
      BY <2>5, <2>6, <2>9, <2>10, <3>1
  <2> QED
    BY <2>1, <2>11, <2>12
<1>3. T \in SUBSET Seq(MessageId)
  OBVIOUS
<1> HIDE DEF T
<1>4. T = Seq(MessageId)
  BY <1>1, <1>2, <1>3, SeqSetInduction
<1> QED
  BY <1>4 DEF T

\* An order that names every queued message once becomes the order of the queue.
LEMMA OrderTaken ==
  ASSUME NEW queue \in Seq(PendingMessage), UniqueIds(queue),
         NEW order \in Seq(MessageId), IsInjective(order),
         QueuedIds(queue) = ToSet(order)
  PROVE  /\ Len(queue) = Len(order)
         /\ IdsOf(Reordered(queue, order)) = order
         /\ Len(queue) <= 1 => IdsOf(queue) = order
<1> DEFINE n == Len(queue)
           m == Len(order)
           place(i) == CHOOSE j \in 1 .. m : order[j] = queue[i].id
           at == [i \in 1 .. n |-> place(i)]
<1>1. /\ n \in Nat /\ DOMAIN queue = 1 .. n
      /\ m \in Nat /\ DOMAIN order = 1 .. m
  BY LenProperties
<1>2. ASSUME NEW i \in 1 .. n
      PROVE  at[i] \in 1 .. m /\ order[at[i]] = queue[i].id
  <2>1. queue[i].id \in ToSet(order)
    BY <1>1 DEF QueuedIds
  <2>2. \E j \in 1 .. m : order[j] = queue[i].id
    BY <1>1, <2>1 DEF ToSet
  <2>3. place(i) \in 1 .. m /\ order[place(i)] = queue[i].id
    BY <2>2
  <2> QED
    BY <2>3
<1>3. ASSUME NEW j \in 1 .. m
      PROVE  \E i \in 1 .. n : at[i] = j
  <2>1. order[j] \in QueuedIds(queue)
    BY <1>1 DEF ToSet
  <2>2. PICK i \in 1 .. n : queue[i].id = order[j]
    BY <1>1, <2>1 DEF QueuedIds
  <2>3. at[i] \in 1 .. m /\ order[at[i]] = order[j]
    BY <1>2, <2>2
  <2> HIDE DEF at
  <2> QED
    BY <1>1, <2>3 DEF IsInjective
<1>4. at \in [1 .. n -> 1 .. m]
  <2> HIDE DEF place
  <2>1. \A i \in 1 .. n : place(i) \in 1 .. m
    BY <1>2
  <2> QED
    BY <2>1
<1> HIDE DEF at
<1>5. \A i, j \in 1 .. n : at[i] = at[j] => i = j
  <2>1. ASSUME NEW i \in 1 .. n, NEW j \in 1 .. n, at[i] = at[j]
        PROVE  i = j
    <3>1. queue[i].id = queue[j].id
      BY <1>2, <2>1
    <3> QED
      BY <1>1, <3>1 DEF UniqueIds
  <2> QED
    BY <2>1
<1> HIDE DEF n, m
<1>6. \A k \in Nat : IsFiniteSet(1 .. k) /\ Cardinality(1 .. k) = k
  <2>1. ASSUME NEW k \in Nat
        PROVE  IsFiniteSet(1 .. k) /\ Cardinality(1 .. k) = k
    <3>1. k \in Int /\ 1 \in Int
      OBVIOUS
    <3>2. IsFiniteSet(1 .. k) /\ Cardinality(1 .. k) = IF 1 > k THEN 0 ELSE k - 1 + 1
      BY ONLY <3>1, FS_Interval
    <3> QED
      BY <3>2
  <2> QED
    BY <2>1
<1>7. n = m
  <2>1. at \in Bijection(1 .. n, 1 .. m)
    BY <1>3, <1>4, <1>5, Fun_IsBij
  <2>2. ExistsBijection(1 .. n, 1 .. m)
    BY <2>1 DEF ExistsBijection
  <2>3. Cardinality(1 .. m) = Cardinality(1 .. n)
    BY <1>1, <1>6, <2>2, FS_Bijection
  <2> QED
    BY <1>1, <1>6, <2>3
<1>8. ASSUME NEW i \in 1 .. n
      PROVE  SortKey(queue, order, i) = at[i]
  <2> DEFINE named == {j \in DOMAIN order : order[j] = queue[i].id}
  <2>1. named = {at[i]}
    BY <1>1, <1>2 DEF IsInjective
  <2>2. SortKey(queue, order, i) = CHOOSE j \in named : \A k \in named : j <= k
    BY <2>1 DEF SortKey
  <2>3. at[i] \in Nat
    BY <1>1, <1>2
  <2> HIDE DEF named
  <2>4. \E j \in named : \A k \in named : j <= k
    BY <2>1, <2>3
  <2>5. (CHOOSE j \in named : \A k \in named : j <= k) \in named
    BY <2>4
  <2> QED
    BY <2>1, <2>2, <2>5
<1>9. ASSUME NEW i \in 1 .. n
      PROVE  Rank(queue, order, i) = at[i]
  <2> DEFINE S == {j \in 1 .. n : at[j] <= at[i]}
             f == [j \in S |-> at[j]]
             k == at[i]
  <2>1. Rank(queue, order, i) = Cardinality(S)
    BY <1>1, <1>8 DEF Rank
  <2>2. k \in Nat /\ k \in 1 .. m
    BY <1>1, <1>2
  <2>3. f \in [S -> 1 .. k]
    BY <1>1, <1>4, <2>2
  <2>4. \A a, b \in S : f[a] = f[b] => a = b
    BY <1>5
  <2>5. ASSUME NEW j \in 1 .. k
        PROVE  \E a \in S : f[a] = j
    <3>1. j \in 1 .. m /\ j <= k
      BY <1>1, <2>2
    <3>2. PICK a \in 1 .. n : at[a] = j
      BY <1>3, <3>1
    <3>3. a \in S
      BY <3>1, <3>2
    <3> QED
      BY <3>2, <3>3
  <2> HIDE DEF S, f, k
  <2>6. f \in Bijection(S, 1 .. k)
    BY <2>3, <2>4, <2>5, Fun_IsBij
  <2>7. IsFiniteSet(S)
    <3>1. S \in SUBSET (1 .. n)
      BY DEF S
    <3> QED
      BY <1>1, <1>6, <3>1, FS_Subset
  <2>8. ExistsBijection(S, 1 .. k)
    BY <2>6 DEF ExistsBijection
  <2>9. Cardinality(1 .. k) = Cardinality(S)
    BY <2>7, <2>8, FS_Bijection
  <2> QED
    BY <1>6, <2>1, <2>2, <2>9 DEF k
<1>10. IdsOf(Reordered(queue, order)) = order
  <2> DEFINE new == Reordered(queue, order)
             pick(k) == CHOOSE i \in DOMAIN queue : Rank(queue, order, i) = k
  <2>1. new = [k \in 1 .. n |-> queue[pick(k)]]
    BY <1>1 DEF Reordered
  <2>2. ASSUME NEW k \in 1 .. n
        PROVE  queue[pick(k)].id = order[k]
    <3>1. \E i \in 1 .. n : at[i] = k
      BY <1>3, <1>7
    <3>2. \E i \in DOMAIN queue : Rank(queue, order, i) = k
      BY <1>1, <1>9, <3>1
    <3>3. pick(k) \in DOMAIN queue /\ Rank(queue, order, pick(k)) = k
      BY <3>2
    <3> HIDE DEF pick
    <3>4. pick(k) \in 1 .. n /\ at[pick(k)] = k
      BY <1>1, <1>9, <3>3
    <3> QED
      BY <1>2, <3>4
  <2> HIDE DEF new, pick
  <2>3. IdsOf(new) = [k \in 1 .. n |-> order[k]]
    BY <2>1, <2>2 DEF IdsOf
  <2>4. order = [k \in 1 .. m |-> order[k]]
    BY <1>1, SeqDef
  <2> QED
    BY <1>7, <2>3, <2>4 DEF new
<1>11. ASSUME n <= 1
       PROVE  IdsOf(queue) = order
  <2>1. ASSUME NEW i \in 1 .. n
        PROVE  queue[i].id = order[i]
    <3>1. i = 1 /\ at[i] \in 1 .. n
      BY <1>1, <1>2, <1>7, <1>11
    <3>2. at[i] = i
      BY <1>1, <1>11, <3>1
    <3> QED
      BY <1>2, <3>2
  <2>2. order = [k \in 1 .. m |-> order[k]]
    BY <1>1, SeqDef
  <2>3. IdsOf(queue) = [k \in 1 .. n |-> order[k]]
    BY <1>1, <2>1 DEF IdsOf
  <2> QED
    BY <1>7, <2>2, <2>3
<1> QED
  BY <1>7, <1>10, <1>11 DEF n, m

\* The queue of the session is that of the chat.
Mirrors(c) == IdsOf(View(c).queued) = c.queue

LEMMA SyncShape ==
  ASSUME NEW c, ChatShape(c), NEW d, d = SyncPendingMessages(c)
  PROVE  /\ ChatShape(d)
         /\ \E q \in Seq(QueueEdit) : d.sent = c.sent \o q
         /\ d.confirmed = c.confirmed /\ d.queue = c.queue
         /\ d.synced = c.synced /\ d.lastSeen = c.lastSeen /\ d.turn = c.turn
         /\ d.invocations = c.invocations /\ d.request = c.request
         /\ d.synced => Mirrors(d)
<1>0. QueueEdit \subseteq SessionAction
  BY DEF QueueEdit
<1>1. CASE ~c.synced
  <2>1. d = c
    BY <1>1 DEF SyncPendingMessages
  <2>2. c.sent \o <<>> = c.sent /\ <<>> \in Seq(QueueEdit)
    BY ChatFields, ConcatEmptySeq, EmptySeq
  <2> QED
    BY <1>1, <2>1, <2>2
<1>2. CASE c.synced
  <2> DEFINE v == View(c)
             queue == c.queue
             gone == Within(IdsOf(v.queued), MessageId \ ToSet(queue))
             new == Within(queue, MessageId \ QueuedIds(v.queued))
             edits == Removals(gone) \o Additions(new)
             e == Applied(v, edits)
             order == QueueOrder(queue, e.queued)
  <2>1. Sound(v) /\ QueuedIds(v.queued) \in SUBSET MessageId
    BY ViewSound
  <2>2. queue \in Seq(MessageId) /\ IsInjective(queue)
    BY ChatFields
  <2>3. /\ IdsOf(v.queued) \in Seq(MessageId)
        /\ ToSet(IdsOf(v.queued)) = QueuedIds(v.queued)
    <3> DEFINE p == v.queued
               n == Len(p)
    <3>1. p \in Seq(PendingMessage)
      BY <2>1 DEF Sound, SessionState
    <3>2. n \in Nat /\ DOMAIN p = 1 .. n /\ \A i \in 1 .. n : p[i] \in PendingMessage
      BY <3>1, LenProperties, ElementOfSeq
    <3> HIDE DEF p, n
    <3>3. IdsOf(p) \in [1 .. n -> MessageId]
      BY <3>2 DEF IdsOf, PendingMessage
    <3>4. IdsOf(p) \in Seq(MessageId)
      BY <3>2, <3>3, SeqDef
    <3>5. ToSet(IdsOf(p)) = QueuedIds(p)
      BY DEF ToSet, IdsOf, QueuedIds
    <3> QED
      BY <3>4, <3>5 DEF p
  <2>4. /\ gone \in Seq(MessageId) /\ ToSet(gone) = QueuedIds(v.queued) \ ToSet(queue)
        /\ new \in Seq(MessageId) /\ ToSet(new) = ToSet(queue) \ QueuedIds(v.queued)
    <3> DEFINE S == MessageId \ ToSet(queue)
               R == MessageId \ QueuedIds(v.queued)
    <3>1. PICK p \in Seq(MessageId) : p = IdsOf(v.queued)
      BY <2>3
    <3>2. Within(p, S) \in Seq(MessageId) /\ ToSet(Within(p, S)) = ToSet(p) \cap S
      <4> HIDE DEF S
      <4> QED
        BY ONLY p \in Seq(MessageId), WithinType, ElementsWithin
    <3>3. Within(queue, R) \in Seq(MessageId) /\ ToSet(Within(queue, R)) = ToSet(queue) \cap R
      <4> HIDE DEF R, queue
      <4> QED
        BY ONLY <2>2, WithinType, ElementsWithin
    <3>4. ToSet(queue) \in SUBSET MessageId
      <4> HIDE DEF queue
      <4> QED
        BY <2>2, LenProperties, ElementOfSeq DEF ToSet
    <3>5. ToSet(p) \cap S = QueuedIds(v.queued) \ ToSet(queue)
      BY <2>1, <2>3, <3>1
    <3>6. ToSet(queue) \cap R = ToSet(queue) \ QueuedIds(v.queued)
      BY <3>4
    <3> HIDE DEF S, R
    <3> QED
      BY <3>1, <3>2, <3>3, <3>5, <3>6 DEF S, R
  <2>5. QueueEdits(queue, v) = edits
    BY DEF QueueEdits, Removals, Additions
  <2>6. d = [c EXCEPT !.sent = @ \o edits \o order]
    BY <1>2, <2>5 DEF SyncPendingMessages, SyncedIn, Synced
  <2> HIDE DEF v, queue, gone, new
  <2>7. /\ Removals(gone) \in Seq(QueueEdit) /\ Additions(new) \in Seq(QueueEdit)
        /\ edits \in Seq(QueueEdit)
    BY <2>4, EditsType, ConcatProperties
  <2>8. /\ Removals(gone) \in Seq(SessionAction) /\ Additions(new) \in Seq(SessionAction)
        /\ edits \in Seq(SessionAction)
    BY <1>0, <2>7, SeqMonotonic
  <2>9. Sound(e) /\ e.queued \in Seq(PendingMessage) /\ UniqueIds(e.queued)
    <3>1. Sound(e)
      BY <2>1, <2>8, AppliedSound
    <3> HIDE DEF e
    <3> QED
      BY <3>1 DEF Sound, SessionState
  <2>10. QueuedIds(e.queued) = ToSet(queue)
    <3> DEFINE x == Applied(v, Removals(gone))
    <3>1. e = Applied(x, Additions(new))
      BY <2>1, <2>8, AppliedConcat
    <3>2. Sound(x)
      BY <2>1, <2>8, AppliedSound
    <3>3. QueuedIds(x.queued) = QueuedIds(v.queued) \ ToSet(gone)
      BY <2>1, <2>4, EditedIds
    <3> HIDE DEF x, e
    <3>4. QueuedIds(Applied(x, Additions(new)).queued) = QueuedIds(x.queued) \cup ToSet(new)
      BY <2>4, <3>2, EditedIds
    <3> QED
      BY <2>4, <3>1, <3>3, <3>4
  <2> HIDE DEF edits
  <2>11. /\ Len(e.queued) = Len(queue)
         /\ IdsOf(Reordered(e.queued, queue)) = queue
         /\ Len(e.queued) <= 1 => IdsOf(e.queued) = queue
    <3>1. PICK p \in Seq(PendingMessage) : p = e.queued
      BY <2>9
    <3>2. /\ Len(p) = Len(queue) /\ IdsOf(Reordered(p, queue)) = queue
          /\ Len(p) <= 1 => IdsOf(p) = queue
      BY <2>2, <2>9, <2>10, <3>1, OrderTaken
    <3> QED
      BY <3>1, <3>2
  <2> DEFINE reorders == [type |-> "queuedMessagesReordered", order |-> queue]
  <2>12. reorders \in QueueEdit
    BY <2>2 DEF QueueEdit, SessionAction, QueueAction
  <2>13. /\ order \in Seq(QueueEdit)
         /\ IdsOf(Applied(e, order).queued) = queue
    <3>1. CASE Len(e.queued) > 1 /\ queue # IdsOf(e.queued)
      <4>1. order = <<reorders>>
        BY <2>11, <3>1 DEF QueueOrder
      <4>2. Reduce(e, reorders).queued = Reordered(e.queued, queue)
        BY <2>9 DEF Reduce, Sound, SessionState
      <4> HIDE DEF e, reorders, order
      <4>3. Applied(e, <<reorders>>) = Reduce(e, reorders)
        BY <1>0, <2>9, <2>12, AppliedOne
      <4>4. <<reorders>> \in Seq(QueueEdit)
        BY <2>12
      <4> QED
        BY <2>11, <4>1, <4>2, <4>3, <4>4
    <3>2. CASE ~(Len(e.queued) > 1 /\ queue # IdsOf(e.queued))
      <4>1. order = <<>>
        BY <3>2 DEF QueueOrder
      <4>2. IdsOf(e.queued) = queue
        <5> DEFINE n == Len(e.queued)
        <5>1. n \in Nat
          BY <2>9, LenProperties
        <5>2. n > 1 \/ n <= 1
          <6> HIDE DEF n
          <6> QED
            BY <5>1
        <5> QED
          BY <2>11, <3>2, <5>2
      <4> HIDE DEF e, order
      <4>3. Applied(e, <<>>) = e
        BY <2>9, AppliedNone
      <4> QED
        BY <4>1, <4>2, <4>3, EmptySeq
    <3> QED
      BY <3>1, <3>2
  <2> HIDE DEF order
  <2>14. order \in Seq(SessionAction) /\ edits \o order \in Seq(QueueEdit)
         /\ edits \o order \in Seq(SessionAction)
    <3>1. order \in Seq(SessionAction)
      BY <1>0, <2>13, SeqMonotonic
    <3> QED
      BY <2>7, <2>8, <2>13, <3>1, ConcatProperties
  <2>15. d = [c EXCEPT !.sent = @ \o (edits \o order)]
    <3>1. c.sent \o edits \o order = c.sent \o (edits \o order)
      <4>1. /\ c.sent \in Seq(SessionAction) /\ edits \in Seq(SessionAction)
            /\ order \in Seq(SessionAction)
        BY <2>8, <2>14, ChatFields
      <4>2. \A x, y, z \in Seq(SessionAction) : (x \o y) \o z = x \o (y \o z)
        BY SentInParts, Zenon
      <4> HIDE DEF edits, order
      <4> QED
        BY <4>1, <4>2
    <3> QED
      BY <2>6, <3>1
  <2>16. PICK q \in Seq(SessionAction) : q = edits \o order
    BY <2>14
  <2>17. /\ ChatShape(d)
         /\ d.sent = c.sent \o q /\ d.confirmed = c.confirmed /\ d.queue = c.queue
         /\ d.synced = c.synced /\ d.lastSeen = c.lastSeen /\ d.turn = c.turn
         /\ d.invocations = c.invocations /\ d.request = c.request
         /\ View(d) = Applied(View(c), q)
    <3>1. d = Sending(c, q)
      BY <2>15, <2>16 DEF Sending
    <3> QED
      BY <3>1, SentShape
  <2>18. View(d) = Applied(e, order)
    BY <2>1, <2>8, <2>14, <2>16, <2>17, AppliedConcat DEF v
  <2>19. Mirrors(d)
    BY <2>13, <2>17, <2>18 DEF Mirrors, queue
  <2> QED
    BY <2>14, <2>16, <2>17, <2>19
<1> QED
  BY <1>1, <1>2, ChatFields

-----------------------------------------------------------------------------
(* The watcher, and all listeners together.                                *)

\* A queue that changes, and one that was that of the session, is that of the
\* session afterwards.
KeepsMirror(c, d) == d.synced /\ (Mirrors(c) \/ d.queue # c.queue) => Mirrors(d)

\* The watcher takes t, the active turn, for one that is followed already.
IsKnown(c, t) == t \in {None, c.lastSeen, c.turn["request"]}

WatchesTo(c, d, t) ==
  /\ \E q \in Seq(QueueEdit) : d.sent = c.sent \o q
  /\ d.confirmed = c.confirmed /\ d.synced = c.synced
  /\ d.lastSeen = IF t = None THEN c.lastSeen ELSE t
  /\ ToSet(d.queue) \subseteq ToSet(c.queue)
  /\ d.turn = IF IsKnown(c, t) THEN c.turn ELSE [c.turn EXCEPT !["server"] = t]
  /\ \A k \in Tracker \ {"server"} : d.invocations[k] = c.invocations[k]

LEMMA WatchShape ==
  ASSUME NEW c, ChatShape(c), NEW d, d = WatchTurns(c)
  PROVE  ChatShape(d) /\ WatchesTo(c, d, ActiveId(View(c))) /\ KeepsMirror(c, d)
<1> DEFINE v == View(c)
           t == ActiveId(v)
           queued == QueuedIds(v.queued)
           consumed == IF c.previousQueued = None THEN {} ELSE c.previousQueued \ queued
           listed == Within(c.queue, MessageId \ consumed)
           seen == [c EXCEPT !.previousQueued = queued, !.lastSeen = IF t = None THEN @ ELSE t]
           heard == [seen EXCEPT !.queue = listed]
           shown == ServerTurnShown(heard, t)
<1>1. Sound(v) /\ queued \in SUBSET MessageId
  BY ViewSound
<1>2. t \in TurnId \cup {None}
  <2>1. v.activeTurn # None => v.activeTurn \in ActiveTurn
    BY <1>1 DEF Sound, SessionState
  <2> HIDE DEF v
  <2> QED
    BY <2>1 DEF ActiveId, ActiveTurn
<1>3. d = IF IsKnown(c, t) THEN seen
          ELSE IF listed = c.queue THEN shown ELSE SyncPendingMessages(shown)
  BY DEF WatchTurns, Watched, IsKnown
<1>4. /\ listed \in Seq(MessageId) /\ IsInjective(listed)
      /\ ToSet(listed) \subseteq ToSet(c.queue)
  <2> DEFINE S == MessageId \ consumed
  <2>1. PICK p \in Seq(MessageId) : p = c.queue /\ IsInjective(p)
    BY ChatFields
  <2> HIDE DEF S
  <2>2. /\ Within(p, S) \in Seq(MessageId) /\ ToSet(Within(p, S)) = ToSet(p) \cap S
        /\ IsInjective(Within(p, S))
    BY ONLY p \in Seq(MessageId), <2>1, WithinType, ElementsWithin
  <2> QED
    BY <2>1, <2>2 DEF S
<1>5. c.sent \o <<>> = c.sent /\ <<>> \in Seq(QueueEdit)
  BY ChatFields, ConcatEmptySeq, EmptySeq
<1> HIDE DEF v, t, queued, consumed, listed
<1>6. /\ seen.sent = c.sent /\ seen.confirmed = c.confirmed /\ seen.synced = c.synced
      /\ seen.lastSeen = (IF t = None THEN c.lastSeen ELSE t)
      /\ seen.queue = c.queue /\ seen.turn = c.turn /\ seen.invocations = c.invocations
      /\ seen.request = c.request /\ seen.streaming = c.streaming
      /\ seen.listening = c.listening
  BY DEF ChatShape, HandlerState
<1>7. ChatShape(seen)
  <2>1. seen \in HandlerState
    <3>1. c \in HandlerState
      BY DEF ChatShape
    <3> QED
      BY <1>1, <1>2, <3>1 DEF HandlerState
  <2> HIDE DEF seen
  <2> QED
    BY <1>6, <2>1 DEF ChatShape
<1> HIDE DEF seen
<1>8. /\ heard.sent = c.sent /\ heard.confirmed = c.confirmed /\ heard.synced = c.synced
      /\ heard.lastSeen = (IF t = None THEN c.lastSeen ELSE t)
      /\ heard.queue = listed /\ heard.turn = c.turn /\ heard.invocations = c.invocations
      /\ heard.request = c.request /\ heard.streaming = c.streaming
      /\ heard.listening = c.listening
  BY <1>6, <1>7 DEF ChatShape, HandlerState
<1>9. ChatShape(heard)
  <2>1. heard \in HandlerState
    <3>1. seen \in HandlerState
      BY <1>7 DEF ChatShape
    <3> QED
      BY <1>4, <3>1 DEF HandlerState
  <2> HIDE DEF heard
  <2> QED
    BY <1>4, <1>6, <1>7, <1>8, <2>1 DEF ChatShape
<1> HIDE DEF heard
<1>10. CASE IsKnown(c, t)
  <2>1. d = seen
    BY <1>3, <1>10
  <2>2. View(d) = View(c)
    BY <1>6, <2>1 DEF View
  <2>3. WatchesTo(c, d, t)
    BY <1>5, <1>6, <1>10, <2>1 DEF WatchesTo
  <2>4. KeepsMirror(c, d)
    BY <1>6, <2>1, <2>2 DEF KeepsMirror, Mirrors
  <2> QED
    BY <1>7, <2>1, <2>3, <2>4 DEF t, v
<1>11. CASE ~IsKnown(c, t)
  <2>0. t \in TurnId /\ t # None
    BY <1>2, <1>11 DEF IsKnown
  <2>1. /\ shown.sent = c.sent /\ shown.confirmed = c.confirmed /\ shown.synced = c.synced
        /\ shown.lastSeen = t /\ shown.queue = listed
        /\ shown.turn = [c.turn EXCEPT !["server"] = t]
        /\ shown.invocations = [c.invocations EXCEPT !["server"] = NoInvocations]
        /\ shown.request = IF c.streaming /\ c.request = "none" THEN "server" ELSE c.request
        /\ shown.listening = (c.listening \/ (c.streaming /\ c.request = "none"))
    BY <1>8, <1>9, <2>0 DEF ServerTurnShown, ChatShape, HandlerState
  <2>2. "server" \in Tracker /\ "request" \in Tracker /\ "server" # "request"
    BY DEF Tracker
  <2>3. /\ shown.turn["server"] = t /\ shown.turn["request"] = c.turn["request"]
        /\ \A k \in Tracker \ {"server"} : /\ shown.turn[k] = c.turn[k]
                                           /\ shown.invocations[k] = c.invocations[k]
        /\ shown.invocations["server"] = NoInvocations
    BY <2>1, <2>2, ChatFields
  <2>4. NoInvocations \in [ToolCallId -> Invocation] /\ IsFiniteSet(ShownCalls(NoInvocations))
    <3>1. ShownCalls(NoInvocations) = {}
      BY DEF ShownCalls, NoInvocations
    <3> QED
      BY <3>1, FS_EmptySet DEF NoInvocations, Invocation
  <2>5. ChatShape(shown)
    <3>1. /\ shown.turn \in [Tracker -> TurnId \cup {None}]
          /\ shown.invocations \in [Tracker -> [ToolCallId -> Invocation]]
          /\ shown.request \in {"none", "own", "server"} /\ shown.listening \in BOOLEAN
      BY <2>0, <2>1, <2>2, <2>4, ChatFields
    <3>2. shown \in HandlerState
      <4>1. shown = [heard EXCEPT !.turn = shown.turn, !.invocations = shown.invocations,
                                  !.complete = FALSE, !.request = shown.request,
                                  !.listening = shown.listening]
        BY <1>9 DEF ServerTurnShown, ChatShape, HandlerState
      <4>2. heard \in HandlerState
        BY <1>9 DEF ChatShape
      <4> HIDE DEF shown
      <4> QED
        BY <3>1, <4>1, <4>2 DEF HandlerState
    <3> HIDE DEF shown
    <3>3. \A k \in Tracker : /\ shown.turn[k] = None => shown.invocations[k] = NoInvocations
                             /\ IsFiniteSet(ShownCalls(shown.invocations[k]))
      BY <2>3, <2>4 DEF ChatShape
    <3>4. shown.request = "own" => shown.turn["request"] # None
      BY <2>1, <2>3 DEF ChatShape
    <3> QED
      BY <1>4, <2>1, <3>2, <3>3, <3>4, ChatFields DEF ChatShape
  <2> HIDE DEF shown
  <2>6. CASE listed = c.queue
    <3>1. d = shown
      BY <1>3, <1>11, <2>6
    <3>2. View(d) = View(c)
      BY <2>1, <3>1 DEF View
    <3>3. WatchesTo(c, d, t)
      BY <1>4, <1>5, <1>11, <2>0, <2>1, <2>3, <3>1 DEF WatchesTo
    <3>4. KeepsMirror(c, d)
      BY <2>1, <2>6, <3>1, <3>2 DEF KeepsMirror, Mirrors
    <3> QED
      BY <2>5, <3>1, <3>3, <3>4 DEF t, v
  <2>7. CASE listed # c.queue
    <3>1. d = SyncPendingMessages(shown)
      BY <1>3, <1>11, <2>7
    <3>2. /\ ChatShape(d)
          /\ \E q \in Seq(QueueEdit) : d.sent = shown.sent \o q
          /\ d.confirmed = shown.confirmed /\ d.queue = shown.queue
          /\ d.synced = shown.synced /\ d.lastSeen = shown.lastSeen /\ d.turn = shown.turn
          /\ d.invocations = shown.invocations
          /\ d.synced => Mirrors(d)
      BY <2>5, <3>1, SyncShape
    <3>3. WatchesTo(c, d, t)
      BY <1>4, <1>11, <2>0, <2>1, <2>3, <3>2 DEF WatchesTo
    <3>4. KeepsMirror(c, d)
      BY <3>2 DEF KeepsMirror
    <3> QED
      BY <3>2, <3>3, <3>4 DEF t, v
  <2> QED
    BY <2>6, <2>7
<1> QED
  BY <1>10, <1>11

\* Chat c becomes d by what listeners dispatch and take in.
Reacts(c, d) ==
  /\ \E q \in Seq(Confirmation \cup QueueEdit) : d.sent = c.sent \o q
  /\ d.confirmed = c.confirmed /\ d.synced = c.synced
  /\ ToSet(d.queue) \subseteq ToSet(c.queue)
  /\ KeepsMirror(c, d)
  /\ Calmer(View(d), View(c))

\* The calls of the turn that tracker k follows are asked about where they wait.
Asked(c, k) ==
  c.turn[k] # None =>
    \A x \in ToolCallId :
      Waits(View(c), c.turn[k], x) => c.invocations[k][x] = "waiting"

LEMMA ReactionTypes ==
  /\ Confirmation \subseteq SessionAction /\ QueueEdit \subseteq SessionAction
  /\ Confirmation \cup QueueEdit \subseteq SessionAction
BY DEF Confirmation, QueueEdit

\* The state that is read after more actions were sent.
LEMMA ViewAfter ==
  ASSUME NEW c, ChatShape(c), NEW d, d.confirmed = c.confirmed,
         NEW q \in Seq(SessionAction), d.sent = c.sent \o q
  PROVE  View(d) = Applied(View(c), q)
BY ChatFields, AppliedConcat DEF View

LEMMA CalmAfter ==
  ASSUME NEW c, ChatShape(c), NEW d, d.confirmed = c.confirmed,
         NEW q \in Seq(Confirmation \cup QueueEdit), d.sent = c.sent \o q
  PROVE  /\ Calmer(View(d), View(c))
         /\ q \in Seq(Confirmation) => View(d).queued = View(c).queued
<1>1. q \in Seq(SessionAction)
  BY ReactionTypes, SeqMonotonic
<1>2. View(d) = Applied(View(c), q)
  BY <1>1, ViewAfter
<1>3. Sound(View(c))
  BY ViewSound
<1> QED
  BY <1>2, <1>3, ReactionsCalm

LEMMA ReactsTwice ==
  ASSUME NEW c, ChatShape(c), NEW d, NEW e, Reacts(c, d), Reacts(d, e)
  PROVE  Reacts(c, e)
<1> DEFINE R == Confirmation \cup QueueEdit
<1>1. PICK p \in Seq(R) : d.sent = c.sent \o p
  BY DEF Reacts
<1>2. PICK q \in Seq(R) : e.sent = d.sent \o q
  BY DEF Reacts
<1>3. e.sent = c.sent \o (p \o q) /\ p \o q \in Seq(R)
  <2>1. /\ c.sent \in Seq(SessionAction) /\ p \in Seq(SessionAction)
        /\ q \in Seq(SessionAction)
    BY ReactionTypes, ChatFields, SeqMonotonic
  <2> HIDE DEF R
  <2>2. (c.sent \o p) \o q = c.sent \o (p \o q)
    BY ONLY <2>1, SentInParts, Zenon
  <2>3. p \o q \in Seq(R)
    BY ConcatProperties
  <2> QED
    BY <1>1, <1>2, <2>2, <2>3
<1>4. Calmer(View(e), View(c))
  BY CalmerTwice DEF Reacts
<1>5. KeepsMirror(c, e)
  BY DEF Reacts, KeepsMirror
<1> QED
  BY <1>3, <1>4, <1>5 DEF Reacts

LEMMA TrackReacts ==
  ASSUME NEW c, ChatShape(c), NEW k \in Tracker, NEW d, d = Track(c, k)
  PROVE  /\ ChatShape(d) /\ Reacts(c, d) /\ d.lastSeen = c.lastSeen
         /\ d.turn[k] = IF c.turn[k] = ActiveId(View(c)) THEN c.turn[k] ELSE None
         /\ \A j \in Tracker \ {k} : d.turn[j] = c.turn[j]
         /\ Asked(d, k)
         /\ \A j \in Tracker : Asked(c, j) => Asked(d, j)
<1>1. ChatShape(d) /\ TracksTo(c, d, k)
  BY TrackShape
<1>2. PICK q \in Seq(Confirmation) : d.sent = c.sent \o q
  BY <1>1 DEF TracksTo
<1>3. q \in Seq(Confirmation \cup QueueEdit)
  BY SeqMonotonic
<1>4. /\ d.confirmed = c.confirmed /\ d.queue = c.queue
      /\ d.synced = c.synced /\ d.lastSeen = c.lastSeen
      /\ \A j \in Tracker \ {k} : d.turn[j] = c.turn[j] /\ d.invocations[j] = c.invocations[j]
  BY <1>1 DEF TracksTo
<1>5. Calmer(View(d), View(c)) /\ View(d).queued = View(c).queued
  BY <1>2, <1>3, <1>4, CalmAfter
<1>6. Reacts(c, d)
  BY <1>2, <1>3, <1>4, <1>5 DEF Reacts, KeepsMirror, Mirrors
<1> DEFINE t == c.turn[k]
<1>7. t # None => (IsActive(View(c), t) <=> ActiveId(View(c)) = t)
  BY DEF IsActive, ActiveId
<1>8. d.turn[k] = IF t = ActiveId(View(c)) THEN t ELSE None
  BY <1>1, <1>7 DEF TracksTo
<1>9. Asked(d, k)
  <2>1. SUFFICES ASSUME d.turn[k] # None, NEW x \in ToolCallId, Waits(View(d), d.turn[k], x)
                 PROVE  d.invocations[k][x] = "waiting"
    BY DEF Asked
  <2>2. /\ d.turn[k] = t
        /\ d.invocations[k] = Shown(c.invocations[k], PartsOfTurn(View(c), t))
    BY <1>1, <2>1 DEF TracksTo
  <2>3. t \in TurnId
    BY <2>1, <2>2, ChatFields
  <2>4. Waits(View(c), t, x)
    BY <1>5, <2>1, <2>2, <2>3 DEF Calmer
  <2>5. StatusIn(PartsOfTurn(View(c), t), x) = "pendingConfirmation"
    BY <2>4 DEF Waits
  <2> QED
    BY <2>2, <2>5, ShownWaits
<1>10. ASSUME NEW j \in Tracker, j # k, Asked(c, j)
       PROVE  Asked(d, j)
  <2>1. d.turn[j] = c.turn[j] /\ d.invocations[j] = c.invocations[j]
    BY <1>4, <1>10
  <2>2. c.turn[j] # None => c.turn[j] \in TurnId
    BY ChatFields
  <2> QED
    BY <1>5, <1>10, <2>1, <2>2 DEF Asked, Calmer
<1> QED
  BY <1>1, <1>4, <1>6, <1>8, <1>9, <1>10

LEMMA WatchReacts ==
  ASSUME NEW c, ChatShape(c), NEW d, d = WatchTurns(c)
  PROVE  /\ ChatShape(d) /\ Reacts(c, d)
         /\ WatchesTo(c, d, ActiveId(View(c)))
         /\ \A j \in Tracker \ {"server"} : Asked(c, j) => Asked(d, j)
<1>1. /\ ChatShape(d) /\ WatchesTo(c, d, ActiveId(View(c))) /\ KeepsMirror(c, d)
  BY WatchShape
<1>2. PICK q \in Seq(QueueEdit) : d.sent = c.sent \o q
  BY <1>1 DEF WatchesTo
<1>3. q \in Seq(Confirmation \cup QueueEdit)
  BY SeqMonotonic
<1>4. Calmer(View(d), View(c))
  BY <1>1, <1>2, <1>3, CalmAfter DEF WatchesTo
<1>5. Reacts(c, d)
  BY <1>1, <1>2, <1>3, <1>4 DEF Reacts, WatchesTo
<1>6. ASSUME NEW j \in Tracker \ {"server"}, Asked(c, j)
      PROVE  Asked(d, j)
  <2>1. c.turn \in [Tracker -> TurnId \cup {None}]
    BY ChatFields
  <2>2. d.turn[j] = c.turn[j] /\ d.invocations[j] = c.invocations[j]
    BY <1>1, <2>1 DEF WatchesTo
  <2>3. c.turn[j] # None => c.turn[j] \in TurnId
    BY <2>1
  <2> QED
    BY <1>4, <1>6, <2>2, <2>3 DEF Asked, Calmer
<1> QED
  BY <1>1, <1>5, <1>6

\* One tracker, and no other, follows the active turn.
OneTracker(c) ==
  LET t == ActiveId(View(c))
  IN /\ \A k \in Tracker : c.turn[k] \in {t, None}
     /\ t # None => /\ c.lastSeen = t
                    /\ \E k \in Tracker : \A j \in Tracker : c.turn[j] = t <=> j = k

\* ... or will once the listeners are called: the watcher either knows the turn, and
\* one tracker has it, or sees it for the first time, and none has.
Followable(c) ==
  LET t == ActiveId(View(c))
  IN t # None =>
       \/ \E k \in Tracker : /\ \A j \in Tracker : c.turn[j] = t <=> j = k
                             /\ k = "request" \/ c.lastSeen = t
       \/ c.lastSeen # t /\ \A j \in Tracker : c.turn[j] # t

LEMMA ChangedShape ==
  ASSUME NEW c, ChatShape(c), Followable(c), NEW d, d = Changed(c)
  PROVE  /\ ChatShape(d) /\ Reacts(c, d) /\ OneTracker(d)
         /\ \A k \in Tracker : Asked(d, k)
         /\ ActiveId(View(d)) = ActiveId(View(c))
         /\ d.lastSeen = IF ActiveId(View(c)) = None THEN c.lastSeen ELSE ActiveId(View(c))
<1> DEFINE t == ActiveId(View(c))
           c1 == Track(c, "reconnect")
           c2 == WatchTurns(c1)
           c3 == Track(c2, "server")
           c4 == Track(c3, "request")
<1>1. Tracker = {"request", "server", "reconnect"}
      /\ "request" \in Tracker /\ "server" \in Tracker /\ "reconnect" \in Tracker
      /\ "request" # "server" /\ "request" # "reconnect" /\ "server" # "reconnect"
  BY DEF Tracker
<1>2. d = c4
  BY DEF Changed
<1>3. /\ ChatShape(c1) /\ Reacts(c, c1) /\ c1.lastSeen = c.lastSeen
      /\ c1.turn["reconnect"] = IF c.turn["reconnect"] = t THEN c.turn["reconnect"] ELSE None
      /\ \A j \in Tracker \ {"reconnect"} : c1.turn[j] = c.turn[j]
      /\ Asked(c1, "reconnect")
  BY <1>1, TrackReacts
<1> HIDE DEF c1
<1>4. ActiveId(View(c1)) = t
  BY <1>3 DEF Reacts, Calmer
<1>5. /\ ChatShape(c2) /\ Reacts(c1, c2) /\ WatchesTo(c1, c2, t)
      /\ Asked(c2, "reconnect")
  BY <1>1, <1>3, <1>4, WatchReacts
<1> HIDE DEF c2
<1>6. ActiveId(View(c2)) = t
  BY <1>4, <1>5 DEF Reacts, Calmer
<1>7. /\ ChatShape(c3) /\ Reacts(c2, c3) /\ c3.lastSeen = c2.lastSeen
      /\ c3.turn["server"] = IF c2.turn["server"] = t THEN c2.turn["server"] ELSE None
      /\ \A j \in Tracker \ {"server"} : c3.turn[j] = c2.turn[j]
      /\ Asked(c3, "server") /\ Asked(c3, "reconnect")
  BY <1>1, <1>5, <1>6, TrackReacts
<1> HIDE DEF c3
<1>8. ActiveId(View(c3)) = t
  BY <1>6, <1>7 DEF Reacts, Calmer
<1>9. /\ ChatShape(c4) /\ Reacts(c3, c4) /\ c4.lastSeen = c3.lastSeen
      /\ c4.turn["request"] = IF c3.turn["request"] = t THEN c3.turn["request"] ELSE None
      /\ \A j \in Tracker \ {"request"} : c4.turn[j] = c3.turn[j]
      /\ Asked(c4, "request") /\ Asked(c4, "server") /\ Asked(c4, "reconnect")
  BY <1>1, <1>7, <1>8, TrackReacts
<1> HIDE DEF c4
<1>10. ActiveId(View(c4)) = t
  BY <1>8, <1>9 DEF Reacts, Calmer
<1>11. Reacts(c, c4)
  <2>1. Reacts(c, c2)
    BY <1>3, <1>5, ReactsTwice
  <2>2. Reacts(c, c3)
    BY <2>1, <1>7, ReactsTwice
  <2> QED
    BY <2>2, <1>9, ReactsTwice
<1>12. c4.lastSeen = IF t = None THEN c.lastSeen ELSE t
  BY <1>3, <1>5, <1>7, <1>9 DEF WatchesTo
<1>13. c1.turn \in [Tracker -> TurnId \cup {None}]
  BY <1>3, ChatFields
<1> DEFINE known == t \in {None, c.lastSeen, c.turn["request"]}
<1>14. /\ c2.turn["server"] = IF known THEN c.turn["server"] ELSE t
       /\ c2.turn["request"] = c.turn["request"]
       /\ c2.turn["reconnect"] = c1.turn["reconnect"]
  <2>1. c2.turn = IF known THEN c1.turn ELSE [c1.turn EXCEPT !["server"] = t]
    BY <1>1, <1>3, <1>5 DEF WatchesTo, IsKnown
  <2> HIDE DEF t, known
  <2> QED
    BY <1>1, <1>3, <1>13, <2>1
<1>15. /\ c4.turn["reconnect"] = IF c.turn["reconnect"] = t THEN t ELSE None
       /\ c4.turn["server"] = IF ~known \/ c.turn["server"] = t THEN t ELSE None
       /\ c4.turn["request"] = IF c.turn["request"] = t THEN t ELSE None
  <2> HIDE DEF t, known
  <2> QED
    BY <1>1, <1>3, <1>7, <1>9, <1>14
<1>16. OneTracker(c4)
  <2>1. \A k \in Tracker : c4.turn[k] \in {t, None}
    BY <1>1, <1>15
  <2>2. ASSUME t # None
        PROVE  \E k \in Tracker : \A j \in Tracker : c4.turn[j] = t <=> j = k
    <3>1. CASE \E k \in Tracker : /\ \A j \in Tracker : c.turn[j] = t <=> j = k
                                  /\ k = "request" \/ c.lastSeen = t
      <4>1. PICK k \in Tracker : /\ \A j \in Tracker : c.turn[j] = t <=> j = k
                                 /\ k = "request" \/ c.lastSeen = t
        BY <3>1
      <4>2. known
        BY <4>1
      <4> HIDE DEF t, known
      <4>3. \A j \in Tracker : c4.turn[j] = t <=> c.turn[j] = t
        BY <1>1, <1>15, <2>2, <4>2
      <4> QED
        BY <4>1, <4>3
    <3>2. CASE c.lastSeen # t /\ \A j \in Tracker : c.turn[j] # t
      <4>1. ~known
        BY <1>1, <2>2, <3>2
      <4> HIDE DEF t, known
      <4>2. \A j \in Tracker : c4.turn[j] = t <=> j = "server"
        BY <1>1, <1>15, <2>2, <3>2, <4>1
      <4> QED
        BY <1>1, <4>2
    <3> QED
      BY <2>2, <3>1, <3>2 DEF Followable
  <2> QED
    BY <1>10, <1>12, <2>1, <2>2 DEF OneTracker
<1> QED
  BY <1>1, <1>2, <1>9, <1>10, <1>11, <1>12, <1>16

-----------------------------------------------------------------------------
(* The inductive invariant.                                                *)

Given(b) == 1 .. b.turns

\* The bounds are kept.
BegunType(b) ==
  b \in [turns : 0 .. MaxTurns, messages : 0 .. MaxQueue, calls : SUBSET ToolCallId,
         asked : SUBSET ToolCallId, others : Nat]

HostIsSound(h, b) == Sound(h) /\ ActiveId(h) \in Given(b) \cup {None}

\* Whatever the chat names was given out.
Numbered(c, b) ==
  /\ c.lastSeen \in Given(b) \cup {None}
  /\ ToSet(c.queue) \subseteq 1 .. b.messages
  /\ \A i \in DOMAIN c.sent :
       c.sent[i].type = "turnStarted" => c.sent[i].turn \in Given(b)

\* A start that is not an echo.
IsForeignStart(e) == ~e.own /\ e.action.type = "turnStarted"

\* Others' starts under way are of turns that were not seen yet, each of another one.
StartsAreNew(q, b, seen) ==
  \A i \in DOMAIN q : IsForeignStart(q[i]) =>
    /\ q[i].action.turn \in Given(b) \ {seen}
    /\ \A j \in DOMAIN q :
         IsForeignStart(q[j]) /\ q[j].action.turn = q[i].action.turn => i = j

\* Echoes come back in the order the actions were sent in.
EchoesMatch(q, sent) ==
  /\ Len(EchoesIn(q)) <= Len(sent)
  /\ \A i \in 1 .. Len(EchoesIn(q)) : EchoesIn(q)[i].action = sent[i]

ChatIsSound(c, q, b) ==
  /\ ChatShape(c) /\ OneTracker(c) /\ \A k \in Tracker : Asked(c, k)
  /\ Numbered(c, b)
  /\ StartsAreNew(q, b, c.lastSeen)
  /\ EchoesMatch(q, c.sent)

HandlerInv ==
  /\ BegunType(begun)
  /\ HostIsSound(host, begun)
  /\ arriving \in Seq(ActionEnvelope)
  /\ IF chat = None THEN arriving = <<>> ELSE ChatIsSound(chat, arriving, begun)

\* b2 is b after more was given out.
GivenMore(b, b2) ==
  BegunType(b) /\ BegunType(b2) /\ b.turns <= b2.turns /\ b.messages <= b2.messages

LEMMA GivenTypes ==
  ASSUME NEW b, BegunType(b)
  PROVE  /\ b.turns \in Nat /\ b.messages \in Nat
         /\ b.turns <= MaxTurns /\ b.messages <= MaxQueue
         /\ Given(b) \subseteq TurnId /\ None \notin Given(b)
         /\ 1 .. b.messages \subseteq MessageId
<1>1. b.turns \in 0 .. MaxTurns /\ b.messages \in 0 .. MaxQueue
  BY DEF BegunType
<1>2. MaxTurns \in Nat /\ MaxQueue \in Nat
  BY IdsAreNumbers
<1>3. 1 .. b.turns \subseteq 1 .. MaxTurns /\ 1 .. b.messages \subseteq 1 .. MaxQueue
  BY <1>1, <1>2
<1>4. Given(b) \subseteq TurnId /\ 1 .. b.messages \subseteq MessageId
  BY <1>3, IdsAreNumbers DEF Given
<1> QED
  BY <1>1, <1>2, <1>4, NoneIsNoId

LEMMA StillGiven ==
  ASSUME NEW b, NEW b2, GivenMore(b, b2)
  PROVE  /\ Given(b) \subseteq Given(b2)
         /\ \A h : HostIsSound(h, b) => HostIsSound(h, b2)
         /\ \A c : Numbered(c, b) => Numbered(c, b2)
         /\ \A q, seen : StartsAreNew(q, b, seen) => StartsAreNew(q, b2, seen)
<1>1. /\ b.turns \in Nat /\ b2.turns \in Nat /\ b.turns <= b2.turns
      /\ b.messages \in Nat /\ b2.messages \in Nat /\ b.messages <= b2.messages
  BY GivenTypes DEF GivenMore
<1>2. Given(b) \subseteq Given(b2) /\ 1 .. b.messages \subseteq 1 .. b2.messages
  BY <1>1 DEF Given
<1>3. \A h : HostIsSound(h, b) => HostIsSound(h, b2)
  BY <1>2 DEF HostIsSound
<1>4. ASSUME NEW c, Numbered(c, b)
      PROVE  Numbered(c, b2)
  BY <1>2, <1>4 DEF Numbered
<1>5. ASSUME NEW q, NEW seen, StartsAreNew(q, b, seen)
      PROVE  StartsAreNew(q, b2, seen)
  BY <1>2, <1>5 DEF StartsAreNew
<1> QED
  BY <1>2, <1>3, <1>4, <1>5

LEMMA ActiveIdType ==
  ASSUME NEW v, Sound(v)
  PROVE  ActiveId(v) \in TurnId \cup {None}
<1>1. v.activeTurn # None => v.activeTurn \in ActiveTurn
  BY DEF Sound, SessionState
<1> QED
  BY <1>1 DEF ActiveId, ActiveTurn

\* A chat in which one tracker follows the active turn stays fit for the listeners
\* if its trackers and the active turn stay.
LEMMA StillFollowable ==
  ASSUME NEW c, OneTracker(c), NEW d, d.turn = c.turn, d.lastSeen = c.lastSeen,
         ActiveId(View(d)) = ActiveId(View(c))
  PROVE  Followable(d)
BY DEF OneTracker, Followable

\* The listeners name nothing that was not given out.
LEMMA NumberedAfter ==
  ASSUME NEW c, ChatShape(c), NEW b, Numbered(c, b), NEW d, ChatShape(d), Reacts(c, d),
         d.lastSeen \in Given(b) \cup {None}
  PROVE  Numbered(d, b)
<1>1. PICK q \in Seq(Confirmation \cup QueueEdit) : d.sent = c.sent \o q
  BY DEF Reacts
<1> DEFINE n == Len(c.sent)
           m == Len(q)
<1>2. c.sent \in Seq(SessionAction) /\ q \in Seq(SessionAction)
  BY ReactionTypes, ChatFields, SeqMonotonic
<1>3. n \in Nat /\ m \in Nat /\ DOMAIN c.sent = 1 .. n
      /\ \A i \in 1 .. m : q[i] \in Confirmation \cup QueueEdit
  BY <1>2, LenProperties, ElementOfSeq
<1>4. /\ DOMAIN d.sent = 1 .. n + m
      /\ \A i \in 1 .. n + m : d.sent[i] = IF i <= n THEN c.sent[i] ELSE q[i - n]
  <2>1. \A x, y \in Seq(SessionAction) :
          /\ x \o y \in Seq(SessionAction) /\ Len(x \o y) = Len(x) + Len(y)
          /\ \A i \in 1 .. Len(x) + Len(y) :
               (x \o y)[i] = IF i <= Len(x) THEN x[i] ELSE y[i - Len(x)]
    BY ConcatProperties
  <2>2. d.sent \in Seq(SessionAction) /\ Len(d.sent) = n + m
    BY <1>1, <1>2, <2>1
  <2>3. DOMAIN d.sent = 1 .. n + m
    BY <2>2, LenProperties
  <2> QED
    BY <1>1, <1>2, <2>1, <2>3
<1> HIDE DEF n, m
<1>5. ASSUME NEW i \in DOMAIN d.sent, d.sent[i].type = "turnStarted"
      PROVE  d.sent[i].turn \in Given(b)
  <2>1. i \in 1 .. n + m
    BY <1>4, <1>5
  <2>2. CASE i <= n
    <3>1. i \in 1 .. n /\ d.sent[i] = c.sent[i]
      BY <1>3, <1>4, <2>1, <2>2
    <3> QED
      BY <1>3, <1>5, <3>1 DEF Numbered
  <2>3. CASE ~(i <= n)
    <3>1. i - n \in 1 .. m /\ d.sent[i] = q[i - n]
      BY <1>3, <1>4, <2>1, <2>3
    <3>2. d.sent[i] \in Confirmation \cup QueueEdit
      BY <1>3, <3>1
    <3> QED
      BY <1>5, <3>2 DEF Confirmation, QueueEdit, QueueAction
  <2> QED
    BY <2>2, <2>3
<1>6. ToSet(d.queue) \subseteq 1 .. b.messages
  BY DEF Reacts, Numbered
<1> QED
  BY <1>5, <1>6 DEF Numbered

LEMMA EchoesType ==
  ASSUME NEW q \in Seq(ActionEnvelope)
  PROVE  EchoesIn(q) \in Seq(ActionEnvelope) /\ Len(EchoesIn(q)) \in Nat
<1>1. EchoesIn(q) \in Seq(ActionEnvelope)
  BY WithinType DEF EchoesIn
<1> QED
  BY <1>1, LenProperties

\* Sending more leaves the echoes under way in order.
LEMMA EchoesStillMatch ==
  ASSUME NEW q \in Seq(ActionEnvelope), NEW sent \in Seq(SessionAction),
         EchoesMatch(q, sent), NEW p \in Seq(SessionAction)
  PROVE  EchoesMatch(q, sent \o p)
<1> DEFINE k == Len(EchoesIn(q))
<1>1. k \in Nat /\ Len(sent) \in Nat /\ Len(p) \in Nat
  BY EchoesType, LenProperties
<1>2. /\ Len(sent \o p) = Len(sent) + Len(p)
      /\ \A i \in 1 .. Len(sent) + Len(p) :
           (sent \o p)[i] = IF i <= Len(sent) THEN sent[i] ELSE p[i - Len(sent)]
  BY ConcatProperties
<1>3. k <= Len(sent) /\ \A i \in 1 .. k : EchoesIn(q)[i].action = sent[i]
  BY DEF EchoesMatch
<1> HIDE DEF k
<1>4. k <= Len(sent \o p)
  BY <1>1, <1>2, <1>3
<1>5. ASSUME NEW i \in 1 .. k
      PROVE  EchoesIn(q)[i].action = (sent \o p)[i]
  <2>1. i \in 1 .. Len(sent) + Len(p) /\ i <= Len(sent)
    BY <1>1, <1>3
  <2> QED
    BY <1>2, <1>3, <2>1
<1> QED
  BY <1>4, <1>5 DEF EchoesMatch, k

\* The listeners leave a chat in order that is fit for them.
LEMMA ChatStep ==
  ASSUME NEW c, ChatShape(c), Followable(c), NEW b, BegunType(b), Numbered(c, b),
         NEW q \in Seq(ActionEnvelope), EchoesMatch(q, c.sent),
         ActiveId(View(c)) \in Given(b) \cup {None},
         StartsAreNew(q, b, IF ActiveId(View(c)) = None THEN c.lastSeen
                            ELSE ActiveId(View(c))),
         NEW d, d = Changed(c)
  PROVE  ChatIsSound(d, q, b) /\ KeepsMirror(c, d) /\ d.synced = c.synced
<1>1. /\ ChatShape(d) /\ Reacts(c, d) /\ OneTracker(d) /\ \A k \in Tracker : Asked(d, k)
      /\ d.lastSeen = IF ActiveId(View(c)) = None THEN c.lastSeen ELSE ActiveId(View(c))
  BY ChangedShape
<1>2. d.lastSeen \in Given(b) \cup {None}
  BY <1>1 DEF Numbered
<1>3. Numbered(d, b)
  BY <1>1, <1>2, NumberedAfter
<1>4. StartsAreNew(q, b, d.lastSeen)
  BY <1>1
<1>5. EchoesMatch(q, d.sent)
  <2>1. PICK p \in Seq(Confirmation \cup QueueEdit) : d.sent = c.sent \o p
    BY <1>1 DEF Reacts
  <2>2. p \in Seq(SessionAction) /\ c.sent \in Seq(SessionAction)
    BY ReactionTypes, ChatFields, SeqMonotonic
  <2> QED
    BY <2>1, <2>2, EchoesStillMatch
<1> QED
  BY <1>1, <1>3, <1>4, <1>5 DEF ChatIsSound, Reacts

\* The handler acts by itself in chat c0, and c is what the listeners are called on: it
\* sent something, and what that made active, if anything new, is a turn given out for it.
ActsOn(c0, q, b0, c, b) ==
  /\ q \in Seq(ActionEnvelope) /\ ChatIsSound(c0, q, b0) /\ GivenMore(b0, b)
  /\ ChatShape(c) /\ Followable(c) /\ Numbered(c, b)
  /\ \E p \in Seq(SessionAction) : c.sent = c0.sent \o p
  /\ c.lastSeen = c0.lastSeen
  /\ ActiveId(View(c)) \in {None, c0.lastSeen} \cup (Given(b) \ Given(b0))

LEMMA OwnStep ==
  ASSUME NEW c0, NEW q, NEW b0, NEW c, NEW b, ActsOn(c0, q, b0, c, b),
         NEW d, d = Changed(c)
  PROVE  ChatIsSound(d, q, b) /\ KeepsMirror(c, d) /\ d.synced = c.synced
<1> DEFINE t == ActiveId(View(c))
           seen == IF t = None THEN c.lastSeen ELSE t
<1> USE DEF ActsOn
<1>0. PICK p \in Seq(SessionAction) : c.sent = c0.sent \o p
  OBVIOUS
<1>1. BegunType(b)
  BY DEF GivenMore
<1>2. t \in Given(b) \cup {None}
  BY DEF Numbered
<1>3. EchoesMatch(q, c.sent)
  <2>1. c0.sent \in Seq(SessionAction) /\ EchoesMatch(q, c0.sent)
    BY ChatFields DEF ChatIsSound
  <2> QED
    BY <1>0, <2>1, EchoesStillMatch
<1>4. StartsAreNew(q, b0, c0.lastSeen)
  BY DEF ChatIsSound
<1>5. StartsAreNew(q, b, seen)
  <2>1. CASE seen = c0.lastSeen
    BY <1>4, <2>1, StillGiven
  <2>2. CASE seen # c0.lastSeen
    <3>1. seen \notin Given(b0)
      BY <2>2
    <3>2. StartsAreNew(q, b0, seen)
      BY <1>4, <3>1 DEF StartsAreNew
    <3> QED
      BY <3>2, StillGiven
  <2> QED
    BY <2>1, <2>2
<1> QED
  BY <1>1, <1>2, <1>3, <1>5, ChatStep

-----------------------------------------------------------------------------
(* The user's actions.                                                     *)

\* ListIsMirrored, for one step.
MirrorStep ==
  (chat # None /\ chat'.synced /\ chat'.queue # chat.queue) => Mirrors(chat')

LEMMA HandlerIsNotNone ==
  ASSUME NEW c, ChatShape(c)
  PROVE  c # None
BY NoneIsNoId DEF ChatShape

\* The chat is in order before a step of the user, and what the handler reads names
\* turns that were given out.
LEMMA ChatReads ==
  ASSUME HandlerInv, chat # None
  PROVE  /\ ChatIsSound(chat, arriving, begun)
         /\ ChatShape(chat) /\ OneTracker(chat) /\ Numbered(chat, begun)
         /\ ActiveId(View(chat)) \in {None, chat.lastSeen}
         /\ ActiveId(View(chat)) \in Given(begun) \cup {None}
         /\ BegunType(begun) /\ HostIsSound(host, begun)
         /\ arriving \in Seq(ActionEnvelope)
         /\ StartsAreNew(arriving, begun, chat.lastSeen) /\ EchoesMatch(arriving, chat.sent)
BY DEF HandlerInv, ChatIsSound, OneTracker, Numbered

LEMMA OwnAction ==
  ASSUME HandlerInv, chat # None, host' = host, arriving' = arriving,
         NEW c, ActsOn(chat, arriving, begun, c, begun'), chat' = Changed(c)
  PROVE  HandlerInv' /\ KeepsMirror(c, chat') /\ chat'.synced = c.synced
<1>1. PICK b : b = begun'
  OBVIOUS
<1>2. PICK d : d = chat'
  OBVIOUS
<1>3. /\ ChatIsSound(chat, arriving, begun) /\ arriving \in Seq(ActionEnvelope)
      /\ HostIsSound(host, begun)
  BY ChatReads
<1>4. ActsOn(chat, arriving, begun, c, b) /\ d = Changed(c) /\ GivenMore(begun, b)
  BY <1>1, <1>2 DEF ActsOn
<1>5. ChatIsSound(d, arriving, b) /\ KeepsMirror(c, d) /\ d.synced = c.synced
  BY <1>4, OwnStep
<1>6. HostIsSound(host, b) /\ BegunType(b)
  BY <1>3, <1>4, StillGiven DEF GivenMore
<1>7. d # None
  BY <1>5, HandlerIsNotNone DEF ChatIsSound
<1>8. BegunType(begun') /\ HostIsSound(host, begun') /\ ChatIsSound(chat', arriving, begun')
  BY <1>1, <1>2, <1>5, <1>6
<1>9. HandlerInv'
  BY <1>2, <1>3, <1>7, <1>8 DEF HandlerInv
<1> QED
  BY <1>2, <1>5, <1>9

LEMMA SameGiven ==
  ASSUME HandlerInv, begun' = begun
  PROVE  GivenMore(begun, begun')
BY GivenTypes DEF HandlerInv, GivenMore

\* An action that is in order is sent.
LEMMA SentNumbered ==
  ASSUME NEW c, ChatShape(c), NEW b, Numbered(c, b), NEW p \in Seq(SessionAction), NEW d,
         \A i \in DOMAIN p : p[i].type = "turnStarted" => p[i].turn \in Given(b),
         d.sent = c.sent \o p, d.queue = c.queue, d.lastSeen = c.lastSeen
  PROVE  Numbered(d, b)
<1> DEFINE n == Len(c.sent)
           m == Len(p)
<1>1. c.sent \in Seq(SessionAction)
  BY ChatFields
<1>2. n \in Nat /\ m \in Nat /\ DOMAIN c.sent = 1 .. n /\ DOMAIN p = 1 .. m
  BY <1>1, LenProperties
<1>3. /\ DOMAIN d.sent = 1 .. n + m
      /\ \A i \in 1 .. n + m : d.sent[i] = IF i <= n THEN c.sent[i] ELSE p[i - n]
  <2>1. \A x, y \in Seq(SessionAction) :
          /\ x \o y \in Seq(SessionAction) /\ Len(x \o y) = Len(x) + Len(y)
          /\ \A i \in 1 .. Len(x) + Len(y) :
               (x \o y)[i] = IF i <= Len(x) THEN x[i] ELSE y[i - Len(x)]
    BY ConcatProperties
  <2>2. d.sent \in Seq(SessionAction) /\ Len(d.sent) = n + m
    BY <1>1, <2>1
  <2>3. DOMAIN d.sent = 1 .. n + m
    BY <2>2, LenProperties
  <2> QED
    BY <1>1, <2>1, <2>3
<1> HIDE DEF n, m
<1>4. ASSUME NEW i \in DOMAIN d.sent, d.sent[i].type = "turnStarted"
      PROVE  d.sent[i].turn \in Given(b)
  <2>1. i \in 1 .. n + m
    BY <1>3, <1>4
  <2>2. CASE i <= n
    <3>1. i \in 1 .. n /\ d.sent[i] = c.sent[i]
      BY <1>2, <1>3, <2>1, <2>2
    <3> QED
      BY <1>2, <1>4, <3>1 DEF Numbered
  <2>3. CASE ~(i <= n)
    <3>1. i - n \in 1 .. m /\ d.sent[i] = p[i - n]
      BY <1>2, <1>3, <2>1, <2>3
    <3> QED
      BY <1>2, <1>4, <3>1
  <2> QED
    BY <2>2, <2>3
<1> QED
  BY <1>4 DEF Numbered

\* The pending requests of the chat are changed, and synced.
LEMMA QueueChangesInv ==
  ASSUME HandlerInv, chat # None,
         NEW queue \in Seq(MessageId), IsInjective(queue),
         ToSet(queue) \subseteq 1 .. begun'.messages,
         QueueChanges(queue),
         GivenMore(begun, begun'), host' = host, arriving' = arriving
  PROVE  HandlerInv' /\ MirrorStep
<1>1. PICK b : b = begun'
  OBVIOUS
<1> DEFINE e == [chat EXCEPT !.queue = queue]
           c == SyncPendingMessages(e)
<1>2. /\ ChatShape(chat) /\ OneTracker(chat) /\ Numbered(chat, begun)
      /\ ActiveId(View(chat)) \in {None, chat.lastSeen}
  BY ChatReads
<1>3. /\ e.queue = queue /\ e.sent = chat.sent /\ e.confirmed = chat.confirmed
      /\ e.synced = chat.synced /\ e.lastSeen = chat.lastSeen /\ e.turn = chat.turn
      /\ e.invocations = chat.invocations /\ e.request = chat.request
  BY <1>2 DEF ChatShape, HandlerState
<1>4. ChatShape(e)
  <2>1. e \in HandlerState
    BY <1>2 DEF ChatShape, HandlerState
  <2> HIDE DEF e
  <2> QED
    BY <1>2, <1>3, <2>1 DEF ChatShape
<1> HIDE DEF e
<1>5. /\ ChatShape(c)
      /\ \E q \in Seq(QueueEdit) : c.sent = e.sent \o q
      /\ c.confirmed = e.confirmed /\ c.queue = e.queue
      /\ c.synced = e.synced /\ c.lastSeen = e.lastSeen /\ c.turn = e.turn
      /\ c.synced => Mirrors(c)
  BY <1>4, SyncShape
<1>6. chat' = Changed(c)
  BY DEF QueueChanges, e
<1> HIDE DEF c
<1>7. PICK q \in Seq(QueueEdit) : c.sent = e.sent \o q
  BY <1>5
<1>8. q \in Seq(Confirmation \cup QueueEdit) /\ q \in Seq(SessionAction)
  BY ReactionTypes, SeqMonotonic
<1>9. Calmer(View(c), View(e))
  BY <1>4, <1>5, <1>7, <1>8, CalmAfter
<1>10. View(e) = View(chat)
  BY <1>3 DEF View
<1>11. Reacts(e, c)
  BY <1>5, <1>7, <1>8, <1>9 DEF Reacts, KeepsMirror
<1>12. ActiveId(View(c)) = ActiveId(View(chat))
  BY <1>9, <1>10 DEF Calmer
<1>13. Followable(c)
  BY <1>2, <1>3, <1>5, <1>12, StillFollowable
<1>14. Numbered(c, b)
  <2>1. Numbered(chat, b)
    BY <1>1, <1>2, StillGiven
  <2>2. Numbered(e, b)
    BY <1>1, <1>3, <2>1 DEF Numbered
  <2>3. c.lastSeen \in Given(b) \cup {None}
    BY <1>5, <2>2 DEF Numbered
  <2> QED
    BY <1>4, <1>5, <1>11, <2>2, <2>3, NumberedAfter
<1>15. HandlerInv' /\ KeepsMirror(c, chat') /\ chat'.synced = c.synced
  <2>1. ActsOn(chat, arriving, begun, c, begun')
    <3>1. /\ c.sent = chat.sent \o q /\ c.lastSeen = chat.lastSeen
          /\ ActiveId(View(c)) \in {None, chat.lastSeen}
      BY <1>2, <1>3, <1>5, <1>7, <1>12
    <3>2. ChatIsSound(chat, arriving, begun) /\ arriving \in Seq(ActionEnvelope)
      BY ChatReads
    <3> QED
      BY <1>1, <1>5, <1>8, <1>13, <1>14, <3>1, <3>2 DEF ActsOn
  <2> QED
    BY <1>6, <2>1, OwnAction
<1>16. chat'.synced => Mirrors(chat')
  BY <1>5, <1>15 DEF KeepsMirror
<1> QED
  BY <1>15, <1>16 DEF MirrorStep

\* A queue with one message more, with one less, and with one moved to the front.
LEMMA QueuesInOrder ==
  ASSUME NEW queue \in Seq(MessageId), IsInjective(queue)
  PROVE  /\ \A m \in MessageId \ ToSet(queue) : /\ Append(queue, m) \in Seq(MessageId)
                                                /\ IsInjective(Append(queue, m))
                                                /\ ToSet(Append(queue, m)) = ToSet(queue) \cup {m}
         /\ \A i \in DOMAIN queue :
              LET rest == RemoveAt(queue, i)
              IN /\ rest \in Seq(MessageId) /\ IsInjective(rest)
                 /\ ToSet(rest) \subseteq ToSet(queue)
                 /\ <<queue[i]>> \o rest \in Seq(MessageId)
                 /\ IsInjective(<<queue[i]>> \o rest)
                 /\ ToSet(<<queue[i]>> \o rest) \subseteq ToSet(queue)
<1> DEFINE n == Len(queue)
<1>1. n \in Nat /\ DOMAIN queue = 1 .. n /\ \A i \in 1 .. n : queue[i] \in MessageId
  BY LenProperties, ElementOfSeq
<1>2. ASSUME NEW m \in MessageId \ ToSet(queue)
      PROVE  /\ Append(queue, m) \in Seq(MessageId)
             /\ IsInjective(Append(queue, m))
             /\ ToSet(Append(queue, m)) = ToSet(queue) \cup {m}
  <2> DEFINE t == Append(queue, m)
  <2>1. t \in Seq(MessageId) /\ Len(t) = n + 1 /\ t[n + 1] = m
        /\ \A i \in 1 .. n : t[i] = queue[i]
    BY AppendProperties
  <2>2. ToSet(t) = ToSet(queue) \cup {m}
    BY ElementsOfAppend
  <2> HIDE DEF t
  <2>3. DOMAIN t = 1 .. n + 1
    BY <2>1, LenProperties
  <2> HIDE DEF n
  <2>4. \A i \in 1 .. n + 1 : i \in 1 .. n \/ i = n + 1
    BY <1>1
  <2>5. \A i \in 1 .. n : queue[i] # m
    BY <1>1 DEF ToSet
  <2>6. IsInjective(t)
    BY <1>1, <2>1, <2>3, <2>4, <2>5 DEF IsInjective
  <2> QED
    BY <2>1, <2>2, <2>6 DEF t
<1>3. ASSUME NEW i \in DOMAIN queue
      PROVE  LET rest == RemoveAt(queue, i)
             IN /\ rest \in Seq(MessageId) /\ IsInjective(rest)
                /\ ToSet(rest) \subseteq ToSet(queue)
                /\ <<queue[i]>> \o rest \in Seq(MessageId)
                /\ IsInjective(<<queue[i]>> \o rest)
                /\ ToSet(<<queue[i]>> \o rest) \subseteq ToSet(queue)
  <2> DEFINE x == SubSeq(queue, 1, i - 1)
             y == SubSeq(queue, i + 1, n)
             rest == x \o y
             front == <<queue[i]>> \o rest
  <2>1. i \in 1 .. n
    BY <1>1
  <2>2. /\ x \in Seq(MessageId) /\ Len(x) = i - 1 /\ \A k \in 1 .. i - 1 : x[k] = queue[k]
    <3>1. \A k \in 1 .. i - 1 : queue[k] \in MessageId
      BY <1>1, <2>1
    <3> HIDE DEF n
    <3>2. 1 \in 1 .. n + 1 /\ i - 1 \in 0 .. n
      BY <1>1, <2>1
    <3>3. /\ x \in Seq(MessageId) /\ Len(x) = (IF 1 <= i - 1 THEN i - 1 - 1 + 1 ELSE 0)
          /\ \A k \in 1 .. i - 1 - 1 + 1 : x[k] = queue[1 + k - 1]
      BY <3>2, SubSeqProperties DEF n
    <3> HIDE DEF x
    <3> QED
      BY <1>1, <2>1, <3>3
  <2>3. /\ y \in Seq(MessageId) /\ Len(y) = n - i /\ \A k \in 1 .. n - i : y[k] = queue[i + k]
    <3> HIDE DEF n
    <3>2. i + 1 \in 1 .. n + 1 /\ n \in 0 .. n
      BY <1>1, <2>1
    <3>3. /\ y \in Seq(MessageId) /\ Len(y) = (IF i + 1 <= n THEN n - (i + 1) + 1 ELSE 0)
          /\ \A k \in 1 .. n - (i + 1) + 1 : y[k] = queue[i + 1 + k - 1]
      BY <3>2, SubSeqProperties DEF n
    <3> HIDE DEF y
    <3>4. /\ i \in Nat /\ i <= n /\ n - (i + 1) + 1 = n - i
          /\ \A k \in 1 .. n - i : i + 1 + k - 1 = i + k
          /\ ~(i + 1 <= n) => n - i = 0
      BY <1>1, <2>1
    <3>5. Len(y) = n - i
      BY <3>3, <3>4
    <3>6. \A k \in 1 .. n - i : y[k] = queue[i + k]
      BY <3>3, <3>4
    <3> QED
      BY <3>3, <3>5, <3>6
  <2> HIDE DEF n, x, y
  <2>4. /\ rest \in Seq(MessageId) /\ Len(rest) = n - 1
        /\ \A k \in 1 .. n - 1 : rest[k] = IF k < i THEN queue[k] ELSE queue[k + 1]
    <3>1. /\ rest \in Seq(MessageId) /\ Len(rest) = (i - 1) + (n - i)
          /\ \A k \in 1 .. (i - 1) + (n - i) :
               rest[k] = IF k <= i - 1 THEN x[k] ELSE y[k - (i - 1)]
      <4>1. \A a, b \in Seq(MessageId) :
              /\ a \o b \in Seq(MessageId) /\ Len(a \o b) = Len(a) + Len(b)
              /\ \A k \in 1 .. Len(a) + Len(b) :
                   (a \o b)[k] = IF k <= Len(a) THEN a[k] ELSE b[k - Len(a)]
        BY ConcatProperties
      <4>2. PICK a \in Seq(MessageId) : a = x
        BY <2>2
      <4>3. PICK b \in Seq(MessageId) : b = y
        BY <2>3
      <4>4. /\ a \o b \in Seq(MessageId) /\ Len(a \o b) = Len(a) + Len(b)
            /\ \A k \in 1 .. Len(a) + Len(b) :
                 (a \o b)[k] = IF k <= Len(a) THEN a[k] ELSE b[k - Len(a)]
        BY <4>1
      <4>5. Len(a) = i - 1 /\ Len(b) = n - i /\ rest = a \o b
        BY <2>2, <2>3, <4>2, <4>3
      <4> HIDE DEF rest
      <4> QED
        BY <4>2, <4>3, <4>4, <4>5
    <3> HIDE DEF rest
    <3>2. ASSUME NEW k \in 1 .. n - 1
          PROVE  rest[k] = IF k < i THEN queue[k] ELSE queue[k + 1]
      <4>1. k \in 1 .. (i - 1) + (n - i)
        BY <1>1, <2>1 DEF n
      <4>2. CASE k < i
        <5>1. k <= i - 1 /\ k \in 1 .. i - 1
          BY <1>1, <2>1, <4>2
        <5> QED
          BY <2>2, <3>1, <4>1, <4>2, <5>1
      <4>3. CASE ~(k < i)
        <5>1. ~(k <= i - 1) /\ k - (i - 1) \in 1 .. n - i /\ i + (k - (i - 1)) = k + 1
          BY <1>1, <2>1, <4>3 DEF n
        <5> QED
          BY <2>3, <3>1, <4>1, <4>3, <5>1
      <4> QED
        BY <4>2, <4>3
    <3>3. (i - 1) + (n - i) = n - 1
      BY <1>1, <2>1 DEF n
    <3> QED
      BY <3>1, <3>2, <3>3
  <2>5. rest = RemoveAt(queue, i)
    BY DEF RemoveAt, x, y, n
  <2> HIDE DEF rest
  <2>6. DOMAIN rest = 1 .. n - 1
    BY <2>4, LenProperties
  <2> DEFINE from(k) == IF k < i THEN k ELSE k + 1
  <2>7. ASSUME NEW k \in 1 .. n - 1
        PROVE  from(k) \in 1 .. n /\ from(k) # i /\ rest[k] = queue[from(k)]
    BY <1>1, <2>1, <2>4 DEF n
  <2>8. \A k, l \in 1 .. n - 1 : from(k) = from(l) => k = l
    BY <1>1, <2>1 DEF n
  <2> HIDE DEF from
  <2>9. IsInjective(rest) /\ ToSet(rest) \subseteq ToSet(queue)
    <3>1. IsInjective(rest)
      BY <1>1, <2>6, <2>7, <2>8 DEF IsInjective, n
    <3>2. ToSet(rest) \subseteq ToSet(queue)
      BY <1>1, <2>6, <2>7 DEF ToSet, n
    <3> QED
      BY <3>1, <3>2
  <2>10. /\ front \in Seq(MessageId) /\ Len(front) = n /\ front[1] = queue[i]
         /\ \A k \in 2 .. n : front[k] = rest[k - 1]
    <3>1. <<queue[i]>> \in Seq(MessageId) /\ Len(<<queue[i]>>) = 1 /\ <<queue[i]>>[1] = queue[i]
      BY <1>1
    <3>2. PICK z \in Seq(MessageId) : z = <<queue[i]>>
      BY <3>1
    <3>3. /\ z \o rest \in Seq(MessageId) /\ Len(z \o rest) = 1 + (n - 1)
          /\ \A k \in 1 .. 1 + (n - 1) :
               (z \o rest)[k] = IF k <= 1 THEN z[k] ELSE rest[k - 1]
      BY <2>4, <3>1, <3>2, ConcatProperties
    <3>4. 1 + (n - 1) = n /\ 1 \in 1 .. n
      BY <1>1, <2>1 DEF n
    <3>5. \A k \in 2 .. n : k \in 1 .. n /\ ~(k <= 1)
      BY <1>1 DEF n
    <3> QED
      BY <3>1, <3>2, <3>3, <3>4, <3>5
  <2> HIDE DEF front
  <2>11. DOMAIN front = 1 .. n
    BY <2>10, LenProperties
  <2>12. ASSUME NEW k \in 1 .. n
         PROVE  \/ k = 1 /\ front[k] = queue[i]
                \/ k - 1 \in 1 .. n - 1 /\ front[k] = queue[from(k - 1)]
    <3>1. k = 1 \/ k \in 2 .. n
      BY <1>1 DEF n
    <3>2. k \in 2 .. n => k - 1 \in 1 .. n - 1
      BY <1>1 DEF n
    <3> QED
      BY <2>7, <2>10, <3>1, <3>2
  <2>13. ToSet(front) \subseteq ToSet(queue)
    <3>1. \A k \in 1 .. n : \E l \in 1 .. n : front[k] = queue[l]
      BY <2>1, <2>7, <2>12
    <3> QED
      BY <1>1, <2>11, <3>1 DEF ToSet, n
  <2>14. ASSUME NEW k \in 1 .. n, NEW l \in 1 .. n, front[k] = front[l]
         PROVE  k = l
    <3>1. \A g, h \in 1 .. n : queue[g] = queue[h] => g = h
      BY <1>1 DEF IsInjective, n
    <3>2. CASE k = 1 /\ l = 1
      BY <3>2
    <3>3. CASE k = 1 /\ l # 1
      <4>1. front[k] = queue[i] /\ l - 1 \in 1 .. n - 1 /\ front[l] = queue[from(l - 1)]
        BY <2>12, <3>3
      <4>2. from(l - 1) \in 1 .. n /\ from(l - 1) # i
        BY <2>7, <4>1
      <4> QED
        BY <2>1, <2>14, <3>1, <4>1, <4>2
    <3>4. CASE k # 1 /\ l = 1
      <4>1. front[l] = queue[i] /\ k - 1 \in 1 .. n - 1 /\ front[k] = queue[from(k - 1)]
        BY <2>12, <3>4
      <4>2. from(k - 1) \in 1 .. n /\ from(k - 1) # i
        BY <2>7, <4>1
      <4> QED
        BY <2>1, <2>14, <3>1, <4>1, <4>2
    <3>5. CASE k # 1 /\ l # 1
      <4>1. /\ k - 1 \in 1 .. n - 1 /\ front[k] = queue[from(k - 1)]
            /\ l - 1 \in 1 .. n - 1 /\ front[l] = queue[from(l - 1)]
        BY <2>12, <3>5
      <4>2. from(k - 1) = from(l - 1)
        BY <2>7, <2>14, <3>1, <4>1
      <4>3. k - 1 = l - 1
        BY <2>8, <4>1, <4>2
      <4> QED
        BY <1>1, <4>3 DEF n
    <3> QED
      BY <3>2, <3>3, <3>4, <3>5
  <2>15. IsInjective(front)
    BY <2>11, <2>14 DEF IsInjective
  <2> QED
    BY <2>4, <2>5, <2>9, <2>10, <2>13, <2>15 DEF front
<1> QED
  BY <1>2, <1>3

LEMMA StepMirrors ==
  ASSUME NEW c, c.queue = chat.queue, KeepsMirror(c, chat')
  PROVE  MirrorStep
BY DEF KeepsMirror, MirrorStep

LEMMA QueueInv ==
  ASSUME HandlerInv, Queue
  PROVE  HandlerInv' /\ MirrorStep
<1> DEFINE m == begun.messages + 1
           queue == Append(chat.queue, m)
<1>1. /\ chat # None /\ begun.messages < MaxQueue /\ QueueChanges(queue)
      /\ begun' = [begun EXCEPT !.messages = @ + 1]
      /\ host' = host /\ arriving' = arriving
  BY DEF Queue, UserMayAct
<1>2. /\ BegunType(begun) /\ ToSet(chat.queue) \subseteq 1 .. begun.messages
      /\ chat.queue \in Seq(MessageId) /\ IsInjective(chat.queue)
  BY <1>1, ChatReads, ChatFields DEF Numbered
<1>3. begun.messages \in Nat /\ MaxQueue \in Nat /\ 1 .. MaxQueue \subseteq MessageId
  BY <1>2, GivenTypes, IdsAreNumbers
<1>4. m \in 0 .. MaxQueue /\ m \in MessageId /\ m \notin 1 .. begun.messages
      /\ 1 .. m = (1 .. begun.messages) \cup {m} /\ begun.messages <= m
  BY <1>1, <1>3
<1>5. GivenMore(begun, begun') /\ begun'.messages = m
  <2>1. begun'.messages = m /\ begun'.turns = begun.turns
    BY <1>1, <1>2 DEF BegunType
  <2>2. BegunType(begun')
    BY <1>1, <1>2, <1>4 DEF BegunType
  <2>3. begun.turns <= begun.turns
    BY <1>2, GivenTypes
  <2> QED
    BY <1>2, <1>4, <2>1, <2>2, <2>3 DEF GivenMore
<1>6. queue \in Seq(MessageId) /\ IsInjective(queue) /\ ToSet(queue) = ToSet(chat.queue) \cup {m}
  <2>1. m \in MessageId \ ToSet(chat.queue)
    BY <1>2, <1>4
  <2> QED
    BY <1>2, <2>1, QueuesInOrder
<1> HIDE DEF m, queue
<1>7. ToSet(queue) \subseteq 1 .. begun'.messages
  BY <1>2, <1>4, <1>5, <1>6
<1> QED
  BY <1>1, <1>5, <1>6, <1>7, QueueChangesInv

\* A queue of no other messages than there were.
LEMMA SameQueuedInv ==
  ASSUME HandlerInv, chat # None, NEW queue \in Seq(MessageId), IsInjective(queue),
         ToSet(queue) \subseteq ToSet(chat.queue), QueueChanges(queue),
         UNCHANGED <<host, arriving, begun>>
  PROVE  HandlerInv' /\ MirrorStep
<1>1. GivenMore(begun, begun')
  BY SameGiven
<1>2. ToSet(chat.queue) \subseteq 1 .. begun.messages
  BY ChatReads DEF Numbered
<1>3. ToSet(queue) \subseteq 1 .. begun'.messages
  BY <1>2
<1> QED
  BY <1>1, <1>3, QueueChangesInv

LEMMA RemoveQueuedInv ==
  ASSUME HandlerInv, RemoveQueued
  PROVE  HandlerInv' /\ MirrorStep
<1>1. chat # None /\ UNCHANGED <<host, arriving, begun>>
  BY DEF RemoveQueued, UserMayAct
<1>2. PICK i \in DOMAIN chat.queue : QueueChanges(RemoveAt(chat.queue, i))
  BY DEF RemoveQueued
<1>3. chat.queue \in Seq(MessageId) /\ IsInjective(chat.queue)
  BY <1>1, ChatReads, ChatFields
<1>4. /\ RemoveAt(chat.queue, i) \in Seq(MessageId) /\ IsInjective(RemoveAt(chat.queue, i))
      /\ ToSet(RemoveAt(chat.queue, i)) \subseteq ToSet(chat.queue)
  BY <1>3, QueuesInOrder
<1> QED
  BY <1>1, <1>2, <1>4, SameQueuedInv

LEMMA ReorderQueueInv ==
  ASSUME HandlerInv, ReorderQueue
  PROVE  HandlerInv' /\ MirrorStep
<1> DEFINE moved(i) == <<chat.queue[i]>> \o RemoveAt(chat.queue, i)
<1>1. chat # None /\ UNCHANGED <<host, arriving, begun>>
  BY DEF ReorderQueue, UserMayAct
<1>2. PICK i \in 2 .. Len(chat.queue) : QueueChanges(moved(i))
  BY DEF ReorderQueue
<1>3. chat.queue \in Seq(MessageId) /\ IsInjective(chat.queue)
  BY <1>1, ChatReads, ChatFields
<1>4. i \in DOMAIN chat.queue
  <2>1. Len(chat.queue) \in Nat /\ DOMAIN chat.queue = 1 .. Len(chat.queue)
    BY <1>3, LenProperties
  <2> QED
    BY <2>1
<1>5. /\ moved(i) \in Seq(MessageId) /\ IsInjective(moved(i))
      /\ ToSet(moved(i)) \subseteq ToSet(chat.queue)
  BY <1>3, <1>4, QueuesInOrder
<1> HIDE DEF moved
<1> QED
  BY <1>1, <1>2, <1>5, SameQueuedInv

\* The handler answers questions: e is the chat before, but for what it shows.
LEMMA AnswersActOn ==
  ASSUME NEW c0, NEW q \in Seq(ActionEnvelope), NEW b0, ChatIsSound(c0, q, b0),
         BegunType(b0), NEW e, ChatShape(e),
         e.sent = c0.sent, e.confirmed = c0.confirmed, e.queue = c0.queue,
         e.lastSeen = c0.lastSeen, e.turn = c0.turn,
         NEW p \in Seq(Confirmation), NEW c, c = Sending(e, p)
  PROVE  ActsOn(c0, q, b0, c, b0) /\ c.queue = c0.queue
<1>1. p \in Seq(SessionAction) /\ p \in Seq(Confirmation \cup QueueEdit)
  BY ReactionTypes, SeqMonotonic
<1>2. /\ ChatShape(c) /\ c.sent = e.sent \o p /\ c.confirmed = e.confirmed
      /\ c.queue = e.queue /\ c.lastSeen = e.lastSeen /\ c.turn = e.turn
  <2>1. PICK r \in Seq(SessionAction) : r = p
    BY <1>1
  <2>2. c = Sending(e, r) /\ ChatShape(e)
    BY <2>1
  <2>3. /\ ChatShape(c) /\ c.sent = e.sent \o r /\ c.confirmed = e.confirmed
        /\ c.queue = e.queue /\ c.lastSeen = e.lastSeen /\ c.turn = e.turn
    BY ONLY <2>1, <2>2, SentShape
  <2> QED
    BY <2>1, <2>3
<1>3. OneTracker(c0) /\ Numbered(c0, b0) /\ ChatShape(c0)
  BY DEF ChatIsSound
<1>4. ActiveId(View(c)) = ActiveId(View(c0))
  <2>1. Calmer(View(c), View(e))
    BY <1>1, <1>2, CalmAfter
  <2>2. View(e) = View(c0)
    BY DEF View
  <2> QED
    BY <2>1, <2>2 DEF Calmer
<1>5. Followable(c)
  BY <1>2, <1>3, <1>4, StillFollowable
<1>6. Numbered(c, b0)
  <2>1. \A i \in DOMAIN p : p[i].type = "turnStarted" => p[i].turn \in Given(b0)
    <3>1. \A i \in DOMAIN p : p[i] \in Confirmation
      BY LenProperties, ElementOfSeq
    <3> QED
      BY <3>1 DEF Confirmation
  <2>2. c.sent = c0.sent \o p /\ c.queue = c0.queue /\ c.lastSeen = c0.lastSeen
    BY <1>2
  <2> QED
    BY <1>1, <1>3, <2>1, <2>2, SentNumbered
<1>7. GivenMore(b0, b0)
  BY GivenTypes DEF GivenMore
<1>8. ActiveId(View(c)) \in {None, c0.lastSeen}
  BY <1>3, <1>4 DEF OneTracker
<1> QED
  BY <1>1, <1>2, <1>5, <1>6, <1>7, <1>8 DEF ActsOn

LEMMA AnswerInv ==
  ASSUME HandlerInv, Answer
  PROVE  HandlerInv' /\ MirrorStep
<1>1. chat # None /\ host' = host /\ arriving' = arriving /\ begun' = begun
  BY DEF Answer, UserMayAct
<1>2. PICK k \in Tracker, x \in ToolCallId, yes \in BOOLEAN :
        /\ chat.invocations[k][x] = "waiting"
        /\ chat' = Changed([chat EXCEPT
             !.invocations[k][x] = IF yes THEN "executing" ELSE "done",
             !.sent = @ \o Answers(chat.turn[k], {x}, yes)])
  BY DEF Answer
<1> DEFINE now == IF yes THEN "executing" ELSE "done"
           shown == [chat.invocations[k] EXCEPT ![x] = now]
           e == [chat EXCEPT !.invocations[k] = shown]
           p == Answers(chat.turn[k], {x}, yes)
           c == Sending(e, p)
<1>3. /\ ChatIsSound(chat, arriving, begun) /\ ChatShape(chat) /\ BegunType(begun)
      /\ arriving \in Seq(ActionEnvelope)
  BY <1>1, ChatReads
<1>4. /\ chat \in HandlerState /\ chat.turn \in [Tracker -> TurnId \cup {None}]
      /\ chat.invocations \in [Tracker -> [ToolCallId -> Invocation]]
  BY <1>3, ChatFields DEF ChatShape
<1>5. chat.turn[k] \in TurnId
  <2>1. chat.turn[k] # None
    BY <1>2, <1>3 DEF ChatShape, NoInvocations
  <2> QED
    BY <1>4, <2>1
<1>6. /\ shown \in [ToolCallId -> Invocation]
      /\ ShownCalls(shown) = ShownCalls(chat.invocations[k])
  BY <1>2, <1>4 DEF Invocation, ShownCalls
<1>7. /\ e \in HandlerState /\ e.invocations = [chat.invocations EXCEPT ![k] = shown]
      /\ e.sent = chat.sent /\ e.confirmed = chat.confirmed /\ e.queue = chat.queue
      /\ e.lastSeen = chat.lastSeen /\ e.turn = chat.turn /\ e.request = chat.request
  <2> HIDE DEF shown
  <2> QED
    BY <1>4, <1>6 DEF HandlerState
<1>8. [chat EXCEPT !.invocations[k][x] = now, !.sent = @ \o p] = c
  BY <1>4 DEF HandlerState, Sending
<1>9. p \in Seq(Confirmation)
  <2>1. {x} \in SUBSET ToolCallId /\ IsFiniteSet({x})
    BY FS_Singleton
  <2> QED
    BY <1>5, <2>1, AnswersType
<1> HIDE DEF shown, e, p
<1>10. ChatShape(e)
  <2>1. \A j \in Tracker : e.invocations[j] = IF j = k THEN shown ELSE chat.invocations[j]
    BY <1>4, <1>7
  <2>2. \A j \in Tracker : /\ e.turn[j] = None => e.invocations[j] = NoInvocations
                           /\ IsFiniteSet(ShownCalls(e.invocations[j]))
    BY <1>3, <1>5, <1>6, <1>7, <2>1, NoneIsNoId DEF ChatShape
  <2> QED
    BY <1>3, <1>7, <2>2 DEF ChatShape
<1>11. ActsOn(chat, arriving, begun, c, begun) /\ c.queue = chat.queue
  <2>1. PICK c0 : c0 = chat
    OBVIOUS
  <2>2. PICK q \in Seq(ActionEnvelope) : q = arriving
    BY <1>3
  <2>3. PICK b0 : b0 = begun
    OBVIOUS
  <2>4. /\ ChatIsSound(c0, q, b0) /\ BegunType(b0) /\ ChatShape(e)
        /\ e.sent = c0.sent /\ e.confirmed = c0.confirmed /\ e.queue = c0.queue
        /\ e.lastSeen = c0.lastSeen /\ e.turn = c0.turn
    BY <1>3, <1>7, <1>10, <2>1, <2>2, <2>3
  <2>5. c = Sending(e, p)
    OBVIOUS
  <2> HIDE DEF c
  <2>6. ActsOn(c0, q, b0, c, b0) /\ c.queue = c0.queue
    BY ONLY <1>9, <2>2, <2>4, <2>5, AnswersActOn
  <2> QED
    BY <2>1, <2>2, <2>3, <2>6
<1>12. chat' = Changed(c)
  BY <1>2, <1>8 DEF p
<1> HIDE DEF c
<1>13. HandlerInv' /\ KeepsMirror(c, chat')
  BY <1>1, <1>11, <1>12, OwnAction
<1> QED
  BY <1>11, <1>13, StepMirrors

LEMMA TurnActionTypes ==
  ASSUME NEW t \in TurnId
  PROVE  /\ StartsTurn(t, None) \in SessionAction
         /\ \A m \in MessageId : StartsTurn(t, m) \in SessionAction
         /\ \A type \in TurnEnds : EndsTurn(type, t) \in SessionAction
<1>1. Prompt \in Text
  BY TextIsThere DEF Prompt
<1> QED
  BY <1>1 DEF StartsTurn, EndsTurn, SessionAction, TurnActionType, TurnEnds

\* A turn is ended, and its questions are answered.
LEMMA EndActsOn ==
  ASSUME NEW c0, NEW q \in Seq(ActionEnvelope), NEW b0, ChatIsSound(c0, q, b0),
         BegunType(b0), NEW t \in TurnId, NEW p \in Seq(Confirmation),
         NEW c, ChatShape(c), c.confirmed = c0.confirmed, c.queue = c0.queue,
         c.lastSeen = c0.lastSeen,
         c.sent = Append(c0.sent, EndsTurn("turnCancelled", t)) \o p,
         ActiveId(View(c0)) # t => c.turn = c0.turn
  PROVE  ActsOn(c0, q, b0, c, b0)
<1> DEFINE a == EndsTurn("turnCancelled", t)
           v == View(c0)
           w == View(c)
<1>1. a \in SessionAction /\ a.type = "turnCancelled" /\ a.turn = t
  BY TurnActionTypes DEF TurnEnds, EndsTurn
<1> HIDE DEF a
<1>2. p \in Seq(SessionAction) /\ p \in Seq(Confirmation \cup QueueEdit)
  BY ReactionTypes, SeqMonotonic
<1>3. /\ OneTracker(c0) /\ Numbered(c0, b0) /\ ChatShape(c0)
      /\ c0.sent \in Seq(SessionAction) /\ Sound(c0.confirmed) /\ Sound(v)
  BY ChatFields, ViewSound DEF ChatIsSound
<1>4. /\ Append(c0.sent, a) \in Seq(SessionAction)
      /\ c.sent = c0.sent \o (<<a>> \o p) /\ <<a>> \o p \in Seq(SessionAction)
      /\ Append(c0.sent, a) = c0.sent \o <<a>>
  <2>2. <<a>> \in Seq(SessionAction) /\ Append(c0.sent, a) = c0.sent \o <<a>>
        /\ Append(c0.sent, a) \in Seq(SessionAction)
    BY <1>1, <1>3, AppendIsConcat, AppendProperties
  <2>3. (c0.sent \o <<a>>) \o p = c0.sent \o (<<a>> \o p)
        /\ <<a>> \o p \in Seq(SessionAction)
    <3>1. PICK x \in Seq(SessionAction) : x = c0.sent
      BY <1>3
    <3>2. PICK y \in Seq(SessionAction) : y = <<a>>
      BY <2>2
    <3>3. (x \o y) \o p = x \o (y \o p) /\ y \o p \in Seq(SessionAction)
      BY ONLY x \in Seq(SessionAction), y \in Seq(SessionAction), <1>2, SentInParts,
              Zenon
    <3> QED
      BY <3>1, <3>2, <3>3
  <2> QED
    BY <2>2, <2>3 DEF a
<1>5. ActiveId(w) = ActiveAfter(ActiveId(v), a)
  <2> DEFINE u == Reduce(v, a)
  <2>1. w = Applied(Applied(c0.confirmed, Append(c0.sent, a)), p)
    <3>1. PICK s \in Seq(SessionAction) : s = Append(c0.sent, a)
      BY <1>4
    <3>2. c.sent = s \o p
      BY <3>1 DEF a
    <3>3. Applied(c0.confirmed, s \o p) = Applied(Applied(c0.confirmed, s), p)
      BY ONLY <1>2, <1>3, <3>1, AppliedConcat
    <3> QED
      BY <3>1, <3>2, <3>3 DEF View
  <2>2. Applied(c0.confirmed, Append(c0.sent, a)) = u
    BY <1>1, <1>3, AppliedAppend DEF View
  <2>3. Sound(u)
    <3>1. Sound(Applied(c0.confirmed, Append(c0.sent, a)))
      BY <1>3, <1>4, AppliedSound
    <3> QED
      BY <2>2, <3>1
  <2>4. ActiveId(u) = ActiveAfter(ActiveId(v), a)
    BY <1>1, <1>3, ActiveAfterReduce
  <2> HIDE DEF u, w, v
  <2>5. Calmer(Applied(u, p), u)
    BY <1>2, <2>3, ReactionsCalm
  <2> QED
    BY <2>1, <2>2, <2>4, <2>5 DEF Calmer
<1>6. ActiveId(w) = IF ActiveId(v) = t THEN None ELSE ActiveId(v)
  BY <1>1, <1>5 DEF ActiveAfter, TurnEnds
<1>7. Followable(c)
  <2>1. CASE ActiveId(v) = t
    BY <1>6, <2>1 DEF Followable
  <2>2. CASE ActiveId(v) # t
    BY <1>3, <1>6, <2>2, StillFollowable
  <2> QED
    BY <2>1, <2>2
<1>8. Numbered(c, b0)
  <2> DEFINE r == <<a>> \o p
  <2>1. \A i \in DOMAIN r : r[i].type # "turnStarted"
    <3>1. \A x, y \in Seq(SessionAction) :
            /\ Len(x \o y) = Len(x) + Len(y)
            /\ \A i \in 1 .. Len(x) + Len(y) :
                 (x \o y)[i] = IF i <= Len(x) THEN x[i] ELSE y[i - Len(x)]
      BY ConcatProperties
    <3>2. PICK x \in Seq(SessionAction) : x = <<a>> /\ Len(x) = 1 /\ x[1] = a
      <4>1. <<a>> \in Seq(SessionAction)
        BY <1>1
      <4>2. Len(<<a>>) = 1 /\ <<a>>[1] = a
        OBVIOUS
      <4> QED
        BY <4>1, <4>2
    <3>3. /\ Len(x \o p) = 1 + Len(p)
          /\ \A i \in 1 .. 1 + Len(p) : (x \o p)[i] = IF i <= 1 THEN x[i] ELSE p[i - 1]
      BY <1>2, <3>1, <3>2
    <3>4. r = x \o p /\ DOMAIN r = 1 .. 1 + Len(p)
      BY <1>4, <3>2, <3>3, LenProperties
    <3>5. Len(p) \in Nat /\ \A j \in 1 .. Len(p) : p[j] \in Confirmation
      BY LenProperties, ElementOfSeq
    <3> HIDE DEF r
    <3>6. ASSUME NEW i \in DOMAIN r
          PROVE  r[i].type # "turnStarted"
      <4>1. i = 1 \/ (~(i <= 1) /\ i - 1 \in 1 .. Len(p))
        BY <3>4, <3>5
      <4>2. r[i] = a \/ r[i] \in Confirmation
        BY <3>2, <3>3, <3>4, <3>5, <4>1
      <4> QED
        BY <1>1, <4>2 DEF Confirmation
    <3> QED
      BY <3>6
  <2>2. r \in Seq(SessionAction) /\ c.sent = c0.sent \o r
    BY <1>4
  <2> HIDE DEF r
  <2>3. PICK s \in Seq(SessionAction) : s = r
    BY <2>2
  <2>4. /\ \A i \in DOMAIN s : s[i].type = "turnStarted" => s[i].turn \in Given(b0)
        /\ c.sent = c0.sent \o s /\ c.queue = c0.queue /\ c.lastSeen = c0.lastSeen
        /\ ChatShape(c0) /\ Numbered(c0, b0)
    BY <1>3, <2>1, <2>2, <2>3
  <2> QED
    BY ONLY <2>3, <2>4, SentNumbered
<1>9. GivenMore(b0, b0)
  BY GivenTypes DEF GivenMore
<1>10. ActiveId(w) \in {None, c0.lastSeen}
  BY <1>3, <1>6 DEF OneTracker
<1> HIDE DEF w, v
<1> QED
  BY <1>4, <1>7, <1>8, <1>9, <1>10 DEF ActsOn, w

LEMMA StopRequestInv ==
  ASSUME HandlerInv, StopRequest
  PROVE  HandlerInv' /\ MirrorStep
<1> DEFINE t == chat.turn["request"]
           open == {x \in ToolCallId : chat.invocations["request"][x] = "waiting"}
           p == Answers(t, open, FALSE)
           sent == Append(chat.sent, EndsTurn("turnCancelled", t)) \o p
           turn == [chat.turn EXCEPT !["request"] = None]
           invocations == [chat.invocations EXCEPT !["request"] = NoInvocations]
           c == [chat EXCEPT !.sent = sent, !.turn = turn, !.invocations = invocations,
                             !.complete = TRUE, !.request = "none", !.listening = FALSE]
<1>1. /\ chat # None /\ host' = host /\ arriving' = arriving /\ begun' = begun
      /\ chat.request = "own"
  BY DEF StopRequest, UserMayAct
<1>2. /\ ChatIsSound(chat, arriving, begun) /\ ChatShape(chat) /\ BegunType(begun)
      /\ arriving \in Seq(ActionEnvelope) /\ OneTracker(chat)
  BY <1>1, ChatReads
<1>3. /\ chat \in HandlerState /\ chat.turn \in [Tracker -> TurnId \cup {None}]
      /\ chat.invocations \in [Tracker -> [ToolCallId -> Invocation]]
      /\ chat.sent \in Seq(SessionAction)
  BY <1>2, ChatFields DEF ChatShape
<1>4. chat' = Changed(c)
  BY <1>3 DEF StopRequest, HandlerState
<1>5. t \in TurnId /\ t = ActiveId(View(chat))
  <2>1. t # None /\ "request" \in Tracker
    BY <1>1, <1>2 DEF ChatShape, Tracker
  <2> QED
    BY <1>2, <1>3, <2>1 DEF OneTracker
<1>6. p \in Seq(Confirmation)
  <2>1. open \in SUBSET ToolCallId /\ open \in SUBSET ShownCalls(chat.invocations["request"])
    BY DEF ShownCalls
  <2>2. IsFiniteSet(ShownCalls(chat.invocations["request"]))
    BY <1>2 DEF ChatShape, Tracker
  <2> HIDE DEF open
  <2>3. IsFiniteSet(open)
    BY <2>1, <2>2, FS_Subset
  <2> QED
    BY <1>5, <2>1, <2>3, AnswersType
<1> HIDE DEF t, p
<1>7. sent \in Seq(SessionAction)
  <2>1. p \in Seq(SessionAction)
    BY <1>6, ReactionTypes, SeqMonotonic
  <2>2. EndsTurn("turnCancelled", t) \in SessionAction
    BY <1>5, TurnActionTypes DEF TurnEnds
  <2>3. Append(chat.sent, EndsTurn("turnCancelled", t)) \in Seq(SessionAction)
    BY <1>3, <2>2, AppendProperties
  <2> QED
    BY <2>1, <2>3, ConcatProperties
<1>8. /\ NoInvocations \in [ToolCallId -> Invocation] /\ IsFiniteSet(ShownCalls(NoInvocations))
      /\ "request" \in Tracker
  <2>1. ShownCalls(NoInvocations) = {}
    BY DEF ShownCalls, NoInvocations
  <2> QED
    BY <2>1, FS_EmptySet DEF NoInvocations, Invocation, Tracker
<1>9. /\ turn \in [Tracker -> TurnId \cup {None}]
      /\ invocations \in [Tracker -> [ToolCallId -> Invocation]]
      /\ \A k \in Tracker : /\ turn[k] = IF k = "request" THEN None ELSE chat.turn[k]
                            /\ invocations[k] = IF k = "request" THEN NoInvocations
                                                ELSE chat.invocations[k]
  BY <1>3, <1>8
<1> HIDE DEF sent, turn, invocations
<1>10. /\ c \in HandlerState /\ c.sent = sent /\ c.turn = turn /\ c.invocations = invocations
       /\ c.request = "none" /\ c.confirmed = chat.confirmed /\ c.queue = chat.queue
       /\ c.lastSeen = chat.lastSeen
  BY <1>3, <1>7, <1>9 DEF HandlerState
<1> HIDE DEF c
<1>11. ChatShape(c)
  BY <1>2, <1>8, <1>9, <1>10 DEF ChatShape
<1>12. ActsOn(chat, arriving, begun, c, begun)
  <2>1. PICK c0 : c0 = chat
    OBVIOUS
  <2>2. PICK q \in Seq(ActionEnvelope) : q = arriving
    BY <1>2
  <2>3. PICK b0 : b0 = begun
    OBVIOUS
  <2>4. /\ ChatIsSound(c0, q, b0) /\ BegunType(b0) /\ ChatShape(c)
        /\ c.confirmed = c0.confirmed /\ c.queue = c0.queue /\ c.lastSeen = c0.lastSeen
        /\ c.sent = Append(c0.sent, EndsTurn("turnCancelled", t)) \o p
        /\ ActiveId(View(c0)) # t => c.turn = c0.turn
    BY <1>2, <1>5, <1>10, <1>11, <2>1, <2>2, <2>3 DEF sent
  <2>5. ActsOn(c0, q, b0, c, b0)
    BY ONLY <1>5, <1>6, <2>2, <2>4, EndActsOn
  <2> QED
    BY <2>1, <2>2, <2>3, <2>5
<1>13. HandlerInv' /\ KeepsMirror(c, chat')
  BY <1>1, <1>4, <1>12, OwnAction
<1> QED
  BY <1>10, <1>13, StepMirrors

LEMMA StopServerTurnInv ==
  ASSUME HandlerInv, StopServerTurn
  PROVE  HandlerInv' /\ MirrorStep
<1> DEFINE stopped == [chat EXCEPT !.request = "none", !.listening = FALSE]
           t == chat.interrupts
           a == EndsTurn("turnCancelled", t)
           sent == Append(chat.sent, a)
           c == [chat EXCEPT !.request = "none", !.listening = FALSE, !.sent = sent]
<1>1. /\ chat # None /\ host' = host /\ arriving' = arriving /\ begun' = begun
  BY DEF StopServerTurn, UserMayAct
<1>2. /\ ChatIsSound(chat, arriving, begun) /\ ChatShape(chat) /\ BegunType(begun)
      /\ arriving \in Seq(ActionEnvelope) /\ HostIsSound(host, begun)
  BY <1>1, ChatReads
<1>3. /\ chat \in HandlerState /\ chat.sent \in Seq(SessionAction)
      /\ t \in TurnId \cup {None}
  BY <1>2, ChatFields DEF ChatShape
<1>4. CASE ~(chat.listening /\ t # None)
  <2>1. chat' = stopped
    BY <1>4 DEF StopServerTurn
  <2>2. /\ stopped \in HandlerState /\ stopped.request = "none"
        /\ stopped.sent = chat.sent /\ stopped.confirmed = chat.confirmed
        /\ stopped.queue = chat.queue /\ stopped.lastSeen = chat.lastSeen
        /\ stopped.turn = chat.turn /\ stopped.invocations = chat.invocations
    BY <1>3 DEF HandlerState
  <2>3. PICK d : d = chat'
    OBVIOUS
  <2> HIDE DEF stopped
  <2>4. /\ d \in HandlerState /\ d.request = "none"
        /\ d.sent = chat.sent /\ d.confirmed = chat.confirmed
        /\ d.queue = chat.queue /\ d.lastSeen = chat.lastSeen
        /\ d.turn = chat.turn /\ d.invocations = chat.invocations
    BY <2>1, <2>2, <2>3
  <2>5. View(d) = View(chat)
    BY <2>4 DEF View
  <2>6. ChatShape(d)
    BY <1>2, <2>4 DEF ChatShape
  <2>7. OneTracker(d) /\ (\A k \in Tracker : Asked(d, k)) /\ Numbered(d, begun)
    BY <1>2, <2>4, <2>5 DEF ChatIsSound, OneTracker, Asked, Numbered
  <2>8. ChatIsSound(d, arriving, begun)
    BY <1>2, <2>4, <2>6, <2>7 DEF ChatIsSound
  <2>9. d # None
    BY <2>6, HandlerIsNotNone
  <2>10. HandlerInv'
    BY <1>1, <1>2, <2>3, <2>8, <2>9 DEF HandlerInv
  <2>11. MirrorStep
    BY <2>3, <2>4 DEF MirrorStep
  <2> QED
    BY <2>10, <2>11
<1>5. CASE chat.listening /\ t # None
  <2>1. t \in TurnId
    BY <1>3, <1>5
  <2>2. chat' = Changed(c)
    BY <1>3, <1>5 DEF StopServerTurn, Dispatched, HandlerState
  <2>3. a \in SessionAction
    BY <2>1, TurnActionTypes DEF TurnEnds
  <2> HIDE DEF t, a
  <2>4. sent \in Seq(SessionAction) /\ sent \o <<>> = sent
    BY <1>3, <2>3, AppendProperties, ConcatEmptySeq
  <2> HIDE DEF sent
  <2>5. /\ c \in HandlerState /\ c.request = "none" /\ c.sent = sent
        /\ c.confirmed = chat.confirmed /\ c.queue = chat.queue
        /\ c.lastSeen = chat.lastSeen
        /\ c.turn = chat.turn /\ c.invocations = chat.invocations
    BY <1>3, <2>4 DEF HandlerState
  <2> HIDE DEF c
  <2>6. ChatShape(c)
    BY <1>2, <2>5 DEF ChatShape
  <2>7. ActsOn(chat, arriving, begun, c, begun)
    <3>1. PICK c0 : c0 = chat
      OBVIOUS
    <3>2. PICK q \in Seq(ActionEnvelope) : q = arriving
      BY <1>2
    <3>3. PICK b0 : b0 = begun
      OBVIOUS
    <3>4. PICK p \in Seq(Confirmation) : p = <<>>
      BY EmptySeq
    <3>5. /\ ChatIsSound(c0, q, b0) /\ BegunType(b0) /\ ChatShape(c)
          /\ c.confirmed = c0.confirmed /\ c.queue = c0.queue /\ c.lastSeen = c0.lastSeen
          /\ c.sent = Append(c0.sent, EndsTurn("turnCancelled", t)) \o p
          /\ ActiveId(View(c0)) # t => c.turn = c0.turn
      BY <1>2, <2>4, <2>5, <2>6, <3>1, <3>2, <3>3, <3>4 DEF sent, a
    <3>6. ActsOn(c0, q, b0, c, b0)
      BY ONLY <2>1, <3>2, <3>4, <3>5, EndActsOn
    <3> QED
      BY <3>1, <3>2, <3>3, <3>6
  <2>8. HandlerInv' /\ KeepsMirror(c, chat')
    BY <1>1, <2>2, <2>7, OwnAction
  <2> QED
    BY <2>5, <2>8, StepMirrors
<1> QED
  BY <1>4, <1>5

\* A turn of the user is sent from chat c0.
SentFrom(c0, t) ==
  [c0 EXCEPT !.turn["request"] = t, !.request = "own",
             !.sent = Append(@, StartsTurn(t, None))]

LEMMA SendActsOn ==
  ASSUME NEW c0, NEW q \in Seq(ActionEnvelope), NEW b0, ChatIsSound(c0, q, b0),
         NEW b, GivenMore(b0, b), NEW t, t = b0.turns + 1, b.turns = t,
         NEW c, c = SentFrom(c0, t)
  PROVE  ActsOn(c0, q, b0, c, b)
<1> DEFINE a == StartsTurn(t, None)
           v == View(c0)
           w == View(c)
           sent == Append(c0.sent, a)
           turn == [c0.turn EXCEPT !["request"] = t]
<1>1. /\ OneTracker(c0) /\ Numbered(c0, b0) /\ ChatShape(c0) /\ c0 \in HandlerState
      /\ c0.sent \in Seq(SessionAction) /\ Sound(c0.confirmed) /\ Sound(v)
      /\ c0.turn \in [Tracker -> TurnId \cup {None}]
      /\ c0.invocations \in [Tracker -> [ToolCallId -> Invocation]]
  BY ChatFields, ViewSound DEF ChatIsSound, ChatShape
<1>2. /\ t \in Given(b) /\ t \notin Given(b0) /\ t \in TurnId /\ t # None
  <2>1. b0.turns \in Nat /\ b.turns \in Nat /\ Given(b) \subseteq TurnId /\ None \notin Given(b)
    BY GivenTypes DEF GivenMore
  <2>2. t \in Given(b) /\ t \notin Given(b0)
    BY <2>1 DEF Given
  <2> QED
    BY <2>1, <2>2
<1>3. a \in SessionAction /\ a.type = "turnStarted" /\ a.turn = t
  <2>1. a \in SessionAction
    BY <1>2, TurnActionTypes
  <2> QED
    BY <2>1 DEF StartsTurn
<1> HIDE DEF a
<1>4. sent \in Seq(SessionAction) /\ sent = c0.sent \o <<a>> /\ <<a>> \in Seq(SessionAction)
  BY <1>1, <1>3, AppendProperties, AppendIsConcat
<1>5. /\ turn \in [Tracker -> TurnId \cup {None}] /\ "request" \in Tracker
      /\ \A k \in Tracker : turn[k] = IF k = "request" THEN t ELSE c0.turn[k]
  BY <1>1, <1>2 DEF Tracker
<1>6. c = [c0 EXCEPT !.turn = turn, !.request = "own", !.sent = sent]
  BY <1>1 DEF SentFrom, HandlerState, a
<1>7. Applied(c0.confirmed, sent) = Reduce(v, a)
  BY <1>1, <1>3, AppliedAppend DEF View
<1> HIDE DEF sent, turn
<1>8. /\ c \in HandlerState /\ c.sent = sent /\ c.turn = turn /\ c.request = "own"
      /\ c.invocations = c0.invocations /\ c.confirmed = c0.confirmed
      /\ c.queue = c0.queue /\ c.lastSeen = c0.lastSeen
  BY <1>1, <1>4, <1>5, <1>6 DEF HandlerState
<1>9. ChatShape(c)
  <2>1. \A k \in Tracker : /\ c.turn[k] = None => c.invocations[k] = NoInvocations
                           /\ IsFiniteSet(ShownCalls(c.invocations[k]))
    BY <1>1, <1>2, <1>5, <1>8 DEF ChatShape
  <2>2. c.turn["request"] # None
    BY <1>2, <1>5, <1>8
  <2> QED
    BY <1>1, <1>8, <2>1, <2>2 DEF ChatShape
<1>10. ActiveId(w) = t
  <2>1. w = Reduce(v, a)
    BY <1>7, <1>8 DEF View
  <2>2. ActiveId(Reduce(v, a)) = ActiveAfter(ActiveId(v), a)
    BY <1>1, <1>3, ActiveAfterReduce
  <2> QED
    BY <1>3, <2>1, <2>2 DEF ActiveAfter
<1>11. Followable(c)
  <2>1. \A k \in Tracker : c0.turn[k] # t
    <3>1. ActiveId(v) \in {None, c0.lastSeen}
      BY <1>1 DEF OneTracker
    <3>2. c0.lastSeen # t
      BY <1>1, <1>2 DEF Numbered
    <3> QED
      BY <1>1, <1>2, <3>1, <3>2 DEF OneTracker
  <2>2. \A k \in Tracker : c.turn[k] = t <=> k = "request"
    BY <1>5, <1>8, <2>1
  <2> QED
    BY <1>5, <1>10, <2>2 DEF Followable
<1>12. Numbered(c, b)
  <2>1. \A i \in DOMAIN <<a>> : <<a>>[i].type = "turnStarted" => <<a>>[i].turn \in Given(b)
    BY <1>2, <1>3
  <2>2. Numbered(c0, b)
    BY <1>1, StillGiven
  <2>3. PICK s \in Seq(SessionAction) : s = <<a>>
    BY <1>4
  <2>4. /\ \A i \in DOMAIN s : s[i].type = "turnStarted" => s[i].turn \in Given(b)
        /\ c.sent = c0.sent \o s /\ c.queue = c0.queue /\ c.lastSeen = c0.lastSeen
        /\ ChatShape(c0)
    BY <1>1, <1>4, <1>8, <2>1, <2>3
  <2> QED
    BY ONLY <2>2, <2>3, <2>4, SentNumbered
<1>13. /\ \E p \in Seq(SessionAction) : c.sent = c0.sent \o p
       /\ ActiveId(w) \in Given(b) \ Given(b0)
  BY <1>2, <1>4, <1>8, <1>10
<1> HIDE DEF w, v
<1> QED
  BY <1>8, <1>9, <1>11, <1>12, <1>13 DEF ActsOn, w

LEMMA TurnGiven ==
  ASSUME NEW b, BegunType(b), NEW t, t = b.turns + 1, t <= MaxTurns,
         NEW b2, b2 = [b EXCEPT !.turns = @ + 1]
  PROVE  GivenMore(b, b2) /\ b2.turns = t
<1>1. b.turns \in Nat /\ MaxTurns \in Nat
  BY GivenTypes, IdsAreNumbers
<1>2. t \in 0 .. MaxTurns /\ b.turns <= t
  BY <1>1
<1>3. BegunType(b2) /\ b2.turns = t /\ b2.messages = b.messages
  BY <1>2 DEF BegunType
<1>4. b.messages <= b.messages
  BY GivenTypes
<1> QED
  BY <1>2, <1>3, <1>4 DEF GivenMore

LEMMA HandledFrom ==
  ASSUME NEW c, c \in HandlerState, NEW t
  PROVE  TurnHandled(c, t) = Changed(SentFrom(c, t))
BY DEF TurnHandled, Dispatched, SentFrom, HandlerState

LEMMA SendInv ==
  ASSUME HandlerInv, Send
  PROVE  HandlerInv' /\ MirrorStep
<1>1. /\ chat # None /\ host' = host /\ arriving' = arriving
      /\ begun' = [begun EXCEPT !.turns = @ + 1]
  BY DEF Send, UserMayAct
<1>2. PICK t \in TurnId : NewTurn(t) /\ chat' = TurnHandled(chat, t)
  BY DEF Send
<1>3. /\ ChatIsSound(chat, arriving, begun) /\ chat \in HandlerState /\ BegunType(begun)
      /\ arriving \in Seq(ActionEnvelope)
  BY <1>1, ChatReads DEF ChatShape
<1>4. t = begun.turns + 1 /\ t <= MaxTurns
  BY <1>2 DEF NewTurn
<1>5. GivenMore(begun, begun') /\ begun'.turns = t
  <2>1. PICK b2 : b2 = begun'
    OBVIOUS
  <2> QED
    BY <1>1, <1>3, <1>4, <2>1, TurnGiven
<1>c. PICK c : c = SentFrom(chat, t)
  OBVIOUS
<1>6. chat' = Changed(c)
  BY <1>2, <1>3, <1>c, HandledFrom
<1>7. ActsOn(chat, arriving, begun, c, begun') /\ c.queue = chat.queue
  <2>1. PICK c0 : c0 = chat
    OBVIOUS
  <2>2. PICK q \in Seq(ActionEnvelope) : q = arriving
    BY <1>3
  <2>3. PICK b0 : b0 = begun
    OBVIOUS
  <2>4. PICK b : b = begun'
    OBVIOUS
  <2>5. /\ ChatIsSound(c0, q, b0) /\ GivenMore(b0, b) /\ t = b0.turns + 1 /\ b.turns = t
        /\ c = SentFrom(c0, t)
    BY <1>3, <1>4, <1>5, <1>c, <2>1, <2>2, <2>3, <2>4
  <2>6. ActsOn(c0, q, b0, c, b)
    BY ONLY <2>2, <2>5, SendActsOn
  <2>7. c.queue = chat.queue
    BY <1>3, <1>c DEF SentFrom, HandlerState
  <2> QED
    BY <2>1, <2>2, <2>3, <2>4, <2>6, <2>7
<1>8. HandlerInv' /\ KeepsMirror(c, chat')
  BY <1>1, <1>6, <1>7, OwnAction
<1> QED
  BY <1>7, <1>8, StepMirrors

-----------------------------------------------------------------------------
(* A chat is opened.                                                       *)

\* Chat c shows session h, whose active turn it reconnects to.
IsFresh(c, h) ==
  /\ c \in HandlerState
  /\ c.confirmed = h /\ c.sent = <<>> /\ c.queue = <<>>
  /\ c.lastSeen = ActiveId(h)
  /\ c.turn = [k \in Tracker |-> IF k = "reconnect" THEN ActiveId(h) ELSE None]
  /\ c.invocations =
       [k \in Tracker |-> IF k = "reconnect"
                          THEN Shown(NoInvocations, PartsOfTurn(h, ActiveId(h)))
                          ELSE NoInvocations]
  /\ c.request # "own"

LEMMA FirstShown ==
  ASSUME NEW h, Sound(h), NEW shown,
         shown = Shown(NoInvocations, PartsOfTurn(h, ActiveId(h)))
  PROVE  /\ NoInvocations \in [ToolCallId -> Invocation]
         /\ IsFiniteSet(ShownCalls(NoInvocations))
         /\ shown \in [ToolCallId -> Invocation]
         /\ IsFiniteSet(ShownCalls(shown))
         /\ ActiveId(h) = None => shown = NoInvocations
<1>1. NoInvocations \in [ToolCallId -> Invocation] /\ IsFiniteSet(ShownCalls(NoInvocations))
  <2>1. ShownCalls(NoInvocations) = {}
    BY DEF ShownCalls, NoInvocations
  <2> QED
    BY <2>1, FS_EmptySet DEF NoInvocations, Invocation
<1> DEFINE parts == PartsOfTurn(h, ActiveId(h))
<1>2. parts \in Seq(Part)
  BY PartsOfTurnType
<1>3. ActiveId(h) = None => parts = <<>>
  BY PartsOfNoTurn
<1> HIDE DEF parts
<1>4. /\ Shown(NoInvocations, parts) \in [ToolCallId -> Invocation]
      /\ IsFiniteSet(ShownCalls(Shown(NoInvocations, parts)))
      /\ parts = <<>> => Shown(NoInvocations, parts) = NoInvocations
  BY ONLY <1>1, <1>2, ShownType
<1> QED
  BY <1>1, <1>3, <1>4 DEF parts

LEMMA FreshIsSound ==
  ASSUME NEW h, NEW b, BegunType(b), HostIsSound(h, b), NEW c, IsFresh(c, h)
  PROVE  ChatIsSound(c, <<>>, b) /\ View(c) = h
<1> DEFINE t == ActiveId(h)
           parts == PartsOfTurn(h, t)
           shown == Shown(NoInvocations, parts)
<1>1. Sound(h) /\ t \in Given(b) \cup {None}
  BY DEF HostIsSound
<1>2. View(c) = h
  BY <1>1, AppliedNone DEF View, IsFresh
<1>3. "reconnect" \in Tracker /\ "request" \in Tracker /\ "request" # "reconnect"
  BY DEF Tracker
<1>4. /\ \A k \in Tracker : /\ c.turn[k] = IF k = "reconnect" THEN t ELSE None
                            /\ c.invocations[k] = IF k = "reconnect" THEN shown
                                                  ELSE NoInvocations
      /\ c \in HandlerState /\ c.confirmed = h /\ c.sent = <<>> /\ c.queue = <<>>
      /\ c.lastSeen = t /\ c.request # "own"
  BY DEF IsFresh
<1>5. /\ IsFiniteSet(ShownCalls(NoInvocations)) /\ IsFiniteSet(ShownCalls(shown))
      /\ t = None => shown = NoInvocations
  BY <1>1, FirstShown
<1>6. /\ Len(<<>>) = 0 /\ <<>> \in Seq(ActionEnvelope) /\ DOMAIN <<>> = {}
  BY EmptySeq
<1>7. ChatShape(c)
  <2>1. IsInjective(c.queue)
    BY <1>4, <1>6 DEF IsInjective
  <2> HIDE DEF t, shown
  <2>2. \A k \in Tracker : /\ c.turn[k] = None => c.invocations[k] = NoInvocations
                           /\ IsFiniteSet(ShownCalls(c.invocations[k]))
    BY <1>4, <1>5
  <2> QED
    BY <1>1, <1>4, <2>1, <2>2 DEF ChatShape
<1>8. OneTracker(c)
  <2>1. \A k \in Tracker : c.turn[k] \in {t, None}
    BY <1>4
  <2>2. t # None => \A j \in Tracker : c.turn[j] = t <=> j = "reconnect"
    BY <1>4
  <2> QED
    BY <1>2, <1>3, <1>4, <2>1, <2>2 DEF OneTracker
<1>9. \A k \in Tracker : Asked(c, k)
  <2>1. SUFFICES ASSUME NEW k \in Tracker, c.turn[k] # None, NEW x \in ToolCallId,
                        Waits(View(c), c.turn[k], x)
                 PROVE  c.invocations[k][x] = "waiting"
    BY DEF Asked
  <2>2. c.turn[k] = t /\ c.invocations[k] = shown
    BY <1>4, <2>1
  <2>3. StatusIn(parts, x) = "pendingConfirmation"
    BY <1>2, <2>1, <2>2 DEF Waits
  <2> QED
    BY <2>2, <2>3, ShownWaits
<1>10. Numbered(c, b)
  <2>1. ToSet(c.queue) = {}
    BY <1>4, <1>6 DEF ToSet
  <2> QED
    BY <1>1, <1>4, <1>6, <2>1 DEF Numbered
<1>11. StartsAreNew(<<>>, b, c.lastSeen)
  BY <1>6 DEF StartsAreNew
<1>12. EchoesMatch(<<>>, c.sent)
  <2>1. EchoesIn(<<>>) = <<>>
    BY WithinEmpty DEF EchoesIn
  <2> QED
    BY <1>4, <1>6, <2>1 DEF EchoesMatch
<1> QED
  BY <1>2, <1>7, <1>8, <1>9, <1>10, <1>11, <1>12 DEF ChatIsSound

\* What a step from a closed chat has to show.
LEMMA OpenedInv ==
  ASSUME HandlerInv, chat = None, host' = host, arriving' = arriving,
         GivenMore(begun, begun'), ChatIsSound(chat', <<>>, begun')
  PROVE  HandlerInv' /\ MirrorStep
<1>1. /\ arriving = <<>> /\ <<>> \in Seq(ActionEnvelope) /\ HostIsSound(host, begun)
  BY EmptySeq DEF HandlerInv
<1>2. PICK b : b = begun'
  OBVIOUS
<1>3. HostIsSound(host, b) /\ BegunType(b)
  BY <1>1, <1>2, StillGiven DEF GivenMore
<1>4. chat' # None
  <2>1. PICK d : d = chat'
    OBVIOUS
  <2> QED
    BY <2>1, HandlerIsNotNone DEF ChatIsSound
<1>5. HandlerInv'
  BY <1>1, <1>2, <1>3, <1>4 DEF HandlerInv
<1> QED
  BY <1>5 DEF MirrorStep

LEMMA OpenedFields ==
  ASSUME NEW h, Sound(h)
  PROVE  LET c == Opened(h)
         IN /\ c \in HandlerState
            /\ c.confirmed = h /\ c.sent = <<>> /\ c.queue = <<>>
            /\ c.lastSeen = ActiveId(h) /\ c.interrupts = ActiveId(h)
            /\ c.turn = [k \in Tracker |-> IF k = "reconnect" THEN ActiveId(h) ELSE None]
            /\ c.invocations = [k \in Tracker |-> NoInvocations]
            /\ c.request # "own"
<1> DEFINE c == Opened(h)
           t == ActiveId(h)
           turn == [k \in Tracker |-> IF k = "reconnect" THEN t ELSE None]
           invocations == [k \in Tracker |-> NoInvocations]
<1>1. /\ c.confirmed = h /\ c.sent = <<>> /\ c.queue = <<>>
      /\ c.lastSeen = t /\ c.interrupts = t /\ c.turn = turn
      /\ c.invocations = invocations /\ c.request # "own"
  BY DEF Opened, SeenAtFirst
<1>2. t \in TurnId \cup {None} /\ h \in SessionState
  BY ActiveIdType DEF Sound
<1>3. /\ turn \in [Tracker -> TurnId \cup {None}]
      /\ invocations \in [Tracker -> [ToolCallId -> Invocation]]
  BY <1>2 DEF NoInvocations, Invocation
<1>4. <<>> \in Seq(SessionAction) /\ <<>> \in Seq(MessageId)
  BY EmptySeq
<1>5. c = [confirmed |-> h, sent |-> <<>>, queue |-> <<>>, synced |-> FALSE,
           previousQueued |-> None, lastSeen |-> t, turn |-> turn,
           invocations |-> invocations,
           streaming |-> c.streaming, complete |-> c.complete, request |-> c.request,
           listening |-> c.listening, interrupts |-> t]
  BY DEF Opened, SeenAtFirst
<1>6. /\ c.streaming \in BOOLEAN /\ c.complete \in BOOLEAN /\ c.listening \in BOOLEAN
      /\ c.request \in {"none", "own", "server"}
  BY DEF Opened
<1> HIDE DEF c, t, turn, invocations
<1>7. c \in HandlerState
  <2>1. PICK x \in BOOLEAN, y \in BOOLEAN, z \in BOOLEAN, r \in {"none", "own", "server"} :
          x = c.streaming /\ y = c.complete /\ z = c.listening /\ r = c.request
    BY <1>6
  <2>2. c = [confirmed |-> h, sent |-> <<>>, queue |-> <<>>, synced |-> FALSE,
             previousQueued |-> None, lastSeen |-> t, turn |-> turn,
             invocations |-> invocations, streaming |-> x, complete |-> y, request |-> r,
             listening |-> z, interrupts |-> t]
    BY <1>5, <2>1
  <2>3. None \in (SUBSET MessageId) \cup {None} /\ FALSE \in BOOLEAN
    OBVIOUS
  <2> QED
    BY ONLY <1>2, <1>3, <1>4, <2>1, <2>2, <2>3 DEF HandlerState
<1> QED
  BY <1>1, <1>7 DEF c, t, turn, invocations

LEMMA NewChatInv ==
  ASSUME HandlerInv, NewChat
  PROVE  HandlerInv' /\ MirrorStep
<1>1. /\ chat = None /\ host' = host /\ arriving' = arriving /\ begun.turns = 0
      /\ begun' = [begun EXCEPT !.turns = @ + 1]
  BY DEF NewChat
<1> DEFINE opened == Opened(host)
           c0 == [opened EXCEPT !.synced = TRUE]
<1>2. PICK t \in TurnId : NewTurn(t) /\ chat' = TurnHandled(c0, t)
  BY DEF NewChat
<1>3. /\ BegunType(begun) /\ HostIsSound(host, begun) /\ Sound(host)
  BY DEF HandlerInv, HostIsSound
<1>4. ActiveId(host) = None
  <2>1. Given(begun) = {}
    BY <1>1 DEF Given
  <2> QED
    BY <1>3, <2>1 DEF HostIsSound
<1>5. IsFresh(c0, host)
  <2>1. /\ opened \in HandlerState
        /\ opened.confirmed = host /\ opened.sent = <<>> /\ opened.queue = <<>>
        /\ opened.lastSeen = ActiveId(host)
        /\ opened.turn = [k \in Tracker |-> IF k = "reconnect" THEN ActiveId(host) ELSE None]
        /\ opened.invocations = [k \in Tracker |-> NoInvocations]
        /\ opened.request # "own"
    BY <1>3, OpenedFields
  <2>2. Shown(NoInvocations, PartsOfTurn(host, ActiveId(host))) = NoInvocations
    BY <1>3, <1>4, FirstShown
  <2> HIDE DEF opened
  <2>3. /\ c0 \in HandlerState /\ c0.confirmed = opened.confirmed /\ c0.sent = opened.sent
        /\ c0.queue = opened.queue /\ c0.lastSeen = opened.lastSeen
        /\ c0.turn = opened.turn /\ c0.invocations = opened.invocations
        /\ c0.request = opened.request
    BY <2>1 DEF HandlerState
  <2> HIDE DEF c0
  <2>4. c0.invocations =
          [k \in Tracker |-> IF k = "reconnect"
                             THEN Shown(NoInvocations, PartsOfTurn(host, ActiveId(host)))
                             ELSE NoInvocations]
    BY <2>1, <2>2, <2>3
  <2> QED
    BY <2>1, <2>3, <2>4 DEF IsFresh
<1>6. t = begun.turns + 1 /\ t <= MaxTurns
  BY <1>2 DEF NewTurn
<1>7. PICK b : b = begun'
  OBVIOUS
<1>8. GivenMore(begun, b) /\ b.turns = t
  BY <1>1, <1>3, <1>6, <1>7, TurnGiven
<1>9. PICK b0 : b0 = begun
  OBVIOUS
<1>10. PICK d : d = chat'
  OBVIOUS
<1>11. PICK q \in Seq(ActionEnvelope) : q = <<>>
  BY EmptySeq
<1>12. PICK o : o = c0
  OBVIOUS
<1>13. ChatIsSound(o, q, b0)
  BY <1>3, <1>5, <1>9, <1>11, <1>12, FreshIsSound
<1>14. o \in HandlerState
  BY <1>5, <1>12 DEF IsFresh
<1>15. d = Changed(SentFrom(o, t))
  BY <1>2, <1>10, <1>12, <1>14, HandledFrom
<1>16. PICK c : c = SentFrom(o, t)
  OBVIOUS
<1>17. ActsOn(o, q, b0, c, b)
  <2>1. t = b0.turns + 1 /\ GivenMore(b0, b) /\ b.turns = t
    BY <1>6, <1>8, <1>9
  <2> QED
    BY ONLY <1>11, <1>13, <1>16, <2>1, SendActsOn
<1>18. ChatIsSound(d, q, b)
  BY ONLY <1>15, <1>16, <1>17, OwnStep
<1>19. ChatIsSound(chat', <<>>, begun') /\ GivenMore(begun, begun')
  BY <1>7, <1>8, <1>10, <1>11, <1>18
<1> QED
  BY <1>1, <1>19, OpenedInv

LEMMA OpenSessionInv ==
  ASSUME HandlerInv, OpenSession
  PROVE  HandlerInv' /\ MirrorStep
<1> DEFINE opened == Opened(host)
           t == opened.interrupts
           shown == Shown(NoInvocations, PartsOfTurn(host, t))
           running == {x \in ToolCallId : shown[x] = "executing"}
           fresh == [opened EXCEPT !.invocations["reconnect"] = shown]
           answers == Answers(t, running, TRUE)
           tracked == [opened EXCEPT !.invocations["reconnect"] = shown, !.sent = answers]
<1>1. /\ chat = None /\ host' = host /\ arriving' = arriving /\ begun' = begun
      /\ chat' = IF running = {} THEN tracked ELSE Changed(tracked)
  BY DEF OpenSession
<1>2. /\ BegunType(begun) /\ HostIsSound(host, begun) /\ Sound(host)
  BY DEF HandlerInv, HostIsSound
<1>3. /\ opened \in HandlerState
      /\ opened.confirmed = host /\ opened.sent = <<>> /\ opened.queue = <<>>
      /\ opened.lastSeen = ActiveId(host) /\ t = ActiveId(host)
      /\ opened.turn = [k \in Tracker |-> IF k = "reconnect" THEN ActiveId(host) ELSE None]
      /\ opened.invocations = [k \in Tracker |-> NoInvocations]
      /\ opened.request # "own"
  BY <1>2, OpenedFields
<1>4. /\ shown \in [ToolCallId -> Invocation] /\ IsFiniteSet(ShownCalls(shown))
      /\ t = None => shown = NoInvocations
  <2>1. shown = Shown(NoInvocations, PartsOfTurn(host, ActiveId(host)))
    BY <1>3
  <2> QED
    BY <1>2, <1>3, <2>1, FirstShown
<1>5. /\ running \in SUBSET ToolCallId /\ IsFiniteSet(running)
      /\ t = None => running = {}
  <2>1. running \in SUBSET ToolCallId /\ running \in SUBSET ShownCalls(shown)
    BY DEF ShownCalls
  <2>2. t = None => running = {}
    BY <1>4 DEF NoInvocations
  <2> HIDE DEF running, shown
  <2> QED
    BY <1>4, <2>1, <2>2, FS_Subset
<1>6. ActiveId(host) \in TurnId \cup {None}
  BY <1>2, ActiveIdType
<1>7. IsFresh(fresh, host)
  <2>1. PICK o \in HandlerState : o = opened
    BY <1>3
  <2>2. shown = Shown(NoInvocations, PartsOfTurn(host, ActiveId(host)))
    BY <1>3
  <2>3. PICK s \in [ToolCallId -> Invocation] : s = shown
    BY <1>4
  <2>4. PICK f : f = [o EXCEPT !.invocations["reconnect"] = s]
    OBVIOUS
  <2>5. /\ f \in HandlerState /\ f.confirmed = o.confirmed /\ f.sent = o.sent
        /\ f.queue = o.queue /\ f.lastSeen = o.lastSeen /\ f.turn = o.turn
        /\ f.request = o.request
        /\ f.invocations = [o.invocations EXCEPT !["reconnect"] = s]
    BY <2>4 DEF HandlerState
  <2>6. f.invocations = [k \in Tracker |-> IF k = "reconnect" THEN s ELSE NoInvocations]
    BY <1>3, <2>1, <2>5 DEF Tracker
  <2>7. IsFresh(f, host)
    BY <1>3, <2>1, <2>2, <2>3, <2>5, <2>6 DEF IsFresh
  <2> QED
    BY <2>1, <2>3, <2>4, <2>7
<1>8. ChatIsSound(fresh, <<>>, begun)
  <2>1. PICK f : f = fresh
    OBVIOUS
  <2>2. ChatIsSound(f, <<>>, begun)
    BY <1>2, <1>7, <2>1, FreshIsSound
  <2> QED
    BY <2>1, <2>2
<1>9. GivenMore(begun, begun')
  BY <1>1, SameGiven
<1>10. fresh \in HandlerState /\ fresh.sent = <<>> /\ ChatShape(fresh)
  BY <1>7, <1>8 DEF IsFresh, ChatIsSound
<1>11. tracked = [fresh EXCEPT !.sent = answers]
  BY <1>3 DEF HandlerState
<1>12. CASE running = {}
  <2>1. answers = <<>>
    BY <1>12, AnswersNone
  <2>2. tracked = fresh
    <3>1. PICK f \in HandlerState : f = fresh
      BY <1>10
    <3>2. f.sent = <<>> => [f EXCEPT !.sent = <<>>] = f
      BY DEF HandlerState
    <3> HIDE DEF fresh, tracked, answers
    <3> QED
      BY <1>10, <1>11, <2>1, <3>1, <3>2
  <2> HIDE DEF fresh, tracked, running
  <2>3. ChatIsSound(chat', <<>>, begun')
    BY <1>1, <1>8, <1>12, <2>2
  <2> QED
    BY <1>1, <1>9, <2>3, OpenedInv
<1>13. CASE running # {}
  <2>1. t \in TurnId
    BY <1>3, <1>5, <1>6, <1>13
  <2>2. answers \in Seq(Confirmation)
    <3> HIDE DEF t, running
    <3> QED
      BY <1>5, <2>1, AnswersType
  <2>3. PICK p \in Seq(Confirmation) : p = answers
    BY <2>2
  <2>4. p \in Seq(SessionAction)
    BY ReactionTypes, SeqMonotonic
  <2>5. tracked = Sending(fresh, p)
    <3>1. <<>> \o p = p
      BY <2>4, ConcatEmptySeq
    <3> HIDE DEF fresh, tracked, answers
    <3> QED
      BY <1>10, <1>11, <2>3, <3>1 DEF Sending
  <2> HIDE DEF fresh, tracked, running, answers
  <2>6. PICK o : o = fresh
    OBVIOUS
  <2>7. PICK q \in Seq(ActionEnvelope) : q = <<>>
    BY EmptySeq
  <2>8. PICK b : b = begun
    OBVIOUS
  <2>9. PICK c : c = tracked
    OBVIOUS
  <2>10. PICK d : d = chat'
    OBVIOUS
  <2>11. /\ ChatIsSound(o, q, b) /\ BegunType(b) /\ ChatShape(o) /\ c = Sending(o, p)
         /\ d = Changed(c)
    BY <1>1, <1>2, <1>8, <1>10, <1>13, <2>5, <2>6, <2>7, <2>8, <2>9, <2>10
  <2>12. ActsOn(o, q, b, c, b)
    BY ONLY <2>3, <2>7, <2>11, AnswersActOn
  <2>13. ChatIsSound(d, q, b)
    BY ONLY <2>11, <2>12, OwnStep
  <2>14. ChatIsSound(chat', <<>>, begun')
    BY <1>1, <2>7, <2>8, <2>10, <2>13
  <2> QED
    BY <1>1, <1>9, <2>14, OpenedInv
<1> QED
  BY <1>12, <1>13

-----------------------------------------------------------------------------
(* The host, its agent and other clients.                                  *)

ActionsOf(es) == [i \in DOMAIN es |-> es[i].action]

\* Others start at most one turn, a new one, among envelopes es.
StartsOnce(es, b0, b) ==
  \A i \in DOMAIN es : es[i].action.type = "turnStarted" =>
    /\ es[i].action.turn \in Given(b)
    /\ ~es[i].own => /\ es[i].action.turn \notin Given(b0)
                     /\ \A j \in DOMAIN es : IsForeignStart(es[j]) => i = j

LEMMA ConcatEnvelopes ==
  ASSUME NEW q \in Seq(ActionEnvelope), NEW es \in Seq(ActionEnvelope)
  PROVE  /\ Len(q) \in Nat /\ Len(es) \in Nat /\ q \o es \in Seq(ActionEnvelope)
         /\ DOMAIN q = 1 .. Len(q) /\ DOMAIN es = 1 .. Len(es)
         /\ DOMAIN (q \o es) = 1 .. Len(q) + Len(es)
         /\ \A i \in 1 .. Len(q) + Len(es) :
              \/ i \in 1 .. Len(q) /\ (q \o es)[i] = q[i]
              \/ i - Len(q) \in 1 .. Len(es) /\ (q \o es)[i] = es[i - Len(q)]
<1> DEFINE n == Len(q)
           m == Len(es)
<1>1. n \in Nat /\ m \in Nat /\ DOMAIN q = 1 .. n /\ DOMAIN es = 1 .. m
  BY LenProperties
<1>2. /\ q \o es \in Seq(ActionEnvelope) /\ Len(q \o es) = n + m
      /\ \A i \in 1 .. n + m : (q \o es)[i] = IF i <= n THEN q[i] ELSE es[i - n]
  BY ConcatProperties
<1>3. DOMAIN (q \o es) = 1 .. n + m
  BY <1>2, LenProperties
<1> HIDE DEF n, m
<1>4. \A i \in 1 .. n + m : (i <= n /\ i \in 1 .. n) \/ (~(i <= n) /\ i - n \in 1 .. m)
  BY <1>1
<1> QED
  BY <1>1, <1>2, <1>3, <1>4 DEF n, m

LEMMA StartsAfter ==
  ASSUME NEW q \in Seq(ActionEnvelope), NEW es \in Seq(ActionEnvelope),
         NEW b0, NEW b, GivenMore(b0, b), NEW seen \in Given(b0) \cup {None},
         StartsAreNew(q, b0, seen), StartsOnce(es, b0, b)
  PROVE  StartsAreNew(q \o es, b, seen)
<1> DEFINE n == Len(q)
           m == Len(es)
           w == q \o es
<1>1. /\ n \in Nat /\ m \in Nat /\ DOMAIN q = 1 .. n /\ DOMAIN es = 1 .. m
      /\ DOMAIN w = 1 .. n + m
      /\ \A i \in 1 .. n + m : \/ i \in 1 .. n /\ w[i] = q[i]
                               \/ i - n \in 1 .. m /\ w[i] = es[i - n]
  BY ConcatEnvelopes
<1> HIDE DEF n, m, w
<1>2. Given(b0) \subseteq Given(b) /\ None \notin Given(b)
  BY StillGiven, GivenTypes DEF GivenMore
<1>3. ASSUME NEW i \in 1 .. n + m, IsForeignStart(w[i])
      PROVE  w[i].action.turn \in Given(b) \ {seen}
  <2>1. CASE i \in 1 .. n /\ w[i] = q[i]
    BY <1>1, <1>2, <1>3, <2>1 DEF StartsAreNew
  <2>2. CASE i - n \in 1 .. m /\ w[i] = es[i - n]
    BY <1>1, <1>2, <1>3, <2>2 DEF StartsOnce, IsForeignStart
  <2> QED
    BY <1>1, <2>1, <2>2
<1>4. ASSUME NEW i \in 1 .. n + m, NEW j \in 1 .. n + m,
             IsForeignStart(w[i]), IsForeignStart(w[j]),
             w[i].action.turn = w[j].action.turn
      PROVE  i = j
  <2>1. CASE i \in 1 .. n /\ w[i] = q[i] /\ j \in 1 .. n /\ w[j] = q[j]
    BY <1>1, <1>4, <2>1 DEF StartsAreNew
  <2>2. CASE /\ i - n \in 1 .. m /\ w[i] = es[i - n]
             /\ j - n \in 1 .. m /\ w[j] = es[j - n]
    <3>1. i - n = j - n
      BY <1>1, <1>4, <2>2 DEF StartsOnce, IsForeignStart
    <3> QED
      BY <1>1, <3>1
  <2>3. CASE i \in 1 .. n /\ w[i] = q[i] /\ j - n \in 1 .. m /\ w[j] = es[j - n]
    <3>1. w[i].action.turn \in Given(b0) /\ w[j].action.turn \notin Given(b0)
      BY <1>1, <1>4, <2>3 DEF StartsOnce, StartsAreNew, IsForeignStart
    <3> QED
      BY <1>4, <3>1
  <2>4. CASE j \in 1 .. n /\ w[j] = q[j] /\ i - n \in 1 .. m /\ w[i] = es[i - n]
    <3>1. w[j].action.turn \in Given(b0) /\ w[i].action.turn \notin Given(b0)
      BY <1>1, <1>4, <2>4 DEF StartsOnce, StartsAreNew, IsForeignStart
    <3> QED
      BY <1>4, <3>1
  <2> QED
    BY <1>1, <2>1, <2>2, <2>3, <2>4
<1> QED
  BY <1>1, <1>3, <1>4 DEF StartsAreNew, w

\* The host broadcasts no echo, or that of the oldest action that has none.
LEMMA EchoesAfter ==
  ASSUME NEW q \in Seq(ActionEnvelope), NEW es \in Seq(ActionEnvelope),
         NEW sent, Len(sent) \in Nat, EchoesMatch(q, sent),
         \/ EchoesIn(es) = <<>>
         \/ \E e \in ActionEnvelope : /\ EchoesIn(es) = <<e>>
                                      /\ Len(EchoesIn(q)) < Len(sent)
                                      /\ e.action = sent[Len(EchoesIn(q)) + 1]
  PROVE  EchoesMatch(q \o es, sent)
<1> DEFINE x == EchoesIn(q)
           y == EchoesIn(es)
           k == Len(x)
<1>1. EchoesIn(q \o es) = x \o y
  BY WithinConcat DEF EchoesIn
<1>2. x \in Seq(ActionEnvelope) /\ k \in Nat /\ y \in Seq(ActionEnvelope)
  BY EchoesType
<1>3. k <= Len(sent) /\ \A i \in 1 .. k : x[i].action = sent[i]
  BY DEF EchoesMatch
<1>4. CASE y = <<>>
  <2>1. x \o y = x
    BY <1>2, <1>4, ConcatEmptySeq
  <2> QED
    BY <1>1, <2>1 DEF EchoesMatch
<1>5. CASE y # <<>>
  <2>1. PICK e \in ActionEnvelope : y = <<e>> /\ k < Len(sent) /\ e.action = sent[k + 1]
    BY <1>5
  <2> HIDE DEF x, y, k
  <2>2. x \o y = Append(x, e)
    BY <1>2, <2>1, AppendIsConcat
  <2>3. /\ Len(Append(x, e)) = Len(x) + 1 /\ Append(x, e)[Len(x) + 1] = e
        /\ \A i \in 1 .. Len(x) : Append(x, e)[i] = x[i]
    BY <1>2, AppendProperties
  <2>4. \A i \in 1 .. k + 1 : i \in 1 .. k \/ i = k + 1
    BY <1>2
  <2>5. \A i \in 1 .. k + 1 : Append(x, e)[i].action = sent[i]
    BY <1>3, <2>1, <2>3, <2>4 DEF k
  <2>6. k + 1 <= Len(sent)
    BY <1>2, <2>1
  <2> QED
    BY <1>1, <2>2, <2>3, <2>5, <2>6 DEF EchoesMatch, k
<1> QED
  BY <1>4, <1>5

LEMMA SameInterval ==
  ASSUME NEW n \in Nat, NEW m \in Nat, 1 .. n = 1 .. m
  PROVE  n = m
<1>1. n # 0 => n \in 1 .. m
  OBVIOUS
<1>2. m # 0 => m \in 1 .. n
  OBVIOUS
<1> QED
  BY <1>1, <1>2

LEMMA ActionsOfType ==
  ASSUME NEW es \in Seq(ActionEnvelope)
  PROVE  /\ ActionsOf(es) \in Seq(SessionAction) /\ Len(ActionsOf(es)) = Len(es)
         /\ \A i \in 1 .. Len(es) : ActionsOf(es)[i] = es[i].action /\ es[i] \in ActionEnvelope
<1>1. Len(es) \in Nat /\ DOMAIN es = 1 .. Len(es) /\ \A i \in 1 .. Len(es) : es[i] \in ActionEnvelope
  BY LenProperties, ElementOfSeq
<1>2. ActionsOf(es) \in [1 .. Len(es) -> SessionAction]
  BY <1>1 DEF ActionsOf, ActionEnvelope
<1>3. ActionsOf(es) \in Seq(SessionAction)
  BY <1>1, <1>2, SeqDef
<1>4. DOMAIN ActionsOf(es) = 1 .. Len(es)
  BY <1>2
<1>5. Len(ActionsOf(es)) = Len(es)
  <2>1. PICK a \in Seq(SessionAction) : a = ActionsOf(es)
    BY <1>3
  <2>2. Len(a) \in Nat /\ DOMAIN a = 1 .. Len(a)
    BY LenProperties
  <2>3. 1 .. Len(a) = 1 .. Len(es)
    BY <1>4, <2>1, <2>2
  <2>4. Len(a) = Len(es)
    BY <1>1, <2>2, <2>3, SameInterval
  <2> QED
    BY <2>1, <2>4
<1> QED
  BY <1>1, <1>3, <1>5 DEF ActionsOf

\* Of turns in G only one in G becomes active.
LEMMA AppliedActive ==
  ASSUME NEW s, Sound(s), NEW G, ActiveId(s) \in G \cup {None},
         NEW q \in Seq(SessionAction),
         \A i \in 1 .. Len(q) : q[i].type = "turnStarted" => q[i].turn \in G
  PROVE  ActiveId(Applied(s, q)) \in G \cup {None}
<1> DEFINE Starts(p) == \A i \in 1 .. Len(p) : p[i].type = "turnStarted" => p[i].turn \in G
           Good(p) == Starts(p) => ActiveId(Applied(s, p)) \in G \cup {None}
           T == {p \in Seq(SessionAction) : Good(p)}
<1>1. <<>> \in T
  <2>1. Applied(s, <<>>) = s /\ <<>> \in Seq(SessionAction)
    BY AppliedNone, EmptySeq
  <2> QED
    BY <2>1
<1>2. ASSUME NEW p \in T, NEW a \in SessionAction
      PROVE  Append(p, a) \in T
  <2>1. p \in Seq(SessionAction) /\ Good(p)
    BY <1>2
  <2>2. Applied(s, Append(p, a)) = Reduce(Applied(s, p), a) /\ Sound(Applied(s, p))
    BY <2>1, AppliedAppend, AppliedSound
  <2>3. ActiveId(Applied(s, Append(p, a))) = ActiveAfter(ActiveId(Applied(s, p)), a)
    BY <2>2, ActiveAfterReduce
  <2>4. /\ Append(p, a) \in Seq(SessionAction) /\ Len(Append(p, a)) = Len(p) + 1
        /\ Append(p, a)[Len(p) + 1] = a
        /\ \A i \in 1 .. Len(p) : Append(p, a)[i] = p[i]
    BY <2>1, AppendProperties
  <2>5. Len(p) \in Nat
    BY <2>1, LenProperties
  <2>6. Len(p) + 1 \in 1 .. Len(p) + 1 /\ \A i \in 1 .. Len(p) : i \in 1 .. Len(p) + 1
    BY <2>5
  <2>7. Starts(Append(p, a)) => Starts(p) /\ (a.type = "turnStarted" => a.turn \in G)
    BY <2>4, <2>6
  <2> HIDE DEF Starts
  <2>8. Good(Append(p, a))
    BY <2>1, <2>3, <2>7 DEF ActiveAfter
  <2> QED
    BY <2>4, <2>8
<1>3. T \in SUBSET Seq(SessionAction)
  OBVIOUS
<1> HIDE DEF T
<1>4. T = Seq(SessionAction)
  BY <1>1, <1>2, <1>3, SeqSetInduction
<1> QED
  BY <1>4 DEF T

\* The host applies the actions of envelopes es and broadcasts them.
LEMMA HostStep ==
  ASSUME HandlerInv, chat' = chat, NEW es \in Seq(ActionEnvelope),
         host' = Applied(host, ActionsOf(es)), Broadcast(es),
         GivenMore(begun, begun'), StartsOnce(es, begun, begun'),
         chat # None => EchoesMatch(arriving \o es, chat.sent)
  PROVE  HandlerInv' /\ MirrorStep
<1>1. MirrorStep
  BY DEF MirrorStep
<1>2. /\ BegunType(begun) /\ HostIsSound(host, begun) /\ Sound(host)
      /\ arriving \in Seq(ActionEnvelope)
  BY DEF HandlerInv, HostIsSound
<1>3. PICK b : b = begun'
  OBVIOUS
<1>4. BegunType(b) /\ GivenMore(begun, b) /\ StartsOnce(es, begun, b)
  BY <1>3 DEF GivenMore
<1> DEFINE q == ActionsOf(es)
<1>5. q \in Seq(SessionAction) /\ Len(q) = Len(es) /\ DOMAIN es = 1 .. Len(es)
      /\ \A i \in 1 .. Len(es) : q[i] = es[i].action
  BY ActionsOfType, LenProperties
<1>6. HostIsSound(Applied(host, q), b)
  <2> HIDE DEF q
  <2>1. Sound(Applied(host, q))
    BY <1>2, <1>5, AppliedSound
  <2>2. \A i \in 1 .. Len(q) : q[i].type = "turnStarted" => q[i].turn \in Given(b)
    BY <1>4, <1>5 DEF StartsOnce
  <2>3. ActiveId(host) \in Given(b) \cup {None}
    BY <1>2, <1>4, StillGiven DEF HostIsSound
  <2>4. ActiveId(Applied(host, q)) \in Given(b) \cup {None}
    BY <1>2, <1>5, <2>2, <2>3, AppliedActive
  <2> QED
    BY <2>1, <2>4 DEF HostIsSound
<1>7. CASE chat = None
  <2>1. arriving' = <<>> /\ <<>> \in Seq(ActionEnvelope)
    BY <1>7, EmptySeq DEF Broadcast
  <2> QED
    BY <1>1, <1>3, <1>4, <1>6, <1>7, <2>1 DEF HandlerInv
<1>8. CASE chat # None
  <2>1. arriving' = arriving \o es
    BY <1>8 DEF Broadcast
  <2>2. ChatIsSound(chat, arriving, begun)
    BY <1>8, ChatReads
  <2>3. Numbered(chat, begun) /\ chat.lastSeen \in Given(begun) \cup {None}
    BY <2>2 DEF ChatIsSound, Numbered
  <2>4. arriving \o es \in Seq(ActionEnvelope)
    BY <1>2, ConcatProperties
  <2>5. StartsAreNew(arriving \o es, b, chat.lastSeen)
    <3>1. PICK r \in Seq(ActionEnvelope) : r = arriving
      BY <1>2
    <3>2. PICK b0 : b0 = begun
      OBVIOUS
    <3>3. PICK seen : seen = chat.lastSeen
      OBVIOUS
    <3>4. /\ GivenMore(b0, b) /\ seen \in Given(b0) \cup {None}
          /\ StartsAreNew(r, b0, seen) /\ StartsOnce(es, b0, b)
      BY <1>4, <2>2, <2>3, <3>1, <3>2, <3>3 DEF ChatIsSound
    <3>5. StartsAreNew(r \o es, b, seen)
      BY <3>4, StartsAfter
    <3> QED
      BY <3>1, <3>3, <3>5
  <2>6. Numbered(chat, b)
    BY <1>4, <2>3, StillGiven
  <2>7. ChatIsSound(chat, arriving \o es, b)
    BY <1>8, <2>2, <2>5, <2>6 DEF ChatIsSound
  <2> QED
    BY <1>1, <1>3, <1>4, <1>6, <1>8, <2>1, <2>4, <2>7 DEF HandlerInv
<1> QED
  BY <1>7, <1>8

LEMMA EnvelopesType ==
  ASSUME NEW q \in Seq(SessionAction), NEW own \in BOOLEAN
  PROVE  LET es == Envelopes(q, own)
         IN /\ es \in Seq(ActionEnvelope) /\ DOMAIN es = 1 .. Len(q)
            /\ \A i \in 1 .. Len(q) : es[i].action = q[i] /\ es[i].own = own
            /\ ActionsOf(es) = q
<1> DEFINE es == Envelopes(q, own)
           n == Len(q)
<1>1. n \in Nat /\ DOMAIN q = 1 .. n /\ \A i \in 1 .. n : q[i] \in SessionAction
  BY LenProperties, ElementOfSeq
<1>2. q = [i \in 1 .. n |-> q[i]]
  BY SeqDef
<1> HIDE DEF n
<1>3. es = [i \in 1 .. n |-> [action |-> q[i], own |-> own]]
  BY <1>1 DEF Envelopes
<1>4. es \in [1 .. n -> ActionEnvelope]
  BY <1>1, <1>3 DEF ActionEnvelope
<1>5. es \in Seq(ActionEnvelope) /\ DOMAIN es = 1 .. n
  BY <1>1, <1>4, SeqDef
<1>6. \A i \in 1 .. n : es[i].action = q[i] /\ es[i].own = own
  BY <1>3
<1> HIDE DEF es
<1>7. ActionsOf(es) = q
  BY <1>2, <1>5, <1>6 DEF ActionsOf
<1> QED
  BY <1>5, <1>6, <1>7 DEF es, n

\* Envelopes of actions that follow each other.
LEMMA EnvelopesConcat ==
  ASSUME NEW q \in Seq(SessionAction), NEW r \in Seq(SessionAction), NEW own \in BOOLEAN
  PROVE  Envelopes(q, own) \o Envelopes(r, own) = Envelopes(q \o r, own)
<1> DEFINE n == Len(q)
           m == Len(r)
           w == q \o r
<1>1. /\ n \in Nat /\ m \in Nat /\ w \in Seq(SessionAction) /\ Len(w) = n + m
      /\ \A i \in 1 .. n + m : w[i] = IF i <= n THEN q[i] ELSE r[i - n]
  BY LenProperties, ConcatProperties
<1>2. PICK x : x = Envelopes(q, own)
  OBVIOUS
<1>3. PICK y : y = Envelopes(r, own)
  OBVIOUS
<1>4. x \in Seq(ActionEnvelope) /\ y \in Seq(ActionEnvelope)
      /\ DOMAIN x = 1 .. n /\ DOMAIN y = 1 .. m
  BY <1>2, <1>3, EnvelopesType
<1>5. /\ \A i \in 1 .. n : x[i] = [action |-> q[i], own |-> own]
      /\ \A i \in 1 .. m : y[i] = [action |-> r[i], own |-> own]
  <2>1. DOMAIN q = 1 .. n /\ DOMAIN r = 1 .. m
    BY LenProperties
  <2> QED
    BY <1>2, <1>3, <2>1 DEF Envelopes
<1>6. Len(x) = n /\ Len(y) = m
  <2>1. Len(x) \in Nat /\ Len(y) \in Nat /\ DOMAIN x = 1 .. Len(x) /\ DOMAIN y = 1 .. Len(y)
    BY <1>4, LenProperties
  <2> HIDE DEF n, m
  <2> QED
    BY <1>1, <1>4, <2>1, SameInterval
<1> HIDE DEF n, m, w
<1>7. /\ x \o y \in Seq(ActionEnvelope) /\ DOMAIN (x \o y) = 1 .. n + m
      /\ \A i \in 1 .. n + m : (x \o y)[i] = IF i <= n THEN x[i] ELSE y[i - n]
  <2>1. /\ x \o y \in Seq(ActionEnvelope) /\ Len(x \o y) = n + m
        /\ \A i \in 1 .. n + m : (x \o y)[i] = IF i <= n THEN x[i] ELSE y[i - n]
    BY <1>4, <1>6, ConcatProperties
  <2> QED
    BY <2>1, LenProperties
<1>8. \A i \in 1 .. n + m : (i <= n /\ i \in 1 .. n) \/ (~(i <= n) /\ i - n \in 1 .. m)
  BY <1>1
<1>9. ASSUME NEW i \in 1 .. n + m
      PROVE  (x \o y)[i] = [action |-> w[i], own |-> own]
  <2>1. CASE i <= n /\ i \in 1 .. n
    BY <1>1, <1>5, <1>7, <2>1
  <2>2. CASE ~(i <= n) /\ i - n \in 1 .. m
    BY <1>1, <1>5, <1>7, <2>2
  <2> QED
    BY <1>8, <2>1, <2>2
<1>10. DOMAIN w = 1 .. n + m
  BY <1>1, LenProperties
<1>11. Envelopes(w, own) = [i \in 1 .. n + m |-> [action |-> w[i], own |-> own]]
  BY <1>10 DEF Envelopes
<1>12. x \o y = [i \in 1 .. n + m |-> (x \o y)[i]]
  <2>1. PICK z \in Seq(ActionEnvelope) : z = x \o y
    BY <1>7
  <2>2. z = [i \in 1 .. Len(z) |-> z[i]] /\ DOMAIN z = 1 .. Len(z)
    BY SeqDef, LenProperties
  <2> QED
    BY <1>7, <2>1, <2>2
<1> QED
  BY <1>2, <1>3, <1>9, <1>11, <1>12 DEF w

\* What is not the client's own is no echo.
LEMMA ForeignAreNoEchoes ==
  ASSUME NEW es \in Seq(ActionEnvelope), \A i \in DOMAIN es : ~es[i].own
  PROVE  EchoesIn(es) = <<>>
<1> DEFINE S == [action : SessionAction, own : {TRUE}]
<1>1. ToSet(es) \cap S = {}
  <2>1. \A e \in ToSet(es) : ~e.own
    BY DEF ToSet
  <2>2. \A e \in S : e.own
    OBVIOUS
  <2> HIDE DEF S
  <2> QED
    BY <2>1, <2>2
<1> HIDE DEF S
<1>2. Within(es, S) \in Seq(ActionEnvelope) /\ ToSet(Within(es, S)) = {}
  BY <1>1, WithinType, ElementsWithin
<1>3. PICK w \in Seq(ActionEnvelope) : w = Within(es, S)
  BY <1>2
<1>4. w = <<>>
  <2>1. Len(w) \in Nat /\ DOMAIN w = 1 .. Len(w)
    BY LenProperties
  <2>2. DOMAIN w = {}
    BY <1>2, <1>3 DEF ToSet
  <2>3. Len(w) = 0
    <3>1. Len(w) # 0 => 1 \in 1 .. Len(w)
      BY <2>1
    <3> QED
      BY <2>1, <2>2, <3>1
  <2> QED
    BY <2>3, EmptySeq
<1> QED
  BY <1>3, <1>4 DEF EchoesIn, S

\* The host applies actions that no echo goes back for.
LEMMA ForeignStep ==
  ASSUME HandlerInv, chat' = chat, NEW q \in Seq(SessionAction),
         host' = Applied(host, q), Broadcast(Envelopes(q, FALSE)),
         GivenMore(begun, begun'),
         \A i \in 1 .. Len(q) : q[i].type = "turnStarted" =>
           /\ q[i].turn \in Given(begun') \ Given(begun)
           /\ \A j \in 1 .. Len(q) : q[j].type = "turnStarted" => i = j
  PROVE  HandlerInv' /\ MirrorStep
<1>1. PICK es : es = Envelopes(q, FALSE)
  OBVIOUS
<1>2. /\ es \in Seq(ActionEnvelope) /\ DOMAIN es = 1 .. Len(q)
      /\ \A i \in 1 .. Len(q) : es[i].action = q[i] /\ ~es[i].own
      /\ ActionsOf(es) = q
  BY <1>1, EnvelopesType
<1>3. StartsOnce(es, begun, begun')
  BY <1>2 DEF StartsOnce, IsForeignStart
<1>4. EchoesIn(es) = <<>>
  BY <1>2, ForeignAreNoEchoes
<1>5. ASSUME chat # None
      PROVE  EchoesMatch(arriving \o es, chat.sent)
  <2>1. /\ arriving \in Seq(ActionEnvelope) /\ EchoesMatch(arriving, chat.sent)
        /\ chat.sent \in Seq(SessionAction)
    BY <1>5, ChatReads, ChatFields
  <2>2. Len(chat.sent) \in Nat
    BY <2>1, LenProperties
  <2> QED
    BY <1>2, <1>4, <2>1, <2>2, EchoesAfter
<1> QED
  BY <1>1, <1>2, <1>3, <1>5, HostStep

LEMMA ConsumesType ==
  ASSUME NEW s, Sound(s), BegunType(begun), NEW next, next = Consumes(s)
  PROVE  /\ next \in Seq(SessionAction)
         /\ \/ next = <<>> /\ Len(next) = 0
            \/ /\ Len(next) = 1 /\ begun.turns < MaxTurns
               /\ next[1].type = "turnStarted" /\ next[1].turn = begun.turns + 1
<1>1. CASE ~(s.activeTurn = None /\ s.queued # <<>> /\ begun.turns < MaxTurns)
  <2>1. next = <<>>
    BY <1>1 DEF Consumes
  <2> QED
    BY <2>1, EmptySeq
<1>2. CASE s.activeTurn = None /\ s.queued # <<>> /\ begun.turns < MaxTurns
  <2> DEFINE m == s.queued[1].id
             a == StartsTurn(begun.turns + 1, m)
  <2>1. next = <<a>>
    BY <1>2 DEF Consumes
  <2>2. m \in MessageId
    <3>1. s.queued \in Seq(PendingMessage)
      BY DEF Sound, SessionState
    <3>2. PICK q \in Seq(PendingMessage) : q = s.queued
      BY <3>1
    <3>3. Len(q) \in Nat /\ Len(q) # 0
      BY <1>2, <3>2, LenProperties, EmptySeq
    <3>4. 1 \in 1 .. Len(q)
      BY <3>3
    <3>5. q[1] \in PendingMessage
      BY <3>4, ElementOfSeq
    <3> QED
      BY <3>2, <3>5 DEF PendingMessage
  <2>3. begun.turns + 1 \in TurnId
    <3>1. begun.turns \in Nat /\ MaxTurns \in Nat /\ 1 .. MaxTurns \subseteq TurnId
      BY GivenTypes, IdsAreNumbers
    <3>2. begun.turns + 1 \in 1 .. MaxTurns
      BY <1>2, <3>1
    <3> QED
      BY <3>1, <3>2
  <2>4. a.type = "turnStarted" /\ a.turn = begun.turns + 1
    BY DEF StartsTurn
  <2> HIDE DEF m
  <2>5. a \in SessionAction
    BY <2>2, <2>3, TurnActionTypes
  <2> HIDE DEF a
  <2>6. <<a>> \in Seq(SessionAction) /\ Len(<<a>>) = 1 /\ <<a>>[1] = a
    <3>1. Len(<<a>>) = 1 /\ <<a>>[1] = a
      OBVIOUS
    <3> QED
      BY <2>5, <3>1
  <2> QED
    BY <1>2, <2>1, <2>4, <2>6
<1> QED
  BY <1>1, <1>2

LEMMA TurnsGiven ==
  ASSUME NEW b, BegunType(b), NEW k \in Nat, b.turns + k <= MaxTurns,
         NEW b2, b2 = [b EXCEPT !.turns = @ + k]
  PROVE  /\ GivenMore(b, b2) /\ b2.turns = b.turns + k
         /\ k = 1 => b.turns + 1 \in Given(b2) \ Given(b)
<1>1. b.turns \in Nat /\ b.messages \in Nat /\ MaxTurns \in Nat
  BY GivenTypes, IdsAreNumbers
<1>2. b.turns + k \in 0 .. MaxTurns /\ b.turns <= b.turns + k /\ b.messages <= b.messages
  BY <1>1
<1>3. BegunType(b2) /\ b2.turns = b.turns + k /\ b2.messages = b.messages
  BY <1>2 DEF BegunType
<1>4. k = 1 => b.turns + 1 \in Given(b2) \ Given(b)
  BY <1>1, <1>3 DEF Given
<1> QED
  BY <1>2, <1>3, <1>4 DEF GivenMore

\* Actions of which none starts a turn, and what an idle session consumes.
LEMMA OthersApply ==
  ASSUME HandlerInv, chat' = chat, NEW q \in Seq(SessionAction),
         \A i \in 1 .. Len(q) : q[i].type # "turnStarted",
         NEW consume \in BOOLEAN, HostApplies(q, FALSE, consume)
  PROVE  HandlerInv' /\ MirrorStep
<1> DEFINE after == Applied(host, q)
           next == IF consume THEN Consumes(after) ELSE <<>>
           n == Len(q)
           m == Len(next)
           w == q \o next
<1>1. /\ host' = Applied(after, next)
      /\ Broadcast(Envelopes(q, FALSE) \o Envelopes(next, FALSE))
      /\ begun' = [begun EXCEPT !.turns = @ + Len(next)]
  BY DEF HostApplies
<1>2. BegunType(begun) /\ HostIsSound(host, begun) /\ Sound(host) /\ Sound(after)
  BY AppliedSound DEF HandlerInv, HostIsSound
<1>3. /\ next \in Seq(SessionAction)
      /\ \/ next = <<>> /\ Len(next) = 0
         \/ /\ Len(next) = 1 /\ begun.turns < MaxTurns
            /\ next[1].type = "turnStarted" /\ next[1].turn = begun.turns + 1
  <2> HIDE DEF after
  <2>1. CASE consume
    BY <1>2, <2>1, ConsumesType
  <2>2. CASE ~consume
    BY <2>2, EmptySeq
  <2> QED
    BY <2>1, <2>2
<1> HIDE DEF next
<1>4. host' = Applied(host, w)
  BY <1>1, <1>2, <1>3, AppliedConcat
<1>5. /\ n \in Nat /\ m \in Nat /\ w \in Seq(SessionAction) /\ Len(w) = n + m
      /\ \A i \in 1 .. n + m : w[i] = IF i <= n THEN q[i] ELSE next[i - n]
  BY <1>3, LenProperties, ConcatProperties
<1>6. Envelopes(q, FALSE) \o Envelopes(next, FALSE) = Envelopes(w, FALSE)
  BY <1>3, EnvelopesConcat
<1>7. /\ begun.turns \in Nat /\ MaxTurns \in Nat
  BY <1>2, GivenTypes, IdsAreNumbers
<1>8. /\ GivenMore(begun, begun')
      /\ m = 1 => begun.turns + 1 \in Given(begun') \ Given(begun)
  <2>1. begun.turns + m <= MaxTurns
    <3>1. begun.turns <= MaxTurns
      BY <1>2, GivenTypes
    <3>2. m = 0 \/ (m = 1 /\ begun.turns < MaxTurns)
      BY <1>3
    <3> HIDE DEF m
    <3> QED
      BY <1>7, <3>1, <3>2
  <2>2. PICK b2 : b2 = begun'
    OBVIOUS
  <2> HIDE DEF m
  <2>3. b2 = [begun EXCEPT !.turns = @ + m]
    BY <1>1, <2>2 DEF m
  <2> QED
    BY <1>2, <1>5, <2>1, <2>2, <2>3, TurnsGiven
<1>9. ASSUME NEW i \in 1 .. n + m, w[i].type = "turnStarted"
      PROVE  i = n + 1 /\ m = 1 /\ w[i].turn = begun.turns + 1
  <2> HIDE DEF n, m, w
  <2>1. ~(i <= n)
    <3>1. i <= n => i \in 1 .. n
      BY <1>5
    <3> QED
      BY <1>5, <1>9, <3>1 DEF n
  <2>2. i - n \in 1 .. m
    BY <1>5, <2>1
  <2>3. m = 1
    BY <1>3, <2>2 DEF m
  <2>4. i - n = 1 /\ i = n + 1
    BY <1>5, <2>2, <2>3
  <2> QED
    BY <1>3, <1>5, <2>1, <2>3, <2>4 DEF m
<1> HIDE DEF n, m, w
<1>10. \A i \in 1 .. Len(w) : w[i].type = "turnStarted" =>
           /\ w[i].turn \in Given(begun') \ Given(begun)
           /\ \A j \in 1 .. Len(w) : w[j].type = "turnStarted" => i = j
  BY <1>5, <1>8, <1>9
<1>11. Broadcast(Envelopes(w, FALSE))
  BY <1>1, <1>6 DEF w
<1>12. w \in Seq(SessionAction) /\ GivenMore(begun, begun')
  BY <1>5, <1>8
<1> QED
  BY ONLY HandlerInv, chat' = chat, <1>4, <1>10, <1>11, <1>12, ForeignStep

LEMMA SingleType ==
  ASSUME NEW a \in SessionAction
  PROVE  <<a>> \in Seq(SessionAction) /\ Len(<<a>>) = 1 /\ <<a>>[1] = a
<1>1. Len(<<a>>) = 1 /\ <<a>>[1] = a
  OBVIOUS
<1> QED
  BY <1>1

LEMMA HostTurnType ==
  ASSUME HandlerInv
  PROVE  /\ Sound(host) /\ BegunType(begun)
         /\ host.activeTurn # None => ActiveId(host) \in TurnId
         /\ \A c : ActiveStatus(c) # "absent" => ActiveId(host) \in TurnId
<1>1. Sound(host) /\ BegunType(begun)
  BY DEF HandlerInv, HostIsSound
<1>2. host.activeTurn # None => ActiveId(host) \in TurnId
  <2>1. host.activeTurn # None => host.activeTurn \in ActiveTurn
    BY <1>1 DEF Sound, SessionState
  <2> QED
    BY <2>1 DEF ActiveId, ActiveTurn
<1>3. ASSUME NEW c, ActiveId(host) \notin TurnId
      PROVE  ActiveStatus(c) = "absent"
  <2>1. ActiveId(host) = None
    BY <1>1, <1>3, ActiveIdType
  <2>2. PartsOfTurn(host, ActiveId(host)) = <<>>
    BY <1>1, <2>1, PartsOfNoTurn
  <2>3. {i \in DOMAIN <<>> : IsToolCall(<<>>[i], c)} = {}
    BY EmptySeq
  <2>4. StatusIn(<<>>, c) = "absent"
    BY <2>3 DEF StatusIn
  <2> QED
    BY <2>2, <2>4 DEF ActiveStatus
<1> QED
  BY <1>1, <1>2, <1>3

LEMMA AgentActionTypes ==
  ASSUME NEW t \in TurnId, NEW c \in ToolCallId
  PROVE  /\ [type |-> "toolCallStart", turn |-> t, tool |-> c] \in SessionAction
         /\ [type |-> "toolCallReady", turn |-> t, tool |-> c, confirmed |-> "notNeeded"]
              \in SessionAction
         /\ [type |-> "toolCallReady", turn |-> t, tool |-> c, confirmed |-> "none"]
              \in SessionAction
         /\ [type |-> "toolCallComplete", turn |-> t, tool |-> c, needsResult |-> FALSE]
              \in SessionAction
         /\ \A yes \in BOOLEAN :
              [type |-> "toolCallConfirmed", turn |-> t, tool |-> c, approved |-> yes]
                \in SessionAction
BY DEF SessionAction, TurnActionType

\* Calls that were made, or asked, do not matter to what is kept.
LEMMA CallsGiven ==
  ASSUME NEW b, BegunType(b), NEW b2, NEW c \in ToolCallId,
         b2 = [b EXCEPT !.calls = @ \cup {c}] \/ b2 = [b EXCEPT !.asked = @ \cup {c}]
  PROVE  GivenMore(b, b2)
<1>1. BegunType(b2) /\ b2.turns = b.turns /\ b2.messages = b.messages
  BY DEF BegunType
<1>2. b.turns <= b.turns /\ b.messages <= b.messages
  BY GivenTypes
<1> QED
  BY <1>1, <1>2 DEF GivenMore

LEMMA AgentCallsInv ==
  ASSUME HandlerInv, AgentCalls
  PROVE  HandlerInv' /\ MirrorStep
<1> DEFINE t == ActiveId(host)
           a1(c) == [type |-> "toolCallStart", turn |-> t, tool |-> c]
           a2(c) == [type |-> "toolCallReady", turn |-> t, tool |-> c,
                     confirmed |-> "notNeeded"]
<1>1. chat' = chat /\ host.activeTurn # None
  BY DEF AgentCalls
<1>2. PICK c \in ToolCallId \ begun.calls :
        /\ host' = Applied(host, <<a1(c), a2(c)>>)
        /\ Broadcast(Envelopes(<<a1(c), a2(c)>>, FALSE))
        /\ begun' = [begun EXCEPT !.calls = @ \cup {c}]
  BY DEF AgentCalls
<1>3. /\ a1(c) \in SessionAction /\ a1(c).type # "turnStarted"
      /\ a2(c) \in SessionAction /\ a2(c).type # "turnStarted"
  <2>1. t \in TurnId
    BY <1>1, HostTurnType
  <2> HIDE DEF t
  <2> QED
    BY <2>1, AgentActionTypes
<1> HIDE DEF a1, a2
<1>4. PICK q \in Seq(SessionAction) : /\ q = <<a1(c), a2(c)>> /\ Len(q) = 2
                                      /\ q[1] = a1(c) /\ q[2] = a2(c)
  <2>1. <<a1(c), a2(c)>> \in Seq(SessionAction)
    BY <1>3
  <2>2. /\ Len(<<a1(c), a2(c)>>) = 2
        /\ <<a1(c), a2(c)>>[1] = a1(c) /\ <<a1(c), a2(c)>>[2] = a2(c)
    OBVIOUS
  <2> QED
    BY <2>1, <2>2
<1>5. \A i \in 1 .. Len(q) : q[i].type # "turnStarted"
  <2>1. \A i \in 1 .. 2 : i = 1 \/ i = 2
    OBVIOUS
  <2> QED
    BY <1>3, <1>4, <2>1
<1>6. GivenMore(begun, begun')
  <2>1. PICK b2 : b2 = begun'
    OBVIOUS
  <2> QED
    BY <1>2, <2>1, HostTurnType, CallsGiven
<1>7. host' = Applied(host, q) /\ Broadcast(Envelopes(q, FALSE))
  BY <1>2, <1>4
<1> QED
  BY <1>1, <1>5, <1>6, <1>7, ForeignStep

LEMMA AgentAsksInv ==
  ASSUME HandlerInv, AgentAsks
  PROVE  HandlerInv' /\ MirrorStep
<1> DEFINE act(c) == [type |-> "toolCallReady", turn |-> ActiveId(host), tool |-> c,
                      confirmed |-> "none"]
<1>1. chat' = chat
  BY DEF AgentAsks
<1>2. PICK c \in ToolCallId \ begun.asked :
        /\ ActiveStatus(c) = "running"
        /\ host' = Reduce(host, act(c))
        /\ Broadcast(Envelopes(<<act(c)>>, FALSE))
        /\ begun' = [begun EXCEPT !.asked = @ \cup {c}]
  BY DEF AgentAsks
<1>3. act(c) \in SessionAction /\ act(c).type # "turnStarted"
  <2>1. ActiveId(host) \in TurnId
    BY <1>2, HostTurnType
  <2> QED
    BY <2>1, AgentActionTypes
<1>4. PICK a \in SessionAction : a = act(c)
  BY <1>3
<1> HIDE DEF act
<1>5. PICK q \in Seq(SessionAction) : q = <<a>> /\ Len(q) = 1 /\ q[1] = a
  BY SingleType
<1>6. host' = Applied(host, q) /\ Broadcast(Envelopes(q, FALSE))
  BY <1>2, <1>4, <1>5, HostTurnType, AppliedOne
<1>7. \A i \in 1 .. Len(q) : q[i].type # "turnStarted"
  BY <1>3, <1>4, <1>5
<1>8. GivenMore(begun, begun')
  <2>1. PICK b2 : b2 = begun'
    OBVIOUS
  <2> QED
    BY <1>2, <2>1, HostTurnType, CallsGiven
<1> QED
  BY <1>1, <1>6, <1>7, <1>8, ForeignStep

\* One action of the agent, and what an idle session consumes after it.
LEMMA OneApplied ==
  ASSUME HandlerInv, chat' = chat, NEW a \in SessionAction, a.type # "turnStarted",
         NEW consume \in BOOLEAN, HostApplies(<<a>>, FALSE, consume)
  PROVE  HandlerInv' /\ MirrorStep
<1>1. PICK q \in Seq(SessionAction) : q = <<a>> /\ Len(q) = 1 /\ q[1] = a
  BY SingleType
<1>2. \A i \in 1 .. Len(q) : q[i].type # "turnStarted"
  BY <1>1
<1> QED
  BY <1>1, <1>2, OthersApply

LEMMA AgentCompletesCallInv ==
  ASSUME HandlerInv, AgentCompletesCall
  PROVE  HandlerInv' /\ MirrorStep
<1> DEFINE act(c) == [type |-> "toolCallComplete", turn |-> ActiveId(host), tool |-> c,
                      needsResult |-> FALSE]
<1>1. chat' = chat
  BY DEF AgentCompletesCall
<1>2. PICK c \in ToolCallId :
        ActiveStatus(c) = "running" /\ HostApplies(<<act(c)>>, FALSE, FALSE)
  BY DEF AgentCompletesCall
<1>3. act(c) \in SessionAction /\ act(c).type # "turnStarted"
  <2>1. ActiveId(host) \in TurnId
    BY <1>2, HostTurnType
  <2> QED
    BY <2>1, AgentActionTypes
<1>4. PICK a \in SessionAction : a = act(c)
  BY <1>3
<1> HIDE DEF act
<1> QED
  BY <1>1, <1>2, <1>3, <1>4, OneApplied

LEMMA AgentEndsInv ==
  ASSUME HandlerInv, AgentIdles \/ AgentFails
  PROVE  HandlerInv' /\ MirrorStep
<1>1. chat' = chat
  BY DEF AgentIdles, AgentFails
<1>2. CASE host.activeTurn = None
  <2>1. HostApplies(<<>>, FALSE, TRUE)
    BY <1>2 DEF AgentIdles, AgentFails
  <2>2. PICK q \in Seq(SessionAction) : q = <<>> /\ Len(q) = 0
    BY EmptySeq
  <2>3. \A i \in 1 .. Len(q) : q[i].type # "turnStarted"
    BY <2>2
  <2> QED
    BY <1>1, <2>1, <2>2, <2>3, OthersApply
<1>3. CASE host.activeTurn # None
  <2> DEFINE act(type) == EndsTurn(type, ActiveId(host))
  <2>1. PICK type \in {"turnComplete", "error"}, consume \in BOOLEAN :
          HostApplies(<<act(type)>>, FALSE, consume)
    BY <1>3 DEF AgentIdles, AgentFails
  <2>2. act(type) \in SessionAction /\ act(type).type # "turnStarted"
    <3>1. ActiveId(host) \in TurnId
      BY <1>3, HostTurnType
    <3> QED
      BY <3>1, TurnActionTypes DEF TurnEnds, EndsTurn
  <2>3. PICK a \in SessionAction : a = act(type)
    BY <2>2
  <2> HIDE DEF act
  <2> QED
    BY <1>1, <2>1, <2>2, <2>3, OneApplied
<1> QED
  BY <1>2, <1>3

\* What another client does, and what it takes from the bounds.
LEMMA OthersActionsType ==
  ASSUME HandlerInv, NEW a \in OthersActions
  PROVE  /\ a \in SessionAction
         /\ a.type = "turnStarted" => a.turn = begun.turns + 1 /\ begun.turns < MaxTurns
         /\ a.type = "pendingMessageSet" => begun.messages < MaxQueue
<1>1. Sound(host) /\ BegunType(begun)
  BY HostTurnType
<1>2. /\ begun.turns \in Nat /\ begun.turns <= MaxTurns /\ MaxTurns \in Nat
      /\ begun.messages \in Nat /\ begun.messages <= MaxQueue /\ MaxQueue \in Nat
      /\ 1 .. MaxQueue \subseteq MessageId
  BY <1>1, GivenTypes, IdsAreNumbers
<1>3. ASSUME NEW t \in {ActiveId(host)} \ {None}, a = EndsTurn("turnCancelled", t)
      PROVE  a \in SessionAction /\ a.type = "turnCancelled"
  <2>1. t \in TurnId
    BY <1>1, <1>3, ActiveIdType
  <2>2. EndsTurn("turnCancelled", t) \in SessionAction
    BY <2>1, TurnActionTypes DEF TurnEnds
  <2> QED
    BY <1>3, <2>2 DEF EndsTurn
<1>4. ASSUME NEW t \in TurnId, NewTurn(t), a = StartsTurn(t, None)
      PROVE  /\ a \in SessionAction /\ a.type = "turnStarted"
             /\ a.turn = begun.turns + 1 /\ begun.turns < MaxTurns
  <2>1. t = begun.turns + 1 /\ begun.turns < MaxTurns
    BY <1>2, <1>4 DEF NewTurn
  <2>2. StartsTurn(t, None) \in SessionAction
    BY TurnActionTypes
  <2> QED
    BY <1>4, <2>1, <2>2 DEF StartsTurn
<1>5. ASSUME NEW m \in {begun.messages + 1} \cap 1 .. MaxQueue, a = SetsQueued(m)
      PROVE  /\ a \in SessionAction /\ a.type = "pendingMessageSet"
             /\ begun.messages < MaxQueue
  <2>1. m \in MessageId /\ begun.messages < MaxQueue
    BY <1>2
  <2>2. Prompt \in Text
    BY TextIsThere DEF Prompt
  <2>3. a \in SessionAction /\ a.type = "pendingMessageSet"
    BY <1>5, <2>1, <2>2 DEF SetsQueued, SessionAction, TurnActionType
  <2> QED
    BY <2>1, <2>3
<1>6. ASSUME NEW c \in ToolCallId, NEW yes \in BOOLEAN,
             ActiveStatus(c) = "pendingConfirmation",
             a = [type |-> "toolCallConfirmed", turn |-> ActiveId(host), tool |-> c,
                  approved |-> yes]
      PROVE  a \in SessionAction /\ a.type = "toolCallConfirmed"
  <2>1. PICK t \in TurnId : t = ActiveId(host)
    BY <1>6, HostTurnType
  <2>2. [type |-> "toolCallConfirmed", turn |-> t, tool |-> c, approved |-> yes]
          \in SessionAction
    BY AgentActionTypes
  <2> QED
    BY <1>6, <2>1, <2>2
<1>7. \/ \E t \in {ActiveId(host)} \ {None} : a = EndsTurn("turnCancelled", t)
      \/ \E t \in TurnId : NewTurn(t) /\ a = StartsTurn(t, None)
      \/ \E m \in {begun.messages + 1} \cap 1 .. MaxQueue : a = SetsQueued(m)
      \/ \E c \in ToolCallId, yes \in BOOLEAN :
           /\ ActiveStatus(c) = "pendingConfirmation"
           /\ a = [type |-> "toolCallConfirmed", turn |-> ActiveId(host), tool |-> c,
                   approved |-> yes]
  BY DEF OthersActions
<1>8. CASE \E t \in {ActiveId(host)} \ {None} : a = EndsTurn("turnCancelled", t)
  BY <1>3, <1>8
<1>9. CASE \E t \in TurnId : NewTurn(t) /\ a = StartsTurn(t, None)
  BY <1>4, <1>9
<1>10. CASE \E m \in {begun.messages + 1} \cap 1 .. MaxQueue : a = SetsQueued(m)
  BY <1>5, <1>10
<1>11. CASE \E c \in ToolCallId, yes \in BOOLEAN :
              /\ ActiveStatus(c) = "pendingConfirmation"
              /\ a = [type |-> "toolCallConfirmed", turn |-> ActiveId(host), tool |-> c,
                      approved |-> yes]
  BY <1>6, <1>11
<1> QED
  BY <1>7, <1>8, <1>9, <1>10, <1>11

LEMMA OtherClientActsInv ==
  ASSUME HandlerInv, OtherClientActs
  PROVE  HandlerInv' /\ MirrorStep
<1>1. chat' = chat
  BY DEF OtherClientActs
<1> DEFINE next(a) == IF a.type \in QueueAction THEN Consumes(Reduce(host, a)) ELSE <<>>
           more(a) == IF a.type = "turnStarted" THEN 1 ELSE 0
<1>2. PICK a \in OthersActions :
        /\ host' = Applied(Reduce(host, a), next(a))
        /\ Broadcast(Envelopes(<<a>> \o next(a), FALSE))
        /\ begun' = [begun EXCEPT
             !.others = @ + 1,
             !.turns = @ + Len(next(a)) + more(a),
             !.messages = IF a.type = "pendingMessageSet" THEN @ + 1 ELSE @]
  BY DEF OtherClientActs
<1>3. Sound(host) /\ BegunType(begun)
  BY HostTurnType
<1>4. /\ begun.turns \in Nat /\ begun.turns <= MaxTurns /\ MaxTurns \in Nat
      /\ begun.messages \in Nat /\ begun.messages <= MaxQueue /\ MaxQueue \in Nat
  BY <1>3, GivenTypes, IdsAreNumbers
<1>5. /\ a \in SessionAction
      /\ a.type = "turnStarted" => a.turn = begun.turns + 1 /\ begun.turns < MaxTurns
      /\ a.type = "pendingMessageSet" => begun.messages < MaxQueue
  BY <1>2, OthersActionsType
<1>6. PICK n : n = next(a)
  OBVIOUS
<1>7. /\ n \in Seq(SessionAction)
      /\ \/ n = <<>> /\ Len(n) = 0
         \/ /\ a.type # "turnStarted" /\ Len(n) = 1 /\ begun.turns < MaxTurns
            /\ n[1].type = "turnStarted" /\ n[1].turn = begun.turns + 1
  <2>1. CASE a.type \in QueueAction
    <3>1. Sound(Reduce(host, a))
      BY <1>3, <1>5, ReduceSound
    <3>2. n = Consumes(Reduce(host, a)) /\ a.type # "turnStarted"
      BY <1>6, <2>1 DEF QueueAction
    <3> QED
      BY <1>3, <3>1, <3>2, ConsumesType
  <2>2. CASE a.type \notin QueueAction
    BY <1>6, <2>2, EmptySeq
  <2> QED
    BY <2>1, <2>2
<1>8. PICK x \in Seq(SessionAction) : x = <<a>> /\ Len(x) = 1 /\ x[1] = a
  BY <1>5, SingleType
<1> DEFINE k == Len(n) + more(a)
           q == x \o n
<1>9. /\ k \in 0 .. 1
      /\ k = 1 => begun.turns < MaxTurns
  <2>1. CASE a.type = "turnStarted"
    <3>1. Len(n) = 0 /\ more(a) = 1
      BY <1>7, <2>1
    <3> QED
      BY <1>5, <2>1, <3>1
  <2>2. CASE a.type # "turnStarted"
    <3>1. more(a) = 0
      BY <2>2
    <3>2. Len(n) = 0 \/ (Len(n) = 1 /\ begun.turns < MaxTurns)
      BY <1>7
    <3>3. (k = 0 /\ Len(n) = 0) \/ (k = 1 /\ begun.turns < MaxTurns)
      <4> HIDE DEF more
      <4>1. k = Len(n)
        BY <3>1, <3>2
      <4> QED
        BY <3>2, <4>1
    <3> HIDE DEF k
    <3> QED
      BY <3>3
  <2> QED
    BY <2>1, <2>2
<1>10. begun' = [begun EXCEPT
         !.others = @ + 1,
         !.turns = @ + k,
         !.messages = IF a.type = "pendingMessageSet" THEN @ + 1 ELSE @]
  <2>1. begun.turns + Len(n) + more(a) = begun.turns + k
    BY <1>4, <1>7
  <2> QED
    BY <1>2, <1>6, <2>1
<1>11. /\ q \in Seq(SessionAction) /\ Len(q) = 1 + Len(n)
       /\ \A i \in 1 .. 1 + Len(n) : q[i] = IF i <= 1 THEN x[i] ELSE n[i - 1]
  BY <1>7, <1>8, ConcatProperties
<1>12. host' = Applied(host, q) /\ Broadcast(Envelopes(q, FALSE))
  <2>1. Applied(host, x) = Reduce(host, a)
    BY <1>3, <1>5, <1>8, AppliedOne
  <2>2. Applied(host, q) = Applied(Applied(host, x), n)
    BY <1>3, <1>7, <1>8, AppliedConcat
  <2> QED
    BY <1>2, <1>6, <1>8, <2>1, <2>2
<1> HIDE DEF next, k, q
<1>13. /\ GivenMore(begun, begun')
       /\ k = 1 => begun.turns + 1 \in Given(begun') \ Given(begun)
  <2>1. PICK b : b = begun'
    OBVIOUS
  <2>2. PICK m : m = IF a.type = "pendingMessageSet" THEN begun.messages + 1
                     ELSE begun.messages
    OBVIOUS
  <2>3. b = [begun EXCEPT !.others = @ + 1, !.turns = @ + k, !.messages = m]
    BY <1>10, <2>1, <2>2
  <2>4. k = 0 \/ k = 1
    BY <1>9
  <2>5. begun.turns + k \in 0 .. MaxTurns /\ begun.turns <= begun.turns + k
    BY <1>4, <1>9, <2>4
  <2>6. m \in 0 .. MaxQueue /\ begun.messages <= m
    BY <1>4, <1>5, <2>2
  <2>7. BegunType(b) /\ b.turns = begun.turns + k /\ b.messages = m
    <3>1. begun.others + 1 \in Nat
      BY <1>3 DEF BegunType
    <3> QED
      BY <1>3, <2>3, <2>5, <2>6, <3>1 DEF BegunType
  <2>8. GivenMore(begun, b)
    BY <1>3, <2>5, <2>6, <2>7 DEF GivenMore
  <2>9. k = 1 => begun.turns + 1 \in Given(b) \ Given(begun)
    BY <1>4, <2>7 DEF Given
  <2> QED
    BY <2>1, <2>8, <2>9
<1>14. ASSUME NEW i \in 1 .. Len(q), q[i].type = "turnStarted"
       PROVE  /\ k = 1 /\ q[i].turn = begun.turns + 1
              /\ a.type = "turnStarted" => i = 1
              /\ a.type # "turnStarted" => i = 2
  <2>1. CASE a.type = "turnStarted"
    <3>1. Len(n) = 0 /\ k = 1
      BY <1>7, <2>1 DEF k
    <3>2. i = 1 /\ q[i] = a
      BY <1>8, <1>11, <3>1
    <3> QED
      BY <1>5, <2>1, <3>1, <3>2
  <2>2. CASE a.type # "turnStarted"
    <3>1. i # 1
      BY <1>8, <1>11, <1>14, <2>2
    <3>2. Len(n) = 1 /\ i = 2
      BY <1>7, <1>11, <3>1
    <3>3. q[i] = n[1] /\ k = 1
      BY <1>11, <2>2, <3>2 DEF k
    <3> QED
      BY <1>7, <2>2, <3>2, <3>3
  <2> QED
    BY <2>1, <2>2
<1>15. \A i \in 1 .. Len(q) : q[i].type = "turnStarted" =>
         /\ q[i].turn \in Given(begun') \ Given(begun)
         /\ \A j \in 1 .. Len(q) : q[j].type = "turnStarted" => i = j
  BY <1>13, <1>14
<1> QED
  BY <1>1, <1>11, <1>12, <1>13, <1>15, ForeignStep

LEMMA ActionsConcat ==
  ASSUME NEW x \in Seq(ActionEnvelope), NEW y \in Seq(ActionEnvelope)
  PROVE  ActionsOf(x \o y) = ActionsOf(x) \o ActionsOf(y)
<1> DEFINE n == Len(x)
           m == Len(y)
           w == x \o y
<1>1. /\ n \in Nat /\ m \in Nat /\ w \in Seq(ActionEnvelope) /\ Len(w) = n + m
      /\ \A i \in 1 .. n + m : w[i] = IF i <= n THEN x[i] ELSE y[i - n]
  BY LenProperties, ConcatProperties
<1>2. PICK u \in Seq(SessionAction) :
        u = ActionsOf(x) /\ Len(u) = n /\ \A i \in 1 .. n : u[i] = x[i].action
  BY ActionsOfType
<1>3. PICK v \in Seq(SessionAction) :
        v = ActionsOf(y) /\ Len(v) = m /\ \A i \in 1 .. m : v[i] = y[i].action
  BY ActionsOfType
<1>4. PICK z \in Seq(SessionAction) :
        z = ActionsOf(w) /\ Len(z) = n + m /\ \A i \in 1 .. n + m : z[i] = w[i].action
  <2> HIDE DEF w
  <2>1. w \in Seq(ActionEnvelope) /\ Len(w) = n + m
    BY <1>1
  <2> QED
    BY <2>1, ActionsOfType
<1> HIDE DEF n, m, w
<1>5. /\ u \o v \in Seq(SessionAction) /\ Len(u \o v) = n + m
      /\ \A i \in 1 .. n + m : (u \o v)[i] = IF i <= n THEN u[i] ELSE v[i - n]
  <2>1. Len(u) = n /\ Len(v) = m
    BY <1>2, <1>3
  <2>2. /\ u \o v \in Seq(SessionAction) /\ Len(u \o v) = Len(u) + Len(v)
        /\ \A i \in 1 .. Len(u) + Len(v) :
             (u \o v)[i] = IF i <= Len(u) THEN u[i] ELSE v[i - Len(u)]
    BY ConcatProperties
  <2> QED
    BY <2>1, <2>2
<1>6. ASSUME NEW i \in 1 .. n + m
      PROVE  z[i] = (u \o v)[i]
  <2>1. CASE i <= n
    <3>1. i \in 1 .. n
      BY <1>1, <2>1
    <3>2. w[i] = x[i] /\ (u \o v)[i] = u[i]
      BY <1>1, <1>5, <2>1
    <3> QED
      BY <1>2, <1>4, <3>1, <3>2
  <2>2. CASE ~(i <= n)
    <3>1. i - n \in 1 .. m
      BY <1>1, <2>2
    <3>2. w[i] = y[i - n] /\ (u \o v)[i] = v[i - n]
      BY <1>1, <1>5, <2>2
    <3> QED
      BY <1>3, <1>4, <3>1, <3>2
  <2> QED
    BY <2>1, <2>2
<1>7. PICK r \in Seq(SessionAction) : r = u \o v
  BY <1>5
<1>8. Len(z) = Len(r) /\ \A i \in 1 .. Len(z) : z[i] = r[i]
  BY <1>4, <1>5, <1>6, <1>7
<1>9. z = r
  BY <1>8, SeqEqual
<1> QED
  BY <1>2, <1>3, <1>4, <1>7, <1>9 DEF w

LEMMA EchoesConcat ==
  ASSUME NEW x \in Seq(ActionEnvelope), NEW y \in Seq(ActionEnvelope)
  PROVE  EchoesIn(x \o y) = EchoesIn(x) \o EchoesIn(y)
BY WithinConcat DEF EchoesIn

\* The echo of one own action.
LEMMA OwnIsEcho ==
  ASSUME NEW a \in SessionAction
  PROVE  /\ Envelopes(<<a>>, TRUE) = <<[action |-> a, own |-> TRUE]>>
         /\ EchoesIn(Envelopes(<<a>>, TRUE)) = <<[action |-> a, own |-> TRUE]>>
         /\ [action |-> a, own |-> TRUE] \in ActionEnvelope
<1> DEFINE e == [action |-> a, own |-> TRUE]
           S == [action : SessionAction, own : {TRUE}]
<1>1. e \in ActionEnvelope /\ e \in S
  BY DEF ActionEnvelope
<1>2. Envelopes(<<a>>, TRUE) = <<e>>
  <2>1. DOMAIN <<a>> = 1 .. 1 /\ <<a>>[1] = a
    OBVIOUS
  <2>2. Envelopes(<<a>>, TRUE) = [i \in 1 .. 1 |-> [action |-> <<a>>[i], own |-> TRUE]]
    BY <2>1 DEF Envelopes
  <2>3. \A i \in 1 .. 1 : <<a>>[i] = a
    BY <2>1
  <2>4. Envelopes(<<a>>, TRUE) = [i \in 1 .. 1 |-> e]
    BY <2>2, <2>3
  <2> HIDE DEF e
  <2>5. [i \in 1 .. 1 |-> e] = <<e>>
    OBVIOUS
  <2> QED
    BY <2>4, <2>5
<1> HIDE DEF e, S
<1>3. Within(<<e>>, S) = <<e>>
  <2>1. PICK q \in Seq(ActionEnvelope) : q = <<>>
    BY EmptySeq
  <2>2. Within(Append(q, e), S) = IF e \in S THEN Append(Within(q, S), e) ELSE Within(q, S)
    BY <1>1, WithinAppend
  <2>3. Within(q, S) = <<>>
    BY <2>1, WithinEmpty
  <2>4. Append(<<>>, e) = <<e>>
    OBVIOUS
  <2> QED
    BY <1>1, <2>1, <2>2, <2>3, <2>4
<1> QED
  BY <1>1, <1>2, <1>3 DEF EchoesIn, S, e

\* The next action that the host takes is the oldest one without an echo under way.
LEMMA NextTaken ==
  ASSUME HandlerInv, chat # None, Up # <<>>
  PROVE  LET n == Len(EchoesIn(arriving))
         IN /\ n \in Nat /\ n < Len(chat.sent) /\ n + 1 \in DOMAIN chat.sent
            /\ Up[1] = chat.sent[n + 1] /\ Up[1] \in SessionAction
<1> DEFINE n == Len(EchoesIn(arriving))
<1>1. PICK s \in Seq(SessionAction) : s = chat.sent
  BY ChatReads, ChatFields
<1>2. n \in Nat
  BY ChatReads, EchoesType
<1>3. Len(s) \in Nat /\ DOMAIN s = 1 .. Len(s) /\ \A i \in 1 .. Len(s) : s[i] \in SessionAction
  BY LenProperties, ElementOfSeq
<1>4. Up = SubSeq(s, n + 1, Len(s))
  BY <1>1 DEF Up
<1> HIDE DEF n
<1>5. n + 1 \in Int /\ Len(s) \in Int /\ \A i \in n + 1 .. Len(s) : i \in 1 .. Len(s)
  BY <1>2, <1>3
<1>6. \A i \in n + 1 .. Len(s) : s[i] \in SessionAction
  BY <1>3, <1>5
<1>7. /\ Len(SubSeq(s, n + 1, Len(s))) = IF n + 1 <= Len(s) THEN Len(s) - (n + 1) + 1 ELSE 0
      /\ SubSeq(s, n + 1, Len(s)) \in Seq(SessionAction)
      /\ \A i \in 1 .. Len(s) - (n + 1) + 1 : SubSeq(s, n + 1, Len(s))[i] = s[n + 1 + i - 1]
  <2>1. PICK m \in Int : m = n + 1
    BY <1>5
  <2>2. PICK l \in Int : l = Len(s)
    BY <1>5
  <2>3. \A i \in m .. l : s[i] \in SessionAction
    BY <1>6, <2>1, <2>2
  <2>4. /\ SubSeq(s, m, l) \in Seq(SessionAction)
        /\ Len(SubSeq(s, m, l)) = IF m <= l THEN l - m + 1 ELSE 0
        /\ \A i \in 1 .. l - m + 1 : SubSeq(s, m, l)[i] = s[m + i - 1]
    BY <2>3, SubSeqProperties
  <2> QED
    BY <2>1, <2>2, <2>4
<1>8. n < Len(s)
  <2>1. Len(SubSeq(s, n + 1, Len(s))) # 0
    BY <1>4, <1>7, EmptySeq
  <2>2. n + 1 <= Len(s)
    BY <1>7, <2>1
  <2> QED
    BY ONLY <1>2, <1>3, <2>2
<1>9. Up[1] = s[n + 1]
  <2>1. 1 \in 1 .. Len(s) - (n + 1) + 1 /\ n + 1 + 1 - 1 = n + 1
    BY <1>2, <1>3, <1>8
  <2> QED
    BY <1>4, <1>7, <2>1
<1>10. n + 1 \in 1 .. Len(s)
  BY <1>2, <1>3, <1>8
<1> QED
  BY <1>1, <1>2, <1>3, <1>8, <1>9, <1>10 DEF n

LEMMA HostReceivesInv ==
  ASSUME HandlerInv, HostReceives
  PROVE  HandlerInv' /\ MirrorStep
<1>1. chat' = chat /\ chat # None /\ Up # <<>>
  BY DEF HostReceives
<1>2. PICK n : n = Len(EchoesIn(arriving))
  OBVIOUS
<1>3. PICK a : a = Up[1]
  OBVIOUS
<1>4. /\ n \in Nat /\ n < Len(chat.sent) /\ n + 1 \in DOMAIN chat.sent
      /\ a = chat.sent[n + 1] /\ a \in SessionAction
  BY <1>1, <1>2, <1>3, NextTaken
<1>5. PICK q \in Seq(SessionAction) : q = <<a>> /\ Len(q) = 1 /\ q[1] = a
  BY <1>4, SingleType
<1>6. PICK next : /\ next = IF a.type \in QueueAction THEN Consumes(Applied(host, q)) ELSE <<>>
                  /\ host' = Applied(Applied(host, q), next)
                  /\ Broadcast(Envelopes(q, TRUE) \o Envelopes(next, FALSE))
                  /\ begun' = [begun EXCEPT !.turns = @ + Len(next)]
  BY <1>3, <1>5 DEF HostReceives, HostApplies
<1>7. /\ BegunType(begun) /\ Sound(host) /\ Sound(Applied(host, q))
      /\ Numbered(chat, begun)
  BY <1>1, <1>4, <1>5, ChatReads, AppliedSound DEF HostIsSound
<1>8. /\ next \in Seq(SessionAction)
      /\ \/ next = <<>> /\ Len(next) = 0
         \/ /\ Len(next) = 1 /\ begun.turns < MaxTurns
            /\ next[1].type = "turnStarted" /\ next[1].turn = begun.turns + 1
  <2>1. CASE a.type \in QueueAction
    <3>1. next = Consumes(Applied(host, q))
      BY <1>6, <2>1
    <3> QED
      BY <1>7, <3>1, ConsumesType
  <2>2. CASE a.type \notin QueueAction
    BY <1>6, <2>2, EmptySeq
  <2> QED
    BY <2>1, <2>2
<1>9. PICK x : /\ x \in Seq(ActionEnvelope)
               /\ x = Envelopes(q, TRUE) /\ DOMAIN x = 1 .. 1 /\ ActionsOf(x) = q
               /\ x[1].action = a /\ x[1].own = TRUE
               /\ EchoesIn(x) = <<[action |-> a, own |-> TRUE]>>
  <2>1. /\ Envelopes(q, TRUE) \in Seq(ActionEnvelope) /\ DOMAIN Envelopes(q, TRUE) = 1 .. Len(q)
        /\ \A i \in 1 .. Len(q) : /\ Envelopes(q, TRUE)[i].action = q[i]
                                  /\ Envelopes(q, TRUE)[i].own = TRUE
        /\ ActionsOf(Envelopes(q, TRUE)) = q
    BY EnvelopesType
  <2>2. EchoesIn(Envelopes(q, TRUE)) = <<[action |-> a, own |-> TRUE]>>
    BY <1>4, <1>5, OwnIsEcho
  <2>3. PICK x : x = Envelopes(q, TRUE)
    OBVIOUS
  <2>4. /\ x \in Seq(ActionEnvelope) /\ DOMAIN x = 1 .. 1 /\ ActionsOf(x) = q
        /\ EchoesIn(x) = <<[action |-> a, own |-> TRUE]>>
    BY <1>5, <2>1, <2>2, <2>3
  <2>5. 1 \in 1 .. Len(q)
    BY <1>5
  <2>6. x[1].action = a /\ x[1].own = TRUE
    BY <1>5, <2>1, <2>3, <2>5
  <2> QED
    BY <2>3, <2>4, <2>6
<1>10. PICK y : /\ y \in Seq(ActionEnvelope) /\ y = Envelopes(next, FALSE)
                /\ DOMAIN y = 1 .. Len(next) /\ ActionsOf(y) = next
                /\ \A i \in 1 .. Len(next) : y[i].action = next[i] /\ y[i].own = FALSE
  <2>1. next \in Seq(SessionAction) /\ FALSE \in BOOLEAN
    BY <1>8
  <2>2. LET e == Envelopes(next, FALSE)
        IN /\ e \in Seq(ActionEnvelope) /\ DOMAIN e = 1 .. Len(next)
           /\ \A i \in 1 .. Len(next) : e[i].action = next[i] /\ e[i].own = FALSE
           /\ ActionsOf(e) = next
    BY ONLY <2>1, EnvelopesType
  <2> QED
    BY <2>2
<1>11. EchoesIn(y) = <<>>
  BY <1>10, ForeignAreNoEchoes
<1> DEFINE es == x \o y
<1>12. es \in Seq(ActionEnvelope) /\ ActionsOf(es) = q \o next
  <2>1. x \in Seq(ActionEnvelope) /\ y \in Seq(ActionEnvelope)
    BY <1>9, <1>10
  <2>2. es \in Seq(ActionEnvelope)
    BY <2>1, ConcatProperties
  <2>3. ActionsOf(es) = ActionsOf(x) \o ActionsOf(y)
    BY ONLY <2>1, ActionsConcat
  <2> QED
    BY <1>9, <1>10, <2>2, <2>3
<1>13. host' = Applied(host, ActionsOf(es)) /\ Broadcast(es)
  <2>1. Applied(Applied(host, q), next) = Applied(host, q \o next)
    BY <1>7, <1>8, AppliedConcat
  <2> QED
    BY <1>6, <1>9, <1>10, <1>12, <2>1
<1>14. /\ GivenMore(begun, begun')
       /\ Len(next) = 1 => begun.turns + 1 \in Given(begun') \ Given(begun)
  <2>1. PICK k : k = Len(next)
    OBVIOUS
  <2>2. begun.turns \in Nat /\ MaxTurns \in Nat /\ begun.turns <= MaxTurns
    BY <1>7, GivenTypes, IdsAreNumbers
  <2>3. k = 0 \/ (k = 1 /\ begun.turns < MaxTurns)
    BY <1>8, <2>1
  <2>4. k \in Nat /\ begun.turns + k <= MaxTurns
    BY <2>2, <2>3
  <2>5. PICK b2 : b2 = begun'
    OBVIOUS
  <2>6. b2 = [begun EXCEPT !.turns = @ + k]
    BY <1>6, <2>1, <2>5
  <2>7. GivenMore(begun, b2) /\ (k = 1 => begun.turns + 1 \in Given(b2) \ Given(begun))
    BY <1>7, <2>4, <2>6, TurnsGiven
  <2> QED
    BY <2>1, <2>5, <2>7
<1>15. /\ DOMAIN es = 1 .. 1 + Len(next)
       /\ \A i \in 1 .. 1 + Len(next) :
            \/ i = 1 /\ es[i] = x[1]
            \/ i - 1 \in 1 .. Len(next) /\ es[i] = y[i - 1]
  <2>1. Len(x) = 1 /\ Len(y) = Len(next)
    <3>1. Len(ActionsOf(x)) = Len(x) /\ Len(ActionsOf(y)) = Len(y)
      BY <1>9, <1>10, ActionsOfType
    <3> QED
      BY <1>5, <1>9, <1>10, <3>1
  <2>2. /\ DOMAIN es = 1 .. Len(x) + Len(y)
        /\ \A i \in 1 .. Len(x) + Len(y) :
             \/ i \in 1 .. Len(x) /\ es[i] = x[i]
             \/ i - Len(x) \in 1 .. Len(y) /\ es[i] = y[i - Len(x)]
    BY ConcatEnvelopes
  <2>3. \A i : i \in 1 .. 1 => i = 1
    OBVIOUS
  <2> HIDE DEF es
  <2> QED
    BY <2>1, <2>2, <2>3
<1>16. StartsOnce(es, begun, begun')
  <2>1. ASSUME a.type = "turnStarted"
        PROVE  a.turn \in Given(begun')
    <3>1. a.turn \in Given(begun)
      BY <1>4, <1>7, <2>1 DEF Numbered
    <3>2. PICK b : b = begun'
      OBVIOUS
    <3>3. GivenMore(begun, b)
      BY <1>14, <3>2
    <3>4. Given(begun) \subseteq Given(b)
      BY <3>3, StillGiven
    <3> QED
      BY <3>1, <3>2, <3>4
  <2> HIDE DEF es
  <2>2. ASSUME NEW i \in DOMAIN es
        PROVE  \/ es[i].own = TRUE /\ es[i].action = a
               \/ /\ es[i].own = FALSE /\ es[i].action = next[1] /\ i = 2
                  /\ Len(next) = 1 /\ next[1].turn = begun.turns + 1
    <3>1. CASE i = 1 /\ es[i] = x[1]
      BY <1>9, <3>1
    <3>2. CASE i - 1 \in 1 .. Len(next) /\ es[i] = y[i - 1]
      <4>1. Len(next) = 1 /\ next[1].turn = begun.turns + 1
        BY <1>8, <3>2
      <4>2. i - 1 = 1 /\ i = 2
        BY <1>15, <3>2, <4>1
      <4> QED
        BY <1>10, <3>2, <4>1, <4>2
    <3> QED
      BY <1>15, <3>1, <3>2
  <2> QED
    BY <1>14, <2>1, <2>2 DEF StartsOnce, IsForeignStart
<1>17. EchoesMatch(arriving \o es, chat.sent)
  <2>1. EchoesIn(es) = <<[action |-> a, own |-> TRUE]>>
    <3>1. EchoesIn(es) = EchoesIn(x) \o EchoesIn(y)
      BY <1>9, <1>10, EchoesConcat
    <3>2. PICK z \in Seq(ActionEnvelope) : z = EchoesIn(x)
      BY <1>9, EchoesType
    <3>3. z \o <<>> = z
      BY ConcatEmptySeq
    <3> QED
      BY <1>9, <1>11, <3>1, <3>2, <3>3
  <2>2. PICK e \in ActionEnvelope : e = [action |-> a, own |-> TRUE]
    BY <1>4, OwnIsEcho
  <2>3. e.action = a
    BY <2>2
  <2>4. PICK u \in Seq(ActionEnvelope) : u = arriving
    BY <1>1, ChatReads
  <2>5. PICK s \in Seq(SessionAction) : s = chat.sent
    BY <1>1, ChatReads, ChatFields
  <2>6. PICK v \in Seq(ActionEnvelope) : v = es
    BY <1>12
  <2>7. Len(s) \in Nat /\ EchoesMatch(u, s)
    BY <1>1, <2>4, <2>5, ChatReads, LenProperties
  <2>8. /\ EchoesIn(v) = <<e>> /\ Len(EchoesIn(u)) < Len(s)
        /\ e.action = s[Len(EchoesIn(u)) + 1]
    BY <1>2, <1>4, <2>1, <2>2, <2>3, <2>4, <2>5, <2>6
  <2>9. EchoesMatch(u \o v, s)
    BY ONLY u \in Seq(ActionEnvelope), v \in Seq(ActionEnvelope), e \in ActionEnvelope,
            <2>7, <2>8, EchoesAfter
  <2> QED
    BY <2>4, <2>5, <2>6, <2>9
<1>18. PICK v \in Seq(ActionEnvelope) : v = es
  BY <1>12
<1>19. /\ host' = Applied(host, ActionsOf(v)) /\ Broadcast(v)
       /\ GivenMore(begun, begun') /\ StartsOnce(v, begun, begun')
       /\ chat # None => EchoesMatch(arriving \o v, chat.sent)
  BY <1>13, <1>14, <1>16, <1>17, <1>18
<1> QED
  BY ONLY HandlerInv, <1>1, v \in Seq(ActionEnvelope), <1>19, HostStep

\* What is left of the envelopes under way when the first one has arrived.
LEMMA TailStarts ==
  ASSUME NEW q \in Seq(ActionEnvelope), q # <<>>, NEW b, NEW seen, StartsAreNew(q, b, seen)
  PROVE  /\ StartsAreNew(Tail(q), b, seen)
         /\ IsForeignStart(q[1]) => /\ q[1].action.turn \in Given(b) \ {seen}
                                    /\ StartsAreNew(Tail(q), b, q[1].action.turn)
<1> DEFINE n == Len(q)
           r == Tail(q)
<1>1. /\ n \in Nat \ {0} /\ DOMAIN q = 1 .. n /\ r \in Seq(ActionEnvelope)
      /\ Len(r) = n - 1 /\ \A i \in 1 .. Len(r) : r[i] = q[i + 1]
  BY EmptySeq, LenProperties, HeadTailProperties
<1>2. DOMAIN r = 1 .. n - 1
  BY <1>1, LenProperties
<1> HIDE DEF n, r
<1>3. /\ 1 \in 1 .. n
      /\ \A i \in 1 .. n - 1 : i + 1 \in 1 .. n /\ i + 1 # 1 /\ r[i] = q[i + 1]
  BY <1>1
<1>4. StartsAreNew(r, b, seen)
  <2>1. ASSUME NEW i \in 1 .. n - 1, IsForeignStart(r[i])
        PROVE  r[i].action.turn \in Given(b) \ {seen}
    BY <1>1, <1>3, <2>1 DEF StartsAreNew
  <2>2. ASSUME NEW i \in 1 .. n - 1, NEW j \in 1 .. n - 1,
               IsForeignStart(r[i]), IsForeignStart(r[j]),
               r[j].action.turn = r[i].action.turn
        PROVE  i = j
    <3>1. PICK x \in DOMAIN q : x = i + 1 /\ q[x] = r[i]
      BY <1>1, <1>3
    <3>2. PICK y \in DOMAIN q : y = j + 1 /\ q[y] = r[j]
      BY <1>1, <1>3
    <3>3. x = y
      BY <2>2, <3>1, <3>2 DEF StartsAreNew
    <3>4. i + 1 = j + 1
      BY <3>1, <3>2, <3>3
    <3> QED
      BY <1>1, <3>4
  <2> QED
    BY <1>2, <2>1, <2>2 DEF StartsAreNew
<1>5. ASSUME IsForeignStart(q[1])
      PROVE  q[1].action.turn \in Given(b) \ {seen} /\ StartsAreNew(r, b, q[1].action.turn)
  <2>1. q[1].action.turn \in Given(b) \ {seen}
    BY <1>1, <1>3, <1>5 DEF StartsAreNew
  <2>2. ASSUME NEW i \in 1 .. n - 1, IsForeignStart(r[i])
        PROVE  r[i].action.turn # q[1].action.turn
    <3>1. PICK x \in DOMAIN q : x # 1 /\ q[x] = r[i]
      BY <1>1, <1>3
    <3>2. 1 \in DOMAIN q
      BY <1>1, <1>3
    <3>3. q[x].action.turn = q[1].action.turn => x = 1
      BY <1>5, <2>2, <3>1, <3>2 DEF StartsAreNew
    <3> QED
      BY <3>1, <3>3
  <2> QED
    BY <1>2, <1>4, <2>1, <2>2 DEF StartsAreNew
<1> QED
  BY <1>4, <1>5 DEF r

LEMMA TailEchoes ==
  ASSUME NEW q \in Seq(ActionEnvelope), q # <<>>, NEW sent \in Seq(SessionAction),
         EchoesMatch(q, sent)
  PROVE  /\ q[1].own => /\ sent # <<>> /\ sent[1] = q[1].action
                        /\ EchoesMatch(Tail(q), Tail(sent))
         /\ ~q[1].own => EchoesMatch(Tail(q), sent)
<1> DEFINE S == [action : SessionAction, own : {TRUE}]
           x == EchoesIn(q)
           y == EchoesIn(Tail(q))
           k == Len(x)
<1>1. q[1] \in ActionEnvelope
  <2>1. Len(q) \in Nat \ {0}
    BY EmptySeq
  <2>2. 1 \in 1 .. Len(q)
    BY <2>1
  <2> QED
    BY <2>2, ElementOfSeq
<1>2. q[1].own <=> q[1] \in S
  <2>1. PICK e \in ActionEnvelope : e = q[1]
    BY <1>1
  <2>2. e.own <=> e \in S
    BY DEF ActionEnvelope
  <2> QED
    BY <2>1, <2>2
<1> HIDE DEF S
<1>3. x \in Seq(ActionEnvelope) /\ k \in Nat
  BY EchoesType
<1>4. k <= Len(sent) /\ \A i \in 1 .. k : x[i].action = sent[i]
  BY DEF EchoesMatch
<1>5. /\ q[1].own => x # <<>> /\ x[1] = q[1] /\ y = Tail(x)
      /\ ~q[1].own => y = x
  BY <1>2, WithinTail DEF EchoesIn, S
<1> HIDE DEF x, y
<1>6. CASE ~q[1].own
  BY <1>5, <1>6 DEF EchoesMatch, x, y
<1>7. CASE q[1].own
  <2>1. x # <<>> /\ x[1] = q[1] /\ y = Tail(x)
    BY <1>5, <1>7
  <2>2. k # 0 /\ Len(y) = k - 1 /\ \A i \in 1 .. Len(y) : y[i] = x[i + 1]
    BY <1>3, <2>1, EmptySeq, HeadTailProperties
  <2>3. Len(sent) \in Nat
    BY LenProperties
  <2> HIDE DEF k
  <2>4. 1 \in 1 .. k /\ Len(sent) # 0
    BY <1>3, <1>4, <2>2, <2>3
  <2>5. sent # <<>> /\ sent[1] = q[1].action
    BY <1>4, <2>1, <2>4, EmptySeq
  <2>6. Len(Tail(sent)) = Len(sent) - 1 /\ \A i \in 1 .. Len(Tail(sent)) : Tail(sent)[i] = sent[i + 1]
    BY <2>5, HeadTailProperties
  <2>7. Len(y) <= Len(Tail(sent))
    BY <1>3, <1>4, <2>2, <2>3, <2>6
  <2>8. ASSUME NEW i \in 1 .. Len(y)
        PROVE  y[i].action = Tail(sent)[i]
    <3>1. i + 1 \in 1 .. k /\ i \in 1 .. Len(Tail(sent))
      BY <1>3, <1>4, <2>2, <2>3, <2>6
    <3> QED
      BY <1>4, <2>2, <2>6, <3>1
  <2>9. EchoesMatch(Tail(q), Tail(sent))
    BY <2>7, <2>8 DEF EchoesMatch, y
  <2> QED
    BY <1>7, <2>5, <2>9
<1> QED
  BY <1>6, <1>7

\* What the chat is when an envelope has arrived and the listeners are not called yet.
Receives(c, e) ==
  [c EXCEPT !.confirmed = Reduce(@, e.action), !.sent = IF e.own THEN Tail(@) ELSE @]

LEMMA ReceivesShape ==
  ASSUME NEW c, ChatShape(c), NEW e \in ActionEnvelope, e.own => c.sent # <<>>,
         NEW d, d = Receives(c, e)
  PROVE  /\ ChatShape(d) /\ d.confirmed = Reduce(c.confirmed, e.action)
         /\ d.sent = (IF e.own THEN Tail(c.sent) ELSE c.sent)
         /\ d.turn = c.turn /\ d.lastSeen = c.lastSeen /\ d.queue = c.queue
<1>1. e.action \in SessionAction /\ e.own \in BOOLEAN
  BY DEF ActionEnvelope
<1>2. PICK r : r = Reduce(c.confirmed, e.action)
  OBVIOUS
<1>3. Sound(r) /\ r \in SessionState
  BY <1>1, <1>2, ChatFields, ReduceSound DEF Sound
<1>4. PICK s : s = IF e.own THEN Tail(c.sent) ELSE c.sent
  OBVIOUS
<1>5. s \in Seq(SessionAction)
  BY <1>1, <1>4, ChatFields, HeadTailProperties
<1>6. c \in HandlerState /\ d = [c EXCEPT !.confirmed = r, !.sent = s]
  BY <1>2, <1>4 DEF Receives, ChatShape
<1>7. d \in HandlerState
  BY <1>3, <1>5, <1>6 DEF HandlerState
<1>8. /\ d.confirmed = r /\ d.sent = s /\ d.turn = c.turn /\ d.lastSeen = c.lastSeen
      /\ d.queue = c.queue /\ d.invocations = c.invocations /\ d.request = c.request
  BY <1>6 DEF HandlerState
<1>9. ChatShape(d)
  BY <1>3, <1>7, <1>8 DEF ChatShape
<1> QED
  BY <1>2, <1>4, <1>8, <1>9

\* An own action comes back: what the handler reads stays as it was.
LEMMA ArrivesOwn ==
  ASSUME NEW c, NEW q \in Seq(ActionEnvelope), q # <<>>, q[1].own, NEW b, ChatIsSound(c, q, b),
         NEW d, d = Receives(c, q[1])
  PROVE  /\ ChatShape(d) /\ Followable(d) /\ Numbered(d, b)
         /\ EchoesMatch(Tail(q), d.sent)
         /\ ActiveId(View(d)) \in {None, d.lastSeen}
         /\ StartsAreNew(Tail(q), b, d.lastSeen)
<1>1. /\ ChatShape(c) /\ OneTracker(c) /\ Numbered(c, b)
      /\ StartsAreNew(q, b, c.lastSeen) /\ EchoesMatch(q, c.sent)
  BY DEF ChatIsSound
<1>2. PICK e \in ActionEnvelope : e = q[1]
  <2>1. Len(q) \in Nat \ {0}
    BY EmptySeq
  <2>2. 1 \in 1 .. Len(q)
    BY <2>1
  <2> QED
    BY <2>2, ElementOfSeq
<1>3. PICK s \in Seq(SessionAction) : s = c.sent
  BY <1>1, ChatFields
<1>4. s # <<>> /\ s[1] = e.action /\ EchoesMatch(Tail(q), Tail(s))
  BY <1>1, <1>2, <1>3, TailEchoes
<1>5. /\ ChatShape(d) /\ d.confirmed = Reduce(c.confirmed, e.action) /\ d.sent = Tail(s)
      /\ d.turn = c.turn /\ d.lastSeen = c.lastSeen /\ d.queue = c.queue
  BY <1>1, <1>2, <1>3, <1>4, ReceivesShape
<1>6. View(d) = View(c)
  <2>1. Sound(c.confirmed)
    BY <1>1, ChatFields
  <2>2. Applied(Reduce(c.confirmed, s[1]), Tail(s)) = Applied(c.confirmed, s)
    BY <1>4, <2>1, AppliedTail
  <2> QED
    BY <1>3, <1>4, <1>5, <2>2 DEF View
<1>7. Followable(d)
  BY <1>1, <1>5, <1>6, StillFollowable
<1>8. Numbered(d, b)
  <2>1. Len(Tail(s)) = Len(s) - 1 /\ \A i \in 1 .. Len(Tail(s)) : Tail(s)[i] = s[i + 1]
    BY <1>4, HeadTailProperties
  <2>2. Len(s) \in Nat /\ DOMAIN s = 1 .. Len(s) /\ DOMAIN Tail(s) = 1 .. Len(Tail(s))
    BY <1>4, LenProperties, HeadTailProperties
  <2>3. \A i \in DOMAIN Tail(s) : i + 1 \in DOMAIN s /\ Tail(s)[i] = s[i + 1]
    BY <2>1, <2>2
  <2>4. \A i \in DOMAIN s : s[i].type = "turnStarted" => s[i].turn \in Given(b)
    BY <1>1, <1>3 DEF Numbered
  <2>5. ASSUME NEW i \in DOMAIN Tail(s), Tail(s)[i].type = "turnStarted"
        PROVE  Tail(s)[i].turn \in Given(b)
    BY <2>3, <2>4, <2>5
  <2> QED
    BY <1>1, <1>5, <2>5 DEF Numbered
<1>9. ActiveId(View(d)) \in {None, d.lastSeen}
  BY <1>1, <1>5, <1>6 DEF OneTracker
<1>10. StartsAreNew(Tail(q), b, d.lastSeen)
  BY <1>1, <1>5, TailStarts
<1> QED
  BY <1>4, <1>5, <1>7, <1>8, <1>9, <1>10

\* An action of others comes: what the handler reads as active stays, ends, or is a turn
\* that nobody saw yet.
LEMMA ArrivesForeign ==
  ASSUME NEW c, NEW q \in Seq(ActionEnvelope), q # <<>>, ~q[1].own, NEW b, ChatIsSound(c, q, b),
         NEW d, d = Receives(c, q[1])
  PROVE  /\ ChatShape(d) /\ Followable(d) /\ Numbered(d, b)
         /\ EchoesMatch(Tail(q), d.sent)
         /\ ActiveId(View(d)) \in Given(b) \cup {None}
         /\ StartsAreNew(Tail(q), b, IF ActiveId(View(d)) = None THEN d.lastSeen
                                     ELSE ActiveId(View(d)))
<1>1. /\ ChatShape(c) /\ OneTracker(c) /\ Numbered(c, b)
      /\ StartsAreNew(q, b, c.lastSeen) /\ EchoesMatch(q, c.sent)
  BY DEF ChatIsSound
<1>2. PICK e \in ActionEnvelope : e = q[1]
  <2>1. Len(q) \in Nat \ {0}
    BY EmptySeq
  <2>2. 1 \in 1 .. Len(q)
    BY <2>1
  <2> QED
    BY <2>2, ElementOfSeq
<1>3. PICK s \in Seq(SessionAction) : s = c.sent
  BY <1>1, ChatFields
<1>4. PICK a \in SessionAction : a = e.action
  BY DEF ActionEnvelope
<1>5. /\ ChatShape(d) /\ d.confirmed = Reduce(c.confirmed, a) /\ d.sent = s
      /\ d.turn = c.turn /\ d.lastSeen = c.lastSeen /\ d.queue = c.queue
  BY <1>1, <1>2, <1>3, <1>4, ReceivesShape
<1>6. EchoesMatch(Tail(q), s)
  BY <1>1, <1>3, TailEchoes
<1>7. Numbered(d, b)
  BY <1>1, <1>3, <1>5 DEF Numbered
<1>8. PICK t : t = ActiveId(View(d))
  OBVIOUS
<1>9. PICK t0 : t0 = ActiveId(View(c))
  OBVIOUS
<1>10. /\ t \in {t0, None} \/ (a.type = "turnStarted" /\ t = a.turn)
  <2>1. PICK x : x = c.confirmed /\ Sound(x)
    BY <1>1, ChatFields
  <2>2. PICK r : r = Reduce(x, a)
    OBVIOUS
  <2>3. Sound(r) /\ ActiveId(r) = ActiveAfter(ActiveId(x), a)
    BY <2>1, <2>2, ReduceSound, ActiveAfterReduce
  <2>4. /\ ActiveId(Applied(r, s)) \in {ActiveId(Applied(x, s)), None, ActiveId(r)}
        /\ ActiveId(r) = ActiveId(x) => ActiveId(Applied(r, s)) = ActiveId(Applied(x, s))
    BY <2>1, <2>3, ActiveBelow
  <2>5. t = ActiveId(Applied(r, s)) /\ t0 = ActiveId(Applied(x, s))
    BY <1>3, <1>5, <1>8, <1>9, <2>1, <2>2 DEF View
  <2>6. ActiveId(r) \in {None, ActiveId(x)} \/ (a.type = "turnStarted" /\ ActiveId(r) = a.turn)
    BY <2>3 DEF ActiveAfter
  <2> QED
    BY ONLY <2>4, <2>5, <2>6
<1>11. /\ \A k \in Tracker : c.turn[k] \in {t0, None}
       /\ t0 # None => c.lastSeen = t0
  BY <1>1, <1>9 DEF OneTracker
<1>12. CASE t \in {t0, None}
  <2>1. Followable(d)
    <3>1. CASE t = t0
      BY <1>1, <1>5, <1>8, <1>9, <3>1, StillFollowable
    <3>2. CASE t = None
      BY <1>8, <3>2 DEF Followable
    <3> QED
      BY <1>12, <3>1, <3>2
  <2>2. (IF t = None THEN d.lastSeen ELSE t) = c.lastSeen
    BY <1>5, <1>11, <1>12
  <2>3. StartsAreNew(Tail(q), b, c.lastSeen)
    BY <1>1, TailStarts
  <2>4. t \in Given(b) \cup {None}
    BY <1>1, <1>11, <1>12 DEF Numbered
  <2>5. StartsAreNew(Tail(q), b, IF t = None THEN d.lastSeen ELSE t)
    BY <2>2, <2>3
  <2> QED
    BY <1>5, <1>6, <1>7, <1>8, <2>1, <2>4, <2>5
<1>13. CASE a.type = "turnStarted" /\ t = a.turn /\ t \notin {t0, None}
  <2>1. IsForeignStart(q[1]) /\ q[1].action.turn = t
    BY <1>2, <1>4, <1>13 DEF IsForeignStart
  <2>2. t \in Given(b) \ {c.lastSeen} /\ StartsAreNew(Tail(q), b, t)
    BY <1>1, <2>1, TailStarts
  <2>3. Followable(d)
    <3>1. d.lastSeen # t /\ \A j \in Tracker : d.turn[j] # t
      BY <1>5, <1>11, <1>13, <2>2
    <3> QED
      BY <1>8, <3>1 DEF Followable
  <2>4. StartsAreNew(Tail(q), b, IF t = None THEN d.lastSeen ELSE t)
    BY <1>13, <2>2
  <2> QED
    BY <1>5, <1>6, <1>7, <1>8, <2>2, <2>3, <2>4
<1> QED
  BY <1>10, <1>12, <1>13

LEMMA EnvelopeArrivesInv ==
  ASSUME HandlerInv, EnvelopeArrives
  PROVE  HandlerInv' /\ MirrorStep
<1>1. /\ arriving # <<>> /\ host' = host /\ begun' = begun /\ arriving' = Tail(arriving)
      /\ chat' = Changed(Receives(chat, arriving[1]))
  BY DEF EnvelopeArrives, Receives
<1>2. chat # None
  BY <1>1 DEF HandlerInv
<1>3. /\ ChatIsSound(chat, arriving, begun) /\ BegunType(begun) /\ HostIsSound(host, begun)
      /\ arriving \in Seq(ActionEnvelope)
  BY <1>2, ChatReads
<1>4. PICK q \in Seq(ActionEnvelope) : q = arriving
  BY <1>3
<1>5. PICK b : b = begun
  OBVIOUS
<1>6. PICK c0 : c0 = chat
  OBVIOUS
<1>7. PICK c : c = Receives(c0, q[1])
  OBVIOUS
<1>8. PICK d : d = chat'
  OBVIOUS
<1>9. q # <<>> /\ ChatIsSound(c0, q, b) /\ BegunType(b) /\ d = Changed(c)
  BY <1>1, <1>3, <1>4, <1>5, <1>6, <1>7, <1>8
<1>10. PICK e \in ActionEnvelope : e = q[1]
  <2>1. Len(q) \in Nat \ {0}
    BY <1>9, EmptySeq
  <2>2. 1 \in 1 .. Len(q)
    BY <2>1
  <2> QED
    BY <2>2, ElementOfSeq
<1>11. e.own \in BOOLEAN
  BY DEF ActionEnvelope
<1>12. /\ ChatShape(c) /\ Followable(c) /\ Numbered(c, b)
       /\ EchoesMatch(Tail(q), c.sent)
       /\ ActiveId(View(c)) \in Given(b) \cup {None}
       /\ StartsAreNew(Tail(q), b, IF ActiveId(View(c)) = None THEN c.lastSeen
                                   ELSE ActiveId(View(c)))
  <2>1. CASE e.own
    <3>1. /\ ChatShape(c) /\ Followable(c) /\ Numbered(c, b)
          /\ EchoesMatch(Tail(q), c.sent)
          /\ ActiveId(View(c)) \in {None, c.lastSeen}
          /\ StartsAreNew(Tail(q), b, c.lastSeen)
      BY <1>7, <1>9, <1>10, <2>1, ArrivesOwn
    <3>2. ActiveId(View(c)) \in Given(b) \cup {None}
      BY <3>1 DEF Numbered
    <3>3. (IF ActiveId(View(c)) = None THEN c.lastSeen ELSE ActiveId(View(c))) = c.lastSeen
      BY <3>1
    <3> QED
      BY <3>1, <3>2, <3>3
  <2>2. CASE ~e.own
    BY <1>7, <1>9, <1>10, <2>2, ArrivesForeign
  <2> QED
    BY <1>11, <2>1, <2>2
<1>13. PICK r \in Seq(ActionEnvelope) : r = Tail(q)
  BY <1>9, HeadTailProperties
<1>14. ChatIsSound(d, r, b) /\ KeepsMirror(c, d)
  BY <1>9, <1>12, <1>13, ChatStep
<1>15. c.queue = chat.queue
  <2>1. ChatShape(c0) /\ (e.own => c0.sent # <<>>)
    <3>1. PICK s \in Seq(SessionAction) : s = c0.sent
      BY <1>9, ChatFields DEF ChatIsSound
    <3>2. EchoesMatch(q, s)
      BY <1>9, <3>1 DEF ChatIsSound
    <3>3. e.own => s # <<>>
      BY <1>9, <1>10, <3>2, TailEchoes
    <3> QED
      BY <1>9, <3>1, <3>3 DEF ChatIsSound
  <2>2. c.queue = c0.queue
    BY <1>7, <1>10, <2>1, ReceivesShape
  <2> QED
    BY <1>6, <2>2
<1>16. MirrorStep
  BY <1>8, <1>14, <1>15, StepMirrors
<1>17. chat' # None /\ ChatIsSound(chat', arriving', begun')
  <2>1. d # None
    BY <1>14, HandlerIsNotNone DEF ChatIsSound
  <2> QED
    BY <1>1, <1>4, <1>5, <1>8, <1>13, <1>14, <2>1
<1>18. HandlerInv'
  BY <1>1, <1>3, <1>4, <1>13, <1>17 DEF HandlerInv
<1> QED
  BY <1>16, <1>18

-----------------------------------------------------------------------------
(* The theorems.                                                           *)

LEMMA HandlerStart == HandlerInit => HandlerInv
<1> SUFFICES ASSUME HandlerInit
             PROVE  HandlerInv
  OBVIOUS
<1>1. BegunType(begun)
  <2>1. MaxTurns \in Nat /\ MaxQueue \in Nat
    BY IdsAreNumbers
  <2> QED
    BY <2>1 DEF HandlerInit, BegunType
<1>2. HostIsSound(host, begun)
  <2>1. host = [NewSession EXCEPT !.lifecycle = "ready"]
    BY DEF HandlerInit
  <2>2. Sound(host)
    BY <2>1, NewSessionSound DEF NewSession, Sound, SessionState, UniqueIds, Customizations
  <2>3. host.activeTurn = None
    BY <2>1 DEF NewSession
  <2> QED
    BY <2>2, <2>3 DEF HostIsSound, ActiveId
<1>3. arriving = <<>> /\ chat = None
  BY DEF HandlerInit
<1> QED
  BY <1>1, <1>2, <1>3, EmptySeq DEF HandlerInv

LEMMA HandlerStep == HandlerInv /\ [HandlerNext]_chatVars => HandlerInv' /\ MirrorStep
<1> SUFFICES ASSUME HandlerInv, [HandlerNext]_chatVars
             PROVE  HandlerInv' /\ MirrorStep
  OBVIOUS
<1>1. CASE OpenSession
  BY <1>1, OpenSessionInv
<1>2. CASE NewChat
  BY <1>2, NewChatInv
<1>3. CASE Send
  BY <1>3, SendInv
<1>4. CASE Queue
  BY <1>4, QueueInv
<1>5. CASE RemoveQueued
  BY <1>5, RemoveQueuedInv
<1>6. CASE ReorderQueue
  BY <1>6, ReorderQueueInv
<1>7. CASE Answer
  BY <1>7, AnswerInv
<1>8. CASE StopRequest
  BY <1>8, StopRequestInv
<1>9. CASE StopServerTurn
  BY <1>9, StopServerTurnInv
<1>10. CASE HostReceives
  BY <1>10, HostReceivesInv
<1>11. CASE EnvelopeArrives
  BY <1>11, EnvelopeArrivesInv
<1>12. CASE AgentCalls
  BY <1>12, AgentCallsInv
<1>13. CASE AgentAsks
  BY <1>13, AgentAsksInv
<1>14. CASE AgentCompletesCall
  BY <1>14, AgentCompletesCallInv
<1>15. CASE AgentIdles \/ AgentFails
  BY <1>15, AgentEndsInv
<1>16. CASE OtherClientActs
  BY <1>16, OtherClientActsInv
<1>17. CASE UNCHANGED chatVars
  BY <1>17 DEF chatVars, HandlerInv, MirrorStep
<1> QED
  BY <1>1, <1>2, <1>3, <1>4, <1>5, <1>6, <1>7, <1>8, <1>9, <1>10, <1>11, <1>12, <1>13,
     <1>14, <1>15, <1>16, <1>17 DEF HandlerNext

LEMMA HandlerInvariant == HandlerSpec => []HandlerInv
<1>1. HandlerInv /\ [HandlerNext]_chatVars => HandlerInv'
  BY HandlerStep
<1> QED
  BY HandlerStart, <1>1, PTL DEF HandlerSpec

\* The session, the envelopes and the chat keep to their types in every state, the ids
\* given out to their bounds, and the chat model lists no message twice.
THEOREM HandlerIsTyped == HandlerSpec => []HandlerTypeOK
<1>1. HandlerInv => HandlerTypeOK
  <2> SUFFICES ASSUME HandlerInv
               PROVE  HandlerTypeOK
    OBVIOUS
  <2>1. host \in SessionState /\ arriving \in Seq(ActionEnvelope)
    BY DEF HandlerInv, HostIsSound, Sound
  <2>2. begun.turns \in 0 .. MaxTurns /\ begun.messages \in 0 .. MaxQueue
    BY DEF HandlerInv, BegunType
  <2>3. chat # None => chat \in HandlerState /\ IsInjective(chat.queue)
    BY DEF HandlerInv, ChatIsSound, ChatShape
  <2> QED
    BY <2>1, <2>2, <2>3 DEF HandlerTypeOK
<1> QED
  BY <1>1, HandlerInvariant, PTL

\* The turn that the handler reads as active has one tracker and no tracker another turn,
\* whoever starts and ends turns and however starts of others cross the client's own.
THEOREM ActiveTurnStaysTracked == HandlerSpec => []ActiveTurnIsTracked
<1>1. HandlerInv => ActiveTurnIsTracked
  <2> SUFFICES ASSUME HandlerInv, chat # None,
                      NEW t, t = ActiveId(View(chat))
               PROVE  /\ {chat.turn[k] : k \in Tracker} \ {None} = {t} \ {None}
                      /\ t # None => Cardinality({k \in Tracker : chat.turn[k] = t}) = 1
    BY DEF ActiveTurnIsTracked
  <2>1. /\ \A k \in Tracker : chat.turn[k] \in {t, None}
        /\ t # None => \E k \in Tracker : \A j \in Tracker : chat.turn[j] = t <=> j = k
    BY DEF HandlerInv, ChatIsSound, OneTracker
  <2>2. CASE t = None
    BY <2>1, <2>2
  <2>3. CASE t # None
    <3>1. PICK k \in Tracker : \A j \in Tracker : chat.turn[j] = t <=> j = k
      BY <2>1, <2>3
    <3>2. {j \in Tracker : chat.turn[j] = t} = {k}
      BY <3>1
    <3>3. {chat.turn[j] : j \in Tracker} \ {None} = {t} \ {None}
      BY <2>1, <3>1
    <3> QED
      BY <3>2, <3>3, FS_Singleton
  <2> QED
    BY <2>2, <2>3
<1> QED
  BY <1>1, HandlerInvariant, PTL

\* For a call of a tracked turn that waits for permission in what the handler reads, the
\* tracker holds an invocation that waits for an answer, also when the call asks again or
\* others answered meanwhile.  Whether the chat service reads the tracker's progress is
\* not part of it.
THEOREM PendingStaysAsked == HandlerSpec => []PendingIsAsked
<1>1. HandlerInv => PendingIsAsked
  BY DEF HandlerInv, ChatIsSound, Asked, Waits, PendingIsAsked
<1> QED
  BY <1>1, HandlerInvariant, PTL

\* Whenever the pending requests of a synced chat change, the queue that the handler reads
\* holds their ids in their order, with what it dispatched and the listeners added.
THEOREM QueueStaysMirrored == HandlerSpec => ListIsMirrored
<1>1. HandlerInv /\ [HandlerNext]_chatVars =>
        [(chat # None /\ chat'.synced /\ chat'.queue # chat.queue)
           => IdsOf(View(chat').queued) = chat'.queue]_chatVars
  <2>1. HandlerInv /\ [HandlerNext]_chatVars => MirrorStep
    BY HandlerStep
  <2> QED
    BY <2>1 DEF MirrorStep, Mirrors
<1> QED
  BY <1>1, HandlerInvariant, PTL DEF HandlerSpec, ListIsMirrored
=============================================================================
