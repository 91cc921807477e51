-------------------------- MODULE SubsequenceLemmas --------------------------
(***************************************************************************)
(* Induction over the natural numbers in a form the provers can use, with  *)
(* the numbers that have a property given as a set; what follows for       *)
(* functions defined by recursion; and what Within computes.               *)
(***************************************************************************)
EXTENDS Subsequences, SequenceTheorems, WellFoundedInduction, TLAPS

\* A set of natural numbers with 0 and with the successors of its elements has
\* all of them.
LEMMA NatSetInduction ==
  ASSUME NEW T \in SUBSET Nat, 0 \in T, \A n \in T : n + 1 \in T
  PROVE  T = Nat
<1> DEFINE R == OpToRel(<, Nat)
<1> SUFFICES ASSUME Nat \ T # {} PROVE FALSE
  OBVIOUS
<1>1. \E x \in Nat \ T : \A y \in Nat \ T : <<y, x>> \notin R
  <2>1. IsWellFoundedOn(R, Nat)
    BY NatLessThanWellFounded
  <2> HIDE DEF R
  <2> QED
    BY <2>1, WFMin
<1>2. PICK x \in Nat \ T : \A y \in Nat \ T : <<y, x>> \notin R
  BY <1>1
<1>3. x # 0 /\ x - 1 \in Nat
  OBVIOUS
<1>4. <<x - 1, x>> \in R
  BY <1>3 DEF OpToRel
<1>5. x - 1 \in T
  BY <1>2, <1>3, <1>4
<1> QED
  BY <1>5

\* Induction up to a bound.
LEMMA UpTo ==
  ASSUME NEW N \in Nat, NEW T, 0 \in T, \A n \in 0 .. N - 1 : n \in T => n + 1 \in T
  PROVE  \A n \in 0 .. N : n \in T
<1> DEFINE U == {n \in Nat : n <= N => n \in T}
<1>1. U \in SUBSET Nat /\ 0 \in U
  OBVIOUS
<1>2. \A n \in U : n + 1 \in U
  OBVIOUS
<1> HIDE DEF U
<1>3. U = Nat
  BY <1>1, <1>2, NatSetInduction
<1> QED
  BY <1>3 DEF U

\* step[1], ..., step[N] are functions on V.
AreStepsOn(step, N, V) == \A n \in 1 .. N : step[n] \in [V -> V]

\* f is where these steps lead to from v.
Follows(f, v, step, N, V) ==
  /\ f \in [0 .. N -> V]
  /\ f[0] = v
  /\ \A n \in 1 .. N : f[n] = step[n][f[n - 1]]

\* N steps from v, each a function on the set V, can be taken one after the other.
LEMMA Steps ==
  ASSUME NEW V, NEW v \in V, NEW N \in Nat, NEW step, AreStepsOn(step, N, V)
  PROVE  \E f : Follows(f, v, step, N, V)
<1> USE DEF AreStepsOn
<1> DEFINE Taken(f, m) ==
             /\ f \in [0 .. m -> V]
             /\ f[0] = v
             /\ \A n \in 1 .. m : f[n] = step[n][f[n - 1]]
           T == {m \in Nat : \E f : Taken(f, m)}
<1>1. 0 \in T
  <2>1. Taken([n \in 0 .. 0 |-> v], 0)
    OBVIOUS
  <2> QED
    BY <2>1
<1>2. ASSUME NEW m \in 0 .. N - 1, m \in T
      PROVE  m + 1 \in T
  <2>1. PICK f : Taken(f, m)
    BY <1>2
  <2> DEFINE g == [n \in 0 .. m + 1 |-> IF n = m + 1 THEN step[m + 1][f[m]] ELSE f[n]]
  <2>2. f[m] \in V /\ step[m + 1] \in [V -> V]
    BY <2>1
  <2>3. g \in [0 .. m + 1 -> V] /\ g[0] = v
    BY <2>1, <2>2
  <2>4. ASSUME NEW n \in 1 .. m + 1
        PROVE  g[n] = step[n][g[n - 1]]
    <3>1. CASE n = m + 1
      BY <3>1
    <3>2. CASE n \in 1 .. m
      BY <3>2, <2>1
    <3> QED
      BY <3>1, <3>2
  <2> HIDE DEF g
  <2>5. Taken(g, m + 1)
    BY <2>3, <2>4
  <2> HIDE DEF Taken
  <2> QED
    BY <2>5
<1>3. N \in T
  <2> HIDE DEF T
  <2>1. \A n \in 0 .. N - 1 : n \in T => n + 1 \in T
    BY <1>2
  <2>2. \A n \in 0 .. N : n \in T
    BY <1>1, <2>1, UpTo
  <2> QED
    BY <2>2
<1>4. PICK f : Taken(f, N)
  BY <1>3
<1> QED
  BY <1>4 DEF Follows

-----------------------------------------------------------------------------
(* Within *)

\* The recursion that defines Within: kept has what is kept of the first elements.
Filters(kept, s, S, E) ==
  /\ kept \in [0 .. Len(s) -> Seq(E)]
  /\ kept[0] = <<>>
  /\ \A n \in 1 .. Len(s) :
       kept[n] = IF s[n] \in S THEN Append(kept[n - 1], s[n]) ELSE kept[n - 1]
  /\ Within(s, S) = kept[Len(s)]

LEMMA WithinSteps ==
  ASSUME NEW E, NEW s \in Seq(E), NEW S
  PROVE  \E kept : Filters(kept, s, S, E)
<1> DEFINE N == Len(s)
           V == Seq(E)
           step == [n \in 1 .. N |-> [q \in V |-> IF s[n] \in S THEN Append(q, s[n]) ELSE q]]
           Filtered(f, n) == IF s[n] \in S THEN Append(f[n - 1], s[n]) ELSE f[n - 1]
           Kept(f) == f = [n \in 0 .. N |-> IF n = 0 THEN <<>> ELSE Filtered(f, n)]
<1>1. /\ N \in Nat /\ <<>> \in V
      /\ \A n \in 1 .. N : s[n] \in E
      /\ \A n \in 1 .. N : step[n] \in [V -> V]
      /\ \A n \in 1 .. N : \A q \in V : /\ step[n][q] \in V
                                      /\ step[n][q] = IF s[n] \in S THEN Append(q, s[n]) ELSE q
  OBVIOUS
<1> HIDE DEF step, N, V
<1>2. PICK f : Follows(f, <<>>, step, N, V)
  <2>1. AreStepsOn(step, N, V)
    BY <1>1 DEF AreStepsOn
  <2> QED
    BY <1>1, <2>1, Steps
<1>3. ASSUME NEW n \in 0 .. N
      PROVE  f[n] = IF n = 0 THEN <<>> ELSE Filtered(f, n)
  <2>1. CASE n = 0
    BY <1>2, <2>1 DEF Follows
  <2>2. CASE n \in 1 .. N
    <3>1. n - 1 \in 0 .. N /\ n # 0
      BY <1>1, <2>2
    <3>2. f[n - 1] \in V /\ f[n] = step[n][f[n - 1]]
      BY <1>2, <2>2, <3>1 DEF Follows
    <3> QED
      BY <1>1, <2>2, <3>1, <3>2
  <2> QED
    BY <1>1, <2>1, <2>2
<1>4. Kept(f)
  <2>1. f = [n \in 0 .. N |-> f[n]]
    BY <1>2 DEF Follows
  <2> QED
    BY <1>3, <2>1
<1> DEFINE g == CHOOSE h : Kept(h)
<1>5. Kept(g) /\ Within(s, S) = g[N]
  <2>1. Within(s, S) = g[N]
    BY DEF Within, N
  <2> HIDE DEF Kept
  <2> QED
    BY <1>4, <2>1
<1> HIDE DEF g
<1>6. g[0] = <<>> /\ \A n \in 1 .. N : g[n] = Filtered(g, n)
  <2>1. ASSUME NEW n \in 0 .. N
        PROVE  g[n] = IF n = 0 THEN <<>> ELSE Filtered(g, n)
    BY <1>5
  <2> HIDE DEF Filtered
  <2> QED
    BY <1>1, <2>1
<1> DEFINE T == {n \in 0 .. N : g[n] \in V}
<1>7. \A n \in 0 .. N : n \in T
  <2>1. 0 \in T
    BY <1>1, <1>6
  <2>2. ASSUME NEW n \in 0 .. N - 1, n \in T
        PROVE  n + 1 \in T
    <3>1. n + 1 \in 1 .. N /\ g[n] \in V
      BY <1>1, <2>2
    <3>2. g[n + 1] = step[n + 1][g[n]]
      BY <1>1, <1>6, <3>1
    <3> QED
      BY <1>1, <3>1, <3>2
  <2> HIDE DEF T
  <2>3. \A n \in 0 .. N - 1 : n \in T => n + 1 \in T
    BY <2>2
  <2> QED
    BY <1>1, <2>1, <2>3, UpTo
<1>8. g \in [0 .. N -> V]
  BY <1>5, <1>7
<1> QED
  BY <1>5, <1>6, <1>8 DEF N, V, Filters

\* Filtering nothing.
LEMMA WithinEmpty ==
  ASSUME NEW S
  PROVE  Within(<<>>, S) = <<>>
<1>1. <<>> \in Seq({}) /\ Len(<<>>) = 0
  OBVIOUS
<1>2. PICK f : Filters(f, <<>>, S, {})
  BY <1>1, WithinSteps
<1> QED
  BY <1>1, <1>2 DEF Filters

\* Filtering is continued at the end of a sequence.
LEMMA WithinAppend ==
  ASSUME NEW E, NEW s \in Seq(E), NEW e \in E, NEW S
  PROVE  Within(Append(s, e), S) =
           IF e \in S THEN Append(Within(s, S), e) ELSE Within(s, S)
<1> DEFINE N == Len(s)
           t == Append(s, e)
<1>1. /\ t \in Seq(E)
      /\ Len(t) = N + 1
      /\ t[N + 1] = e
      /\ \A n \in 1 .. N : t[n] = s[n]
      /\ N \in Nat
  OBVIOUS
<1>2. PICK f : Filters(f, s, S, E)
  BY WithinSteps
<1> HIDE DEF t
<1>3. PICK g : Filters(g, t, S, E)
  BY <1>1, WithinSteps
<1> USE DEF Filters
<1> DEFINE T == {n \in 0 .. N : g[n] = f[n]}
<1>4. \A n \in 0 .. N : n \in T
  <2>1. 0 \in T
    BY <1>1, <1>2, <1>3
  <2>2. ASSUME NEW n \in 0 .. N - 1, n \in T
        PROVE  n + 1 \in T
    <3>1. n + 1 \in 1 .. N /\ n + 1 \in 1 .. Len(t) /\ g[n] = f[n] /\ n + 1 - 1 = n
      BY <1>1, <2>2
    <3>2. g[n + 1] = IF t[n + 1] \in S THEN Append(g[n], t[n + 1]) ELSE g[n]
      BY <1>3, <3>1
    <3>3. f[n + 1] = IF s[n + 1] \in S THEN Append(f[n], s[n + 1]) ELSE f[n]
      BY <1>2, <3>1
    <3>4. g[n + 1] = f[n + 1]
      BY <1>1, <3>1, <3>2, <3>3
    <3> QED
      BY <1>1, <3>1, <3>4
  <2> HIDE DEF T
  <2>3. \A n \in 0 .. N - 1 : n \in T => n + 1 \in T
    BY <2>2
  <2> QED
    BY <1>1, <2>1, <2>3, UpTo
<1>5. g[N] = Within(s, S)
  BY <1>1, <1>2, <1>4
<1>6. N + 1 \in 1 .. Len(t) /\ N + 1 - 1 = N
  BY <1>1
<1>7. g[N + 1] = IF e \in S THEN Append(g[N], e) ELSE g[N]
  BY <1>1, <1>3, <1>6
<1> QED
  BY <1>1, <1>3, <1>5, <1>7 DEF t

\* A set of sequences with the empty one and with the extensions of its elements
\* has all of them.
LEMMA SeqSetInduction ==
  ASSUME NEW E, NEW T \in SUBSET Seq(E), <<>> \in T,
         \A q \in T : \A e \in E : Append(q, e) \in T
  PROVE  T = Seq(E)
<1> DEFINE U == {n \in Nat : \A q \in Seq(E) : Len(q) = n => q \in T}
<1>1. U \in SUBSET Nat /\ 0 \in U
  <2>1. \A q \in Seq(E) : Len(q) = 0 => q = <<>>
    BY EmptySeq
  <2> QED
    BY <2>1
<1>2. ASSUME NEW n \in U
      PROVE  n + 1 \in U
  <2>1. ASSUME NEW q \in Seq(E), Len(q) = n + 1
        PROVE  q \in T
    <3>1. q # <<>>
      BY <2>1, EmptySeq
    <3>2. PICK p \in Seq(E), e \in E : q = Append(p, e)
      BY <3>1, SequenceEmptyOrAppend
    <3>3. Len(p) = n
      BY <2>1, <3>2, AppendProperties, LenProperties
    <3> QED
      BY <3>2, <3>3
  <2> QED
    BY <2>1
<1> HIDE DEF U
<1>3. U = Nat
  BY <1>1, <1>2, NatSetInduction
<1>4. \A q \in Seq(E) : Len(q) \in U => q \in T
  BY DEF U
<1>5. \A q \in Seq(E) : Len(q) \in Nat
  BY LenProperties
<1> QED
  BY <1>3, <1>4, <1>5

\* What is kept is a subsequence of those elements that are in the set.
LEMMA WithinType ==
  ASSUME NEW E, NEW s \in Seq(E), NEW S
  PROVE  Within(s, S) \in Seq(E \cap S) /\ Within(s, S) \in Seq(E)
<1> DEFINE T == {q \in Seq(E) : Within(q, S) \in Seq(E \cap S)}
<1>1. Within(<<>>, S) \in Seq(E \cap S)
  BY WithinEmpty, EmptySeq
<1>2. ASSUME NEW q \in Seq(E), Within(q, S) \in Seq(E \cap S), NEW e \in E
      PROVE  Within(Append(q, e), S) \in Seq(E \cap S)
  <2>1. Within(Append(q, e), S) = IF e \in S THEN Append(Within(q, S), e) ELSE Within(q, S)
    BY WithinAppend
  <2>2. e \in S => Append(Within(q, S), e) \in Seq(E \cap S)
    BY <1>2, AppendProperties
  <2> QED
    BY <1>2, <2>1, <2>2
<1>3. \A q \in Seq(E) : \A e \in E : Append(q, e) \in Seq(E)
  BY AppendProperties
<1>4. <<>> \in T /\ \A q \in T : \A e \in E : Append(q, e) \in T
  BY <1>1, <1>2, <1>3, EmptySeq
<1>5. T \in SUBSET Seq(E)
  OBVIOUS
<1> HIDE DEF T
<1>6. T = Seq(E)
  BY <1>4, <1>5, SeqSetInduction
<1>7. Within(s, S) \in Seq(E \cap S)
  BY <1>6 DEF T
<1>8. E \cap S \subseteq E
  OBVIOUS
<1> QED
  BY <1>7, <1>8, SeqMonotonic

\* Filtering twice.
LEMMA WithinWithin ==
  ASSUME NEW E, NEW s \in Seq(E), NEW S, NEW R
  PROVE  Within(Within(s, S), R) = Within(s, S \cap R)
<1> DEFINE T == {q \in Seq(E) : Within(Within(q, S), R) = Within(q, S \cap R)}
<1>1. Within(Within(<<>>, S), R) = Within(<<>>, S \cap R)
  BY WithinEmpty
<1>2. ASSUME NEW q \in Seq(E), Within(Within(q, S), R) = Within(q, S \cap R), NEW e \in E
      PROVE  Within(Within(Append(q, e), S), R) = Within(Append(q, e), S \cap R)
  <2>1. Within(q, S) \in Seq(E)
    BY WithinType
  <2>2. Within(Append(q, e), S) = IF e \in S THEN Append(Within(q, S), e) ELSE Within(q, S)
    BY WithinAppend
  <2>3. Within(Append(q, e), S \cap R) =
          IF e \in S \cap R THEN Append(Within(q, S \cap R), e) ELSE Within(q, S \cap R)
    BY WithinAppend
  <2>4. Within(Append(Within(q, S), e), R) =
          IF e \in R THEN Append(Within(Within(q, S), R), e) ELSE Within(Within(q, S), R)
    BY <2>1, WithinAppend
  <2>5. CASE e \in S
    <3>1. Within(Append(q, e), S) = Append(Within(q, S), e)
      BY <2>2, <2>5
    <3>2. e \in S \cap R <=> e \in R
      BY <2>5
    <3> QED
      BY <1>2, <2>3, <2>4, <3>1, <3>2
  <2>6. CASE e \notin S
    BY <1>2, <2>2, <2>3, <2>6
  <2> QED
    BY <2>5, <2>6
<1>3. \A q \in Seq(E) : \A e \in E : Append(q, e) \in Seq(E)
  BY AppendProperties
<1>4. <<>> \in T /\ \A q \in T : \A e \in E : Append(q, e) \in T
  BY <1>1, <1>2, <1>3, EmptySeq
<1>5. T \in SUBSET Seq(E)
  OBVIOUS
<1> HIDE DEF T
<1>6. T = Seq(E)
  BY <1>4, <1>5, SeqSetInduction
<1> QED
  BY <1>6 DEF T

\* Two sets that agree on E keep the same.
LEMMA WithinSame ==
  ASSUME NEW E, NEW s \in Seq(E), NEW S, NEW R, S \cap E = R \cap E
  PROVE  Within(s, S) = Within(s, R)
<1> DEFINE T == {q \in Seq(E) : Within(q, S) = Within(q, R)}
<1>1. Within(<<>>, S) = Within(<<>>, R)
  BY WithinEmpty
<1>2. ASSUME NEW q \in Seq(E), Within(q, S) = Within(q, R), NEW e \in E
      PROVE  Within(Append(q, e), S) = Within(Append(q, e), R)
  <2>1. e \in S <=> e \in R
    OBVIOUS
  <2>2. Within(Append(q, e), S) = IF e \in S THEN Append(Within(q, S), e) ELSE Within(q, S)
    BY WithinAppend
  <2>3. Within(Append(q, e), R) = IF e \in R THEN Append(Within(q, R), e) ELSE Within(q, R)
    BY WithinAppend
  <2> QED
    BY <1>2, <2>1, <2>2, <2>3
<1>3. \A q \in Seq(E) : \A e \in E : Append(q, e) \in Seq(E)
  BY AppendProperties
<1>4. <<>> \in T /\ \A q \in T : \A e \in E : Append(q, e) \in T
  BY <1>1, <1>2, <1>3, EmptySeq
<1>5. T \in SUBSET Seq(E)
  OBVIOUS
<1> HIDE DEF T
<1>6. T = Seq(E)
  BY <1>4, <1>5, SeqSetInduction
<1> QED
  BY <1>6 DEF T

\* The elements of w stand for ascending places of s, all those with elements of S.
Picks(place, w, s, S) ==
  /\ place \in [1 .. Len(w) -> 1 .. Len(s)]
  /\ \A i \in 1 .. Len(w) : w[i] = s[place[i]] /\ s[place[i]] \in S
  /\ \A i, j \in 1 .. Len(w) : i < j => place[i] < place[j]
  /\ \A n \in 1 .. Len(s) : s[n] \in S => \E i \in 1 .. Len(w) : place[i] = n

LEMMA PicksAppend ==
  ASSUME NEW E, NEW w \in Seq(E), NEW q \in Seq(E), NEW S, NEW f, Picks(f, w, q, S),
         NEW e \in E, NEW t, t = Append(q, e),
         NEW x, x = IF e \in S THEN Append(w, e) ELSE w
  PROVE  \E g : Picks(g, x, t, S)
<1> DEFINE N == Len(q)
           M == Len(w)
<1>1. /\ Len(t) = N + 1 /\ t[N + 1] = e
      /\ \A n \in 1 .. N : t[n] = q[n]
      /\ N \in Nat /\ M \in Nat
  BY AppendProperties, LenProperties
<1>2. /\ f \in [1 .. M -> 1 .. N]
      /\ \A i \in 1 .. M : w[i] = q[f[i]] /\ q[f[i]] \in S
      /\ \A i, j \in 1 .. M : i < j => f[i] < f[j]
      /\ \A n \in 1 .. N : q[n] \in S => \E i \in 1 .. M : f[i] = n
  BY DEF Picks
<1>3. CASE e \notin S
  <2>1. x = w
    BY <1>3
  <2> HIDE DEF N, M
  <2>2. f \in [1 .. M -> 1 .. N + 1]
    BY <1>1, <1>2
  <2>3. \A i \in 1 .. M : w[i] = t[f[i]] /\ t[f[i]] \in S
    BY <1>1, <1>2
  <2>4. \A n \in 1 .. N + 1 : t[n] \in S => \E i \in 1 .. M : f[i] = n
    BY <1>1, <1>2, <1>3
  <2>5. Picks(f, x, t, S)
    BY <1>1, <1>2, <2>1, <2>2, <2>3, <2>4 DEF Picks, M
  <2> QED
    BY <2>5
<1>4. CASE e \in S
  <2> DEFINE g == [i \in 1 .. M + 1 |-> IF i = M + 1 THEN N + 1 ELSE f[i]]
  <2>1. /\ Len(x) = M + 1 /\ x[M + 1] = e
        /\ \A i \in 1 .. M : x[i] = w[i]
    <3>1. x = Append(w, e)
      BY <1>4
    <3> QED
      BY <3>1, AppendProperties
  <2> HIDE DEF N, M
  <2>2. g \in [1 .. M + 1 -> 1 .. N + 1] /\ g[M + 1] = N + 1
    BY <1>1, <1>2
  <2>3. \A i \in 1 .. M : g[i] = f[i] /\ f[i] \in 1 .. N
    BY <1>1, <1>2
  <2>4. \A i \in 1 .. M + 1 : i \in 1 .. M \/ i = M + 1
    BY <1>1
  <2> HIDE DEF g
  <2>5. \A i \in 1 .. M + 1 : x[i] = t[g[i]] /\ t[g[i]] \in S
    <3>1. ASSUME NEW i \in 1 .. M
          PROVE  x[i] = t[g[i]] /\ t[g[i]] \in S
      BY <1>1, <1>2, <2>1, <2>3
    <3>2. x[M + 1] = t[g[M + 1]] /\ t[g[M + 1]] \in S
      BY <1>1, <1>4, <2>1, <2>2
    <3> QED
      BY <2>4, <3>1, <3>2
  <2>6. ASSUME NEW i \in 1 .. M + 1, NEW j \in 1 .. M + 1, i < j
        PROVE  g[i] < g[j]
    <3>1. i \in 1 .. M
      BY <1>1, <2>6
    <3>2. CASE j \in 1 .. M
      BY <1>2, <2>3, <2>6, <3>1, <3>2
    <3>3. CASE j = M + 1
      <4>1. g[i] \in 1 .. N /\ g[j] = N + 1
        BY <2>2, <2>3, <3>1, <3>3
      <4> QED
        BY <1>1, <4>1
    <3> QED
      BY <2>4, <3>2, <3>3
  <2>7. ASSUME NEW n \in 1 .. N + 1, t[n] \in S
        PROVE  \E i \in 1 .. M + 1 : g[i] = n
    <3>1. CASE n \in 1 .. N
      <4>1. PICK i \in 1 .. M : f[i] = n
        BY <1>1, <1>2, <2>7, <3>1
      <4>2. i \in 1 .. M + 1 /\ g[i] = n
        BY <1>1, <2>3, <4>1
      <4> QED
        BY <4>2
    <3>2. CASE n = N + 1
      BY <1>1, <2>2, <3>2
    <3> QED
      BY <1>1, <3>1, <3>2
  <2>8. Picks(g, x, t, S)
    BY <1>1, <2>1, <2>2, <2>5, <2>6, <2>7 DEF Picks
  <2> QED
    BY <2>8
<1> QED
  BY <1>3, <1>4

\* The elements that are kept, and their order.
LEMMA WithinPicks ==
  ASSUME NEW E, NEW s \in Seq(E), NEW S
  PROVE  \E place : Picks(place, Within(s, S), s, S)
<1> DEFINE T == {q \in Seq(E) : \E f : Picks(f, Within(q, S), q, S)}
<1>1. \E f : Picks(f, Within(<<>>, S), <<>>, S)
  <2>1. Within(<<>>, S) = <<>> /\ Len(<<>>) = 0
    BY WithinEmpty, EmptySeq
  <2>2. Picks([i \in {} |-> 0], <<>>, <<>>, S)
    BY <2>1 DEF Picks
  <2> QED
    BY <2>1, <2>2
<1>2. ASSUME NEW q \in Seq(E), NEW f, Picks(f, Within(q, S), q, S), NEW e \in E
      PROVE  \E g : Picks(g, Within(Append(q, e), S), Append(q, e), S)
  <2>1. Within(q, S) \in Seq(E)
    BY WithinType
  <2>2. Within(Append(q, e), S) = IF e \in S THEN Append(Within(q, S), e) ELSE Within(q, S)
    BY WithinAppend
  <2> QED
    BY <1>2, <2>1, <2>2, PicksAppend
<1>3. \A q \in Seq(E) : \A e \in E : Append(q, e) \in Seq(E)
  BY AppendProperties
<1>4. <<>> \in T /\ \A q \in T : \A e \in E : Append(q, e) \in T
  BY <1>1, <1>2, <1>3, EmptySeq
<1>5. T \in SUBSET Seq(E)
  OBVIOUS
<1> HIDE DEF T
<1>6. T = Seq(E)
  BY <1>4, <1>5, SeqSetInduction
<1> QED
  BY <1>6 DEF T

=============================================================================
