---------------------------- MODULE PassesProofs ----------------------------
(***************************************************************************)
(* The passes over every program: inferGuards does not depend on the order *)
(* of a map, the search for concurrent functions is exact, and no report   *)
(* is without a cause.                                                     *)
(***************************************************************************)
EXTENDS Passes, PropagationProofs, StackLemmas

-----------------------------------------------------------------------------
(* pickMostFrequentMutex *)

\* i is the best of the members of S: the highest count, and of those the least index.
IsBest(count, i, S) ==
    /\ i \in S
    /\ \A j \in S : count[j] < count[i] \/ (count[j] = count[i] /\ i <= j)

\* An order visits every member.
LEMMA OrderTypes ==
    ASSUME NEW S, IsFiniteSet(S), NEW order \in Orders(S)
    PROVE  /\ Cardinality(S) \in Nat
           /\ order \in [1..Cardinality(S) -> S]
           /\ \A x \in S : \E i \in 1..Cardinality(S) : order[i] = x
<1>1. Cardinality(S) \in Nat
  BY FS_CardinalityType
<1>2. order \in [1..Cardinality(S) -> S] /\ \A i, j \in 1..Cardinality(S) : order[i] = order[j] => i = j
  BY DEF Orders
<1>3. order \in Injection(1..Cardinality(S), S)
  BY <1>2 DEF Injection, IsInjective
<1>4. Cardinality(1..Cardinality(S)) = Cardinality(S)
  BY <1>1, FS_Interval
<1>5. order \in Surjection(1..Cardinality(S), S)
  BY <1>3, <1>4, FS_Injection
<1> QED
  BY <1>1, <1>2, <1>5 DEF Surjection

\* There is an order.
LEMMA OrderExists ==
    ASSUME NEW S, IsFiniteSet(S)
    PROVE  Orders(S) # {}
<1>1. Cardinality(S) \in Nat /\ ExistsBijection(1..Cardinality(S), S)
  BY FS_CardinalityType
<1>2. PICK q : q \in Bijection(1..Cardinality(S), S)
  BY <1>1 DEF ExistsBijection
<1>3. q \in [1..Cardinality(S) -> S] /\ \A i, j \in 1..Cardinality(S) : q[i] = q[j] => i = j
  BY <1>2 DEF Bijection, Injection, IsInjective
<1>4. q \in Orders(S)
  BY <1>3 DEF Orders
<1> QED
  BY <1>4

\* The rounds of a range over the counts, one function for all of them.
Rounds(best, count, order, n) ==
    best = [m \in 0..n |-> IF m = 0 THEN -1 ELSE Better(count, best[m - 1], order[m])]

LEMMA RoundsExist ==
    ASSUME NEW count, NEW order, NEW n \in Nat
    PROVE  \E best : Rounds(best, count, order, n)
<1> DEFINE Good(m) == \E best : Rounds(best, count, order, m)
<1> DEFINE Bad == {m \in Nat : ~Good(m)}
<1>1. Good(0)
  <2>1. \A d \in 0..0 : d = 0
    OBVIOUS
  <2> DEFINE g == [d \in 0..0 |-> -1]
  <2>2. g = [d \in 0..0 |-> IF d = 0 THEN -1 ELSE Better(count, g[d - 1], order[d])]
    BY <2>1
  <2> QED
    BY <2>2 DEF Rounds
<1>2. ASSUME NEW m \in Nat, Good(m) PROVE Good(m + 1)
  <2>1. PICK g : g = [d \in 0..m |-> IF d = 0 THEN -1 ELSE Better(count, g[d - 1], order[d])]
    BY <1>2 DEF Rounds
  <2> DEFINE h == [d \in 0..(m + 1) |-> IF d = m + 1 THEN Better(count, g[m], order[m + 1]) ELSE g[d]]
  <2>2. ASSUME NEW d \in 0..(m + 1) PROVE h[d] = IF d = 0 THEN -1 ELSE Better(count, h[d - 1], order[d])
    <3>1. CASE d = m + 1
      <4>1. d # 0 /\ d - 1 = m /\ m \in 0..(m + 1) /\ m # m + 1
        BY <3>1
      <4> QED
        BY <3>1, <4>1
    <3>2. CASE d # m + 1 /\ d = 0
      <4>1. 0 \in 0..m
        OBVIOUS
      <4>2. g[0] = -1
        BY <2>1, <4>1
      <4> QED
        BY <3>2, <4>2
    <3>3. CASE d # m + 1 /\ d # 0
      <4>1. d \in 0..m /\ d - 1 \in 0..(m + 1) /\ d - 1 # m + 1
        BY <3>3
      <4>2. h[d] = g[d] /\ h[d - 1] = g[d - 1]
        BY <3>3, <4>1
      <4>3. g[d] = Better(count, g[d - 1], order[d])
        BY <2>1, <3>3, <4>1
      <4> QED
        BY <3>3, <4>2, <4>3
    <3> QED
      BY <3>1, <3>2, <3>3
  <2>3. h = [d \in 0..(m + 1) |-> h[d]]
    OBVIOUS
  <2> HIDE DEF h
  <2>4. h = [d \in 0..(m + 1) |-> IF d = 0 THEN -1 ELSE Better(count, h[d - 1], order[d])]
    BY <2>2, <2>3
  <2> QED
    BY <2>4 DEF Rounds
<1> HIDE DEF Good
<1>3. Bad = {}
  <2> SUFFICES ASSUME Bad # {} PROVE FALSE
    OBVIOUS
  <2>1. Bad \in SUBSET Nat
    OBVIOUS
  <2>2. PICK m \in Bad : \A j \in Bad : m <= j
    BY <2>1, LeastNatural
  <2>3. m # 0 /\ m - 1 \in Nat /\ ~(m <= m - 1)
    BY <1>1
  <2>4. Good(m - 1)
    BY <2>2, <2>3
  <2>5. Good((m - 1) + 1) /\ (m - 1) + 1 = m
    BY <1>2, <2>3, <2>4
  <2> QED
    BY <2>5
<1> QED
  BY <1>3 DEF Good

\* One round keeps the best of what was visited: nothing yet, or the members of S.
LEMMA BetterIsBest ==
    ASSUME NEW S \in SUBSET Nat, NEW count, \A j \in S : count[j] \in Nat,
           NEW V \in SUBSET S, NEW b, NEW i \in S,
           V = {} => b = -1, V # {} => IsBest(count, b, V)
    PROVE  IsBest(count, Better(count, b, i), V \cup {i})
<1>1. CASE V = {}
  <2>1. Better(count, b, i) = i
    BY <1>1 DEF Better
  <2> QED
    BY <1>1, <2>1 DEF IsBest
<1>2. CASE V # {}
  <2>1. b \in V /\ b \in Nat /\ i \in Nat /\ count[b] \in Nat /\ count[i] \in Nat /\ b # -1
    <3>1. b \in V
      BY <1>2 DEF IsBest
    <3>2. b \in S /\ S \subseteq Nat
      BY <3>1
    <3>3. b \in Nat /\ i \in Nat
      BY <3>2
    <3> QED
      BY <3>1, <3>2, <3>3
  <2>2. \A j \in V : j \in Nat /\ count[j] \in Nat /\ (count[j] < count[b] \/ (count[j] = count[b] /\ b <= j))
    BY <1>2 DEF IsBest
  <2>3. CASE count[i] > count[b] \/ (count[i] = count[b] /\ i < b)
    <3>1. Better(count, b, i) = i
      BY <2>1, <2>3 DEF Better
    <3>2. \A j \in V : count[j] < count[i] \/ (count[j] = count[i] /\ i <= j)
      BY <2>1, <2>2, <2>3
    <3> QED
      BY <2>1, <3>1, <3>2 DEF IsBest
  <2>4. CASE ~(count[i] > count[b] \/ (count[i] = count[b] /\ i < b))
    <3>1. Better(count, b, i) = b
      BY <2>1, <2>4 DEF Better
    <3>2. count[i] < count[b] \/ (count[i] = count[b] /\ b <= i)
      BY <2>1, <2>4
    <3> QED
      BY <2>1, <2>2, <3>1, <3>2 DEF IsBest
  <2> QED
    BY <2>3, <2>4
<1> QED
  BY <1>1, <1>2

\* Whatever the order, the range ends with the best of all, or with -1 if there is none.
LEMMA BestOfIsBest ==
    ASSUME NEW S \in SUBSET Nat, IsFiniteSet(S), NEW count \in [S -> Nat], NEW order \in Orders(S)
    PROVE  IF S = {} THEN BestOf(count, order) = -1 ELSE IsBest(count, BestOf(count, order), S)
<1> DEFINE N == Cardinality(S)
<1>1. /\ N \in Nat
      /\ order \in [1..N -> S]
      /\ \A x \in S : \E i \in 1..N : order[i] = x
  BY OrderTypes
<1> DEFINE best[n \in 0..Cardinality(DOMAIN count)] ==
             IF n = 0 THEN -1 ELSE Better(count, best[n - 1], order[n])
<1>2. BestOf(count, order) = best[Cardinality(DOMAIN count)]
  BY DEF BestOf
<1>3. Cardinality(DOMAIN count) = N
  OBVIOUS
<1>4. \E g : Rounds(g, count, order, N)
  BY <1>1, RoundsExist
<1>5. Rounds(best, count, order, N)
  BY <1>3, <1>4 DEF Rounds
<1> HIDE DEF best, N
<1>6. /\ best[0] = -1
      /\ \A m \in 1..N : best[m] = Better(count, best[m - 1], order[m])
  <2>1. 0 \in 0..N /\ \A m \in 1..N : m \in 0..N /\ m # 0
    BY <1>1
  <2> QED
    BY <1>5, <2>1 DEF Rounds
<1> DEFINE V(m) == {order[i] : i \in 1..m}
<1> DEFINE Good(m) == m > 0 => IsBest(count, best[m], V(m))
<1> DEFINE Bad == {m \in 0..N : ~Good(m)}
<1>7. ASSUME NEW m \in 1..N, Good(m - 1) PROVE Good(m)
  <2>1. V(m - 1) \in SUBSET S /\ order[m] \in S /\ V(m) = V(m - 1) \cup {order[m]}
    <3>1. \A i \in 1..m : i \in 1..N /\ (i = m \/ i \in 1..(m - 1))
      BY <1>1
    <3>2. m \in 1..m /\ \A i \in 1..(m - 1) : i \in 1..m
      BY <1>1
    <3> QED
      BY <1>1, <3>1, <3>2
  <2>2. V(m - 1) = {} => m = 1
    <3>1. m # 1 => 1 \in 1..(m - 1)
      BY <1>1
    <3> QED
      BY <3>1
  <2>3. V(m - 1) = {} => best[m - 1] = -1
    BY <1>6, <2>2
  <2>4. V(m - 1) # {} => IsBest(count, best[m - 1], V(m - 1))
    <3>1. m = 1 => V(m - 1) = {}
      OBVIOUS
    <3>2. m # 1 => m - 1 > 0
      BY <1>1
    <3> QED
      BY <1>7, <3>1, <3>2
  <2> HIDE DEF V
  <2>5. \A j \in S : count[j] \in Nat
    OBVIOUS
  <2>6. IsBest(count, Better(count, best[m - 1], order[m]), V(m - 1) \cup {order[m]})
    BY <2>1, <2>3, <2>4, <2>5, BetterIsBest
  <2>7. best[m] = Better(count, best[m - 1], order[m])
    BY <1>6
  <2> QED
    BY <2>1, <2>6, <2>7
<1>8. Good(0)
  OBVIOUS
<1> HIDE DEF Good
<1>9. Bad = {}
  <2> SUFFICES ASSUME Bad # {} PROVE FALSE
    OBVIOUS
  <2>1. Bad \in SUBSET Nat
    BY <1>1
  <2>2. PICK m \in Bad : \A j \in Bad : m <= j
    BY <2>1, LeastNatural
  <2>3. m \in 1..N /\ m - 1 \in 0..N /\ ~(m <= m - 1)
    BY <1>1, <1>8
  <2>4. Good(m - 1)
    BY <2>2, <2>3
  <2> QED
    BY <1>7, <2>3, <2>4
<1>10. N \in 0..N
  BY <1>1
<1>11. Good(N)
  BY <1>9, <1>10
<1>12. CASE S = {}
  <2>1. N = 0
    BY <1>12, FS_EmptySet DEF N
  <2> QED
    BY <1>2, <1>3, <1>6, <1>12, <2>1
<1>13. CASE S # {}
  <2>1. N > 0
    <3>1. PICK x \in S : TRUE
      BY <1>13
    <3>2. PICK i \in 1..N : order[i] = x
      BY <1>1
    <3> QED
      BY <1>1, <3>2
  <2>2. V(N) = S
    BY <1>1
  <2> QED
    BY <1>2, <1>3, <1>11, <1>13, <2>1, <2>2 DEF Good
<1> QED
  BY <1>12, <1>13

LEMMA ImageFinite ==
    ASSUME NEW S, IsFiniteSet(S), NEW g, DOMAIN g = S
    PROVE  IsFiniteSet({g[x] : x \in S})
<1> DEFINE T == {g[x] : x \in S}
<1> DEFINE h == [x \in S |-> g[x]]
<1>1. h \in Surjection(S, T)
  <2>1. h \in [S -> T]
    OBVIOUS
  <2>2. \A t \in T : \E x \in S : h[x] = t
    OBVIOUS
  <2> HIDE DEF T, h
  <2> QED
    BY <2>1, <2>2 DEF Surjection
<1> HIDE DEF T
<1> QED
  BY <1>1, FS_Surjection DEF T

\* Observations that can be counted.
Countable(obs) ==
    IsFiniteSet(obs) /\ \A o \in obs : IsFiniteSet(o.held) /\ \A h \in o.held : h[1] \in Nat

LEMMA CountedTypes ==
    ASSUME NEW self, NEW obs, Countable(obs), NEW w \in BOOLEAN
    PROVE  /\ Counted(self, obs, w) \in SUBSET Nat
           /\ IsFiniteSet(Counted(self, obs, w))
           /\ \A i : Cardinality(Holding(obs, w, i)) \in Nat
<1> DEFINE X == {x \in obs : ~(w /\ x.isRead)}
<1> DEFINE I(o) == {h[1] : h \in o.held}
<1>1. IsFiniteSet(X)
  BY FS_Subset DEF Countable
<1>2. \A o \in X : I(o) \subseteq Nat /\ IsFiniteSet(I(o))
  <2> SUFFICES ASSUME NEW o \in X PROVE I(o) \subseteq Nat /\ IsFiniteSet(I(o))
    OBVIOUS
  <2>1. IsFiniteSet(o.held) /\ \A h \in o.held : h[1] \in Nat
    BY DEF Countable
  <2> DEFINE g == [h \in o.held |-> h[1]]
  <2>2. DOMAIN g = o.held /\ I(o) = {g[h] : h \in o.held}
    OBVIOUS
  <2> HIDE DEF g
  <2>3. IsFiniteSet({g[h] : h \in o.held})
    BY <2>1, <2>2, ImageFinite
  <2> QED
    BY <2>1, <2>2, <2>3
<1>3. IsFiniteSet(UNION {I(o) : o \in X})
  <2> DEFINE g == [o \in X |-> I(o)]
  <2>1. DOMAIN g = X /\ {I(o) : o \in X} = {g[o] : o \in X}
    OBVIOUS
  <2> HIDE DEF g
  <2>2. IsFiniteSet({g[o] : o \in X})
    BY <1>1, <2>1, ImageFinite
  <2>3. \A T \in {I(o) : o \in X} : IsFiniteSet(T)
    BY <1>2
  <2> QED
    BY <2>1, <2>2, <2>3, FS_UNION
<1>4. Counted(self, obs, w) = (UNION {I(o) : o \in X}) \ {self}
  BY DEF Counted
<1> HIDE DEF X, I
<1>5. IsFiniteSet(Counted(self, obs, w))
  BY <1>3, <1>4, FS_Subset
<1>6. Counted(self, obs, w) \in SUBSET Nat
  BY <1>2, <1>4
<1>7. \A i : Cardinality(Holding(obs, w, i)) \in Nat
  <2> SUFFICES ASSUME NEW i PROVE Cardinality(Holding(obs, w, i)) \in Nat
    OBVIOUS
  <2>1. Holding(obs, w, i) \in SUBSET obs
    BY DEF Holding
  <2>2. IsFiniteSet(Holding(obs, w, i))
    BY <2>1, FS_Subset DEF Countable
  <2> QED
    BY <2>2, FS_CardinalityType
<1> QED
  BY <1>5, <1>6, <1>7

\* Mutex i is held at more of the observations than any other, or at as many as others
\* with greater indexes.
Most(self, obs, w, i) ==
    /\ i \in Counted(self, obs, w)
    /\ \A j \in Counted(self, obs, w) :
         \/ Cardinality(Holding(obs, w, j)) < Cardinality(Holding(obs, w, i))
         \/ Cardinality(Holding(obs, w, j)) = Cardinality(Holding(obs, w, i)) /\ i <= j

\* pickMostFrequentMutex has a result, and it is the same for all orders of the map.
LEMMA PickResult ==
    ASSUME NEW self, NEW obs, Countable(obs), NEW w \in BOOLEAN
    PROVE  /\ pickMostFrequentMutex(self, obs, w) # {}
           /\ \A b \in pickMostFrequentMutex(self, obs, w) :
                IF Counted(self, obs, w) = {} THEN b = -1 ELSE Most(self, obs, w, b)
<1> DEFINE S == Counted(self, obs, w)
<1> DEFINE count == [i \in S |-> Cardinality(Holding(obs, w, i))]
<1>1. S \in SUBSET Nat /\ IsFiniteSet(S) /\ count \in [S -> Nat] /\ DOMAIN count = S
  BY CountedTypes
<1>2. pickMostFrequentMutex(self, obs, w) = {BestOf(count, order) : order \in Orders(S)}
  BY DEF pickMostFrequentMutex
<1>3. Orders(S) # {}
  BY <1>1, OrderExists
<1>4. ASSUME NEW order \in Orders(S)
      PROVE  IF S = {} THEN BestOf(count, order) = -1 ELSE Most(self, obs, w, BestOf(count, order))
  <2> DEFINE b == BestOf(count, order)
  <2>1. IF S = {} THEN b = -1 ELSE IsBest(count, b, S)
    <3> HIDE DEF S, count
    <3> QED
      BY <1>1, BestOfIsBest
  <2> HIDE DEF b
  <2>2. ASSUME IsBest(count, b, S) PROVE Most(self, obs, w, b)
    BY <2>2 DEF Most, IsBest
  <2>3. IF S = {} THEN b = -1 ELSE Most(self, obs, w, b)
    BY <2>1, <2>2
  <2> QED
    BY <2>3 DEF b
<1> HIDE DEF count
<1> QED
  BY <1>2, <1>3, <1>4

\* What inferGuards gives a field: a guard that prevails, none only if the field is not
\* written or no mutex is held at its accesses.
LEMMA GuardChoicesExact ==
    ASSUME NEW self, NEW observations, Countable(observations)
    PROVE  /\ \A g \in GuardChoices(self, observations) :
                /\ \E o \in NonConstructor(observations) : ~o.isRead
                /\ Prevails(self, NonConstructor(observations), g.mutexFieldIndex)
           /\ GuardChoices(self, observations) = {} =>
                \/ \A o \in NonConstructor(observations) : o.isRead
                \/ Counted(self, NonConstructor(observations), FALSE) = {}
<1> DEFINE obs == NonConstructor(observations)
<1>1. Countable(obs)
  BY FS_Subset DEF Countable, NonConstructor
<1> HIDE DEF obs
<1> DEFINE W == Counted(self, obs, TRUE)
<1> DEFINE A == Counted(self, obs, FALSE)
<1>2. W \in SUBSET Nat /\ A \in SUBSET Nat /\ -1 \notin W /\ -1 \notin A
  <2>1. W \in SUBSET Nat /\ A \in SUBSET Nat
    BY <1>1, CountedTypes
  <2>2. -1 \notin Nat
    OBVIOUS
  <2> QED
    BY <2>1, <2>2
<1> DEFINE pickW == pickMostFrequentMutex(self, obs, TRUE)
<1> DEFINE pickA == pickMostFrequentMutex(self, obs, FALSE)
<1>3. /\ pickW # {} /\ \A b \in pickW : IF W = {} THEN b = -1 ELSE Most(self, obs, TRUE, b)
      /\ pickA # {} /\ \A b \in pickA : IF A = {} THEN b = -1 ELSE Most(self, obs, FALSE, b)
  BY <1>1, PickResult
<1>4. \A w \in BOOLEAN : \A b : Most(self, obs, w, b) => b \in Counted(self, obs, w)
  BY DEF Most
<1>5. GuardIndexes(self, obs) = UNION {IF best = -1 THEN pickA ELSE {best} : best \in pickW}
  BY DEF GuardIndexes
<1> HIDE DEF pickW, pickA
<1>6. ASSUME NEW i \in GuardIndexes(self, obs), i # -1 PROVE Prevails(self, obs, i)
  <2>1. CASE W # {}
    <3>1. \A b \in pickW : Most(self, obs, TRUE, b) /\ b # -1
      BY <1>2, <1>3, <1>4, <2>1
    <3>2. Most(self, obs, TRUE, i)
      BY <1>5, <1>6, <3>1
    <3> QED
      BY <2>1, <3>2 DEF Most, Prevails
  <2>2. CASE W = {}
    <3>1. i \in pickA
      BY <1>3, <1>5, <1>6, <2>2
    <3>2. Most(self, obs, FALSE, i)
      BY <1>3, <1>6, <3>1
    <3> QED
      BY <2>2, <3>2 DEF Most, Prevails
  <2> QED
    BY <2>1, <2>2
<1>7. ASSUME A # {} PROVE \E i \in GuardIndexes(self, obs) : i # -1
  <2>1. CASE W # {}
    <3>1. PICK b \in pickW : Most(self, obs, TRUE, b) /\ b # -1
      BY <1>2, <1>3, <1>4, <2>1
    <3> QED
      BY <1>5, <3>1
  <2>2. CASE W = {}
    <3>1. PICK b \in pickW : b = -1
      BY <1>3, <2>2
    <3>2. PICK i \in pickA : i # -1
      BY <1>2, <1>3, <1>4, <1>7
    <3> QED
      BY <1>5, <3>1, <3>2
  <2> QED
    BY <2>1, <2>2
<1>8. /\ \A g \in inferFieldGuard(self, obs) : g.mutexFieldIndex \in GuardIndexes(self, obs) \ {-1}
      /\ (\E i \in GuardIndexes(self, obs) : i # -1) => inferFieldGuard(self, obs) # {}
  <2> DEFINE J == GuardIndexes(self, obs) \ {-1}
  <2>1. inferFieldGuard(self, obs) = {[mutexFieldIndex |-> i, needsExclusive |-> Holding(obs, TRUE, i) # {}] : i \in J}
    BY DEF inferFieldGuard
  <2> HIDE DEF J
  <2>2. ASSUME NEW g \in inferFieldGuard(self, obs) PROVE g.mutexFieldIndex \in J
    <3>1. PICK i \in J : g = [mutexFieldIndex |-> i, needsExclusive |-> Holding(obs, TRUE, i) # {}]
      BY <2>1
    <3>2. PICK b : b = (Holding(obs, TRUE, i) # {})
      OBVIOUS
    <3>3. g = [mutexFieldIndex |-> i, needsExclusive |-> b]
      BY <3>1, <3>2, Zenon
    <3> QED
      BY <3>3
  <2> QED
    BY <2>1, <2>2 DEF J
<1>9. GuardChoices(self, observations) = IF obs = {} \/ isImmutableField(obs) THEN {} ELSE inferFieldGuard(self, obs)
  BY DEF GuardChoices, obs
<1> HIDE DEF A
<1>10. /\ \A g \in GuardChoices(self, observations) :
                /\ \E o \in obs : ~o.isRead
                /\ Prevails(self, obs, g.mutexFieldIndex)
       /\ GuardChoices(self, observations) = {} =>
                \/ \A o \in obs : o.isRead
                \/ A = {}
  BY <1>6, <1>7, <1>8, <1>9 DEF isImmutableField
<1> QED
  BY <1>10 DEF obs, A

-----------------------------------------------------------------------------
(* What is known of a pass at any time. *)

\* The guards in map g are mutexes of the field's struct.
Keyed(g) ==
    /\ DOMAIN g \subseteq Fields
    /\ \A f \in DOMAIN g : [type |-> f.type, index |-> g[f].mutexFieldIndex] \in MutexKeys

Facts == [requires : SUBSET MutexKeys, acquires : SUBSET MutexKeys, acquiresTransitive : SUBSET MutexKeys]

DriverTypes ==
    /\ prog \in Programs /\ current \in DOMAIN prog
    /\ phase \in {"import", "infer", "propagate", "search", "violations", "calls", "reported", "export", "end"}
    /\ todo \subseteq Fields /\ Keyed(guards) /\ Keyed(guardFacts)
    /\ funcFacts \in [Funcs -> Facts]
    /\ concurrentFacts \subseteq Funcs /\ annotations.concurrent \subseteq Funcs

NotSearched == queue = <<>> /\ head = 1 /\ edge = 1 /\ reachable = {} /\ ~fallback

SearchTypes ==
    /\ entrypoints \subseteq Funcs /\ reachable \subseteq Funcs
    /\ queue \in Seq(Funcs) /\ head \in 1..(Len(queue) + 1) /\ edge \in 1..(Len(pkg.sites) + 1)
    /\ phase = "propagate" => NotSearched

LEMMA SourceTypes ==
    ASSUME DriverTypes
    PROVE  /\ current \in Nat /\ current >= 1 /\ current <= Len(prog) /\ Len(prog) \in Nat /\ prog \in Seq(Sources)
           /\ Src \in Sources /\ Recorded(Src)
           /\ CallSites(Src) \subseteq Sites /\ Callees \subseteq Funcs /\ ImportedCallees \subseteq Callees
           /\ Src.observations \subseteq Observations /\ ObservedFields \subseteq Fields
<1>1. prog \in Seq(Sources) /\ WellOrdered(prog) /\ current \in DOMAIN prog
  BY PassesAssumption DEF DriverTypes
<1>2. current \in Nat /\ current >= 1 /\ current <= Len(prog) /\ Len(prog) \in Nat
  BY <1>1
<1>3. Src \in Sources /\ Recorded(Src)
  BY <1>1 DEF Src, WellOrdered
<1>4. /\ Src.sites \in Seq(Sites) /\ Src.observations \subseteq Observations
  BY <1>3 DEF Sources
<1>5. CallSites(Src) \subseteq Sites
  BY <1>4 DEF CallSites
<1>6. Callees \subseteq Funcs /\ ImportedCallees \subseteq Callees
  BY <1>5 DEF Callees, ImportedCallees, Sites
<1>7. ObservedFields \subseteq Fields
  BY <1>4 DEF ObservedFields, Observations
<1> QED
  BY <1>1, <1>2, <1>3, <1>4, <1>5, <1>6, <1>7

\* The observations of a field can be counted, and the mutexes held at them are of its struct.
LEMMA ObservationTypes ==
    ASSUME DriverTypes, NEW field
    PROVE  /\ Countable(ObservationsOf(field))
           /\ \A i : Prevails(field.index, NonConstructor(ObservationsOf(field)), i) =>
                [type |-> field.type, index |-> i] \in MutexKeys
<1>1. Src \in Sources /\ Recorded(Src) /\ Src.observations \subseteq Observations
  BY SourceTypes
<1>2. /\ IsFiniteSet(Src.observations)
      /\ \A o \in Src.observations :
           IsFiniteSet(o.held) /\ \A h \in o.held : [type |-> o.field.type, index |-> h[1]] \in MutexKeys
  BY <1>1 DEF Recorded
<1>3. \A o \in Src.observations : \A h \in o.held : h[1] \in Nat
  BY <1>1 DEF Observations
<1>4. ObservationsOf(field) \in SUBSET Src.observations
  BY DEF ObservationsOf
<1>5. Countable(ObservationsOf(field))
  BY <1>2, <1>3, <1>4, FS_Subset DEF Countable
<1>6. ASSUME NEW i, Prevails(field.index, NonConstructor(ObservationsOf(field)), i)
      PROVE  [type |-> field.type, index |-> i] \in MutexKeys
  <2>1. PICK w : i \in Counted(field.index, NonConstructor(ObservationsOf(field)), w)
    BY <1>6 DEF Prevails
  <2>2. PICK o \in NonConstructor(ObservationsOf(field)) : \E h \in o.held : h[1] = i
    BY <2>1 DEF Counted
  <2>3. o \in Src.observations /\ o.field = field
    BY DEF NonConstructor, ObservationsOf
  <2> QED
    BY <1>2, <2>2, <2>3
<1> QED
  BY <1>5, <1>6

\* inferGuards gives guards that are mutexes of the field's struct.
LEMMA ChoiceKeyed ==
    ASSUME DriverTypes, NEW field, NEW g \in GuardChoices(field.index, ObservationsOf(field))
    PROVE  [type |-> field.type, index |-> g.mutexFieldIndex] \in MutexKeys
BY ObservationTypes, GuardChoicesExact

LEMMA DirectiveTypes ==
    ASSUME NEW decls \in Seq(Declarations), NEW comments, NEW kind
    PROVE  Marked(decls, comments, kind) \subseteq Funcs
<1>1. \A c : findFuncForComment(decls, c) \subseteq Funcs
  <2>1. \A i \in DOMAIN decls : decls[i].fn \in Funcs
    <3>1. \A i \in DOMAIN decls : decls[i] \in Declarations
      OBVIOUS
    <3> QED
      BY <3>1 DEF Declarations
  <2> QED
    BY <2>1 DEF findFuncForComment
<1> QED
  BY <1>1 DEF Marked

\* What inferGuards hands over is an input that Propagation allows.
LEMMA PassInputTypes ==
    ASSUME DriverTypes
    PROVE  PassInput \in Inputs /\ detectConcurrentEntrypoints \subseteq Funcs
<1>1. /\ Src \in Sources /\ Recorded(Src) /\ Src.observations \subseteq Observations
      /\ ImportedCallees \subseteq Funcs
  BY SourceTypes
<1>2. /\ Src.sites \in Seq(Sites) /\ Src.touched \subseteq Funcs /\ Src.acquires \in LockSets
      /\ Src.serveHTTP \subseteq Funcs /\ Src.goTargets \subseteq Funcs /\ Src.handlers \subseteq Funcs
  BY <1>1 DEF Sources
<1>3. \A f \in Funcs : /\ funcFacts[f].requires \subseteq MutexKeys
                       /\ funcFacts[f].acquires \subseteq MutexKeys
                       /\ funcFacts[f].acquiresTransitive \subseteq MutexKeys
  BY DEF DriverTypes, Facts
<1>4. \A f \in Funcs : /\ Known(f, "requires") \subseteq funcFacts[f].requires
                       /\ Known(f, "acquires") \subseteq funcFacts[f].acquires
                       /\ Known(f, "acquiresTransitive") \subseteq funcFacts[f].acquiresTransitive
                       /\ f \notin ImportedCallees =>
                            Known(f, "requires") = {} /\ Known(f, "acquires") = {} /\ Known(f, "acquiresTransitive") = {}
                       /\ ~HasFact(f) =>
                            /\ funcFacts[f].requires = {} /\ funcFacts[f].acquires = {}
                            /\ funcFacts[f].acquiresTransitive = {}
  BY DEF Known, HasFact
<1>5. PassInput.accesses \subseteq Accesses
  <2> SUFFICES ASSUME NEW o \in Src.observations, o.field \in DOMAIN guards PROVE AccessOf(o) \in Accesses
    BY DEF PassInput
  <2>1. o.fn \in Funcs /\ o.pos \in Nat /\ o.isRead \in BOOLEAN /\ o.constructor \in BOOLEAN
    BY <1>1 DEF Observations
  <2>2. GuardKey(o.field) \in MutexKeys
    BY DEF DriverTypes, Keyed, GuardKey
  <2>3. ModeHeld(o) \in {"free", "shared", "exclusive"}
    <3>1. \A h \in o.held : h[2] \in {"shared", "exclusive"}
      BY <1>1 DEF Observations
    <3> QED
      BY <3>1 DEF ModeHeld
  <2> QED
    BY <2>1, <2>2, <2>3 DEF AccessOf, Accesses
<1>6. PassInput.known \subseteq Funcs
  BY <1>1, <1>2 DEF PassInput
<1>7. PassInput.requires \in LockSets /\ PassInput.acquires \in LockSets /\ PassInput.acquiresTransitive \in LockSets
  BY <1>2, <1>3, <1>4 DEF PassInput, LockSets
<1>8. ASSUME NEW f \in Funcs \ PassInput.known
      PROVE  PassInput.requires[f] \cup PassInput.acquires[f] \cup PassInput.acquiresTransitive[f] = {}
  <2>1. f \notin Src.touched /\ ~(f \in ImportedCallees /\ HasFact(f))
    BY <1>1 DEF PassInput
  <2>2. Src.acquires[f] = {}
    BY <1>1, <2>1 DEF Recorded
  <2>3. Known(f, "requires") = {} /\ Known(f, "acquires") = {} /\ Known(f, "acquiresTransitive") = {}
    BY <1>4, <2>1
  <2> QED
    BY <2>2, <2>3 DEF PassInput
<1>9. PassInput.sites = Src.sites /\ PassInput \in [sites : {Src.sites}, accesses : {PassInput.accesses}, known : {PassInput.known},
         requires : {PassInput.requires}, acquires : {PassInput.acquires}, acquiresTransitive : {PassInput.acquiresTransitive}]
  BY DEF PassInput
<1>10. PassInput \in [sites : Seq(Sites), accesses : SUBSET Accesses, known : SUBSET Funcs,
                  requires : LockSets, acquires : LockSets, acquiresTransitive : LockSets]
  BY <1>2, <1>5, <1>6, <1>7, <1>9
<1>11. PassInput \in Inputs
  BY <1>8, <1>10 DEF Inputs
<1>12. detectConcurrentEntrypoints \subseteq Funcs
  BY <1>2 DEF detectConcurrentEntrypoints, DriverTypes
<1> QED
  BY <1>11, <1>12

LEMMA StartedNext == Started' => PInv'
BY PStart, PTL

LEMMA SInitTypes == SInit => DriverTypes /\ SearchTypes /\ Started
<1> SUFFICES ASSUME SInit PROVE DriverTypes /\ SearchTypes /\ Started
  OBVIOUS
<1>1. prog \in Seq(Sources) /\ prog # <<>>
  BY PassesAssumption DEF SInit
<1>2. current \in DOMAIN prog
  BY <1>1 DEF SInit
<1>3. NoLocks \in LockSets /\ NoFacts \in [Funcs -> Facts] /\ \A f \in Funcs : NoLocks[f] = {}
  BY DEF NoLocks, NoFacts, LockSets, Facts
<1>4. /\ EmptyPackage.sites = <<>> /\ EmptyPackage.known = {} /\ EmptyPackage.requires = NoLocks
      /\ EmptyPackage.acquires = NoLocks /\ EmptyPackage.acquiresTransitive = NoLocks
      /\ EmptyPackage \in [sites : Seq(Sites), accesses : SUBSET Accesses, known : SUBSET Funcs,
                  requires : LockSets, acquires : LockSets, acquiresTransitive : LockSets]
  BY <1>3 DEF EmptyPackage
<1>5. EmptyPackage \in Inputs
  BY <1>3, <1>4 DEF Inputs
<1>6. Started
  BY <1>4, <1>5 DEF SInit, Started
<1>7. Keyed(<<>>)
  BY DEF Keyed
<1>8. DriverTypes
  BY <1>2, <1>3, <1>7 DEF SInit, DriverTypes
<1>9. SearchTypes
  BY <1>4 DEF SInit, SearchTypes
<1> QED
  BY <1>6, <1>8, <1>9

-----------------------------------------------------------------------------
(* The types of a pass, and what Propagation guarantees. *)

TInv == DriverTypes /\ SearchTypes /\ PInv

\* The steps that leave funcFacts and the loops alone.
LEMMA IdleStep == ASSUME PInv, UNCHANGED vars PROVE PInv'
BY PStep

LEMMA ImportFactsTypes ==
    ASSUME TInv, ImportFacts
    PROVE  TInv'
<1>1. DriverTypes /\ SearchTypes /\ PInv
  BY DEF TInv
<1>2. /\ UNCHANGED <<vars, entrypoints, queue, head, edge, reachable, prog, current, factVars>>
      /\ guards' = ImportedGuards /\ todo' = {f \in ObservedFields : Own(f.type)} /\ phase' = "infer"
  BY DEF ImportFacts
<1>3. PInv' /\ pkg' = pkg
  BY <1>1, <1>2, IdleStep DEF vars
<1>4. SearchTypes'
  BY <1>1, <1>2, <1>3 DEF SearchTypes
<1>5. todo' \subseteq Fields
  BY <1>1, <1>2, SourceTypes
<1>6. Keyed(ImportedGuards)
  BY <1>1 DEF DriverTypes, Keyed, ImportedGuards
<1>7. annotations'.concurrent \subseteq Funcs
  <2>1. /\ annotations'.concurrent = Marked(Src.decls, Src.comments, "concurrent") \cup (ImportedCallees \cap concurrentFacts)
    BY DEF ImportFacts, parseAnnotations
  <2>2. Src.decls \in Seq(Declarations)
    BY <1>1, SourceTypes DEF Sources
  <2>3. Marked(Src.decls, Src.comments, "concurrent") \subseteq Funcs
    BY <2>2, DirectiveTypes
  <2> QED
    BY <1>1, <2>1, <2>3 DEF DriverTypes
<1>8. Keyed(guards)' /\ Keyed(guardFacts)'
  BY <1>1, <1>2, <1>6 DEF DriverTypes, Keyed, factVars
<1>9. DriverTypes'
  BY <1>1, <1>2, <1>5, <1>7, <1>8 DEF DriverTypes, factVars
<1> QED
  BY <1>3, <1>4, <1>9 DEF TInv

LEMMA InferGuardTypes ==
    ASSUME TInv, NEW field \in Fields, InferGuard(field)
    PROVE  TInv'
<1>1. DriverTypes /\ SearchTypes /\ PInv
  BY DEF TInv
<1>2. UNCHANGED <<dvars, prog, current, factVars>> /\ todo' = todo \ {field}
  BY DEF InferGuard
<1>3. PInv' /\ pkg' = pkg
  BY <1>1, <1>2, IdleStep DEF vars, dvars
<1>4. SearchTypes'
  BY <1>1, <1>2, <1>3 DEF SearchTypes, NotSearched, dvars, contextVars
<1>5. Keyed(guards')
  <2> DEFINE choices == GuardChoices(field.index, ObservationsOf(field))
  <2>1. CASE choices = {}
    BY <1>1, <2>1 DEF InferGuard, DriverTypes
  <2>2. CASE choices # {}
    <3>1. PICK g \in choices : guards' = [f \in DOMAIN guards \cup {field} |-> IF f = field THEN g ELSE guards[f]]
      BY <2>2 DEF InferGuard
    <3>2. [type |-> field.type, index |-> g.mutexFieldIndex] \in MutexKeys
      BY <1>1, ChoiceKeyed
    <3>3. Keyed(guards)
      BY <1>1 DEF DriverTypes
    <3> HIDE DEF choices
    <3> QED
      BY <3>1, <3>2, <3>3 DEF Keyed
  <2> QED
    BY <2>1, <2>2
<1>6. Keyed(guards)' /\ Keyed(guardFacts)'
  BY <1>1, <1>2, <1>5 DEF DriverTypes, Keyed, factVars
<1>7. DriverTypes'
  BY <1>1, <1>2, <1>6 DEF DriverTypes, dvars, contextVars, factVars
<1> QED
  BY <1>3, <1>4, <1>7 DEF TInv

LEMMA EndInferenceTypes ==
    ASSUME TInv, EndInference
    PROVE  TInv' /\ Started'
<1>1. DriverTypes /\ SearchTypes /\ PInv
  BY DEF TInv
<1>2. /\ UNCHANGED <<annotations, prog, current, guards, todo, factVars>>
      /\ phase' = "propagate" /\ pkg' = PassInput /\ entrypoints' = detectConcurrentEntrypoints
      /\ queue' = <<>> /\ head' = 1 /\ edge' = 1 /\ reachable' = {} /\ fallback' = FALSE
  BY DEF EndInference
<1>3. PassInput \in Inputs /\ detectConcurrentEntrypoints \subseteq Funcs
  BY <1>1, PassInputTypes
<1>4. Started'
  BY <1>3 DEF EndInference, Started
<1>5. PInv'
  BY <1>4, StartedNext
<1>6. SearchTypes'
  <2>1. Len(PassInput.sites) \in Nat
    BY <1>3, InputTypes
  <2> QED
    BY <1>2, <1>3, <2>1 DEF SearchTypes, NotSearched
<1>7. Keyed(guards)' /\ Keyed(guardFacts)'
  BY <1>1, <1>2 DEF DriverTypes, Keyed, factVars
<1>8. DriverTypes'
  BY <1>1, <1>2, <1>7 DEF DriverTypes, factVars
<1> QED
  BY <1>4, <1>5, <1>6, <1>8 DEF TInv

\* No step of Propagation touches its input.
LEMMA InputStays == Next => pkg' = pkg
BY DEF Next, DeriveInitialRequirements, StartRange, VisitCallee, EndRange, SeedAcquires, StartSites, VisitSite,
       EndSites, Finish

\* The entry points in some order are a queue.
LEMMA EntryOrder ==
    ASSUME NEW S \in SUBSET Funcs, NEW q \in Orders(S)
    PROVE  /\ q \in Seq(Funcs)
           /\ \A i \in 1..Len(q) : q[i] \in S
           /\ \A f \in S : \E i \in 1..Len(q) : q[i] = f
<1>1. IsFiniteSet(S)
  BY PassesAssumption, FS_Subset
<1>2. /\ Cardinality(S) \in Nat
      /\ q \in [1..Cardinality(S) -> S]
      /\ \A x \in S : \E i \in 1..Cardinality(S) : q[i] = x
  BY <1>1, OrderTypes
<1>3. PICK n \in Nat : n = Cardinality(S)
  BY <1>2
<1>4. q \in [1..n -> Funcs]
  BY <1>2, <1>3
<1>5. q \in Seq(Funcs) /\ Len(q) = n
  BY <1>4
<1> QED
  BY <1>2, <1>3, <1>5

LEMMA Phases3And4Types ==
    ASSUME TInv, Phases3And4
    PROVE  TInv' /\ pkg' = pkg
<1>1. DriverTypes /\ SearchTypes /\ PInv
  BY DEF TInv
<1>2. UNCHANGED <<prog, current, guards, todo, factVars>> /\ DNext
  BY DEF Phases3And4
<1>3. PInv' /\ pkg' = pkg
  <2>1. CASE Propagate
    BY <1>1, <2>1, PStep, InputStays DEF Propagate
  <2>2. CASE ~Propagate
    <3>1. UNCHANGED vars
      BY <1>2, <2>2 DEF DNext, ComputeConcurrentContext, LookAtCallee, NextInQueue, EndSearch, CheckViolations,
           CheckInterproceduralViolations
    <3> QED
      BY <1>1, <3>1, IdleStep DEF vars
  <2> QED
    BY <2>1, <2>2
<1>4. annotations' = annotations /\ entrypoints' = entrypoints
  BY <1>2 DEF DNext, Propagate, ComputeConcurrentContext, LookAtCallee, NextInQueue, EndSearch, CheckViolations,
           CheckInterproceduralViolations, contextVars
<1>5. phase' \in {"propagate", "search", "violations", "calls", "reported"}
  BY <1>2 DEF DNext, Propagate, ComputeConcurrentContext, LookAtCallee, NextInQueue, EndSearch, CheckViolations,
           CheckInterproceduralViolations, contextVars
<1>6. Keyed(guards)' /\ Keyed(guardFacts)'
  BY <1>1, <1>2 DEF DriverTypes, Keyed, factVars
<1>7. DriverTypes'
  BY <1>1, <1>2, <1>4, <1>5, <1>6 DEF DriverTypes, factVars
<1>8. SearchTypes'
  <2>1. pkg \in Inputs /\ Len(pkg.sites) \in Nat /\ \A i \in 1..Len(pkg.sites) : pkg.sites[i] \in Sites
    BY <1>1, InputTypes DEF PInv, TypeOK
  <2>2. CASE ComputeConcurrentContext
    <3>1. head' = head /\ edge' = edge /\ reachable' \in {reachable, entrypoints}
      BY <2>2 DEF ComputeConcurrentContext
    <3>2. CASE queue' = queue
      <4>1. phase' = "violations" \/ phase' = "search"
        BY <2>2 DEF ComputeConcurrentContext
      <4> QED
        BY <1>1, <1>3, <1>4, <3>1, <3>2, <4>1 DEF SearchTypes
    <3>3. CASE queue' # queue
      <4>1. queue' \in Orders(entrypoints) /\ phase = "propagate"
        BY <2>2, <3>3 DEF ComputeConcurrentContext
      <4>2. entrypoints \subseteq Funcs /\ head = 1 /\ phase' # "propagate"
        <5>1. phase' \in {"search", "violations"}
          BY <2>2 DEF ComputeConcurrentContext
        <5>2. phase' # "propagate"
          BY <5>1
        <5> QED
          BY <1>1, <4>1, <5>2 DEF SearchTypes, NotSearched
      <4>3. queue' \in Seq(Funcs)
        BY <4>1, <4>2, EntryOrder
      <4>4. Len(queue') \in Nat
        BY <4>3
      <4> QED
        BY <1>1, <1>3, <1>4, <3>1, <4>2, <4>3, <4>4 DEF SearchTypes
    <3> QED
      BY <3>2, <3>3
  <2>3. CASE LookAtCallee
    <3>1. PICK cs \in Sites : cs = pkg.sites[edge]
      BY <1>1, <2>1, <2>3 DEF LookAtCallee, SearchTypes
    <3>2. cs.callee \in Funcs
      BY DEF Sites
    <3>3. /\ head' = head /\ edge' = edge + 1 /\ edge <= Len(pkg.sites) /\ phase' = "search"
          /\ \/ reachable' = reachable /\ queue' = queue
             \/ reachable' = reachable \cup {cs.callee} /\ queue' = Append(queue, cs.callee)
      BY <2>3, <3>1 DEF LookAtCallee
    <3>4. /\ Append(queue, cs.callee) \in Seq(Funcs) /\ Len(Append(queue, cs.callee)) = Len(queue) + 1
          /\ Len(queue) \in Nat
      BY <1>1, <3>2, Push DEF SearchTypes
    <3>5. queue' \in Seq(Funcs) /\ Len(queue') \in Nat /\ Len(queue) <= Len(queue')
      BY <1>1, <3>3, <3>4 DEF SearchTypes
    <3> QED
      BY <1>1, <1>3, <1>4, <2>1, <3>2, <3>3, <3>4, <3>5 DEF SearchTypes
  <2>4. CASE NextInQueue
    BY <1>1, <1>3, <1>4, <2>1, <2>4 DEF SearchTypes, NextInQueue
  <2>5. CASE UNCHANGED contextVars
    <3>1. phase' = "propagate" => phase = "propagate"
      BY <1>2 DEF DNext, Propagate, ComputeConcurrentContext, LookAtCallee, NextInQueue, EndSearch, CheckViolations,
           CheckInterproceduralViolations, contextVars
    <3> QED
      BY <1>1, <1>3, <1>4, <2>5, <3>1 DEF SearchTypes, NotSearched, contextVars
  <2> QED
    BY <1>2, <2>2, <2>3, <2>4, <2>5 DEF DNext, Propagate, EndSearch, CheckViolations, CheckInterproceduralViolations
<1> QED
  BY <1>3, <1>7, <1>8 DEF TInv

LEMMA ExportTypes ==
    ASSUME TInv, CheckExportedGuardedFields \/ ExportFacts \/ UNCHANGED svars
    PROVE  TInv'
<1>1. DriverTypes /\ SearchTypes /\ PInv
  BY DEF TInv
<1>2. UNCHANGED <<vars, contextVars>> /\ prog' = prog /\ guards' = guards /\ todo' = todo
  BY DEF CheckExportedGuardedFields, ExportFacts, svars, dvars, contextVars
<1>3. PInv' /\ pkg' = pkg
  BY <1>1, <1>2, IdleStep DEF vars
<1>4. SearchTypes'
  <2>1. phase' = "propagate" => phase = "propagate"
    BY DEF CheckExportedGuardedFields, ExportFacts, svars, dvars
  <2> QED
    BY <1>1, <1>2, <1>3, <2>1 DEF SearchTypes, NotSearched, contextVars
<1>5. DriverTypes'
  <2>1. CASE ~ExportFacts
    <3>1. UNCHANGED <<current, factVars>> /\ phase' \in {phase, "export"}
      BY <2>1 DEF CheckExportedGuardedFields, svars, dvars
    <3>2. Keyed(guards)' /\ Keyed(guardFacts)'
      BY <1>1, <1>2, <3>1 DEF DriverTypes, Keyed, factVars
    <3> QED
      BY <1>1, <1>2, <3>1, <3>2 DEF DriverTypes, factVars, contextVars
  <2>2. CASE ExportFacts
    <3>1. /\ guardFacts' = ExportedGuards
          /\ funcFacts' = [f \in Funcs |-> IF f \in known \cap Exported /\ Own(f) THEN FuncFact(f) ELSE funcFacts[f]]
          /\ concurrentFacts' = concurrentFacts \cup {f \in detectConcurrentEntrypoints \cap Exported : Own(f)}
          /\ \/ current < Len(prog) /\ current' = current + 1 /\ phase' = "import"
             \/ phase' = "end" /\ current' = current
      BY <2>2 DEF ExportFacts
    <3>2. Keyed(ExportedGuards)
      BY <1>1 DEF DriverTypes, Keyed, ExportedGuards
    <3>3. Keyed(guards)' /\ Keyed(guardFacts)'
      BY <1>1, <1>2, <3>1, <3>2 DEF DriverTypes, Keyed
    <3>4. current' \in DOMAIN prog
      BY <1>1, <3>1, SourceTypes DEF DriverTypes
    <3>5. \A f \in Funcs : FuncFact(f) \in Facts
      <4>1. pkg \in Inputs /\ requires \in LockSets /\ acquiresTransitive \in LockSets
        BY <1>1 DEF PInv, TypeOK
      <4>2. pkg.acquires \in LockSets
        BY <4>1, InputTypes
      <4> QED
        BY <4>1, <4>2 DEF FuncFact, Facts, LockSets
    <3>6. funcFacts' \in [Funcs -> Facts]
      BY <1>1, <3>1, <3>5 DEF DriverTypes
    <3>7. concurrentFacts' \subseteq Funcs
      BY <1>1, <3>1, PassInputTypes DEF DriverTypes
    <3> QED
      BY <1>1, <1>2, <3>1, <3>3, <3>4, <3>6, <3>7 DEF DriverTypes, contextVars
  <2> QED
    BY <2>1, <2>2
<1> QED
  BY <1>3, <1>4, <1>5 DEF TInv

LEMMA TInit == SInit => TInv
BY SInitTypes, PStart DEF TInv

LEMMA TStep == TInv /\ [SNext]_svars => TInv'
BY ImportFactsTypes, InferGuardTypes, EndInferenceTypes, Phases3And4Types, ExportTypes DEF SNext

\* The maps and counters of a pass keep their types, and what inferGuards hands over to
\* propagateRequirements is what that expects, in every pass over every program.
THEOREM PassTypes == SSpec => []STypeOK
<1>1. TInv => STypeOK
  BY DEF TInv, DriverTypes, SearchTypes, PInv, STypeOK, Keyed
<1> QED
  BY <1>1, TInit, TStep, PTL DEF SSpec

-----------------------------------------------------------------------------
(* Guards. *)

\* What GuardsDetermined says of one field.
Determined(f) ==
    LET obs == NonConstructor(ObservationsOf(f))
    IN  IF f \in DOMAIN guards
          THEN (\E o \in obs : ~o.isRead) /\ Prevails(f.index, obs, guards[f].mutexFieldIndex)
          ELSE (\A o \in obs : o.isRead) \/ Counted(f.index, obs, FALSE) = {}

\* The fields of the package that inferGuards has to visit have no guard yet, since the
\* imported guards are of the fields of other packages' types; the others are determined.
GuardsInv ==
    /\ phase = "infer" =>
         /\ \A f \in todo : f \notin DOMAIN guards
         /\ \A f \in ObservedFields : Own(f.type) => f \in todo \/ Determined(f)
    /\ Inferred => \A f \in ObservedFields : Own(f.type) => Determined(f)

LEMMA GuardsInit == SInit => GuardsInv
BY DEF SInit, GuardsInv, Inferred

LEMMA GuardsImport ==
    ASSUME ImportFacts
    PROVE  GuardsInv'
<1>1. /\ phase' = "infer" /\ prog' = prog /\ current' = current
      /\ guards' = ImportedGuards /\ todo' = {f \in ObservedFields : Own(f.type)}
  BY DEF ImportFacts
<1>2. ~Inferred' /\ ObservedFields' = ObservedFields /\ \A x : Own(x)' <=> Own(x)
  BY <1>1 DEF Inferred, ObservedFields, Own, Src
<1>3. \A f \in todo' : f \notin DOMAIN guards'
  BY <1>1 DEF ImportedGuards
<1> QED
  BY <1>1, <1>2, <1>3 DEF GuardsInv

LEMMA GuardsInfer ==
    ASSUME TInv, GuardsInv, NEW field \in Fields, InferGuard(field)
    PROVE  GuardsInv'
<1> DEFINE choices == GuardChoices(field.index, ObservationsOf(field))
<1> DEFINE obs == NonConstructor(ObservationsOf(field))
<1>1. /\ phase = "infer" /\ phase' = "infer" /\ prog' = prog /\ current' = current
      /\ field \in todo /\ todo' = todo \ {field}
  BY DEF InferGuard, dvars
<1>2. /\ ~Inferred' /\ ObservedFields' = ObservedFields /\ \A x : Own(x)' <=> Own(x)
      /\ \A f : ObservationsOf(f)' = ObservationsOf(f)
  BY <1>1 DEF Inferred, ObservedFields, Own, Src, ObservationsOf
<1>3. /\ \A g \in choices : (\E o \in obs : ~o.isRead) /\ Prevails(field.index, obs, g.mutexFieldIndex)
      /\ choices = {} => (\A o \in obs : o.isRead) \/ Counted(field.index, obs, FALSE) = {}
  <2>1. Countable(ObservationsOf(field))
    BY ObservationTypes DEF TInv
  <2> QED
    BY <2>1, GuardChoicesExact
<1>4. field \notin DOMAIN guards
  BY <1>1 DEF GuardsInv
<1>5. \/ choices = {} /\ guards' = guards
      \/ \E g \in choices : guards' = [f \in DOMAIN guards \cup {field} |-> IF f = field THEN g ELSE guards[f]]
  BY DEF InferGuard
<1> HIDE DEF choices
<1>6. Determined(field)'
  <2> DEFINE P(G) == IF field \in DOMAIN G
                       THEN (\E o \in obs : ~o.isRead) /\ Prevails(field.index, obs, G[field].mutexFieldIndex)
                       ELSE (\A o \in obs : o.isRead) \/ Counted(field.index, obs, FALSE) = {}
  <2>1. P(guards')
    <3> HIDE DEF obs
    <3>1. CASE choices = {} /\ guards' = guards
      BY <1>3, <1>4, <3>1
    <3>2. CASE \E g \in choices : guards' = [f \in DOMAIN guards \cup {field} |-> IF f = field THEN g ELSE guards[f]]
      <4>1. PICK g \in choices : guards' = [f \in DOMAIN guards \cup {field} |-> IF f = field THEN g ELSE guards[f]]
        BY <3>2
      <4>2. field \in DOMAIN guards' /\ guards'[field] = g
        BY <4>1
      <4> QED
        BY <1>3, <4>2
    <3> QED
      BY <1>5, <3>1, <3>2
  <2> QED
    BY <1>2, <2>1 DEF Determined
<1>7. ASSUME NEW f, f # field PROVE /\ f \in DOMAIN guards' <=> f \in DOMAIN guards
                                    /\ f \in DOMAIN guards => guards'[f] = guards[f]
  BY <1>5, <1>7
<1>8. ASSUME NEW f, f # field, Determined(f) PROVE Determined(f)'
  BY <1>2, <1>7, <1>8 DEF Determined
<1>9. \A f \in ObservedFields : Own(f.type) => f \in todo' \/ Determined(f)'
  <2> SUFFICES ASSUME NEW f \in ObservedFields, Own(f.type), f \notin todo' PROVE Determined(f)'
    OBVIOUS
  <2>1. CASE f = field
    BY <1>6, <2>1
  <2>2. CASE f # field
    BY <1>1, <1>8, <2>2 DEF GuardsInv
  <2> QED
    BY <2>1, <2>2
<1>10. \A f \in todo' : f \notin DOMAIN guards'
  BY <1>1, <1>7 DEF GuardsInv
<1> QED
  BY <1>2, <1>9, <1>10 DEF GuardsInv

LEMMA GuardsOther ==
    ASSUME GuardsInv, EndInference \/ Phases3And4 \/ CheckExportedGuardedFields \/ ExportFacts \/ UNCHANGED svars
    PROVE  GuardsInv'
<1>1. prog' = prog /\ guards' = guards /\ todo' = todo
  BY DEF EndInference, Phases3And4, CheckExportedGuardedFields, ExportFacts, svars
<1>2. CASE current' = current
  <2>1. /\ ObservedFields' = ObservedFields /\ \A x : Own(x)' <=> Own(x)
        /\ \A f : ObservationsOf(f)' = ObservationsOf(f)
    BY <1>1, <1>2 DEF ObservedFields, Own, Src, ObservationsOf
  <2>2. \A f : Determined(f)' <=> Determined(f)
    BY <1>1, <2>1 DEF Determined
  <2>3. \/ phase' = phase
        \/ phase' = "import"
        \/ phase = "infer" /\ todo = {} /\ phase' # "infer"
        \/ phase \notin {"import", "infer"} /\ phase' # "infer"
    <3>1. CASE Phases3And4
      BY <3>1 DEF Phases3And4, DNext, Propagate, ComputeConcurrentContext, LookAtCallee, NextInQueue, EndSearch,
           CheckViolations, CheckInterproceduralViolations
    <3> QED
      BY <3>1 DEF EndInference, CheckExportedGuardedFields, ExportFacts, svars, dvars
  <2> QED
    BY <1>1, <2>1, <2>2, <2>3 DEF GuardsInv, Inferred
<1>3. CASE current' # current
  <2>1. phase' = "import"
    BY <1>3 DEF EndInference, Phases3And4, CheckExportedGuardedFields, ExportFacts, svars
  <2> QED
    BY <2>1 DEF GuardsInv, Inferred
<1> QED
  BY <1>2, <1>3

\* inferGuards gives each field of the package's structs the mutex that prevails at its
\* accesses, for all orders of the fields and of the counts.
THEOREM GuardsAreDetermined == SSpec => []GuardsDetermined
<1>1. GuardsInv => GuardsDetermined
  BY DEF GuardsInv, GuardsDetermined, Determined
<1>2. TInv /\ GuardsInv /\ [SNext]_svars => GuardsInv'
  BY GuardsImport, GuardsInfer, GuardsOther DEF SNext
<1> QED
  BY <1>1, <1>2, TInit, TStep, GuardsInit, PTL DEF SSpec

-----------------------------------------------------------------------------
(* computeConcurrentContext *)

\* The call sites of S that fn makes lead to functions that are found.
Expanded(fn, S) == \A cs \in S : cs.caller = fn => cs.callee \in reachable

\* The search: the queue holds what is found, the functions before the head have been
\* expanded, and the one at the head up to the next call site.
Searching ==
    /\ entrypoints \subseteq reachable
    /\ \A i \in 1..Len(queue) : queue[i] \in reachable
    /\ \A f \in reachable : \E i \in 1..Len(queue) : queue[i] = f
    /\ \A i \in 1..(head - 1) : Expanded(queue[i], CallSites(pkg))
    /\ head <= Len(queue) => Expanded(queue[head], {pkg.sites[j] : j \in 1..(edge - 1)})

OnlyReachable == \A S \in SUBSET Funcs : ClosedUnderCalls(S) => reachable \subseteq S

ReachInv ==
    /\ OnlyReachable
    /\ phase = "search" => Searching
    /\ Searched => ClosedUnderCalls(reachable)

LEMMA ContextStep ==
    ASSUME TInv, ReachInv, ComputeConcurrentContext
    PROVE  ReachInv'
<1>1. /\ phase = "propagate" /\ pkg' = pkg /\ entrypoints' = entrypoints /\ head' = head /\ edge' = edge
  BY DEF ComputeConcurrentContext, vars
<1>2. NotSearched /\ entrypoints \in SUBSET Funcs
  BY <1>1 DEF TInv, SearchTypes
<1>3. CallSites(pkg)' = CallSites(pkg) /\ \A S : ClosedUnderCalls(S)' <=> ClosedUnderCalls(S)
  BY <1>1 DEF CallSites, ClosedUnderCalls
<1>4. CASE entrypoints = {}
  <2>1. phase' = "violations" /\ reachable' = {}
    BY <1>2, <1>4 DEF ComputeConcurrentContext, NotSearched
  <2>2. ClosedUnderCalls({})
    BY <1>4 DEF ClosedUnderCalls
  <2> QED
    BY <1>3, <2>1, <2>2 DEF ReachInv, OnlyReachable
<1>5. CASE entrypoints # {}
  <2>1. phase' = "search" /\ reachable' = entrypoints /\ queue' \in Orders(entrypoints)
    BY <1>5 DEF ComputeConcurrentContext
  <2>2. /\ \A i \in 1..Len(queue') : queue'[i] \in entrypoints
        /\ \A f \in entrypoints : \E i \in 1..Len(queue') : queue'[i] = f
    BY <1>2, <2>1, EntryOrder
  <2>3. head' = 1 /\ edge' = 1 /\ 1..(head' - 1) = {} /\ 1..(edge' - 1) = {}
    BY <1>1, <1>2 DEF NotSearched
  <2>4. Searching'
    BY <1>1, <2>1, <2>2, <2>3 DEF Searching, Expanded
  <2>5. OnlyReachable'
    BY <1>3, <2>1 DEF OnlyReachable, ClosedUnderCalls
  <2> QED
    BY <2>1, <2>4, <2>5 DEF ReachInv, Searched
<1> QED
  BY <1>4, <1>5

LEMMA LookAtCalleeStep ==
    ASSUME TInv, ReachInv, LookAtCallee
    PROVE  ReachInv'
<1>1. /\ phase = "search" /\ phase' = "search" /\ head <= Len(queue) /\ edge <= Len(pkg.sites) /\ edge' = edge + 1
      /\ pkg' = pkg /\ entrypoints' = entrypoints /\ head' = head
  BY DEF LookAtCallee, vars
<1>2. /\ CallSites(pkg)' = CallSites(pkg) /\ \A S : ClosedUnderCalls(S)' <=> ClosedUnderCalls(S)
  BY <1>1 DEF CallSites, ClosedUnderCalls
<1>3. /\ queue \in Seq(Funcs) /\ Len(queue) \in Nat /\ Len(pkg.sites) \in Nat
      /\ head \in Nat /\ head >= 1 /\ edge \in 1..Len(pkg.sites)
      /\ \A i \in 1..Len(pkg.sites) : pkg.sites[i] \in Sites
  <2>1. pkg \in Inputs
    BY DEF TInv, PInv, TypeOK
  <2>2. Len(pkg.sites) \in Nat /\ \A i \in 1..Len(pkg.sites) : pkg.sites[i] \in Sites
    BY <2>1, InputTypes
  <2> QED
    BY <1>1, <2>2 DEF TInv, SearchTypes
<1>4. PICK cs \in Sites : cs = pkg.sites[edge]
  BY <1>3
<1>5. cs.callee \in Funcs /\ cs.caller \in Funcs /\ cs \in CallSites(pkg)
  BY <1>3, <1>4 DEF Sites, CallSites
<1>6. \/ /\ cs.caller = queue[head] /\ cs.callee \notin reachable
         /\ reachable' = reachable \cup {cs.callee} /\ queue' = Append(queue, cs.callee)
      \/ /\ cs.caller = queue[head] => cs.callee \in reachable
         /\ reachable' = reachable /\ queue' = queue
  BY <1>4 DEF LookAtCallee
<1>7. Searching /\ OnlyReachable
  BY <1>1 DEF ReachInv
<1>8. /\ Append(queue, cs.callee) \in Seq(Funcs)
      /\ Len(Append(queue, cs.callee)) = Len(queue) + 1
      /\ \A k \in 1..(Len(queue) + 1) : Append(queue, cs.callee)[k] = IF k = Len(queue) + 1 THEN cs.callee ELSE queue[k]
  BY <1>3, <1>5, Push
<1>9. /\ reachable \subseteq reachable' /\ Len(queue') \in Nat /\ Len(queue) <= Len(queue')
      /\ \A i \in 1..Len(queue) : queue'[i] = queue[i]
      /\ \A i \in 1..Len(queue') : queue'[i] \in reachable'
      /\ \A f \in reachable' : \E i \in 1..Len(queue') : queue'[i] = f
      /\ cs.caller = queue[head] => cs.callee \in reachable'
  <2>1. CASE reachable' = reachable /\ queue' = queue
    BY <1>3, <1>6, <1>7, <2>1 DEF Searching
  <2>2. CASE reachable' = reachable \cup {cs.callee} /\ queue' = Append(queue, cs.callee)
    <3>1. \A i \in 1..Len(queue) : i \in 1..(Len(queue) + 1) /\ i # Len(queue) + 1
      BY <1>3
    <3>2. \A i \in 1..Len(queue) : queue'[i] = queue[i] /\ queue[i] \in reachable
      BY <1>7, <1>8, <2>2, <3>1 DEF Searching
    <3>3. queue'[Len(queue) + 1] = cs.callee /\ Len(queue') = Len(queue) + 1 /\ Len(queue) + 1 \in 1..(Len(queue) + 1)
      BY <1>3, <1>8, <2>2
    <3>4. \A i \in 1..Len(queue') : i \in 1..Len(queue) \/ i = Len(queue) + 1
      BY <1>3, <3>3
    <3>5. \A i \in 1..Len(queue') : queue'[i] \in reachable'
      BY <2>2, <3>2, <3>3, <3>4
    <3>6. ASSUME NEW f \in reachable' PROVE \E i \in 1..Len(queue') : queue'[i] = f
      <4>1. CASE f = cs.callee
        BY <3>3, <4>1
      <4>2. CASE f \in reachable
        <5>1. PICK i \in 1..Len(queue) : queue[i] = f
          BY <1>7, <4>2 DEF Searching
        <5>2. i \in 1..Len(queue') /\ queue'[i] = f
          BY <3>1, <3>2, <3>3, <5>1
        <5> QED
          BY <5>2
      <4> QED
        BY <2>2, <4>1, <4>2
    <3> QED
      BY <1>3, <2>2, <3>2, <3>3, <3>5, <3>6
  <2> QED
    BY <1>6, <2>1, <2>2
<1>10. \A fn, S : Expanded(fn, S) => Expanded(fn, S)'
  BY <1>9 DEF Expanded
<1>11. \A i \in 1..(head - 1) : \A c \in CallSites(pkg) : c.caller = queue'[i] => c.callee \in reachable'
  <2>1. \A i \in 1..(head - 1) : i \in 1..Len(queue)
    BY <1>1, <1>3
  <2>2. \A i \in 1..(head - 1) : Expanded(queue[i], CallSites(pkg))
    BY <1>7 DEF Searching
  <2> QED
    BY <1>2, <1>9, <2>1, <2>2 DEF Expanded
<1>12. \A c \in {pkg.sites[j] : j \in 1..edge} : c.caller = queue[head] => c.callee \in reachable'
  <2>1. \A j \in 1..edge : j \in 1..(edge - 1) \/ j = edge
    BY <1>3
  <2>2. \A c \in {pkg.sites[j] : j \in 1..(edge - 1)} : c.caller = queue[head] => c.callee \in reachable
    BY <1>1, <1>7 DEF Searching, Expanded
  <2> QED
    BY <1>4, <1>9, <2>1, <2>2
<1>13. Searching'
  <2>1. head \in 1..Len(queue) /\ edge' - 1 = edge
    BY <1>1, <1>3
  <2>2. queue'[head] = queue[head]
    BY <1>9, <2>1
  <2>3. \A c \in {pkg'.sites[j] : j \in 1..(edge' - 1)} : c.caller = queue'[head'] => c.callee \in reachable'
    BY <1>1, <1>12, <2>1, <2>2
  <2>4. entrypoints' \subseteq reachable'
    BY <1>1, <1>7, <1>9 DEF Searching
  <2> QED
    BY <1>1, <1>2, <1>9, <1>11, <2>3, <2>4 DEF Searching, Expanded
<1>14. OnlyReachable'
  <2> SUFFICES ASSUME NEW S \in SUBSET Funcs, ClosedUnderCalls(S) PROVE reachable' \subseteq S
    BY <1>2 DEF OnlyReachable
  <2>1. reachable \subseteq S
    BY <1>7 DEF OnlyReachable
  <2>2. cs.caller = queue[head] => cs.callee \in S
    <3>1. head \in 1..Len(queue)
      BY <1>1, <1>3
    <3>2. queue[head] \in S
      BY <1>7, <2>1, <3>1 DEF Searching
    <3> QED
      BY <1>5, <3>2 DEF ClosedUnderCalls
  <2> QED
    BY <1>6, <2>1, <2>2
<1> QED
  BY <1>1, <1>13, <1>14 DEF ReachInv, Searched

LEMMA NextInQueueStep ==
    ASSUME TInv, ReachInv, NextInQueue
    PROVE  ReachInv'
<1>1. /\ phase = "search" /\ phase' = "search" /\ head <= Len(queue) /\ edge > Len(pkg.sites)
      /\ pkg' = pkg /\ entrypoints' = entrypoints /\ head' = head + 1 /\ edge' = 1 /\ queue' = queue /\ reachable' = reachable
  BY DEF NextInQueue, vars
<1>2. Searching /\ OnlyReachable
  BY <1>1 DEF ReachInv
<1>3. /\ CallSites(pkg)' = CallSites(pkg) /\ \A S : ClosedUnderCalls(S)' <=> ClosedUnderCalls(S)
      /\ \A fn, S : Expanded(fn, S)' <=> Expanded(fn, S)
  BY <1>1 DEF CallSites, ClosedUnderCalls, Expanded
<1>4. OnlyReachable'
  BY <1>1, <1>2, <1>3 DEF OnlyReachable
<1>5. head \in Nat /\ Len(pkg.sites) \in Nat /\ edge - 1 = Len(pkg.sites)
  <2>1. pkg \in Inputs
    BY DEF TInv, PInv, TypeOK
  <2>2. Len(pkg.sites) \in Nat
    BY <2>1, InputTypes
  <2> QED
    BY <1>1, <2>2 DEF TInv, SearchTypes
<1>6. Expanded(queue[head], CallSites(pkg))
  BY <1>1, <1>2, <1>5 DEF Searching, CallSites
<1>7. \A i \in 1..(head' - 1) : i \in 1..(head - 1) \/ i = head
  BY <1>1, <1>5
<1>8. \A i \in 1..(head' - 1) : Expanded(queue[i], CallSites(pkg))
  BY <1>2, <1>6, <1>7 DEF Searching
<1>9. \A i \in 1..(head' - 1) : \A c \in CallSites(pkg) : c.caller = queue'[i] => c.callee \in reachable'
  BY <1>1, <1>8 DEF Expanded
<1>10. 1..(edge' - 1) = {}
  BY <1>1
<1>11. Searching'
  BY <1>1, <1>2, <1>3, <1>9, <1>10 DEF Searching, Expanded
<1> QED
  BY <1>1, <1>4, <1>11 DEF ReachInv, Searched

LEMMA EndSearchStep ==
    ASSUME TInv, ReachInv, EndSearch
    PROVE  ReachInv'
<1>1. /\ phase = "search" /\ phase' = "violations" /\ head > Len(queue)
      /\ pkg' = pkg /\ entrypoints' = entrypoints /\ reachable' = reachable
  BY DEF EndSearch, vars, contextVars
<1>2. Searching /\ OnlyReachable
  BY <1>1 DEF ReachInv
<1>3. \A S : ClosedUnderCalls(S)' <=> ClosedUnderCalls(S)
  BY <1>1 DEF CallSites, ClosedUnderCalls
<1>4. \A i \in 1..Len(queue) : i \in 1..(head - 1)
  BY <1>1 DEF TInv, SearchTypes
<1>5. ClosedUnderCalls(reachable)
  BY <1>2, <1>4 DEF ClosedUnderCalls, Searching, Expanded
<1> QED
  BY <1>1, <1>2, <1>3, <1>5 DEF ReachInv, OnlyReachable, ClosedUnderCalls, CallSites

\* The steps outside the search.
LEMMA ReachOther ==
    ASSUME TInv, ReachInv,
           \/ ImportFacts \/ (\E field \in Fields : InferGuard(field)) \/ CheckExportedGuardedFields \/ ExportFacts
           \/ Propagate \/ CheckViolations \/ CheckInterproceduralViolations \/ UNCHANGED svars
    PROVE  ReachInv'
<1>1. /\ pkg' = pkg /\ UNCHANGED <<entrypoints, queue, head, edge, reachable>>
      /\ phase' = "search" => phase = "search"
      /\ Searched' => Searched
  <2>1. CASE Propagate
    BY <2>1, InputStays DEF Propagate, contextVars, Searched
  <2>2. CASE \E field \in Fields : InferGuard(field)
    BY <2>2 DEF InferGuard, dvars, vars, contextVars, Searched
  <2> QED
    BY <2>1, <2>2 DEF ImportFacts, CheckExportedGuardedFields, ExportFacts, CheckViolations, CheckInterproceduralViolations,
       svars, dvars, vars, contextVars, Searched
<1>2. \A S : ClosedUnderCalls(S)' <=> ClosedUnderCalls(S)
  BY <1>1 DEF CallSites, ClosedUnderCalls
<1>3. OnlyReachable'
  BY <1>1, <1>2 DEF ReachInv, OnlyReachable
<1>4. Searching => Searching'
  BY <1>1 DEF Searching, Expanded, CallSites
<1>5. ClosedUnderCalls(reachable) => ClosedUnderCalls(reachable)'
  BY <1>1 DEF CallSites, ClosedUnderCalls
<1> QED
  BY <1>1, <1>3, <1>4, <1>5 DEF ReachInv

LEMMA ReachEndInference ==
    ASSUME EndInference
    PROVE  ReachInv'
BY DEF EndInference, ReachInv, OnlyReachable, Searched

LEMMA ReachInit == SInit => ReachInv
BY DEF SInit, ReachInv, OnlyReachable, Searched

LEMMA ReachStep == TInv /\ ReachInv /\ [SNext]_svars => ReachInv'
<1> SUFFICES ASSUME TInv, ReachInv, [SNext]_svars PROVE ReachInv'
  OBVIOUS
<1>1. CASE Phases3And4
  BY <1>1, ContextStep, LookAtCalleeStep, NextInQueueStep, EndSearchStep, ReachOther DEF Phases3And4, DNext
<1> QED
  BY <1>1, ReachOther, ReachEndInference DEF SNext

\* computeConcurrentContext finds the functions that can be reached from the entry points,
\* neither fewer nor more, in whatever order these are queued.
THEOREM SearchIsExact == SSpec => []ReachableExact
<1>1. ReachInv => ReachableExact
  BY DEF ReachInv, OnlyReachable, ReachableExact
<1> QED
  BY <1>1, TInit, TStep, ReachInit, ReachStep, PTL DEF SSpec

-----------------------------------------------------------------------------
(* The diagnostics. *)

\* g gets, without k, to an access or an imported function that needs it.
Caused(g, k) ==
    \/ \E a \in Unguarded : a.guard = k /\ ReachesWithout(g, a.fn, k)
    \/ \E f \in Funcs : k \in pkg.requires[f] /\ ReachesWithout(g, f, k)

LEMMA ReachesItself ==
    ASSUME NEW f, NEW k
    PROVE  ReachesWithout(f, f, k)
BY DEF ReachesWithout

LEMMA ReachesFurther ==
    ASSUME NEW cs \in CallSites(pkg), NEW f, NEW k, k \notin cs.held, ~cs.prePublication, ReachesWithout(cs.callee, f, k)
    PROVE  ReachesWithout(cs.caller, f, k)
BY DEF ReachesWithout

\* A requirement has a cause.
LEMMA RequirementsCaused ==
    ASSUME PInv, NEW g \in Funcs, NEW k \in requires[g]
    PROVE  Caused(g, k)
<1> DEFINE R == [f \in Funcs |-> (MutexKeys \ {k}) \cup {x \in {k} : Caused(f, k)}]
<1>1. /\ pkg \in Inputs /\ requires \in LockSets /\ k \in MutexKeys
      /\ pkg.requires \in LockSets /\ CallSites(pkg) \subseteq Sites /\ pkg.accesses \subseteq Accesses
  <2>1. pkg \in Inputs /\ requires \in LockSets
    BY DEF PInv, TypeOK
  <2>2. pkg.accesses \subseteq Accesses
    BY <2>1 DEF Inputs
  <2> QED
    BY <2>1, <2>2, InputTypes DEF LockSets
<1>2. R \in LockSets
  BY <1>1 DEF LockSets
<1>3. /\ \A f \in Funcs : k \in R[f] <=> Caused(f, k)
      /\ \A f \in Funcs : \A x \in MutexKeys : x # k => x \in R[f]
      /\ \A f \in Funcs : \A x \in R[f] : x \in MutexKeys
  BY <1>1
<1> HIDE DEF R
<1>4. ASSUME NEW f \in Funcs, NEW x \in pkg.requires[f] \cup Direct(pkg, f) PROVE x \in R[f]
  <2>1. x \in MutexKeys
    BY <1>1 DEF LockSets, Direct, Accesses
  <2>2. CASE x # k
    BY <1>3, <2>1, <2>2
  <2>3. CASE x = k
    <3>1. CASE x \in pkg.requires[f]
      BY <1>3, <2>3, <3>1, ReachesItself DEF Caused
    <3>2. CASE x \in Direct(pkg, f)
      <4>1. PICK a \in Unguarded : a.fn = f /\ a.guard = x
        BY <3>2 DEF Direct, Unguarded
      <4>2. ReachesWithout(f, a.fn, k)
        BY <4>1, ReachesItself
      <4> QED
        BY <1>3, <2>3, <4>1, <4>2 DEF Caused
    <3> QED
      BY <3>1, <3>2
  <2> QED
    BY <2>2, <2>3
<1>5. ASSUME NEW cs \in CallSites(pkg), NEW x \in R[cs.callee], x \notin cs.held, ~cs.prePublication
      PROVE  x \in R[cs.caller]
  <2>1. cs.caller \in Funcs /\ cs.callee \in Funcs
    BY <1>1 DEF Sites
  <2>2. CASE x # k
    BY <1>3, <2>1, <2>2
  <2>3. CASE x = k
    <3>1. Caused(cs.callee, k) /\ k \notin cs.held
      BY <1>3, <1>5, <2>1, <2>3
    <3>2. Caused(cs.caller, k)
      BY <1>5, <3>1, ReachesFurther DEF Caused
    <3> QED
      BY <1>3, <2>1, <2>3, <3>2
  <2> QED
    BY <2>2, <2>3
<1>6. SolvesRequires(pkg, R)
  BY <1>4, <1>5 DEF SolvesRequires
<1>7. requires[g] \subseteq R[g]
  BY <1>2, <1>6 DEF PInv, NothingSpurious, Contained
<1> QED
  BY <1>3, <1>7

\* Every set of functions with g that is closed under calls has one that acquires k.
LEMMA AcquisitionsCaused ==
    ASSUME PInv, NEW g \in Funcs, NEW k \in acquiresTransitive[g],
           NEW S \in SUBSET Funcs, g \in S, \A cs \in CallSites(pkg) : cs.caller \in S => cs.callee \in S
    PROVE  \E f \in S : k \in pkg.acquires[f] \cup pkg.acquiresTransitive[f]
<1> SUFFICES ASSUME \A f \in S : k \notin pkg.acquires[f] \cup pkg.acquiresTransitive[f] PROVE FALSE
  OBVIOUS
<1> DEFINE A == [f \in Funcs |-> {x \in MutexKeys : x = k => f \notin S}]
<1>1. /\ pkg \in Inputs /\ pkg.acquires \in LockSets /\ pkg.acquiresTransitive \in LockSets
      /\ CallSites(pkg) \subseteq Sites
  BY InputTypes DEF PInv, TypeOK
<1>2. A \in LockSets
  BY DEF LockSets
<1>3. \A f \in Funcs : pkg.acquiresTransitive[f] \cup pkg.acquires[f] \subseteq A[f]
  BY <1>1 DEF LockSets
<1>4. \A cs \in CallSites(pkg) : A[cs.callee] \subseteq A[cs.caller]
  <2>1. \A cs \in CallSites(pkg) : cs.caller \in Funcs /\ cs.callee \in Funcs
    BY <1>1 DEF Sites
  <2> QED
    BY <2>1
<1>5. SolvesAcquires(pkg, A)
  <2> HIDE DEF A
  <2> QED
    BY <1>3, <1>4 DEF SolvesAcquires
<1>6. acquiresTransitive[g] \subseteq A[g]
  <2> HIDE DEF A
  <2> QED
    BY <1>2, <1>5 DEF PInv, NothingSpurious, Contained
<1> QED
  BY <1>6

\* What ReportsHaveCauses says of one diagnostic.
Founded(d) ==
    /\ d.kind = "missingLock" =>
         isConcurrent(d.at.caller) /\ d.mutex \notin d.at.held /\ Caused(d.at.callee, d.mutex)
    /\ d.kind = "doubleLock" =>
         /\ d.mutex \in d.at.held
         /\ \A S \in SUBSET Funcs :
              (/\ d.at.callee \in S
               /\ \A cs \in CallSites(pkg) : cs.caller \in S => cs.callee \in S) =>
                 \E f \in S : d.mutex \in pkg.acquires[f] \cup pkg.acquiresTransitive[f]

LEMMA CallDiagsFounded ==
    ASSUME PInv, NEW cs \in CallSites(pkg), NEW d \in CallDiags(cs)
    PROVE  Founded(d)
<1>1. cs.callee \in Funcs
  <2>1. CallSites(pkg) \subseteq Sites
    BY InputTypes DEF PInv, TypeOK
  <2> QED
    BY <2>1 DEF Sites
<1>2. isConcurrent(cs.caller) /\ (d \in MissingLockDiags(cs) \/ d \in DoubleLockDiags(cs))
  BY DEF CallDiags
<1>3. CASE d \in MissingLockDiags(cs)
  <2>1. PICK k \in requires[cs.callee] : ~callerHoldsMutex(cs, k) /\ d \in Report("missingLock", cs.caller, cs, k)
    BY <1>3 DEF MissingLockDiags
  <2>2. d = [kind |-> "missingLock", at |-> cs, mutex |-> k]
    BY <2>1 DEF Report
  <2>3. Caused(cs.callee, k)
    BY <1>1, RequirementsCaused
  <2>4. d.kind = "missingLock" /\ d.at = cs /\ d.mutex = k
    BY <2>2
  <2> QED
    BY <1>2, <2>1, <2>3, <2>4 DEF Founded, callerHoldsMutex
<1>4. CASE d \in DoubleLockDiags(cs)
  <2>1. PICK k \in acquiresTransitive[cs.callee] : callerHoldsMutex(cs, k) /\ d \in Report("doubleLock", cs.caller, cs, k)
    BY <1>4 DEF DoubleLockDiags
  <2>2. d = [kind |-> "doubleLock", at |-> cs, mutex |-> k]
    BY <2>1 DEF Report
  <2>3. d.kind = "doubleLock" /\ d.at = cs /\ d.mutex = k
    BY <2>2
  <2> QED
    BY <1>1, <2>1, <2>3, AcquisitionsCaused DEF Founded, callerHoldsMutex
<1> QED
  BY <1>2, <1>3, <1>4

CauseInv ==
    /\ phase \in {"propagate", "search", "violations"} => diags = {}
    /\ \A d \in diags : Founded(d)

\* The other diagnostics are of other kinds.
LEMMA OtherKinds ==
    /\ \A a : \A d \in AccessDiags(a) : d.kind \in {"writeUnderShared", "unguardedAccess"}
    /\ \A d : d.kind \notin {"missingLock", "doubleLock"} => Founded(d)
<1>1. ASSUME NEW a, NEW d \in AccessDiags(a) PROVE d.kind \in {"writeUnderShared", "unguardedAccess"}
  <2>1. d \in Report("writeUnderShared", a.fn, a, a.guard) \cup Report("unguardedAccess", a.fn, a, a.guard)
    BY DEF AccessDiags
  <2> QED
    BY <2>1 DEF Report
<1> QED
  BY <1>1 DEF Founded

\* Nothing that a diagnostic depends on changes while there is one.
LEMMA FoundedStays ==
    ASSUME UNCHANGED <<pkg, fallback, reachable>>, NEW d, Founded(d)
    PROVE  Founded(d)'
BY DEF Founded, isConcurrent, Caused, Unguarded, ReachesWithout, CallSites

LEMMA CauseStep == TInv /\ CauseInv /\ [SNext]_svars => CauseInv'
<1> SUFFICES ASSUME TInv, CauseInv, [SNext]_svars PROVE CauseInv'
  OBVIOUS
<1>1. CASE EndInference
  BY <1>1 DEF EndInference, CauseInv
<1>2. CASE Propagate \/ ComputeConcurrentContext \/ LookAtCallee \/ NextInQueue \/ EndSearch
  <2>1. diags' = diags /\ phase \in {"propagate", "search"}
    BY <1>2 DEF Propagate, ComputeConcurrentContext, LookAtCallee, NextInQueue, EndSearch
  <2> QED
    BY <2>1 DEF CauseInv
<1>3. CASE CheckViolations
  <2>1. /\ phase' = "calls" /\ UNCHANGED <<pkg, fallback, reachable>>
        /\ diags' = diags \cup UNION {AccessDiags(a) : a \in pkg.accesses}
    BY <1>3 DEF CheckViolations, vars, contextVars
  <2>2. \A d \in diags' : Founded(d)
    <3>1. ASSUME NEW d \in diags', d \notin diags PROVE Founded(d)
      <4>1. PICK a \in pkg.accesses : d \in AccessDiags(a)
        BY <2>1, <3>1
      <4>2. d.kind \in {"writeUnderShared", "unguardedAccess"}
        BY <4>1, OtherKinds
      <4> QED
        BY <4>2, OtherKinds
    <3> QED
      BY <3>1 DEF CauseInv
  <2> QED
    BY <2>1, <2>2, FoundedStays DEF CauseInv
<1>4. CASE CheckInterproceduralViolations
  <2>1. /\ phase' = "reported" /\ UNCHANGED <<pkg, fallback, reachable>>
        /\ diags' = diags \cup UNION {CallDiags(cs) : cs \in CallSites(pkg)}
    BY <1>4 DEF CheckInterproceduralViolations, vars, contextVars
  <2>2. \A d \in diags' : Founded(d)
    BY <2>1, CallDiagsFounded DEF CauseInv, TInv
  <2> QED
    BY <2>1, <2>2, FoundedStays DEF CauseInv
<1>5. CASE CheckExportedGuardedFields
  <2>1. /\ phase' = "export" /\ UNCHANGED <<pkg, fallback, reachable>>
        /\ \A d \in diags' : d \in diags \/ d.kind = "exportedField"
    BY <1>5 DEF CheckExportedGuardedFields, vars, contextVars
  <2>2. \A d \in diags' : Founded(d)
    BY <2>1, OtherKinds DEF CauseInv
  <2> QED
    BY <2>1, <2>2, FoundedStays DEF CauseInv
<1>6. CASE ImportFacts \/ (\E field \in Fields : InferGuard(field)) \/ ExportFacts \/ UNCHANGED svars
  <2>1. /\ UNCHANGED <<pkg, fallback, reachable, diags>>
        /\ phase' = phase \/ phase' \notin {"propagate", "search", "violations"}
    BY <1>6 DEF ImportFacts, InferGuard, ExportFacts, svars, dvars, vars, contextVars
  <2> QED
    BY <2>1, FoundedStays DEF CauseInv
<1> QED
  BY <1>1, <1>2, <1>3, <1>4, <1>5, <1>6 DEF SNext, Phases3And4, DNext

\* A call is reported for want of a lock only if the caller runs concurrently, does not
\* hold the lock, and the callee gets without it to an access or an imported function
\* that needs it; for taking a lock twice only if some function it reaches acquires it.
THEOREM ReportsAreCaused == SSpec => []ReportsHaveCauses
<1>1. SInit => CauseInv
  BY DEF SInit, CauseInv
<1>2. CauseInv => ReportsHaveCauses
  BY DEF CauseInv, Founded, ReportsHaveCauses, Caused
<1> QED
  BY <1>1, <1>2, TInit, TStep, CauseStep, PTL DEF SSpec

-----------------------------------------------------------------------------
(* What a concurrent function without callers is told. *)

\* The directives in force are those of the package.
Directed ==
    /\ annotations.ignored = Marked(Src.decls, Src.comments, "ignore")
    /\ annotations.nolint = {c.line + 1 : c \in {d \in Src.comments : d.kind = "nolint"}}

\* The diagnostics of a phase are there after it, and the loops of Propagation ended.
ToldInv ==
    /\ phase # "import" => Directed
    /\ phase \in {"search", "violations", "calls", "reported", "export"} => pc = "done"
    /\ phase \in {"calls", "reported"} => \A a \in pkg.accesses : AccessDiags(a) \subseteq diags
    /\ phase = "reported" => \A cs \in CallSites(pkg) : CallDiags(cs) \subseteq diags

LEMMA ToldStep == TInv /\ ToldInv /\ [SNext]_svars => ToldInv'
<1> SUFFICES ASSUME TInv, ToldInv, [SNext]_svars PROVE ToldInv'
  OBVIOUS
<1>1. CASE ImportFacts
  <2>1. phase' = "infer" /\ prog' = prog /\ current' = current
    BY <1>1 DEF ImportFacts
  <2>2. Directed'
    BY <1>1, <2>1 DEF ImportFacts, parseAnnotations, Directed, Src
  <2> QED
    BY <2>1, <2>2 DEF ToldInv
<1>2. CASE ExportFacts
  <2>1. /\ phase' \in {"import", "end"} /\ annotations' = annotations /\ prog' = prog
        /\ phase = "export" /\ (phase' = "import" \/ current' = current)
    BY <1>2 DEF ExportFacts, contextVars
  <2> QED
    BY <2>1 DEF ToldInv, Directed, Src
<1>3. CASE /\ \/ EndInference \/ (\E field \in Fields : InferGuard(field)) \/ Propagate \/ ComputeConcurrentContext
              \/ LookAtCallee \/ NextInQueue \/ EndSearch \/ CheckExportedGuardedFields
           /\ prog' = prog /\ current' = current
  <2>1. /\ annotations' = annotations /\ prog' = prog /\ current' = current /\ phase # "import"
        /\ phase' \in {"infer", "propagate", "search", "violations", "export"}
        /\ phase' \in {"search", "violations", "export"} => (phase \in {"search", "reported"} \/ pc = "done") /\ pc' = pc
    BY <1>3 DEF EndInference, InferGuard, Propagate, ComputeConcurrentContext, LookAtCallee, NextInQueue, EndSearch,
         CheckExportedGuardedFields, dvars, vars, contextVars
  <2>2. Directed'
    BY <2>1 DEF ToldInv, Directed, Src
  <2> QED
    BY <2>1, <2>2 DEF ToldInv
<1>4. CASE (CheckViolations \/ CheckInterproceduralViolations \/ UNCHANGED svars) /\ prog' = prog /\ current' = current
  <2>1. UNCHANGED <<annotations, prog, current, vars, contextVars>> /\ diags \subseteq diags'
    BY <1>4 DEF CheckViolations, CheckInterproceduralViolations, svars, dvars, contextVars
  <2>2. Directed => Directed'
    BY <2>1 DEF Directed, Src
  <2>3. /\ \A a : AccessDiags(a)' = AccessDiags(a)
        /\ \A cs : CallDiags(cs)' = CallDiags(cs)
        /\ CallSites(pkg)' = CallSites(pkg) /\ pkg' = pkg /\ pc' = pc
    BY <2>1 DEF AccessDiags, CallDiags, Report, isConcurrent, shouldSuppressDirectViolation, hasCallers, isSuppressed,
         MissingLockDiags, DoubleLockDiags, CallSites, vars, contextVars
  <2>4. CASE CheckViolations
    BY <2>1, <2>2, <2>3, <2>4 DEF ToldInv, CheckViolations
  <2>5. CASE CheckInterproceduralViolations
    BY <2>1, <2>2, <2>3, <2>5 DEF ToldInv, CheckInterproceduralViolations
  <2>6. CASE UNCHANGED svars
    BY <2>1, <2>2, <2>3, <2>6 DEF ToldInv, svars, dvars
  <2> QED
    BY <1>4, <2>4, <2>5, <2>6
<1> QED
  BY <1>1, <1>2, <1>3, <1>4 DEF SNext, Phases3And4, DNext, EndInference, InferGuard, CheckExportedGuardedFields, svars

\* isSuppressed follows a directive.
LEMMA SuppressedIsSilenced ==
    ASSUME DriverTypes, Directed, NEW f, NEW line, isSuppressed(annotations, f, line)
    PROVE  Silenced(f, line)
<1>1. /\ Src.decls \in Seq(Declarations) /\ Src.comments \subseteq Directives
      /\ \A i \in DOMAIN Src.decls : Src.decls[i].line <= Src.decls[i].last
  <2>1. Src \in Sources /\ Recorded(Src)
    BY SourceTypes
  <2> QED
    BY <2>1 DEF Sources, Recorded
<1>2. CASE line \in annotations.nolint
  BY <1>2 DEF Directed, Silenced
<1>3. CASE f \in annotations.ignored
  <2>1. PICK c \in Src.comments : c.kind = "ignore" /\ f \in findFuncForComment(Src.decls, c)
    BY <1>3 DEF Directed, Marked
  <2>2. PICK i \in DOMAIN Src.decls : /\ Src.decls[i].fn = f
                                      /\ Src.decls[i].line \in {c.line, c.line + 1} \/ Inside(c, Src.decls[i])
    BY <2>1 DEF findFuncForComment
  <2>3. /\ Src.decls[i].line \in Nat /\ Src.decls[i].last \in Nat /\ c.line \in Nat
        /\ Src.decls[i].line <= Src.decls[i].last
    <3>1. Src.decls[i] \in Declarations /\ c \in Directives
      BY <1>1
    <3> QED
      BY <1>1, <3>1 DEF Declarations, Directives
  <2>4. c.line \in (Src.decls[i].line - 1)..Src.decls[i].last
    BY <2>2, <2>3 DEF Inside
  <2> QED
    BY <2>1, <2>2, <2>4 DEF Silenced
<1> QED
  BY <1>2, <1>3 DEF isSuppressed

\* The loops of Propagation did not meet their limit, so what a function gets to without
\* a lock is among its requirements.
LEMMA NeedIsRequired ==
    ASSUME PInv, NeverTruncated, pc = "done", NEW f \in Funcs, NEW g \in Funcs, NEW k,
           k \in pkg.requires[f] \cup Direct(pkg, f), ReachesWithout(g, f, k)
    PROVE  k \in requires[g]
<1> DEFINE S == {h \in Funcs : k \in requires[h]}
<1>1. f \in S
  BY DEF PInv, Seeded
<1>2. CallSites(pkg) \subseteq Sites
  BY InputTypes DEF PInv, TypeOK
<1>3. \A cs \in CallSites(pkg) : (cs.callee \in S /\ k \notin cs.held /\ ~cs.prePublication) => cs.caller \in S
  <2>1. RequiresClosed(CallSites(pkg))
    BY DEF PInv, Settling, NeverTruncated
  <2>2. \A cs \in CallSites(pkg) : cs.caller \in Funcs
    BY <1>2 DEF Sites
  <2> QED
    BY <2>1, <2>2 DEF RequiresClosed, PassedOn, callerHoldsMutex
<1>4. g \in S
  <2>1. S \in SUBSET Funcs
    OBVIOUS
  <2> HIDE DEF S
  <2> QED
    BY <1>1, <1>3, <2>1 DEF ReachesWithout
<1> QED
  BY <1>4

LEMMA RootTold ==
    ASSUME TInv, ToldInv, NeverTruncated, phase = "reported",
           NEW g \in Funcs, isConcurrent(g), ~hasCallers(g)
    PROVE  /\ \A a \in Unguarded : a.fn = g =>
                [kind |-> "unguardedAccess", at |-> a, mutex |-> a.guard] \in diags \/ Silenced(g, a.pos)
           /\ \A f \in Funcs, k \in MutexKeys, cs \in CallSites(pkg) :
                (/\ k \in pkg.requires[f] \cup Direct(pkg, f)
                 /\ cs.caller = g /\ k \notin cs.held /\ ~cs.prePublication /\ ReachesWithout(cs.callee, f, k)) =>
                   [kind |-> "missingLock", at |-> cs, mutex |-> k] \in diags \/ Silenced(g, cs.pos)
<1>1. DriverTypes /\ PInv /\ Directed /\ pc = "done"
  BY DEF TInv, ToldInv
<1>2. \A k : ~shouldSuppressDirectViolation(g, k)
  BY DEF shouldSuppressDirectViolation
<1>3. ASSUME NEW a \in Unguarded, a.fn = g
      PROVE  [kind |-> "unguardedAccess", at |-> a, mutex |-> a.guard] \in diags \/ Silenced(g, a.pos)
  <2>1. a \in pkg.accesses /\ a.held = "free" /\ ~a.constructor
    BY DEF Unguarded
  <2>2. AccessDiags(a) \subseteq diags
    BY <2>1 DEF ToldInv
  <2>3. AccessDiags(a) = Report("unguardedAccess", g, a, a.guard)
    BY <1>2, <1>3, <2>1 DEF AccessDiags
  <2> QED
    BY <1>1, <2>2, <2>3, SuppressedIsSilenced DEF Report
<1>4. ASSUME NEW f \in Funcs, NEW k \in MutexKeys, NEW cs \in CallSites(pkg), k \in pkg.requires[f] \cup Direct(pkg, f),
             cs.caller = g, k \notin cs.held, ~cs.prePublication, ReachesWithout(cs.callee, f, k)
      PROVE  [kind |-> "missingLock", at |-> cs, mutex |-> k] \in diags \/ Silenced(g, cs.pos)
  <2>1. cs.callee \in Funcs
    <3>1. CallSites(pkg) \subseteq Sites
      BY <1>1, InputTypes DEF PInv, TypeOK
    <3> QED
      BY <3>1 DEF Sites
  <2>2. k \in requires[cs.callee]
    BY <1>1, <1>4, <2>1, NeedIsRequired
  <2>3. cs.callee \in known
    BY <1>1, <2>1, <2>2 DEF PInv, TypeOK
  <2>4. Report("missingLock", g, cs, k) \subseteq CallDiags(cs)
    BY <1>2, <1>4, <2>2, <2>3 DEF CallDiags, MissingLockDiags, callerHoldsMutex
  <2>5. CallDiags(cs) \subseteq diags
    BY DEF ToldInv
  <2> QED
    BY <1>1, <2>4, <2>5, SuppressedIsSilenced DEF Report
<1> QED
  BY <1>3, <1>4

\* The loops of Propagation do not meet their limit in any pass.
LEMMA PassLimit == LimitSuffices /\ TInv /\ LInv /\ [SNext]_svars => LInv'
<1> SUFFICES ASSUME LimitSuffices, TInv, LInv, [SNext]_svars PROVE LInv'
  OBVIOUS
<1>1. CASE EndInference
  <2>1. Started'
    BY <1>1, EndInferenceTypes
  <2>2. Started' => LInv'
    BY LStart, PTL
  <2> QED
    BY <2>1, <2>2
<1>2. CASE ~EndInference
  <2>1. [Next]_vars
    BY <1>2 DEF SNext, Phases3And4, DNext, ImportFacts, InferGuard, CheckExportedGuardedFields, ExportFacts, Propagate,
         ComputeConcurrentContext, LookAtCallee, NextInQueue, EndSearch, CheckViolations, CheckInterproceduralViolations,
         svars, dvars
  <2> QED
    BY <2>1, LStep
<1> QED
  BY <1>1, <1>2

\* Suppressing a violation in favour of the call sites loses nothing: with a limit no
\* smaller than the number of functions, a concurrent function without callers that gets
\* without a lock to an access or an imported function that needs it is told so.
THEOREM RootsAreTold == LimitSuffices => (SSpec => []RootsToldOfAccess)
<1> SUFFICES ASSUME LimitSuffices PROVE SSpec => []RootsToldOfAccess
  OBVIOUS
<1>1. SInit => ToldInv /\ LInv
  BY SInitTypes, LStart DEF SInit, ToldInv
<1>2. TInv /\ LInv /\ [SNext]_svars => LInv'
  BY PassLimit
<1>3. TInv /\ ToldInv /\ LInv => RootsToldOfAccess
  <2> SUFFICES ASSUME TInv, ToldInv, NeverTruncated, phase = "reported",
                      NEW g \in Funcs, isConcurrent(g), ~hasCallers(g)
               PROVE  /\ \A a \in Unguarded : a.fn = g =>
                           [kind |-> "unguardedAccess", at |-> a, mutex |-> a.guard] \in diags \/ Silenced(g, a.pos)
                      /\ \A need \in {<<a.fn, a.guard>> : a \in Unguarded}
                                     \cup {n \in Funcs \X MutexKeys : n[2] \in pkg.requires[n[1]]} :
                           \A cs \in CallSites(pkg) :
                             (/\ cs.caller = g /\ need[2] \notin cs.held /\ ~cs.prePublication
                              /\ ReachesWithout(cs.callee, need[1], need[2])) =>
                                 [kind |-> "missingLock", at |-> cs, mutex |-> need[2]] \in diags \/ Silenced(g, cs.pos)
    BY DEF RootsToldOfAccess, LInv
  <2>1. ASSUME NEW need \in {<<a.fn, a.guard>> : a \in Unguarded}
                            \cup {n \in Funcs \X MutexKeys : n[2] \in pkg.requires[n[1]]}
        PROVE  need[1] \in Funcs /\ need[2] \in MutexKeys /\ need[2] \in pkg.requires[need[1]] \cup Direct(pkg, need[1])
    <3>1. CASE need \in {<<a.fn, a.guard>> : a \in Unguarded}
      <4>1. PICK a \in Unguarded : need = <<a.fn, a.guard>>
        BY <3>1
      <4>2. a \in Accesses
        BY DEF Unguarded, TInv, PInv, TypeOK, Inputs
      <4> QED
        BY <4>1, <4>2 DEF Unguarded, Direct, Accesses
    <3> QED
      BY <2>1, <3>1
  <2> QED
    BY <2>1, RootTold
<1> QED
  BY <1>1, <1>2, <1>3, TInit, TStep, ToldStep, PTL DEF SSpec

-----------------------------------------------------------------------------
(* One package at a time: the guards. *)

Working == phase \notin {"import", "infer", "end"}

\* The guard of f is one that inferGuards may choose, or f has none and there is none.
Chosen(f) ==
    IF f \in DOMAIN guards THEN guards[f] \in HomeGuard(current, f) ELSE HomeGuard(current, f) = {}

\* The guard of f is the imported one.
Inherited(f) ==
    /\ f \in DOMAIN guards <=> f \in DOMAIN guardFacts
    /\ f \in DOMAIN guards => guards[f] = guardFacts[f]

ChosenInv ==
    /\ phase = "infer" => \A f \in todo : Own(f.type) /\ f \notin DOMAIN guards
    /\ phase = "infer" => \A f \in ObservedFields : Own(f.type) => f \in todo \/ Chosen(f)
    /\ phase = "infer" => \A f \in ObservedFields : ~Own(f.type) => Inherited(f)
    /\ Working => \A f \in ObservedFields : IF Own(f.type) THEN Chosen(f) ELSE Inherited(f)

LEMMA ChosenImport ==
    ASSUME ImportFacts
    PROVE  ChosenInv'
<1>1. /\ phase' = "infer" /\ prog' = prog /\ current' = current /\ guardFacts' = guardFacts
      /\ guards' = ImportedGuards /\ todo' = {f \in ObservedFields : Own(f.type)}
  BY DEF ImportFacts, factVars
<1>2. ~Working' /\ ObservedFields' = ObservedFields /\ \A x : Own(x)' <=> Own(x)
  BY <1>1 DEF Working, ObservedFields, Own, Src
<1>3. \A f \in todo' : f \notin DOMAIN guards'
  BY <1>1 DEF ImportedGuards
<1>4. ASSUME NEW f \in ObservedFields, ~Own(f.type) PROVE Inherited(f)'
  BY <1>1, <1>4 DEF Inherited, ImportedGuards
<1> QED
  BY <1>1, <1>2, <1>3, <1>4 DEF ChosenInv

LEMMA ChosenInfer ==
    ASSUME ChosenInv, NEW field \in Fields, InferGuard(field)
    PROVE  ChosenInv'
<1> DEFINE choices == HomeGuard(current, field)
<1>1. /\ phase = "infer" /\ phase' = "infer" /\ prog' = prog /\ current' = current /\ guardFacts' = guardFacts
      /\ field \in todo /\ todo' = todo \ {field}
  BY DEF InferGuard, dvars, factVars
<1>2. /\ ~Working' /\ ObservedFields' = ObservedFields /\ \A x : Own(x)' <=> Own(x)
      /\ \A i, f : HomeGuard(i, f)' = HomeGuard(i, f)
  BY <1>1 DEF Working, ObservedFields, Own, Src, HomeGuard
<1>3. \/ choices = {} /\ guards' = guards
      \/ \E g \in choices : guards' = [f \in DOMAIN guards \cup {field} |-> IF f = field THEN g ELSE guards[f]]
  BY DEF InferGuard, HomeGuard, ObservationsOf, Src
<1>4. field \notin DOMAIN guards /\ Own(field.type)
  BY <1>1 DEF ChosenInv
<1> HIDE DEF choices
<1>5. IF field \in DOMAIN guards' THEN guards'[field] \in choices ELSE choices = {}
  BY <1>3, <1>4
<1>6. Chosen(field)'
  BY <1>1, <1>2, <1>5 DEF Chosen, choices
<1>7. ASSUME NEW f, f # field PROVE /\ f \in DOMAIN guards' <=> f \in DOMAIN guards
                                    /\ f \in DOMAIN guards => guards'[f] = guards[f]
  BY <1>3, <1>7
<1>8. ASSUME NEW f, f # field PROVE (Chosen(f) => Chosen(f)') /\ (Inherited(f) => Inherited(f)')
  BY <1>1, <1>2, <1>7, <1>8 DEF Chosen, Inherited
<1>9. ASSUME NEW f \in ObservedFields, Own(f.type), f \notin todo' PROVE Chosen(f)'
  <2>1. CASE f = field
    BY <1>6, <2>1
  <2>2. CASE f # field
    BY <1>1, <1>8, <1>9, <2>2 DEF ChosenInv
  <2> QED
    BY <2>1, <2>2
<1>10. ASSUME NEW f \in ObservedFields, ~Own(f.type) PROVE Inherited(f)'
  <2>1. f # field
    BY <1>4, <1>10
  <2>2. Inherited(f)
    BY <1>1, <1>10 DEF ChosenInv
  <2> QED
    BY <1>8, <2>1, <2>2
<1>11. \A f \in todo' : Own(f.type) /\ f \notin DOMAIN guards'
  BY <1>1, <1>7 DEF ChosenInv
<1> QED
  BY <1>1, <1>2, <1>9, <1>10, <1>11 DEF ChosenInv

LEMMA ChosenOther ==
    ASSUME ChosenInv, EndInference \/ Phases3And4 \/ CheckExportedGuardedFields \/ ExportFacts \/ UNCHANGED svars
    PROVE  ChosenInv'
<1>1. CASE ExportFacts
  <2>1. phase' \in {"import", "end"}
    BY <1>1 DEF ExportFacts
  <2> QED
    BY <2>1 DEF ChosenInv, Working
<1>2. CASE ~ExportFacts
  <2>1. UNCHANGED <<prog, current, guards, todo, factVars>>
    BY <1>2 DEF EndInference, Phases3And4, CheckExportedGuardedFields, svars
  <2>2. /\ ObservedFields' = ObservedFields /\ \A x : Own(x)' <=> Own(x)
        /\ \A i, f : HomeGuard(i, f)' = HomeGuard(i, f)
    BY <2>1 DEF ObservedFields, Own, Src, HomeGuard
  <2>3. \A f : (Chosen(f)' <=> Chosen(f)) /\ (Inherited(f)' <=> Inherited(f))
    BY <2>1, <2>2 DEF Chosen, Inherited, factVars
  <2>4. \/ phase' = phase
        \/ phase = "infer" /\ todo = {} /\ phase' # "infer"
        \/ Working /\ phase' # "infer"
    <3>1. CASE Phases3And4
      BY <3>1 DEF Phases3And4, DNext, Propagate, ComputeConcurrentContext, LookAtCallee, NextInQueue, EndSearch,
           CheckViolations, CheckInterproceduralViolations, Working
    <3> QED
      BY <1>2, <3>1 DEF EndInference, CheckExportedGuardedFields, svars, dvars, Working
  <2>5. CASE phase' = phase
    BY <2>1, <2>2, <2>3, <2>5 DEF ChosenInv, Working
  <2>6. CASE phase = "infer" /\ todo = {} /\ phase' # "infer"
    BY <2>1, <2>2, <2>3, <2>6 DEF ChosenInv
  <2>7. CASE Working /\ phase' # "infer"
    BY <2>1, <2>2, <2>3, <2>7 DEF ChosenInv
  <2> QED
    BY <2>4, <2>5, <2>6, <2>7
<1> QED
  BY <1>1, <1>2

LEMMA ChosenStep == ChosenInv /\ [SNext]_svars => ChosenInv'
BY ChosenImport, ChosenInfer, ChosenOther DEF SNext

\* The guard of a field does not depend on the order of the counts.
LEMMA HomeIndex ==
    ASSUME DriverTypes, NEW i \in DOMAIN prog, NEW f, NEW g \in HomeGuard(i, f), NEW h \in HomeGuard(i, f)
    PROVE  g.mutexFieldIndex = h.mutexFieldIndex
<1> DEFINE observations == {o \in prog[i].observations : o.field = f}
<1> DEFINE obs == NonConstructor(observations)
<1>1. prog[i] \in Sources /\ Recorded(prog[i])
  BY PassesAssumption DEF DriverTypes, WellOrdered
<1>2. prog[i].observations \subseteq Observations
  BY <1>1 DEF Sources
<1>3. \A o \in prog[i].observations : \A x \in o.held : x[1] \in Nat
  BY <1>2 DEF Observations
<1>4. Countable(observations)
  BY <1>1, <1>3, FS_Subset DEF Countable, Recorded
<1>5. Countable(obs)
  BY <1>4, FS_Subset DEF Countable, NonConstructor
<1>6. HomeGuard(i, f) = GuardChoices(f.index, observations)
  BY DEF HomeGuard
<1> HIDE DEF observations
<1>7. Prevails(f.index, obs, g.mutexFieldIndex) /\ Prevails(f.index, obs, h.mutexFieldIndex)
  BY <1>4, <1>6, GuardChoicesExact
<1> HIDE DEF obs
<1>8. PICK w \in BOOLEAN : w = (Counted(f.index, obs, TRUE) # {})
  OBVIOUS
<1>9. Most(f.index, obs, w, g.mutexFieldIndex) /\ Most(f.index, obs, w, h.mutexFieldIndex)
  BY <1>7, <1>8 DEF Prevails, Most
<1>10. /\ Counted(f.index, obs, w) \in SUBSET Nat
       /\ \A j : Cardinality(Holding(obs, w, j)) \in Nat
  BY <1>5, CountedTypes
<1> QED
  BY <1>9, <1>10 DEF Most

\* The guard facts are those of the packages before the current one.
GuardFactsInv ==
    phase # "end" =>
      /\ \A f \in DOMAIN guardFacts :
           /\ f.type \in Exported
           /\ \E j \in 1..(current - 1) : f.type \in prog[j].members /\ guardFacts[f] \in HomeGuard(j, f)
      /\ \A j \in 1..(current - 1) : \A f \in Fields :
           (f.type \in prog[j].members /\ f.type \in Exported /\ HomeGuard(j, f) # {}) => f \in DOMAIN guardFacts

\* A function or a type is declared in one package.
LEMMA OneHome ==
    ASSUME DriverTypes, NEW i \in DOMAIN prog, NEW j \in DOMAIN prog, NEW x, x \in prog[i].members, x \in prog[j].members
    PROVE  i = j
<1>1. prog \in Seq(Sources) /\ WellOrdered(prog)
  BY PassesAssumption DEF DriverTypes
<1>2. i \in Nat /\ j \in Nat /\ i >= 1 /\ j >= 1
  BY <1>1
<1>3. (i < j => i \in 1..(j - 1)) /\ (j < i => j \in 1..(i - 1))
  BY <1>2
<1> QED
  BY <1>1, <1>2, <1>3 DEF WellOrdered

LEMMA EarlierPackages ==
    ASSUME DriverTypes
    PROVE  /\ \A j \in 1..current : j \in DOMAIN prog /\ j \in Nat
           /\ current \in 1..current
           /\ \A j \in 1..(current - 1) : j \in 1..current /\ j # current
           /\ \A j \in 1..current : j # current => j \in 1..(current - 1)
BY SourceTypes

\* A pass knows the guard of a field that it accesses if the field's own package finds one
\* and the type is its own or exported.
LEMMA GuardKnown ==
    ASSUME TInv, ChosenInv, GuardFactsInv, Working, NEW o \in Src.observations, NEW k
    PROVE  (o.field \in DOMAIN guards /\ GuardKey(o.field) = k) <=>
             \E j \in 1..current : \E g \in HomeGuard(j, o.field) :
               /\ o.field.type \in prog[j].members /\ (current = j \/ o.field.type \in Exported)
               /\ k = [type |-> o.field.type, index |-> g.mutexFieldIndex]
<1>1. DriverTypes /\ phase # "end"
  BY DEF TInv, Working
<1>2. o.field \in ObservedFields /\ o.field \in Fields
  BY <1>1, SourceTypes DEF ObservedFields
<1>3. IF Own(o.field.type) THEN Chosen(o.field) ELSE Inherited(o.field)
  BY <1>2 DEF ChosenInv
<1>4. ASSUME o.field \in DOMAIN guards, GuardKey(o.field) = k
      PROVE  \E j \in 1..current : \E g \in HomeGuard(j, o.field) :
               /\ o.field.type \in prog[j].members /\ (current = j \/ o.field.type \in Exported)
               /\ k = [type |-> o.field.type, index |-> g.mutexFieldIndex]
  <2>1. k = [type |-> o.field.type, index |-> guards[o.field].mutexFieldIndex]
    BY <1>4 DEF GuardKey
  <2>2. CASE Own(o.field.type)
    <3>1. guards[o.field] \in HomeGuard(current, o.field)
      BY <1>3, <1>4, <2>2 DEF Chosen
    <3>2. o.field.type \in prog[current].members
      BY <2>2 DEF Own, Src
    <3> QED
      BY <1>1, <2>1, <3>1, <3>2, EarlierPackages
  <2>3. CASE ~Own(o.field.type)
    <3>1. o.field \in DOMAIN guardFacts /\ guards[o.field] = guardFacts[o.field]
      BY <1>3, <1>4, <2>3 DEF Inherited
    <3>2. PICK j \in 1..(current - 1) : /\ o.field.type \in prog[j].members
                                        /\ guardFacts[o.field] \in HomeGuard(j, o.field)
      BY <1>1, <3>1 DEF GuardFactsInv
    <3>3. j \in 1..current /\ o.field.type \in Exported
      BY <1>1, <3>1, EarlierPackages DEF GuardFactsInv
    <3> QED
      BY <2>1, <3>1, <3>2, <3>3
  <2> QED
    BY <2>2, <2>3
<1>5. ASSUME NEW j \in 1..current, NEW g \in HomeGuard(j, o.field),
             o.field.type \in prog[j].members, current = j \/ o.field.type \in Exported,
             k = [type |-> o.field.type, index |-> g.mutexFieldIndex]
      PROVE  o.field \in DOMAIN guards /\ GuardKey(o.field) = k
  <2>1. current \in DOMAIN prog /\ j \in DOMAIN prog
    BY <1>1, EarlierPackages
  <2>2. ASSUME o.field \in DOMAIN guards, guards[o.field] \in HomeGuard(j, o.field) PROVE GuardKey(o.field) = k
    <3>1. guards[o.field].mutexFieldIndex = g.mutexFieldIndex
      BY <1>1, <2>1, <2>2, HomeIndex
    <3> QED
      BY <1>5, <3>1 DEF GuardKey
  <2>3. CASE j = current
    <3>1. Own(o.field.type)
      BY <1>5, <2>3 DEF Own, Src
    <3> QED
      BY <1>3, <2>2, <2>3, <3>1 DEF Chosen
  <2>4. CASE j # current
    <3>1. j \in 1..(current - 1)
      BY <1>1, <2>4, EarlierPackages
    <3>2. ~Own(o.field.type)
      BY <1>1, <1>5, <2>1, <2>4, OneHome DEF Own, Src
    <3>3. o.field \in DOMAIN guardFacts
      BY <1>1, <1>2, <1>5, <2>4, <3>1 DEF GuardFactsInv
    <3>4. PICK i \in 1..(current - 1) : /\ o.field.type \in prog[i].members
                                        /\ guardFacts[o.field] \in HomeGuard(i, o.field)
      BY <1>1, <3>3 DEF GuardFactsInv
    <3>5. i = j
      BY <1>1, <1>5, <2>1, <3>4, EarlierPackages, OneHome
    <3>6. o.field \in DOMAIN guards /\ guards[o.field] = guardFacts[o.field]
      BY <1>3, <3>2, <3>3 DEF Inherited
    <3> QED
      BY <2>2, <3>4, <3>5, <3>6
  <2> QED
    BY <2>3, <2>4
<1> QED
  BY <1>4, <1>5

\* What deriveInitialRequirements finds is what the packages so far say.
LEMMA DirectKnown ==
    ASSUME TInv, ChosenInv, GuardFactsInv, Working, NEW f \in Funcs, NEW k \in MutexKeys
    PROVE  k \in Direct(PassInput, f) <=> k \in DirectIn(current, f)
<1>1. DriverTypes /\ Src.observations \subseteq Observations
  BY SourceTypes DEF TInv
<1>2. ASSUME NEW o \in Src.observations
      PROVE  ModeHeld(o) = "free" <=> ~HoldsMutex(o, guards[o.field].mutexFieldIndex)
  <2>1. \A h \in o.held : h[2] \in {"shared", "exclusive"}
    BY <1>1 DEF Observations
  <2> DEFINE modes == {h[2] : h \in {x \in o.held : x[1] = guards[o.field].mutexFieldIndex}}
  <2>2. modes = {} <=> ~HoldsMutex(o, guards[o.field].mutexFieldIndex)
    BY DEF HoldsMutex
  <2>3. modes # {} => ModeHeld(o) \in {"shared", "exclusive"}
    BY <2>1 DEF ModeHeld
  <2>4. modes = {} => ModeHeld(o) = "free"
    BY DEF ModeHeld
  <2> QED
    BY <2>2, <2>3, <2>4
<1>3. k \in Direct(PassInput, f) <=>
        \E o \in Src.observations : /\ o.field \in DOMAIN guards /\ GuardKey(o.field) = k
                                    /\ o.fn = f /\ ~o.constructor /\ ModeHeld(o) = "free"
  <2>1. PassInput.accesses = {AccessOf(o) : o \in {x \in Src.observations : x.field \in DOMAIN guards}}
    BY DEF PassInput
  <2>2. \A o : /\ AccessOf(o).fn = o.fn /\ AccessOf(o).constructor = o.constructor
               /\ AccessOf(o).held = ModeHeld(o) /\ AccessOf(o).guard = GuardKey(o.field)
    BY DEF AccessOf
  <2> QED
    BY <2>1, <2>2 DEF Direct
<1>4. k \in DirectIn(current, f) <=>
        \E o \in Src.observations : \E j \in 1..current : \E g \in HomeGuard(j, o.field) :
               /\ o.fn = f /\ ~o.constructor
               /\ o.field.type \in prog[j].members /\ (current = j \/ o.field.type \in Exported)
               /\ k = [type |-> o.field.type, index |-> g.mutexFieldIndex]
               /\ ~HoldsMutex(o, g.mutexFieldIndex)
  BY DEF DirectIn, Src
<1>5. ASSUME NEW o \in Src.observations, o.field \in DOMAIN guards, GuardKey(o.field) = k
      PROVE  guards[o.field].mutexFieldIndex = k.index
  BY <1>5 DEF GuardKey
<1>6. ASSUME k \in Direct(PassInput, f) PROVE k \in DirectIn(current, f)
  <2>1. PICK o \in Src.observations : /\ o.field \in DOMAIN guards /\ GuardKey(o.field) = k
                                      /\ o.fn = f /\ ~o.constructor /\ ModeHeld(o) = "free"
    BY <1>3, <1>6
  <2>2. PICK j \in 1..current : \E g \in HomeGuard(j, o.field) :
               /\ o.field.type \in prog[j].members /\ (current = j \/ o.field.type \in Exported)
               /\ k = [type |-> o.field.type, index |-> g.mutexFieldIndex]
    BY <2>1, GuardKnown
  <2>3. PICK g \in HomeGuard(j, o.field) :
               /\ o.field.type \in prog[j].members /\ (current = j \/ o.field.type \in Exported)
               /\ k = [type |-> o.field.type, index |-> g.mutexFieldIndex]
    BY <2>2
  <2>4. g.mutexFieldIndex = k.index
    BY <2>3
  <2>5. ~HoldsMutex(o, g.mutexFieldIndex)
    BY <1>2, <1>5, <2>1, <2>4
  <2> QED
    BY <1>4, <2>1, <2>3, <2>5
<1>7. ASSUME k \in DirectIn(current, f) PROVE k \in Direct(PassInput, f)
  <2>1. PICK o \in Src.observations, j \in 1..current : \E g \in HomeGuard(j, o.field) :
               /\ o.fn = f /\ ~o.constructor
               /\ o.field.type \in prog[j].members /\ (current = j \/ o.field.type \in Exported)
               /\ k = [type |-> o.field.type, index |-> g.mutexFieldIndex]
               /\ ~HoldsMutex(o, g.mutexFieldIndex)
    BY <1>4, <1>7
  <2>2. PICK g \in HomeGuard(j, o.field) :
               /\ o.fn = f /\ ~o.constructor
               /\ o.field.type \in prog[j].members /\ (current = j \/ o.field.type \in Exported)
               /\ k = [type |-> o.field.type, index |-> g.mutexFieldIndex]
               /\ ~HoldsMutex(o, g.mutexFieldIndex)
    BY <2>1
  <2>3. o.field \in DOMAIN guards /\ GuardKey(o.field) = k
    BY <2>2, GuardKnown
  <2>4. g.mutexFieldIndex = k.index
    BY <2>2
  <2>5. ModeHeld(o) = "free"
    BY <1>2, <1>5, <2>2, <2>3, <2>4
  <2> QED
    BY <1>3, <2>2, <2>3, <2>5
<1> QED
  BY <1>6, <1>7

\* The guards of the package's own structs are of accessed fields.
ObservedInv ==
    phase \notin {"import", "end"} =>
      todo \subseteq ObservedFields /\ \A f \in DOMAIN guards : Own(f.type) => f \in ObservedFields

LEMMA ObservedStep == ObservedInv /\ [SNext]_svars => ObservedInv'
<1> SUFFICES ASSUME ObservedInv, [SNext]_svars PROVE ObservedInv'
  OBVIOUS
<1>1. CASE ImportFacts
  <2>1. /\ prog' = prog /\ current' = current
        /\ guards' = ImportedGuards /\ todo' = {f \in ObservedFields : Own(f.type)}
    BY <1>1 DEF ImportFacts
  <2>2. ObservedFields' = ObservedFields /\ \A x : Own(x)' <=> Own(x)
    BY <2>1 DEF ObservedFields, Own, Src
  <2> QED
    BY <2>1, <2>2 DEF ObservedInv, ImportedGuards
<1>2. CASE ExportFacts
  BY <1>2 DEF ExportFacts, ObservedInv
<1>3. CASE \E field \in Fields : InferGuard(field)
  <2>1. PICK field \in Fields : InferGuard(field)
    BY <1>3
  <2>2. /\ prog' = prog /\ current' = current /\ phase' = phase /\ phase = "infer" /\ field \in todo /\ todo' \subseteq todo
        /\ \A f \in DOMAIN guards' : f \in DOMAIN guards \/ f = field
    BY <2>1 DEF InferGuard, dvars
  <2>3. ObservedFields' = ObservedFields /\ \A x : Own(x)' <=> Own(x)
    BY <2>2 DEF ObservedFields, Own, Src
  <2> QED
    BY <2>2, <2>3 DEF ObservedInv
<1>4. CASE EndInference \/ Phases3And4 \/ CheckExportedGuardedFields \/ UNCHANGED svars
  <2>1. UNCHANGED <<prog, current, guards, todo>> /\ (phase' \notin {"import", "end"} => phase \notin {"import", "end"})
    <3>1. CASE Phases3And4
      BY <3>1 DEF Phases3And4, DNext, Propagate, ComputeConcurrentContext, LookAtCallee, NextInQueue, EndSearch,
           CheckViolations, CheckInterproceduralViolations
    <3> QED
      BY <1>4, <3>1 DEF EndInference, CheckExportedGuardedFields, svars, dvars
  <2>2. ObservedFields' = ObservedFields /\ \A x : Own(x)' <=> Own(x)
    BY <2>1 DEF ObservedFields, Own, Src
  <2> QED
    BY <2>1, <2>2 DEF ObservedInv
<1> QED
  BY <1>1, <1>2, <1>3, <1>4 DEF SNext

\* A field that is not accessed in the package gets no guard there.
LEMMA NotObserved ==
    ASSUME NEW f, HomeGuard(current, f) # {}
    PROVE  f \in ObservedFields
<1>1. {o \in prog[current].observations : o.field = f} # {}
  <2> SUFFICES ASSUME {o \in prog[current].observations : o.field = f} = {} PROVE FALSE
    OBVIOUS
  <2>1. GuardChoices(f.index, {}) = {}
    BY DEF GuardChoices, NonConstructor
  <2> QED
    BY <2>1 DEF HomeGuard
<1> QED
  BY <1>1 DEF ObservedFields, Src

LEMMA GuardFactsStep ==
    ASSUME TInv, ChosenInv, ObservedInv, GuardFactsInv, [SNext]_svars
    PROVE  GuardFactsInv'
<1>1. DriverTypes /\ prog' = prog
  BY DEF TInv, SNext, ImportFacts, InferGuard, EndInference, Phases3And4, CheckExportedGuardedFields, ExportFacts, svars
<1>2. \A i, f : HomeGuard(i, f)' = HomeGuard(i, f)
  BY <1>1 DEF HomeGuard
<1>3. CASE ~ExportFacts
  <2>1. current' = current /\ guardFacts' = guardFacts
    BY <1>3 DEF SNext, ImportFacts, InferGuard, EndInference, Phases3And4, CheckExportedGuardedFields, svars, factVars
  <2>2. phase' # "end" => phase # "end"
    <3>1. CASE Phases3And4
      BY <3>1 DEF Phases3And4, DNext, Propagate, ComputeConcurrentContext, LookAtCallee, NextInQueue, EndSearch,
           CheckViolations, CheckInterproceduralViolations
    <3> QED
      BY <1>3, <3>1 DEF SNext, ImportFacts, InferGuard, EndInference, CheckExportedGuardedFields, svars, dvars
  <2> QED
    BY <1>1, <1>2, <2>1, <2>2 DEF GuardFactsInv
<1>4. CASE ExportFacts /\ phase' # "end"
  <2>1. phase = "export" /\ current' = current + 1 /\ guardFacts' = ExportedGuards
    BY <1>4 DEF ExportFacts
  <2>2. current \in Nat /\ 1..(current' - 1) = 1..current
    BY <1>1, <2>1, SourceTypes
  <2> DEFINE own == {f \in DOMAIN guards : Own(f.type) /\ f.type \in Exported}
  <2>3. guardFacts' = [f \in DOMAIN guardFacts \cup own |-> IF f \in own THEN guards[f] ELSE guardFacts[f]]
    BY <2>1 DEF ExportedGuards
  <2>4. ASSUME NEW f \in own PROVE f.type \in Exported /\ f.type \in prog[current].members /\ guards[f] \in HomeGuard(current, f)
    <3>1. f \in ObservedFields /\ Own(f.type) /\ f \in DOMAIN guards
      BY <2>1 DEF ObservedInv
    <3>2. Chosen(f)
      BY <2>1, <3>1 DEF ChosenInv, Working
    <3> QED
      BY <3>1, <3>2 DEF Chosen, Own, Src
  <2>5. ASSUME NEW f \in Fields, f.type \in prog[current].members, f.type \in Exported, HomeGuard(current, f) # {}
        PROVE  f \in own
    <3>1. f \in ObservedFields /\ Own(f.type)
      BY <2>5, NotObserved DEF Own, Src
    <3>2. Chosen(f)
      BY <2>1, <3>1 DEF ChosenInv, Working
    <3> QED
      BY <2>5, <3>1, <3>2 DEF Chosen
  <2> HIDE DEF own
  <2>6. ASSUME NEW f \in DOMAIN guardFacts'
        PROVE  /\ f.type \in Exported
               /\ \E j \in 1..current : f.type \in prog[j].members /\ guardFacts'[f] \in HomeGuard(j, f)
    <3>1. CASE f \in own
      BY <1>1, <2>3, <2>4, <3>1, EarlierPackages
    <3>2. CASE f \notin own
      <4>1. f \in DOMAIN guardFacts /\ guardFacts'[f] = guardFacts[f]
        BY <2>3, <2>6, <3>2
      <4>2. PICK j \in 1..(current - 1) : f.type \in prog[j].members /\ guardFacts[f] \in HomeGuard(j, f)
        BY <2>1, <4>1 DEF GuardFactsInv
      <4>3. f.type \in Exported
        BY <2>1, <4>1 DEF GuardFactsInv
      <4> QED
        BY <1>1, <4>1, <4>2, <4>3, EarlierPackages
    <3> QED
      BY <3>1, <3>2
  <2>7. ASSUME NEW j \in 1..current, NEW f \in Fields, f.type \in prog[j].members, f.type \in Exported, HomeGuard(j, f) # {}
        PROVE  f \in DOMAIN guardFacts'
    <3>1. CASE j = current
      BY <2>3, <2>5, <2>7, <3>1
    <3>2. CASE j # current
      <4>1. j \in 1..(current - 1)
        BY <1>1, <3>2, EarlierPackages
      <4> QED
        BY <2>1, <2>3, <2>7, <4>1 DEF GuardFactsInv
    <3> QED
      BY <3>1, <3>2
  <2> QED
    BY <1>1, <1>2, <2>2, <2>6, <2>7 DEF GuardFactsInv
<1>5. CASE phase' = "end"
  BY <1>5 DEF GuardFactsInv
<1> QED
  BY <1>3, <1>4, <1>5

-----------------------------------------------------------------------------
(* One package at a time: the facts about functions. *)

\* S has the functions of package i that require k, respectively acquire it.
NeedsIn(i, k, S) ==
    /\ \A f \in Funcs : k \in DirectIn(i, f) => f \in S
    /\ \A cs \in CallSites(prog[i]) :
         (cs.callee \in S /\ k \in PassedOn(cs, {k}) /\ Passes(i, cs, k)) => cs.caller \in S
AcquiresIn(i, k, S) ==
    /\ \A f \in Funcs : k \in prog[i].acquires[f] => f \in S
    /\ \A cs \in CallSites(prog[i]) : (cs.callee \in S /\ Passes(i, cs, k)) => cs.caller \in S

\* S has those of the packages up to package n.
NeedsUpTo(n, k, S) == \A i \in 1..n : NeedsIn(i, k, S)
AcquiresUpTo(n, k, S) == \A i \in 1..n : AcquiresIn(i, k, S)

\* W is such a set, of functions of these packages whose facts say so where they are exported.
NeedsWitness(n, k, W) ==
    /\ W \subseteq Funcs /\ NeedsUpTo(n, k, W)
    /\ \A f \in W : \E i \in 1..n : f \in prog[i].members
    /\ \A f \in W : f \in Exported => k \in funcFacts[f].requires
AcquiresWitness(n, k, W) ==
    /\ W \subseteq Funcs /\ AcquiresUpTo(n, k, W)
    /\ \A f \in W : \E i \in 1..n : f \in prog[i].members
    /\ \A f \in W : f \in Exported => k \in funcFacts[f].acquiresTransitive

\* The facts exported so far say of each exported function what the packages before the
\* current one say of it, neither more (Sound) nor less (a witness).
NeedsSound(k) ==
    \A S \in SUBSET Funcs : NeedsUpTo(current - 1, k, S) => \A f \in Funcs : k \in funcFacts[f].requires => f \in S
AcquiresSound(k) ==
    \A S \in SUBSET Funcs : AcquiresUpTo(current - 1, k, S) =>
      \A f \in Funcs : k \in funcFacts[f].acquires \cup funcFacts[f].acquiresTransitive => f \in S
FuncFactsInv ==
    phase # "end" =>
      /\ \A f \in Funcs : funcFacts[f].requires \cup funcFacts[f].acquires \cup funcFacts[f].acquiresTransitive # {} =>
           f \in Exported
      /\ \A k \in MutexKeys : NeedsSound(k) /\ AcquiresSound(k)
      /\ \A k \in MutexKeys : \E W : NeedsWitness(current - 1, k, W)
      /\ \A k \in MutexKeys : \E W : AcquiresWitness(current - 1, k, W)

\* The package under analysis has what the walk and the imports gave.
InputInv == Working => pkg = PassInput

\* What a pass imports about a callee.
LEMMA ImportedFacts ==
    ASSUME DriverTypes, NEW f \in Funcs, NEW k
    PROVE  /\ k \in PassInput.requires[f] <=>
                f \in ImportedCallees /\ k \in funcFacts[f].requires /\ Resolvable(Src, k)
           /\ k \in PassInput.acquires[f] <=>
                k \in Src.acquires[f] \/ (f \in ImportedCallees /\ k \in funcFacts[f].acquires /\ Resolvable(Src, k))
           /\ k \in PassInput.acquiresTransitive[f] <=>
                f \in ImportedCallees /\ k \in funcFacts[f].acquiresTransitive /\ Resolvable(Src, k)
<1>1. /\ PassInput.requires[f] = Known(f, "requires")
      /\ PassInput.acquires[f] = Src.acquires[f] \cup Known(f, "acquires")
      /\ PassInput.acquiresTransitive[f] = Known(f, "acquiresTransitive")
  BY DEF PassInput
<1> QED
  BY <1>1 DEF Known

LEMMA SameSites == CallSites(PassInput) = CallSites(Src)
<1>1. PassInput.sites = Src.sites
  BY DEF PassInput
<1> QED
  BY <1>1 DEF CallSites

\* Calls and accesses are of the package's own functions.
LEMMA OwnCalls ==
    ASSUME DriverTypes
    PROVE  /\ \A cs \in CallSites(Src) : Own(cs.caller) /\ cs.caller \in Funcs /\ cs.callee \in Funcs
           /\ \A f \in Funcs : Src.acquires[f] # {} => Own(f)
           /\ \A f \in Funcs : DirectIn(current, f) # {} => Own(f)
<1>1. Recorded(Src) /\ CallSites(Src) \subseteq Sites
  BY SourceTypes
<1>2. ASSUME NEW f \in Funcs, DirectIn(current, f) # {} PROVE Own(f)
  <2>1. PICK o \in prog[current].observations : o.fn = f
    BY <1>2 DEF DirectIn
  <2> QED
    BY <1>1, <2>1 DEF Recorded, Own, Src
<1> QED
  BY <1>1, <1>2 DEF Recorded, Own, Sites

\* What a pass finds that its functions require, the packages so far say.
LEMMA PassNeedsSound ==
    ASSUME TInv, ChosenInv, GuardFactsInv, FuncFactsInv, InputInv, Working,
           NEW k \in MutexKeys, NEW S \in SUBSET Funcs, NeedsUpTo(current, k, S),
           NEW g \in Funcs, Own(g), k \in requires[g]
    PROVE  g \in S
<1> DEFINE T == {f \in Funcs : (f \in S /\ Own(f)) \/ k \in pkg.requires[f]}
<1> DEFINE R == [f \in Funcs |-> {x \in MutexKeys : x = k => f \in T}]
<1>1. /\ DriverTypes /\ PInv /\ pkg = PassInput /\ phase # "end"
      /\ pkg \in Inputs /\ pkg.requires \in LockSets /\ pkg.accesses \subseteq Accesses
  BY InputTypes DEF TInv, InputInv, Working, PInv, TypeOK, Inputs
<1>2. NeedsIn(current, k, S) /\ NeedsUpTo(current - 1, k, S)
  BY <1>1, EarlierPackages DEF NeedsUpTo
<1>3. ASSUME NEW f \in Funcs, k \in pkg.requires[f] PROVE f \in S /\ f \in Exported /\ Resolvable(Src, k) /\ ~Own(f)
  <2>1. f \in ImportedCallees /\ k \in funcFacts[f].requires /\ Resolvable(Src, k)
    BY <1>1, <1>3, ImportedFacts
  <2>2. NeedsSound(k) /\ f \in Exported
    BY <1>1, <2>1 DEF FuncFactsInv
  <2> QED
    BY <1>2, <2>1, <2>2 DEF NeedsSound, ImportedCallees
<1>4. R \in LockSets /\ \A f \in Funcs : k \in R[f] <=> f \in T
  BY DEF LockSets
<1>5. \A f \in Funcs : \A x \in MutexKeys : x # k => x \in R[f]
  OBVIOUS
<1>6. \A f \in Funcs : R[f] \subseteq MutexKeys
  OBVIOUS
<1> HIDE DEF R
<1>7. ASSUME NEW f \in Funcs, NEW x \in pkg.requires[f] \cup Direct(pkg, f) PROVE x \in R[f]
  <2>1. x \in MutexKeys
    BY <1>1 DEF LockSets, Direct, Accesses
  <2>2. ASSUME k \in Direct(pkg, f) PROVE f \in T
    <3>1. k \in DirectIn(current, f)
      BY <1>1, <2>2, DirectKnown
    <3>2. f \in S /\ Own(f)
      BY <1>1, <1>2, <3>1, OwnCalls DEF NeedsIn
    <3> QED
      BY <3>2
  <2>3. CASE x = k
    BY <1>4, <1>7, <2>2, <2>3
  <2>4. CASE x # k
    BY <1>5, <2>1, <2>4
  <2> QED
    BY <2>3, <2>4
<1>8. ASSUME NEW cs \in CallSites(pkg), NEW x \in R[cs.callee], x \notin cs.held, ~cs.prePublication
      PROVE  x \in R[cs.caller]
  <2>1. cs \in CallSites(Src) /\ CallSites(Src) = CallSites(prog[current])
    BY <1>1, <1>8, SameSites DEF Src
  <2>2. cs.caller \in Funcs /\ cs.callee \in Funcs /\ Own(cs.caller)
    BY <1>1, <2>1, OwnCalls
  <2>3. CASE x = k
    <3>1. cs.callee \in T
      BY <1>4, <2>2, <2>3
    <3>2. cs.callee \in S /\ Passes(current, cs, k)
      BY <1>3, <2>2, <3>1 DEF Passes, Own, Src
    <3>3. k \in PassedOn(cs, {k})
      BY <1>8, <2>3 DEF PassedOn, callerHoldsMutex
    <3>4. cs.caller \in S
      BY <1>2, <2>1, <3>2, <3>3 DEF NeedsIn
    <3> QED
      BY <1>4, <2>2, <2>3, <3>4
  <2>4. CASE x # k
    BY <1>5, <1>6, <2>2, <2>4
  <2> QED
    BY <2>3, <2>4
<1>9. SolvesRequires(pkg, R)
  BY <1>7, <1>8 DEF SolvesRequires
<1>10. requires[g] \subseteq R[g]
  BY <1>1, <1>4, <1>9 DEF PInv, NothingSpurious, Contained
<1>11. g \in T
  BY <1>4, <1>10
<1> QED
  BY <1>3, <1>11

\* The same for what they acquire.
LEMMA PassAcquiresSound ==
    ASSUME TInv, FuncFactsInv, InputInv, Working,
           NEW k \in MutexKeys, NEW S \in SUBSET Funcs, AcquiresUpTo(current, k, S),
           NEW g \in Funcs, Own(g), k \in pkg.acquires[g] \cup acquiresTransitive[g]
    PROVE  g \in S
<1> DEFINE T == {f \in Funcs : (f \in S /\ Own(f)) \/ k \in pkg.acquires[f] \cup pkg.acquiresTransitive[f]}
<1> DEFINE A == [f \in Funcs |-> {x \in MutexKeys : x = k => f \in T}]
<1>1. /\ DriverTypes /\ PInv /\ pkg = PassInput /\ phase # "end"
      /\ pkg \in Inputs /\ pkg.acquires \in LockSets /\ pkg.acquiresTransitive \in LockSets
  BY InputTypes DEF TInv, InputInv, Working, PInv, TypeOK
<1>2. AcquiresIn(current, k, S) /\ AcquiresUpTo(current - 1, k, S)
  BY <1>1, EarlierPackages DEF AcquiresUpTo
<1>3. ASSUME NEW f \in Funcs, k \in pkg.acquires[f] \cup pkg.acquiresTransitive[f]
      PROVE  f \in S /\ (Own(f) \/ (f \in Exported /\ Resolvable(Src, k)))
  <2>1. \/ k \in Src.acquires[f]
        \/ /\ k \in funcFacts[f].acquires \cup funcFacts[f].acquiresTransitive
           /\ Resolvable(Src, k)
    BY <1>1, <1>3, ImportedFacts
  <2>2. CASE k \in Src.acquires[f]
    <3>1. Own(f)
      BY <1>1, <2>2, OwnCalls
    <3>2. f \in S
      BY <1>2, <2>2 DEF AcquiresIn, Src
    <3> QED
      BY <3>1, <3>2
  <2>3. CASE k \in funcFacts[f].acquires \cup funcFacts[f].acquiresTransitive /\ Resolvable(Src, k)
    <3>1. AcquiresSound(k) /\ f \in Exported
      BY <1>1, <2>3 DEF FuncFactsInv
    <3> QED
      BY <1>2, <2>3, <3>1 DEF AcquiresSound
  <2> QED
    BY <2>1, <2>2, <2>3
<1>4. A \in LockSets /\ \A f \in Funcs : k \in A[f] <=> f \in T
  BY DEF LockSets
<1>5. \A f \in Funcs : \A x \in MutexKeys : x # k => x \in A[f]
  OBVIOUS
<1>6. \A f \in Funcs : A[f] \subseteq MutexKeys
  OBVIOUS
<1>7. \A f \in Funcs : pkg.acquiresTransitive[f] \cup pkg.acquires[f] \subseteq A[f]
  BY <1>1 DEF LockSets
<1> HIDE DEF A
<1>8. ASSUME NEW cs \in CallSites(pkg), NEW x \in A[cs.callee]
      PROVE  x \in A[cs.caller]
  <2>1. cs \in CallSites(Src) /\ CallSites(Src) = CallSites(prog[current])
    BY <1>1, <1>8, SameSites DEF Src
  <2>2. cs.caller \in Funcs /\ cs.callee \in Funcs /\ Own(cs.caller)
    BY <1>1, <2>1, OwnCalls
  <2>3. CASE x = k
    <3>1. cs.callee \in T
      BY <1>4, <2>2, <2>3
    <3>2. cs.callee \in S /\ Passes(current, cs, k)
      BY <1>3, <2>2, <3>1 DEF Passes, Own, Src
    <3>3. cs.caller \in S
      BY <1>2, <2>1, <3>2 DEF AcquiresIn
    <3> QED
      BY <1>4, <2>2, <2>3, <3>3
  <2>4. CASE x # k
    BY <1>5, <1>6, <2>2, <2>4
  <2> QED
    BY <2>3, <2>4
<1>9. SolvesAcquires(pkg, A)
  BY <1>7, <1>8 DEF SolvesAcquires
<1>10. acquiresTransitive[g] \subseteq A[g]
  BY <1>1, <1>4, <1>9 DEF PInv, NothingSpurious, Contained
<1>11. g \in T
  BY <1>4, <1>7, <1>10
<1> QED
  BY <1>3, <1>11

\* No earlier package calls the current one.
LEMMA CallsGoBack ==
    ASSUME DriverTypes, NEW i \in 1..(current - 1), NEW cs \in CallSites(prog[i])
    PROVE  ~Own(cs.callee)
<1>1. prog \in Seq(Sources) /\ WellOrdered(prog) /\ current \in DOMAIN prog
  BY PassesAssumption DEF DriverTypes
<1> QED
  BY <1>1 DEF WellOrdered, Own, Src

LEMMA NotOwnBefore ==
    ASSUME DriverTypes, NEW i \in 1..(current - 1), NEW f, f \in prog[i].members
    PROVE  ~Own(f)
<1>1. i \in DOMAIN prog /\ current \in DOMAIN prog /\ i # current
  BY EarlierPackages
<1> QED
  BY <1>1, OneHome DEF Own, Src

\* What the packages so far say that a function requires, a pass whose loops did not meet
\* their limit finds.
LEMMA PassNeedsComplete ==
    ASSUME TInv, ChosenInv, GuardFactsInv, InputInv, Working, pc = "done", NeverTruncated,
           NEW k \in MutexKeys, NEW W, NeedsWitness(current - 1, k, W)
    PROVE  NeedsUpTo(current, k, W \cup {f \in Funcs : Own(f) /\ k \in requires[f]})
<1> DEFINE V == W \cup {f \in Funcs : Own(f) /\ k \in requires[f]}
<1>1. DriverTypes /\ PInv /\ pkg = PassInput
  BY DEF TInv, InputInv
<1>2. /\ W \subseteq Funcs /\ NeedsUpTo(current - 1, k, W)
      /\ \A f \in W : \E i \in 1..(current - 1) : f \in prog[i].members
      /\ \A f \in W : f \in Exported => k \in funcFacts[f].requires
  BY DEF NeedsWitness
<1>3. \A f \in W : ~Own(f)
  BY <1>1, <1>2, NotOwnBefore
<1>4. \A f \in Funcs : (k \in pkg.requires[f] \/ k \in Direct(pkg, f)) => k \in requires[f]
  BY <1>1 DEF PInv, Seeded
<1>5. RequiresClosed(CallSites(pkg))
  BY <1>1 DEF PInv, Settling, NeverTruncated
<1>6. ASSUME NEW i \in 1..(current - 1) PROVE NeedsIn(i, k, V)
  <2>1. NeedsIn(i, k, W)
    BY <1>2 DEF NeedsUpTo
  <2>2. \A cs \in CallSites(prog[i]) : cs.callee \in V => cs.callee \in W
    BY <1>1, CallsGoBack
  <2> HIDE DEF V
  <2>3. W \subseteq V
    BY DEF V
  <2> QED
    BY <2>1, <2>2, <2>3 DEF NeedsIn
<1>7. NeedsIn(current, k, V)
  <2>1. ASSUME NEW f \in Funcs, k \in DirectIn(current, f) PROVE f \in V
    <3>1. k \in Direct(pkg, f) /\ Own(f)
      BY <1>1, <2>1, DirectKnown, OwnCalls
    <3> QED
      BY <1>4, <3>1
  <2>2. ASSUME NEW cs \in CallSites(prog[current]), cs.callee \in V, k \in PassedOn(cs, {k}), Passes(current, cs, k)
        PROVE  cs.caller \in V
    <3>1. cs \in CallSites(Src) /\ cs \in CallSites(pkg)
      BY <1>1, <2>2, SameSites DEF Src
    <3>2. cs.caller \in Funcs /\ cs.callee \in Funcs /\ Own(cs.caller)
      BY <1>1, <3>1, OwnCalls
    <3>3. k \in requires[cs.callee]
      <4>1. CASE Own(cs.callee)
        BY <1>3, <2>2, <4>1
      <4>2. CASE ~Own(cs.callee)
        <5>1. cs.callee \in W /\ cs.callee \in Exported /\ Resolvable(Src, k)
          BY <2>2, <4>2 DEF Passes, Own, Src
        <5>2. cs.callee \in ImportedCallees
          BY <3>1, <4>2 DEF ImportedCallees, Callees
        <5>3. k \in pkg.requires[cs.callee]
          BY <1>1, <1>2, <3>2, <5>1, <5>2, ImportedFacts
        <5> QED
          BY <1>4, <3>2, <5>3
      <4> QED
        BY <4>1, <4>2
    <3>4. k \in requires[cs.caller]
      BY <1>5, <2>2, <3>1, <3>3 DEF RequiresClosed, PassedOn
    <3> QED
      BY <3>2, <3>4
  <2> QED
    BY <2>1, <2>2 DEF NeedsIn
<1> HIDE DEF V
<1>8. \A i \in 1..current : i \in 1..(current - 1) \/ i = current
  BY <1>1, EarlierPackages
<1>9. NeedsUpTo(current, k, V)
  BY <1>6, <1>7, <1>8 DEF NeedsUpTo
<1> QED
  BY <1>9 DEF V

LEMMA PassAcquiresComplete ==
    ASSUME TInv, InputInv, Working, pc = "done", NeverTruncated,
           NEW k \in MutexKeys, NEW W, AcquiresWitness(current - 1, k, W)
    PROVE  AcquiresUpTo(current, k, W \cup {f \in Funcs : Own(f) /\ k \in acquiresTransitive[f]})
<1> DEFINE V == W \cup {f \in Funcs : Own(f) /\ k \in acquiresTransitive[f]}
<1>1. DriverTypes /\ PInv /\ pkg = PassInput
  BY DEF TInv, InputInv
<1>2. /\ W \subseteq Funcs /\ AcquiresUpTo(current - 1, k, W)
      /\ \A f \in W : \E i \in 1..(current - 1) : f \in prog[i].members
      /\ \A f \in W : f \in Exported => k \in funcFacts[f].acquiresTransitive
  BY DEF AcquiresWitness
<1>3. \A f \in W : ~Own(f)
  BY <1>1, <1>2, NotOwnBefore
<1>4. \A f \in Funcs : (k \in pkg.acquires[f] \/ k \in pkg.acquiresTransitive[f]) => k \in acquiresTransitive[f]
  BY <1>1 DEF PInv, Seeded
<1>5. AcquiresClosed(CallSites(pkg))
  BY <1>1 DEF PInv, Settling, NeverTruncated
<1>6. ASSUME NEW i \in 1..(current - 1) PROVE AcquiresIn(i, k, V)
  <2>1. AcquiresIn(i, k, W)
    BY <1>2 DEF AcquiresUpTo
  <2>2. \A cs \in CallSites(prog[i]) : cs.callee \in V => cs.callee \in W
    BY <1>1, CallsGoBack
  <2> HIDE DEF V
  <2>3. W \subseteq V
    BY DEF V
  <2> QED
    BY <2>1, <2>2, <2>3 DEF AcquiresIn
<1>7. AcquiresIn(current, k, V)
  <2>1. ASSUME NEW f \in Funcs, k \in prog[current].acquires[f] PROVE f \in V
    <3>1. k \in pkg.acquires[f] /\ Own(f)
      BY <1>1, <2>1, ImportedFacts, OwnCalls DEF Src
    <3> QED
      BY <1>4, <3>1
  <2>2. ASSUME NEW cs \in CallSites(prog[current]), cs.callee \in V, Passes(current, cs, k)
        PROVE  cs.caller \in V
    <3>1. cs \in CallSites(Src) /\ cs \in CallSites(pkg)
      BY <1>1, <2>2, SameSites DEF Src
    <3>2. cs.caller \in Funcs /\ cs.callee \in Funcs /\ Own(cs.caller)
      BY <1>1, <3>1, OwnCalls
    <3>3. k \in acquiresTransitive[cs.callee]
      <4>1. CASE Own(cs.callee)
        BY <1>3, <2>2, <4>1
      <4>2. CASE ~Own(cs.callee)
        <5>1. cs.callee \in W /\ cs.callee \in Exported /\ Resolvable(Src, k)
          BY <2>2, <4>2 DEF Passes, Own, Src
        <5>2. cs.callee \in ImportedCallees
          BY <3>1, <4>2 DEF ImportedCallees, Callees
        <5>3. k \in pkg.acquiresTransitive[cs.callee]
          BY <1>1, <1>2, <3>2, <5>1, <5>2, ImportedFacts
        <5> QED
          BY <1>4, <3>2, <5>3
      <4> QED
        BY <4>1, <4>2
    <3>4. k \in acquiresTransitive[cs.caller]
      BY <1>5, <3>1, <3>3 DEF AcquiresClosed
    <3> QED
      BY <3>2, <3>4
  <2> QED
    BY <2>1, <2>2 DEF AcquiresIn
<1> HIDE DEF V
<1>8. \A i \in 1..current : i \in 1..(current - 1) \/ i = current
  BY <1>1, EarlierPackages
<1>9. AcquiresUpTo(current, k, V)
  BY <1>6, <1>7, <1>8 DEF AcquiresUpTo
<1> QED
  BY <1>9 DEF V

LEMMA InputStep == InputInv /\ [SNext]_svars => InputInv'
<1> SUFFICES ASSUME InputInv, [SNext]_svars PROVE InputInv'
  OBVIOUS
<1>1. CASE ImportFacts \/ (\E field \in Fields : InferGuard(field)) \/ ExportFacts
  <2>1. ~Working'
    BY <1>1 DEF ImportFacts, InferGuard, ExportFacts, dvars, Working
  <2> QED
    BY <2>1 DEF InputInv
<1>2. CASE EndInference \/ Phases3And4 \/ CheckExportedGuardedFields \/ UNCHANGED svars
  <2>1. UNCHANGED <<prog, current, guards, funcFacts>>
    BY <1>2 DEF EndInference, Phases3And4, CheckExportedGuardedFields, svars, factVars
  <2>2. PassInput' = PassInput
    BY <2>1 DEF PassInput, Known, HasFact, AccessOf, GuardKey, ModeHeld, ImportedCallees, Callees, CallSites, Resolvable, Own, Src
  <2>3. CASE EndInference
    BY <2>2, <2>3 DEF EndInference, InputInv
  <2>4. CASE Phases3And4 \/ CheckExportedGuardedFields \/ UNCHANGED svars
    <3>1. pkg' = pkg /\ (Working' => Working)
      <4>1. CASE Phases3And4
        BY <4>1, InputStays DEF Phases3And4, DNext, Propagate, ComputeConcurrentContext, LookAtCallee, NextInQueue, EndSearch,
           CheckViolations, CheckInterproceduralViolations, vars, Working
      <4> QED
        BY <2>4, <4>1 DEF CheckExportedGuardedFields, svars, dvars, vars, Working
    <3> QED
      BY <2>2, <3>1 DEF InputInv
  <2> QED
    BY <1>2, <2>3, <2>4
<1> QED
  BY <1>1, <1>2 DEF SNext

LEMMA FuncFactsStep ==
    ASSUME LimitSuffices, TInv, LInv, ToldInv, ChosenInv, GuardFactsInv, InputInv, FuncFactsInv, [SNext]_svars
    PROVE  FuncFactsInv'
<1>1. DriverTypes /\ prog' = prog
  BY DEF TInv, SNext, ImportFacts, InferGuard, EndInference, Phases3And4, CheckExportedGuardedFields, ExportFacts, svars
<1>2. /\ \A n, k, S : NeedsUpTo(n, k, S)' <=> NeedsUpTo(n, k, S)
      /\ \A n, k, S : AcquiresUpTo(n, k, S)' <=> AcquiresUpTo(n, k, S)
  <2>1. \A i, k, S : (NeedsIn(i, k, S)' <=> NeedsIn(i, k, S)) /\ (AcquiresIn(i, k, S)' <=> AcquiresIn(i, k, S))
    BY <1>1 DEF NeedsIn, AcquiresIn, DirectIn, HomeGuard, Passes, Resolvable, CallSites
  <2> QED
    BY <2>1 DEF NeedsUpTo, AcquiresUpTo
<1>3. CASE ~ExportFacts
  <2>1. current' = current /\ funcFacts' = funcFacts
    BY <1>3 DEF SNext, ImportFacts, InferGuard, EndInference, Phases3And4, CheckExportedGuardedFields, svars, factVars
  <2>2. phase' # "end" => phase # "end"
    <3>1. CASE Phases3And4
      BY <3>1 DEF Phases3And4, DNext, Propagate, ComputeConcurrentContext, LookAtCallee, NextInQueue, EndSearch,
           CheckViolations, CheckInterproceduralViolations
    <3> QED
      BY <1>3, <3>1 DEF SNext, ImportFacts, InferGuard, EndInference, CheckExportedGuardedFields, svars, dvars
  <2>3. \A k : (NeedsSound(k) => NeedsSound(k)') /\ (AcquiresSound(k) => AcquiresSound(k)')
    BY <1>2, <2>1 DEF NeedsSound, AcquiresSound
  <2>4. \A k, W : /\ NeedsWitness(current - 1, k, W) => NeedsWitness(current - 1, k, W)'
                  /\ AcquiresWitness(current - 1, k, W) => AcquiresWitness(current - 1, k, W)'
    BY <1>1, <1>2, <2>1 DEF NeedsWitness, AcquiresWitness
  <2> QED
    BY <2>1, <2>2, <2>3, <2>4 DEF FuncFactsInv
<1>4. CASE ExportFacts /\ phase' # "end"
  <2>1. /\ phase = "export" /\ current' = current + 1 /\ Working
        /\ funcFacts' = [f \in Funcs |-> IF f \in known \cap Exported /\ Own(f) THEN FuncFact(f) ELSE funcFacts[f]]
    BY <1>4 DEF ExportFacts, Working
  <2>2. PInv /\ pc = "done" /\ NeverTruncated /\ current' - 1 = current
    BY <1>1, <2>1, SourceTypes DEF TInv, ToldInv, LInv
  <2>3. \A f \in Funcs : /\ (f \in known \cap Exported /\ Own(f)) =>
                              /\ funcFacts'[f].requires = requires[f] /\ funcFacts'[f].acquires = pkg.acquires[f]
                              /\ funcFacts'[f].acquiresTransitive = acquiresTransitive[f]
                         /\ ~(f \in known \cap Exported /\ Own(f)) => funcFacts'[f] = funcFacts[f]
    BY <2>1 DEF FuncFact
  <2>4. \A k, S : (NeedsUpTo(current, k, S) => NeedsUpTo(current - 1, k, S))
                  /\ (AcquiresUpTo(current, k, S) => AcquiresUpTo(current - 1, k, S))
    BY <1>1, EarlierPackages DEF NeedsUpTo, AcquiresUpTo
  <2>5. \A f \in Funcs : requires[f] \cup acquiresTransitive[f] # {} => f \in known
    BY <2>2 DEF PInv, TypeOK
  <2>6. \A f \in Funcs : funcFacts'[f].requires \cup funcFacts'[f].acquires \cup funcFacts'[f].acquiresTransitive # {} =>
           f \in Exported
    BY <2>1, <2>3 DEF FuncFactsInv
  <2>7. ASSUME NEW k \in MutexKeys PROVE NeedsSound(k)' /\ AcquiresSound(k)'
    <3>1. NeedsSound(k) /\ AcquiresSound(k)
      BY <2>1 DEF FuncFactsInv
    <3>2. ASSUME NEW S \in SUBSET Funcs, NeedsUpTo(current, k, S), NEW f \in Funcs, k \in funcFacts'[f].requires
          PROVE  f \in S
      <4>1. CASE f \in known \cap Exported /\ Own(f)
        BY <2>1, <2>3, <3>2, <4>1, PassNeedsSound
      <4>2. CASE ~(f \in known \cap Exported /\ Own(f))
        BY <2>3, <2>4, <3>1, <3>2, <4>2 DEF NeedsSound
      <4> QED
        BY <4>1, <4>2
    <3>3. ASSUME NEW S \in SUBSET Funcs, AcquiresUpTo(current, k, S), NEW f \in Funcs,
                 k \in funcFacts'[f].acquires \cup funcFacts'[f].acquiresTransitive
          PROVE  f \in S
      <4>1. CASE f \in known \cap Exported /\ Own(f)
        BY <2>1, <2>3, <3>3, <4>1, PassAcquiresSound
      <4>2. CASE ~(f \in known \cap Exported /\ Own(f))
        BY <2>3, <2>4, <3>1, <3>3, <4>2 DEF AcquiresSound
      <4> QED
        BY <4>1, <4>2
    <3> QED
      BY <1>2, <2>2, <3>2, <3>3 DEF NeedsSound, AcquiresSound
  <2>8. ASSUME NEW k \in MutexKeys PROVE \E V : NeedsWitness(current - 1, k, V)'
    <3>1. PICK W : NeedsWitness(current - 1, k, W)
      BY <2>1 DEF FuncFactsInv
    <3>2. PICK V : V = W \cup {f \in Funcs : Own(f) /\ k \in requires[f]}
      OBVIOUS
    <3>3. NeedsUpTo(current, k, V)
      BY <2>1, <2>2, <3>1, <3>2, PassNeedsComplete
    <3>4. V \subseteq Funcs
      BY <3>1, <3>2 DEF NeedsWitness
    <3>5. \A f \in V : \E i \in 1..current : f \in prog[i].members
      <4>1. \A f \in W : \E i \in 1..current : f \in prog[i].members
        BY <1>1, <3>1, EarlierPackages DEF NeedsWitness
      <4>2. \A f : Own(f) => f \in prog[current].members
        BY DEF Own, Src
      <4> QED
        BY <1>1, <3>2, <4>1, <4>2, EarlierPackages
    <3>6. ASSUME NEW f \in V, f \in Exported PROVE k \in funcFacts'[f].requires
      <4>1. CASE Own(f) /\ k \in requires[f]
        BY <2>3, <2>5, <3>4, <3>6, <4>1
      <4>2. CASE f \in W
        <5>1. ~Own(f) /\ k \in funcFacts[f].requires
          BY <1>1, <3>1, <3>6, <4>2, NotOwnBefore DEF NeedsWitness
        <5> QED
          BY <2>3, <3>4, <5>1
      <4> QED
        BY <3>2, <4>1, <4>2
    <3>7. NeedsWitness(current - 1, k, V)'
      BY <1>1, <1>2, <2>2, <3>3, <3>4, <3>5, <3>6 DEF NeedsWitness
    <3> QED
      BY <3>7
  <2>9. ASSUME NEW k \in MutexKeys PROVE \E V : AcquiresWitness(current - 1, k, V)'
    <3>1. PICK W : AcquiresWitness(current - 1, k, W)
      BY <2>1 DEF FuncFactsInv
    <3>2. PICK V : V = W \cup {f \in Funcs : Own(f) /\ k \in acquiresTransitive[f]}
      OBVIOUS
    <3>3. AcquiresUpTo(current, k, V)
      BY <2>1, <2>2, <3>1, <3>2, PassAcquiresComplete
    <3>4. V \subseteq Funcs
      BY <3>1, <3>2 DEF AcquiresWitness
    <3>5. \A f \in V : \E i \in 1..current : f \in prog[i].members
      <4>1. \A f \in W : \E i \in 1..current : f \in prog[i].members
        BY <1>1, <3>1, EarlierPackages DEF AcquiresWitness
      <4>2. \A f : Own(f) => f \in prog[current].members
        BY DEF Own, Src
      <4> QED
        BY <1>1, <3>2, <4>1, <4>2, EarlierPackages
    <3>6. ASSUME NEW f \in V, f \in Exported PROVE k \in funcFacts'[f].acquiresTransitive
      <4>1. CASE Own(f) /\ k \in acquiresTransitive[f]
        BY <2>3, <2>5, <3>4, <3>6, <4>1
      <4>2. CASE f \in W
        <5>1. ~Own(f) /\ k \in funcFacts[f].acquiresTransitive
          BY <1>1, <3>1, <3>6, <4>2, NotOwnBefore DEF AcquiresWitness
        <5> QED
          BY <2>3, <3>4, <5>1
      <4> QED
        BY <3>2, <4>1, <4>2
    <3>7. AcquiresWitness(current - 1, k, V)'
      BY <1>1, <1>2, <2>2, <3>3, <3>4, <3>5, <3>6 DEF AcquiresWitness
    <3> QED
      BY <3>7
  <2> QED
    BY <2>6, <2>7, <2>8, <2>9 DEF FuncFactsInv
<1>5. CASE phase' = "end"
  BY <1>5 DEF FuncFactsInv
<1> QED
  BY <1>3, <1>4, <1>5

LEMMA FactsInit == SInit => ChosenInv /\ ObservedInv /\ GuardFactsInv /\ FuncFactsInv /\ InputInv
<1> SUFFICES ASSUME SInit PROVE ChosenInv /\ ObservedInv /\ GuardFactsInv /\ FuncFactsInv /\ InputInv
  OBVIOUS
<1>1. phase = "import" /\ current = 1 /\ 1..(current - 1) = {} /\ guardFacts = <<>> /\ funcFacts = NoFacts
  BY DEF SInit
<1>2. \A f \in Funcs : funcFacts[f].requires = {} /\ funcFacts[f].acquires = {} /\ funcFacts[f].acquiresTransitive = {}
  BY <1>1 DEF NoFacts
<1>3. \A k : NeedsWitness(current - 1, k, {}) /\ AcquiresWitness(current - 1, k, {})
  BY <1>1 DEF NeedsWitness, AcquiresWitness, NeedsUpTo, AcquiresUpTo
<1>4. \A k : NeedsSound(k) /\ AcquiresSound(k)
  BY <1>2 DEF NeedsSound, AcquiresSound
<1>5. FuncFactsInv
  BY <1>2, <1>3, <1>4 DEF FuncFactsInv
<1>6. GuardFactsInv
  BY <1>1 DEF GuardFactsInv
<1> QED
  BY <1>1, <1>5, <1>6 DEF ChosenInv, ObservedInv, InputInv, Working

LEMMA ModularlyExact ==
    ASSUME TInv, LInv, ToldInv, ChosenInv, GuardFactsInv, InputInv, FuncFactsInv
    PROVE  ModularExact
<1> SUFFICES ASSUME phase = "export", NEW k \in MutexKeys, NEW f \in Funcs, Own(f)
             PROVE  /\ k \in requires[f] <=>
                         \A S \in {T \in SUBSET Funcs : ClosedForRequires(k, T)} : f \in S
                    /\ k \in acquiresTransitive[f] <=>
                         \A S \in {T \in SUBSET Funcs : ClosedForAcquires(k, T)} : f \in S
  BY DEF ModularExact
<1>1. DriverTypes /\ Working /\ pc = "done" /\ NeverTruncated
  BY DEF TInv, LInv, ToldInv, Working
<1>2. \A S : /\ ClosedForRequires(k, S) <=> NeedsUpTo(current, k, S)
             /\ ClosedForAcquires(k, S) <=> AcquiresUpTo(current, k, S)
  BY DEF ClosedForRequires, ClosedForAcquires, NeedsUpTo, AcquiresUpTo, NeedsIn, AcquiresIn
<1>3. ASSUME k \in requires[f], NEW S \in SUBSET Funcs, NeedsUpTo(current, k, S) PROVE f \in S
  BY <1>1, <1>3, PassNeedsSound
<1>4. ASSUME k \in acquiresTransitive[f], NEW S \in SUBSET Funcs, AcquiresUpTo(current, k, S) PROVE f \in S
  BY <1>1, <1>4, PassAcquiresSound
<1>5. ASSUME \A S \in SUBSET Funcs : NeedsUpTo(current, k, S) => f \in S PROVE k \in requires[f]
  <2>1. PICK W : NeedsWitness(current - 1, k, W)
    BY <1>1 DEF FuncFactsInv
  <2>2. PICK V : V = W \cup {g \in Funcs : Own(g) /\ k \in requires[g]}
    OBVIOUS
  <2>3. NeedsUpTo(current, k, V) /\ V \in SUBSET Funcs
    BY <1>1, <2>1, <2>2, PassNeedsComplete DEF NeedsWitness
  <2>4. f \notin W
    BY <1>1, <2>1, NotOwnBefore DEF NeedsWitness
  <2> QED
    BY <1>5, <2>2, <2>3, <2>4
<1>6. ASSUME \A S \in SUBSET Funcs : AcquiresUpTo(current, k, S) => f \in S PROVE k \in acquiresTransitive[f]
  <2>1. PICK W : AcquiresWitness(current - 1, k, W)
    BY <1>1 DEF FuncFactsInv
  <2>2. PICK V : V = W \cup {g \in Funcs : Own(g) /\ k \in acquiresTransitive[g]}
    OBVIOUS
  <2>3. AcquiresUpTo(current, k, V) /\ V \in SUBSET Funcs
    BY <1>1, <2>1, <2>2, PassAcquiresComplete DEF AcquiresWitness
  <2>4. f \notin W
    BY <1>1, <2>1, NotOwnBefore DEF AcquiresWitness
  <2> QED
    BY <1>6, <2>2, <2>3, <2>4
<1> QED
  BY <1>2, <1>3, <1>4, <1>5, <1>6

\* Analysing one package at a time loses and adds nothing: with a limit no smaller than
\* the number of functions, a pass finds of its own functions the locks they require and
\* acquire that one propagation over all packages so far would, but for the calls where a
\* package cannot name the lock, for every program.
THEOREM PassesAreModular == LimitSuffices => (SSpec => []ModularExact)
<1> SUFFICES ASSUME LimitSuffices PROVE SSpec => []ModularExact
  OBVIOUS
<1> DEFINE MInv == TInv /\ LInv /\ ToldInv /\ ChosenInv /\ ObservedInv /\ GuardFactsInv /\ InputInv /\ FuncFactsInv
<1>1. SInit => MInv
  BY TInit, SInitTypes, LStart, FactsInit DEF SInit, ToldInv
<1>2. MInv /\ [SNext]_svars => MInv'
  BY TStep, PassLimit, ToldStep, ChosenStep, ObservedStep, GuardFactsStep, InputStep, FuncFactsStep
<1>3. MInv => ModularExact
  BY ModularlyExact
<1> QED
  BY <1>1, <1>2, <1>3, PTL DEF SSpec
=============================================================================
