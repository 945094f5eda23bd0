----------------------------- MODULE Inference -----------------------------
(***************************************************************************)
(* Phase 2 of an analyzer pass (pkg/analyzer/inference.go): which mutex of *)
(* the same struct guards a field, from the locks held at its accesses.    *)
(*                                                                         *)
(* pickMostFrequentMutex ranges over a Go map of counts, in any order; it  *)
(* is modelled by the set of its possible results.                         *)
(***************************************************************************)
EXTENDS Integers, FiniteSets

\* observation: held are the mutexes of the same struct instance, as <<field index, mode>>;
\* constructor says whether isConstructorLike(Func, StructType).
NonConstructor(obs) == {o \in obs : ~o.constructor}

isImmutableField(obs) == \A o \in obs : o.isRead

HoldsMutex(o, i) == i \in {h[1] : h \in o.held}

\* The observations of obs, or the writes among them, that hold mutex i.
Holding(obs, writesOnly, i) == {o \in obs : ~(writesOnly /\ o.isRead) /\ HoldsMutex(o, i)}

\* The keys of the map counts: a mutex field does not guard itself.
Counted(self, obs, writesOnly) ==
    (UNION {{h[1] : h \in o.held} : o \in {x \in obs : ~(writesOnly /\ x.isRead)}}) \ {self}

\* Mutant of Better: ties go to the mutex that is met first.
BetterFirst(count, best, i) ==
    LET bestCount == IF best = -1 THEN 0 ELSE count[best]
    IN  IF count[i] > bestCount THEN i ELSE best

\* The body of the range over counts.
Better(count, best, i) ==
    LET bestCount == IF best = -1 THEN 0 ELSE count[best]
    IN  IF count[i] > bestCount \/ (count[i] = bestCount /\ (best = -1 \/ i < best)) THEN i ELSE best

\* The orders in which a range may visit the members of S.
Orders(S) == {q \in [1..Cardinality(S) -> S] : \A i, j \in DOMAIN q : q[i] = q[j] => i = j}

\* The range over counts in one order.
BestOf(count, order) ==
    LET best[n \in 0..Cardinality(DOMAIN count)] ==
          IF n = 0 THEN -1 ELSE Better(count, best[n - 1], order[n])
    IN  best[Cardinality(DOMAIN count)]

pickMostFrequentMutex(self, obs, writesOnly) ==
    LET count == [i \in Counted(self, obs, writesOnly) |-> Cardinality(Holding(obs, writesOnly, i))]
    IN  {BestOf(count, order) : order \in Orders(DOMAIN count)}

\* The writes decide; without a write under a lock, all observations do.
GuardIndexes(self, obs) ==
    UNION {IF best = -1 THEN pickMostFrequentMutex(self, obs, FALSE) ELSE {best} :
             best \in pickMostFrequentMutex(self, obs, TRUE)}

\* inferFieldGuard: guardInfo for each possible result, none for -1.
inferFieldGuard(self, obs) ==
    {[mutexFieldIndex |-> i, needsExclusive |-> Holding(obs, TRUE, i) # {}] :
       i \in GuardIndexes(self, obs) \ {-1}}

\* The guards that the body of inferGuards may give a field, the empty set for none.
GuardChoices(self, observations) ==
    LET obs == NonConstructor(observations)
    IN  IF obs = {} \/ isImmutableField(obs) THEN {} ELSE inferFieldGuard(self, obs)

-----------------------------------------------------------------------------
\* The same by definition: of the mutexes held at most writes (at most accesses, if no
\* write holds one), the one with the least index.
Prevails(self, obs, i) ==
    LET writesOnly == Counted(self, obs, TRUE) # {}
        n(j) == Cardinality(Holding(obs, writesOnly, j))
    IN  /\ i \in Counted(self, obs, writesOnly)
        /\ \A j \in Counted(self, obs, writesOnly) : n(j) < n(i) \/ (n(j) = n(i) /\ i <= j)
=============================================================================
