---------------------------- MODULE LeaksProofs ----------------------------
(***************************************************************************)
(* Proofs about WalkExact and Leaks, for every package: what the walk      *)
(* leaves behind is what all paths through the function amount to, and the *)
(* reports made from it are about these paths.                             *)
(***************************************************************************)
EXTENDS Leaks, WalkProofs, FiniteSetTheorems

-----------------------------------------------------------------------------
(* Straight-line code. *)

LEMMA BodyFacts ==
    ASSUME NEW body \in Bodies
    PROVE  /\ DOMAIN body = 1..Len(body) /\ Len(body) \in Nat
           /\ \A b \in DOMAIN body :
                /\ body[b].instrs \in Seq(Instrs) /\ Len(body[b].instrs) \in Nat
                /\ DOMAIN body[b].instrs = 1..Len(body[b].instrs)
                /\ \A i \in 1..Len(body[b].instrs) : body[b].instrs[i] \in Instrs
                /\ DOMAIN body[b].succs = 1..Len(body[b].succs) /\ Len(body[b].succs) \in Nat
                /\ \A i \in DOMAIN body[b].succs : body[b].succs[i] \in DOMAIN body
<1>1. body \in Seq([instrs : Seq(Instrs), succs : Seq(Nat)])
  BY DEF Bodies
<1>2. \A b \in DOMAIN body : \A i \in DOMAIN body[b].succs : body[b].succs[i] \in DOMAIN body
  BY DEF Bodies
<1>3. \A b \in DOMAIN body : body[b] \in [instrs : Seq(Instrs), succs : Seq(Nat)]
  BY <1>1, ElementOfSeq, LenProperties
<1> QED
  BY <1>1, <1>2, <1>3

LEMMA NewState == newLockState \in LockStates
BY DEF newLockState, LockStates

\* What Before computes, instruction by instruction.
LEMMA BeforeSteps ==
    ASSUME NEW body \in Bodies, NEW b \in DOMAIN body, NEW s \in LockStates
    PROVE  /\ Before(body, b, 1, s) = s
           /\ \A i \in 1..Len(body[b].instrs) :
                Before(body, b, i + 1, s) = Effect(body[b].instrs[i], Before(body, b, i, s))
           /\ \A i \in 1..(Len(body[b].instrs) + 1) : Before(body, b, i, s) \in LockStates
<1> DEFINE m == Len(body[b].instrs)
           code == body[b].instrs
           F == [p \in (1..m) \X LockStates |-> Effect(code[p[1]], p[2])]
<1>1. m \in Nat /\ \A i \in 1..m : code[i] \in Instrs
  BY BodyFacts
<1>2. \A n \in 1..m : \A d \in LockStates : F[<<n, d>>] = Effect(code[n], d) /\ F[<<n, d>>] \in LockStates
  BY <1>1, EffectTypes
<1>3. \E g \in [0..m -> LockStates] : Iterates(g, s, m, F)
  <2>1. F \in [(1..m) \X LockStates -> LockStates]
    BY <1>1, EffectTypes DEF F
  <2>2. m \in Nat
    BY <1>1
  <2> HIDE DEF F, m
  <2> QED
    BY <2>1, <2>2, Iteration
<1>4. PICK g \in [0..m -> LockStates] : Iterates(g, s, m, F)
  BY <1>3
<1>5. \A n \in 0..m : g[n] = IF n = 0 THEN s ELSE Effect(code[n], g[n - 1])
  <2> SUFFICES ASSUME NEW n \in 0..m, n # 0 PROVE g[n] = Effect(code[n], g[n - 1])
    BY <1>1, <1>4 DEF Iterates
  <2>1. n \in 1..m /\ n - 1 \in 0..m
    BY <1>1
  <2> QED
    BY <1>2, <1>4, <2>1 DEF Iterates
<1>6. g = [n \in 0..m |-> IF n = 0 THEN s ELSE Effect(code[n], g[n - 1])]
  BY <1>5
<1> DEFINE S[n \in 0..m] == IF n = 0 THEN s ELSE Effect(code[n], S[n - 1])
<1>7. S = [n \in 0..m |-> IF n = 0 THEN s ELSE Effect(code[n], S[n - 1])]
  <2> HIDE DEF m, code
  <2> QED
    BY <1>6
<1>8. \A i : Before(body, b, i, s) = S[i - 1]
  BY DEF Before
<1> HIDE DEF S
<1>9. S = g
  <2> DEFINE Bad == {n \in 0..m : S[n] # g[n]}
  <2> SUFFICES Bad = {}
    BY <1>6, <1>7
  <2> SUFFICES ASSUME Bad # {} PROVE FALSE
    OBVIOUS
  <2>0. Bad \in SUBSET Nat
    BY <1>1
  <2>1. PICK n \in Bad : \A j \in Bad : n <= j
    BY <2>0, LeastNatural
  <2>2. n # 0 /\ n - 1 \in 0..m /\ ~(n <= n - 1)
    <3>1. S[0] = s /\ g[0] = s
      BY <1>1, <1>5, <1>7
    <3> QED
      BY <1>1, <3>1
  <2>3. S[n - 1] = g[n - 1]
    BY <2>1, <2>2
  <2> QED
    BY <1>5, <1>7, <2>2, <2>3
<1> HIDE DEF F
<1>10. \A i \in 1..(m + 1) : i - 1 \in 0..m /\ Before(body, b, i, s) = g[i - 1]
  BY <1>1, <1>8, <1>9
<1>11. Before(body, b, 1, s) = s
  <2>1. 1 \in 1..(m + 1) /\ 1 - 1 = 0 /\ 0 \in 0..m
    BY <1>1
  <2> QED
    BY <1>5, <1>10, <2>1
<1>12. ASSUME NEW i \in 1..m PROVE Before(body, b, i + 1, s) = Effect(code[i], Before(body, b, i, s))
  <2>1. i \in 0..m /\ i # 0 /\ i \in 1..(m + 1) /\ i + 1 \in 1..(m + 1) /\ (i + 1) - 1 = i
    BY <1>1
  <2>2. Before(body, b, i + 1, s) = g[i] /\ Before(body, b, i, s) = g[i - 1]
    BY <1>10, <2>1
  <2> QED
    BY <1>5, <2>1, <2>2
<1> QED
  BY <1>10, <1>11, <1>12

\* A block keeps the orders on lock states, as each instruction does.
LEMMA BeforeOrders ==
    ASSUME NEW body \in Bodies, NEW b \in DOMAIN body, NEW s \in LockStates, NEW t \in LockStates
    PROVE  \A i \in 1..(Len(body[b].instrs) + 1) :
             /\ Below(s, t) => Below(Before(body, b, i, s), Before(body, b, i, t))
             /\ Within(s, t) => Within(Before(body, b, i, s), Before(body, b, i, t))
<1> DEFINE m == Len(body[b].instrs)
           Good(i) == /\ Below(s, t) => Below(Before(body, b, i, s), Before(body, b, i, t))
                      /\ Within(s, t) => Within(Before(body, b, i, s), Before(body, b, i, t))
           Bad == {i \in 1..(m + 1) : ~Good(i)}
<1>1. m \in Nat /\ \A i \in 1..m : body[b].instrs[i] \in Instrs
  BY BodyFacts
<1>2. Good(1)
  BY BeforeSteps
<1>3. ASSUME NEW i \in 1..m, Good(i) PROVE Good(i + 1)
  <2>1. /\ body[b].instrs[i] \in Instrs /\ i \in 1..(m + 1)
        /\ Before(body, b, i + 1, s) = Effect(body[b].instrs[i], Before(body, b, i, s))
        /\ Before(body, b, i + 1, t) = Effect(body[b].instrs[i], Before(body, b, i, t))
    BY <1>1, BeforeSteps
  <2>2. Before(body, b, i, s) \in LockStates /\ Before(body, b, i, t) \in LockStates
    BY <2>1, BeforeSteps
  <2> QED
    BY <1>3, <2>1, <2>2, EffectMonotone, EffectWithin
<1> HIDE DEF Good
<1>4. Bad = {}
  <2> SUFFICES ASSUME Bad # {} PROVE FALSE
    OBVIOUS
  <2>1. Bad \in SUBSET Nat
    BY <1>1
  <2>2. PICK i \in Bad : \A j \in Bad : i <= j
    BY <2>1, LeastNatural
  <2>3. i - 1 \in 1..m /\ i - 1 \in 1..(m + 1) /\ ~(i <= i - 1) /\ (i - 1) + 1 = i
    BY <1>1, <1>2
  <2>4. Good(i - 1)
    BY <2>2, <2>3
  <2> QED
    BY <1>3, <2>3, <2>4
<1> QED
  BY <1>4 DEF Good

\* Some instruction of the block before instruction i sets lock r; the deferred unlocks there.
Sets(body, b, i, r) ==
    \E j \in 1..(i - 1) : body[b].instrs[j].op \in {"lock", "unlock"} /\ body[b].instrs[j].ref = r
Defers(body, b, i) ==
    {body[b].instrs[j].ref : j \in {k \in 1..(i - 1) : body[b].instrs[k].op = "deferUnlock"}}

\* A lock that is set has a mode that does not depend on the start, another one keeps its
\* mode, and deferred unlocks are added.
LEMMA BeforeForm ==
    ASSUME NEW body \in Bodies, NEW b \in DOMAIN body, NEW s \in LockStates, NEW t \in LockStates
    PROVE  \A i \in 1..(Len(body[b].instrs) + 1) :
             /\ \A r \in LockRefs :
                  /\ Sets(body, b, i, r) => Before(body, b, i, s).held[r] = Before(body, b, i, t).held[r]
                  /\ ~Sets(body, b, i, r) => Before(body, b, i, s).held[r] = s.held[r]
             /\ Before(body, b, i, s).deferred = s.deferred \cup Defers(body, b, i)
<1> DEFINE m == Len(body[b].instrs)
           code == body[b].instrs
           Good(i) == /\ \A r \in LockRefs :
                           /\ Sets(body, b, i, r) => Before(body, b, i, s).held[r] = Before(body, b, i, t).held[r]
                           /\ ~Sets(body, b, i, r) => Before(body, b, i, s).held[r] = s.held[r]
                      /\ Before(body, b, i, s).deferred = s.deferred \cup Defers(body, b, i)
           Bad == {i \in 1..(m + 1) : ~Good(i)}
<1>1. m \in Nat /\ \A i \in 1..m : code[i] \in Instrs
  BY BodyFacts
<1>2. Good(1)
  <2>1. 1..(1 - 1) = {}
    OBVIOUS
  <2>2. (\A r : ~Sets(body, b, 1, r)) /\ Defers(body, b, 1) = {}
    BY <2>1 DEF Sets, Defers
  <2> QED
    BY <2>2, BeforeSteps
<1>3. ASSUME NEW i \in 1..m, Good(i) PROVE Good(i + 1)
  <2>0. PICK c, p, q : c = code[i] /\ p = Before(body, b, i, s) /\ q = Before(body, b, i, t)
    OBVIOUS
  <2>1. /\ c \in Instrs /\ i \in 1..(m + 1) /\ p \in LockStates /\ q \in LockStates
        /\ Before(body, b, i + 1, s) = Effect(c, p) /\ Before(body, b, i + 1, t) = Effect(c, q)
    BY <1>1, <2>0, BeforeSteps
  <2>2. 1..((i + 1) - 1) = 1..(i - 1) \cup {i}
    BY <1>1
  <2>3. ASSUME NEW r PROVE Sets(body, b, i + 1, r) <=> (Sets(body, b, i, r) \/ (c.op \in {"lock", "unlock"} /\ c.ref = r))
    BY <2>0, <2>2 DEF Sets
  <2>4. Defers(body, b, i + 1) = Defers(body, b, i) \cup (IF c.op = "deferUnlock" THEN {c.ref} ELSE {})
    BY <2>0, <2>2 DEF Defers
  <2>5. ASSUME NEW r \in LockRefs
        PROVE  /\ (c.op \in {"lock", "unlock"} /\ c.ref = r) => Effect(c, p).held[r] = Effect(c, q).held[r]
               /\ ~(c.op \in {"lock", "unlock"} /\ c.ref = r) =>
                    Effect(c, p).held[r] = p.held[r] /\ Effect(c, q).held[r] = q.held[r]
    BY <2>1, InstrTypes DEF Effect, LockStates
  <2>6. Effect(c, p).deferred = p.deferred \cup (IF c.op = "deferUnlock" THEN {c.ref} ELSE {})
    BY <2>1, InstrTypes DEF Effect, LockStates
  <2>7. /\ \A r \in LockRefs : /\ Sets(body, b, i, r) => p.held[r] = q.held[r]
                               /\ ~Sets(body, b, i, r) => p.held[r] = s.held[r]
        /\ p.deferred = s.deferred \cup Defers(body, b, i)
    BY <1>3, <2>0
  <2>8. Effect(c, p).deferred = s.deferred \cup Defers(body, b, i + 1)
    BY <2>4, <2>6, <2>7
  <2>9. ASSUME NEW r \in LockRefs
        PROVE  /\ Sets(body, b, i + 1, r) => Effect(c, p).held[r] = Effect(c, q).held[r]
               /\ ~Sets(body, b, i + 1, r) => Effect(c, p).held[r] = s.held[r]
    BY <2>3, <2>5, <2>7
  <2> QED
    BY <2>1, <2>8, <2>9
<1> HIDE DEF Good
<1>4. Bad = {}
  <2> SUFFICES ASSUME Bad # {} PROVE FALSE
    OBVIOUS
  <2>1. Bad \in SUBSET Nat
    BY <1>1
  <2>2. PICK i \in Bad : \A j \in Bad : i <= j
    BY <2>1, LeastNatural
  <2>3. i - 1 \in 1..m /\ i - 1 \in 1..(m + 1) /\ ~(i <= i - 1) /\ (i - 1) + 1 = i
    BY <1>1, <1>2
  <2>4. Good(i - 1)
    BY <2>2, <2>3
  <2> QED
    BY <1>3, <2>3, <2>4
<1> QED
  BY <1>4 DEF Good

LEMMA SameState ==
    ASSUME NEW s \in LockStates, NEW t \in LockStates, s.deferred = t.deferred,
           \A r \in LockRefs : s.held[r] = t.held[r]
    PROVE  s = t
<1>1. s.held \in [LockRefs -> Modes \cup {"free"}] /\ t.held \in [LockRefs -> Modes \cup {"free"}]
  BY DEF LockStates
<1>2. s.held = t.held
  BY <1>1
<1> QED
  BY <1>2 DEF LockStates

LEMMA AfterForm ==
    ASSUME NEW body \in Bodies, NEW b \in DOMAIN body, NEW s \in LockStates, NEW t \in LockStates
    PROVE  LET end == Len(body[b].instrs) + 1 IN
             /\ end \in 1..end /\ After(body, b, s) \in LockStates
             /\ \A r \in LockRefs :
                  /\ Sets(body, b, end, r) => After(body, b, s).held[r] = After(body, b, t).held[r]
                  /\ ~Sets(body, b, end, r) => After(body, b, s).held[r] = s.held[r]
             /\ After(body, b, s).deferred = s.deferred \cup Defers(body, b, end)
<1> DEFINE end == Len(body[b].instrs) + 1
<1>1. end \in 1..end
  BY BodyFacts
<1> HIDE DEF end
<1>2. /\ Before(body, b, end, s) \in LockStates
      /\ \A r \in LockRefs :
           /\ Sets(body, b, end, r) => Before(body, b, end, s).held[r] = Before(body, b, end, t).held[r]
           /\ ~Sets(body, b, end, r) => Before(body, b, end, s).held[r] = s.held[r]
      /\ Before(body, b, end, s).deferred = s.deferred \cup Defers(body, b, end)
  BY <1>1, BeforeForm, BeforeSteps DEF end
<1> QED
  BY <1>1, <1>2 DEF After, end

\* A block that starts in a state it has itself made of e, by part of its instructions, ends
\* as it does from e: why a re-walk that overwrites the entry state as it goes still leaves
\* the block with one exit state.
LEMMA AfterAbsorbs ==
    ASSUME NEW body \in Bodies, NEW b \in DOMAIN body, NEW e \in LockStates,
           NEW i \in 1..(Len(body[b].instrs) + 1)
    PROVE  After(body, b, Before(body, b, i, e)) = After(body, b, e)
<1>0. PICK t : t = Before(body, b, i, e)
  OBVIOUS
<1>00. PICK end : end = Len(body[b].instrs) + 1
  OBVIOUS
<1>1. t \in LockStates
  BY <1>0, BeforeSteps
<1>2. /\ \A r \in LockRefs : ~Sets(body, b, i, r) => t.held[r] = e.held[r]
      /\ t.deferred = e.deferred \cup Defers(body, b, i)
  BY <1>0, BeforeForm
<1>3. end \in Nat /\ 1..(i - 1) \subseteq 1..(end - 1)
  BY <1>00, BodyFacts
<1>4. (\A r : Sets(body, b, i, r) => Sets(body, b, end, r)) /\ Defers(body, b, i) \subseteq Defers(body, b, end)
  BY <1>3 DEF Sets, Defers
<1>5. /\ After(body, b, t) \in LockStates
      /\ \A r \in LockRefs : /\ Sets(body, b, end, r) => After(body, b, t).held[r] = After(body, b, e).held[r]
                             /\ ~Sets(body, b, end, r) => After(body, b, t).held[r] = t.held[r]
      /\ After(body, b, t).deferred = t.deferred \cup Defers(body, b, end)
  BY <1>00, <1>1, AfterForm
<1>6. /\ After(body, b, e) \in LockStates
      /\ \A r \in LockRefs : ~Sets(body, b, end, r) => After(body, b, e).held[r] = e.held[r]
      /\ After(body, b, e).deferred = e.deferred \cup Defers(body, b, end)
  BY <1>00, AfterForm
<1>7. \A r \in LockRefs : After(body, b, t).held[r] = After(body, b, e).held[r]
  BY <1>2, <1>4, <1>5, <1>6
<1>8. After(body, b, t).deferred = After(body, b, e).deferred
  BY <1>2, <1>4, <1>5, <1>6
<1> QED
  BY <1>0, <1>5, <1>6, <1>7, <1>8, SameState

\* Merging before a block is merging after it.
LEMMA AfterIntersect ==
    ASSUME NEW body \in Bodies, NEW b \in DOMAIN body, NEW s \in LockStates, NEW t \in LockStates
    PROVE  After(body, b, intersect(s, t)) = intersect(After(body, b, s), After(body, b, t))
<1>0. PICK u, as, at, au, end : /\ u = intersect(s, t) /\ as = After(body, b, s) /\ at = After(body, b, t)
                                /\ au = After(body, b, u) /\ end = Len(body[b].instrs) + 1
  OBVIOUS
<1>1. u \in LockStates
  BY <1>0, LockStateTypes
<1>2. /\ \A r \in LockRefs : u.held[r] = IF s.held[r] = t.held[r] THEN s.held[r] ELSE "free"
      /\ u.deferred = s.deferred \cap t.deferred
  BY <1>0 DEF intersect
<1>3. /\ as \in LockStates
      /\ \A r \in LockRefs : /\ Sets(body, b, end, r) => as.held[r] = at.held[r]
                             /\ ~Sets(body, b, end, r) => as.held[r] = s.held[r]
      /\ as.deferred = s.deferred \cup Defers(body, b, end)
  BY <1>0, AfterForm
<1>4. /\ at \in LockStates
      /\ \A r \in LockRefs : ~Sets(body, b, end, r) => at.held[r] = t.held[r]
      /\ at.deferred = t.deferred \cup Defers(body, b, end)
  BY <1>0, AfterForm
<1>5. /\ au \in LockStates
      /\ \A r \in LockRefs : /\ Sets(body, b, end, r) => au.held[r] = as.held[r]
                             /\ ~Sets(body, b, end, r) => au.held[r] = u.held[r]
      /\ au.deferred = u.deferred \cup Defers(body, b, end)
  BY <1>0, <1>1, AfterForm
<1>6. PICK v : v = intersect(as, at)
  OBVIOUS
<1>7. /\ v \in LockStates /\ v.deferred = as.deferred \cap at.deferred
      /\ \A r \in LockRefs : v.held[r] = IF as.held[r] = at.held[r] THEN as.held[r] ELSE "free"
  <2>1. v \in LockStates
    BY <1>3, <1>4, <1>6, LockStateTypes
  <2> QED
    BY <1>6, <2>1 DEF intersect
<1>8. ASSUME NEW r \in LockRefs PROVE au.held[r] = v.held[r]
  <2>1. CASE Sets(body, b, end, r)
    BY <1>3, <1>5, <1>7, <2>1
  <2>2. CASE ~Sets(body, b, end, r)
    <3>1. as.held[r] = s.held[r] /\ at.held[r] = t.held[r] /\ au.held[r] = u.held[r]
      BY <1>3, <1>4, <1>5, <2>2
    <3> QED
      BY <1>2, <1>7, <3>1
  <2> QED
    BY <2>1, <2>2
<1>9. au.deferred = v.deferred
  BY <1>2, <1>3, <1>4, <1>5, <1>7
<1>10. au = v
  BY <1>5, <1>7, <1>8, <1>9, SameState
<1> QED
  BY <1>0, <1>6, <1>10

\* A block keeps the order from its start to its end.
LEMMA AfterMonotone ==
    ASSUME NEW body \in Bodies, NEW b \in DOMAIN body, NEW s \in LockStates, NEW t \in LockStates, Below(s, t)
    PROVE  Below(After(body, b, s), After(body, b, t))
<1>1. Len(body[b].instrs) + 1 \in 1..(Len(body[b].instrs) + 1)
  BY BodyFacts
<1> QED
  BY <1>1, BeforeOrders DEF After

-----------------------------------------------------------------------------
(* The states that paths reach. *)

LEMMA FiniteStates == IsFiniteSet(LockStates)
<1> DEFINE P == SUBSET LockRefs
           H(ls, m) == {r \in LockRefs : ls.held[r] = m}
           f == [ls \in LockStates |-> <<<<H(ls, "shared"), H(ls, "exclusive")>>, ls.deferred>>]
<1>1. IsFiniteSet(P)
  BY FiniteLockRefs, FS_SUBSET
<1>2. IsFiniteSet(P \X P)
  BY <1>1, FS_Product
<1>3. IsFiniteSet((P \X P) \X P)
  BY <1>1, <1>2, FS_Product
<1>4. f \in [LockStates -> (P \X P) \X P]
  BY DEF LockStates
<1>5. ASSUME NEW s \in LockStates, NEW t \in LockStates, f[s] = f[t] PROVE s = t
  <2>1. H(s, "shared") = H(t, "shared") /\ H(s, "exclusive") = H(t, "exclusive") /\ s.deferred = t.deferred
    BY <1>5
  <2>2. s.held \in [LockRefs -> Modes \cup {"free"}] /\ t.held \in [LockRefs -> Modes \cup {"free"}]
    BY DEF LockStates
  <2>3. ASSUME NEW r \in LockRefs PROVE s.held[r] = t.held[r]
    <3>1. r \in H(s, "shared") <=> r \in H(t, "shared")
      BY <2>1
    <3>2. r \in H(s, "exclusive") <=> r \in H(t, "exclusive")
      BY <2>1
    <3>3. s.held[r] \in {"shared", "exclusive", "free"} /\ t.held[r] \in {"shared", "exclusive", "free"}
      BY <2>2 DEF Modes
    <3> QED
      BY <3>1, <3>2, <3>3
  <2>4. s.held = t.held
    BY <2>2, <2>3
  <2> QED
    BY <2>1, <2>4 DEF LockStates
<1>6. f \in Injection(LockStates, (P \X P) \X P)
  <2> HIDE DEF f
  <2> QED
    BY <1>4, <1>5 DEF Injection, IsInjective
<1> QED
  BY <1>3, <1>6, FS_Injection

\* The pairs of a block and a lock state.
Pairs(body) == (DOMAIN body) \X LockStates

\* Closed under one more block of a path.
Closed(body, S) ==
    \A b \in DOMAIN body, s \in LockStates : <<b, s>> \in S =>
      \A i \in DOMAIN body[b].succs : <<body[b].succs[i], After(body, b, s)>> \in S

LEMMA AfterTypes ==
    ASSUME NEW body \in Bodies, NEW b \in DOMAIN body, NEW s \in LockStates
    PROVE  /\ After(body, b, s) \in LockStates
           /\ \A i \in DOMAIN body[b].succs : <<body[b].succs[i], After(body, b, s)>> \in Pairs(body)
<1>1. Len(body[b].instrs) + 1 \in 1..(Len(body[b].instrs) + 1)
  BY BodyFacts
<1> QED
  BY <1>1, BodyFacts, BeforeSteps DEF After, Pairs

LEMMA ExtendTypes ==
    ASSUME NEW body \in Bodies, NEW R \in SUBSET Pairs(body)
    PROVE  /\ Extend(body, R) \in SUBSET Pairs(body)
           /\ R \subseteq Extend(body, R)
           /\ Extend(body, R) = R => Closed(body, R)
           /\ \A S \in SUBSET Pairs(body) : (R \subseteq S /\ Closed(body, S)) => Extend(body, R) \subseteq S
<1>1. ASSUME NEW q PROVE q \in Extend(body, R) <=>
        \/ q \in R
        \/ \E p \in R : \E i \in DOMAIN body[p[1]].succs : q = <<body[p[1]].succs[i], After(body, p[1], p[2])>>
  BY DEF Extend
<1>2. ASSUME NEW p \in R PROVE p = <<p[1], p[2]>> /\ p[1] \in DOMAIN body /\ p[2] \in LockStates
  BY DEF Pairs
<1>3. Extend(body, R) \subseteq Pairs(body)
  BY <1>1, <1>2, AfterTypes
<1>4. R \subseteq Extend(body, R)
  BY <1>1
<1>5. ASSUME Extend(body, R) = R, NEW b \in DOMAIN body, NEW s \in LockStates, <<b, s>> \in R,
             NEW i \in DOMAIN body[b].succs
      PROVE  <<body[b].succs[i], After(body, b, s)>> \in R
  <2>1. PICK p : p = <<b, s>>
    OBVIOUS
  <2>2. p \in R /\ p[1] = b /\ p[2] = s
    BY <1>5, <2>1
  <2> QED
    BY <1>1, <1>5, <2>2
<1>6. ASSUME NEW S \in SUBSET Pairs(body), R \subseteq S, Closed(body, S) PROVE Extend(body, R) \subseteq S
  <2> SUFFICES ASSUME NEW p \in R, NEW i \in DOMAIN body[p[1]].succs
               PROVE  <<body[p[1]].succs[i], After(body, p[1], p[2])>> \in S
    BY <1>1, <1>6
  <2> QED
    BY <1>2, <1>6 DEF Closed
<1> QED
  BY <1>3, <1>4, <1>5, <1>6 DEF Closed

\* The rounds of Reached, and why there are enough of them: a round that adds nothing is
\* the last one, and there are only so many pairs to add.
LEMMA ReachedRounds ==
    ASSUME NEW body \in Bodies, body # <<>>
    PROVE  \E g \in [0..Rounds(body) -> SUBSET Pairs(body)] :
             /\ Rounds(body) \in Nat
             /\ g[0] = {<<1, newLockState>>}
             /\ \A n \in 1..Rounds(body) : g[n] = Extend(body, g[n - 1])
             /\ Reached(body) = g[Rounds(body)]
             /\ Closed(body, g[Rounds(body)])
<1>0. PICK m : m = Rounds(body)
  OBVIOUS
<1>1. IsFiniteSet(Pairs(body)) /\ m = Cardinality(Pairs(body)) /\ m \in Nat
  <2>1. IsFiniteSet(DOMAIN body)
    BY BodyFacts, FS_Interval
  <2> QED
    BY <1>0, <2>1, FiniteStates, FS_Product, FS_CardinalityType DEF Pairs, Rounds
<1>2. PICK start : start = {<<1, newLockState>>}
  OBVIOUS
<1>3. start \in SUBSET Pairs(body)
  <2>1. 1 \in DOMAIN body
    BY BodyFacts, EmptySeq DEF Bodies
  <2> QED
    BY <1>2, <2>1, NewState DEF Pairs
<1> DEFINE D == SUBSET Pairs(body)
           F == [p \in (1..m) \X D |-> Extend(body, p[2])]
<1>4. F \in [(1..m) \X D -> D]
  BY ExtendTypes
<1>5. PICK g \in [0..m -> D] : Iterates(g, start, m, F)
  <2> HIDE DEF D, F
  <2> QED
    BY <1>1, <1>3, <1>4, Iteration DEF D
<1>6. g[0] = start /\ \A n \in 1..m : g[n] = Extend(body, g[n - 1])
  <2> SUFFICES ASSUME NEW n \in 1..m PROVE g[n] = Extend(body, g[n - 1])
    BY <1>5 DEF Iterates
  <2>1. n - 1 \in 0..m
    BY <1>1
  <2> QED
    BY <1>5, <2>1 DEF Iterates
<1> HIDE DEF F, D
\* A round after the fixed point stays there, so the flag makes no difference.
<1> DEFINE Round(prev) == IF prev.closed THEN prev
                          ELSE [pairs |-> Extend(body, prev.pairs), closed |-> Extend(body, prev.pairs) = prev.pairs]
           First == [pairs |-> start, closed |-> FALSE]
           R[n \in 0..m] == IF n = 0 THEN First ELSE Round(R[n - 1])
           h == [n \in 0..m |-> [pairs |-> g[n], closed |-> IF n = 0 THEN FALSE ELSE g[n] = g[n - 1]]]
<1>7. \A n \in 0..m : h[n] = IF n = 0 THEN First ELSE Round(h[n - 1])
  <2>0. 0 \in 0..m /\ h[0] = First
    <3>1. 0 \in 0..m
      BY <1>1
    <3>2. h[0] = [pairs |-> g[0], closed |-> FALSE]
      BY <3>1, Zenon
    <3> QED
      BY <1>6, <3>1, <3>2
  <2> HIDE DEF Round, h, First
  <2> SUFFICES ASSUME NEW n \in 1..m PROVE h[n] = Round(h[n - 1])
    BY <1>1, <2>0
  <2> USE DEF Round, h
  <2>1. n \in 0..m /\ n - 1 \in 0..m /\ n # 0 /\ g[n] = Extend(body, g[n - 1])
    BY <1>1, <1>6
  <2>2. h[n] = [pairs |-> g[n], closed |-> g[n] = g[n - 1]]
    BY <2>1
  <2>3. h[n - 1].pairs = g[n - 1]
    BY <2>1
  <2>4. CASE h[n - 1].closed
    <3>1. n - 1 # 0 /\ g[n - 1] = g[(n - 1) - 1] /\ h[n - 1] = [pairs |-> g[n - 1], closed |-> TRUE]
      BY <2>1, <2>4
    <3>2. n - 1 \in 1..m
      BY <1>1, <3>1
    <3>3. g[n - 1] = Extend(body, g[(n - 1) - 1])
      BY <1>6, <3>2
    <3>4. g[n] = g[n - 1]
      BY <2>1, <3>1, <3>3
    <3> QED
      BY <2>2, <2>4, <3>1, <3>4
  <2>5. CASE ~h[n - 1].closed
    BY <2>1, <2>2, <2>3, <2>5
  <2> QED
    BY <2>4, <2>5
<1>8. R = [n \in 0..m |-> IF n = 0 THEN First ELSE Round(R[n - 1])]
  <2>1. h = [n \in 0..m |-> IF n = 0 THEN First ELSE Round(h[n - 1])]
    BY <1>7
  <2> HIDE DEF Round, First, h
  <2> QED
    BY <2>1
<1>9. Reached(body) = R[m].pairs
  BY <1>0, <1>2 DEF Reached
<1> HIDE DEF R, h, Round, First
<1>10. R[m].pairs = g[m]
  <2> DEFINE Bad == {n \in 0..m : R[n] # h[n]}
  <2>1. Bad = {}
    <3> SUFFICES ASSUME Bad # {} PROVE FALSE
      OBVIOUS
    <3>0. Bad \in SUBSET Nat
      BY <1>1
    <3>1. PICK n \in Bad : \A j \in Bad : n <= j
      BY <3>0, LeastNatural
    <3>2. n # 0 /\ n - 1 \in 0..m /\ ~(n <= n - 1)
      <4>1. R[0] = h[0]
        BY <1>1, <1>7, <1>8
      <4> QED
        BY <1>1, <4>1
    <3>3. R[n - 1] = h[n - 1]
      BY <3>1, <3>2
    <3> QED
      BY <1>7, <1>8, <3>2, <3>3
  <2>2. m \in 0..m
    BY <1>1
  <2>3. R[m] = h[m]
    BY <2>1, <2>2
  <2> QED
    BY <2>2, <2>3 DEF h
<1>11. Closed(body, g[m])
  <2> DEFINE Big(n) == Closed(body, g[n]) \/ Cardinality(g[n]) >= n + 1
             Bad == {n \in 0..m : ~Big(n)}
  <2>1. \A n \in 0..m : g[n] \in SUBSET Pairs(body) /\ IsFiniteSet(g[n]) /\ Cardinality(g[n]) \in Nat
    BY <1>1, <1>5, FS_Subset, FS_CardinalityType DEF D
  <2>2. Big(0)
    <3>1. Cardinality(start) = 1
      BY <1>2, FS_Singleton
    <3> QED
      BY <1>6, <3>1
  <2>3. ASSUME NEW n \in 1..m, Big(n - 1) PROVE Big(n)
    <3>0. n - 1 \in 0..m /\ n \in 0..m /\ (n - 1) + 1 = n
      BY <1>1
    <3>1. g[n] = Extend(body, g[n - 1]) /\ g[n - 1] \in SUBSET Pairs(body) /\ g[n] \in SUBSET Pairs(body)
      BY <1>6, <2>1, <3>0
    <3>2. g[n - 1] \in SUBSET g[n]
      BY <3>1, ExtendTypes
    <3>3. CASE g[n] = g[n - 1]
      BY <3>1, <3>3, ExtendTypes
    <3>4. CASE g[n] # g[n - 1]
      <4>1. Cardinality(g[n - 1]) <= Cardinality(g[n]) /\ Cardinality(g[n]) # Cardinality(g[n - 1])
        BY <2>1, <3>0, <3>2, <3>4, FS_Subset
      <4>2. CASE Closed(body, g[n - 1])
        <5>1. Extend(body, g[n - 1]) \subseteq g[n - 1]
          BY <3>1, <4>2, ExtendTypes
        <5> QED
          BY <3>1, <3>2, <3>4, <5>1
      <4>3. CASE Cardinality(g[n - 1]) >= n
        <5>1. Cardinality(g[n]) \in Nat /\ Cardinality(g[n - 1]) \in Nat
          BY <2>1, <3>0
        <5> QED
          BY <4>1, <4>3, <5>1
      <4> QED
        BY <2>3, <3>0, <4>2, <4>3
    <3> QED
      BY <3>3, <3>4
  <2> HIDE DEF Big
  <2>4. Bad = {}
    <3> SUFFICES ASSUME Bad # {} PROVE FALSE
      OBVIOUS
    <3>0. Bad \in SUBSET Nat
      BY <1>1
    <3>1. PICK n \in Bad : \A j \in Bad : n <= j
      BY <3>0, LeastNatural
    <3>2. n - 1 \in 0..m /\ ~(n <= n - 1) /\ n \in 1..m
      BY <1>1, <2>2
    <3>3. Big(n - 1)
      BY <3>1, <3>2
    <3> QED
      BY <2>3, <3>2, <3>3
  <2>5. m \in 0..m /\ Big(m)
    BY <1>1, <2>4
  <2>6. Cardinality(g[m]) <= m /\ Cardinality(g[m]) \in Nat
    BY <1>1, <2>1, <2>5, FS_Subset
  <2> QED
    BY <1>1, <2>5, <2>6 DEF Big
<1> QED
  BY <1>0, <1>1, <1>2, <1>5, <1>6, <1>9, <1>10, <1>11 DEF D

\* Reached is the least set of pairs that has the start and is closed.
LEMMA ReachedLeast ==
    ASSUME NEW body \in Bodies, body # <<>>
    PROVE  /\ Reached(body) \in SUBSET Pairs(body)
           /\ <<1, newLockState>> \in Reached(body)
           /\ Closed(body, Reached(body))
           /\ \A S \in SUBSET Pairs(body) :
                (<<1, newLockState>> \in S /\ Closed(body, S)) => Reached(body) \subseteq S
<1>0. PICK m : m = Rounds(body)
  OBVIOUS
<1>1. PICK g \in [0..m -> SUBSET Pairs(body)] :
        /\ m \in Nat
        /\ g[0] = {<<1, newLockState>>}
        /\ \A n \in 1..m : g[n] = Extend(body, g[n - 1])
        /\ Reached(body) = g[m]
        /\ Closed(body, g[m])
  BY <1>0, ReachedRounds
<1>2. ASSUME NEW n \in 0..m, NEW S \in SUBSET Pairs(body), <<1, newLockState>> \in S, Closed(body, S)
      PROVE  g[n] \subseteq S /\ <<1, newLockState>> \in g[n]
  <2> DEFINE Bad == {k \in 0..m : ~(g[k] \subseteq S /\ <<1, newLockState>> \in g[k])}
  <2> SUFFICES ASSUME Bad # {} PROVE FALSE
    OBVIOUS
  <2>0. Bad \in SUBSET Nat
    BY <1>1
  <2>1. PICK k \in Bad : \A j \in Bad : k <= j
    BY <2>0, LeastNatural
  <2>2. k - 1 \in 0..m /\ ~(k <= k - 1) /\ k \in 1..m
    <3>1. k # 0
      BY <1>1, <1>2, <2>1
    <3> QED
      BY <1>1, <3>1
  <2>3. g[k - 1] \subseteq S /\ <<1, newLockState>> \in g[k - 1]
    BY <2>1, <2>2
  <2>4. g[k] = Extend(body, g[k - 1]) /\ g[k - 1] \in SUBSET Pairs(body)
    BY <1>1, <2>2
  <2>5. g[k] \subseteq S /\ g[k - 1] \subseteq g[k]
    BY <1>2, <2>3, <2>4, ExtendTypes
  <2> QED
    BY <2>3, <2>5
<1>3. m \in 0..m
  BY <1>1
<1>4. \A S \in SUBSET Pairs(body) :
        (<<1, newLockState>> \in S /\ Closed(body, S)) => Reached(body) \subseteq S /\ <<1, newLockState>> \in Reached(body)
  BY <1>1, <1>2, <1>3
<1>5. <<1, newLockState>> \in Pairs(body) /\ Closed(body, Pairs(body))
  <2>1. g[0] \in SUBSET Pairs(body)
    BY <1>1
  <2> QED
    BY <1>1, <2>1, AfterTypes DEF Closed
<1> QED
  BY <1>1, <1>3, <1>4, <1>5

-----------------------------------------------------------------------------
(* A lock state of the walk compared with the states of all paths. *)

\* The lock states of all paths to instruction i of block b.
Paths(body, b, i) == StatesAt(body, Reached(body), b, i)

LEMMA PathsElements ==
    ASSUME NEW body \in Bodies, body # <<>>, NEW b \in DOMAIN body, NEW i \in 1..(Len(body[b].instrs) + 1)
    PROVE  /\ Paths(body, b, i) \in SUBSET LockStates
           /\ \A s \in LockStates : <<b, s>> \in Reached(body) => Before(body, b, i, s) \in Paths(body, b, i)
           /\ \A t \in Paths(body, b, i) :
                \E s \in LockStates : <<b, s>> \in Reached(body) /\ t = Before(body, b, i, s)
<1>1. Reached(body) \in SUBSET Pairs(body)
  BY ReachedLeast
<1>2. ASSUME NEW s \in LockStates, <<b, s>> \in Reached(body) PROVE Before(body, b, i, s) \in Paths(body, b, i)
  <2>1. PICK p : p = <<b, s>>
    OBVIOUS
  <2>2. p \in Reached(body) /\ p[1] = b /\ p[2] = s
    BY <1>2, <2>1
  <2> QED
    BY <2>2 DEF Paths, StatesAt
<1>3. ASSUME NEW t \in Paths(body, b, i)
      PROVE  \E s \in LockStates : <<b, s>> \in Reached(body) /\ t = Before(body, b, i, s)
  <2>1. PICK p \in Reached(body) : p[1] = b /\ t = Before(body, b, i, p[2])
    BY DEF Paths, StatesAt
  <2>2. p = <<p[1], p[2]>> /\ p[2] \in LockStates
    BY <1>1 DEF Pairs
  <2> QED
    BY <2>1, <2>2
<1>4. Paths(body, b, i) \in SUBSET LockStates
  <2> SUFFICES ASSUME NEW t \in Paths(body, b, i) PROVE t \in LockStates
    OBVIOUS
  <2>1. PICK s \in LockStates : t = Before(body, b, i, s)
    BY <1>3
  <2> QED
    BY <2>1, BeforeSteps
<1> QED
  BY <1>2, <1>3, <1>4

LEMMA PathsSteps ==
    ASSUME NEW body \in Bodies, body # <<>>
    PROVE  /\ 1 \in DOMAIN body /\ newLockState \in Paths(body, 1, 1)
           /\ \A b \in DOMAIN body :
                /\ \A s : s \in Paths(body, b, 1) <=> (s \in LockStates /\ <<b, s>> \in Reached(body))
                /\ \A i \in 1..Len(body[b].instrs) :
                     Paths(body, b, i + 1) = {Effect(body[b].instrs[i], s) : s \in Paths(body, b, i)}
                /\ \A i \in DOMAIN body[b].succs :
                     Paths(body, b, Len(body[b].instrs) + 1) \subseteq Paths(body, body[b].succs[i], 1)
<1>1. /\ Reached(body) \in SUBSET Pairs(body) /\ <<1, newLockState>> \in Reached(body)
      /\ Closed(body, Reached(body))
  BY ReachedLeast
<1>2. ASSUME NEW b \in DOMAIN body
      PROVE  \A s : s \in Paths(body, b, 1) <=> (s \in LockStates /\ <<b, s>> \in Reached(body))
  <2>1. 1 \in 1..(Len(body[b].instrs) + 1)
    BY BodyFacts
  <2>2. \A s \in LockStates : Before(body, b, 1, s) = s
    BY BeforeSteps
  <2> QED
    BY <2>1, <2>2, PathsElements
<1>3. 1 \in DOMAIN body /\ newLockState \in Paths(body, 1, 1)
  <2>1. 1 \in DOMAIN body /\ newLockState \in LockStates
    BY <1>1, NewState DEF Pairs
  <2> QED
    BY <1>1, <1>2, <2>1
<1>4. ASSUME NEW b \in DOMAIN body, NEW i \in 1..Len(body[b].instrs)
      PROVE  Paths(body, b, i + 1) = {Effect(body[b].instrs[i], s) : s \in Paths(body, b, i)}
  <2>1. i \in 1..(Len(body[b].instrs) + 1) /\ i + 1 \in 1..(Len(body[b].instrs) + 1)
    BY BodyFacts
  <2>2. \A s \in LockStates : Before(body, b, i + 1, s) = Effect(body[b].instrs[i], Before(body, b, i, s))
    BY BeforeSteps
  <2>3. ASSUME NEW t \in Paths(body, b, i + 1)
        PROVE  \E s \in Paths(body, b, i) : t = Effect(body[b].instrs[i], s)
    <3>1. PICK s \in LockStates : <<b, s>> \in Reached(body) /\ t = Before(body, b, i + 1, s)
      BY <2>1, PathsElements
    <3> QED
      BY <2>1, <2>2, <3>1, PathsElements
  <2>4. ASSUME NEW t \in Paths(body, b, i) PROVE Effect(body[b].instrs[i], t) \in Paths(body, b, i + 1)
    <3>1. PICK s \in LockStates : <<b, s>> \in Reached(body) /\ t = Before(body, b, i, s)
      BY <2>1, PathsElements
    <3>2. Before(body, b, i + 1, s) \in Paths(body, b, i + 1)
      BY <2>1, <3>1, PathsElements
    <3> QED
      BY <2>2, <3>1, <3>2
  <2> QED
    BY <2>3, <2>4
<1>5. ASSUME NEW b \in DOMAIN body, NEW i \in DOMAIN body[b].succs,
             NEW t \in Paths(body, b, Len(body[b].instrs) + 1)
      PROVE  t \in Paths(body, body[b].succs[i], 1)
  <2>1. Len(body[b].instrs) + 1 \in 1..(Len(body[b].instrs) + 1) /\ body[b].succs[i] \in DOMAIN body
    BY BodyFacts
  <2>2. PICK s \in LockStates : <<b, s>> \in Reached(body) /\ t = Before(body, b, Len(body[b].instrs) + 1, s)
    BY <2>1, PathsElements
  <2>3. t = After(body, b, s) /\ t \in LockStates
    BY <2>1, <2>2, BeforeSteps DEF After
  <2>4. <<body[b].succs[i], t>> \in Reached(body)
    BY <1>1, <2>2, <2>3 DEF Closed
  <2> QED
    BY <1>2, <2>1, <2>3, <2>4
<1> QED
  BY <1>2, <1>3, <1>4, <1>5

\* ls claims no more than some state of S has, and it lacks only what S gives a reason for:
\* a lock that S does not hold alike, an unlock that some state of S has not deferred.
Fits(S, ls) ==
    /\ \E s \in S : Within(ls, s)
    /\ \A r \in LockRefs \ Keys(ls) : ~HeldAlike(S, r)
    /\ \A r \in LockRefs \ ls.deferred : \E s \in S : r \notin s.deferred

LEMMA FitsMore ==
    ASSUME NEW S, NEW T, S \subseteq T, NEW ls, Fits(S, ls)
    PROVE  Fits(T, ls)
BY DEF Fits, HeldAlike

\* Merging two states that fit loses a lock only if they hold it in different modes.
LEMMA FitsMerge ==
    ASSUME NEW S \in SUBSET LockStates, NEW ls \in LockStates, NEW other \in LockStates,
           Fits(S, ls), Fits(S, other)
    PROVE  Fits(S, intersect(ls, other))
<1> DEFINE merged == intersect(ls, other)
<1>1. /\ \A r \in LockRefs : merged.held[r] = IF ls.held[r] = other.held[r] THEN ls.held[r] ELSE "free"
      /\ merged.deferred = ls.deferred \cap other.deferred
  BY DEF intersect
<1> HIDE DEF merged
<1>2. \E s \in S : Within(merged, s)
  BY <1>1 DEF Fits, Within
<1>3. ASSUME NEW r \in LockRefs \ Keys(merged), HeldAlike(S, r) PROVE FALSE
  <2>1. r \in Keys(ls) /\ r \in Keys(other)
    BY <1>3 DEF Fits
  <2>2. ls.held[r] # other.held[r]
    BY <1>1, <1>3, <2>1 DEF Keys
  <2>3. PICK s \in S : Within(ls, s)
    BY DEF Fits
  <2>4. PICK t \in S : Within(other, t)
    BY DEF Fits
  <2>5. s.held[r] = ls.held[r] /\ t.held[r] = other.held[r]
    BY <2>1, <2>3, <2>4 DEF Within, Keys
  <2> QED
    BY <1>3, <2>2, <2>5 DEF HeldAlike
<1>4. \A r \in LockRefs \ merged.deferred : \E s \in S : r \notin s.deferred
  BY <1>1 DEF Fits
<1> QED
  BY <1>2, <1>3, <1>4 DEF Fits, merged

\* An instruction keeps a state fitting.
LEMMA FitsEffect ==
    ASSUME NEW i \in Instrs, NEW S \in SUBSET LockStates, NEW ls \in LockStates, Fits(S, ls)
    PROVE  Fits({Effect(i, s) : s \in S}, Effect(i, ls))
<1> DEFINE T == {Effect(i, s) : s \in S}
           new == Effect(i, ls)
<1>1. \E t \in T : Within(new, t)
  <2>1. PICK s \in S : Within(ls, s)
    BY DEF Fits
  <2>2. Within(new, Effect(i, s))
    BY <2>1, EffectWithin
  <2> QED
    BY <2>2
<1>2. ASSUME NEW r \in LockRefs \ Keys(new), HeldAlike(T, r) PROVE FALSE
  <2>1. PICK m \in Modes : \A s \in S : Effect(i, s).held[r] = m
    BY <1>2 DEF HeldAlike
  <2>2. PICK s \in S : Within(ls, s)
    BY DEF Fits
  <2>3. CASE i.op = "lock" /\ i.ref = r
    <3>1. new.held[r] = i.mode /\ i.mode \in Modes
      BY <2>3, InstrTypes DEF Effect, LockStates
    <3> QED
      BY <1>2, <3>1 DEF Keys, Modes
  <2>4. CASE i.op = "unlock" /\ i.ref = r
    <3>1. Effect(i, s).held[r] = "free"
      BY <2>4, InstrTypes DEF Effect, LockStates
    <3> QED
      BY <2>1, <3>1 DEF Modes
  <2>5. CASE ~(i.op \in {"lock", "unlock"} /\ i.ref = r)
    <3>1. \A t \in LockStates : Effect(i, t).held[r] = t.held[r]
      BY <2>5, InstrTypes DEF Effect, LockStates
    <3>2. r \notin Keys(ls) /\ HeldAlike(S, r)
      BY <1>2, <2>1, <3>1 DEF Keys, HeldAlike
    <3> QED
      BY <1>2, <3>2 DEF Fits
  <2> QED
    BY <2>3, <2>4, <2>5
<1>3. ASSUME NEW r \in LockRefs \ new.deferred PROVE \E t \in T : r \notin t.deferred
  <2>1. \A t \in LockStates : Effect(i, t).deferred = IF i.op = "deferUnlock" THEN t.deferred \cup {i.ref} ELSE t.deferred
    BY InstrTypes DEF Effect, LockStates
  <2>2. r \notin ls.deferred
    BY <2>1
  <2>3. PICK s \in S : r \notin s.deferred
    BY <2>2 DEF Fits
  <2> QED
    BY <2>1, <2>3
<1> HIDE DEF T, new
<1>4. Fits(T, new)
  BY <1>1, <1>2, <1>3 DEF Fits
<1> QED
  BY <1>4 DEF T, new

-----------------------------------------------------------------------------
(* The steps of the walk, by what they do to the stack and the entry states. *)

\* The frames below the top one stay as they are.
LowerFramesStay == \A k \in 1..(Len(stack) - 1) : stack'[k] = stack[k]

\* An instruction; during a re-walk the entry state of the block is the running lock state.
StepsOver ==
    /\ prog' = prog /\ fn' = fn /\ exitStates' = exitStates /\ DOMAIN entryStates' = DOMAIN entryStates
    /\ \A b \in DOMAIN entryStates :
         \/ entryStates'[b] = entryStates[b]
         \/ b = Top.block /\ entryStates'[b] = Effect(Instr, Top.ls)
    /\ Top.ip \in 1..Len(Code(Top.block)) /\ Top.succ = 0 /\ Instr \in Instrs
    /\ Len(stack') = Len(stack) /\ LowerFramesStay
    /\ stack'[Len(stack)].block = Top.block /\ stack'[Len(stack)].succ = 0
    /\ stack'[Len(stack)].ip = Top.ip + 1 /\ stack'[Len(stack)].ls = Effect(Instr, Top.ls)

Exits ==
    /\ prog' = prog /\ fn' = fn /\ entryStates' = entryStates
    /\ exitStates' = Put(exitStates, Top.block, Top.ls)
    /\ Top.ip = Len(Code(Top.block)) + 1 /\ Top.succ = 0
    /\ Len(stack') = Len(stack) /\ LowerFramesStay
    /\ stack'[Len(stack)].block = Top.block /\ stack'[Len(stack)].succ = 1
    /\ stack'[Len(stack)].ip = Top.ip /\ stack'[Len(stack)].ls = Top.ls

\* The top frame turns to its next successor.
TurnsOn ==
    /\ Top.succ \in DOMAIN Succs(Top.block) /\ Top.succ > 0 /\ Top.ip = Len(Code(Top.block)) + 1
    /\ NextSucc = Succs(Top.block)[Top.succ] /\ NextSucc \in DOMAIN Body
    /\ LowerFramesStay
    /\ stack'[Len(stack)].block = Top.block /\ stack'[Len(stack)].succ = Top.succ + 1
    /\ stack'[Len(stack)].ip = Top.ip /\ stack'[Len(stack)].ls = Top.ls

ReturnsEarly ==
    /\ prog' = prog /\ fn' = fn /\ entryStates' = entryStates /\ exitStates' = exitStates
    /\ TurnsOn /\ Len(stack') = Len(stack)
    /\ NextSucc \in DOMAIN entryStates /\ Below(entryStates[NextSucc], Top.ls)

EntersWith(ls) ==
    /\ prog' = prog /\ fn' = fn /\ exitStates' = exitStates
    /\ TurnsOn /\ Len(stack') = Len(stack) + 1
    /\ \E sh \in BOOLEAN : stack'[Len(stack) + 1] = Frame(NextSucc, ls, sh)
    /\ DOMAIN entryStates' = DOMAIN entryStates \cup {NextSucc}
    /\ entryStates'[NextSucc] = ls
    /\ \A b \in DOMAIN entryStates : b # NextSucc => entryStates'[b] = entryStates[b]
    /\ Below(ls, Top.ls)
    /\ NextSucc \in DOMAIN entryStates => Below(ls, entryStates[NextSucc])
    /\ ls = Top.ls \/ (NextSucc \in DOMAIN entryStates /\ ls = intersect(entryStates[NextSucc], Top.ls))

Leaves ==
    /\ prog' = prog /\ fn' = fn /\ entryStates' = entryStates /\ exitStates' = exitStates
    /\ Top.succ > Len(Succs(Top.block)) /\ Top.succ > 0
    /\ Len(stack') = Len(stack) - 1 /\ LowerFramesStay
    /\ stack' # <<>> => Len(stack) > 1

BlockSteps == Exits \/ ReturnsEarly \/ (\E ls \in LockStates : EntersWith(ls)) \/ Leaves

LEMMA InstructionShape ==
    ASSUME TypeOK, ProcessInstruction
    PROVE  StepsOver /\ stack # <<>>
<1>1. PICK ops : At(ops)
  BY HandlerEffect
<1>2. /\ Advance(Effect(Instr, Top.ls)) /\ stack # <<>> /\ Top.ls \in LockStates /\ Instr \in Instrs
      /\ Top.ip \in 1..Len(Code(Top.block)) /\ Top.succ = 0
  BY <1>1, HandlerEffect, AtTypes
<1>3. Effect(Instr, Top.ls) \in LockStates
  BY <1>2, EffectTypes
<1>4. /\ prog' = prog /\ fn' = fn /\ exitStates' = exitStates /\ DOMAIN entryStates' = DOMAIN entryStates
      /\ \A b \in DOMAIN entryStates :
           \/ entryStates'[b] = entryStates[b]
           \/ b = Top.block /\ entryStates'[b] = Effect(Instr, Top.ls)
  <2>1. Top.block \in DOMAIN entryStates
    BY <1>2, TopTypes
  <2> QED
    BY <1>2, <2>1 DEF Advance, Put
<1>5. /\ Len(stack') = Len(stack)
      /\ \A k \in 1..Len(stack) : k < Len(stack) => stack'[k] = stack[k]
      /\ Top' = stack'[Len(stack)]
      /\ Top'.block = Top.block /\ Top'.succ = 0 /\ Top'.ls = Effect(Instr, Top.ls) /\ Top'.ip = Top.ip + 1
  BY <1>1, <1>2, <1>3, AdvanceStack
<1>6. Len(stack) \in Nat
  BY <1>2, TopTypes
<1>7. LowerFramesStay
  BY <1>5, <1>6 DEF LowerFramesStay
<1> QED
  BY <1>2, <1>4, <1>5, <1>7 DEF StepsOver

LEMMA TurnsOnWhen ==
    ASSUME TypeOK, HasNextSucc, \A k \in 1..Len(stack) : stack'[k] = Returned[k]
    PROVE  TurnsOn
<1>1. /\ Len(stack) \in Nat /\ Len(stack) > 0 /\ stack # <<>> /\ NextSucc \in DOMAIN Body
      /\ Top.succ \in DOMAIN Succs(Top.block) /\ Top.succ > 0
      /\ NextSucc = Succs(Top.block)[Top.succ]
  <2>1. stack # <<>> /\ Top.succ \in DOMAIN Succs(Top.block) /\ NextSucc = Succs(Top.block)[Top.succ]
    BY DEF HasNextSucc, NextSucc
  <2>2. fn > 0 /\ Len(stack) \in Nat /\ Len(stack) > 0 /\ Top.block \in DOMAIN Body
    BY <2>1, TopTypes
  <2> QED
    BY <2>1, <2>2, BodyTypes
<1>2. Top.ip = Len(Code(Top.block)) + 1
  BY <1>1, TopTypes
<1>3. /\ \A k \in 1..Len(stack) :
           /\ Returned[k].block = stack[k].block
           /\ Returned[k].ls = stack[k].ls
           /\ Returned[k].ip = stack[k].ip
           /\ Returned[k].succ = IF k = Len(stack) THEN Top.succ + 1 ELSE stack[k].succ
  BY ReturnedTypes
<1>4. stack \in Seq(Frames)
  BY <1>1, TopTypes
<1>5. LowerFramesStay
  <2> SUFFICES ASSUME NEW k \in 1..(Len(stack) - 1) PROVE Returned[k] = stack[k]
    BY <1>1 DEF LowerFramesStay
  <2> QED
    BY <1>1, <1>4 DEF Returned
<1>6. Len(stack) \in 1..Len(stack) /\ stack[Len(stack)] = Top
  BY <1>1 DEF Top
<1> QED
  BY <1>1, <1>2, <1>3, <1>5, <1>6 DEF TurnsOn

LEMMA EnterShape ==
    ASSUME TypeOK, HasNextSucc, NEW ls \in LockStates, NEW sh \in BOOLEAN,
           prog' = prog, fn' = fn, exitStates' = exitStates,
           stack' = Entered(NextSucc, ls, sh), entryStates' = Put(entryStates, NextSucc, ls),
           Below(ls, Top.ls),
           NextSucc \in DOMAIN entryStates => Below(ls, entryStates[NextSucc]),
           ls = Top.ls \/ (NextSucc \in DOMAIN entryStates /\ ls = intersect(entryStates[NextSucc], Top.ls))
    PROVE  EntersWith(ls)
<1>1. Len(stack) \in Nat
  BY TopTypes DEF HasNextSucc
<1>2. /\ Len(stack') = Len(stack) + 1
      /\ \A k \in 1..Len(stack) : stack'[k] = Returned[k]
      /\ stack'[Len(stack) + 1] = Frame(NextSucc, ls, sh)
  BY <1>1, EnteredTypes
<1>3. TurnsOn
  BY <1>2, TurnsOnWhen
<1>4. /\ DOMAIN entryStates' = DOMAIN entryStates \cup {NextSucc}
      /\ entryStates'[NextSucc] = ls
      /\ \A b \in DOMAIN entryStates : b # NextSucc => entryStates'[b] = entryStates[b]
  BY DEF Put
<1> QED
  BY <1>2, <1>3, <1>4 DEF EntersWith

LEMMA BlockShape ==
    ASSUME TypeOK, WalkBlock
    PROVE  /\ BlockSteps /\ stack # <<>>
           /\ ~RevisitMerge => diags' = diags
           /\ UNCHANGED <<unlockOfUnlockedCandidates, lockLeakCandidates, deferredLockTypoReported,
                          observations, callSites, lockOrderEdges, acquires, releases>>
<1>1. CASE VisitBlock
  <2>1. /\ HasNextSucc /\ prog' = prog /\ fn' = fn /\ NextSucc \notin DOMAIN entryStates
        /\ entryStates' = Put(entryStates, NextSucc, Top.ls)
        /\ stack' = Entered(NextSucc, Top.ls, FALSE) /\ stack # <<>> /\ exitStates' = exitStates
    BY <1>1 DEF VisitBlock, HasNextSucc
  <2>2. Top.ls \in LockStates /\ Below(Top.ls, Top.ls)
    BY <2>1, TopTypes, BelowRefl
  <2>3. EntersWith(Top.ls)
    BY <2>1, <2>2, EnterShape
  <2> QED
    BY <1>1, <2>1, <2>2, <2>3 DEF BlockSteps, VisitBlock, passVars
<1>2. CASE RevisitEqual
  <2>1. /\ HasNextSucc /\ prog' = prog /\ fn' = fn /\ NextSucc \in DOMAIN entryStates
        /\ entryStates' = entryStates /\ stack' = Returned /\ stack # <<>> /\ exitStates' = exitStates
        /\ equalHeld(Top.ls, entryStates[NextSucc])
    BY <1>2 DEF RevisitEqual, HasNextSucc
  <2>2. ReturnsEarly
    BY <2>1, EqualHeldBelow, TurnsOnWhen, ReturnedTypes DEF ReturnsEarly
  <2> QED
    BY <1>2, <2>1, <2>2 DEF BlockSteps, RevisitEqual, passVars
<1>3. CASE RevisitMerge
  <2>0. PICK prev : prev = entryStates[NextSucc]
    OBVIOUS
  <2>00. PICK merged : merged = intersect(prev, Top.ls)
    OBVIOUS
  <2>1. /\ HasNextSucc /\ prog' = prog /\ fn' = fn /\ NextSucc \in DOMAIN entryStates /\ stack # <<>>
        /\ exitStates' = exitStates
        /\ \/ equalHeld(merged, prev) /\ entryStates' = entryStates /\ stack' = Returned
           \/ /\ entryStates' = Put(entryStates, NextSucc, merged)
              /\ stack' = Entered(NextSucc, merged, TRUE)
    BY <1>3, <2>0, <2>00 DEF RevisitMerge, HasNextSucc
  <2>2. Top.ls \in LockStates /\ prev \in LockStates
    BY <2>0, <2>1, TopTypes DEF TypeOK
  <2>3. merged \in LockStates /\ Below(merged, prev) /\ Below(merged, Top.ls)
    BY <2>00, <2>2, LockStateTypes, IntersectBelow
  <2>4. CASE equalHeld(merged, prev) /\ entryStates' = entryStates /\ stack' = Returned
    <3>1. Below(prev, merged)
      BY <2>4, EqualHeldBelow
    <3>2. Below(entryStates[NextSucc], Top.ls)
      BY <2>0, <2>2, <2>3, <3>1, BelowTrans
    <3>3. ReturnsEarly
      BY <2>1, <2>4, <3>2, TurnsOnWhen, ReturnedTypes DEF ReturnsEarly
    <3> QED
      BY <1>3, <2>1, <3>3 DEF BlockSteps, RevisitMerge
  <2>5. CASE entryStates' = Put(entryStates, NextSucc, merged) /\ stack' = Entered(NextSucc, merged, TRUE)
    <3>1. EntersWith(merged)
      BY <2>0, <2>00, <2>1, <2>3, <2>5, EnterShape
    <3> QED
      BY <1>3, <2>1, <2>3, <3>1 DEF BlockSteps, RevisitMerge
  <2> QED
    BY <2>1, <2>4, <2>5
<1>4. CASE ExitBlock
  <2>1. /\ stack # <<>> /\ Top.succ = 0 /\ prog' = prog /\ fn' = fn /\ entryStates' = entryStates
        /\ exitStates' = Put(exitStates, Top.block, Top.ls)
        /\ stack' = [stack EXCEPT ![Len(stack)] = [Top EXCEPT !.succ = 1]]
    BY <1>4 DEF ExitBlock, Top
  <2>2. /\ Top \in Frames /\ stack \in Seq(Frames) /\ fn > 0 /\ Len(stack) \in Nat /\ Len(stack) > 0
        /\ Top.block \in DOMAIN Body /\ Top.ip \in Nat /\ Top.ip <= Len(Code(Top.block)) + 1
    BY <2>1, TopTypes
  <2>3. Top.ip = Len(Code(Top.block)) + 1
    BY <1>4, <2>2, BodyTypes DEF ExitBlock
  <2> DEFINE top == [Top EXCEPT !.succ = 1]
  <2>4. /\ top.block = Top.block /\ top.succ = 1 /\ top.ls = Top.ls /\ top.ip = Top.ip
    BY <2>2 DEF Frames
  <2>5. stack' = [stack EXCEPT ![Len(stack)] = top]
    BY <2>1
  <2>6. top \in Frames
    <3>1. Len(Code(Top.block)) \in Nat /\ Len(Succs(Top.block)) \in Nat
      BY <2>2, BodyTypes
    <3>2. Top.succ <= Len(Succs(Top.block)) /\ Top.succ + 1 = 1
      BY <2>1, <3>1
    <3>3. [Top EXCEPT !.succ = Top.succ + 1] \in Frames
      BY <2>2, <2>3, <3>1, <3>2, FrameUpdates, Zenon
    <3> QED
      BY <3>2, <3>3
  <2> HIDE DEF top
  <2>8. Len(stack') = Len(stack) /\ \A k \in 1..Len(stack) : stack'[k] = IF k = Len(stack) THEN top ELSE stack[k]
    BY <2>1, <2>2, <2>5, <2>6, ReplaceTop
  <2>9. Exits
    BY <2>1, <2>2, <2>3, <2>4, <2>8 DEF Exits, LowerFramesStay
  <2> QED
    BY <1>4, <2>1, <2>9 DEF BlockSteps, ExitBlock, passVars
<1>5. CASE LeaveBlock
  <2>1. /\ stack # <<>> /\ prog' = prog /\ fn' = fn /\ entryStates' = entryStates /\ exitStates' = exitStates
        /\ stack' = SubSeq(stack, 1, Len(stack) - 1) /\ Top.succ > Len(Succs(Top.block))
    BY <1>5 DEF LeaveBlock
  <2>2. Len(stack) \in Nat /\ stack \in Seq(Frames) /\ fn > 0 /\ Top.block \in DOMAIN Body /\ Top.succ \in Nat
    BY <2>1, TopTypes
  <2>3. Top.succ > 0
    BY <2>1, <2>2, BodyTypes
  <2>4. Len(stack') = Len(stack) - 1 /\ \A k \in 1..(Len(stack) - 1) : stack'[k] = stack[k]
    BY <2>1, <2>2, Pop
  <2>5. stack' # <<>> => Len(stack) > 1
    <3>1. SubSeq(stack, 1, Len(stack) - 1) \in Seq(Frames) /\ Len(stack) > 0
      BY <2>1, <2>2, Pop, TopTypes
    <3>2. stack' \in Seq(Frames)
      BY <2>1, <3>1
    <3>3. stack' # <<>> => Len(stack') # 0
      BY <3>2, EmptySeq
    <3> QED
      BY <2>2, <2>4, <3>1, <3>3
  <2> QED
    BY <1>5, <2>1, <2>3, <2>4, <2>5 DEF BlockSteps, Leaves, LowerFramesStay, LeaveBlock, passVars
<1> QED
  BY <1>1, <1>2, <1>3, <1>4, <1>5 DEF WalkBlock

-----------------------------------------------------------------------------
(* The walk covers every edge of the graph. *)

\* The lock state at the end of the latest walk of b, once it gets there.  It is the same
\* whether b's entry state is still the one the walk of b began with, or one that a
\* re-walk has overwritten with the state before a later instruction.
Settled(b) == After(Body, b, entryStates[b])

\* The running frame still has instructions of b to do.
InProgress(b) == stack # <<>> /\ Top.block = b /\ Top.succ = 0

\* The lock state of the running frame leads to the settled state of its block.
TopExact ==
    (stack # <<>> /\ Top.succ = 0) =>
      \E e \in LockStates :
        /\ Top.ls = Before(Body, Top.block, Top.ip, e)
        /\ After(Body, Top.block, e) = Settled(Top.block)

\* A block that is not in progress has its settled state as exit state.
ExitsSettled ==
    /\ DOMAIN exitStates \subseteq DOMAIN entryStates
    /\ \A b \in DOMAIN entryStates : InProgress(b) \/ (b \in DOMAIN exitStates /\ exitStates[b] = Settled(b))

\* A frame on the stack will call walkBlock for the i-th successor of b with Settled(b).
EdgeOpen(b, i) ==
    \E k \in 1..Len(stack) :
      stack[k].block = b /\ (stack[k].succ = 0 \/ (stack[k].succ <= i /\ stack[k].ls = Settled(b)))

\* The settled state of c allows for paths that come to c with ls.
Arrives(c, ls) == c \in DOMAIN entryStates /\ Below(Settled(c), After(Body, c, ls))

\* Otherwise it has been called, and the successor allows for Settled(b).
EdgesSeen ==
    \A b \in DOMAIN entryStates : \A i \in DOMAIN Succs(b) :
      EdgeOpen(b, i) \/ Arrives(Succs(b)[i], Settled(b))

EntryWalked == Body # <<>> => Arrives(1, newLockState)

Covered == TopExact /\ ExitsSettled /\ EdgesSeen /\ EntryWalked

\* Types of the stack, for the steps below.
LEMMA WalkTypes ==
    ASSUME TypeOK, stack # <<>>
    PROVE  /\ fn > 0 /\ Len(stack) \in Nat /\ Len(stack) > 0
           /\ Body \in Bodies /\ Body # <<>>
           /\ stack[Len(stack)] = Top /\ Top.block \in DOMAIN entryStates /\ Top.block \in DOMAIN Body
           /\ Top.ls \in LockStates /\ Top.ip \in 1..(Len(Code(Top.block)) + 1) /\ Top.succ \in Nat
           /\ \A k \in 1..Len(stack) :
                /\ stack[k].block \in DOMAIN entryStates /\ stack[k].block \in DOMAIN Body
                /\ stack[k].ls \in LockStates /\ stack[k].succ \in Nat
                /\ stack[k].ip \in 1..(Len(Code(stack[k].block)) + 1)
                /\ k < Len(stack) => stack[k].succ > 0
           /\ \A b \in DOMAIN entryStates :
                /\ b \in DOMAIN Body /\ entryStates[b] \in LockStates /\ Settled(b) \in LockStates
                /\ \A i \in DOMAIN Succs(b) : i \in Nat /\ i > 0
<1>1. /\ fn > 0 /\ Len(stack) \in Nat /\ Len(stack) > 0 /\ stack \in Seq(Frames)
      /\ Top.block \in DOMAIN entryStates /\ Top.block \in DOMAIN Body
      /\ Top.ls \in LockStates /\ Top.succ \in Nat
  BY TopTypes
<1>2. Body \in Bodies /\ \A b \in DOMAIN Body : Len(Code(b)) \in Nat /\ DOMAIN Succs(b) = 1..Len(Succs(b))
  BY <1>1, BodyTypes
<1>3. Body # <<>>
  BY <1>1
<1>4. ASSUME NEW k \in 1..Len(stack)
      PROVE  /\ stack[k].block \in DOMAIN entryStates /\ stack[k].block \in DOMAIN Body
             /\ stack[k].ls \in LockStates /\ stack[k].succ \in Nat
             /\ stack[k].ip \in 1..(Len(Code(stack[k].block)) + 1)
             /\ k < Len(stack) => stack[k].succ > 0
  <2>1. stack[k] \in Frames
    BY <1>1, ElementOfSeq
  <2> QED
    BY <1>1, <2>1 DEF TypeOK, Frames
<1>5. ASSUME NEW b \in DOMAIN entryStates
      PROVE  /\ b \in DOMAIN Body /\ entryStates[b] \in LockStates /\ Settled(b) \in LockStates
             /\ \A i \in DOMAIN Succs(b) : i \in Nat /\ i > 0
  <2>1. b \in DOMAIN Body /\ entryStates[b] \in LockStates
    BY <1>1 DEF TypeOK
  <2>2. Settled(b) \in LockStates
    BY <1>2, <2>1, AfterTypes DEF Settled
  <2> QED
    BY <1>2, <2>1, <2>2
<1>6. stack[Len(stack)] = Top /\ Len(stack) \in 1..Len(stack)
  BY <1>1 DEF Top
<1> QED
  BY <1>1, <1>2, <1>3, <1>4, <1>5, <1>6

LEMMA SettledStays ==
    ASSUME prog' = prog, fn' = fn, NEW b, entryStates'[b] = entryStates[b]
    PROVE  Settled(b)' = Settled(b)
BY SameGraph DEF Settled

\* A step that leaves the settled states alone, and open edges open or seen.
LEMMA SeenStays ==
    ASSUME prog' = prog, fn' = fn, EdgesSeen, EntryWalked, DOMAIN entryStates' = DOMAIN entryStates,
           \A b \in DOMAIN entryStates : Settled(b)' = Settled(b),
           \A b \in DOMAIN entryStates : \A i \in DOMAIN Succs(b) :
             EdgeOpen(b, i) => EdgeOpen(b, i)' \/ Arrives(Succs(b)[i], Settled(b))
    PROVE  EdgesSeen' /\ EntryWalked'
<1>1. Body' = Body /\ (\A b : Succs(b)' = Succs(b))
  BY SameGraph
<1>2. ASSUME NEW b \in DOMAIN entryStates, NEW i \in DOMAIN Succs(b), NEW c, c = Succs(b)[i]
      PROVE  EdgeOpen(b, i)' \/ (c \in DOMAIN entryStates' /\ Below(Settled(c)', After(Body, c, Settled(b)')))
  <2>1. Settled(b)' = Settled(b)
    OBVIOUS
  <2>2. EdgeOpen(b, i)' \/ (c \in DOMAIN entryStates /\ Below(Settled(c), After(Body, c, Settled(b))))
    BY <1>2 DEF EdgesSeen, Arrives
  <2> QED
    BY <2>1, <2>2
<1>3. EdgesSeen'
  BY <1>1, <1>2 DEF EdgesSeen, Arrives, Settled
<1>4. EntryWalked'
  BY <1>1 DEF EntryWalked, Arrives
<1> QED
  BY <1>3, <1>4

\* An instruction leaves every settled state alone, also that of a block in its re-walk.
LEMMA SettledStepsOver ==
    ASSUME TypeOK, stack # <<>>, TopExact, StepsOver
    PROVE  /\ \A b \in DOMAIN entryStates : Settled(b)' = Settled(b)
           /\ \E e \in LockStates :
                /\ Effect(Instr, Top.ls) = Before(Body, Top.block, Top.ip + 1, e)
                /\ After(Body, Top.block, e) = Settled(Top.block)
<1>1. /\ Top.ls \in LockStates /\ Body \in Bodies /\ Top.block \in DOMAIN Body
      /\ Top.block \in DOMAIN entryStates /\ Top.ip \in 1..Len(Code(Top.block))
  BY WalkTypes DEF StepsOver
<1>2. Instr = Body[Top.block].instrs[Top.ip] /\ Code(Top.block) = Body[Top.block].instrs
  BY DEF Instr, Code
<1>3. PICK e \in LockStates : /\ Top.ls = Before(Body, Top.block, Top.ip, e)
                              /\ After(Body, Top.block, e) = Settled(Top.block)
  BY DEF TopExact, StepsOver
<1>4. Effect(Instr, Top.ls) = Before(Body, Top.block, Top.ip + 1, e)
  BY <1>1, <1>2, <1>3, BeforeSteps
<1>5. ASSUME NEW b \in DOMAIN entryStates PROVE Settled(b)' = Settled(b)
  <2>1. CASE entryStates'[b] = entryStates[b]
    BY <2>1, SettledStays DEF StepsOver
  <2>2. CASE b = Top.block /\ entryStates'[b] = Effect(Instr, Top.ls)
    <3>1. Top.ip + 1 \in 1..(Len(Body[b].instrs) + 1)
      BY <1>1, <1>2, <2>2, BodyFacts
    <3>2. After(Body, b, Before(Body, b, Top.ip + 1, e)) = After(Body, b, e)
      BY <1>1, <2>2, <3>1, AfterAbsorbs
    <3>3. Settled(b)' = After(Body, b, entryStates'[b])
      BY SameGraph DEF Settled, StepsOver
    <3> QED
      BY <1>3, <1>4, <2>2, <3>2, <3>3
  <2> QED
    BY <2>1, <2>2 DEF StepsOver
<1> QED
  BY <1>3, <1>4, <1>5

LEMMA CoveredStepsOver ==
    ASSUME TypeOK, stack # <<>>, Covered, StepsOver
    PROVE  Covered'
<1>0. PICK n : n = Len(stack)
  OBVIOUS
<1>1. n \in Nat /\ n > 0 /\ stack[n] = Top /\ Top.block \in DOMAIN entryStates
  BY <1>0, WalkTypes
<1>2. /\ Body' = Body /\ prog' = prog /\ fn' = fn /\ exitStates' = exitStates
      /\ DOMAIN entryStates' = DOMAIN entryStates
  BY SameGraph DEF StepsOver
<1>3. Len(stack') = n /\ Top' = stack'[n]
  BY <1>0 DEF StepsOver, Top
<1>4. Top'.block = Top.block /\ Top'.succ = 0 /\ Top'.ip = Top.ip + 1 /\ Top'.ls = Effect(Instr, Top.ls)
  BY <1>0, <1>3 DEF StepsOver
<1>5. /\ \A b \in DOMAIN entryStates : Settled(b)' = Settled(b)
      /\ \E e \in LockStates :
           /\ Effect(Instr, Top.ls) = Before(Body, Top.block, Top.ip + 1, e)
           /\ After(Body, Top.block, e) = Settled(Top.block)
  BY SettledStepsOver DEF Covered
<1>6. TopExact'
  <2>1. PICK t : t = Top.block
    OBVIOUS
  <2>2. Settled(t)' = Settled(Top.block) /\ Top'.block = t
    BY <1>1, <1>4, <1>5, <2>1
  <2>3. PICK e \in LockStates : /\ Top'.ls = Before(Body', t, Top'.ip, e)
                                /\ After(Body', t, e) = Settled(t)'
    BY <1>2, <1>4, <1>5, <2>1, <2>2
  <2> QED
    BY <2>2, <2>3 DEF TopExact, Settled
<1>7. ExitsSettled'
  <2> SUFFICES ASSUME NEW b \in DOMAIN entryStates, b # Top.block PROVE b \in DOMAIN exitStates /\ exitStates[b] = Settled(b)'
    <3>1. Top' = stack'[n] /\ stack' # <<>>
      BY <1>1, <1>3
    <3> QED
      BY <1>2, <1>4, <3>1 DEF Covered, ExitsSettled, InProgress
  <2> QED
    BY <1>5 DEF Covered, ExitsSettled, InProgress
<1>8. EdgesSeen' /\ EntryWalked'
  <2> SUFFICES ASSUME NEW b \in DOMAIN entryStates, NEW i \in DOMAIN Succs(b), EdgeOpen(b, i) PROVE EdgeOpen(b, i)'
    BY <1>2, <1>5, SeenStays DEF Covered
  <2>1. PICK k \in 1..n : stack[k].block = b /\ (stack[k].succ = 0 \/ (stack[k].succ <= i /\ stack[k].ls = Settled(b)))
    BY <1>0 DEF EdgeOpen
  <2>2. CASE k = n
    BY <1>1, <1>3, <1>4, <2>1, <2>2 DEF EdgeOpen
  <2>3. CASE k # n
    <3>1. stack'[k] = stack[k] /\ k \in 1..Len(stack') /\ Settled(b)' = Settled(b)
      BY <1>0, <1>1, <1>3, <1>5, <2>3 DEF StepsOver, LowerFramesStay
    <3> QED
      BY <2>1, <3>1 DEF EdgeOpen
  <2> QED
    BY <2>2, <2>3
<1> QED
  BY <1>6, <1>7, <1>8 DEF Covered

\* At the end of its block, the running lock state is the settled one.
LEMMA SettledAtEnd ==
    ASSUME TypeOK, stack # <<>>, TopExact, Top.succ = 0, Top.ip = Len(Code(Top.block)) + 1
    PROVE  Top.ls = Settled(Top.block)
<1>1. PICK e \in LockStates : /\ Top.ls = Before(Body, Top.block, Top.ip, e)
                              /\ After(Body, Top.block, e) = Settled(Top.block)
  BY DEF TopExact
<1> QED
  BY <1>1 DEF After, Code

LEMMA CoveredExits ==
    ASSUME TypeOK, stack # <<>>, Covered, Exits
    PROVE  Covered'
<1>0. PICK n : n = Len(stack)
  OBVIOUS
<1>1. /\ n \in Nat /\ n > 0 /\ Top.block \in DOMAIN entryStates /\ stack[n] = Top
  BY <1>0, WalkTypes
<1>2. prog' = prog /\ fn' = fn /\ entryStates' = entryStates /\ exitStates' = Put(exitStates, Top.block, Top.ls)
  BY DEF Exits
<1>3. Len(stack') = n /\ Top' = stack'[n] /\ Top'.succ = 1
  BY <1>0 DEF Exits, Top
<1>4. Top.ls = Settled(Top.block)
  BY SettledAtEnd DEF Covered, Exits
<1>5. TopExact'
  BY <1>3 DEF TopExact
<1>6. \A b \in DOMAIN entryStates : Settled(b)' = Settled(b)
  BY <1>2, SettledStays
<1>7. ExitsSettled'
  <2>1. DOMAIN exitStates' = DOMAIN exitStates \cup {Top.block} /\ exitStates'[Top.block] = Top.ls
        /\ \A b \in DOMAIN exitStates : b # Top.block => exitStates'[b] = exitStates[b]
    BY <1>2 DEF Put
  <2>2. ASSUME NEW b \in DOMAIN entryStates PROVE b \in DOMAIN exitStates' /\ exitStates'[b] = Settled(b)'
    <3>1. CASE b = Top.block
      BY <1>4, <1>6, <2>1, <3>1
    <3>2. CASE b # Top.block
      <4>1. b \in DOMAIN exitStates /\ exitStates[b] = Settled(b)
        BY <3>2 DEF Covered, ExitsSettled, InProgress
      <4> QED
        BY <1>6, <2>1, <3>2, <4>1
    <3> QED
      BY <3>1, <3>2
  <2>3. DOMAIN exitStates' \subseteq DOMAIN entryStates'
    BY <1>1, <1>2, <2>1 DEF Covered, ExitsSettled
  <2> QED
    BY <1>2, <2>2, <2>3 DEF ExitsSettled
<1>8. EdgesSeen' /\ EntryWalked'
  <2> SUFFICES ASSUME NEW b \in DOMAIN entryStates, NEW i \in DOMAIN Succs(b), EdgeOpen(b, i) PROVE EdgeOpen(b, i)'
    BY <1>2, <1>6, SeenStays DEF Covered
  <2>0. Settled(b)' = Settled(b) /\ i \in Nat /\ i > 0
    BY <1>6, WalkTypes
  <2>1. PICK k \in 1..n : stack[k].block = b /\ (stack[k].succ = 0 \/ (stack[k].succ <= i /\ stack[k].ls = Settled(b)))
    BY <1>0 DEF EdgeOpen
  <2>2. CASE k = n
    <3>1. stack'[k].block = b /\ stack'[k].succ <= i /\ stack'[k].ls = Settled(b)
      BY <1>0, <1>1, <1>4, <2>0, <2>1, <2>2 DEF Exits
    <3> QED
      BY <1>3, <2>0, <3>1 DEF EdgeOpen
  <2>3. CASE k # n
    <3>1. stack'[k] = stack[k] /\ k \in 1..Len(stack')
      BY <1>0, <1>1, <1>3, <2>3 DEF Exits, LowerFramesStay
    <3> QED
      BY <2>0, <2>1, <3>1 DEF EdgeOpen
  <2> QED
    BY <2>2, <2>3
<1> QED
  BY <1>5, <1>7, <1>8 DEF Covered

\* An open edge stays open, or it is the one the top frame turns to.
LEMMA OpenTurnsOn ==
    ASSUME TypeOK, stack # <<>>, TurnsOn, Len(stack') \in Nat, Len(stack') >= Len(stack),
           NEW b \in DOMAIN entryStates, NEW i \in DOMAIN Succs(b), EdgeOpen(b, i), Settled(b)' = Settled(b)
    PROVE  EdgeOpen(b, i)' \/ (b = Top.block /\ i = Top.succ /\ Top.ls = Settled(b))
<1>0. PICK n : n = Len(stack)
  OBVIOUS
<1>1. n \in Nat /\ n > 0 /\ stack[n] = Top /\ Top.succ \in Nat /\ i \in Nat
  BY <1>0, WalkTypes
<1>2. PICK k \in 1..n : stack[k].block = b /\ (stack[k].succ = 0 \/ (stack[k].succ <= i /\ stack[k].ls = Settled(b)))
  BY <1>0 DEF EdgeOpen
<1>3. k \in 1..Len(stack')
  BY <1>0, <1>1
<1>4. CASE k # n
  <2>1. stack'[k] = stack[k]
    BY <1>0, <1>1, <1>4 DEF TurnsOn, LowerFramesStay
  <2> QED
    BY <1>2, <1>3, <2>1 DEF EdgeOpen
<1>5. CASE k = n
  <2>1. Top.succ <= i /\ Top.ls = Settled(b) /\ Top.block = b
    BY <1>1, <1>2, <1>5 DEF TurnsOn
  <2>2. CASE Top.succ = i
    BY <2>1, <2>2
  <2>3. CASE Top.succ # i
    <3>1. Top.succ + 1 <= i
      BY <1>1, <2>1, <2>3
    <3>2. stack'[k].block = b /\ stack'[k].succ = Top.succ + 1 /\ stack'[k].ls = Settled(b)
      BY <1>0, <1>5, <2>1 DEF TurnsOn
    <3>3. stack'[k].block = b /\ stack'[k].succ <= i /\ stack'[k].ls = Settled(b)'
      BY <3>1, <3>2
    <3> QED
      BY <1>3, <3>3 DEF EdgeOpen
  <2> QED
    BY <2>2, <2>3
<1> QED
  BY <1>4, <1>5

LEMMA CoveredReturnsEarly ==
    ASSUME TypeOK, stack # <<>>, Covered, ReturnsEarly
    PROVE  Covered'
<1>0. PICK n : n = Len(stack)
  OBVIOUS
<1>1. n \in Nat /\ n > 0 /\ Top.succ \in Nat /\ Top.succ > 0
  BY <1>0, WalkTypes DEF ReturnsEarly, TurnsOn
<1>2. prog' = prog /\ fn' = fn /\ entryStates' = entryStates /\ exitStates' = exitStates
  BY DEF ReturnsEarly
<1>3. Len(stack') = n /\ Top' = stack'[n] /\ Top'.succ = Top.succ + 1
  BY <1>0 DEF ReturnsEarly, TurnsOn, Top
<1>4. TopExact'
  BY <1>1, <1>3 DEF TopExact
<1>5. \A b \in DOMAIN entryStates : Settled(b)' = Settled(b)
  BY <1>2, SettledStays
<1>6. ExitsSettled'
  BY <1>1, <1>2, <1>5 DEF Covered, ExitsSettled, InProgress
<1>7. EdgesSeen' /\ EntryWalked'
  <2> SUFFICES ASSUME NEW b \in DOMAIN entryStates, NEW i \in DOMAIN Succs(b), EdgeOpen(b, i), ~EdgeOpen(b, i)'
               PROVE  Arrives(Succs(b)[i], Settled(b))
    BY <1>2, <1>5, SeenStays DEF Covered
  <2>1. b = Top.block /\ i = Top.succ /\ Top.ls = Settled(b)
    BY <1>0, <1>1, <1>3, <1>5, OpenTurnsOn DEF ReturnsEarly
  <2>2. PICK c : c = NextSucc
    OBVIOUS
  <2>3. c = Succs(b)[i] /\ c \in DOMAIN entryStates /\ Below(entryStates[c], Settled(b))
    BY <2>1, <2>2 DEF ReturnsEarly, TurnsOn
  <2>4. c \in DOMAIN Body /\ entryStates[c] \in LockStates /\ Settled(b) \in LockStates /\ Body \in Bodies
    BY <2>3, WalkTypes
  <2>5. Below(Settled(c), After(Body, c, Settled(b)))
    BY <2>3, <2>4, AfterMonotone DEF Settled
  <2> QED
    BY <2>3, <2>5 DEF Arrives
<1> QED
  BY <1>4, <1>6, <1>7 DEF Covered

LEMMA CoveredEnters ==
    ASSUME TypeOK, stack # <<>>, Covered, NEW ls \in LockStates, EntersWith(ls)
    PROVE  Covered'
<1>0. PICK n : n = Len(stack)
  OBVIOUS
<1>00. PICK nb : nb = NextSucc
  OBVIOUS
<1>1. /\ n \in Nat /\ n > 0 /\ Top.succ \in Nat /\ Top.succ > 0 /\ Top.ls \in LockStates /\ fn > 0
      /\ Body \in Bodies
  BY <1>0, WalkTypes DEF EntersWith, TurnsOn
<1>2. /\ Body' = Body /\ (\A b : Succs(b)' = Succs(b)) /\ fn' = fn /\ prog' = prog
      /\ exitStates' = exitStates
  BY SameGraph DEF EntersWith
<1>3. /\ Len(stack') = n + 1 /\ Top'.block = nb /\ Top'.succ = 0 /\ Top'.ip = 1 /\ Top'.ls = ls
      /\ Top' = stack'[n + 1] /\ stack' # <<>>
  <2>1. PICK sh \in BOOLEAN : stack'[n + 1] = Frame(nb, ls, sh)
    BY <1>0, <1>00 DEF EntersWith
  <2>2. Len(stack') = n + 1
    BY <1>0 DEF EntersWith
  <2>3. Top' = Frame(nb, ls, sh) /\ stack' # <<>>
    BY <1>1, <2>1, <2>2 DEF Top
  <2> QED
    BY <2>1, <2>2, <2>3 DEF Frame
<1>4. /\ DOMAIN entryStates' = DOMAIN entryStates \cup {nb} /\ entryStates'[nb] = ls
      /\ \A b \in DOMAIN entryStates : b # nb => entryStates'[b] = entryStates[b]
      /\ nb = Succs(Top.block)[Top.succ] /\ nb \in DOMAIN Body
      /\ Below(ls, Top.ls) /\ (nb \in DOMAIN entryStates => Below(ls, entryStates[nb]))
  BY <1>00 DEF EntersWith, TurnsOn
<1>5. Settled(nb)' = After(Body, nb, ls)
  BY <1>2, <1>4 DEF Settled
<1>6. ASSUME NEW c, NEW s \in LockStates, Arrives(c, s)
      PROVE  c \in DOMAIN entryStates' /\ Below(Settled(c)', After(Body, c, s))
  <2>1. c \in DOMAIN entryStates /\ Below(Settled(c), After(Body, c, s))
    BY <1>6 DEF Arrives
  <2>2. c \in DOMAIN Body /\ entryStates[c] \in LockStates /\ Settled(c) \in LockStates
    BY <2>1, WalkTypes
  <2>3. CASE c = nb
    <3>1. Below(After(Body, c, ls), Settled(c))
      BY <1>1, <1>4, <2>1, <2>2, <2>3, AfterMonotone DEF Settled
    <3>2. After(Body, c, ls) \in LockStates /\ After(Body, c, s) \in LockStates
      BY <1>1, <2>2, AfterTypes
    <3> QED
      BY <1>4, <1>5, <2>1, <2>2, <2>3, <3>1, <3>2, BelowTrans
  <2>4. CASE c # nb
    <3>1. Settled(c)' = Settled(c)
      BY <1>2, <1>4, <2>1, <2>4, SettledStays
    <3> QED
      BY <1>4, <2>1, <3>1
  <2> QED
    BY <2>3, <2>4
<1>7. TopExact'
  <2>1. Before(Body, nb, 1, ls) = ls
    BY <1>1, <1>4, BeforeSteps
  <2>2. After(Body', Top'.block, ls) = Settled(nb)' /\ Top'.ls = Before(Body', Top'.block, Top'.ip, ls)
    BY <1>2, <1>3, <1>5, <2>1
  <2> QED
    BY <1>3, <2>2 DEF TopExact, Settled
<1>8. ExitsSettled'
  <2>1. ASSUME NEW b \in DOMAIN entryStates', b # nb PROVE b \in DOMAIN exitStates' /\ exitStates'[b] = Settled(b)'
    <3>1. b \in DOMAIN entryStates /\ Settled(b)' = Settled(b)
      BY <1>2, <1>4, <2>1, SettledStays
    <3> QED
      BY <1>1, <1>2, <3>1 DEF Covered, ExitsSettled, InProgress
  <2>2. DOMAIN exitStates' \subseteq DOMAIN entryStates'
    BY <1>2, <1>4 DEF Covered, ExitsSettled
  <2> QED
    BY <1>3, <2>1, <2>2 DEF ExitsSettled, InProgress
<1>9. EdgesSeen'
  <2>0. ASSUME NEW b \in DOMAIN entryStates', NEW i \in DOMAIN Succs(b), NEW c, c = Succs(b)[i]
        PROVE  EdgeOpen(b, i)' \/ (c \in DOMAIN entryStates' /\ Below(Settled(c)', After(Body, c, Settled(b)')))
    <3>1. CASE b = nb
      <4>1. n + 1 \in 1..Len(stack') /\ stack'[n + 1].block = b /\ stack'[n + 1].succ = 0
        BY <1>1, <1>3, <3>1
      <4> QED
        BY <4>1 DEF EdgeOpen
    <3>2. CASE b # nb
      <4>0. b \in DOMAIN entryStates /\ entryStates'[b] = entryStates[b]
        BY <1>4, <3>2
      <4>1. Settled(b)' = Settled(b) /\ Settled(b) \in LockStates
        BY <1>2, <4>0, SettledStays, WalkTypes
      <4>2. PICK s : s = Settled(b)
        OBVIOUS
      <4>3. CASE Arrives(c, s)
        <5>1. c \in DOMAIN entryStates' /\ Below(Settled(c)', After(Body, c, s))
          BY <1>6, <4>1, <4>2, <4>3
        <5> QED
          BY <4>1, <4>2, <5>1
      <4>4. CASE ~Arrives(c, s)
        <5>1. EdgeOpen(b, i)
          BY <2>0, <4>0, <4>2, <4>4 DEF Covered, EdgesSeen
        <5>2. EdgeOpen(b, i)' \/ (b = Top.block /\ i = Top.succ /\ Top.ls = s)
          BY <1>0, <1>1, <1>3, <4>0, <4>1, <4>2, <5>1, OpenTurnsOn DEF EntersWith
        <5>3. ASSUME b = Top.block, i = Top.succ, Top.ls = s
              PROVE  c \in DOMAIN entryStates' /\ Below(Settled(c)', After(Body, c, s))
          <6>1. c = nb /\ Below(ls, s) /\ s \in LockStates
            BY <1>4, <2>0, <4>1, <4>2, <5>3
          <6>2. Below(After(Body, nb, ls), After(Body, nb, s))
            BY <1>1, <1>4, <6>1, AfterMonotone
          <6> QED
            BY <1>4, <1>5, <6>1, <6>2
        <5> QED
          BY <4>1, <4>2, <5>2, <5>3
      <4> QED
        BY <4>3, <4>4
    <3> QED
      BY <3>1, <3>2
  <2> QED
    BY <1>2, <2>0 DEF EdgesSeen, Arrives, Settled
<1>10. EntryWalked'
  <2> SUFFICES ASSUME Body # <<>> PROVE 1 \in DOMAIN entryStates' /\ Below(Settled(1)', After(Body, 1, newLockState))
    BY <1>2 DEF EntryWalked, Arrives
  <2>1. Arrives(1, newLockState) /\ newLockState \in LockStates
    BY NewState DEF Covered, EntryWalked
  <2> QED
    BY <1>6, <2>1
<1> QED
  BY <1>7, <1>8, <1>9, <1>10 DEF Covered

LEMMA CoveredLeaves ==
    ASSUME TypeOK, stack # <<>>, Covered, Leaves
    PROVE  Covered'
<1>0. PICK n : n = Len(stack)
  OBVIOUS
<1>1. /\ n \in Nat /\ n > 0 /\ Top.succ \in Nat /\ stack[n] = Top /\ fn > 0 /\ Top.block \in DOMAIN Body
      /\ \A k \in 1..n : k < n => stack[k].succ > 0
  BY <1>0, WalkTypes
<1>2. prog' = prog /\ fn' = fn /\ entryStates' = entryStates /\ exitStates' = exitStates /\ Top.succ > 0
  BY DEF Leaves
<1>3. Len(stack') = n - 1 /\ \A k \in 1..(n - 1) : stack'[k] = stack[k]
  BY <1>0 DEF Leaves, LowerFramesStay
<1>4. TopExact'
  <2> SUFFICES ASSUME stack' # <<>> PROVE Top'.succ # 0
    BY DEF TopExact
  <2>1. n > 1
    BY <1>0 DEF Leaves
  <2>2. n - 1 \in 1..n /\ n - 1 < n /\ n - 1 \in 1..(n - 1)
    BY <1>1, <2>1
  <2>3. Top' = stack[n - 1] /\ stack[n - 1].succ > 0
    BY <1>1, <1>3, <2>2 DEF Top
  <2> QED
    BY <2>3
<1>5. \A b \in DOMAIN entryStates : Settled(b)' = Settled(b)
  BY <1>2, SettledStays
<1>6. ExitsSettled'
  BY <1>1, <1>2, <1>5 DEF Covered, ExitsSettled, InProgress
<1>7. EdgesSeen' /\ EntryWalked'
  <2> SUFFICES ASSUME NEW b \in DOMAIN entryStates, NEW i \in DOMAIN Succs(b), EdgeOpen(b, i) PROVE EdgeOpen(b, i)'
    BY <1>2, <1>5, SeenStays DEF Covered
  <2>0. Settled(b)' = Settled(b)
    BY <1>5
  <2>1. PICK k \in 1..n : stack[k].block = b /\ (stack[k].succ = 0 \/ (stack[k].succ <= i /\ stack[k].ls = Settled(b)))
    BY <1>0 DEF EdgeOpen
  <2>2. k # n
    <3> SUFFICES ASSUME k = n PROVE FALSE
      OBVIOUS
    <3>1. Top.block = b /\ Top.succ <= i /\ Top.succ > Len(Succs(b))
      BY <1>1, <2>1 DEF Leaves
    <3>2. i \in 1..Len(Succs(b)) /\ Len(Succs(b)) \in Nat
      BY <1>1, <3>1, BodyTypes
    <3> QED
      BY <1>1, <3>1, <3>2
  <2>3. k \in 1..(n - 1) /\ k \in 1..Len(stack') /\ stack'[k] = stack[k]
    BY <1>1, <1>3, <2>2
  <2> QED
    BY <2>0, <2>1, <2>3 DEF EdgeOpen
<1> QED
  BY <1>4, <1>6, <1>7 DEF Covered

\* The walk of the next function starts at its entry block, if it has one.
Starts ==
    /\ prog' = prog /\ fn \in Nat /\ fn' = fn + 1 /\ Body' \in Bodies /\ stack = <<>>
    /\ DOMAIN exitStates' = {}
    /\ Body' = <<>> => stack' = <<>> /\ DOMAIN entryStates' = {}
    /\ Body' # <<>> =>
         /\ stack' # <<>> /\ Len(stack') = 1
         /\ stack'[1] = Frame(1, newLockState, FALSE) /\ Top' = Frame(1, newLockState, FALSE)
         /\ DOMAIN entryStates' = {1} /\ entryStates'[1] = newLockState

LEMMA StartShape ==
    ASSUME TypeOK, WalkFunction
    PROVE  Starts /\ UNCHANGED passVars
<1>0. PICK body : body = prog[fn + 1]
  OBVIOUS
<1>1. /\ fn \in Nat /\ fn' = fn + 1 /\ fn + 1 \in 1..Len(prog) /\ prog' = prog
      /\ prog \in Seq(Bodies)
  BY LenProperties DEF TypeOK, WalkFunction
<1>2. Body' = body /\ body \in Bodies
  BY <1>0, <1>1, ElementOfSeq DEF Body
<1>3. /\ entryStates' = [b \in DOMAIN body \cap {1} |-> newLockState]
      /\ stack' = IF body = <<>> THEN <<>> ELSE <<Frame(1, newLockState, FALSE)>>
      /\ stack = <<>> /\ exitStates' = <<>> /\ UNCHANGED passVars
  BY <1>0 DEF WalkFunction
<1>4. DOMAIN exitStates' = {}
  BY <1>3
<1>5. CASE body = <<>>
  <2>1. DOMAIN entryStates' = {}
    BY <1>3, <1>5
  <2> QED
    BY <1>1, <1>2, <1>3, <1>4, <1>5, <2>1 DEF Starts
<1>6. CASE body # <<>>
  <2>1. 1 \in DOMAIN body
    BY <1>2, <1>6, PathsSteps
  <2>2. DOMAIN entryStates' = {1} /\ entryStates'[1] = newLockState
    BY <1>3, <2>1
  <2>3. /\ stack' = <<Frame(1, newLockState, FALSE)>> /\ stack' # <<>> /\ Len(stack') = 1
        /\ stack'[1] = Frame(1, newLockState, FALSE) /\ Top' = Frame(1, newLockState, FALSE)
    BY <1>3, <1>6 DEF Top
  <2> QED
    BY <1>1, <1>2, <1>3, <1>4, <1>6, <2>2, <2>3 DEF Starts
<1> QED
  BY <1>5, <1>6

LEMMA CoveredStarts ==
    ASSUME Starts
    PROVE  Covered'
<1>1. CASE Body' = <<>>
  <2>1. stack' = <<>> /\ DOMAIN entryStates' = {} /\ DOMAIN exitStates' = {}
    BY <1>1 DEF Starts
  <2> QED
    BY <1>1, <2>1 DEF Covered, TopExact, ExitsSettled, EdgesSeen, EntryWalked
<1>2. CASE Body' # <<>>
  <2>1. /\ Len(stack') = 1 /\ stack'[1] = Frame(1, newLockState, FALSE) /\ Top' = Frame(1, newLockState, FALSE)
        /\ DOMAIN entryStates' = {1} /\ entryStates'[1] = newLockState /\ Body' \in Bodies /\ stack' # <<>>
        /\ DOMAIN exitStates' = {}
    BY <1>2 DEF Starts
  <2>2. Top'.block = 1 /\ Top'.ip = 1 /\ Top'.succ = 0 /\ Top'.ls = newLockState
    BY <2>1 DEF Frame
  <2>3. PICK body : body = Body'
    OBVIOUS
  <2>4. 1 \in DOMAIN body /\ body \in Bodies
    BY <1>2, <2>1, <2>3, PathsSteps
  <2>5. Before(body, 1, 1, newLockState) = newLockState /\ After(body, 1, newLockState) \in LockStates
    BY <2>4, NewState, BeforeSteps, AfterTypes
  <2>6. Settled(1)' = After(body, 1, newLockState)
    BY <2>1, <2>3 DEF Settled
  <2>7. TopExact'
    <3>1. Top'.ls = Before(Body', Top'.block, Top'.ip, newLockState)
      BY <2>2, <2>3, <2>5
    <3>2. After(Body', Top'.block, newLockState) = Settled(1)'
      BY <2>2, <2>3, <2>6
    <3> QED
      BY <2>2, <3>1, <3>2, NewState DEF TopExact, Settled
  <2>8. ExitsSettled'
    BY <2>1, <2>2 DEF ExitsSettled, InProgress
  <2>9. EdgesSeen'
    <3>1. 1 \in 1..Len(stack') /\ stack'[1].block = 1 /\ stack'[1].succ = 0
      BY <2>1 DEF Frame
    <3>2. \A i : EdgeOpen(1, i)'
      BY <3>1 DEF EdgeOpen
    <3> QED
      BY <2>1, <3>2 DEF EdgesSeen
  <2>10. EntryWalked'
    BY <2>1, <2>3, <2>5, <2>6, BelowRefl DEF EntryWalked, Arrives
  <2> QED
    BY <2>7, <2>8, <2>9, <2>10 DEF Covered
<1> QED
  BY <1>1, <1>2

LEMMA CoveredBlock ==
    ASSUME TypeOK, stack # <<>>, Covered, BlockSteps
    PROVE  Covered'
BY CoveredExits, CoveredReturnsEarly, CoveredEnters, CoveredLeaves DEF BlockSteps

-----------------------------------------------------------------------------
(* The lock states of the walk are real, and settled states fit the paths. *)

\* A state that fits at the start of a block fits all along it.
LEMMA FitsAlong ==
    ASSUME NEW body \in Bodies, body # <<>>, NEW b \in DOMAIN body, NEW e \in LockStates,
           Fits(Paths(body, b, 1), e)
    PROVE  \A i \in 1..(Len(body[b].instrs) + 1) : Fits(Paths(body, b, i), Before(body, b, i, e))
<1> DEFINE m == Len(body[b].instrs)
           Good(i) == Fits(Paths(body, b, i), Before(body, b, i, e))
           Bad == {i \in 1..(m + 1) : ~Good(i)}
<1>1. m \in Nat /\ \A i \in 1..m : body[b].instrs[i] \in Instrs
  BY BodyFacts
<1>2. Good(1)
  BY BeforeSteps
<1>3. ASSUME NEW i \in 1..m, Good(i) PROVE Good(i + 1)
  <2>1. /\ body[b].instrs[i] \in Instrs /\ i \in 1..(m + 1)
        /\ Before(body, b, i + 1, e) = Effect(body[b].instrs[i], Before(body, b, i, e))
    BY <1>1, BeforeSteps
  <2>2. Before(body, b, i, e) \in LockStates /\ Paths(body, b, i) \in SUBSET LockStates
    BY <2>1, BeforeSteps, PathsElements
  <2>3. Paths(body, b, i + 1) = {Effect(body[b].instrs[i], s) : s \in Paths(body, b, i)}
    BY PathsSteps
  <2> QED
    BY <1>3, <2>1, <2>2, <2>3, FitsEffect
<1> HIDE DEF Good
<1>4. Bad = {}
  <2> SUFFICES ASSUME Bad # {} PROVE FALSE
    OBVIOUS
  <2>1. Bad \in SUBSET Nat
    BY <1>1
  <2>2. PICK i \in Bad : \A j \in Bad : i <= j
    BY <2>1, LeastNatural
  <2>3. i - 1 \in 1..m /\ i - 1 \in 1..(m + 1) /\ ~(i <= i - 1) /\ (i - 1) + 1 = i
    BY <1>1, <1>2
  <2>4. Good(i - 1)
    BY <2>2, <2>3
  <2> QED
    BY <1>3, <2>3, <2>4
<1> QED
  BY <1>4 DEF Good

LEMMA FitsAfter ==
    ASSUME NEW body \in Bodies, body # <<>>, NEW b \in DOMAIN body, NEW e \in LockStates,
           Fits(Paths(body, b, 1), e)
    PROVE  Fits(Paths(body, b, Len(body[b].instrs) + 1), After(body, b, e))
<1>1. Len(body[b].instrs) + 1 \in 1..(Len(body[b].instrs) + 1)
  BY BodyFacts
<1> QED
  BY <1>1, FitsAlong DEF After

\* The lock state of a frame is within that of some path to where it stands, and fits all
\* these paths once its block is done.  (In a re-walk it may lack a lock that the block
\* has released before: it is merged with an entry state that was overwritten.)
FramesReal ==
    \A k \in 1..Len(stack) :
      /\ \E s \in Paths(Body, stack[k].block, stack[k].ip) : Within(stack[k].ls, s)
      /\ stack[k].succ > 0 => Fits(Paths(Body, stack[k].block, stack[k].ip), stack[k].ls)

SettledFit ==
    \A b \in DOMAIN entryStates : Fits(Paths(Body, b, Len(Code(b)) + 1), Settled(b))

AllFit == FramesReal /\ SettledFit

LEMMA FitStarts ==
    ASSUME Starts
    PROVE  AllFit'
<1>1. CASE Body' = <<>>
  <2>1. stack' = <<>> /\ DOMAIN entryStates' = {} /\ Len(<<>>) = 0
    BY <1>1 DEF Starts
  <2>2. 1..Len(stack') = {}
    BY <2>1
  <2> QED
    BY <2>1, <2>2 DEF AllFit, FramesReal, SettledFit
<1>2. CASE Body' # <<>>
  <2>1. /\ Len(stack') = 1 /\ stack'[1] = Frame(1, newLockState, FALSE)
        /\ DOMAIN entryStates' = {1} /\ entryStates'[1] = newLockState /\ Body' \in Bodies
    BY <1>2 DEF Starts
  <2>2. /\ stack'[1].block = 1 /\ stack'[1].ip = 1 /\ stack'[1].ls = newLockState /\ stack'[1].succ = 0
        /\ 1..Len(stack') = {1}
    BY <2>1 DEF Frame
  <2>3. PICK body : body = Body'
    OBVIOUS
  <2>4. newLockState \in Paths(body, 1, 1) /\ 1 \in DOMAIN body /\ body \in Bodies /\ body # <<>>
    BY <1>2, <2>1, <2>3, PathsSteps
  <2>5. Within(newLockState, newLockState)
    BY DEF Within
  <2>6. Fits(Paths(body, 1, 1), newLockState)
    <3>1. \A r \in LockRefs : newLockState.held[r] = "free" /\ r \notin newLockState.deferred /\ "free" \notin Modes
      BY DEF newLockState, Modes
    <3> QED
      BY <2>4, <2>5, <3>1 DEF Fits, HeldAlike
  <2>7. FramesReal'
    BY <2>2, <2>3, <2>4, <2>5 DEF FramesReal
  <2>8. Fits(Paths(body, 1, Len(body[1].instrs) + 1), After(body, 1, newLockState))
    BY <2>4, <2>6, NewState, FitsAfter
  <2>9. SettledFit'
    BY <2>1, <2>3, <2>8 DEF SettledFit, Settled, Code
  <2> QED
    BY <2>7, <2>9 DEF AllFit
<1> QED
  BY <1>1, <1>2

LEMMA FitStepsOver ==
    ASSUME TypeOK, stack # <<>>, Covered, AllFit, StepsOver
    PROVE  AllFit'
<1>0. PICK n : n = Len(stack)
  OBVIOUS
<1>1. /\ n \in Nat /\ n > 0 /\ Top.ls \in LockStates /\ Body \in Bodies /\ Body # <<>> /\ Top.block \in DOMAIN Body
      /\ Top.ip \in 1..Len(Code(Top.block)) /\ stack[n] = Top /\ Instr \in Instrs
  BY <1>0, WalkTypes DEF StepsOver
<1>2. Body' = Body /\ (\A b : Code(b)' = Code(b)) /\ DOMAIN entryStates' = DOMAIN entryStates
  BY SameGraph DEF StepsOver
<1>3. /\ Len(stack') = n /\ \A k \in 1..(n - 1) : stack'[k] = stack[k]
      /\ stack'[n].block = Top.block /\ stack'[n].ip = Top.ip + 1 /\ stack'[n].ls = Effect(Instr, Top.ls)
      /\ stack'[n].succ = 0
  BY <1>0 DEF StepsOver, LowerFramesStay
<1>4. \E s \in Paths(Body, Top.block, Top.ip + 1) : Within(Effect(Instr, Top.ls), s)
  <2>1. PICK s \in Paths(Body, Top.block, Top.ip) : Within(Top.ls, s)
    BY <1>0, <1>1 DEF AllFit, FramesReal
  <2>2. Instr = Body[Top.block].instrs[Top.ip] /\ Code(Top.block) = Body[Top.block].instrs
    BY DEF Instr, Code
  <2>3. Paths(Body, Top.block, Top.ip + 1) = {Effect(Instr, t) : t \in Paths(Body, Top.block, Top.ip)}
    BY <1>1, <2>2, PathsSteps
  <2>4. s \in LockStates
    <3>1. Top.ip \in 1..(Len(Body[Top.block].instrs) + 1)
      BY <1>1, <2>2, BodyFacts
    <3> QED
      BY <1>1, <3>1, PathsElements
  <2>5. Effect(Instr, s) \in Paths(Body, Top.block, Top.ip + 1)
    BY <2>3
  <2>6. Within(Effect(Instr, Top.ls), Effect(Instr, s))
    BY <1>1, <2>1, <2>4, EffectWithin
  <2> QED
    BY <2>5, <2>6
<1>5. FramesReal'
  <2> SUFFICES ASSUME NEW k \in 1..n
               PROVE  /\ \E s \in Paths(Body, stack'[k].block, stack'[k].ip) : Within(stack'[k].ls, s)
                      /\ stack'[k].succ > 0 => Fits(Paths(Body, stack'[k].block, stack'[k].ip), stack'[k].ls)
    BY <1>2, <1>3 DEF FramesReal, Within, Fits
  <2>1. CASE k = n
    BY <1>3, <1>4, <2>1
  <2>2. CASE k # n
    <3>1. stack'[k] = stack[k]
      BY <1>1, <1>3, <2>2
    <3> QED
      BY <1>0, <3>1 DEF AllFit, FramesReal
  <2> QED
    BY <2>1, <2>2
<1>6. SettledFit'
  <2>1. \A b \in DOMAIN entryStates : Settled(b)' = Settled(b)
    BY SettledStepsOver DEF Covered
  <2> QED
    BY <1>2, <2>1 DEF AllFit, SettledFit, Fits, Within
<1> QED
  BY <1>5, <1>6 DEF AllFit

\* The state that the top frame hands to its next successor fits there.
LEMMA FitTurnsOn ==
    ASSUME TypeOK, stack # <<>>, AllFit, TurnsOn
    PROVE  /\ Fits(Paths(Body, NextSucc, 1), Top.ls)
           /\ Paths(Body, NextSucc, 1) \in SUBSET LockStates
<1>1. /\ Len(stack) \in 1..Len(stack) /\ Body \in Bodies /\ Body # <<>> /\ Top.block \in DOMAIN Body
      /\ stack[Len(stack)] = Top
  BY WalkTypes
<1>2. /\ Top.succ \in DOMAIN Succs(Top.block) /\ Top.succ > 0 /\ Top.ip = Len(Code(Top.block)) + 1
      /\ NextSucc = Succs(Top.block)[Top.succ] /\ NextSucc \in DOMAIN Body
  BY DEF TurnsOn
<1>3. Fits(Paths(Body, Top.block, Top.ip), Top.ls)
  BY <1>1, <1>2 DEF AllFit, FramesReal
<1>4. Paths(Body, Top.block, Top.ip) \subseteq Paths(Body, NextSucc, 1)
  BY <1>1, <1>2, PathsSteps DEF Succs, Code
<1>5. Paths(Body, NextSucc, 1) \in SUBSET LockStates
  <2>1. 1 \in 1..(Len(Body[NextSucc].instrs) + 1)
    BY <1>1, <1>2, BodyFacts
  <2> QED
    BY <1>1, <1>2, <2>1, PathsElements
<1> QED
  BY <1>3, <1>4, <1>5, FitsMore

\* Entering a block: the frame's state is within that of a path, and the block settles on
\* the merge of what it settled on before and what it makes of the new state.
LEMMA FitEnters ==
    ASSUME TypeOK, stack # <<>>, AllFit, NEW ls \in LockStates, EntersWith(ls)
    PROVE  /\ \E s \in Paths(Body, NextSucc, 1) : Within(ls, s)
           /\ Fits(Paths(Body, NextSucc, Len(Code(NextSucc)) + 1), After(Body, NextSucc, ls))
<1>0. PICK nb : nb = NextSucc
  OBVIOUS
<1>1. Body \in Bodies /\ Body # <<>> /\ nb \in DOMAIN Body /\ Top.ls \in LockStates /\ TurnsOn
  BY <1>0, WalkTypes DEF EntersWith, TurnsOn
<1>2. Fits(Paths(Body, nb, 1), Top.ls) /\ Paths(Body, nb, 1) \in SUBSET LockStates
  BY <1>0, <1>1, FitTurnsOn
<1>3. PICK s \in Paths(Body, nb, 1) : Within(Top.ls, s)
  BY <1>2 DEF Fits
<1>4. PICK T : T = Paths(Body, nb, Len(Body[nb].instrs) + 1)
  OBVIOUS
<1>5. Fits(T, After(Body, nb, Top.ls)) /\ T \in SUBSET LockStates
  <2>1. Len(Body[nb].instrs) + 1 \in 1..(Len(Body[nb].instrs) + 1)
    BY <1>1, BodyFacts
  <2> QED
    BY <1>1, <1>2, <1>4, <2>1, FitsAfter, PathsElements
<1>6. CASE ls = Top.ls
  BY <1>0, <1>3, <1>4, <1>5, <1>6 DEF Code
<1>7. CASE nb \in DOMAIN entryStates /\ ls = intersect(entryStates[nb], Top.ls)
  <2>1. entryStates[nb] \in LockStates /\ s \in LockStates
    BY <1>2, <1>7, WalkTypes
  <2>2. Within(ls, s)
    BY <1>1, <1>3, <1>7, <2>1, IntersectWithin
  <2>3. Fits(T, Settled(nb)) /\ Settled(nb) \in LockStates
    BY <1>4, <1>7, WalkTypes DEF AllFit, SettledFit, Code
  <2>4. After(Body, nb, ls) = intersect(Settled(nb), After(Body, nb, Top.ls))
    BY <1>1, <1>7, <2>1, AfterIntersect DEF Settled
  <2>5. After(Body, nb, Top.ls) \in LockStates
    BY <1>1, AfterTypes
  <2>6. Fits(T, After(Body, nb, ls))
    BY <1>5, <2>3, <2>4, <2>5, FitsMerge
  <2> QED
    BY <1>0, <1>3, <1>4, <2>2, <2>6 DEF Code
<1> QED
  BY <1>0, <1>6, <1>7 DEF EntersWith

LEMMA FitBlock ==
    ASSUME TypeOK, stack # <<>>, Covered, AllFit, BlockSteps
    PROVE  AllFit'
<1>0. PICK n : n = Len(stack)
  OBVIOUS
<1>1. n \in Nat /\ n > 0 /\ stack[n] = Top /\ Top.ls \in LockStates /\ Top.block \in DOMAIN entryStates
  BY <1>0, WalkTypes
<1>2. Body' = Body /\ (\A b : Code(b)' = Code(b)) /\ prog' = prog /\ fn' = fn
  BY SameGraph DEF BlockSteps, Exits, ReturnsEarly, EntersWith, Leaves
<1> DEFINE Real(f) == /\ \E s \in Paths(Body, f.block, f.ip) : Within(f.ls, s)
                      /\ f.succ > 0 => Fits(Paths(Body, f.block, f.ip), f.ls)
<1>3. \A k \in 1..n : Real(stack[k])
  BY <1>0 DEF AllFit, FramesReal
<1>4. ASSUME \A k \in 1..Len(stack') : Real(stack'[k]) PROVE FramesReal'
  BY <1>2, <1>4 DEF FramesReal, Fits, Within
<1>5. ASSUME entryStates' = entryStates PROVE SettledFit'
  <2>1. \A b \in DOMAIN entryStates : Settled(b)' = Settled(b)
    BY <1>2, <1>5, SettledStays
  <2> QED
    BY <1>2, <1>5, <2>1 DEF AllFit, SettledFit, Fits, Within
\* A frame that has its block done keeps its lock state.
<1>6. ASSUME stack'[n].block = Top.block, stack'[n].ip = Top.ip, stack'[n].ls = Top.ls,
             Exits \/ TurnsOn
      PROVE  Real(stack'[n])
  <2>1. Fits(Paths(Body, Top.block, Top.ip), Top.ls)
    <3>1. CASE Exits
      <4>1. Top.ls = Settled(Top.block) /\ Top.ip = Len(Code(Top.block)) + 1
        BY <3>1, SettledAtEnd DEF Covered, Exits
      <4> QED
        BY <1>1, <4>1 DEF AllFit, SettledFit
    <3>2. CASE TurnsOn
      <4>1. Top.succ > 0 /\ n \in 1..n
        BY <1>1, <3>2 DEF TurnsOn
      <4> QED
        BY <1>1, <1>3, <4>1
    <3> QED
      BY <1>6, <3>1, <3>2
  <2> QED
    BY <1>6, <2>1 DEF Fits
<1>7. CASE Exits \/ ReturnsEarly
  <2>1. /\ Len(stack') = n /\ (\A k \in 1..(n - 1) : stack'[k] = stack[k]) /\ entryStates' = entryStates
        /\ stack'[n].block = Top.block /\ stack'[n].ip = Top.ip /\ stack'[n].ls = Top.ls
        /\ (Exits \/ TurnsOn)
    BY <1>0, <1>7 DEF Exits, ReturnsEarly, TurnsOn, LowerFramesStay
  <2>2. Real(stack'[n])
    BY <1>6, <2>1
  <2>3. \A k \in 1..n : k = n \/ (k \in 1..(n - 1) /\ k \in 1..n)
    BY <1>1
  <2> HIDE DEF Real
  <2>4. \A k \in 1..n : Real(stack'[k])
    BY <1>3, <2>1, <2>2, <2>3
  <2> QED
    BY <1>4, <1>5, <2>1, <2>4 DEF AllFit
<1>8. CASE Leaves
  <2>1. Len(stack') = n - 1 /\ (\A k \in 1..(n - 1) : stack'[k] = stack[k]) /\ entryStates' = entryStates
    BY <1>0, <1>8 DEF Leaves, LowerFramesStay
  <2>2. \A k \in 1..(n - 1) : k \in 1..n
    BY <1>1
  <2> HIDE DEF Real
  <2> QED
    BY <1>3, <1>4, <1>5, <2>1, <2>2 DEF AllFit
<1>9. ASSUME NEW ls \in LockStates, EntersWith(ls) PROVE AllFit'
  <2>0. PICK nb : nb = NextSucc
    OBVIOUS
  <2>1. /\ Len(stack') = n + 1 /\ (\A k \in 1..(n - 1) : stack'[k] = stack[k])
        /\ stack'[n].block = Top.block /\ stack'[n].ip = Top.ip /\ stack'[n].ls = Top.ls
        /\ \E sh \in BOOLEAN : stack'[n + 1] = Frame(nb, ls, sh)
        /\ TurnsOn
    BY <1>0, <1>9, <2>0 DEF EntersWith, TurnsOn, LowerFramesStay
  <2>2. /\ \E s \in Paths(Body, nb, 1) : Within(ls, s)
        /\ Fits(Paths(Body, nb, Len(Code(nb)) + 1), After(Body, nb, ls))
    BY <1>9, <2>0, FitEnters
  <2>3. Real(stack'[n + 1])
    BY <2>1, <2>2 DEF Frame
  <2>4. Real(stack'[n])
    BY <1>6, <2>1
  <2>5. \A k \in 1..(n + 1) : k = n + 1 \/ k = n \/ (k \in 1..(n - 1) /\ k \in 1..n)
    BY <1>1
  <2>6. FramesReal'
    <3> HIDE DEF Real
    <3>1. \A k \in 1..(n + 1) : Real(stack'[k])
      BY <1>3, <2>1, <2>3, <2>4, <2>5
    <3> QED
      BY <1>4, <2>1, <3>1
  <2>7. /\ DOMAIN entryStates' = DOMAIN entryStates \cup {nb} /\ entryStates'[nb] = ls
        /\ \A b \in DOMAIN entryStates : b # nb => entryStates'[b] = entryStates[b]
    BY <1>9, <2>0 DEF EntersWith
  <2>8. Settled(nb)' = After(Body, nb, ls) /\ \A b \in DOMAIN entryStates : b # nb => Settled(b)' = Settled(b)
    BY <1>2, <2>7 DEF Settled
  <2>9. ASSUME NEW b \in DOMAIN entryStates' PROVE Fits(Paths(Body, b, Len(Code(b)) + 1), Settled(b)')
    BY <2>2, <2>7, <2>8 DEF AllFit, SettledFit
  <2>10. SettledFit'
    BY <1>2, <2>9 DEF SettledFit, Fits, Within
  <2> QED
    BY <2>6, <2>10 DEF AllFit
<1> QED
  BY <1>7, <1>8, <1>9 DEF BlockSteps

-----------------------------------------------------------------------------
(* What the walk records is about real paths. *)

\* Some path to an acquisition of e.to holds e.from.
RealEdge(body, e) ==
    \E p \in Points(body, "lock") : \E s \in Paths(body, p[1], p[2]) :
      KeyOf[InstrAt(body, p).ref] = e.to /\ \E h \in Keys(s) : KeyOf[h] = e.from

RealAcquire(body, d) ==
    \E p \in Points(body, "lock") : \E s \in Paths(body, p[1], p[2]) :
      /\ InstrAt(body, p).pos = d.pos /\ InstrAt(body, p).ref = d.ref
      /\ s.held[d.ref] # "free"
      /\ AcquireKind(InstrAt(body, p).mode, s.held[d.ref]) = d.kind

RealMismatch(body, d) ==
    \E p \in Points(body, "unlock") \cup Points(body, "deferUnlock") : \E s \in Paths(body, p[1], p[2]) :
      /\ InstrAt(body, p).pos = d.pos /\ InstrAt(body, p).ref = d.ref
      /\ s.held[d.ref] \notin {"free", InstrAt(body, p).mode}

\* Some path to the call holds all the locks of the record.
RealCall(body, c) ==
    \E p \in Points(body, "call") : \E s \in Paths(body, p[1], p[2]) :
      /\ InstrAt(body, p).pos = c.pos /\ InstrAt(body, p).callee = c.callee
      /\ c.held \subseteq normalizeLockState(s)

AcquireKinds == {"doubleLock", "recursiveRLock", "lockUpgrade"}

DiagOK(d) ==
    /\ d.fn \in 1..fn
    /\ d.kind \in AcquireKinds => RealAcquire(prog[d.fn], d)
    /\ d.kind = "mismatchedUnlock" => RealMismatch(prog[d.fn], d)

\* A candidate of C4 or C5 has the lock's reference.
IsCandidate(c) == c = [fn |-> c.fn, pos |-> c.pos, ref |-> c.ref] /\ c.ref \in LockRefs

EdgesOK == \A e \in lockOrderEdges : e.fn \in 1..fn /\ RealEdge(prog[e.fn], e)
DiagsOK == \A d \in diags : DiagOK(d)
UnlocksOK == \A c \in unlockOfUnlockedCandidates : c.fn \in 1..fn /\ IsCandidate(c)
CallsOK == \A c \in callSites : c.caller \in 1..fn /\ RealCall(prog[c.caller], c)

RecordsReal == EdgesOK /\ DiagsOK /\ UnlocksOK /\ CallsOK

\* The running instruction is a point of the body, and the lock state that of a path to it.
LEMMA AtPoint ==
    ASSUME TypeOK, AllFit, NEW ops, At(ops)
    PROVE  \E p \in Points(Body, Instr.op) :
             /\ p = <<Top.block, Top.ip>> /\ p[1] = Top.block /\ p[2] = Top.ip
             /\ InstrAt(Body, p) = Instr
             /\ \E s \in Paths(Body, p[1], p[2]) : Within(Top.ls, s)
<1>1. stack # <<>> /\ Top.ip \in 1..Len(Code(Top.block))
  BY AtTypes
<1>2. /\ Body \in Bodies /\ Body # <<>> /\ Top.block \in DOMAIN Body /\ Len(stack) \in 1..Len(stack)
      /\ stack[Len(stack)] = Top
  BY <1>1, WalkTypes
<1>3. Instr = Body[Top.block].instrs[Top.ip] /\ Code(Top.block) = Body[Top.block].instrs
  BY DEF Instr, Code
<1>4. Top.ip \in DOMAIN Body[Top.block].instrs /\ Top.ip \in 1..(Len(Body[Top.block].instrs) + 1)
  BY <1>1, <1>2, <1>3, BodyFacts
<1>5. PICK p : p = <<Top.block, Top.ip>>
  OBVIOUS
<1>6. p[1] = Top.block /\ p[2] = Top.ip
  BY <1>5
<1>7. InstrAt(Body, p) = Instr
  BY <1>3, <1>6 DEF InstrAt
<1>8. p \in Points(Body, Instr.op)
  BY <1>2, <1>4, <1>5, <1>7 DEF Points
<1>9. \E s \in Paths(Body, p[1], p[2]) : Within(Top.ls, s)
  BY <1>2, <1>6 DEF AllFit, FramesReal
<1> QED
  BY <1>5, <1>6, <1>7, <1>8, <1>9

LEMMA EdgesReallyAcquired ==
    ASSUME TypeOK, AllFit, At({"lock"}), NEW e \in AcquireEdges(Top.ls, Instr)
    PROVE  e.fn = fn /\ RealEdge(Body, e)
<1>1. PICK p \in Points(Body, Instr.op) :
        InstrAt(Body, p) = Instr /\ \E s \in Paths(Body, p[1], p[2]) : Within(Top.ls, s)
  BY AtPoint
<1>2. Instr.op = "lock"
  BY AtTypes
<1>3. PICK h \in Keys(Top.ls) : e = [from |-> KeyOf[h], to |-> KeyOf[Instr.ref], fn |-> fn]
  BY DEF AcquireEdges
<1>4. PICK s \in Paths(Body, p[1], p[2]) : Within(Top.ls, s)
  BY <1>1
<1>5. h \in Keys(s)
  BY <1>4 DEF Within, Keys
<1>6. e.from = KeyOf[h] /\ e.to = KeyOf[Instr.ref] /\ e.fn = fn
  BY <1>3
<1> QED
  BY <1>1, <1>2, <1>4, <1>5, <1>6 DEF RealEdge

LEMMA AcquiresReallyHeld ==
    ASSUME TypeOK, AllFit, At({"lock"}), NEW d \in AcquireDiags(Top.ls, Instr)
    PROVE  d.fn = fn /\ d.kind \in AcquireKinds /\ RealAcquire(Body, d)
<1>1. PICK p \in Points(Body, Instr.op) :
        InstrAt(Body, p) = Instr /\ \E s \in Paths(Body, p[1], p[2]) : Within(Top.ls, s)
  BY AtPoint
<1>2. Instr.op = "lock" /\ Instr.ref \in LockRefs
  BY AtTypes, InstrTypes
<1>3. /\ Top.ls.held[Instr.ref] # "free"
      /\ d = [kind |-> AcquireKind(Instr.mode, Top.ls.held[Instr.ref]), fn |-> fn, pos |-> Instr.pos, ref |-> Instr.ref]
  BY DEF AcquireDiags, Diag
<1>4. PICK s \in Paths(Body, p[1], p[2]) : Within(Top.ls, s)
  BY <1>1
<1>5. s.held[Instr.ref] = Top.ls.held[Instr.ref]
  BY <1>2, <1>3, <1>4 DEF Within
<1>6. d.fn = fn /\ d.pos = Instr.pos /\ d.ref = Instr.ref /\ d.kind = AcquireKind(Instr.mode, s.held[d.ref])
  BY <1>3, <1>5
<1>7. d.kind \in AcquireKinds
  BY <1>6 DEF AcquireKind, AcquireKinds
<1> QED
  BY <1>1, <1>2, <1>3, <1>4, <1>5, <1>6, <1>7 DEF RealAcquire

LEMMA MismatchesReallyHeld ==
    ASSUME TypeOK, AllFit, At({"unlock", "deferUnlock"}), NEW d \in MismatchDiags(Top.ls, Instr)
    PROVE  d.fn = fn /\ d.kind = "mismatchedUnlock" /\ RealMismatch(Body, d)
<1>1. PICK p \in Points(Body, Instr.op) :
        InstrAt(Body, p) = Instr /\ \E s \in Paths(Body, p[1], p[2]) : Within(Top.ls, s)
  BY AtPoint
<1>2. Instr.op \in {"unlock", "deferUnlock"} /\ Instr.ref \in LockRefs
  BY AtTypes, InstrTypes
<1>3. /\ Top.ls.held[Instr.ref] \notin {"free", Instr.mode}
      /\ d = [kind |-> "mismatchedUnlock", fn |-> fn, pos |-> Instr.pos, ref |-> Instr.ref]
  BY DEF MismatchDiags, Diag
<1>4. PICK s \in Paths(Body, p[1], p[2]) : Within(Top.ls, s)
  BY <1>1
<1>5. s.held[Instr.ref] = Top.ls.held[Instr.ref]
  BY <1>2, <1>3, <1>4 DEF Within
<1>6. d.fn = fn /\ d.pos = Instr.pos /\ d.ref = Instr.ref /\ d.kind = "mismatchedUnlock"
  BY <1>3
<1>7. p \in Points(Body, "unlock") \cup Points(Body, "deferUnlock")
  BY <1>1, <1>2
<1> QED
  BY <1>1, <1>3, <1>4, <1>5, <1>6, <1>7 DEF RealMismatch

LEMMA CallsReallyMade ==
    ASSUME TypeOK, AllFit, At({"call"})
    PROVE  CallSite(Instr, Top.ls).caller = fn /\ RealCall(Body, CallSite(Instr, Top.ls))
<1>1. PICK p \in Points(Body, Instr.op) :
        InstrAt(Body, p) = Instr /\ \E s \in Paths(Body, p[1], p[2]) : Within(Top.ls, s)
  BY AtPoint
<1>2. Instr.op = "call"
  BY AtTypes
<1>3. PICK s \in Paths(Body, p[1], p[2]) : Within(Top.ls, s)
  BY <1>1
<1>4. PICK c : c = CallSite(Instr, Top.ls)
  OBVIOUS
<1>5. c.caller = fn /\ c.pos = Instr.pos /\ c.callee = Instr.callee /\ c.held = normalizeLockState(Top.ls)
  BY <1>4 DEF CallSite
<1>6. \A r \in Keys(Top.ls) : r \in Keys(s) /\ s.held[r] = Top.ls.held[r]
  BY <1>3 DEF Within, Keys
<1>7. normalizeLockState(Top.ls) \subseteq normalizeLockState(s)
  BY <1>6 DEF normalizeLockState
<1> QED
  BY <1>1, <1>2, <1>4, <1>5, <1>7 DEF RealCall

LEMMA DiagsStay ==
    ASSUME DiagsOK, prog' = prog, fn' = fn, \A d \in diags' : d \in diags \/ (d.fn = fn /\ DiagOK(d))
    PROVE  DiagsOK'
<1> SUFFICES ASSUME NEW d \in diags' PROVE DiagOK(d)'
  BY DEF DiagsOK
<1>1. DiagOK(d)
  BY DEF DiagsOK
<1> QED
  BY <1>1 DEF DiagOK

LEMMA RealInstruction ==
    ASSUME TypeOK, AllFit, RecordsReal, ProcessInstruction
    PROVE  RecordsReal'
<1>1. stack # <<>> /\ prog' = prog /\ fn' = fn
  BY InstructionShape DEF StepsOver
<1>2. fn > 0 /\ fn \in Nat /\ fn \in 1..fn /\ Body = prog[fn]
  BY <1>1, WalkTypes, BodyTypes DEF Body
<1>3. ASSUME lockOrderEdges' = lockOrderEdges PROVE EdgesOK'
  BY <1>1, <1>3 DEF RecordsReal, EdgesOK
<1>4. ASSUME unlockOfUnlockedCandidates' = unlockOfUnlockedCandidates PROVE UnlocksOK'
  BY <1>1, <1>4 DEF RecordsReal, UnlocksOK, IsCandidate
<1>12. ASSUME callSites' = callSites PROVE CallsOK'
  BY <1>1, <1>12 DEF RecordsReal, CallsOK
<1>5. ASSUME diags' = diags PROVE DiagsOK'
  BY <1>1, <1>2, <1>5, DiagsStay DEF RecordsReal
<1>6. ASSUME \A d \in diags' : d \in diags \/ (d \in MismatchDiags(Top.ls, Instr) /\ At({"unlock", "deferUnlock"}))
      PROVE DiagsOK'
  <2>1. ASSUME NEW d \in diags', d \notin diags PROVE d.fn = fn /\ DiagOK(d)
    <3>1. d.fn = fn /\ d.kind = "mismatchedUnlock" /\ RealMismatch(Body, d)
      BY <1>6, <2>1, MismatchesReallyHeld
    <3> QED
      BY <1>2, <3>1 DEF DiagOK, AcquireKinds
  <2> QED
    BY <1>1, <1>2, <2>1, DiagsStay DEF RecordsReal
<1>7. CASE Lock
  <2>1. /\ At({"lock"}) /\ diags' = diags \cup AcquireDiags(Top.ls, Instr)
        /\ lockOrderEdges' = lockOrderEdges \cup AcquireEdges(Top.ls, Instr)
        /\ unlockOfUnlockedCandidates' = unlockOfUnlockedCandidates /\ callSites' = callSites
    BY <1>7 DEF Lock
  <2>2. EdgesOK'
    <3>1. ASSUME NEW e \in lockOrderEdges' PROVE e.fn \in 1..fn /\ RealEdge(prog[e.fn], e)
      BY <1>2, <2>1, <3>1, EdgesReallyAcquired DEF RecordsReal, EdgesOK
    <3> QED
      BY <1>1, <3>1 DEF EdgesOK
  <2>3. DiagsOK'
    <3>1. ASSUME NEW d \in diags', d \notin diags PROVE d.fn = fn /\ DiagOK(d)
      <4>1. d.fn = fn /\ d.kind \in AcquireKinds /\ RealAcquire(Body, d)
        BY <2>1, <3>1, AcquiresReallyHeld
      <4> QED
        BY <1>2, <4>1 DEF DiagOK, AcquireKinds
    <3> QED
      BY <1>1, <1>2, <3>1, DiagsStay DEF RecordsReal
  <2> QED
    BY <1>4, <1>12, <2>1, <2>2, <2>3 DEF RecordsReal
<1>8. CASE Unlock
  <2>1. /\ At({"unlock"}) /\ diags' = diags \cup MismatchDiags(Top.ls, Instr)
        /\ \A c \in unlockOfUnlockedCandidates' :
             \/ c \in unlockOfUnlockedCandidates
             \/ Instr.ref \notin Keys(Top.ls) /\ c = [fn |-> fn, pos |-> Instr.pos, ref |-> Instr.ref]
        /\ lockOrderEdges' = lockOrderEdges /\ callSites' = callSites
    BY <1>8 DEF Unlock
  <2>2. At({"unlock", "deferUnlock"})
    BY <2>1 DEF At
  <2>3. UnlocksOK'
    <3>1. ASSUME NEW c \in unlockOfUnlockedCandidates' PROVE c.fn \in 1..fn /\ IsCandidate(c)
      <4>1. CASE c \in unlockOfUnlockedCandidates
        BY <4>1 DEF RecordsReal, UnlocksOK
      <4>2. CASE c \notin unlockOfUnlockedCandidates
        <5>1. c = [fn |-> fn, pos |-> Instr.pos, ref |-> Instr.ref] /\ Instr.ref \in LockRefs
          BY <2>1, <4>2, AtTypes, InstrTypes
        <5> QED
          BY <1>2, <5>1 DEF IsCandidate
      <4> QED
        BY <4>1, <4>2
    <3> QED
      BY <1>1, <3>1 DEF UnlocksOK, IsCandidate
  <2>4. DiagsOK'
    BY <1>6, <2>1, <2>2
  <2> QED
    BY <1>3, <1>12, <2>1, <2>3, <2>4 DEF RecordsReal
<1>9. CASE DeferUnlock
  <2>1. /\ At({"deferUnlock"}) /\ diags' = diags \cup MismatchDiags(Top.ls, Instr)
        /\ unlockOfUnlockedCandidates' = unlockOfUnlockedCandidates /\ lockOrderEdges' = lockOrderEdges
        /\ callSites' = callSites
    BY <1>9 DEF DeferUnlock
  <2>2. At({"unlock", "deferUnlock"})
    BY <2>1 DEF At
  <2>3. DiagsOK'
    BY <1>6, <2>1, <2>2
  <2> QED
    BY <1>3, <1>4, <1>12, <2>1, <2>3 DEF RecordsReal
<1>10. CASE DeferLock
  <2>1. /\ diags' = diags \cup Diag("deferredLock", Instr.pos, Instr.ref)
        /\ unlockOfUnlockedCandidates' = unlockOfUnlockedCandidates /\ lockOrderEdges' = lockOrderEdges
        /\ callSites' = callSites
    BY <1>10 DEF DeferLock
  <2>2. ASSUME NEW d \in diags', d \notin diags PROVE d.fn = fn /\ DiagOK(d)
    <3>1. d.fn = fn /\ d.kind = "deferredLock"
      BY <2>1, <2>2 DEF Diag
    <3> QED
      BY <1>2, <3>1 DEF DiagOK, AcquireKinds
  <2>3. DiagsOK'
    BY <1>1, <1>2, <2>2, DiagsStay DEF RecordsReal
  <2> QED
    BY <1>3, <1>4, <1>12, <2>1, <2>3 DEF RecordsReal
<1>11. CASE Return \/ Access \/ Skip
  <2>1. /\ diags' = diags /\ unlockOfUnlockedCandidates' = unlockOfUnlockedCandidates
        /\ lockOrderEdges' = lockOrderEdges /\ callSites' = callSites
    BY <1>11 DEF Return, Access, Skip, passVars
  <2> QED
    BY <1>3, <1>4, <1>5, <1>12, <2>1 DEF RecordsReal
<1>13. CASE Call
  <2>1. /\ diags' = diags /\ unlockOfUnlockedCandidates' = unlockOfUnlockedCandidates
        /\ lockOrderEdges' = lockOrderEdges /\ At({"call"})
        /\ callSites' = callSites \cup {CallSite(Instr, Top.ls)}
    BY <1>13 DEF Call, recordCallSite
  <2>2. ASSUME NEW c \in callSites' PROVE c.caller \in 1..fn /\ RealCall(prog[c.caller], c)
    <3>1. CASE c \in callSites
      BY <3>1 DEF RecordsReal, CallsOK
    <3>2. CASE c \notin callSites
      <4>1. c = CallSite(Instr, Top.ls)
        BY <2>1, <3>2
      <4>2. c.caller = fn /\ RealCall(Body, c)
        BY <2>1, <4>1, CallsReallyMade
      <4> QED
        BY <1>2, <4>2
    <3> QED
      BY <3>1, <3>2
  <2>3. CallsOK'
    BY <1>1, <2>2 DEF CallsOK, RealCall
  <2> QED
    BY <1>3, <1>4, <1>5, <2>1, <2>3 DEF RecordsReal
<1> QED
  BY <1>7, <1>8, <1>9, <1>10, <1>11, <1>13 DEF ProcessInstruction

LEMMA RealBlock ==
    ASSUME TypeOK, RecordsReal, WalkBlock
    PROVE  RecordsReal'
<1>1. /\ stack # <<>> /\ BlockSteps /\ (~RevisitMerge => diags' = diags)
      /\ unlockOfUnlockedCandidates' = unlockOfUnlockedCandidates /\ lockOrderEdges' = lockOrderEdges
      /\ callSites' = callSites
  BY BlockShape
<1>2. prog' = prog /\ fn' = fn
  BY <1>1 DEF BlockSteps, Exits, ReturnsEarly, EntersWith, Leaves
<1>3. fn > 0 /\ fn \in Nat /\ fn \in 1..fn
  BY <1>1, WalkTypes, BodyTypes
<1>4. EdgesOK' /\ UnlocksOK' /\ CallsOK'
  BY <1>1, <1>2 DEF RecordsReal, EdgesOK, UnlocksOK, CallsOK
<1>5. ASSUME NEW d \in diags', d \notin diags PROVE d.fn = fn /\ DiagOK(d)
  <2>1. d \in InconsistencyDiags(NextSucc, entryStates[NextSucc], Top.ls)
    BY <1>1, <1>5 DEF RevisitMerge
  <2>2. d.fn = fn /\ d.kind = "inconsistent"
    BY <2>1 DEF InconsistencyDiags, Diag
  <2> QED
    BY <1>3, <2>2 DEF DiagOK, AcquireKinds
<1>6. DiagsOK'
  BY <1>2, <1>5, DiagsStay DEF RecordsReal
<1> QED
  BY <1>4, <1>6 DEF RecordsReal

LEMMA RealStarts ==
    ASSUME RecordsReal, Starts, UNCHANGED passVars
    PROVE  RecordsReal'
<1>1. /\ prog' = prog /\ fn \in Nat /\ fn' = fn + 1
      /\ diags' = diags /\ unlockOfUnlockedCandidates' = unlockOfUnlockedCandidates
      /\ lockOrderEdges' = lockOrderEdges /\ callSites' = callSites
  BY DEF Starts, passVars
<1>2. \A k \in 1..fn : k \in 1..fn' /\ k # fn'
  BY <1>1
<1>3. EdgesOK' /\ UnlocksOK' /\ CallsOK'
  BY <1>1, <1>2 DEF RecordsReal, EdgesOK, UnlocksOK, CallsOK
<1>4. DiagsOK'
  <2> SUFFICES ASSUME NEW d \in diags PROVE DiagOK(d)'
    BY <1>1 DEF DiagsOK
  <2>1. DiagOK(d)
    BY DEF RecordsReal, DiagsOK
  <2> QED
    BY <1>1, <1>2, <2>1 DEF DiagOK
<1> QED
  BY <1>3, <1>4 DEF RecordsReal

-----------------------------------------------------------------------------
(* What the latest walk of each block has recorded. *)

\* Instruction i of b has been processed since b was last entered.
Processed(b, i) ==
    /\ b \in DOMAIN entryStates /\ i \in 1..Len(Code(b))
    /\ InProgress(b) => i < Top.ip

\* No two returns that paths reach stand at one position.
ReturnsDistinct(body) ==
    \A p, q \in Points(body, "return") :
      (/\ Paths(body, p[1], p[2]) # {} /\ Paths(body, q[1], q[2]) # {}
       /\ InstrAt(body, p).pos = InstrAt(body, q).pos) => p = q

CallsRecorded ==
    \A b, i : (Processed(b, i) /\ Code(b)[i].op = "call") =>
      \E c \in callSites : c.caller = fn /\ c.callee = Code(b)[i].callee /\ c.pos = Code(b)[i].pos

\* A return ends its block, so its candidates are those of the settled state.
LeaksNoted ==
    ReturnsDistinct(Body) =>
      \A b, i : (Processed(b, i) /\ Code(b)[i].op = "return") =>
        \A r \in LeakedAt(Settled(b)) : [fn |-> fn, pos |-> Code(b)[i].pos, ref |-> r] \in lockLeakCandidates

\* Return i of b is at the candidate's position and, once processed, leaks its lock.
LeaksFrom(c, b, i) ==
    /\ b \in DOMAIN entryStates /\ i \in 1..Len(Code(b))
    /\ Code(b)[i].op = "return" /\ Code(b)[i].pos = c.pos
    /\ Processed(b, i) => c.ref \in LeakedAt(Settled(b))

LeaksPlaced ==
    \A c \in lockLeakCandidates : c.fn \in 1..fn /\ IsCandidate(c) /\ (c.fn = fn => \E b, i : LeaksFrom(c, b, i))

Latest == CallsRecorded /\ LeaksNoted /\ LeaksPlaced

\* A return leaves the block in the state it is met in.
LEMMA ReturnLast ==
    ASSUME NEW body \in Bodies, body # <<>>, NEW b \in DOMAIN body, NEW i \in 1..Len(body[b].instrs),
           body[b].instrs[i].op = "return"
    PROVE  /\ i = Len(body[b].instrs)
           /\ \A s : Effect(body[b].instrs[i], s) = s
           /\ Paths(body, b, i) = Paths(body, b, Len(body[b].instrs) + 1)
<1>1. i \in DOMAIN body[b].instrs
  BY BodyFacts
<1>2. i = Len(body[b].instrs)
  BY <1>1 DEF Bodies
<1>3. \A s : Effect(body[b].instrs[i], s) = s
  BY DEF Effect
<1>4. Paths(body, b, i + 1) = {Effect(body[b].instrs[i], s) : s \in Paths(body, b, i)}
  BY PathsSteps
<1>5. Paths(body, b, i + 1) = Paths(body, b, i)
  BY <1>3, <1>4
<1> QED
  BY <1>2, <1>3, <1>5

LEMMA ReturnSettled ==
    ASSUME TypeOK, stack # <<>>, TopExact, StepsOver, Instr.op = "return"
    PROVE  Top.ls = Settled(Top.block)
<1>1. /\ Body \in Bodies /\ Body # <<>> /\ Top.block \in DOMAIN Body /\ Top.ip \in 1..Len(Code(Top.block))
  BY WalkTypes DEF StepsOver
<1>2. Instr = Body[Top.block].instrs[Top.ip] /\ Code(Top.block) = Body[Top.block].instrs
  BY DEF Instr, Code
<1>3. PICK e \in LockStates : /\ Effect(Instr, Top.ls) = Before(Body, Top.block, Top.ip + 1, e)
                              /\ After(Body, Top.block, e) = Settled(Top.block)
  BY SettledStepsOver
<1>4. Body[Top.block].instrs[Top.ip].op = "return" /\ Top.ip \in 1..Len(Body[Top.block].instrs)
  BY <1>1, <1>2
<1>5. Top.ip = Len(Body[Top.block].instrs) /\ \A s : Effect(Body[Top.block].instrs[Top.ip], s) = s
  BY <1>1, <1>4, ReturnLast
<1>6. Effect(Instr, Top.ls) = Top.ls
  BY <1>2, <1>5
<1> QED
  BY <1>3, <1>5, <1>6 DEF After

\* Where the walk has been, paths come through.
LEMMA EntryReached ==
    ASSUME TypeOK, fn > 0, AllFit, NEW b \in DOMAIN entryStates, NEW i \in 1..(Len(Code(b)) + 1)
    PROVE  /\ Paths(Body, b, i) # {} /\ Paths(Body, b, i) \in SUBSET LockStates
           /\ b \in DOMAIN Body /\ Body \in Bodies /\ Body # <<>>
<1>1. Body \in Bodies /\ b \in DOMAIN Body
  BY BodyTypes DEF TypeOK
<1>2. Body # <<>> /\ Code(b) = Body[b].instrs
  BY <1>1 DEF Code
<1>3. Len(Code(b)) + 1 \in 1..(Len(Code(b)) + 1)
  BY <1>1, <1>2, BodyFacts
<1>4. PICK t \in Paths(Body, b, Len(Code(b)) + 1) : TRUE
  BY DEF AllFit, SettledFit, Fits
<1>5. PICK s \in LockStates : <<b, s>> \in Reached(Body)
  BY <1>1, <1>2, <1>3, <1>4, PathsElements
<1> QED
  BY <1>1, <1>2, <1>5, PathsElements

\* A call of walkBlock or its return processes nothing; what is entered again is to be
\* processed again.
LEMMA ProcessedStays ==
    ASSUME TypeOK, stack # <<>>, BlockSteps
    PROVE  /\ prog' = prog /\ fn' = fn /\ Body' = Body /\ (\A b : Code(b)' = Code(b))
           /\ DOMAIN entryStates \subseteq DOMAIN entryStates'
           /\ \A b, i : Processed(b, i)' => Processed(b, i) /\ Settled(b)' = Settled(b)
<1>0. PICK n : n = Len(stack)
  OBVIOUS
<1>1. n \in Nat /\ n > 0 /\ stack[n] = Top /\ Top.block \in DOMAIN Body /\ fn > 0
  BY <1>0, WalkTypes
<1>2. prog' = prog /\ fn' = fn /\ Body' = Body /\ (\A b : Code(b)' = Code(b))
  BY SameGraph DEF BlockSteps, Exits, ReturnsEarly, EntersWith, Leaves
<1>3. CASE Exits
  <2>1. entryStates' = entryStates /\ Top.ip = Len(Code(Top.block)) + 1
    BY <1>3 DEF Exits
  <2>2. ASSUME NEW b, NEW i, Processed(b, i)' PROVE Processed(b, i)
    <3>1. b \in DOMAIN entryStates /\ i \in 1..Len(Code(b))
      BY <1>2, <2>1, <2>2 DEF Processed
    <3>2. InProgress(b) => i < Top.ip
      BY <1>1, <2>1, <3>1, BodyTypes DEF InProgress
    <3> QED
      BY <3>1, <3>2 DEF Processed
  <2> QED
    BY <1>2, <2>1, <2>2 DEF Settled
<1>4. CASE ReturnsEarly \/ Leaves
  <2>1. entryStates' = entryStates /\ Top.succ > 0
    BY <1>4 DEF ReturnsEarly, TurnsOn, Leaves
  <2>2. \A b : ~InProgress(b)
    BY <1>1, <2>1 DEF InProgress
  <2>3. ASSUME NEW b, NEW i, Processed(b, i)' PROVE Processed(b, i)
    BY <1>2, <2>1, <2>2, <2>3 DEF Processed
  <2> QED
    BY <1>2, <2>1, <2>3 DEF Settled
<1>5. ASSUME NEW ls \in LockStates, EntersWith(ls)
      PROVE  /\ DOMAIN entryStates \subseteq DOMAIN entryStates'
             /\ \A b, i : Processed(b, i)' => Processed(b, i) /\ Settled(b)' = Settled(b)
  <2>0. PICK nb : nb = NextSucc
    OBVIOUS
  <2>00. PICK sh \in BOOLEAN : stack'[n + 1] = Frame(nb, ls, sh)
    BY <1>0, <1>5, <2>0 DEF EntersWith
  <2>1. /\ DOMAIN entryStates' = DOMAIN entryStates \cup {nb} /\ Top.succ > 0
        /\ \A b \in DOMAIN entryStates : b # nb => entryStates'[b] = entryStates[b]
        /\ Len(stack') = n + 1
    BY <1>0, <1>5, <2>0 DEF EntersWith, TurnsOn
  <2>2. \A b : ~InProgress(b)
    BY <1>1, <2>1 DEF InProgress
  <2>3. Top'.block = nb /\ Top'.succ = 0 /\ Top'.ip = 1 /\ stack' # <<>>
    <3>1. Len(stack') # 0 /\ Len(<<>>) = 0
      BY <1>1, <2>1
    <3>2. Top' = Frame(nb, ls, sh)
      BY <2>00, <2>1 DEF Top
    <3> QED
      BY <3>1, <3>2 DEF Frame
  <2>4. InProgress(nb)'
    BY <2>3 DEF InProgress
  <2>5. ASSUME NEW b, NEW i, Processed(b, i)' PROVE Processed(b, i) /\ Settled(b)' = Settled(b)
    <3>1. b # nb
      <4> SUFFICES ASSUME b = nb PROVE FALSE
        OBVIOUS
      <4>1. i \in 1..Len(Code(nb)) /\ i < Top'.ip
        BY <1>2, <2>4, <2>5 DEF Processed
      <4>2. nb \in DOMAIN Body
        BY <1>5, <2>0 DEF EntersWith, TurnsOn
      <4>3. Len(Code(nb)) \in Nat
        BY <1>1, <4>2, BodyTypes
      <4> QED
        BY <2>3, <4>1, <4>3
    <3>2. b \in DOMAIN entryStates /\ i \in 1..Len(Code(b))
      BY <1>2, <2>1, <2>5, <3>1 DEF Processed
    <3>3. Settled(b)' = Settled(b)
      BY <1>2, <2>1, <3>1, <3>2, SettledStays
    <3> QED
      BY <2>2, <3>2, <3>3 DEF Processed
  <2> QED
    BY <2>1, <2>5
<1> QED
  BY <1>2, <1>3, <1>4, <1>5 DEF BlockSteps

LEMMA LatestBlock ==
    ASSUME TypeOK, Latest, WalkBlock
    PROVE  Latest'
<1>1. /\ stack # <<>> /\ BlockSteps /\ callSites' = callSites /\ lockLeakCandidates' = lockLeakCandidates
  BY BlockShape
<1>2. /\ prog' = prog /\ fn' = fn /\ Body' = Body /\ (\A b : Code(b)' = Code(b))
      /\ DOMAIN entryStates \subseteq DOMAIN entryStates'
      /\ \A b, i : Processed(b, i)' => Processed(b, i) /\ Settled(b)' = Settled(b)
  BY <1>1, ProcessedStays
<1>3. CallsRecorded'
  BY <1>1, <1>2 DEF Latest, CallsRecorded
<1>4. LeaksNoted'
  BY <1>1, <1>2 DEF Latest, LeaksNoted
<1>5. LeaksPlaced'
  <2>1. ASSUME NEW c, NEW b, NEW i, LeaksFrom(c, b, i) PROVE LeaksFrom(c, b, i)'
    BY <1>2, <2>1 DEF LeaksFrom
  <2> QED
    BY <1>1, <1>2, <2>1 DEF Latest, LeaksPlaced
<1> QED
  BY <1>3, <1>4, <1>5 DEF Latest

\* Two returns that the walk has met stand at one position only if they are one.
LEMMA ReturnsAgree ==
    ASSUME TypeOK, fn > 0, AllFit, ReturnsDistinct(Body),
           NEW b \in DOMAIN entryStates, NEW i \in 1..Len(Code(b)), Code(b)[i].op = "return",
           NEW c \in DOMAIN entryStates, NEW j \in 1..Len(Code(c)), Code(c)[j].op = "return",
           Code(b)[i].pos = Code(c)[j].pos
    PROVE  b = c /\ i = j
<1>1. /\ b \in DOMAIN Body /\ c \in DOMAIN Body /\ Body \in Bodies
      /\ Code(b) = Body[b].instrs /\ Code(c) = Body[c].instrs
  BY BodyTypes DEF TypeOK, Code
<1>2. /\ i \in DOMAIN Body[b].instrs /\ i \in 1..(Len(Code(b)) + 1)
      /\ j \in DOMAIN Body[c].instrs /\ j \in 1..(Len(Code(c)) + 1)
  BY <1>1, BodyFacts
<1>3. Paths(Body, b, i) # {} /\ Paths(Body, c, j) # {}
  BY <1>2, EntryReached
<1>4. PICK p : p = <<b, i>>
  OBVIOUS
<1>5. PICK q : q = <<c, j>>
  OBVIOUS
<1>6. /\ p[1] = b /\ p[2] = i /\ q[1] = c /\ q[2] = j
      /\ InstrAt(Body, p) = Code(b)[i] /\ InstrAt(Body, q) = Code(c)[j]
  BY <1>1, <1>4, <1>5 DEF InstrAt
<1>7. p \in Points(Body, "return") /\ q \in Points(Body, "return")
  BY <1>1, <1>2, <1>4, <1>5, <1>6 DEF Points
<1>8. p = q
  BY <1>3, <1>6, <1>7 DEF ReturnsDistinct
<1> QED
  BY <1>6, <1>8

LEMMA LatestInstruction ==
    ASSUME TypeOK, Covered, AllFit, Latest, ProcessInstruction
    PROVE  Latest'
<1>1. StepsOver /\ stack # <<>>
  BY InstructionShape
<1>2. /\ fn > 0 /\ fn \in Nat /\ fn \in 1..fn /\ Top.block \in DOMAIN entryStates /\ Top.block \in DOMAIN Body
      /\ Len(stack) \in Nat /\ Len(stack) > 0
  BY <1>1, WalkTypes, BodyTypes
<1>3. /\ Body' = Body /\ fn' = fn /\ (\A b : Code(b)' = Code(b)) /\ DOMAIN entryStates' = DOMAIN entryStates
      /\ \A b \in DOMAIN entryStates : Settled(b)' = Settled(b)
  BY <1>1, SameGraph, SettledStepsOver DEF StepsOver, Covered
<1>4. /\ Top.ip \in 1..Len(Code(Top.block)) /\ Top.succ = 0 /\ Instr = Code(Top.block)[Top.ip]
      /\ Top'.block = Top.block /\ Top'.succ = 0 /\ Top'.ip = Top.ip + 1 /\ stack' # <<>>
  <2>1. Top' = stack'[Len(stack)] /\ Len(stack') # 0 /\ Len(<<>>) = 0
    BY <1>1, <1>2 DEF StepsOver, Top
  <2> QED
    BY <1>1, <2>1 DEF StepsOver, Instr
<1>5. ASSUME NEW b, NEW i, Processed(b, i)'
      PROVE  /\ Processed(b, i) \/ (b = Top.block /\ i = Top.ip)
             /\ b \in DOMAIN entryStates /\ i \in 1..Len(Code(b))
  <2>1. b \in DOMAIN entryStates /\ i \in 1..Len(Code(b))
    BY <1>3, <1>5 DEF Processed
  <2>2. CASE b # Top.block
    BY <2>1, <2>2 DEF Processed, InProgress
  <2>3. CASE b = Top.block
    <3>1. InProgress(b)'
      BY <1>4, <2>3 DEF InProgress
    <3>2. i < Top.ip + 1
      BY <1>4, <1>5, <3>1 DEF Processed
    <3>3. Len(Code(Top.block)) \in Nat
      BY <1>2, BodyTypes
    <3>4. i < Top.ip \/ i = Top.ip
      BY <1>4, <2>1, <2>3, <3>2, <3>3
    <3> QED
      BY <2>1, <2>3, <3>4 DEF Processed
  <2> QED
    BY <2>2, <2>3
<1>6. CallsRecorded'
  <2> SUFFICES ASSUME NEW b, NEW i, Processed(b, i)', Code(b)[i].op = "call"
               PROVE  \E c \in callSites' : c.caller = fn /\ c.callee = Code(b)[i].callee /\ c.pos = Code(b)[i].pos
    BY <1>3 DEF CallsRecorded
  <2>1. callSites \subseteq callSites'
    BY DEF ProcessInstruction, Lock, Unlock, DeferUnlock, DeferLock, Return, Access, Call, Skip, passVars, recordCallSite
  <2>2. CASE Processed(b, i)
    BY <2>1, <2>2 DEF Latest, CallsRecorded
  <2>3. CASE b = Top.block /\ i = Top.ip
    <3>1. Instr.op = "call" /\ Instr = Code(b)[i]
      BY <1>4, <2>3
    <3>2. Call
      BY <3>1 DEF ProcessInstruction, Lock, Unlock, DeferUnlock, DeferLock, Return, Access, Skip, At
    <3>3. CallSite(Instr, Top.ls) \in callSites'
      BY <3>2 DEF Call, recordCallSite
    <3> QED
      BY <3>1, <3>3 DEF CallSite
  <2> QED
    BY <1>5, <2>2, <2>3
<1>7. CASE Return
  <2>1. /\ At({"return"}) /\ lockLeakCandidates' = KeptCandidates(Instr.pos)
                \cup {[fn |-> fn, pos |-> Instr.pos, ref |-> r] : r \in LeakedAt(Top.ls)}
    BY <1>7 DEF Return
  <2>2. Instr.op = "return"
    BY <2>1 DEF At
  <2>0. Top.ls = Settled(Top.block)
    BY <1>1, <2>2, ReturnSettled DEF Covered
  <2>3. LeaksNoted'
    <3> SUFFICES ASSUME ReturnsDistinct(Body), NEW b, NEW i, Processed(b, i)', Code(b)[i].op = "return",
                        NEW r \in LeakedAt(Settled(b)')
                 PROVE  [fn |-> fn, pos |-> Code(b)[i].pos, ref |-> r] \in lockLeakCandidates'
      BY <1>3 DEF LeaksNoted, LeakedAt, Keys
    <3>0. r \in LeakedAt(Settled(b)) /\ b \in DOMAIN entryStates /\ i \in 1..Len(Code(b))
      BY <1>3, <1>5
    <3>1. CASE b = Top.block /\ i = Top.ip
      BY <1>4, <2>0, <2>1, <3>0, <3>1
    <3>2. CASE ~(b = Top.block /\ i = Top.ip)
      <4>0. PICK c : c = [fn |-> fn, pos |-> Code(b)[i].pos, ref |-> r]
        OBVIOUS
      <4>1. Processed(b, i) /\ c \in lockLeakCandidates
        BY <1>5, <3>0, <3>2, <4>0 DEF Latest, LeaksNoted
      <4>2. c.pos # Instr.pos
        <5> SUFFICES ASSUME Code(b)[i].pos = Instr.pos PROVE FALSE
          BY <4>0
        <5> QED
          BY <1>2, <1>4, <2>2, <3>0, <3>2, ReturnsAgree
      <4> QED
        BY <2>1, <4>0, <4>1, <4>2 DEF KeptCandidates
    <3> QED
      BY <3>1, <3>2
  <2>4. LeaksPlaced'
    <3> SUFFICES ASSUME NEW c \in lockLeakCandidates'
                 PROVE  c.fn \in 1..fn /\ IsCandidate(c) /\ (c.fn = fn => \E b, i : LeaksFrom(c, b, i)')
      BY <1>3 DEF LeaksPlaced
    <3>1. CASE c \in KeptCandidates(Instr.pos)
      <4>1. c \in lockLeakCandidates /\ c.pos # Instr.pos
        BY <3>1 DEF KeptCandidates
      <4>2. c.fn \in 1..fn /\ IsCandidate(c) /\ (c.fn = fn => \E b, i : LeaksFrom(c, b, i))
        BY <4>1 DEF Latest, LeaksPlaced
      <4>3. ASSUME NEW b, NEW i, LeaksFrom(c, b, i) PROVE LeaksFrom(c, b, i)'
        <5>1. ~(b = Top.block /\ i = Top.ip)
          BY <1>4, <4>1, <4>3 DEF LeaksFrom
        <5> QED
          BY <1>3, <1>5, <4>3, <5>1 DEF LeaksFrom, LeakedAt, Keys
      <4> QED
        BY <4>2, <4>3
    <3>2. CASE c \notin KeptCandidates(Instr.pos)
      <4>1. PICK r \in LeakedAt(Top.ls) : c = [fn |-> fn, pos |-> Instr.pos, ref |-> r]
        BY <2>1, <3>2
      <4>2. c.fn = fn /\ c.pos = Instr.pos /\ c.ref \in LeakedAt(Top.ls) /\ IsCandidate(c)
        BY <4>1 DEF IsCandidate, LeakedAt, Keys
      <4>3. PICK tb : tb = Top.block
        OBVIOUS
      <4>4. PICK ti : ti = Top.ip
        OBVIOUS
      <4>6. c.ref \in LeakedAt(Settled(tb)') /\ tb \in DOMAIN entryStates' /\ ti \in 1..Len(Code(tb)')
        BY <1>2, <1>3, <1>4, <2>0, <4>2, <4>3, <4>4
      <4>7. Code(tb)'[ti].op = "return" /\ Code(tb)'[ti].pos = c.pos
        BY <1>3, <1>4, <2>2, <4>2, <4>3, <4>4
      <4>5. LeaksFrom(c, tb, ti)'
        BY <4>6, <4>7 DEF LeaksFrom, LeakedAt, Keys
      <4> QED
        BY <1>2, <4>2, <4>5
    <3> QED
      BY <3>1, <3>2
  <2> QED
    BY <1>6, <2>3, <2>4 DEF Latest
<1>8. CASE ~Return
  <2>1. lockLeakCandidates' = lockLeakCandidates
    BY <1>8 DEF ProcessInstruction, Lock, Unlock, DeferUnlock, DeferLock, Access, Call, Skip, passVars
  <2>2. Instr.op # "return"
    BY <1>8 DEF ProcessInstruction, Lock, Unlock, DeferUnlock, DeferLock, Access, Call, Skip, At
  <2>3. \A b, i : (Processed(b, i)' /\ Code(b)[i].op = "return") => Processed(b, i) /\ Settled(b)' = Settled(b)
    BY <1>3, <1>4, <1>5, <2>2
  <2>4. LeaksNoted'
    BY <1>3, <2>1, <2>3 DEF Latest, LeaksNoted, LeakedAt, Keys
  <2>5. ASSUME NEW c, NEW b, NEW i, LeaksFrom(c, b, i) PROVE LeaksFrom(c, b, i)'
    BY <1>3, <2>3, <2>5 DEF LeaksFrom, LeakedAt, Keys
  <2>6. LeaksPlaced'
    BY <1>3, <2>1, <2>5 DEF Latest, LeaksPlaced
  <2> QED
    BY <1>6, <2>4, <2>6 DEF Latest
<1> QED
  BY <1>7, <1>8

LEMMA LatestStarts ==
    ASSUME LeaksPlaced, Starts, UNCHANGED passVars
    PROVE  Latest'
<1>1. ASSUME NEW b, NEW i, Processed(b, i)' PROVE FALSE
  <2>1. b \in DOMAIN entryStates' /\ i \in 1..Len(Code(b)') /\ (InProgress(b)' => i < Top'.ip)
    BY <1>1 DEF Processed
  <2>2. Body' # <<>>
    BY <2>1 DEF Starts
  <2>3. b = 1 /\ stack' # <<>> /\ Top' = Frame(1, newLockState, FALSE) /\ Body' \in Bodies
    BY <2>1, <2>2 DEF Starts
  <2>4. Top'.block = 1 /\ Top'.succ = 0 /\ Top'.ip = 1
    BY <2>3 DEF Frame
  <2>5. InProgress(b)'
    BY <2>3, <2>4 DEF InProgress
  <2>6. Len(Code(b)') \in Nat
    <3>1. PICK body : body = Body'
      OBVIOUS
    <3>2. 1 \in DOMAIN body
      BY <2>2, <2>3, <3>1, PathsSteps
    <3>3. Len(body[1].instrs) \in Nat
      BY <2>3, <3>1, <3>2, BodyFacts
    <3> QED
      BY <2>3, <3>1, <3>3 DEF Code
  <2> QED
    BY <2>1, <2>4, <2>5, <2>6
<1>2. fn \in Nat /\ fn' = fn + 1 /\ lockLeakCandidates' = lockLeakCandidates
  BY DEF Starts, passVars
<1>3. LeaksPlaced'
  <2>1. \A k \in 1..fn : k \in 1..fn' /\ k # fn'
    BY <1>2
  <2> QED
    BY <1>2, <2>1 DEF LeaksPlaced
<1> QED
  BY <1>1, <1>3 DEF Latest, CallsRecorded, LeaksNoted

-----------------------------------------------------------------------------
(* The inductive invariant of the walk. *)

ExactInv ==
    /\ TypeOK /\ RecordsReal /\ LeaksPlaced
    /\ fn > 0 => Covered /\ AllFit /\ Latest

LEMMA ExactInit == Init => ExactInv
<1> SUFFICES ASSUME Init PROVE ExactInv
  OBVIOUS
<1>1. TypeOK /\ fn = 0
  BY TypeInit DEF Init
<1>2. RecordsReal
  BY DEF Init, RecordsReal, EdgesOK, DiagsOK, UnlocksOK, CallsOK
<1>3. LeaksPlaced
  BY DEF Init, LeaksPlaced
<1> QED
  BY <1>1, <1>2, <1>3 DEF ExactInv

LEMMA ExactStutter ==
    ASSUME ExactInv, UNCHANGED vars
    PROVE  ExactInv'
<1>1. /\ prog' = prog /\ fn' = fn /\ stack' = stack /\ entryStates' = entryStates /\ exitStates' = exitStates
      /\ diags' = diags /\ unlockOfUnlockedCandidates' = unlockOfUnlockedCandidates
      /\ lockLeakCandidates' = lockLeakCandidates /\ callSites' = callSites /\ lockOrderEdges' = lockOrderEdges
  BY DEF vars, walkVars, passVars
<1>2. Body' = Body /\ (\A b : Code(b)' = Code(b)) /\ (\A b : Succs(b)' = Succs(b)) /\ Top' = Top
  BY <1>1, SameGraph DEF Top
<1>3. TypeOK'
  BY TypeStep DEF ExactInv
<1>4. RecordsReal'
  <2>1. EdgesOK' /\ UnlocksOK' /\ CallsOK'
    BY <1>1 DEF ExactInv, RecordsReal, EdgesOK, UnlocksOK, CallsOK
  <2>2. CASE fn > 0
    BY <1>1, <2>1, <2>2, DiagsStay DEF ExactInv, RecordsReal
  <2>3. CASE ~(fn > 0)
    <3>1. fn \in Nat /\ 1..fn = {}
      BY <2>3, LenProperties DEF ExactInv, TypeOK
    <3> QED
      BY <1>1, <2>1, <3>1 DEF ExactInv, RecordsReal, DiagsOK, DiagOK
  <2> QED
    BY <2>2, <2>3
<1>5. \A b : Settled(b)' = Settled(b) /\ (InProgress(b)' <=> InProgress(b))
  BY <1>1, <1>2 DEF Settled, InProgress
<1>6. \A b, i : EdgeOpen(b, i)' <=> EdgeOpen(b, i)
  BY <1>1, <1>5 DEF EdgeOpen
<1>7. ASSUME Covered PROVE Covered'
  <2>1. TopExact'
    BY <1>1, <1>2, <1>7 DEF Covered, TopExact, Settled
  <2>2. ExitsSettled'
    BY <1>1, <1>5, <1>7 DEF Covered, ExitsSettled
  <2>3. EdgesSeen'
    BY <1>1, <1>2, <1>6, <1>7 DEF Covered, EdgesSeen, Arrives, Settled
  <2>4. EntryWalked'
    BY <1>1, <1>2, <1>7 DEF Covered, EntryWalked, Arrives, Settled
  <2> QED
    BY <2>1, <2>2, <2>3, <2>4 DEF Covered
<1>8. ASSUME AllFit PROVE AllFit'
  BY <1>1, <1>2, <1>5, <1>8 DEF AllFit, FramesReal, SettledFit
<1>9. \A b, i : Processed(b, i)' <=> Processed(b, i)
  BY <1>1, <1>2, <1>5 DEF Processed
<1>10. \A c, b, i : LeaksFrom(c, b, i)' <=> LeaksFrom(c, b, i)
  BY <1>1, <1>2, <1>5, <1>9 DEF LeaksFrom
<1>11. LeaksPlaced'
  BY <1>1, <1>10 DEF ExactInv, LeaksPlaced
<1>12. ASSUME Latest PROVE Latest'
  BY <1>1, <1>2, <1>5, <1>9, <1>11, <1>12 DEF Latest, CallsRecorded, LeaksNoted
<1> QED
  BY <1>1, <1>3, <1>4, <1>7, <1>8, <1>11, <1>12 DEF ExactInv

LEMMA ExactStep == ExactInv /\ [Next]_vars => ExactInv'
<1> SUFFICES ASSUME ExactInv, [Next]_vars PROVE ExactInv'
  OBVIOUS
<1>1. TypeOK /\ TypeOK' /\ RecordsReal /\ LeaksPlaced
  BY TypeStep DEF ExactInv
<1>2. CASE WalkFunction
  <2>1. Starts /\ UNCHANGED passVars
    BY <1>1, <1>2, StartShape
  <2>2. Covered' /\ AllFit' /\ RecordsReal' /\ Latest'
    BY <1>1, <2>1, CoveredStarts, FitStarts, RealStarts, LatestStarts
  <2> QED
    BY <1>1, <2>2 DEF ExactInv, Latest
<1>3. CASE ProcessInstruction
  <2>1. StepsOver /\ stack # <<>>
    BY <1>1, <1>3, InstructionShape
  <2>2. fn > 0
    BY <1>1, <2>1, TopTypes
  <2>3. Covered /\ AllFit /\ Latest
    BY <2>2 DEF ExactInv
  <2>4. Covered' /\ AllFit' /\ RecordsReal' /\ Latest'
    BY <1>1, <1>3, <2>1, <2>3, CoveredStepsOver, FitStepsOver, RealInstruction, LatestInstruction
  <2> QED
    BY <1>1, <2>4 DEF ExactInv, Latest
<1>4. CASE WalkBlock
  <2>1. BlockSteps /\ stack # <<>>
    BY <1>1, <1>4, BlockShape
  <2>2. fn > 0
    BY <1>1, <2>1, TopTypes
  <2>3. Covered /\ AllFit /\ Latest
    BY <2>2 DEF ExactInv
  <2>4. Covered' /\ AllFit' /\ RecordsReal' /\ Latest'
    BY <1>1, <1>4, <2>1, <2>3, CoveredBlock, FitBlock, RealBlock, LatestBlock
  <2> QED
    BY <1>1, <2>4 DEF ExactInv, Latest
<1>5. CASE UNCHANGED vars
  BY <1>5, ExactStutter
<1> QED
  BY <1>2, <1>3, <1>4, <1>5 DEF Next

-----------------------------------------------------------------------------
(* The end of a walk. *)

\* What allows for a state allows for those above it.
LEMMA ArrivesAbove ==
    ASSUME TypeOK, fn > 0, NEW c, NEW s \in LockStates, NEW t \in LockStates, Arrives(c, s), Below(s, t)
    PROVE  Arrives(c, t)
<1>1. Body \in Bodies /\ c \in DOMAIN entryStates /\ c \in DOMAIN Body /\ entryStates[c] \in LockStates
  BY BodyTypes DEF Arrives, TypeOK
<1>2. Below(After(Body, c, s), After(Body, c, t)) /\ Below(Settled(c), After(Body, c, s))
  BY <1>1, AfterMonotone DEF Arrives
<1>3. After(Body, c, s) \in LockStates /\ After(Body, c, t) \in LockStates /\ Settled(c) \in LockStates
  BY <1>1, AfterTypes DEF Settled
<1> QED
  BY <1>1, <1>2, <1>3, BelowTrans DEF Arrives

\* Paths that leave a block leave it with at least its settled state.
LEMMA PathsAbove ==
    ASSUME TypeOK, Covered, Walked
    PROVE  \A b \in DOMAIN Body : \A s \in Paths(Body, b, 1) : Arrives(b, s)
<1>1. /\ fn > 0 /\ stack = <<>> /\ Body # <<>> /\ Body \in Bodies
      /\ DOMAIN entryStates \subseteq DOMAIN Body /\ \A b \in DOMAIN entryStates : entryStates[b] \in LockStates
  BY BodyTypes DEF Walked, TypeOK
<1> DEFINE S == {p \in Pairs(Body) : Arrives(p[1], p[2])}
<1>2. \A b \in DOMAIN Body, s \in LockStates : <<b, s>> \in S <=> Arrives(b, s)
  BY DEF Pairs
<1>3. S \in SUBSET Pairs(Body)
  OBVIOUS
<1>4. <<1, newLockState>> \in S
  <2>1. 1 \in DOMAIN Body
    BY <1>1, PathsSteps
  <2> QED
    BY <1>1, <1>2, <2>1, NewState DEF Covered, EntryWalked
<1> HIDE DEF S
<1>5. Closed(Body, S)
  <2> SUFFICES ASSUME NEW b \in DOMAIN Body, NEW s \in LockStates, <<b, s>> \in S, NEW i \in DOMAIN Body[b].succs
               PROVE  <<Body[b].succs[i], After(Body, b, s)>> \in S
    BY DEF Closed
  <2>0. PICK t : t = Body[b].succs[i]
    OBVIOUS
  <2>1. b \in DOMAIN entryStates /\ Below(Settled(b), After(Body, b, s)) /\ entryStates[b] \in LockStates
    BY <1>1, <1>2 DEF Arrives
  <2>2. ~EdgeOpen(b, i)
    <3>1. 1..Len(stack) = {}
      BY <1>1
    <3> QED
      BY <3>1 DEF EdgeOpen
  <2>3. Arrives(t, Settled(b))
    BY <2>0, <2>1, <2>2 DEF Covered, EdgesSeen, Succs
  <2>4. Settled(b) \in LockStates /\ After(Body, b, s) \in LockStates
    BY <1>1, <2>1, AfterTypes DEF Settled
  <2>5. Arrives(t, After(Body, b, s))
    BY <1>1, <2>1, <2>3, <2>4, ArrivesAbove
  <2>6. t \in DOMAIN Body
    BY <1>1, <2>3 DEF Arrives
  <2> QED
    BY <1>2, <2>0, <2>4, <2>5, <2>6
<1>6. Reached(Body) \subseteq S
  BY <1>1, <1>3, <1>4, <1>5, ReachedLeast
<1>7. ASSUME NEW b \in DOMAIN Body, NEW s \in Paths(Body, b, 1) PROVE Arrives(b, s)
  <2>1. s \in LockStates /\ <<b, s>> \in Reached(Body)
    BY <1>1, PathsSteps
  <2> QED
    BY <1>2, <1>6, <2>1
<1> QED
  BY <1>7

\* At the end of a walk the settled states meet the paths from both sides.
LEMMA EndExact ==
    ASSUME ExactInv, Walked, NEW b \in DOMAIN Body
    PROVE  /\ \A i \in 1..(Len(Code(b)) + 1) : Paths(Body, b, i) # {} <=> b \in DOMAIN entryStates
           /\ b \in DOMAIN entryStates =>
                LET S == Paths(Body, b, Len(Code(b)) + 1) IN
                  /\ Fits(S, Settled(b)) /\ S \in SUBSET LockStates /\ Settled(b) \in LockStates
                  /\ \A s \in S : Below(Settled(b), s)
<1>1. /\ TypeOK /\ fn > 0 /\ Body # <<>> /\ Covered /\ AllFit /\ Body \in Bodies /\ Code(b) = Body[b].instrs
  BY BodyTypes DEF ExactInv, Walked, Code
<1>2. ASSUME NEW i \in 1..(Len(Code(b)) + 1), NEW s \in Paths(Body, b, i)
      PROVE  b \in DOMAIN entryStates /\ \E t \in LockStates : Arrives(b, t) /\ s = Before(Body, b, i, t)
  <2>1. PICK t \in LockStates : <<b, t>> \in Reached(Body) /\ s = Before(Body, b, i, t)
    BY <1>1, PathsElements
  <2>2. t \in Paths(Body, b, 1)
    BY <1>1, <2>1, PathsSteps
  <2>3. Arrives(b, t)
    BY <1>1, <2>2, PathsAbove
  <2> QED
    BY <2>1, <2>3 DEF Arrives
<1>3. \A i \in 1..(Len(Code(b)) + 1) : Paths(Body, b, i) # {} <=> b \in DOMAIN entryStates
  BY <1>1, <1>2, EntryReached
<1>4. Len(Code(b)) + 1 \in 1..(Len(Code(b)) + 1)
  BY <1>1, BodyFacts
<1>5. ASSUME b \in DOMAIN entryStates
      PROVE  /\ Fits(Paths(Body, b, Len(Code(b)) + 1), Settled(b)) /\ Settled(b) \in LockStates
             /\ Paths(Body, b, Len(Code(b)) + 1) \in SUBSET LockStates
  <2>1. entryStates[b] \in LockStates
    BY <1>1, <1>5 DEF TypeOK
  <2>2. Settled(b) \in LockStates
    BY <1>1, <2>1, AfterTypes DEF Settled
  <2> QED
    BY <1>1, <1>4, <1>5, <2>2, PathsElements DEF AllFit, SettledFit
<1>6. ASSUME NEW s \in Paths(Body, b, Len(Code(b)) + 1) PROVE Below(Settled(b), s)
  <2>1. PICK t \in LockStates : Arrives(b, t) /\ s = Before(Body, b, Len(Code(b)) + 1, t)
    BY <1>2, <1>4
  <2> QED
    BY <1>1, <2>1 DEF Arrives, After
<1> QED
  BY <1>3, <1>5, <1>6

-----------------------------------------------------------------------------
(* Functions that use each lock in one mode. *)

\* The function acquires r in mode m.
LocksIn(body, r, m) ==
    \E p \in Points(body, "lock") : InstrAt(body, p).ref = r /\ InstrAt(body, p).mode = m

\* Every lock of s is held in a mode that the function acquires it in.
ModesOf(body, s) == \A r \in Keys(s) : LocksIn(body, r, s.held[r])

LEMMA ModesAlong ==
    ASSUME NEW body \in Bodies, NEW b \in DOMAIN body, NEW s \in LockStates, ModesOf(body, s)
    PROVE  \A i \in 1..(Len(body[b].instrs) + 1) : ModesOf(body, Before(body, b, i, s))
<1> DEFINE m == Len(body[b].instrs)
           Good(i) == ModesOf(body, Before(body, b, i, s))
           Bad == {i \in 1..(m + 1) : ~Good(i)}
<1>1. m \in Nat /\ \A i \in 1..m : body[b].instrs[i] \in Instrs
  BY BodyFacts
<1>2. Good(1)
  BY BeforeSteps
<1>3. ASSUME NEW i \in 1..m, Good(i) PROVE Good(i + 1)
  <2>0. PICK ins : ins = body[b].instrs[i]
    OBVIOUS
  <2>00. PICK old : old = Before(body, b, i, s)
    OBVIOUS
  <2>1. /\ ins \in Instrs /\ i \in 1..(m + 1) /\ i \in DOMAIN body[b].instrs
        /\ Before(body, b, i + 1, s) = Effect(ins, old)
    BY <1>1, <2>0, <2>00, BeforeSteps, BodyFacts
  <2>2. old \in LockStates /\ ModesOf(body, old)
    BY <1>3, <2>1, <2>00, BeforeSteps
  <2>3. ASSUME NEW r \in Keys(Effect(ins, old)) PROVE LocksIn(body, r, Effect(ins, old).held[r])
    <3>0. r \in LockRefs
      BY DEF Keys
    <3>1. CASE ins.op = "lock" /\ ins.ref = r
      <4>1. Effect(ins, old).held[r] = ins.mode
        BY <2>1, <2>2, <3>0, <3>1 DEF Effect, LockStates
      <4>2. PICK p : p = <<b, i>>
        OBVIOUS
      <4>3. p[1] = b /\ p[2] = i /\ InstrAt(body, p) = ins
        BY <2>0, <4>2 DEF InstrAt
      <4>4. p \in Points(body, "lock")
        BY <2>1, <3>1, <4>2, <4>3 DEF Points
      <4> QED
        BY <3>1, <4>1, <4>3, <4>4 DEF LocksIn
    <3>2. CASE ins.op = "unlock" /\ ins.ref = r
      <4>1. Effect(ins, old).held[r] = "free"
        BY <2>1, <2>2, <3>0, <3>2 DEF Effect, LockStates
      <4> QED
        BY <4>1 DEF Keys
    <3>3. CASE ~(ins.op \in {"lock", "unlock"} /\ ins.ref = r)
      <4>1. Effect(ins, old).held[r] = old.held[r]
        BY <2>1, <2>2, <3>0, <3>3, InstrTypes DEF Effect, LockStates
      <4> QED
        BY <2>2, <4>1 DEF ModesOf, Keys
    <3> QED
      BY <3>1, <3>2, <3>3
  <2> QED
    BY <2>1, <2>3 DEF ModesOf
<1> HIDE DEF Good
<1>4. Bad = {}
  <2> SUFFICES ASSUME Bad # {} PROVE FALSE
    OBVIOUS
  <2>1. Bad \in SUBSET Nat
    BY <1>1
  <2>2. PICK i \in Bad : \A j \in Bad : i <= j
    BY <2>1, LeastNatural
  <2>3. i - 1 \in 1..m /\ i - 1 \in 1..(m + 1) /\ ~(i <= i - 1) /\ (i - 1) + 1 = i
    BY <1>1, <1>2
  <2>4. Good(i - 1)
    BY <2>2, <2>3
  <2> QED
    BY <1>3, <2>3, <2>4
<1> QED
  BY <1>4 DEF Good

LEMMA PathModes ==
    ASSUME NEW body \in Bodies, body # <<>>, NEW b \in DOMAIN body, NEW i \in 1..(Len(body[b].instrs) + 1),
           NEW s \in Paths(body, b, i)
    PROVE  ModesOf(body, s)
<1> DEFINE S == {p \in Pairs(body) : ModesOf(body, p[2])}
<1>1. \A c \in DOMAIN body, t \in LockStates : <<c, t>> \in S <=> ModesOf(body, t)
  BY DEF Pairs
<1>2. S \in SUBSET Pairs(body)
  OBVIOUS
<1> HIDE DEF S
<1>3. <<1, newLockState>> \in S
  <2>1. 1 \in DOMAIN body
    BY PathsSteps
  <2>2. ModesOf(body, newLockState)
    BY DEF ModesOf, Keys, newLockState
  <2> QED
    BY <1>1, <2>1, <2>2, NewState
<1>4. Closed(body, S)
  <2> SUFFICES ASSUME NEW c \in DOMAIN body, NEW t \in LockStates, <<c, t>> \in S, NEW k \in DOMAIN body[c].succs
               PROVE  <<body[c].succs[k], After(body, c, t)>> \in S
    BY DEF Closed
  <2>1. ModesOf(body, t)
    BY <1>1
  <2>2. Len(body[c].instrs) + 1 \in 1..(Len(body[c].instrs) + 1)
    BY BodyFacts
  <2>3. ModesOf(body, After(body, c, t))
    BY <2>1, <2>2, ModesAlong DEF After
  <2>4. After(body, c, t) \in LockStates /\ body[c].succs[k] \in DOMAIN body
    BY AfterTypes, BodyFacts
  <2> QED
    BY <1>1, <2>3, <2>4
<1>5. Reached(body) \subseteq S
  BY <1>2, <1>3, <1>4, ReachedLeast
<1>6. PICK t \in LockStates : <<b, t>> \in Reached(body) /\ s = Before(body, b, i, t)
  BY PathsElements
<1>7. ModesOf(body, t)
  BY <1>1, <1>5, <1>6
<1> QED
  BY <1>6, <1>7, ModesAlong

\* Then all paths that hold a lock hold it alike.
LEMMA AllHoldAlike ==
    ASSUME NEW body \in Bodies, body # <<>>, SingleMode(body),
           NEW b \in DOMAIN body, NEW i \in 1..(Len(body[b].instrs) + 1), NEW r \in LockRefs
    PROVE  HeldAlike(Paths(body, b, i), r) <=> \A s \in Paths(body, b, i) : r \in Keys(s)
<1> DEFINE S == Paths(body, b, i)
<1>0. S \in SUBSET LockStates
  BY PathsElements
<1>1. ASSUME HeldAlike(S, r) PROVE \A s \in S : r \in Keys(s)
  BY <1>1 DEF HeldAlike, Keys, Modes
<1>2. ASSUME \A s \in S : r \in Keys(s) PROVE HeldAlike(S, r)
  <2>1. ASSUME NEW s \in S PROVE LocksIn(body, r, s.held[r]) /\ s.held[r] \in Modes
    <3>1. ModesOf(body, s) /\ r \in Keys(s) /\ s \in LockStates
      BY <1>0, <1>2, PathModes
    <3> QED
      BY <3>1 DEF ModesOf, Keys, LockStates
  <2>2. CASE S = {}
    BY <2>2 DEF HeldAlike, Modes
  <2>3. CASE S # {}
    <3>1. PICK s \in S : TRUE
      BY <2>3
    <3>2. ASSUME NEW t \in S PROVE t.held[r] = s.held[r]
      BY <2>1 DEF LocksIn, SingleMode
    <3> QED
      BY <2>1, <3>2 DEF HeldAlike
  <2> QED
    BY <2>2, <2>3
<1> HIDE DEF S
<1>3. HeldAlike(S, r) <=> \A s \in S : r \in Keys(s)
  BY <1>1, <1>2
<1> QED
  BY <1>3 DEF S

\* So the settled state has exactly the locks that all paths hold.
LEMMA EndMeets ==
    ASSUME ExactInv, Walked, NEW b \in DOMAIN entryStates, NEW S, S = Paths(Body, b, Len(Code(b)) + 1)
    PROVE  /\ b \in DOMAIN Body /\ S # {}
           /\ \A r \in LockRefs : HeldAlike(S, r) => r \in Keys(Settled(b))
           /\ \A r \in Keys(Settled(b)) : \A s \in S : r \in Keys(s)
           /\ SingleMode(Body) => Keys(Settled(b)) = {r \in LockRefs : \A s \in S : r \in Keys(s)}
           /\ Settled(b).deferred = {r \in LockRefs : \A s \in S : r \in s.deferred}
<1>1. TypeOK /\ fn > 0 /\ Body # <<>> /\ Body \in Bodies /\ Code(b) = Body[b].instrs /\ b \in DOMAIN Body
  BY BodyTypes DEF ExactInv, Walked, Code, TypeOK
<1>2. Len(Code(b)) + 1 \in 1..(Len(Code(b)) + 1)
  BY <1>1, BodyFacts
<1>3. /\ S # {} /\ Fits(S, Settled(b)) /\ S \in SUBSET LockStates /\ Settled(b) \in LockStates
      /\ \A s \in S : Below(Settled(b), s)
  BY <1>1, <1>2, EndExact
<1>4. \A r \in LockRefs : HeldAlike(S, r) => r \in Keys(Settled(b))
  BY <1>3 DEF Fits
<1>5. \A r \in Keys(Settled(b)) : r \in LockRefs /\ \A s \in S : r \in Keys(s)
  BY <1>3 DEF Below, Keys
<1>6. ASSUME SingleMode(Body) PROVE Keys(Settled(b)) = {r \in LockRefs : \A s \in S : r \in Keys(s)}
  <2>1. \A r \in LockRefs : (\A s \in S : r \in Keys(s)) => HeldAlike(S, r)
    BY <1>1, <1>2, <1>6, AllHoldAlike
  <2> QED
    BY <1>4, <1>5, <2>1
<1>7. Settled(b).deferred = {r \in LockRefs : \A s \in S : r \in s.deferred}
  <2>1. Settled(b).deferred \subseteq LockRefs
    BY <1>3 DEF LockStates
  <2> QED
    BY <1>3, <2>1 DEF Below, Fits
<1> QED
  BY <1>1, <1>3, <1>4, <1>5, <1>6, <1>7

-----------------------------------------------------------------------------
(* The properties of WalkExact. *)

LEMMA ExactInvariant == Spec => []ExactInv
BY ExactInit, ExactStep, PTL DEF Spec

\* C3 (checkAndRecordLockAcquire): no lock-order edge is an artefact of the walk; some path
\* acquires its second lock while it holds the first.
THEOREM EdgesAreReal == Spec => []EdgesReal
<1>1. ExactInv => EdgesReal
  <2> SUFFICES ASSUME ExactInv, Walked, NEW e \in lockOrderEdges, e.fn = fn PROVE RealEdge(Body, e)
    BY DEF EdgesReal, RealEdge, Paths
  <2> QED
    BY DEF ExactInv, RecordsReal, EdgesOK, Body
<1> QED
  BY <1>1, ExactInvariant, PTL

\* C2 and mismatched unlocks: the reported operation meets the lock in the reported mode on
\* some path, whatever loops and merges the walk went through.
THEOREM HeldDiagsAreReal == Spec => []HeldDiagsReal
<1>1. ExactInv => HeldDiagsReal
  <2> SUFFICES ASSUME ExactInv, Walked, NEW d \in diags, d.fn = fn
               PROVE  /\ d.kind \in {"doubleLock", "recursiveRLock", "lockUpgrade"} => RealAcquire(Body, d)
                      /\ d.kind = "mismatchedUnlock" => RealMismatch(Body, d)
    BY DEF HeldDiagsReal, RealAcquire, RealMismatch, Paths
  <2>1. DiagOK(d)
    BY DEF ExactInv, RecordsReal, DiagsOK
  <2> QED
    BY <2>1 DEF DiagOK, AcquireKinds, Body
<1> QED
  BY <1>1, ExactInvariant, PTL

\* recordCallSite: the locks of a record are all held on one path to the call, in their
\* modes, although re-walks start from entry states that earlier walks have overwritten.
THEOREM CallSitesAreReal == Spec => []CallSitesReal
<1>1. ExactInv => CallSitesReal
  <2> SUFFICES ASSUME ExactInv, Walked, NEW c \in callSites, c.caller = fn PROVE RealCall(Body, c)
    BY DEF CallSitesReal, RealCall, Paths
  <2> QED
    BY DEF ExactInv, RecordsReal, CallsOK, Body
<1> QED
  BY <1>1, ExactInvariant, PTL

\* walkBlock and lockState.intersect: whatever the order of visits, and although re-walks
\* overwrite entry states, if the walk of a function ends then the exit state of a block is
\* what all paths through it have: the locks held and the unlocks deferred.
THEOREM ExitsAreExact == Spec => []ExitExact
<1>1. ExactInv => ExitExact
  <2> SUFFICES ASSUME ExactInv, Walked, SingleMode(Body)
               PROVE  /\ DOMAIN exitStates = {p[1] : p \in Reached(Body)}
                      /\ \A b \in DOMAIN exitStates : \A S : S = Paths(Body, b, Len(Code(b)) + 1) =>
                           /\ Keys(exitStates[b]) = {r \in LockRefs : \A s \in S : r \in Keys(s)}
                           /\ exitStates[b].deferred = {r \in LockRefs : \A s \in S : r \in s.deferred}
    BY DEF ExitExact, Paths
  <2>1. /\ TypeOK /\ fn > 0 /\ Body # <<>> /\ Body \in Bodies /\ DOMAIN entryStates \subseteq DOMAIN Body
        /\ Reached(Body) \in SUBSET Pairs(Body) /\ stack = <<>>
    BY BodyTypes, ReachedLeast DEF ExactInv, Walked, TypeOK
  <2>2. DOMAIN exitStates = DOMAIN entryStates /\ \A b \in DOMAIN exitStates : exitStates[b] = Settled(b)
    BY <2>1 DEF ExactInv, Covered, ExitsSettled, InProgress
  <2>3. ASSUME NEW b \in DOMAIN Body
        PROVE  b \in DOMAIN entryStates <=> \E s \in LockStates : <<b, s>> \in Reached(Body)
    <3>1. 1 \in 1..(Len(Code(b)) + 1)
      BY <2>1, BodyFacts DEF Code
    <3>2. b \in DOMAIN entryStates <=> \E s : s \in Paths(Body, b, 1)
      BY <3>1, EndExact
    <3> QED
      BY <2>1, <3>2, PathsSteps
  <2>4. DOMAIN entryStates = {p[1] : p \in Reached(Body)}
    <3>1. ASSUME NEW b \in DOMAIN entryStates PROVE \E p \in Reached(Body) : b = p[1]
      <4>1. PICK s \in LockStates : <<b, s>> \in Reached(Body)
        BY <2>1, <2>3
      <4> QED
        BY <4>1
    <3>2. ASSUME NEW p \in Reached(Body) PROVE p[1] \in DOMAIN entryStates
      <4>1. p[1] \in DOMAIN Body /\ p[2] \in LockStates /\ p = <<p[1], p[2]>>
        BY <2>1 DEF Pairs
      <4> QED
        BY <2>3, <4>1
    <3> QED
      BY <3>1, <3>2
  <2> QED
    BY <2>2, <2>4, EndMeets
<1> QED
  BY <1>1, ExactInvariant, PTL

-----------------------------------------------------------------------------
(* Executions of the function that was walked. *)

\* An execution came to its block in a state that the settled state of the block allows for.
Running ==
    /\ x = [on |-> TRUE, block |-> x.block, ip |-> x.ip, ls |-> x.ls]
    /\ Walked /\ x.block \in DOMAIN Body /\ x.ip \in 1..(Len(Code(x.block)) + 1)
    /\ \E e \in LockStates : Arrives(x.block, e) /\ x.ls = Before(Body, x.block, x.ip, e)

ExecutionOK == x = Idle \/ Running

\* An execution at the start of block t.
LEMMA AtBlock ==
    ASSUME NEW y, NEW z, NEW b, NEW n, NEW s, NEW t,
           y = [on |-> TRUE, block |-> b, ip |-> n, ls |-> s], z = [y EXCEPT !.block = t, !.ip = 1]
    PROVE  z = [on |-> TRUE, block |-> t, ip |-> 1, ls |-> s]
OBVIOUS

LEMMA ExecutionStep == ExactInv /\ ExecutionOK /\ [SNext]_svars => ExecutionOK'
<1> SUFFICES ASSUME ExactInv, ExecutionOK, [SNext]_svars PROVE ExecutionOK'
  OBVIOUS
<1>1. CASE StartFunction
  BY <1>1 DEF StartFunction, ExecutionOK, Idle
<1>2. CASE StepInstruction \/ StepBlock
  <2>1. stack # <<>> /\ x' = x
    BY <1>2 DEF StepInstruction, StepBlock, ProcessInstruction, WalkBlock, Lock, Unlock, DeferUnlock, DeferLock,
            Return, Access, Call, Skip, At, VisitBlock, RevisitEqual, RevisitMerge, HasNextSucc, ExitBlock, LeaveBlock
  <2>2. x = Idle
    BY <2>1 DEF ExecutionOK, Running, Walked
  <2> QED
    BY <2>1, <2>2 DEF ExecutionOK, Idle
<1>3. ASSUME UNCHANGED vars
      PROVE  /\ prog' = prog /\ fn' = fn /\ stack' = stack /\ entryStates' = entryStates /\ Body' = Body
             /\ (\A b : Code(b)' = Code(b)) /\ (Walked' <=> Walked)
             /\ \A c, s : Arrives(c, s)' <=> Arrives(c, s)
  <2>1. prog' = prog /\ fn' = fn /\ stack' = stack /\ entryStates' = entryStates /\ Body' = Body
    BY <1>3, SameGraph DEF vars, walkVars
  <2>2. \A b : Code(b)' = Code(b) /\ Settled(b)' = Settled(b)
    BY <2>1 DEF Code, Settled
  <2> QED
    BY <2>1, <2>2 DEF Walked, Arrives
<1>4. CASE Begin
  <2>1. Walked /\ UNCHANGED vars /\ x = Idle /\ x' = [x EXCEPT !.on = TRUE]
    BY <1>4 DEF Begin, Walked, ExecutionOK, Running
  <2>2. x' = [on |-> TRUE, block |-> 1, ip |-> 1, ls |-> newLockState]
    BY <2>1 DEF Idle
  <2>3. Body \in Bodies /\ Body # <<>> /\ fn > 0 /\ Arrives(1, newLockState)
    BY <2>1, BodyTypes DEF Walked, ExactInv, Covered, EntryWalked
  <2>4. 1 \in DOMAIN Body /\ Before(Body, 1, 1, newLockState) = newLockState /\ 1 \in 1..(Len(Code(1)) + 1)
    BY <2>3, PathsSteps, BeforeSteps, NewState, BodyFacts DEF Code
  <2>5. /\ x'.block = 1 /\ x'.ip = 1 /\ x'.ls = newLockState
        /\ x' = [on |-> TRUE, block |-> x'.block, ip |-> x'.ip, ls |-> x'.ls]
    BY <2>2
  <2>6. Arrives(1, newLockState)' /\ Walked' /\ Body' = Body /\ Code(1)' = Code(1)
    BY <1>3, <2>1, <2>3
  <2>7. Running'
    BY <2>4, <2>5, <2>6, NewState DEF Running
  <2> QED
    BY <2>7 DEF ExecutionOK
<1>5. CASE Execute
  <2>1. x.on /\ x.ip <= Len(Code(x.block)) /\ UNCHANGED vars
        /\ x' = [x EXCEPT !.ls = Effect(Code(x.block)[x.ip], @), !.ip = @ + 1]
    BY <1>5 DEF Execute
  <2>2. Running
    BY <2>1 DEF ExecutionOK, Idle
  <2>3. PICK e \in LockStates : Arrives(x.block, e) /\ x.ls = Before(Body, x.block, x.ip, e)
    BY <2>2 DEF Running
  <2>4. Body \in Bodies /\ x.block \in DOMAIN Body /\ Code(x.block) = Body[x.block].instrs
    BY <2>2, BodyTypes DEF Running, Walked, ExactInv, Code
  <2>5. x.ip \in 1..Len(Code(x.block)) /\ x.ip + 1 \in 1..(Len(Code(x.block)) + 1)
    BY <2>1, <2>2, <2>4, BodyFacts DEF Running
  <2>6. Effect(Code(x.block)[x.ip], x.ls) = Before(Body, x.block, x.ip + 1, e)
    BY <2>3, <2>4, <2>5, BeforeSteps
  <2>7. x' = [on |-> TRUE, block |-> x.block, ip |-> x.ip + 1, ls |-> Effect(Code(x.block)[x.ip], x.ls)]
    BY <2>1, <2>2 DEF Running
  <2>8. Running'
    BY <1>3, <2>1, <2>2, <2>3, <2>5, <2>6, <2>7 DEF Running
  <2> QED
    BY <2>8 DEF ExecutionOK
<1>6. CASE Branch
  <2>1. PICK i \in DOMAIN Succs(x.block) : x' = [x EXCEPT !.block = Succs(x.block)[i], !.ip = 1]
    BY <1>6 DEF Branch
  <2>2. x.on /\ x.ip > Len(Code(x.block)) /\ UNCHANGED vars
    BY <1>6 DEF Branch
  <2>3. Running /\ TypeOK /\ fn > 0 /\ Covered /\ stack = <<>>
    BY <2>2 DEF ExecutionOK, Idle, Running, Walked, ExactInv
  <2>4. PICK e \in LockStates : Arrives(x.block, e) /\ x.ls = Before(Body, x.block, x.ip, e)
    BY <2>3 DEF Running
  <2>5. /\ Body \in Bodies /\ x.block \in DOMAIN Body /\ x.block \in DOMAIN entryStates
        /\ Code(x.block) = Body[x.block].instrs /\ entryStates[x.block] \in LockStates
    BY <2>3, <2>4, BodyTypes DEF Running, Arrives, TypeOK, Code
  <2>6. x.ip = Len(Code(x.block)) + 1
    <3>1. x.ip \in 1..(Len(Code(x.block)) + 1)
      BY <2>3 DEF Running
    <3>2. Len(Code(x.block)) \in Nat
      BY <2>5, BodyFacts
    <3> QED
      BY <2>2, <3>1, <3>2
  <2>7. /\ x.ls = After(Body, x.block, e) /\ x.ls \in LockStates /\ Settled(x.block) \in LockStates
        /\ Below(Settled(x.block), x.ls)
    BY <2>4, <2>5, <2>6, AfterTypes DEF After, Settled, Arrives
  <2>8. PICK t : t = Succs(x.block)[i]
    OBVIOUS
  <2>9. Arrives(t, Settled(x.block))
    <3>1. 1..Len(stack) = {}
      BY <2>3
    <3>2. ~EdgeOpen(x.block, i)
      BY <3>1 DEF EdgeOpen
    <3> QED
      BY <2>3, <2>5, <2>8, <3>2 DEF Covered, EdgesSeen
  <2>10. Arrives(t, x.ls)
    BY <2>3, <2>7, <2>9, ArrivesAbove
  <2>11. t \in DOMAIN Body
    BY <2>3, <2>9 DEF Arrives, TypeOK
  <2>12. x.ls = Before(Body, t, 1, x.ls) /\ 1 \in 1..(Len(Code(t)) + 1)
    BY <2>5, <2>7, <2>11, BeforeSteps, BodyFacts DEF Code
  <2>13. x' = [on |-> TRUE, block |-> t, ip |-> 1, ls |-> x.ls]
    <3>1. x = [on |-> TRUE, block |-> x.block, ip |-> x.ip, ls |-> x.ls]
      BY <2>3 DEF Running
    <3>2. x' = [x EXCEPT !.block = t, !.ip = 1]
      BY <2>1, <2>8
    <3>3. PICK y, z, b, n, s : y = x /\ z = x' /\ b = x.block /\ n = x.ip /\ s = x.ls
      OBVIOUS
    <3>4. y = [on |-> TRUE, block |-> b, ip |-> n, ls |-> s]
      BY <3>1, <3>3
    <3>5. z = [y EXCEPT !.block = t, !.ip = 1]
      BY <3>2, <3>3
    <3>6. z = [on |-> TRUE, block |-> t, ip |-> 1, ls |-> s]
      BY <3>4, <3>5, AtBlock
    <3> QED
      BY <3>3, <3>6
  <2>14. Running'
    BY <1>3, <2>2, <2>3, <2>7, <2>10, <2>11, <2>12, <2>13 DEF Running
  <2> QED
    BY <2>14 DEF ExecutionOK
<1>7. CASE UNCHANGED svars
  <2>1. UNCHANGED vars /\ x' = x
    BY <1>7 DEF svars
  <2> QED
    BY <1>3, <2>1 DEF ExecutionOK, Running, Idle
<1> QED
  BY <1>1, <1>2, <1>4, <1>5, <1>6, <1>7 DEF SNext

\* Soundness of the walk for every function on which it ends: whatever path an execution
\* takes to the end of a block, it holds the locks of the block's exit state and has deferred
\* its unlocks.
THEOREM ExitsAreHeld == SSpec => []ExitHeld
<1>1. SSpec => Spec
  <2>1. SInit => Init
    BY DEF SInit
  <2> QED
    BY <2>1, StepOfWalk, PTL DEF SSpec, Spec
<1>2. SInit => ExecutionOK
  BY DEF SInit, ExecutionOK
<1>3. SSpec => []ExecutionOK
  BY <1>1, <1>2, ExactInvariant, ExecutionStep, PTL DEF SSpec
<1>4. ExactInv /\ ExecutionOK => ExitHeld
  <2> SUFFICES ASSUME ExactInv, ExecutionOK, x.on, x.ip > Len(Code(x.block))
               PROVE  x.block \in DOMAIN exitStates /\ Below(exitStates[x.block], x.ls)
    BY DEF ExitHeld
  <2>1. Running /\ stack = <<>> /\ fn > 0 /\ Covered
    BY DEF ExecutionOK, Idle, Running, Walked, ExactInv
  <2>2. PICK e \in LockStates : Arrives(x.block, e) /\ x.ls = Before(Body, x.block, x.ip, e)
    BY <2>1 DEF Running
  <2>3. Body \in Bodies /\ x.block \in DOMAIN Body /\ Code(x.block) = Body[x.block].instrs
    BY <2>1, BodyTypes DEF Running, ExactInv, Code
  <2>4. x.ip = Len(Code(x.block)) + 1
    BY <2>1, <2>3, BodyFacts DEF Running
  <2>5. x.block \in DOMAIN entryStates /\ Below(Settled(x.block), x.ls)
    BY <2>2, <2>3, <2>4 DEF Arrives, After
  <2> QED
    BY <2>1, <2>5 DEF Covered, ExitsSettled, InProgress
<1> QED
  BY <1>1, <1>3, <1>4, ExactInvariant, PTL

\* The points of the function that is walked.
LEMMA PointOf ==
    ASSUME TypeOK, fn > 0, NEW op, NEW p \in Points(Body, op)
    PROVE  /\ p[1] \in DOMAIN Body /\ p[2] \in 1..Len(Code(p[1])) /\ p[2] \in 1..(Len(Code(p[1])) + 1)
           /\ InstrAt(Body, p) = Code(p[1])[p[2]] /\ InstrAt(Body, p).op = op /\ InstrAt(Body, p) \in Instrs
<1>1. PICK b \in DOMAIN Body : \E i \in DOMAIN Body[b].instrs : p = <<b, i>>
  BY DEF Points
<1>2. PICK i \in DOMAIN Body[b].instrs : p = <<b, i>>
  BY <1>1
<1>3. p[1] = b /\ p[2] = i /\ Code(b) = Body[b].instrs /\ InstrAt(Body, p) = Code(b)[i] /\ InstrAt(Body, p).op = op
  BY <1>2 DEF Code, InstrAt, Points
<1>4. Body \in Bodies
  BY BodyTypes
<1>5. i \in 1..Len(Code(b)) /\ i \in 1..(Len(Code(b)) + 1) /\ Code(b)[i] \in Instrs
  BY <1>3, <1>4, BodyFacts
<1> QED
  BY <1>3, <1>5

\* When the walk has ended, everything in a block that was entered is processed.
LEMMA AllProcessed ==
    ASSUME Walked, NEW b \in DOMAIN entryStates, NEW i \in 1..Len(Code(b))
    PROVE  Processed(b, i)
BY DEF Walked, Processed, InProgress

\* In no function do two returns that paths reach stand at one position: only the return at
\* the end of a function without a return statement has no position of its own.
ReturnPositions == \A p \in Programs : \A f \in DOMAIN p : ReturnsDistinct(p[f])

\* No two functions have a return statement, with paths to it, at one position.  Implicit
\* returns have no position at all and may be as many as functions.
ReturnsApart ==
    \A p \in Programs : \A f, g \in DOMAIN p :
      \A q \in Points(p[f], "return"), t \in Points(p[g], "return") :
        (/\ Paths(p[f], q[1], q[2]) # {} /\ Paths(p[g], t[1], t[2]) # {}
         /\ InstrAt(p[f], q).pos = InstrAt(p[g], t).pos /\ InstrAt(p[f], q).pos # NoPos) => f = g

\* The walked package is one of Programs throughout.
Given == prog \in Programs

LEMMA GivenInvariant == Spec => []Given
<1>1. Init => Given
  BY DEF Init, Given
<1>2. Given /\ [Next]_vars => Given'
  BY DEF Given, Next, ProcessInstruction, WalkBlock, WalkFunction, Lock, Unlock, DeferUnlock, DeferLock,
         Return, Access, Call, Skip, Advance, VisitBlock, RevisitEqual, RevisitMerge, ExitBlock,
         LeaveBlock, vars, walkVars
<1> QED
  BY <1>1, <1>2, PTL DEF Spec

\* The paths to a return of the walked function, and what the walk has there.
LEMMA ReturnMeets ==
    ASSUME ExactInv, Walked, NEW p \in Points(Body, "return")
    PROVE  /\ Paths(Body, p[1], p[2]) # {} <=> p[1] \in DOMAIN entryStates
           /\ p[1] \in DOMAIN entryStates =>
                /\ Processed(p[1], p[2])
                /\ \A r \in LockRefs : HeldAlike(Paths(Body, p[1], p[2]), r) => r \in Keys(Settled(p[1]))
                /\ \A r \in Keys(Settled(p[1])) : \A s \in Paths(Body, p[1], p[2]) : r \in Keys(s)
                /\ SingleMode(Body) =>
                     Keys(Settled(p[1])) = {r \in LockRefs : \A s \in Paths(Body, p[1], p[2]) : r \in Keys(s)}
                /\ Settled(p[1]).deferred = {r \in LockRefs : \A s \in Paths(Body, p[1], p[2]) : r \in s.deferred}
<1>1. TypeOK /\ fn > 0 /\ Body \in Bodies /\ Body # <<>>
  BY BodyTypes DEF ExactInv, Walked
<1>2. /\ p[1] \in DOMAIN Body /\ p[2] \in 1..Len(Code(p[1])) /\ p[2] \in 1..(Len(Code(p[1])) + 1)
      /\ InstrAt(Body, p) = Code(p[1])[p[2]] /\ InstrAt(Body, p).op = "return" /\ Code(p[1]) = Body[p[1]].instrs
  BY <1>1, PointOf DEF Code
<1>3. Paths(Body, p[1], p[2]) # {} <=> p[1] \in DOMAIN entryStates
  BY <1>2, EndExact
<1>4. Paths(Body, p[1], p[2]) = Paths(Body, p[1], Len(Code(p[1])) + 1)
  BY <1>1, <1>2, ReturnLast
<1> QED
  BY <1>2, <1>3, <1>4, EndMeets, AllProcessed

\* C5 (checkReturnWithHeldLocks): if returns have positions of their own, the candidates that
\* all re-walks leave behind are exactly the locks that all paths to a return hold and some
\* path does not unlock by defer.
THEOREM LeaksAreExact == ReturnPositions => (Spec => []LeaksExact)
<1> SUFFICES ASSUME ReturnPositions PROVE Spec => []LeaksExact
  OBVIOUS
<1>1. ExactInv /\ Given => LeaksExact
  <2> DEFINE Leaked(p) == {k \in LockRefs : /\ Paths(Body, p[1], p[2]) # {}
                                            /\ \A s \in Paths(Body, p[1], p[2]) : k \in Keys(s)
                                            /\ \E s \in Paths(Body, p[1], p[2]) : k \notin s.deferred}
             Cand(p, r) == [fn |-> fn, pos |-> InstrAt(Body, p).pos, ref |-> r]
  <2> SUFFICES ASSUME ExactInv, Given, Walked, SingleMode(Body)
               PROVE  {c \in lockLeakCandidates : c.fn = fn}
                        = UNION {{Cand(p, r) : r \in Leaked(p)} : p \in Points(Body, "return")}
    BY DEF LeaksExact, Paths
  <2>1. TypeOK /\ fn > 0 /\ fn \in DOMAIN prog
    BY BodyTypes DEF ExactInv, Walked
  <2>2. ReturnsDistinct(Body)
    BY <2>1 DEF ReturnPositions, Given, Body
  <2>3. ASSUME NEW p \in Points(Body, "return"), p[1] \in DOMAIN entryStates
        PROVE  LeakedAt(Settled(p[1])) = Leaked(p)
    <3>1. /\ Paths(Body, p[1], p[2]) # {}
          /\ Keys(Settled(p[1])) = {r \in LockRefs : \A s \in Paths(Body, p[1], p[2]) : r \in Keys(s)}
          /\ Settled(p[1]).deferred = {r \in LockRefs : \A s \in Paths(Body, p[1], p[2]) : r \in s.deferred}
      BY <2>3, ReturnMeets
    <3> QED
      BY <3>1 DEF LeakedAt
  <2>4. ASSUME NEW c \in lockLeakCandidates, c.fn = fn
        PROVE  \E p \in Points(Body, "return") : \E r \in Leaked(p) : c = Cand(p, r)
    <3>1. IsCandidate(c) /\ \E b, i : LeaksFrom(c, b, i)
      BY <2>4 DEF ExactInv, LeaksPlaced
    <3>2. PICK b, i : LeaksFrom(c, b, i)
      BY <3>1
    <3>3. PICK p : p = <<b, i>>
      OBVIOUS
    <3>4. /\ p[1] = b /\ p[2] = i /\ b \in DOMAIN entryStates /\ i \in 1..Len(Code(b))
          /\ Code(b)[i].op = "return" /\ Code(b)[i].pos = c.pos
      BY <3>2, <3>3 DEF LeaksFrom
    <3>5. b \in DOMAIN Body /\ Code(b) = Body[b].instrs /\ i \in DOMAIN Body[b].instrs
      BY <2>1, <3>4, BodyTypes, BodyFacts DEF TypeOK, Code
    <3>6. InstrAt(Body, p) = Code(b)[i] /\ p \in Points(Body, "return")
      BY <3>3, <3>4, <3>5 DEF InstrAt, Points
    <3>7. c.ref \in LeakedAt(Settled(b))
      BY <3>2, <3>4, AllProcessed DEF LeaksFrom
    <3>8. c.ref \in Leaked(p)
      BY <2>3, <3>4, <3>6, <3>7
    <3>9. c = Cand(p, c.ref)
      BY <2>4, <3>1, <3>4, <3>6 DEF IsCandidate
    <3> QED
      BY <3>6, <3>8, <3>9
  <2>5. ASSUME NEW p \in Points(Body, "return"), NEW r \in Leaked(p)
        PROVE  Cand(p, r) \in lockLeakCandidates
    <3>1. InstrAt(Body, p) = Code(p[1])[p[2]] /\ InstrAt(Body, p).op = "return"
      BY <2>1, PointOf
    <3>2. p[1] \in DOMAIN entryStates /\ Processed(p[1], p[2])
      BY <2>5, ReturnMeets
    <3>3. r \in LeakedAt(Settled(p[1]))
      BY <2>3, <3>2
    <3> QED
      BY <2>1, <2>2, <3>1, <3>2, <3>3 DEF ExactInv, Latest, LeaksNoted
  <2>6. ASSUME NEW p \in Points(Body, "return"), NEW r \in Leaked(p) PROVE Cand(p, r).fn = fn
    OBVIOUS
  <2> HIDE DEF Leaked, Cand
  <2> QED
    BY <2>4, <2>5, <2>6
<1> QED
  BY <1>1, ExactInvariant, GivenInvariant, PTL

-----------------------------------------------------------------------------
(* What is kept of a function after its walk. *)

\* Every candidate is at a return of its function that paths reach, all with the lock held.
HeldAtReturns(f) ==
    \A c \in lockLeakCandidates : c.fn = f =>
      \E p \in Points(prog[f], "return") :
        /\ InstrAt(prog[f], p).pos = c.pos /\ Paths(prog[f], p[1], p[2]) # {}
        /\ \A s \in Paths(prog[f], p[1], p[2]) : c.ref \in Keys(s)

\* Every call that paths reach has a record.
CallsKnown(f) ==
    \A p \in Points(prog[f], "call") : Paths(prog[f], p[1], p[2]) # {} =>
      \E cs \in callSites : /\ cs.caller = f /\ cs.callee = InstrAt(prog[f], p).callee
                            /\ cs.pos = InstrAt(prog[f], p).pos

\* Every lock that all paths to a return statement hold alike, and one of them leaks, is a
\* candidate.  (The candidates of implicit returns are displaced by those of other functions.)
LeaksKnown(f) ==
    \A p \in Points(prog[f], "return") : \A r \in LockRefs :
      (/\ InstrAt(prog[f], p).pos # NoPos /\ HeldAlike(Paths(prog[f], p[1], p[2]), r)
       /\ \E s \in Paths(prog[f], p[1], p[2]) : r \in LeakedAt(s)) =>
        [fn |-> f, pos |-> InstrAt(prog[f], p).pos, ref |-> r] \in lockLeakCandidates

\* The walk of f has ended.
Finished(f) == f \in 1..fn /\ (f = fn => stack = <<>>)

\* The walk has just ended, and these hold of its function.
JustKnown ==
    (fn > 0 /\ stack = <<>>) => /\ HeldAtReturns(fn) /\ CallsKnown(fn)
                                /\ (ReturnPositions => LeaksKnown(fn))

LEMMA EndKnown == ExactInv /\ Given => JustKnown
<1> SUFFICES ASSUME ExactInv, Given, fn > 0, stack = <<>>
             PROVE  HeldAtReturns(fn) /\ CallsKnown(fn) /\ (ReturnPositions => LeaksKnown(fn))
  BY DEF JustKnown
<1>0. Body = prog[fn]
  BY DEF Body
<1>1. /\ TypeOK /\ fn > 0 /\ fn \in DOMAIN prog /\ Body \in Bodies /\ DOMAIN entryStates \subseteq DOMAIN Body
      /\ \A b \in DOMAIN Body : DOMAIN Body[b].instrs = 1..Len(Body[b].instrs)
  BY BodyTypes, BodyFacts DEF ExactInv, TypeOK
<1>2. ASSUME NEW b \in DOMAIN Body PROVE Walked
  BY DEF Walked
<1>3. HeldAtReturns(fn)
  <2> SUFFICES ASSUME NEW c \in lockLeakCandidates, c.fn = fn
               PROVE  \E p \in Points(Body, "return") :
                        /\ InstrAt(Body, p).pos = c.pos /\ Paths(Body, p[1], p[2]) # {}
                        /\ \A s \in Paths(Body, p[1], p[2]) : c.ref \in Keys(s)
    BY <1>0 DEF HeldAtReturns
  <2>1. PICK b, i : LeaksFrom(c, b, i)
    BY DEF ExactInv, LeaksPlaced
  <2>2. PICK p : p = <<b, i>>
    OBVIOUS
  <2>3. /\ p[1] = b /\ p[2] = i /\ b \in DOMAIN entryStates /\ i \in 1..Len(Code(b))
        /\ Code(b)[i].op = "return" /\ Code(b)[i].pos = c.pos
    BY <2>1, <2>2 DEF LeaksFrom
  <2>4. b \in DOMAIN Body /\ Code(b) = Body[b].instrs /\ i \in DOMAIN Body[b].instrs /\ Walked
    BY <1>1, <1>2, <2>3 DEF Code
  <2>5. InstrAt(Body, p) = Code(b)[i] /\ p \in Points(Body, "return")
    BY <2>2, <2>3, <2>4 DEF InstrAt, Points
  <2>6. c.ref \in Keys(Settled(b))
    BY <2>1, <2>3, <2>4, AllProcessed DEF LeaksFrom, LeakedAt
  <2>7. Paths(Body, b, i) # {} /\ \A s \in Paths(Body, b, i) : c.ref \in Keys(s)
    BY <2>3, <2>4, <2>5, <2>6, ReturnMeets
  <2> QED
    BY <2>3, <2>5, <2>7
<1>4. CallsKnown(fn)
  <2> SUFFICES ASSUME NEW p \in Points(Body, "call"), Paths(Body, p[1], p[2]) # {}
               PROVE  \E cs \in callSites : /\ cs.caller = fn /\ cs.callee = InstrAt(Body, p).callee
                                            /\ cs.pos = InstrAt(Body, p).pos
    BY <1>0 DEF CallsKnown
  <2>1. /\ p[1] \in DOMAIN Body /\ p[2] \in 1..Len(Code(p[1])) /\ p[2] \in 1..(Len(Code(p[1])) + 1)
        /\ InstrAt(Body, p) = Code(p[1])[p[2]] /\ InstrAt(Body, p).op = "call"
    BY <1>1, PointOf
  <2>2. Walked /\ p[1] \in DOMAIN entryStates
    BY <1>2, <2>1, EndExact
  <2>3. Processed(p[1], p[2])
    BY <2>1, <2>2, AllProcessed
  <2> QED
    BY <1>1, <2>1, <2>3 DEF ExactInv, Latest, CallsRecorded
<1>5. ASSUME ReturnPositions PROVE LeaksKnown(fn)
  <2> SUFFICES ASSUME NEW p \in Points(Body, "return"), NEW r \in LockRefs, HeldAlike(Paths(Body, p[1], p[2]), r),
                      NEW s \in Paths(Body, p[1], p[2]), r \in LeakedAt(s)
               PROVE  [fn |-> fn, pos |-> InstrAt(Body, p).pos, ref |-> r] \in lockLeakCandidates
    BY <1>0 DEF LeaksKnown
  <2>1. /\ p[1] \in DOMAIN Body /\ p[2] \in 1..Len(Code(p[1])) /\ p[2] \in 1..(Len(Code(p[1])) + 1)
        /\ InstrAt(Body, p) = Code(p[1])[p[2]] /\ InstrAt(Body, p).op = "return"
    BY <1>1, PointOf
  <2>2. Walked
    BY <1>2, <2>1
  <2>3. p[1] \in DOMAIN entryStates /\ Processed(p[1], p[2])
    BY <2>2, ReturnMeets
  <2>4. /\ r \in Keys(Settled(p[1]))
        /\ Settled(p[1]).deferred = {k \in LockRefs : \A t \in Paths(Body, p[1], p[2]) : k \in t.deferred}
    BY <2>2, <2>3, ReturnMeets
  <2>5. r \in LeakedAt(Settled(p[1]))
    BY <2>4 DEF LeakedAt
  <2>6. ReturnsDistinct(Body)
    BY <1>0, <1>1, <1>5 DEF ReturnPositions, Given
  <2> QED
    BY <1>1, <2>1, <2>3, <2>5, <2>6 DEF ExactInv, Latest, LeaksNoted
<1> QED
  BY <1>3, <1>4, <1>5

\* What is known of the functions whose walk has ended stays known.
Known ==
    \A f : Finished(f) => /\ HeldAtReturns(f) /\ CallsKnown(f)
                          /\ ((ReturnPositions /\ ReturnsApart) => LeaksKnown(f))

\* checkReturnWithHeldLocks drops candidates by position, so it drops none of another
\* function's return statements.
LEMMA OthersStay ==
    ASSUME ExactInv, Given, Known, ReturnsApart, [Next]_vars,
           NEW c \in lockLeakCandidates, c.fn # fn, c.pos # NoPos
    PROVE  c \in lockLeakCandidates'
<1>1. CASE Return
  <2>1. /\ At({"return"})
        /\ lockLeakCandidates' = KeptCandidates(Instr.pos)
             \cup {[fn |-> fn, pos |-> Instr.pos, ref |-> r] : r \in LeakedAt(Top.ls)}
    BY <1>1 DEF Return
  <2>2. stack # <<>> /\ Instr.op = "return" /\ TypeOK
    BY <2>1, AtTypes DEF ExactInv
  <2>3. fn > 0 /\ fn \in DOMAIN prog /\ Body = prog[fn]
    BY <2>2, TopTypes, BodyTypes DEF Body
  <2>4. PICK p \in Points(Body, "return") :
          InstrAt(Body, p) = Instr /\ \E s \in Paths(Body, p[1], p[2]) : Within(Top.ls, s)
    BY <2>1, <2>2, <2>3, AtPoint DEF ExactInv
  <2>5. Paths(Body, p[1], p[2]) # {}
    BY <2>4
  <2>6. Finished(c.fn) /\ c.fn \in DOMAIN prog /\ prog \in Programs
    <3>1. c.fn \in 1..fn /\ Finished(c.fn)
      BY DEF ExactInv, LeaksPlaced, Finished
    <3> QED
      BY <2>2, <3>1, LenProperties DEF Given, TypeOK
  <2>7. PICK q \in Points(prog[c.fn], "return") :
          InstrAt(prog[c.fn], q).pos = c.pos /\ Paths(prog[c.fn], q[1], q[2]) # {}
    BY <2>6 DEF Known, HeldAtReturns
  <2>8. c.pos # Instr.pos
    BY <2>3, <2>4, <2>5, <2>6, <2>7 DEF ReturnsApart
  <2> QED
    BY <2>1, <2>8 DEF KeptCandidates
<1>2. CASE ~Return
  <2>1. lockLeakCandidates' = lockLeakCandidates
    BY <1>2 DEF Next, ProcessInstruction, WalkBlock, WalkFunction, Lock, Unlock, DeferUnlock, DeferLock,
                Access, Call, Skip, VisitBlock, RevisitEqual, RevisitMerge, ExitBlock, LeaveBlock,
                passVars, vars
  <2> QED
    BY <2>1
<1> QED
  BY <1>1, <1>2

LEMMA KnownStep ==
    ExactInv /\ Given /\ Known /\ JustKnown' /\ [Next]_vars => Known'
<1> SUFFICES ASSUME ExactInv, Given, Known, JustKnown', [Next]_vars, NEW f, Finished(f)'
             PROVE  /\ HeldAtReturns(f)' /\ CallsKnown(f)'
                    /\ (ReturnPositions /\ ReturnsApart) => LeaksKnown(f)'
  BY DEF Known
<1>1. fn \in Nat /\ TypeOK
  BY LenProperties DEF TypeOK, ExactInv
<1>2. CASE f = fn'
  <2>1. stack' = <<>> /\ fn' \in Nat /\ fn' > 0
    <3>1. fn' = fn \/ fn' = fn + 1
      BY DEF Next, ProcessInstruction, WalkBlock, WalkFunction, Lock, Unlock, DeferUnlock, DeferLock, Return,
             Access, Call, Skip, Advance, VisitBlock, RevisitEqual, RevisitMerge, ExitBlock, LeaveBlock, vars, walkVars
    <3> QED
      BY <1>1, <1>2, <3>1 DEF Finished
  <2> QED
    BY <1>2, <2>1 DEF JustKnown
<1>3. CASE f # fn'
  <2>1. CASE WalkFunction
    <3>1. Starts /\ UNCHANGED passVars
      BY <1>1, <2>1, StartShape
    <3>2. /\ prog' = prog /\ fn' = fn + 1 /\ stack = <<>> /\ callSites' = callSites
          /\ lockLeakCandidates' = lockLeakCandidates
      BY <3>1 DEF Starts, passVars
    <3>3. f \in 1..fn
      BY <1>1, <1>3, <3>2 DEF Finished
    <3>4. Finished(f)
      BY <3>2, <3>3 DEF Finished
    <3>5. HeldAtReturns(f)'
      BY <3>2, <3>4 DEF Known, HeldAtReturns
    <3>6. CallsKnown(f)'
      BY <3>2, <3>4 DEF Known, CallsKnown
    <3>7. ASSUME ReturnPositions, ReturnsApart PROVE LeaksKnown(f)'
      <4>1. LeaksKnown(f)
        BY <3>4, <3>7 DEF Known
      <4> QED
        BY <3>2, <4>1 DEF LeaksKnown
    <3> QED
      BY <3>5, <3>6, <3>7
  <2>2. CASE ~WalkFunction
    <3>1. prog' = prog /\ fn' = fn /\ callSites \subseteq callSites'
      BY <2>2 DEF Next, ProcessInstruction, WalkBlock, Lock, Unlock, DeferUnlock, DeferLock, Return,
             Access, Call, Skip, Advance, VisitBlock, RevisitEqual, RevisitMerge, ExitBlock, LeaveBlock, vars, walkVars,
             passVars, recordCallSite
    <3>2. Finished(f) /\ f # fn
      BY <1>3, <3>1 DEF Finished
    <3>3. \A c \in lockLeakCandidates' : c.fn = f => c \in lockLeakCandidates
      <4>1. CASE Return
        BY <3>2, <4>1 DEF Return, KeptCandidates
      <4>2. CASE ~Return
        BY <2>2, <4>2 DEF Next, ProcessInstruction, WalkBlock, Lock, Unlock, DeferUnlock, DeferLock,
             Access, Call, Skip, VisitBlock, RevisitEqual, RevisitMerge, ExitBlock, LeaveBlock, vars,
             passVars
      <4> QED
        BY <4>1, <4>2
    <3>4. ReturnsApart => \A c \in lockLeakCandidates : (c.fn = f /\ c.pos # NoPos) => c \in lockLeakCandidates'
      BY <3>2, OthersStay
    <3>5. HeldAtReturns(f)'
      BY <3>1, <3>2, <3>3 DEF Known, HeldAtReturns
    <3>6. CallsKnown(f)'
      BY <3>1, <3>2 DEF Known, CallsKnown
    <3>7. ASSUME ReturnPositions, ReturnsApart PROVE LeaksKnown(f)'
      <4>1. LeaksKnown(f)
        BY <3>2, <3>7 DEF Known
      <4> QED
        BY <3>1, <3>4, <3>7, <4>1 DEF LeaksKnown
    <3> QED
      BY <3>5, <3>6, <3>7
  <2> QED
    BY <2>1, <2>2
<1> QED
  BY <1>2, <1>3

LEMMA KnownInvariant == Spec => []Known
<1>1. Init => Known
  <2>1. ASSUME Init, NEW f, Finished(f) PROVE FALSE
    <3>1. fn = 0
      BY <2>1 DEF Init
    <3> QED
      BY <2>1, <3>1 DEF Finished
  <2> QED
    BY <2>1 DEF Known
<1> QED
  BY <1>1, KnownStep, EndKnown, ExactInvariant, GivenInvariant, TypeCorrect, PTL DEF Spec

-----------------------------------------------------------------------------
(* The phases after the walk. *)

\* releases has only keys that the function unlocks.
ReleasesReal == \A f \in FuncIds : \A k \in releases[f] : Unlocks(f, k)

LEMMA ReleasesStep == TypeOK /\ ReleasesReal /\ [Next]_vars => ReleasesReal'
<1> SUFFICES ASSUME TypeOK, ReleasesReal, [Next]_vars PROVE ReleasesReal'
  OBVIOUS
<1>1. prog' = prog
  BY DEF Next, ProcessInstruction, WalkBlock, WalkFunction, Lock, Unlock, DeferUnlock, DeferLock, Return,
         Access, Call, Skip, Advance, VisitBlock, RevisitEqual, RevisitMerge, ExitBlock, LeaveBlock, vars, walkVars
<1>2. \A f, k : Unlocks(f, k)' <=> Unlocks(f, k)
  BY <1>1 DEF Unlocks
<1>3. CASE Unlock \/ DeferUnlock
  <2>1. PICK ops : At(ops) /\ ops \subseteq {"unlock", "deferUnlock"}
    BY <1>3 DEF Unlock, DeferUnlock
  <2>2. releases' = [releases EXCEPT ![fn] = @ \cup KeySet(Instr.ref)]
    BY <1>3 DEF Unlock, DeferUnlock
  <2>3. /\ stack # <<>> /\ fn \in FuncIds /\ Instr.op \in {"unlock", "deferUnlock"}
        /\ Top.ip \in 1..Len(Code(Top.block))
    BY <2>1, AtTypes
  <2>4. ASSUME NEW k \in KeySet(Instr.ref) PROVE Unlocks(fn, k)
    <3>1. Top.block \in DOMAIN prog[fn] /\ Body \in Bodies /\ Body = prog[fn]
      BY <2>3, WalkTypes DEF Body
    <3>2. Instr = prog[fn][Top.block].instrs[Top.ip] /\ Code(Top.block) = prog[fn][Top.block].instrs
      BY DEF Instr, Code, Body
    <3>3. Top.ip \in DOMAIN prog[fn][Top.block].instrs
      BY <2>3, <3>1, <3>2, BodyFacts
    <3>4. KeyOf[Instr.ref] = k
      BY DEF KeySet
    <3> QED
      BY <2>3, <3>1, <3>2, <3>3, <3>4 DEF Unlocks
  <2>5. \A f \in FuncIds : releases'[f] = IF f = fn THEN releases[f] \cup KeySet(Instr.ref) ELSE releases[f]
    BY <2>2, <2>3 DEF TypeOK
  <2> QED
    BY <1>2, <2>4, <2>5 DEF ReleasesReal
<1>4. CASE ~(Unlock \/ DeferUnlock)
  <2>1. releases' = releases
    BY <1>4 DEF Next, ProcessInstruction, WalkBlock, WalkFunction, Lock, DeferLock, Return,
         Access, Call, Skip, VisitBlock, RevisitEqual, RevisitMerge, ExitBlock, LeaveBlock, vars, passVars
  <2> QED
    BY <1>2, <2>1 DEF ReleasesReal
<1> QED
  BY <1>3, <1>4

LEMMA ReleasesInvariant == Spec => []ReleasesReal
<1>1. Init => ReleasesReal
  BY DEF Init, ReleasesReal
<1> QED
  BY <1>1, ReleasesStep, TypeCorrect, PTL DEF Spec

\* What each phase has computed, once it is over.
HoldingComputed == \A f \in DOMAIN prog : returnsHolding[f] = {k \in MutexKeys : EveryReturnHolds(f, k)}

HelpersTold ==
    /\ \A f \in FuncIds : \A k \in returnsHolding[f] : Told("acquireHelper", f, FuncPos[f], k)
    /\ \A cs \in callSites : \A k \in OwedBy(cs) : Told("missingUnlock", cs.caller, cs.pos, k)

LeaksTold ==
    \A c \in lockLeakCandidates :
      LeakExcused(c) \/ KeyOf[c.ref] = NoKey \/ Told("lockLeak", c.fn, c.pos, KeyOf[c.ref])

\* The candidate that a C4 report was made from.
MadeFrom(d, c) ==
    /\ c.fn = d.fn /\ c.pos = d.pos /\ KeyOf[c.ref] = d.mutex /\ d.mutex # NoKey
    /\ ~calleeReturnsHolding(d.fn, d.mutex)

PhaseOK ==
    /\ phase # "walk" => Done
    /\ phase \notin {"walk", "holding"} => HoldingComputed
    /\ phase \in {"leaks", "unlocks", "reported"} => HelpersTold
    /\ phase \in {"unlocks", "reported"} => LeaksTold
    /\ \A d \in reports : d.kind = "unlockOfUnlocked" =>
         phase = "reported" /\ \E c \in unlockOfUnlockedCandidates : MadeFrom(d, c)

LEMMA DoneStops ==
    ASSUME TypeOK, Done, Next PROVE FALSE
<1>1. stack = <<>> /\ fn = Len(prog) /\ Len(prog) \in Nat
  BY LenProperties DEF Done, TypeOK
<1> QED
  BY <1>1 DEF Next, ProcessInstruction, WalkBlock, WalkFunction, Lock, Unlock, DeferUnlock, DeferLock, Return,
         Access, Call, Skip, At, VisitBlock, RevisitEqual, RevisitMerge, HasNextSucc, ExitBlock, LeaveBlock

\* What the last phases read stays as it is.
LEMMA FixedFacts ==
    ASSUME UNCHANGED <<vars, requires, returnsHolding>>, reports \subseteq reports'
    PROVE  /\ Done => Done'
           /\ HoldingComputed => HoldingComputed'
           /\ HelpersTold => HelpersTold'
           /\ LeaksTold => LeaksTold'
           /\ \A d, c : MadeFrom(d, c) => MadeFrom(d, c)'
<1>1. /\ prog' = prog /\ fn' = fn /\ stack' = stack /\ lockLeakCandidates' = lockLeakCandidates
      /\ deferredLockTypoReported' = deferredLockTypoReported /\ callSites' = callSites /\ releases' = releases
      /\ requires' = requires /\ returnsHolding' = returnsHolding
  BY DEF vars, walkVars, passVars
<1>2. \A kind, f, pos, k : Told(kind, f, pos, k) => Told(kind, f, pos, k)'
  BY DEF Told
<1>3. \A f, k : EveryReturnHolds(f, k)' <=> EveryReturnHolds(f, k)
  BY <1>1 DEF EveryReturnHolds, CandidatePositions, ReturnPoints
<1>4. \A cs : OwedBy(cs)' = OwedBy(cs)
  BY <1>1 DEF OwedBy
<1>5. \A c : LeakExcused(c) => LeakExcused(c)'
  BY <1>1 DEF LeakExcused, functionRequiresMutex
<1>6. Done => Done'
  BY <1>1 DEF Done
<1>7. HoldingComputed => HoldingComputed'
  BY <1>1, <1>3 DEF HoldingComputed
<1>8. HelpersTold => HelpersTold'
  BY <1>1, <1>2, <1>4 DEF HelpersTold
<1>9. LeaksTold => LeaksTold'
  BY <1>1, <1>2, <1>5 DEF LeaksTold
<1>10. \A d, c : MadeFrom(d, c) => MadeFrom(d, c)'
  BY <1>1 DEF MadeFrom, calleeReturnsHolding
<1> QED
  BY <1>6, <1>7, <1>8, <1>9, <1>10

LEMMA PhaseStep == TypeOK /\ PhaseOK /\ [LNext]_lvars => PhaseOK'
<1> SUFFICES ASSUME TypeOK, PhaseOK, [LNext]_lvars PROVE PhaseOK'
  OBVIOUS
<1> DEFINE C4(d) == d.kind = "unlockOfUnlocked"
<1>1. CASE Walk
  <2>1. phase = "walk" /\ phase' = phase /\ reports' = reports
    BY <1>1, DoneStops DEF Walk, PhaseOK, leakVars
  <2> QED
    BY <2>1 DEF PhaseOK
<1>2. CASE Summarise
  <2>1. /\ phase = "walk" /\ phase' = "holding" /\ Done /\ reports' = reports
        /\ prog' = prog /\ fn' = fn /\ stack' = stack
    BY <1>2 DEF Summarise, vars, walkVars
  <2> QED
    BY <2>1 DEF PhaseOK, Done
<1>3. CASE ComputeReturnsHolding
  <2>1. /\ phase = "holding" /\ phase' = "helpers" /\ Done /\ reports' = reports
        /\ prog' = prog /\ fn' = fn /\ stack' = stack /\ lockLeakCandidates' = lockLeakCandidates
        /\ \A f \in FuncIds : f \in DOMAIN prog => returnsHolding'[f] = {k \in MutexKeys : EveryReturnHolds(f, k)}
    BY <1>3 DEF ComputeReturnsHolding, PhaseOK, vars, walkVars, passVars
  <2>2. \A f, k : EveryReturnHolds(f, k)' <=> EveryReturnHolds(f, k)
    BY <2>1 DEF EveryReturnHolds, CandidatePositions, ReturnPoints
  <2>3. HoldingComputed'
    BY <2>1, <2>2 DEF HoldingComputed, TypeOK
  <2> QED
    BY <2>1, <2>3 DEF PhaseOK, Done
<1>4. CASE CheckCallersOfAcquireHelpers
  <2>1. /\ phase = "helpers" /\ phase' = "leaks" /\ UNCHANGED <<vars, requires, returnsHolding>>
        /\ reports' = reports
             \cup (UNION {Report("acquireHelper", h.f, FuncPos[h.f], h.k) : h \in HelperReports})
             \cup (UNION {UNION {Report("missingUnlock", cs.caller, cs.pos, k) : k \in OwedBy(cs)} : cs \in callSites})
    BY <1>4 DEF CheckCallersOfAcquireHelpers
  <2>0. \A d : d \in reports' <=>
          \/ d \in reports
          \/ \E h \in HelperReports : d \in Report("acquireHelper", h.f, FuncPos[h.f], h.k)
          \/ \E cs \in callSites : \E k \in OwedBy(cs) : d \in Report("missingUnlock", cs.caller, cs.pos, k)
    <3> DEFINE Missing(cs) == UNION {Report("missingUnlock", cs.caller, cs.pos, k) : k \in OwedBy(cs)}
               A == UNION {Report("acquireHelper", h.f, FuncPos[h.f], h.k) : h \in HelperReports}
               B == UNION {Missing(cs) : cs \in callSites}
    <3>1. reports' = reports \cup A \cup B
      BY <2>1
    <3>2. \A cs, d : d \in Missing(cs) <=> \E k \in OwedBy(cs) : d \in Report("missingUnlock", cs.caller, cs.pos, k)
      BY Zenon
    <3>3. \A d : d \in A <=> \E h \in HelperReports : d \in Report("acquireHelper", h.f, FuncPos[h.f], h.k)
      BY Zenon
    <3> HIDE DEF Missing
    <3>4. \A d : d \in B <=> \E cs \in callSites : d \in Missing(cs)
      BY Zenon
    <3> HIDE DEF A, B
    <3> QED
      BY <3>1, <3>2, <3>3, <3>4
  <2>2. callSites' = callSites /\ releases' = releases /\ returnsHolding' = returnsHolding
    BY <2>1 DEF vars, passVars
  <2>3. Done' /\ HoldingComputed'
    BY <2>1, FixedFacts DEF PhaseOK
  <2>4. ASSUME NEW f \in FuncIds, NEW k \in returnsHolding[f] PROVE Told("acquireHelper", f, FuncPos[f], k)'
    <3>1. PICK h : h = [f |-> f, k |-> k]
      OBVIOUS
    <3>2. h \in HelperReports /\ h.f = f /\ h.k = k
      BY <3>1 DEF HelperReports
    <3>3. Report("acquireHelper", f, FuncPos[f], k) \subseteq reports'
      BY <2>0, <3>2
    <3> QED
      BY <3>3 DEF Told, Report, isSuppressed
  <2>5. ASSUME NEW cs \in callSites, NEW k \in OwedBy(cs) PROVE Told("missingUnlock", cs.caller, cs.pos, k)'
    <3>1. Report("missingUnlock", cs.caller, cs.pos, k) \subseteq reports'
      BY <2>0
    <3> QED
      BY <3>1 DEF Told, Report, isSuppressed
  <2>6. HelpersTold'
    <3>1. \A cs : OwedBy(cs)' = OwedBy(cs)
      BY <2>2 DEF OwedBy
    <3> QED
      BY <2>2, <2>4, <2>5, <3>1 DEF HelpersTold
  <2>7. ASSUME NEW d \in reports' PROVE ~C4(d)
    <3>1. CASE d \in reports
      BY <2>1, <3>1 DEF PhaseOK
    <3>2. CASE d \notin reports
      <4>1. \/ \E h \in HelperReports : d \in Report("acquireHelper", h.f, FuncPos[h.f], h.k)
            \/ \E cs \in callSites : \E k \in OwedBy(cs) : d \in Report("missingUnlock", cs.caller, cs.pos, k)
        BY <2>0, <3>2
      <4>2. d.kind \in {"acquireHelper", "missingUnlock"}
        BY <4>1 DEF Report
      <4> QED
        BY <4>2
    <3> QED
      BY <3>1, <3>2
  <2> QED
    BY <2>1, <2>3, <2>6, <2>7 DEF PhaseOK
<1>5. CASE ReportDeferredLockLeaks
  <2>1. /\ phase = "leaks" /\ phase' = "unlocks" /\ UNCHANGED <<vars, requires, returnsHolding>>
        /\ reports' = reports \cup
             UNION {Report("lockLeak", c.fn, c.pos, KeyOf[c.ref]) :
                      c \in {y \in lockLeakCandidates : ~LeakExcused(y) /\ KeyOf[y.ref] # NoKey}}
    BY <1>5 DEF ReportDeferredLockLeaks
  <2>2. Done' /\ HoldingComputed' /\ HelpersTold'
    BY <2>1, FixedFacts DEF PhaseOK
  <2>3. LeaksTold'
    <3>1. /\ lockLeakCandidates' = lockLeakCandidates /\ deferredLockTypoReported' = deferredLockTypoReported
          /\ requires' = requires /\ returnsHolding' = returnsHolding
      BY <2>1 DEF vars, passVars
    <3>2. ASSUME NEW c \in lockLeakCandidates, ~LeakExcused(c), KeyOf[c.ref] # NoKey
          PROVE  Told("lockLeak", c.fn, c.pos, KeyOf[c.ref])'
      <4>1. Report("lockLeak", c.fn, c.pos, KeyOf[c.ref]) \subseteq reports'
        BY <2>1, <3>2
      <4> QED
        BY <4>1 DEF Told, Report, isSuppressed
    <3>3. \A c : LeakExcused(c) => LeakExcused(c)'
      BY <3>1 DEF LeakExcused, functionRequiresMutex
    <3> QED
      BY <3>1, <3>2, <3>3 DEF LeaksTold
  <2>4. ASSUME NEW d \in reports' PROVE ~C4(d)
    <3>1. CASE d \in reports
      BY <2>1, <3>1 DEF PhaseOK
    <3>2. CASE d \notin reports
      BY <2>1, <3>2 DEF Report
    <3> QED
      BY <3>1, <3>2
  <2> QED
    BY <2>1, <2>2, <2>3, <2>4 DEF PhaseOK
<1>6. CASE ReportDeferredUnlockOfUnlocked
  <2>1. /\ phase = "unlocks" /\ phase' = "reported" /\ UNCHANGED <<vars, requires, returnsHolding>>
        /\ reports' = reports \cup
             UNION {Report("unlockOfUnlocked", c.fn, c.pos, KeyOf[c.ref]) :
                      c \in {y \in unlockOfUnlockedCandidates :
                               /\ ~functionRequiresMutex(y.fn, y.ref)
                               /\ KeyOf[y.ref] # NoKey
                               /\ ~calleeReturnsHolding(y.fn, KeyOf[y.ref])}}
    BY <1>6 DEF ReportDeferredUnlockOfUnlocked
  <2>2. Done' /\ HoldingComputed' /\ HelpersTold' /\ LeaksTold'
    BY <2>1, FixedFacts DEF PhaseOK
  <2>3. ASSUME NEW d \in reports', C4(d) PROVE \E c \in unlockOfUnlockedCandidates : MadeFrom(d, c)'
    <3>1. d \notin reports
      BY <2>1, <2>3 DEF PhaseOK
    <3>2. PICK c \in unlockOfUnlockedCandidates :
            /\ KeyOf[c.ref] # NoKey /\ ~calleeReturnsHolding(c.fn, KeyOf[c.ref])
            /\ d \in Report("unlockOfUnlocked", c.fn, c.pos, KeyOf[c.ref])
      BY <2>1, <3>1
    <3>3. c.fn = d.fn /\ c.pos = d.pos /\ KeyOf[c.ref] = d.mutex
      BY <3>2 DEF Report
    <3>4. MadeFrom(d, c)
      BY <3>2, <3>3 DEF MadeFrom
    <3> QED
      BY <2>1, <3>4, FixedFacts
  <2>4. unlockOfUnlockedCandidates' = unlockOfUnlockedCandidates
    BY <2>1 DEF vars, passVars
  <2> QED
    BY <2>1, <2>2, <2>3, <2>4 DEF PhaseOK
<1>7. CASE UNCHANGED lvars
  <2>1. UNCHANGED <<vars, requires, returnsHolding>> /\ reports' = reports /\ phase' = phase
    BY <1>7 DEF lvars, leakVars
  <2>2. unlockOfUnlockedCandidates' = unlockOfUnlockedCandidates
    BY <2>1 DEF vars, passVars
  <2> QED
    BY <2>1, <2>2, FixedFacts DEF PhaseOK
<1> QED
  BY <1>1, <1>2, <1>3, <1>4, <1>5, <1>6, <1>7 DEF LNext

\* The phases come after the walk and leave its results alone.
LEMMA WalkFirst == LSpec => Spec
<1>1. LInit => Init
  BY DEF LInit
<1>2. [LNext]_lvars => [Next]_vars
  BY DEF LNext, lvars, Walk, Summarise, ComputeReturnsHolding, CheckCallersOfAcquireHelpers,
         ReportDeferredLockLeaks, ReportDeferredUnlockOfUnlocked
<1> QED
  BY <1>1, <1>2, PTL DEF LSpec, Spec

ReportInv == ExactInv /\ Given /\ Known /\ ReleasesReal /\ PhaseOK

LEMMA ReportInvariant == LSpec => []ReportInv
<1>1. LInit => PhaseOK
  BY DEF LInit, PhaseOK
<1>2. LSpec => []PhaseOK
  BY <1>1, PhaseStep, WalkFirst, TypeCorrect, PTL DEF LSpec
<1>3. ExactInv /\ Given /\ Known /\ ReleasesReal /\ PhaseOK => ReportInv
  BY DEF ReportInv
<1> QED
  BY <1>2, <1>3, WalkFirst, ExactInvariant, GivenInvariant, KnownInvariant, ReleasesInvariant, PTL

LEMMA AllFinished ==
    ASSUME ReportInv, Done, NEW f \in DOMAIN prog
    PROVE  /\ prog \in Programs /\ prog[f] \in Bodies /\ f \in FuncIds
           /\ HeldAtReturns(f) /\ CallsKnown(f)
           /\ (ReturnPositions /\ ReturnsApart) => LeaksKnown(f)
<1>1. prog \in Programs /\ prog \in Seq(Bodies) /\ f \in FuncIds
  BY WalkAssumption DEF ReportInv, Given
<1>2. f \in 1..Len(prog) /\ prog[f] \in Bodies
  BY <1>1, ElementOfSeq, LenProperties
<1>3. Finished(f)
  BY <1>2 DEF Done, Finished
<1> QED
  BY <1>1, <1>2, <1>3 DEF ReportInv, Known

LEMMA ReturnPointsAre ==
    ASSUME NEW f PROVE ReturnPoints(f) = Points(prog[f], "return")
<1> DEFINE body == prog[f]
           Row(b) == {<<b, i>> : i \in {j \in DOMAIN body[b].instrs : body[b].instrs[j].op = "return"}}
           All == UNION {{<<b, i>> : i \in DOMAIN body[b].instrs} : b \in DOMAIN body}
<1>1. \A p : p \in ReturnPoints(f) <=> \E b \in DOMAIN body : p \in Row(b)
  BY Zenon DEF ReturnPoints
<1>2. \A p : p \in All <=> \E b \in DOMAIN body : \E i \in DOMAIN body[b].instrs : p = <<b, i>>
  OBVIOUS
<1>3. \A b, i : InstrAt(body, <<b, i>>) = body[b].instrs[i]
  BY DEF InstrAt
<1>4. \A p : p \in Points(body, "return") <=> (p \in All /\ InstrAt(body, p).op = "return")
  BY Zenon DEF Points
<1>5. \A b, p : p \in Row(b) <=> \E i \in DOMAIN body[b].instrs : p = <<b, i>> /\ body[b].instrs[i].op = "return"
  OBVIOUS
<1> HIDE DEF All, Row
<1>6. \A p : p \in ReturnPoints(f) <=> p \in Points(body, "return")
  BY <1>1, <1>2, <1>3, <1>4, <1>5
<1> HIDE DEF body
<1>7. ReturnPoints(f) = Points(body, "return")
  BY <1>6, Zenon
<1> QED
  BY <1>7 DEF body

\* A body has finitely many points of any kind.
LEMMA PointsFinite ==
    ASSUME NEW body \in Bodies, NEW op
    PROVE  IsFiniteSet(Points(body, op))
<1> DEFINE Row == [b \in DOMAIN body |-> {b} \X (DOMAIN body[b].instrs)]
           Rows == {Row[b] : b \in DOMAIN body}
<1>1. IsFiniteSet(DOMAIN body)
  BY BodyFacts, FS_Interval
<1>2. IsFiniteSet(Rows)
  <2>1. Row \in Surjection(DOMAIN body, Rows)
    BY DEF Surjection
  <2> QED
    BY <1>1, <2>1, FS_Surjection
<1>3. \A S \in Rows : IsFiniteSet(S)
  <2> SUFFICES ASSUME NEW b \in DOMAIN body PROVE IsFiniteSet({b} \X (DOMAIN body[b].instrs))
    OBVIOUS
  <2>1. IsFiniteSet({b})
    BY FS_Singleton
  <2>2. DOMAIN body[b].instrs = 1..Len(body[b].instrs) /\ Len(body[b].instrs) \in Int
    BY BodyFacts
  <2>3. IsFiniteSet(DOMAIN body[b].instrs)
    BY <2>2, FS_Interval
  <2> QED
    BY <2>1, <2>3, FS_Product
<1>4. IsFiniteSet(UNION Rows)
  BY <1>2, <1>3, FS_UNION
<1>5. Points(body, op) \subseteq UNION Rows
  <2> SUFFICES ASSUME NEW b \in DOMAIN body, NEW i \in DOMAIN body[b].instrs PROVE <<b, i>> \in UNION Rows
    BY DEF Points
  <2>1. <<b, i>> \in Row[b] /\ Row[b] \in Rows
    OBVIOUS
  <2> QED
    BY <2>1
<1> QED
  BY <1>4, <1>5, FS_Subset

-----------------------------------------------------------------------------
(* Acquire helpers: the counts of computeReturnsHolding. *)

\* The path to p exists, and all paths there hold one lock of key k.
HoldsKey(body, p, k) ==
    /\ Paths(body, p[1], p[2]) # {}
    /\ \E r \in LockRefs : KeyOf[r] = k /\ \A s \in Paths(body, p[1], p[2]) : r \in Keys(s)

\* As many positions with a candidate as returns: then every return has a candidate.
LEMMA EveryReturnIsHeld ==
    ASSUME ReportInv, Done, NEW f \in DOMAIN prog, NEW k, EveryReturnHolds(f, k),
           NEW p \in Points(prog[f], "return")
    PROVE  HoldsKey(prog[f], p, k)
<1> DEFINE body == prog[f]
           RP == Points(body, "return")
           CP == CandidatePositions(f, k)
           Good(q, pos) == InstrAt(body, q).pos = pos /\ HoldsKey(body, q, k)
           g == [pos \in CP |-> CHOOSE q \in RP : Good(q, pos)]
<1>1. body \in Bodies /\ HeldAtReturns(f) /\ IsFiniteSet(RP) /\ Cardinality(CP) = Cardinality(RP)
  BY AllFinished, ReturnPointsAre, PointsFinite DEF EveryReturnHolds
<1>2. ASSUME NEW pos \in CP PROVE \E q \in RP : Good(q, pos)
  <2>1. PICK c \in lockLeakCandidates : c.fn = f /\ KeyOf[c.ref] = k /\ c.pos = pos
    BY DEF CandidatePositions
  <2>2. c.ref \in LockRefs
    BY <2>1 DEF ReportInv, ExactInv, LeaksPlaced, IsCandidate
  <2> QED
    BY <1>1, <2>1, <2>2 DEF HeldAtReturns, HoldsKey
<1> HIDE DEF body, RP, CP, Good
<1>3. \A pos \in CP : g[pos] \in RP /\ Good(g[pos], pos)
  BY <1>2
<1>4. \A x1, x2 \in CP : g[x1] = g[x2] => x1 = x2
  BY <1>3 DEF Good
<1>5. g \in Injection(CP, RP)
  BY <1>3, <1>4 DEF Injection, IsInjective
<1>6. g \in Surjection(CP, RP)
  BY <1>1, <1>5, FS_Injection
<1>7. p \in RP
  BY DEF RP, body
<1>8. PICK pos \in CP : g[pos] = p
  BY <1>6, <1>7 DEF Surjection
<1>9. Good(p, pos)
  BY <1>3, <1>8
<1> QED
  BY <1>9 DEF Good, body

\* Without a deferred unlock no path has one pending.
LEMMA DefersAlong ==
    ASSUME NEW body \in Bodies, NEW b \in DOMAIN body, NEW s \in LockStates, s.deferred = {},
           Points(body, "deferUnlock") = {}
    PROVE  \A i \in 1..(Len(body[b].instrs) + 1) : Before(body, b, i, s).deferred = {}
<1> DEFINE m == Len(body[b].instrs)
           Good(i) == Before(body, b, i, s).deferred = {}
           Bad == {i \in 1..(m + 1) : ~Good(i)}
<1>1. m \in Nat /\ \A i \in 1..m : body[b].instrs[i] \in Instrs
  BY BodyFacts
<1>2. Good(1)
  BY BeforeSteps
<1>3. ASSUME NEW i \in 1..m, Good(i) PROVE Good(i + 1)
  <2>0. PICK ins : ins = body[b].instrs[i]
    OBVIOUS
  <2>00. PICK old : old = Before(body, b, i, s)
    OBVIOUS
  <2>1. /\ ins \in Instrs /\ i \in 1..(m + 1) /\ i \in DOMAIN body[b].instrs
        /\ Before(body, b, i + 1, s) = Effect(ins, old)
    BY <1>1, <2>0, <2>00, BeforeSteps, BodyFacts
  <2>2. old \in LockStates /\ old.deferred = {}
    BY <1>3, <2>1, <2>00, BeforeSteps
  <2>3. PICK p : p = <<b, i>>
    OBVIOUS
  <2>4. InstrAt(body, p) = ins
    BY <2>0, <2>3 DEF InstrAt
  <2>5. ins.op # "deferUnlock"
    <3> SUFFICES ASSUME ins.op = "deferUnlock" PROVE p \in Points(body, "deferUnlock")
      OBVIOUS
    <3> QED
      BY <2>1, <2>3, <2>4 DEF Points
  <2>6. Effect(ins, old).deferred = {}
    BY <2>1, <2>2, <2>5 DEF Effect, LockStates
  <2> QED
    BY <2>1, <2>6
<1> HIDE DEF Good
<1>4. Bad = {}
  <2> SUFFICES ASSUME Bad # {} PROVE FALSE
    OBVIOUS
  <2>1. Bad \in SUBSET Nat
    BY <1>1
  <2>2. PICK i \in Bad : \A j \in Bad : i <= j
    BY <2>1, LeastNatural
  <2>3. i - 1 \in 1..m /\ i - 1 \in 1..(m + 1) /\ ~(i <= i - 1) /\ (i - 1) + 1 = i
    BY <1>1, <1>2
  <2>4. Good(i - 1)
    BY <2>2, <2>3
  <2> QED
    BY <1>3, <2>3, <2>4
<1> QED
  BY <1>4 DEF Good

LEMMA NothingDeferred ==
    ASSUME NEW body \in Bodies, body # <<>>, NEW b \in DOMAIN body, NEW i \in 1..(Len(body[b].instrs) + 1),
           NEW s \in Paths(body, b, i), Points(body, "deferUnlock") = {}
    PROVE  s.deferred = {}
<1> DEFINE S == {p \in Pairs(body) : p[2].deferred = {}}
<1>1. \A c \in DOMAIN body, t \in LockStates : <<c, t>> \in S <=> t.deferred = {}
  BY DEF Pairs
<1>2. S \in SUBSET Pairs(body)
  OBVIOUS
<1> HIDE DEF S
<1>3. <<1, newLockState>> \in S
  <2>1. 1 \in DOMAIN body
    BY PathsSteps
  <2>2. newLockState.deferred = {}
    BY DEF newLockState
  <2> QED
    BY <1>1, <2>1, <2>2, NewState
<1>4. Closed(body, S)
  <2> SUFFICES ASSUME NEW c \in DOMAIN body, NEW t \in LockStates, <<c, t>> \in S, NEW k \in DOMAIN body[c].succs
               PROVE  <<body[c].succs[k], After(body, c, t)>> \in S
    BY DEF Closed
  <2>1. t.deferred = {}
    BY <1>1
  <2>2. Len(body[c].instrs) + 1 \in 1..(Len(body[c].instrs) + 1)
    BY BodyFacts
  <2>3. After(body, c, t).deferred = {}
    BY <2>1, <2>2, DefersAlong DEF After
  <2>4. After(body, c, t) \in LockStates /\ body[c].succs[k] \in DOMAIN body
    BY AfterTypes, BodyFacts
  <2> QED
    BY <1>1, <2>3, <2>4
<1>5. Reached(body) \subseteq S
  BY <1>2, <1>3, <1>4, ReachedLeast
<1>6. PICK t \in LockStates : <<b, t>> \in Reached(body) /\ s = Before(body, b, i, t)
  BY PathsElements
<1>7. t.deferred = {}
  BY <1>1, <1>5, <1>6
<1> QED
  BY <1>6, <1>7, DefersAlong

\* No path gets to a block that no block leads to, the entry block aside.
LEMMA NotReached ==
    ASSUME NEW body \in Bodies, body # <<>>, NEW b \in DOMAIN body, b # 1,
           \A c \in DOMAIN body : \A j \in DOMAIN body[c].succs : body[c].succs[j] # b,
           NEW i \in 1..(Len(body[b].instrs) + 1)
    PROVE  Paths(body, b, i) = {}
<1> DEFINE S == {p \in Pairs(body) : p[1] # b}
<1>1. \A c \in DOMAIN body, t \in LockStates : <<c, t>> \in S <=> c # b
  BY DEF Pairs
<1>2. S \in SUBSET Pairs(body)
  OBVIOUS
<1> HIDE DEF S
<1>3. <<1, newLockState>> \in S
  BY <1>1, PathsSteps, NewState
<1>4. Closed(body, S)
  <2> SUFFICES ASSUME NEW c \in DOMAIN body, NEW t \in LockStates, NEW k \in DOMAIN body[c].succs
               PROVE  <<body[c].succs[k], After(body, c, t)>> \in S
    BY DEF Closed
  <2>1. After(body, c, t) \in LockStates /\ body[c].succs[k] \in DOMAIN body
    BY AfterTypes, BodyFacts
  <2> QED
    BY <1>1, <2>1
<1>5. Reached(body) \subseteq S
  BY <1>2, <1>3, <1>4, ReachedLeast
<1> QED
  BY <1>1, <1>5, PathsElements

\* go/ssa gives every function with a deferred call a Recover block, which ends in a return
\* and which no block leads to.
RecoverBlocks ==
    \A p \in Programs : \A f \in DOMAIN p : Points(p[f], "deferUnlock") # {} =>
      \E q \in Points(p[f], "return") :
        q[1] # 1 /\ \A b \in DOMAIN p[f] : \A i \in DOMAIN p[f][b].succs : p[f][b].succs[i] # q[1]

\* The points of any body.
LEMMA PointIn ==
    ASSUME NEW body \in Bodies, NEW op, NEW p \in Points(body, op)
    PROVE  /\ body # <<>> /\ p[1] \in DOMAIN body /\ p[2] \in 1..Len(body[p[1]].instrs)
           /\ p[2] \in 1..(Len(body[p[1]].instrs) + 1) /\ InstrAt(body, p).op = op
           /\ InstrAt(body, p) = body[p[1]].instrs[p[2]]
<1>1. PICK b \in DOMAIN body : \E i \in DOMAIN body[b].instrs : p = <<b, i>>
  BY DEF Points
<1>2. PICK i \in DOMAIN body[b].instrs : p = <<b, i>>
  BY <1>1
<1>3. p[1] = b /\ p[2] = i /\ InstrAt(body, p) = body[b].instrs[i] /\ InstrAt(body, p).op = op
  BY <1>2 DEF InstrAt, Points
<1>4. i \in 1..Len(body[b].instrs) /\ i \in 1..(Len(body[b].instrs) + 1)
  BY BodyFacts
<1> QED
  BY <1>3, <1>4

\* C13 (computeReturnsHolding): for every package with Recover blocks as go/ssa makes them, a
\* function taken for an acquire helper leaves a lock of the key held on each path to a return.
\* The counts agree only if every return is reached and has a candidate; a function with a
\* deferred unlock has a return that is not, so no helper can release the lock by defer.
THEOREM HelpersAreReal == RecoverBlocks => (LSpec => []HelpersReal)
<1> SUFFICES ASSUME RecoverBlocks PROVE LSpec => []HelpersReal
  OBVIOUS
<1>1. ReportInv => HelpersReal
  <2> SUFFICES ASSUME ReportInv, phase \notin {"walk", "holding"}, NEW f \in DOMAIN prog,
                      NEW k \in returnsHolding[f], NEW p \in ReturnPoints(f),
                      NEW s \in Paths(prog[f], p[1], p[2])
               PROVE  LeavesHeld(s, k)
    BY DEF HelpersReal, Paths
  <2> DEFINE body == prog[f]
  <2>1. Done /\ HoldingComputed
    BY DEF ReportInv, PhaseOK
  <2>2. EveryReturnHolds(f, k)
    BY <2>1 DEF HoldingComputed
  <2>3. p \in Points(body, "return") /\ body \in Bodies /\ prog \in Programs
    BY <2>1, ReturnPointsAre, AllFinished
  <2>4. /\ body # <<>> /\ p[1] \in DOMAIN body /\ p[2] \in 1..(Len(body[p[1]].instrs) + 1)
    BY <2>3, PointIn
  <2>5. PICK r \in LockRefs : KeyOf[r] = k /\ r \in Keys(s)
    BY <2>1, <2>2, <2>3, EveryReturnIsHeld DEF HoldsKey
  <2>6. Points(body, "deferUnlock") = {}
    <3> SUFFICES ASSUME Points(body, "deferUnlock") # {} PROVE FALSE
      OBVIOUS
    <3>1. PICK q \in Points(body, "return") :
            q[1] # 1 /\ \A b \in DOMAIN body : \A i \in DOMAIN body[b].succs : body[b].succs[i] # q[1]
      BY <2>3 DEF RecoverBlocks
    <3>2. Paths(body, q[1], q[2]) # {}
      BY <2>1, <2>2, EveryReturnIsHeld DEF HoldsKey
    <3>3. q[1] \in DOMAIN body /\ q[2] \in 1..(Len(body[q[1]].instrs) + 1)
      BY <2>3, PointIn
    <3> HIDE DEF body
    <3> QED
      BY <2>3, <2>4, <3>1, <3>2, <3>3, NotReached
  <2>7. s.deferred = {}
    BY <2>3, <2>4, <2>6, NothingDeferred
  <2> QED
    BY <2>5, <2>7 DEF LeavesHeld, LeakedAt
<1> QED
  BY <1>1, ReportInvariant, PTL

\* Who answers for a lock that f returns holding.
LEMMA HandedOnFacts ==
    ASSUME ReportInv, phase = "reported", NEW f \in DOMAIN prog, NEW k \in returnsHolding[f]
    PROVE  HandedOn(f, k)
<1>1. Done /\ HelpersTold /\ ReleasesReal
  BY DEF ReportInv, PhaseOK
<1>2. Told("acquireHelper", f, FuncPos[f], k)
  BY <1>1, AllFinished DEF HelpersTold
<1>3. ASSUME NEW g \in DOMAIN prog, NEW p \in Points(prog[g], "call"), InstrAt(prog[g], p).callee = f,
             Paths(prog[g], p[1], p[2]) # {}
      PROVE  \/ Unlocks(g, k) \/ k \in returnsHolding[g]
             \/ Told("missingUnlock", g, InstrAt(prog[g], p).pos, k)
  <2>1. CallsKnown(g) /\ g \in FuncIds
    BY <1>1, AllFinished
  <2>2. PICK cs \in callSites : cs.caller = g /\ cs.callee = f /\ cs.pos = InstrAt(prog[g], p).pos
    BY <1>3, <2>1 DEF CallsKnown
  <2>3. CASE k \in releases[g]
    BY <1>1, <2>1, <2>3 DEF ReleasesReal
  <2>4. CASE k \notin releases[g] /\ k \notin returnsHolding[g]
    <3>1. k \in OwedBy(cs)
      BY <2>2, <2>4 DEF OwedBy
    <3> QED
      BY <1>1, <2>2, <3>1 DEF HelpersTold
  <2> QED
    BY <2>3, <2>4
<1> QED
  BY <1>2, <1>3 DEF HandedOn, Paths

\* C5 and C13 together (reportDeferredLockLeaks): for every package whose return statements have
\* positions of their own, a lock that all paths to such a return hold in one mode, and some path
\* leaks, is reported there, excused by a requirement or a typo, or handed on to callers each
\* of which unlocks it, hands it on or is reported.
THEOREM LeaksAreAccounted == (ReturnPositions /\ ReturnsApart) => (LSpec => []LeaksAccounted)
<1> SUFFICES ASSUME ReturnPositions, ReturnsApart PROVE LSpec => []LeaksAccounted
  OBVIOUS
<1>1. ReportInv => LeaksAccounted
  <2> SUFFICES ASSUME ReportInv, phase = "reported", NEW f \in DOMAIN prog, NEW p \in ReturnStatements(f),
                      NEW r \in LockRefs, KeyOf[r] # NoKey, HeldAlike(Paths(prog[f], p[1], p[2]), r),
                      \E s \in Paths(prog[f], p[1], p[2]) : r \in LeakedAt(s)
               PROVE  \/ Told("lockLeak", f, InstrAt(prog[f], p).pos, KeyOf[r])
                      \/ functionRequiresMutex(f, r)
                      \/ <<f, r>> \in deferredLockTypoReported
                      \/ HandedOn(f, KeyOf[r])
    BY DEF LeaksAccounted, Paths
  <2>1. Done /\ LeaksTold
    BY DEF ReportInv, PhaseOK
  <2>2. p \in Points(prog[f], "return") /\ InstrAt(prog[f], p).pos # NoPos /\ LeaksKnown(f)
    BY <2>1, AllFinished, ReturnPointsAre DEF ReturnStatements
  <2>3. PICK c : c = [fn |-> f, pos |-> InstrAt(prog[f], p).pos, ref |-> r]
    OBVIOUS
  <2>4. c \in lockLeakCandidates
    BY <2>2, <2>3 DEF LeaksKnown
  <2>5. c.fn = f /\ c.pos = InstrAt(prog[f], p).pos /\ c.ref = r
    BY <2>3
  <2>6. LeakExcused(c) \/ Told("lockLeak", f, InstrAt(prog[f], p).pos, KeyOf[r])
    BY <2>1, <2>4, <2>5 DEF LeaksTold
  <2>7. ASSUME KeyOf[r] \in returnsHolding[f] PROVE HandedOn(f, KeyOf[r])
    BY <2>7, HandedOnFacts
  <2> QED
    BY <2>5, <2>6, <2>7 DEF LeakExcused
<1> QED
  BY <1>1, ReportInvariant, PTL

\* A function that really returns holding k on all paths is counted as a helper for k.
LEMMA RealHelpersCount ==
    ASSUME ReportInv, Done, ReturnPositions, ReturnsApart, NEW f \in DOMAIN prog, NEW k,
           ReallyReturnsHolding(f, k)
    PROVE  EveryReturnHolds(f, k)
<1> DEFINE body == prog[f]
           RP == Points(body, "return")
           CP == CandidatePositions(f, k)
           h == [p \in RP |-> InstrAt(body, p).pos]
<1>1. /\ body \in Bodies /\ HeldAtReturns(f) /\ LeaksKnown(f) /\ IsFiniteSet(RP) /\ RP = ReturnPoints(f)
      /\ ReturnsDistinct(body)
  BY AllFinished, ReturnPointsAre, PointsFinite DEF ReturnPositions
<1>2. /\ Points(body, "deferUnlock") = {} /\ ReturnPoints(f) # {}
      /\ \A p \in ReturnPoints(f) :
           /\ InstrAt(body, p).pos # NoPos /\ Paths(body, p[1], p[2]) # {}
           /\ \E r \in LockRefs : KeyOf[r] = k /\ HeldAlike(Paths(body, p[1], p[2]), r)
  BY DEF ReallyReturnsHolding, ReturnStatements, Paths
<1>3. ASSUME NEW p \in RP PROVE h[p] \in CP
  <2>1. PICK r \in LockRefs : KeyOf[r] = k /\ HeldAlike(Paths(body, p[1], p[2]), r)
    BY <1>1, <1>2
  <2>2. PICK s \in Paths(body, p[1], p[2]) : TRUE
    BY <1>1, <1>2
  <2>3. body # <<>> /\ p[1] \in DOMAIN body /\ p[2] \in 1..(Len(body[p[1]].instrs) + 1)
    BY <1>1, PointIn
  <2>4. s.deferred = {}
    <3> HIDE DEF body
    <3> QED
      BY <1>1, <1>2, <2>2, <2>3, NothingDeferred
  <2>5. r \in Keys(s)
    BY <2>1, <2>2 DEF HeldAlike, Keys, Modes
  <2>6. r \in LeakedAt(s)
    BY <2>4, <2>5 DEF LeakedAt
  <2>7. PICK c : c = [fn |-> f, pos |-> InstrAt(body, p).pos, ref |-> r]
    OBVIOUS
  <2>8. c \in lockLeakCandidates
    BY <1>1, <1>2, <2>1, <2>2, <2>6, <2>7 DEF LeaksKnown
  <2>9. c.fn = f /\ c.pos = h[p] /\ KeyOf[c.ref] = k
    BY <2>1, <2>7
  <2> QED
    BY <2>8, <2>9 DEF CandidatePositions
<1>4. ASSUME NEW pos \in CP PROVE \E p \in RP : h[p] = pos
  <2>1. PICK c \in lockLeakCandidates : c.fn = f /\ c.pos = pos
    BY DEF CandidatePositions
  <2>2. PICK p \in RP : InstrAt(body, p).pos = pos
    BY <1>1, <2>1 DEF HeldAtReturns
  <2> QED
    BY <2>2
<1>5. ASSUME NEW p \in RP, NEW q \in RP, h[p] = h[q] PROVE p = q
  <2>1. Paths(body, p[1], p[2]) # {} /\ Paths(body, q[1], q[2]) # {}
    BY <1>1, <1>2
  <2>2. InstrAt(body, p).pos = InstrAt(body, q).pos
    BY <1>5
  <2> QED
    BY <1>1, <2>1, <2>2 DEF ReturnsDistinct
<1> HIDE DEF RP, CP, body
<1>6. h \in Bijection(RP, CP)
  <2>1. h \in [RP -> CP]
    BY <1>3
  <2>2. h \in Injection(RP, CP)
    BY <1>5, <2>1 DEF Injection, IsInjective
  <2>3. h \in Surjection(RP, CP)
    BY <1>4, <2>1 DEF Surjection
  <2> QED
    BY <2>2, <2>3 DEF Bijection
<1>7. Cardinality(CP) = Cardinality(RP)
  <2>1. ExistsBijection(RP, CP)
    BY <1>6 DEF ExistsBijection
  <2> QED
    BY <1>1, <2>1, FS_Bijection
<1> QED
  BY <1>1, <1>2, <1>7 DEF EveryReturnHolds, CP

\* C4 and C13 together (reportDeferredUnlockOfUnlocked): for every package whose return
\* statements have positions of their own, no unlock is reported in a function that calls an
\* acquire helper of the lock, however many returns the helper has and paths lead to them.
THEOREM HelperLocksAreExcused == (ReturnPositions /\ ReturnsApart) => (LSpec => []HelperLocksExcused)
<1> SUFFICES ASSUME ReturnPositions, ReturnsApart PROVE LSpec => []HelperLocksExcused
  OBVIOUS
<1>1. ReportInv => HelperLocksExcused
  <2> SUFFICES ASSUME ReportInv, NEW d \in reports, d.kind = "unlockOfUnlocked",
                      NEW cs \in callSites, cs.caller = d.fn, cs.callee \in DOMAIN prog,
                      ReallyReturnsHolding(cs.callee, d.mutex)
               PROVE  FALSE
    BY DEF HelperLocksExcused
  <2>1. phase = "reported" /\ \E c \in unlockOfUnlockedCandidates : MadeFrom(d, c)
    BY DEF ReportInv, PhaseOK
  <2>2. Done /\ HoldingComputed
    BY <2>1 DEF ReportInv, PhaseOK
  <2>3. PICK c \in unlockOfUnlockedCandidates : MadeFrom(d, c)
    BY <2>1
  <2>4. KeyOf[c.ref] = d.mutex /\ d.mutex # NoKey /\ ~calleeReturnsHolding(d.fn, d.mutex)
    BY <2>3 DEF MadeFrom
  <2>5. c.ref \in LockRefs
    BY <2>3 DEF ReportInv, ExactInv, RecordsReal, UnlocksOK, IsCandidate
  <2>6. d.mutex \in MutexKeys
    BY <2>4, <2>5, WalkAssumption
  <2>7. EveryReturnHolds(cs.callee, d.mutex)
    BY <2>2, RealHelpersCount
  <2>8. d.mutex \in returnsHolding[cs.callee]
    BY <2>2, <2>6, <2>7 DEF HoldingComputed
  <2> QED
    BY <2>4, <2>8 DEF calleeReturnsHolding
<1> QED
  BY <1>1, ReportInvariant, PTL
=============================================================================
