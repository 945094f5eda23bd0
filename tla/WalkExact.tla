----------------------------- MODULE WalkExact -----------------------------
(***************************************************************************)
(* The results of a walk compared with all paths through the function.     *)
(*                                                                         *)
(* Reached is the set of pairs <<b, s>> such that some path from the entry *)
(* block reaches block b with exact lock state s.  The walk keeps one      *)
(* state per block and meets each merge in an order that depends on the    *)
(* order of the successors; the properties say what it may and may not     *)
(* lose by that.  They are evaluated when the walk of a function ends.     *)
(***************************************************************************)
EXTENDS SsaWalk

ASSUME FiniteLockRefs == IsFiniteSet(LockRefs)

\* The lock state before instruction i of block b when the block starts in s.
Before(body, b, i, s) ==
    LET S[n \in 0..Len(body[b].instrs)] == IF n = 0 THEN s ELSE Effect(body[b].instrs[n], S[n - 1])
    IN  S[i - 1]
After(body, b, s) == Before(body, b, Len(body[b].instrs) + 1, s)

\* One more block on every path.
Extend(body, R) ==
    R \cup UNION {{<<body[p[1]].succs[i], After(body, p[1], p[2])>> : i \in DOMAIN body[p[1]].succs} : p \in R}

\* Each round adds a pair or reaches the fixed point, where the later ones stay.
Rounds(body) == Cardinality((DOMAIN body) \X LockStates)
Reached(body) ==
    LET R[n \in 0..Rounds(body)] ==
          IF n = 0 THEN [pairs |-> {<<1, newLockState>>}, closed |-> FALSE]
          ELSE LET prev == R[n - 1]
                   next == Extend(body, prev.pairs)
               IN  IF prev.closed THEN prev ELSE [pairs |-> next, closed |-> next = prev.pairs]
    IN  R[Rounds(body)].pairs

\* The exact states on reaching instruction i of block b, given R = Reached(body).
StatesAt(body, R, b, i) == {Before(body, b, i, p[2]) : p \in {q \in R : q[1] = b}}

\* Points of the body: every instruction of every block.
InstrAt(body, p) == body[p[1]].instrs[p[2]]
Points(body, op) ==
    {p \in UNION {{<<b, i>> : i \in DOMAIN body[b].instrs} : b \in DOMAIN body} : InstrAt(body, p).op = op}

\* No lock of the function is acquired in both modes.
SingleMode(body) ==
    \A p, q \in Points(body, "lock") :
      InstrAt(body, p).ref = InstrAt(body, q).ref => InstrAt(body, p).mode = InstrAt(body, q).mode

\* All states of S hold r, in the same mode: what a merge by intersection keeps.
HeldAlike(S, r) == \E m \in Modes : \A s \in S : s.held[r] = m

\* The walk of a function that has blocks has just ended.
Walked == stack = <<>> /\ fn > 0 /\ Body # <<>>

-----------------------------------------------------------------------------
\* When each lock is used in one mode, merging by intersection in any order of visits
\* (walkBlock, lockState.intersect) loses nothing by the end of a block, although re-walks
\* overwrite the entry states they are compared with: the walk gets to every block that has
\* a path to it, and its exit state is the set of locks held, and of unlocks deferred, on all of them.
ExitExact ==
    (Walked /\ SingleMode(Body)) => LET R == Reached(Body) IN
      /\ DOMAIN exitStates = {p[1] : p \in R}
      /\ \A b \in DOMAIN exitStates :
           LET S == StatesAt(Body, R, b, Len(Code(b)) + 1)
           IN  /\ Keys(exitStates[b]) = {r \in LockRefs : \A s \in S : r \in Keys(s)}
               /\ exitStates[b].deferred = {r \in LockRefs : \A s \in S : r \in s.deferred}

\* C5 (checkReturnWithHeldLocks): re-walks leave exactly the candidates for the
\* locks that all paths to the return hold and some path does not unlock by defer (locks of one mode).
LeaksExact ==
    (Walked /\ SingleMode(Body)) => LET R == Reached(Body) IN
      {c \in lockLeakCandidates : c.fn = fn} =
        UNION {{[fn |-> fn, pos |-> InstrAt(Body, p).pos, ref |-> r] :
                  r \in {k \in LockRefs :
                           LET S == StatesAt(Body, R, p[1], p[2])
                           IN  S # {} /\ (\A s \in S : k \in Keys(s)) /\ (\E s \in S : k \notin s.deferred)}} :
               p \in Points(Body, "return")}

\* C2 and mismatched unlocks are no artefact of merging, whatever the modes: the
\* reported operation meets the lock in the reported mode on some path.
HeldDiagsReal ==
    Walked => LET R == Reached(Body) IN
      /\ \A d \in diags : d.fn = fn /\ d.kind \in {"doubleLock", "recursiveRLock", "lockUpgrade"} =>
           \E p \in Points(Body, "lock") : \E s \in StatesAt(Body, R, p[1], p[2]) :
             /\ InstrAt(Body, p).pos = d.pos /\ InstrAt(Body, p).ref = d.ref
             /\ s.held[d.ref] # "free"
             /\ AcquireKind(InstrAt(Body, p).mode, s.held[d.ref]) = d.kind
      /\ \A d \in diags : d.fn = fn /\ d.kind = "mismatchedUnlock" =>
           \E p \in Points(Body, "unlock") \cup Points(Body, "deferUnlock") : \E s \in StatesAt(Body, R, p[1], p[2]) :
             /\ InstrAt(Body, p).pos = d.pos /\ InstrAt(Body, p).ref = d.ref
             /\ s.held[d.ref] \notin {"free", InstrAt(Body, p).mode}

\* C3 (checkAndRecordLockAcquire): every lock-order edge of the function is the
\* acquisition, on some path, of the second lock while the first is held.
EdgesReal ==
    Walked => LET R == Reached(Body) IN
      \A e \in lockOrderEdges : e.fn = fn =>
        \E p \in Points(Body, "lock") : \E s \in StatesAt(Body, R, p[1], p[2]) :
          KeyOf[InstrAt(Body, p).ref] = e.to /\ \E h \in Keys(s) : KeyOf[h] = e.from

\* A call site is recorded (recordCallSite) with locks that one path to the call holds all
\* at once, in the modes recorded: no caller is taken to hold what it never holds.
CallSitesReal ==
    Walked => LET R == Reached(Body) IN
      \A c \in callSites : c.caller = fn =>
        \E p \in Points(Body, "call") : \E s \in StatesAt(Body, R, p[1], p[2]) :
          /\ InstrAt(Body, p).pos = c.pos /\ InstrAt(Body, p).callee = c.callee
          /\ c.held \subseteq normalizeLockState(s)

\* The paths of up to n blocks from the entry block.
PathsOf(body, n) ==
    LET P[k \in 1..n] ==
          IF k = 1 THEN {<<1>>}
          ELSE LET prev == P[k - 1]
               IN  prev \cup UNION {{Append(p, body[p[Len(p)]].succs[i]) : i \in DOMAIN body[p[Len(p)]].succs} : p \in prev}
    IN  P[n]

\* No loop, and at most two paths to each block: the walk visits none a third time, and
\* compares no visit with an entry state that a re-walk has overwritten.
NoThirdVisit(body) ==
    LET P == PathsOf(body, Len(body) + 1)
    IN  \A p \in P : Len(p) <= Len(body) /\ Cardinality({q \in P : q[Len(q)] = p[Len(p)]}) <= 2

\* C4 (checkAndRecordUnlock), docs/design-c3-c4.md "will panic on some paths": up to the
\* second visit of a block the candidates are exactly the unlocks that some path executes
\* without the lock, merged with others or not (locks of one mode).
UnlocksExact ==
    (Walked /\ NoThirdVisit(Body) /\ SingleMode(Body)) => LET R == Reached(Body) IN
      {c \in unlockOfUnlockedCandidates : c.fn = fn} =
        {[fn |-> fn, pos |-> InstrAt(Body, p).pos, ref |-> InstrAt(Body, p).ref] :
           p \in {q \in Points(Body, "unlock") :
                    \E s \in StatesAt(Body, R, q[1], q[2]) : InstrAt(Body, q).ref \notin Keys(s)}}

\* docs/catalog/C11: a report is about a lock that is held in one predecessor but not in
\* the other.  Up to the second visit of a block (checkInconsistentBranch), one path to it
\* holds the lock and another does not.
InconsistencyReal ==
    (Walked /\ NoThirdVisit(Body) /\ SingleMode(Body)) => LET R == Reached(Body) IN
      \A d \in diags : d.fn = fn /\ d.kind = "inconsistent" =>
        \E b \in DOMAIN Body : blockPos(b) = d.pos /\
          \E s, t \in StatesAt(Body, R, b, 1) : d.ref \in Keys(s) \ Keys(t)

\* propagateRequirements lets the caller require what the callee requires and the call
\* site does not hold.  For that, a call that some path makes without a lock needs a record
\* without it, which re-walks add (recordCallSite) up to the second visit of a block.
CallSitesCover ==
    (Walked /\ NoThirdVisit(Body) /\ SingleMode(Body)) => LET R == Reached(Body) IN
      \A p \in Points(Body, "call") : \A r \in LockRefs :
        (NormKeyOf[r] # NoKey /\ \E s \in StatesAt(Body, R, p[1], p[2]) : r \notin Keys(s)) =>
          \E c \in callSites :
            /\ c.caller = fn /\ c.pos = InstrAt(Body, p).pos /\ c.callee = InstrAt(Body, p).callee
            /\ NormKeyOf[r] \notin {h[1] : h \in c.held}

-----------------------------------------------------------------------------
(* What a comment says, and the walk does not do. *)

\* observation.SameBaseMutexFields: the mutexes of an observation are held at
\* the time of the access, on whatever path it is reached.
ObservationsHeld ==
    Walked => LET R == Reached(Body) IN
      \A o \in observations : o.fn = fn =>
        \A p \in Points(Body, "access") : InstrAt(Body, p).pos = o.pos =>
          \A h \in o.held : \A s \in StatesAt(Body, R, p[1], p[2]) : h[1] \in Keys(s)
=============================================================================
