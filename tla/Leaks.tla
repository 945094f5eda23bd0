------------------------------- MODULE Leaks -------------------------------
(***************************************************************************)
(* Phases 3.8 to 3.9.3 of an analyzer pass (pkg/analyzer/reporter.go): the *)
(* candidates that the walk left behind become diagnostics about acquire   *)
(* helpers and their callers (C13), lock leaks (C5) and unlocks of locks   *)
(* that are not held (C4).                                                 *)
(*                                                                         *)
(* The phases in between enter with one fact, the locks each function      *)
(* requires.  Propagation shows that they compute the least solution; here *)
(* it is taken in one step from what the walk recorded.                    *)
(***************************************************************************)
EXTENDS WalkExact

CONSTANTS
    FuncPos,       \* fn.Pos()
    GuardOf,       \* the key of the guard inferred for a field, or NoKey
    ConstructorLike,   \* <<function, field>>: isConstructorLike(function, the field's struct)
    PrePublication,    \* <<function, position>>: isPrePublicationConstructorCall
    ImportedRequires,  \* FuncLockFact.Requires of the functions of other packages
    Imported           \* FuncLockFact.ReturnsHolding of the functions of other packages

ASSUME LeaksAssumption ==
    /\ FuncPos \in [FuncIds -> Positions]
    /\ GuardOf \in [Fields -> MutexKeys \cup {NoKey}]
    /\ ImportedRequires \in [FuncIds -> SUBSET MutexKeys]
    /\ Imported \in [FuncIds -> SUBSET MutexKeys]

VARIABLES
    phase,             \* the phase of run
    requires,          \* funcFacts: Requires
    returnsHolding,    \* funcFacts: ReturnsHolding
    reports            \* the diagnostics of these phases

leakVars == <<phase, requires, returnsHolding, reports>>
lvars == <<vars, leakVars>>

\* importFacts: what another package found out about f, if f is called here.
FactOf(f, facts) == IF f \notin DOMAIN prog /\ \E cs \in callSites : cs.callee = f THEN facts[f] ELSE {}

-----------------------------------------------------------------------------
(* Phases 1.5 to 3. *)

HeldKeys(o) == {KeyOf[h[1]] : h \in o.held}

\* deriveInitialRequirements: accesses to a guarded field without its guard, but for
\* the constructors of its struct.
DirectlyRequired(f) ==
    {GuardOf[o.field] : o \in {y \in observations : /\ y.fn = f /\ <<f, y.field>> \notin ConstructorLike
                                                   /\ GuardOf[y.field] \notin HeldKeys(y)}} \ {NoKey}

\* R has the direct and the imported requirements, and what the callees require and a
\* call lacks, but for calls on a struct that its constructor has not published yet.
Solves(R) ==
    /\ \A f \in FuncIds : DirectlyRequired(f) \cup FactOf(f, ImportedRequires) \subseteq R[f]
    /\ \A cs \in callSites : <<cs.caller, cs.pos>> \notin PrePublication =>
         \A k \in R[cs.callee] : k \in {h[1] : h \in cs.held} \cup R[cs.caller]

Summarise ==
    /\ phase = "walk" /\ Done
    /\ LET solutions == {R \in [FuncIds -> SUBSET MutexKeys] : Solves(R)}
       IN  requires' = [f \in FuncIds |-> {k \in MutexKeys : \A R \in solutions : k \in R[f]}]
    /\ phase' = "holding"
    /\ UNCHANGED <<vars, returnsHolding, reports>>

-----------------------------------------------------------------------------
(* Phase 3.8: acquire helpers. *)

\* The *ssa.Return instructions of f in all its blocks, also those that the walk does
\* not get to: a function with a defer has a Recover block that ends in one.
ReturnPoints(f) ==
    UNION {{<<b, i>> : i \in {j \in DOMAIN prog[f][b].instrs : prog[f][b].instrs[j].op = "return"}} :
             b \in DOMAIN prog[f]}

CandidatePositions(f, k) ==
    {c.pos : c \in {x \in lockLeakCandidates : x.fn = f /\ KeyOf[x.ref] = k}}

\* Mutant of EveryReturnHolds: a return without a position, as in a Recover block,
\* does not count.
EveryExplicitReturnHolds(f, k) ==
    LET explicit == {p \in ReturnPoints(f) : prog[f][p[1]].instrs[p[2]].pos # NoPos}
    IN  explicit # {} /\ Cardinality(CandidatePositions(f, k)) = Cardinality(explicit)

EveryReturnHolds(f, k) ==
    ReturnPoints(f) # {} /\ Cardinality(CandidatePositions(f, k)) = Cardinality(ReturnPoints(f))

ComputeReturnsHolding ==
    /\ phase = "holding"
    /\ returnsHolding' =
         [f \in FuncIds |-> IF f \in DOMAIN prog THEN {k \in MutexKeys : EveryReturnHolds(f, k)}
                            ELSE FactOf(f, Imported)]
    /\ phase' = "helpers"
    /\ UNCHANGED <<vars, requires, reports>>

isSuppressed(f, pos) == <<f, pos>> \in Suppressed

Report(kind, f, pos, k) ==
    IF isSuppressed(f, pos) THEN {} ELSE {[kind |-> kind, fn |-> f, pos |-> pos, mutex |-> k]}

\* reportAcquireHelper, for every entry of funcFacts.
HelperReports == UNION {{[f |-> f, k |-> k] : k \in returnsHolding[f]} : f \in FuncIds}

\* The locks a call gives its caller that the caller neither gives to its own callers
\* nor ever releases.
OwedBy(cs) == (returnsHolding[cs.callee] \ returnsHolding[cs.caller]) \ releases[cs.caller]

CheckCallersOfAcquireHelpers ==
    /\ phase = "helpers"
    /\ reports' = reports
         \cup (UNION {Report("acquireHelper", h.f, FuncPos[h.f], h.k) : h \in HelperReports})
         \cup (UNION {UNION {Report("missingUnlock", cs.caller, cs.pos, k) : k \in OwedBy(cs)} : cs \in callSites})
    /\ phase' = "leaks"
    /\ UNCHANGED <<vars, requires, returnsHolding>>

-----------------------------------------------------------------------------
(* Phases 3.9 and 3.9.3. *)

functionRequiresMutex(f, ref) == KeyOf[ref] # NoKey /\ KeyOf[ref] \in requires[f]

\* Mutant of LeakExcused: a helper for one lock may leak the others.
LeakExcusedHelper(c) ==
    \/ functionRequiresMutex(c.fn, c.ref)
    \/ <<c.fn, c.ref>> \in deferredLockTypoReported
    \/ returnsHolding[c.fn] # {}

LeakExcused(c) ==
    \/ functionRequiresMutex(c.fn, c.ref)
    \/ <<c.fn, c.ref>> \in deferredLockTypoReported
    \/ KeyOf[c.ref] \in returnsHolding[c.fn]

ReportDeferredLockLeaks ==
    /\ phase = "leaks"
    /\ reports' = reports \cup
         UNION {Report("lockLeak", c.fn, c.pos, KeyOf[c.ref]) :
                  c \in {x \in lockLeakCandidates : ~LeakExcused(x) /\ KeyOf[x.ref] # NoKey}}
    /\ phase' = "unlocks"
    /\ UNCHANGED <<vars, requires, returnsHolding>>

\* Mutant of calleeReturnsHolding: the function's own postcondition is looked at.
calleeReturnsHoldingSelf(f, k) == k \in returnsHolding[f]

calleeReturnsHolding(f, k) == \E cs \in callSites : cs.caller = f /\ k \in returnsHolding[cs.callee]

ReportDeferredUnlockOfUnlocked ==
    /\ phase = "unlocks"
    /\ reports' = reports \cup
         UNION {Report("unlockOfUnlocked", c.fn, c.pos, KeyOf[c.ref]) :
                  c \in {x \in unlockOfUnlockedCandidates :
                           /\ ~functionRequiresMutex(x.fn, x.ref)
                           /\ KeyOf[x.ref] # NoKey
                           /\ ~calleeReturnsHolding(x.fn, KeyOf[x.ref])}}
    /\ phase' = "reported"
    /\ UNCHANGED <<vars, requires, returnsHolding>>

-----------------------------------------------------------------------------
LInit ==
    /\ Init
    /\ phase = "walk"
    /\ requires = [f \in FuncIds |-> {}]
    /\ returnsHolding = [f \in FuncIds |-> {}]
    /\ reports = {}

Walk == Next /\ UNCHANGED leakVars

LNext ==
    \/ Walk \/ Summarise \/ ComputeReturnsHolding
    \/ CheckCallersOfAcquireHelpers \/ ReportDeferredLockLeaks \/ ReportDeferredUnlockOfUnlocked

LSpec == LInit /\ [][LNext]_lvars

-----------------------------------------------------------------------------
\* A lock of key k is held in s and no deferred unlock will release it.
LeavesHeld(s, k) == \E r \in LeakedAt(s) : KeyOf[r] = k

\* C13 (computeReturnsHolding): a function is taken for an acquire helper only if each
\* of its paths to a return leaves a lock of that key held.  The count of return
\* instructions and the candidates overwritten by re-walks have to agree for that.
HelpersReal ==
    phase \notin {"walk", "holding"} =>
      \A f \in DOMAIN prog : \A k \in returnsHolding[f] :
        LET R == Reached(prog[f])
        IN  \A p \in ReturnPoints(f) : \A s \in StatesAt(prog[f], R, p[1], p[2]) : LeavesHeld(s, k)

\* The returns of f that stand in its source.
ReturnStatements(f) == {p \in ReturnPoints(f) : InstrAt(prog[f], p).pos # NoPos}

\* The report is made, or an annotation suppresses it.
Told(kind, f, pos, k) ==
    isSuppressed(f, pos) \/ [kind |-> kind, fn |-> f, pos |-> pos, mutex |-> k] \in reports

\* The function somewhere unlocks a lock of key k, by defer or not.
Unlocks(f, k) ==
    \E b \in DOMAIN prog[f] : \E i \in DOMAIN prog[f][b].instrs :
      LET ins == prog[f][b].instrs[i]
      IN  ins.op \in {"unlock", "deferUnlock"} /\ KeyOf[ins.ref] = k

\* Somebody answers for key k on return from f: f is reported as a helper, and the
\* callers of f release the lock, answer for it in their turn, or are reported.
HandedOn(f, k) ==
    /\ Told("acquireHelper", f, FuncPos[f], k)
    /\ \A g \in DOMAIN prog : \A p \in Points(prog[g], "call") :
         LET call == InstrAt(prog[g], p)
         IN  (call.callee = f /\ StatesAt(prog[g], Reached(prog[g]), p[1], p[2]) # {}) =>
               \/ Unlocks(g, k) \/ k \in returnsHolding[g]
               \/ Told("missingUnlock", g, call.pos, k)

\* C5 and C13 together (reportDeferredLockLeaks): a struct's lock that all paths to a return
\* statement hold in one mode, and that some path does not release by defer, is reported at the
\* return, or handed on, unless the function requires the lock or its defer is a known typo.
\* (The candidates of returns without a position displace one another: LeakCandidatesKept.)
LeaksAccounted ==
    phase = "reported" =>
      \A f \in DOMAIN prog : LET R == Reached(prog[f]) IN
        \A p \in ReturnStatements(f) : \A r \in LockRefs :
          LET S == StatesAt(prog[f], R, p[1], p[2])
          IN  (KeyOf[r] # NoKey /\ HeldAlike(S, r) /\ \E s \in S : r \in LeakedAt(s)) =>
                \/ Told("lockLeak", f, InstrAt(prog[f], p).pos, KeyOf[r])
                \/ functionRequiresMutex(f, r)
                \/ <<f, r>> \in deferredLockTypoReported
                \/ HandedOn(f, KeyOf[r])

\* f has neither a deferred call nor an implicit return, and all paths to each of its
\* returns hold the same lock of key k.
ReallyReturnsHolding(f, k) ==
    /\ Points(prog[f], "deferUnlock") \cup Points(prog[f], "deferLock") = {}
    /\ ReturnPoints(f) # {} /\ ReturnPoints(f) = ReturnStatements(f)
    /\ LET R == Reached(prog[f])
       IN  \A p \in ReturnPoints(f) :
             LET S == StatesAt(prog[f], R, p[1], p[2])
             IN  S # {} /\ \E r \in LockRefs : KeyOf[r] = k /\ HeldAlike(S, r)

\* C4 and C13 together (reportDeferredUnlockOfUnlocked): no unlock is reported in a function
\* that gets the lock from an acquire helper, on whatever paths the helper returns.
HelperLocksExcused ==
    \A d \in reports : d.kind = "unlockOfUnlocked" =>
      \A cs \in callSites : (cs.caller = d.fn /\ cs.callee \in DOMAIN prog) =>
        ~ReallyReturnsHolding(cs.callee, d.mutex)
=============================================================================
