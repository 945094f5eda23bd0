----------------------------- MODULE CallGraph -----------------------------
(***************************************************************************)
(* What the phases before the interprocedural ones record about a package: *)
(* call sites, accesses to guarded fields, acquired locks, imported facts  *)
(* (passContext in pkg/analyzer/golintmu.go, callSiteRecord and            *)
(* funcLockFacts in pkg/analyzer/interprocedural.go); and what a function  *)
(* summary must satisfy.                                                   *)
(***************************************************************************)
EXTENDS Integers, Sequences

CONSTANTS
    Funcs,          \* the functions of the package and its static callees
    MutexKeys,      \* mutexFieldKey
    Packages        \* the packages to analyse

\* callSiteRecord; held are the keys of HeldByStructType, in whatever mode.  A call that
\* is walked twice leaves two records with one position.
Sites == [caller : Funcs, callee : Funcs, pos : Nat, held : SUBSET MutexKeys, prePublication : BOOLEAN]

\* An observation of a guarded field: its function, the key of the guard and the
\* mode it is held in, and whether the function is constructor-like for the struct.
Accesses == [fn : Funcs, pos : Nat, guard : MutexKeys,
             held : {"free", "shared", "exclusive"}, isRead : BOOLEAN, constructor : BOOLEAN]

LockSets == [Funcs -> SUBSET MutexKeys]

\* known: the functions that have an entry in funcFacts; the others have none of
\* the locks.  requires and acquiresTransitive come from imported facts.
Inputs == {p \in [sites : Seq(Sites), accesses : SUBSET Accesses, known : SUBSET Funcs,
                  requires : LockSets, acquires : LockSets, acquiresTransitive : LockSets] :
             \A f \in Funcs \ p.known : p.requires[f] \cup p.acquires[f] \cup p.acquiresTransitive[f] = {}}

ASSUME CallGraphAssumption == Packages \subseteq Inputs

CallSites(p) == {p.sites[i] : i \in 1..Len(p.sites)}

callerHoldsMutex(cs, mfk) == mfk \in cs.held

\* The locks of `required', the callee's, that pass to the caller at cs.
PassedOn(cs, required) ==
    {mfk \in required : ~callerHoldsMutex(cs, mfk) /\ ~cs.prePublication}

\* deriveInitialRequirements: the guards that f accesses a field without.
Direct(p, f) == {a.guard : a \in {b \in p.accesses : b.fn = f /\ ~b.constructor /\ b.held = "free"}}

-----------------------------------------------------------------------------
\* R solves the requirements: it has the imported and the direct ones, and
\* whatever a callee requires the caller holds at the call or requires itself.
SolvesRequires(p, R) ==
    /\ \A f \in Funcs : p.requires[f] \cup Direct(p, f) \subseteq R[f]
    /\ \A cs \in CallSites(p) : \A mfk \in R[cs.callee] :
         mfk \in cs.held \/ cs.prePublication \/ mfk \in R[cs.caller]

SolvesAcquires(p, A) ==
    /\ \A f \in Funcs : p.acquiresTransitive[f] \cup p.acquires[f] \subseteq A[f]
    /\ \A cs \in CallSites(p) : A[cs.callee] \subseteq A[cs.caller]

Contained(R, S) == \A f \in Funcs : R[f] \subseteq S[f]
=============================================================================
