------------------------------ MODULE Diagnose ------------------------------
(***************************************************************************)
(* Phases 3.5 and 4 of an analyzer pass, after those of Propagation: which *)
(* functions run concurrently (pkg/analyzer/concurrency.go), and the       *)
(* diagnostics about guarded fields and calls (checkViolations and         *)
(* checkInterproceduralViolations in pkg/analyzer/reporter.go).            *)
(***************************************************************************)
EXTENDS Propagation, Annotations, Inference

VARIABLES
    phase,         \* the phase of run
    annotations,   \* of the package under analysis
    entrypoints,   \* detectConcurrentEntrypoints' result
    queue, head,   \* the queue of the search and the function being expanded
    edge,          \* the next call site to look at for queue[head]
    reachable,
    fallback,      \* concurrentFuncs is nil: all functions count as concurrent
    diags

contextVars == <<annotations, entrypoints, queue, head, edge, reachable, fallback>>
dvars == <<vars, phase, contextVars, diags>>

-----------------------------------------------------------------------------
(* computeConcurrentContext *)

ComputeConcurrentContext ==
    /\ phase = "propagate" /\ pc = "done"
    /\ IF entrypoints = {}
         THEN /\ fallback' = TRUE
              /\ phase' = "violations"
              /\ UNCHANGED <<queue, reachable>>
         ELSE /\ queue' \in Orders(entrypoints)
              /\ reachable' = entrypoints
              /\ phase' = "search"
              /\ UNCHANGED fallback
    /\ UNCHANGED <<vars, annotations, entrypoints, head, edge, diags>>

\* One entry of forward[fn], which lists the callees of fn in call-site order.
LookAtCallee ==
    /\ phase = "search" /\ head <= Len(queue) /\ edge <= Len(pkg.sites)
    /\ LET cs == pkg.sites[edge]
       IN IF cs.caller = queue[head] /\ cs.callee \notin reachable
            THEN reachable' = reachable \cup {cs.callee} /\ queue' = Append(queue, cs.callee)
            ELSE UNCHANGED <<reachable, queue>>
    /\ edge' = edge + 1
    /\ UNCHANGED <<vars, phase, annotations, entrypoints, head, fallback, diags>>

\* Mutant of NextInQueue: the call sites are not looked at from the first one on.
NextInQueueNoReset ==
    /\ phase = "search" /\ head <= Len(queue) /\ edge > Len(pkg.sites)
    /\ head' = head + 1
    /\ UNCHANGED <<vars, phase, annotations, entrypoints, queue, edge, reachable, fallback, diags>>

NextInQueue ==
    /\ phase = "search" /\ head <= Len(queue) /\ edge > Len(pkg.sites)
    /\ head' = head + 1 /\ edge' = 1
    /\ UNCHANGED <<vars, phase, annotations, entrypoints, queue, reachable, fallback, diags>>

EndSearch ==
    /\ phase = "search" /\ head > Len(queue)
    /\ phase' = "violations"
    /\ UNCHANGED <<vars, contextVars, diags>>

isConcurrent(f) == fallback \/ f \in reachable

-----------------------------------------------------------------------------
(* The diagnostics. *)

hasCallers(f) == \E cs \in CallSites(pkg) : cs.callee = f

\* Mutant of shouldSuppressDirectViolation: functions without callers are suppressed too.
shouldSuppressAlways(f, mfk) == f \in known /\ mfk \in requires[f]

shouldSuppressDirectViolation(f, mfk) == f \in known /\ mfk \in requires[f] /\ hasCallers(f)

Report(kind, f, at, mfk) ==
    IF isSuppressed(annotations, f, at.pos) THEN {} ELSE {[kind |-> kind, at |-> at, mutex |-> mfk]}

\* The diagnostics of checkViolations for one observation.
AccessDiags(a) ==
    IF a.constructor \/ ~isConcurrent(a.fn) THEN {}
    ELSE IF a.held = "shared" /\ ~a.isRead THEN Report("writeUnderShared", a.fn, a, a.guard)
    ELSE IF a.held = "free" /\ ~shouldSuppressDirectViolation(a.fn, a.guard)
           THEN Report("unguardedAccess", a.fn, a, a.guard)
    ELSE {}

CheckViolations ==
    /\ phase = "violations"
    /\ diags' = diags \cup UNION {AccessDiags(a) : a \in pkg.accesses}
    /\ phase' = "calls"
    /\ UNCHANGED <<vars, contextVars>>

\* Mutant of MissingLockDiags: the locks held at the call do not count.
MissingLockDiagsAlways(cs) ==
    UNION {Report("missingLock", cs.caller, cs, mfk) :
             mfk \in {k \in requires[cs.callee] :
                        ~shouldSuppressDirectViolation(cs.caller, k) /\ ~cs.prePublication}}

\* The diagnostics of checkInterproceduralViolations for one call site.
MissingLockDiags(cs) ==
    UNION {Report("missingLock", cs.caller, cs, mfk) :
             mfk \in {k \in requires[cs.callee] :
                        /\ ~callerHoldsMutex(cs, k)
                        /\ ~shouldSuppressDirectViolation(cs.caller, k)
                        /\ ~cs.prePublication}}

DoubleLockDiags(cs) ==
    UNION {Report("doubleLock", cs.caller, cs, mfk) :
             mfk \in {k \in acquiresTransitive[cs.callee] : callerHoldsMutex(cs, k)}}

CallDiags(cs) ==
    IF isConcurrent(cs.caller) /\ cs.callee \in known
      THEN MissingLockDiags(cs) \cup DoubleLockDiags(cs)
      ELSE {}

CheckInterproceduralViolations ==
    /\ phase = "calls"
    /\ diags' = diags \cup UNION {CallDiags(cs) : cs \in CallSites(pkg)}
    /\ phase' = "reported"
    /\ UNCHANGED <<vars, contextVars>>

-----------------------------------------------------------------------------
Propagate == phase = "propagate" /\ Next /\ UNCHANGED <<phase, contextVars, diags>>

DNext ==
    \/ Propagate
    \/ ComputeConcurrentContext \/ LookAtCallee \/ NextInQueue \/ EndSearch
    \/ CheckViolations \/ CheckInterproceduralViolations

-----------------------------------------------------------------------------
Searched == phase \in {"violations", "calls", "reported"}

\* S has the entry points and every callee of its members.
ClosedUnderCalls(S) ==
    entrypoints \subseteq S /\ \A cs \in CallSites(pkg) : cs.caller \in S => cs.callee \in S

\* The search finds the functions that can be reached from an entry point, neither
\* fewer nor more, in whatever order the entry points are queued.
ReachableExact ==
    /\ \A S \in SUBSET Funcs : ClosedUnderCalls(S) => reachable \subseteq S
    /\ Searched => ClosedUnderCalls(reachable)

\* g gets to f by calls at which mfk is not held and nothing is pre-publication:
\* each set with f that is closed under such callers has g.
ReachesWithout(g, f, mfk) ==
    \A S \in SUBSET Funcs :
      (/\ f \in S
       /\ \A cs \in CallSites(pkg) :
            (cs.callee \in S /\ mfk \notin cs.held /\ ~cs.prePublication) => cs.caller \in S)
      => g \in S

\* The accesses without their guard that are not excused.
Unguarded == {a \in pkg.accesses : a.held = "free" /\ ~a.constructor}

\* No report without a cause: the caller of a reported call runs concurrently and
\* gets, without the lock, to an access that needs it or to an imported function
\* that does; or it holds a lock that a function it calls, directly or not, takes.
ReportsHaveCauses ==
    \A d \in diags :
      /\ d.kind = "missingLock" =>
           /\ isConcurrent(d.at.caller) /\ d.mutex \notin d.at.held
           /\ \/ \E a \in Unguarded : a.guard = d.mutex /\ ReachesWithout(d.at.callee, a.fn, d.mutex)
              \/ \E f \in Funcs : d.mutex \in pkg.requires[f] /\ ReachesWithout(d.at.callee, f, d.mutex)
      /\ d.kind = "doubleLock" =>
           /\ d.mutex \in d.at.held
           /\ \A S \in SUBSET Funcs :
                (/\ d.at.callee \in S
                 /\ \A cs \in CallSites(pkg) : cs.caller \in S => cs.callee \in S) =>
                   \E f \in S : d.mutex \in pkg.acquires[f] \cup pkg.acquiresTransitive[f]

\* A violation that checkViolations does not report where it happens is reported
\* at a call site: an entry point starts without locks, so an unguarded access that
\* it reaches without taking the guard must be reported somewhere.
SuppressedAppearAtCalls ==
    phase = "reported" =>
      \A a \in Unguarded :
        (\E g \in entrypoints : ReachesWithout(g, a.fn, a.guard)) =>
          \E d \in diags : d.mutex = a.guard /\ d.kind \in {"unguardedAccess", "missingLock"}
=============================================================================
