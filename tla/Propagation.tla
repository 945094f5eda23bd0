---------------------------- MODULE Propagation ----------------------------
(***************************************************************************)
(* Phases 2.5 and 3 of an analyzer pass                                    *)
(* (pkg/analyzer/interprocedural.go): the locks each function needs its    *)
(* callers to hold, from its own accesses and from its callees, and the    *)
(* locks it acquires, itself or through its callees.                       *)
(*                                                                         *)
(* Both are fixed-point loops.  The first ranges over the Go map           *)
(* funcFacts, in any order, while the loop body inserts into that map: an  *)
(* entry inserted during the range may be visited by it or not.            *)
(***************************************************************************)
EXTENDS CallGraph

CONSTANT MaxIterations   \* maxIterations

ASSUME PropagationAssumption == MaxIterations \in Nat

VARIABLES
    pkg,                  \* the input, never modified
    pc,                   \* where propagateRequirements is
    known, requires, acquiresTransitive,    \* funcFacts
    iteration, changed,   \* of the fixed-point loop
    pending,              \* entries of funcFacts that the range must still visit
    visited,              \* entries that it has visited
    site,                 \* the next call site of the second loop
    truncated             \* history: some loop ended with changed = true

vars == <<pkg, pc, known, requires, acquiresTransitive, iteration, changed,
          pending, visited, site, truncated>>

-----------------------------------------------------------------------------
DeriveInitialRequirements ==
    /\ pc = "derive"
    /\ requires' = [f \in Funcs |-> requires[f] \cup Direct(pkg, f)]
    /\ known' = known \cup {f \in Funcs : Direct(pkg, f) # {}}
    /\ pc' = "requires" /\ iteration' = 0 /\ changed' = TRUE
    /\ UNCHANGED <<pkg, acquiresTransitive, pending, visited, site, truncated>>

\* for i := 0; changed && i < maxIterations; i++
Again == changed /\ iteration < MaxIterations

\* Mutant of StartRange: changed is not reset.
StartRangeChanged ==
    /\ pc = "requires" /\ Again
    /\ pending' = known /\ visited' = {}
    /\ pc' = "range"
    /\ UNCHANGED <<pkg, known, requires, acquiresTransitive, iteration, changed, site, truncated>>

StartRange ==
    /\ pc = "requires" /\ Again
    /\ changed' = FALSE
    /\ pending' = known /\ visited' = {}
    /\ pc' = "range"
    /\ UNCHANGED <<pkg, known, requires, acquiresTransitive, iteration, site, truncated>>

\* Mutants of FromCallee: the locks held at the call do not count; a lock held at
\* one call site of the caller counts as held at all of them.
FromCalleeAlways(f, callee) ==
    IF \E cs \in CallSites(pkg) : cs.caller = f /\ cs.callee = callee THEN requires[callee] ELSE {}
FromCalleeMerged(f, callee) ==
    LET sites == {c \in CallSites(pkg) : c.caller = f /\ c.callee = callee}
    IN  {mfk \in requires[callee] : sites # {} /\ \A cs \in sites : mfk \in PassedOn(cs, requires[callee])}

\* What the body of the range over funcFacts gives to f when it visits callee.
FromCallee(f, callee) ==
    UNION {PassedOn(cs, requires[callee]) :
             cs \in {c \in CallSites(pkg) : c.caller = f /\ c.callee = callee}}

\* Mutant of VisitCallee: no entry of funcFacts is made for a caller.
VisitCalleeNoEntry(callee) ==
    /\ pc = "range"
    /\ callee \in known \ visited
    /\ requires' = [f \in Funcs |-> requires[f] \cup FromCallee(f, callee)]
    /\ changed' = (changed \/ requires' # requires)
    /\ visited' = visited \cup {callee}
    /\ pending' = pending \ {callee}
    /\ UNCHANGED <<pkg, pc, known, acquiresTransitive, iteration, site, truncated>>

\* The body of the range: the callers of one function take over its requirements.
VisitCallee(callee) ==
    /\ pc = "range"
    /\ callee \in known \ visited
    /\ requires' = [f \in Funcs |-> requires[f] \cup FromCallee(f, callee)]
    /\ known' = known \cup {f \in Funcs : FromCallee(f, callee) # {}}
    /\ changed' = (changed \/ requires' # requires)
    /\ visited' = visited \cup {callee}
    /\ pending' = pending \ {callee}
    /\ UNCHANGED <<pkg, pc, acquiresTransitive, iteration, site, truncated>>

\* The range may end once the entries it started with are visited.
EndRange ==
    /\ pc = "range" /\ pending = {}
    /\ iteration' = iteration + 1
    /\ pc' = "requires"
    /\ UNCHANGED <<pkg, known, requires, acquiresTransitive, changed, pending, visited, site, truncated>>

\* The first loop ends: AcquiresTransitive starts from the direct acquisitions.
SeedAcquires ==
    /\ pc = "requires" /\ ~Again
    /\ truncated' = changed
    /\ acquiresTransitive' = [f \in Funcs |-> acquiresTransitive[f] \cup pkg.acquires[f]]
    /\ pc' = "acquires" /\ iteration' = 0 /\ changed' = TRUE
    /\ UNCHANGED <<pkg, known, requires, pending, visited, site>>

StartSites ==
    /\ pc = "acquires" /\ Again
    /\ changed' = FALSE /\ site' = 1
    /\ pc' = "sites"
    /\ UNCHANGED <<pkg, known, requires, acquiresTransitive, iteration, pending, visited, truncated>>

\* Mutant of VisitSite: a callee without an entry is not passed over.
VisitSiteStuck ==
    /\ pc = "sites" /\ site <= Len(pkg.sites)
    /\ LET cs == pkg.sites[site]
       IN /\ cs.callee \in known
          /\ known' = known \cup {cs.caller}
          /\ acquiresTransitive' =
               [acquiresTransitive EXCEPT ![cs.caller] = @ \cup acquiresTransitive[cs.callee]]
          /\ changed' = (changed \/ acquiresTransitive' # acquiresTransitive)
    /\ site' = site + 1
    /\ UNCHANGED <<pkg, pc, requires, iteration, pending, visited, truncated>>

\* The caller takes over the acquisitions of a callee that has an entry.
VisitSite ==
    /\ pc = "sites" /\ site <= Len(pkg.sites)
    /\ LET cs == pkg.sites[site]
       IN IF cs.callee \in known
            THEN /\ known' = known \cup {cs.caller}
                 /\ acquiresTransitive' =
                      [acquiresTransitive EXCEPT ![cs.caller] = @ \cup acquiresTransitive[cs.callee]]
                 /\ changed' = (changed \/ acquiresTransitive' # acquiresTransitive)
            ELSE UNCHANGED <<known, acquiresTransitive, changed>>
    /\ site' = site + 1
    /\ UNCHANGED <<pkg, pc, requires, iteration, pending, visited, truncated>>

EndSites ==
    /\ pc = "sites" /\ site > Len(pkg.sites)
    /\ iteration' = iteration + 1
    /\ pc' = "acquires"
    /\ UNCHANGED <<pkg, known, requires, acquiresTransitive, changed, pending, visited, site, truncated>>

Finish ==
    /\ pc = "acquires" /\ ~Again
    /\ truncated' = (truncated \/ changed)
    /\ pc' = "done"
    /\ UNCHANGED <<pkg, known, requires, acquiresTransitive, iteration, changed, pending, visited, site>>

-----------------------------------------------------------------------------
Init ==
    /\ pkg \in Packages
    /\ pc = "derive"
    /\ known = pkg.known
    /\ requires = pkg.requires
    /\ acquiresTransitive = pkg.acquiresTransitive
    /\ iteration = 0 /\ changed = FALSE
    /\ pending = {} /\ visited = {} /\ site = 1
    /\ truncated = FALSE

Next ==
    \/ DeriveInitialRequirements
    \/ StartRange \/ (\E callee \in Funcs : VisitCallee(callee)) \/ EndRange
    \/ SeedAcquires \/ StartSites \/ VisitSite \/ EndSites \/ Finish

Spec == Init /\ [][Next]_vars

\* propagateRequirements is a sequential program.
FairSpec == Spec /\ WF_vars(Next)

-----------------------------------------------------------------------------
\* Type invariant; a function without an entry in funcFacts has no locks.
TypeOK ==
    /\ pkg \in Inputs
    /\ pc \in {"derive", "requires", "range", "acquires", "sites", "done"}
    /\ known \in SUBSET Funcs
    /\ requires \in LockSets /\ acquiresTransitive \in LockSets
    /\ iteration \in 0..MaxIterations /\ changed \in BOOLEAN
    /\ pending \in SUBSET Funcs /\ visited \in SUBSET Funcs
    /\ site \in 1..(Len(pkg.sites) + 1)
    /\ truncated \in BOOLEAN
    /\ \A f \in Funcs \ known : requires[f] \cup acquiresTransitive[f] \cup pkg.acquires[f] = {}

\* No function is ever given a requirement or an acquisition that no chain of calls
\* accounts for, in whatever order the range visits funcFacts.
NothingSpurious ==
    /\ \A R \in LockSets : SolvesRequires(pkg, R) => Contained(requires, R)
    /\ \A A \in LockSets : SolvesAcquires(pkg, A) => Contained(acquiresTransitive, A)

\* maxIterations cuts no loop short when it is at least the number of functions.
NeverTruncated == ~truncated

\* Both loops end, whatever recursion there is among the functions.
Termination == <>(pc = "done")

\* The two loops of propagateRequirements together do what Summary does in one step.
Abstract == INSTANCE Summary WITH
    result <- IF pc = "done" THEN <<requires, acquiresTransitive>> ELSE <<>>
Implements == Abstract!Spec

-----------------------------------------------------------------------------
(* The inductive invariant behind NothingSpurious and Implements. *)

\* The call sites of S pass on nothing that the caller does not have already.
RequiresClosed(S) == \A cs \in S : PassedOn(cs, requires[cs.callee]) \subseteq requires[cs.caller]
AcquiresClosed(S) == \A cs \in S : acquiresTransitive[cs.callee] \subseteq acquiresTransitive[cs.caller]

\* The sets grow from what the earlier phases recorded.
Seeded ==
    /\ \A f \in Funcs : pkg.requires[f] \subseteq requires[f]
    /\ pc # "derive" => \A f \in Funcs : Direct(pkg, f) \subseteq requires[f]
    /\ \A f \in Funcs : pkg.acquiresTransitive[f] \subseteq acquiresTransitive[f]
    /\ pc \in {"acquires", "sites", "done"} => \A f \in Funcs : pkg.acquires[f] \subseteq acquiresTransitive[f]

\* A round that has changed nothing so far has inserted nothing into funcFacts, and
\* the call sites it has seen are satisfied.
Settling ==
    /\ (pc = "range" /\ ~changed) =>
         /\ known \subseteq visited \cup pending
         /\ RequiresClosed({cs \in CallSites(pkg) : cs.callee \in visited})
    /\ (pc = "requires" /\ ~changed) => RequiresClosed(CallSites(pkg))
    /\ (pc \in {"acquires", "sites", "done"} /\ ~truncated) => RequiresClosed(CallSites(pkg))
    /\ (pc = "sites" /\ ~changed) => AcquiresClosed({pkg.sites[i] : i \in 1..(site - 1)})
    /\ (pc = "acquires" /\ ~changed) => AcquiresClosed(CallSites(pkg))
    /\ (pc = "done" /\ ~truncated) => AcquiresClosed(CallSites(pkg))

\* A round is under way only within the limit.
WithinLimit == pc \in {"range", "sites"} => iteration < MaxIterations

PInv == TypeOK /\ WithinLimit /\ Seeded /\ Settling /\ NothingSpurious
=============================================================================
