----------------------------- MODULE Provenance -----------------------------
(***************************************************************************)
(* Verbose mode (pkg/analyzer/interprocedural.go, pkg/analyzer/reporter.go): *)
(* why each function requires a lock.  deriveInitialRequirements and       *)
(* propagateRequirements note origins next to the requirements, and a      *)
(* diagnostic follows them down to the access that causes it.              *)
(*                                                                         *)
(* RequiresOrigin is a slice.  The formatter starts from each origin of    *)
(* the callee and then follows first origins only, so the model keeps the  *)
(* first one and the set of all.                                           *)
(***************************************************************************)
EXTENDS Propagation

CONSTANTS
    AccessOrigin,  \* an origin with an AccessPos: the function accesses the field
    NoOrigin,      \* RequiresOrigin has no entry
    MaxDepth       \* maxDepth of formatSingleOrigin

CallOrigins == [viaCallee : Funcs, viaCallPos : Nat]

\* requirementOrigin
Origins == {AccessOrigin} \cup CallOrigins

\* importFuncLockFacts: the facts are about functions of other packages, whose call
\* sites are not this package's.
ASSUME ImportedAssumption == \A p \in Packages : \A cs \in CallSites(p) : p.requires[cs.caller] = {}

ASSUME ProvenanceAssumption ==
    /\ NoOrigin \notin Origins
    /\ AccessOrigin \notin CallOrigins
    /\ MaxDepth \in Nat \ {0}

VARIABLES
    origins,       \* RequiresOrigin as a set, per function and lock
    first          \* its first element

originVars == <<origins, first>>
ovars == <<vars, originVars>>

-----------------------------------------------------------------------------
\* deriveInitialRequirements: the accesses come first.
DeriveWithOrigins ==
    /\ DeriveInitialRequirements
    /\ origins' = [f \in Funcs |-> [k \in MutexKeys |-> IF k \in Direct(pkg, f) THEN {AccessOrigin} ELSE {}]]
    /\ first' = [f \in Funcs |-> [k \in MutexKeys |-> IF k \in Direct(pkg, f) THEN AccessOrigin ELSE NoOrigin]]

\* The call sites at which f takes over requirement k when the range visits callee.
Passing(f, k, callee) ==
    {i \in DOMAIN pkg.sites :
       LET cs == pkg.sites[i]
       IN  cs.caller = f /\ cs.callee = callee /\ k \in PassedOn(cs, requires[callee])}

Via(i) == [viaCallee |-> pkg.sites[i].callee, viaCallPos |-> pkg.sites[i].pos]

\* Mutant of FirstOrigin: the newest origin is put in front.
FirstOriginNewest(f, k, callee) ==
    LET new == Passing(f, k, callee)
    IN  IF new = {} THEN first[f][k] ELSE Via(CHOOSE i \in new : \A j \in new : i <= j)

\* New origins are appended in the order of the call sites.
FirstOrigin(f, k, callee) ==
    LET new == Passing(f, k, callee)
    IN  IF new = {} \/ first[f][k] # NoOrigin THEN first[f][k]
        ELSE Via(CHOOSE i \in new : \A j \in new : i <= j)

\* The range adds an origin for each call site, also when the caller has the
\* requirement already; one callee and position is noted once.
VisitWithOrigins(callee) ==
    /\ VisitCallee(callee)
    /\ origins' = [f \in Funcs |-> [k \in MutexKeys |->
                     origins[f][k] \cup {Via(i) : i \in Passing(f, k, callee)}]]
    /\ first' = [f \in Funcs |-> [k \in MutexKeys |-> FirstOrigin(f, k, callee)]]

\* The other steps of propagateRequirements note no origins.
OtherStep ==
    /\ StartRange \/ EndRange \/ SeedAcquires \/ StartSites \/ VisitSite \/ EndSites \/ Finish
    /\ UNCHANGED originVars

-----------------------------------------------------------------------------
OInit ==
    /\ Init
    /\ origins = [f \in Funcs |-> [k \in MutexKeys |-> {}]]
    /\ first = [f \in Funcs |-> [k \in MutexKeys |-> NoOrigin]]

ONext == DeriveWithOrigins \/ (\E callee \in Funcs : VisitWithOrigins(callee)) \/ OtherStep

OSpec == OInit /\ [][ONext]_ovars

\* propagateRequirements is a sequential program.
OFairSpec == OSpec /\ WF_ovars(ONext)

-----------------------------------------------------------------------------
(* The explanation in a diagnostic: formatRequirementReasons, formatSingleOrigin. *)

\* Mutant of formatSingleOrigin: the last line is dropped.
formatOneLineLess(f, k, origin) ==
    LET line[d \in 0..(MaxDepth - 2)] ==
          IF d = 0 THEN <<f, origin>>
          ELSE LET o == line[d - 1][2]
               IN  IF o \in CallOrigins THEN <<o.viaCallee, first[o.viaCallee][k]>> ELSE line[d - 1]
    IN  line[MaxDepth - 2]

\* The last line of the chain that starts with one origin of f for lock k: a function
\* and its origin.  Each line is about the first origin of the callee of the line above.
formatSingleOrigin(f, k, origin) ==
    LET line[d \in 0..(MaxDepth - 1)] ==
          IF d = 0 THEN <<f, origin>>
          ELSE LET o == line[d - 1][2]
               IN  IF o \in CallOrigins THEN <<o.viaCallee, first[o.viaCallee][k]>> ELSE line[d - 1]
    IN  line[MaxDepth - 1]

-----------------------------------------------------------------------------
\* f has the requirement by itself: an access without the guard, or an imported fact.
Root(f, k) == first[f][k] = AccessOrigin \/ (first[f][k] = NoOrigin /\ k \in pkg.requires[f])

\* Every origin is true (there is such an access, or such a call without the lock of a
\* function that requires it), and following first origins never goes round in a
\* circle, in whatever order the range visits funcFacts: among any functions that
\* require a lock, one has it by itself or from a function outside.
ReasonsGrounded ==
    pc # "derive" => \A k \in MutexKeys :
      /\ \A f \in Funcs : \A o \in origins[f][k] :
           IF o = AccessOrigin THEN k \in Direct(pkg, f)
           ELSE /\ k \in requires[o.viaCallee]
                /\ \E cs \in CallSites(pkg) :
                     /\ cs.caller = f /\ cs.callee = o.viaCallee /\ cs.pos = o.viaCallPos
                     /\ ~callerHoldsMutex(cs, k) /\ ~cs.prePublication
      /\ \A S \in SUBSET {f \in Funcs : k \in requires[f]} : S # {} =>
           \E f \in S : Root(f, k) \/ (first[f][k] \in origins[f][k] /\ first[f][k].viaCallee \notin S)

\* A diagnostic's explanation gets to the cause: the last line of each chain is an
\* access or a call of an imported function (for chains of fewer than maxDepth functions).
ReasonsComplete ==
    pc = "done" => \A f \in Funcs : \A k \in requires[f] : \A o \in origins[f][k] :
      LET last == formatSingleOrigin(f, k, o)
      IN  last[2] = AccessOrigin \/ Root(last[1], k)
=============================================================================
