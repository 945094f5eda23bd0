------------------------- MODULE PropagationProofs -------------------------
(***************************************************************************)
(* For every package and every order of the ranges over funcFacts, the     *)
(* propagation invents nothing, and unless maxIterations cuts it short it  *)
(* computes the least summaries; a limit as large as the number of         *)
(* functions never does.                                                   *)
(***************************************************************************)
EXTENDS Propagation, FiniteSetTheorems, TLAPS

-----------------------------------------------------------------------------
(* The input. *)

LEMMA InputTypes ==
    ASSUME NEW p \in Inputs
    PROVE  /\ p.sites \in Seq(Sites) /\ Len(p.sites) \in Nat
           /\ \A i \in 1..Len(p.sites) : p.sites[i] \in Sites
           /\ CallSites(p) \subseteq Sites
           /\ p.known \subseteq Funcs
           /\ p.requires \in LockSets /\ p.acquires \in LockSets /\ p.acquiresTransitive \in LockSets
           /\ \A f \in Funcs \ p.known : p.requires[f] = {} /\ p.acquires[f] = {} /\ p.acquiresTransitive[f] = {}
           /\ \A f \in Funcs : Direct(p, f) \subseteq MutexKeys
<1>1. /\ p.sites \in Seq(Sites) /\ p.accesses \subseteq Accesses /\ p.known \subseteq Funcs
      /\ p.requires \in LockSets /\ p.acquires \in LockSets /\ p.acquiresTransitive \in LockSets
      /\ \A f \in Funcs \ p.known : p.requires[f] = {} /\ p.acquires[f] = {} /\ p.acquiresTransitive[f] = {}
  BY DEF Inputs
<1>2. Len(p.sites) \in Nat /\ \A i \in 1..Len(p.sites) : p.sites[i] \in Sites
  BY <1>1
<1>3. CallSites(p) \subseteq Sites
  BY <1>2 DEF CallSites
<1>4. \A f \in Funcs : Direct(p, f) \subseteq MutexKeys
  BY <1>1 DEF Direct, Accesses
<1> QED
  BY <1>1, <1>2, <1>3, <1>4

LEMMA PassedOnTypes ==
    ASSUME NEW cs, NEW S, NEW T, S \subseteq T
    PROVE  PassedOn(cs, S) \subseteq S /\ PassedOn(cs, S) \subseteq PassedOn(cs, T)
BY DEF PassedOn

\* What a visit gives to f comes from one of its call sites.
LEMMA FromCalleeTypes ==
    ASSUME NEW f, NEW callee
    PROVE  /\ FromCallee(f, callee) \subseteq requires[callee]
           /\ \A cs \in CallSites(pkg) : (cs.caller = f /\ cs.callee = callee) =>
                PassedOn(cs, requires[callee]) \subseteq FromCallee(f, callee)
           /\ \A mfk \in FromCallee(f, callee) : \E cs \in CallSites(pkg) :
                cs.caller = f /\ cs.callee = callee /\ mfk \in PassedOn(cs, requires[callee])
BY DEF FromCallee, PassedOn

\* A solution is closed under what a call site passes on.
LEMMA SolutionClosed ==
    ASSUME NEW R, SolvesRequires(pkg, R), NEW cs \in CallSites(pkg), NEW S, S \subseteq R[cs.callee]
    PROVE  PassedOn(cs, S) \subseteq R[cs.caller]
BY DEF SolvesRequires, PassedOn, callerHoldsMutex

\* The package stays, so a solution stays one.
LEMMA SameSolutions ==
    ASSUME pkg' = pkg, NEW R
    PROVE  /\ SolvesRequires(pkg', R) <=> SolvesRequires(pkg, R)
           /\ SolvesAcquires(pkg', R) <=> SolvesAcquires(pkg, R)
BY DEF SolvesRequires, SolvesAcquires, Direct, CallSites

\* NothingSpurious after a step, from the solutions before it.
LEMMA NothingSpuriousNext ==
    ASSUME pkg' = pkg,
           \A R \in LockSets : SolvesRequires(pkg, R) => Contained(requires', R),
           \A A \in LockSets : SolvesAcquires(pkg, A) => Contained(acquiresTransitive', A)
    PROVE  NothingSpurious'
<1>1. ASSUME NEW R \in LockSets, SolvesRequires(pkg', R) PROVE Contained(requires', R)
  BY <1>1, SameSolutions
<1>2. ASSUME NEW A \in LockSets, SolvesAcquires(pkg', A) PROVE Contained(acquiresTransitive', A)
  BY <1>2, SameSolutions
<1> QED
  BY <1>1, <1>2 DEF NothingSpurious

-----------------------------------------------------------------------------
(* The initial state. *)

\* The state in which deriveInitialRequirements is called.
Started ==
    /\ pkg \in Inputs
    /\ pc = "derive"
    /\ known = pkg.known /\ requires = pkg.requires /\ acquiresTransitive = pkg.acquiresTransitive
    /\ iteration = 0 /\ changed = FALSE
    /\ pending = {} /\ visited = {} /\ site = 1
    /\ truncated = FALSE

LEMMA PStart == Started => PInv
<1> SUFFICES ASSUME Started PROVE PInv
  OBVIOUS
<1>1. pkg \in Inputs
  BY DEF Started
<1>2. TypeOK
  <2>1. site \in 1..(Len(pkg.sites) + 1) /\ iteration \in 0..MaxIterations
    BY <1>1, InputTypes, PropagationAssumption DEF Started
  <2>2. changed \in BOOLEAN /\ truncated \in BOOLEAN
    BY DEF Started
  <2>3. \A f \in Funcs \ known : requires[f] \cup acquiresTransitive[f] \cup pkg.acquires[f] = {}
    BY <1>1, InputTypes DEF Started
  <2>4. /\ known \in SUBSET Funcs /\ requires \in LockSets /\ acquiresTransitive \in LockSets
        /\ pending \in SUBSET Funcs /\ visited \in SUBSET Funcs
        /\ pc \in {"derive", "requires", "range", "acquires", "sites", "done"}
    BY <1>1, InputTypes DEF Started
  <2> QED
    BY <1>1, <2>1, <2>2, <2>3, <2>4 DEF TypeOK
<1>3. WithinLimit /\ Seeded /\ Settling
  BY DEF Started, WithinLimit, Seeded, Settling
<1>4. NothingSpurious
  BY DEF Started, NothingSpurious, SolvesRequires, SolvesAcquires, Contained
<1> QED
  BY <1>2, <1>3, <1>4 DEF PInv

LEMMA PInit == Init => PInv
BY PStart, CallGraphAssumption DEF Init, Started

-----------------------------------------------------------------------------
(* One lemma per action that changes the sets. *)

LEMMA DeriveStep ==
    ASSUME PInv, DeriveInitialRequirements
    PROVE  PInv'
<1>1. /\ pc = "derive" /\ pc' = "requires" /\ pkg' = pkg /\ iteration' = 0 /\ changed' = TRUE
      /\ requires' = [f \in Funcs |-> requires[f] \cup Direct(pkg, f)]
      /\ known' = known \cup {f \in Funcs : Direct(pkg, f) # {}}
      /\ acquiresTransitive' = acquiresTransitive /\ pending' = pending /\ visited' = visited
      /\ site' = site /\ truncated' = truncated
  BY DEF DeriveInitialRequirements
<1>2. TypeOK /\ pkg \in Inputs /\ \A f \in Funcs : Direct(pkg, f) \subseteq MutexKeys
  BY InputTypes DEF PInv, TypeOK
<1>3. requires' \in LockSets /\ known' \subseteq Funcs
  BY <1>1, <1>2 DEF TypeOK, LockSets
<1>4. \A f \in Funcs : requires'[f] = requires[f] \cup Direct(pkg, f)
  BY <1>1
<1>5. TypeOK'
  BY <1>1, <1>2, <1>3, <1>4, PropagationAssumption DEF TypeOK
<1>6. WithinLimit' /\ Settling'
  BY <1>1 DEF WithinLimit, Settling
<1>7. Seeded'
  BY <1>1, <1>4 DEF PInv, Seeded, Direct
<1>8. NothingSpurious'
  <2>1. ASSUME NEW R \in LockSets, SolvesRequires(pkg, R) PROVE Contained(requires', R)
    <3>1. Contained(requires, R) /\ \A f \in Funcs : Direct(pkg, f) \subseteq R[f]
      BY <2>1 DEF PInv, NothingSpurious, SolvesRequires
    <3> QED
      BY <1>4, <3>1 DEF Contained
  <2>2. \A A \in LockSets : SolvesAcquires(pkg, A) => Contained(acquiresTransitive', A)
    BY <1>1 DEF PInv, NothingSpurious
  <2> QED
    BY <1>1, <2>1, <2>2, NothingSpuriousNext
<1> QED
  BY <1>5, <1>6, <1>7, <1>8 DEF PInv

LEMMA VisitCalleeStep ==
    ASSUME PInv, NEW callee \in Funcs, VisitCallee(callee)
    PROVE  PInv'
<1>1. /\ pc = "range" /\ pc' = "range" /\ pkg' = pkg /\ iteration' = iteration
      /\ callee \in known \ visited
      /\ requires' = [f \in Funcs |-> requires[f] \cup FromCallee(f, callee)]
      /\ known' = known \cup {f \in Funcs : FromCallee(f, callee) # {}}
      /\ visited' = visited \cup {callee} /\ pending' = pending \ {callee}
      /\ acquiresTransitive' = acquiresTransitive /\ site' = site /\ truncated' = truncated
  BY DEF VisitCallee
<1>2. changed' \in BOOLEAN /\ (changed => changed') /\ (~changed' => ~changed /\ requires' = requires)
  BY DEF VisitCallee
<1>3. TypeOK /\ pkg \in Inputs /\ requires \in LockSets /\ CallSites(pkg) \subseteq Sites /\ CallSites(pkg)' = CallSites(pkg)
  BY <1>1, InputTypes DEF PInv, TypeOK, CallSites
<1>4. \A f \in Funcs : requires'[f] = requires[f] \cup FromCallee(f, callee)
  BY <1>1
<1>5. \A f \in Funcs : FromCallee(f, callee) \subseteq MutexKeys
  BY <1>3, FromCalleeTypes DEF LockSets
<1>6. TypeOK'
  <2>1. requires' \in LockSets
    BY <1>1, <1>3, <1>5 DEF LockSets
  <2> QED
    BY <1>1, <1>2, <1>3, <1>4, <2>1 DEF TypeOK
<1>7. WithinLimit' /\ Seeded'
  BY <1>1, <1>4 DEF PInv, WithinLimit, Seeded, Direct
<1>8. Settling'
  <2> SUFFICES ASSUME ~changed'
               PROVE  /\ known' \subseteq visited' \cup pending'
                      /\ RequiresClosed({cs \in CallSites(pkg) : cs.callee \in visited})'
    BY <1>1 DEF Settling
  <2>1. /\ ~changed /\ requires' = requires
        /\ known \subseteq visited \cup pending
        /\ RequiresClosed({cs \in CallSites(pkg) : cs.callee \in visited})
    BY <1>1, <1>2 DEF PInv, Settling
  <2>2. \A f \in Funcs : FromCallee(f, callee) \subseteq requires[f]
    BY <1>4, <2>1
  <2>3. known' = known
    <3>1. ASSUME NEW f \in Funcs, f \notin known PROVE FromCallee(f, callee) = {}
      BY <1>3, <2>2, <3>1 DEF TypeOK
    <3> QED
      BY <1>1, <3>1
  <2>4. ASSUME NEW cs \in CallSites(pkg), cs.callee \in visited'
        PROVE  PassedOn(cs, requires[cs.callee]) \subseteq requires[cs.caller]
    <3>1. CASE cs.callee = callee
      <4>1. cs.caller \in Funcs
        BY <1>3 DEF Sites
      <4>2. PassedOn(cs, requires[callee]) \subseteq FromCallee(cs.caller, callee)
        BY <3>1, FromCalleeTypes
      <4> QED
        BY <2>2, <3>1, <4>1, <4>2
    <3>2. CASE cs.callee # callee
      BY <1>1, <2>1, <2>4, <3>2 DEF RequiresClosed
    <3> QED
      BY <3>1, <3>2
  <2>5. RequiresClosed({cs \in CallSites(pkg) : cs.callee \in visited})'
    BY <1>3, <2>1, <2>4 DEF RequiresClosed, PassedOn, callerHoldsMutex
  <2>6. known' \subseteq visited' \cup pending'
    BY <1>1, <2>1, <2>3
  <2> QED
    BY <2>5, <2>6
<1>9. NothingSpurious'
  <2>1. ASSUME NEW R \in LockSets, SolvesRequires(pkg, R) PROVE Contained(requires', R)
    <3>1. Contained(requires, R)
      BY <2>1 DEF PInv, NothingSpurious
    <3>2. ASSUME NEW f \in Funcs, NEW mfk \in FromCallee(f, callee) PROVE mfk \in R[f]
      <4>1. PICK cs \in CallSites(pkg) : cs.caller = f /\ cs.callee = callee /\ mfk \in PassedOn(cs, requires[callee])
        BY <3>2, FromCalleeTypes
      <4>2. requires[callee] \subseteq R[cs.callee]
        BY <3>1, <4>1 DEF Contained
      <4> QED
        BY <2>1, <4>1, <4>2, SolutionClosed
    <3> QED
      BY <1>4, <3>1, <3>2 DEF Contained
  <2>2. \A A \in LockSets : SolvesAcquires(pkg, A) => Contained(acquiresTransitive', A)
    BY <1>1 DEF PInv, NothingSpurious
  <2> QED
    BY <1>1, <2>1, <2>2, NothingSpuriousNext
<1> QED
  BY <1>6, <1>7, <1>8, <1>9 DEF PInv

LEMMA SeedStep ==
    ASSUME PInv, SeedAcquires
    PROVE  PInv'
<1>1. /\ pc = "requires" /\ pc' = "acquires" /\ pkg' = pkg /\ iteration' = 0 /\ changed' = TRUE
      /\ acquiresTransitive' = [f \in Funcs |-> acquiresTransitive[f] \cup pkg.acquires[f]]
      /\ known' = known /\ requires' = requires /\ pending' = pending /\ visited' = visited /\ site' = site
      /\ truncated' = changed
  BY DEF SeedAcquires
<1>2. TypeOK /\ pkg \in Inputs /\ pkg.acquires \in LockSets /\ CallSites(pkg)' = CallSites(pkg)
  BY <1>1, InputTypes DEF PInv, TypeOK, CallSites
<1>3. \A f \in Funcs : acquiresTransitive'[f] = acquiresTransitive[f] \cup pkg.acquires[f]
  BY <1>1
<1>4. acquiresTransitive' \in LockSets
  BY <1>1, <1>2 DEF TypeOK, LockSets
<1>5. TypeOK'
  BY <1>1, <1>2, <1>3, <1>4, PropagationAssumption DEF TypeOK
<1>6. WithinLimit' /\ Seeded'
  BY <1>1, <1>3 DEF PInv, WithinLimit, Seeded, Direct
<1>7. Settling'
  BY <1>1, <1>2 DEF PInv, Settling, RequiresClosed, PassedOn, callerHoldsMutex
<1>8. NothingSpurious'
  BY <1>1, <1>3 DEF PInv, NothingSpurious, SolvesRequires, SolvesAcquires, Contained, Direct, CallSites
<1> QED
  BY <1>5, <1>6, <1>7, <1>8 DEF PInv

LEMMA VisitSiteStep ==
    ASSUME PInv, VisitSite
    PROVE  PInv'
<1>0. PICK cs : cs = pkg.sites[site]
  OBVIOUS
<1>1. /\ pc = "sites" /\ pc' = "sites" /\ pkg' = pkg /\ iteration' = iteration /\ site <= Len(pkg.sites)
      /\ requires' = requires /\ pending' = pending /\ visited' = visited /\ site' = site + 1
      /\ truncated' = truncated
  BY DEF VisitSite
<1>2. /\ TypeOK /\ pkg \in Inputs /\ CallSites(pkg)' = CallSites(pkg) /\ acquiresTransitive \in LockSets
      /\ Len(pkg.sites) \in Nat /\ site \in 1..(Len(pkg.sites) + 1)
      /\ \A i \in 1..Len(pkg.sites) : pkg.sites[i] \in Sites
  BY <1>1, InputTypes DEF PInv, TypeOK, CallSites
<1>3. /\ site \in 1..Len(pkg.sites) /\ cs \in CallSites(pkg) /\ cs.caller \in Funcs /\ cs.callee \in Funcs
      /\ site + 1 \in 1..(Len(pkg.sites) + 1)
  BY <1>0, <1>1, <1>2 DEF CallSites, Sites
<1>4. /\ \A f \in Funcs : f # cs.caller => acquiresTransitive'[f] = acquiresTransitive[f]
      /\ acquiresTransitive'[cs.caller] = acquiresTransitive[cs.caller] \cup acquiresTransitive[cs.callee]
      /\ acquiresTransitive' \in LockSets
      /\ changed' \in BOOLEAN /\ (~changed' => ~changed /\ acquiresTransitive' = acquiresTransitive)
      /\ known \subseteq known' /\ known' \subseteq Funcs
      /\ cs.caller \in known' \/ acquiresTransitive'[cs.caller] = acquiresTransitive[cs.caller]
  <2>1. CASE cs.callee \in known
    <3>1. /\ acquiresTransitive' = [acquiresTransitive EXCEPT ![cs.caller] = @ \cup acquiresTransitive[cs.callee]]
          /\ known' = known \cup {cs.caller}
          /\ changed' = (changed \/ acquiresTransitive' # acquiresTransitive)
      BY <1>0, <2>1 DEF VisitSite
    <3>2. changed' \in BOOLEAN /\ (~changed' => ~changed /\ acquiresTransitive' = acquiresTransitive)
      BY <3>1
    <3> QED
      BY <1>2, <1>3, <3>1, <3>2 DEF LockSets, TypeOK
  <2>2. CASE cs.callee \notin known
    <3>1. known' = known /\ acquiresTransitive' = acquiresTransitive /\ changed' = changed
      BY <1>0, <2>2 DEF VisitSite
    <3>2. acquiresTransitive[cs.callee] = {}
      BY <1>2, <1>3, <2>2 DEF TypeOK
    <3>3. changed' \in BOOLEAN /\ (~changed' => ~changed)
      BY <1>2, <3>1 DEF TypeOK
    <3> QED
      BY <1>2, <1>3, <3>1, <3>2, <3>3 DEF TypeOK
  <2> QED
    BY <2>1, <2>2
<1>5. TypeOK'
  <2>1. \A f \in Funcs \ known' : requires'[f] \cup acquiresTransitive'[f] \cup pkg'.acquires[f] = {}
    BY <1>1, <1>2, <1>4 DEF TypeOK
  <2>2. site' \in 1..(Len(pkg'.sites) + 1)
    BY <1>1, <1>3
  <2> QED
    BY <1>1, <1>2, <1>4, <2>1, <2>2 DEF TypeOK
<1>6. \A f \in Funcs : acquiresTransitive[f] \subseteq acquiresTransitive'[f]
  BY <1>4
<1>7. WithinLimit' /\ Seeded'
  <2>1. WithinLimit'
    BY <1>1 DEF PInv, WithinLimit
  <2>2. Seeded'
    BY <1>1, <1>6 DEF PInv, Seeded, Direct
  <2> QED
    BY <2>1, <2>2
<1>8. Settling'
  <2>1. ~truncated => RequiresClosed(CallSites(pkg))
    BY <1>1 DEF PInv, Settling
  <2>2. ~truncated' => RequiresClosed(CallSites(pkg))'
    BY <1>1, <1>2, <2>1 DEF RequiresClosed, PassedOn, callerHoldsMutex
  <2>3. ASSUME ~changed', NEW i \in 1..site
        PROVE  acquiresTransitive'[pkg.sites[i].callee] \subseteq acquiresTransitive'[pkg.sites[i].caller]
    <3>1. /\ ~changed /\ acquiresTransitive' = acquiresTransitive
          /\ AcquiresClosed({pkg.sites[j] : j \in 1..(site - 1)})
      BY <1>1, <1>4, <2>3 DEF PInv, Settling
    <3>2. CASE i = site
      BY <1>0, <1>4, <3>1, <3>2
    <3>3. CASE i # site
      <4>1. i \in 1..(site - 1)
        BY <1>2, <3>3
      <4> QED
        BY <3>1, <4>1 DEF AcquiresClosed
    <3> QED
      BY <3>2, <3>3
  <2>4. site' - 1 = site
    BY <1>1, <1>2
  <2>5. ~changed' => AcquiresClosed({pkg.sites[i] : i \in 1..(site - 1)})'
    BY <1>1, <2>3, <2>4 DEF AcquiresClosed
  <2> QED
    BY <1>1, <2>2, <2>5 DEF Settling
<1>9. NothingSpurious'
  <2>1. ASSUME NEW A \in LockSets, SolvesAcquires(pkg, A) PROVE Contained(acquiresTransitive', A)
    <3>1. Contained(acquiresTransitive, A)
      BY <2>1 DEF PInv, NothingSpurious
    <3>2. A[cs.callee] \subseteq A[cs.caller]
      BY <1>3, <2>1 DEF SolvesAcquires
    <3> QED
      BY <1>3, <1>4, <3>1, <3>2 DEF Contained
  <2>2. \A R \in LockSets : SolvesRequires(pkg, R) => Contained(requires', R)
    BY <1>1 DEF PInv, NothingSpurious
  <2> QED
    BY <1>1, <2>1, <2>2, NothingSpuriousNext
<1> QED
  BY <1>5, <1>7, <1>8, <1>9 DEF PInv

\* The steps that only move the control.
LEMMA ControlStep ==
    ASSUME PInv, StartRange \/ EndRange \/ StartSites \/ EndSites \/ Finish \/ UNCHANGED vars
    PROVE  PInv'
<1>1. /\ pkg' = pkg /\ known' = known /\ requires' = requires /\ acquiresTransitive' = acquiresTransitive
  BY DEF StartRange, EndRange, StartSites, EndSites, Finish, vars
<1>2. /\ TypeOK /\ pkg \in Inputs /\ CallSites(pkg)' = CallSites(pkg) /\ Len(pkg.sites) \in Nat
      /\ iteration \in Nat /\ iteration <= MaxIterations
  BY <1>1, InputTypes, PropagationAssumption DEF PInv, TypeOK, CallSites
<1>3. NothingSpurious'
  <2>1. /\ \A R \in LockSets : SolvesRequires(pkg, R) => Contained(requires', R)
        /\ \A A \in LockSets : SolvesAcquires(pkg, A) => Contained(acquiresTransitive', A)
    BY <1>1 DEF PInv, NothingSpurious
  <2> QED
    BY <1>1, <2>1, NothingSpuriousNext
<1>4. /\ \A S : (\A cs \in S : PassedOn(cs, requires[cs.callee])' = PassedOn(cs, requires[cs.callee]))
      /\ RequiresClosed(CallSites(pkg))' <=> RequiresClosed(CallSites(pkg))
      /\ AcquiresClosed(CallSites(pkg))' <=> AcquiresClosed(CallSites(pkg))
  BY <1>1, <1>2 DEF RequiresClosed, AcquiresClosed, PassedOn, callerHoldsMutex
<1>5. CASE StartRange
  <2>1. /\ pc = "requires" /\ pc' = "range" /\ changed' = FALSE /\ pending' = known /\ visited' = {}
        /\ iteration' = iteration /\ site' = site /\ truncated' = truncated /\ iteration < MaxIterations
    BY <1>5 DEF StartRange, Again
  <2>2. TypeOK'
    BY <1>1, <1>2, <2>1 DEF TypeOK
  <2>3. WithinLimit' /\ Seeded'
    BY <1>1, <2>1 DEF PInv, WithinLimit, Seeded, Direct
  <2>4. Settling'
    BY <1>1, <2>1 DEF Settling, RequiresClosed
  <2> QED
    BY <1>3, <2>2, <2>3, <2>4 DEF PInv
<1>6. CASE EndRange
  <2>1. /\ pc = "range" /\ pc' = "requires" /\ changed' = changed /\ pending' = pending /\ visited' = visited
        /\ iteration' = iteration + 1 /\ site' = site /\ truncated' = truncated /\ pending = {}
    BY <1>6 DEF EndRange
  <2>2. iteration' \in 0..MaxIterations
    BY <1>2, <2>1, PropagationAssumption DEF PInv, WithinLimit
  <2>3. TypeOK'
    BY <1>1, <1>2, <2>1, <2>2 DEF TypeOK
  <2>4. WithinLimit' /\ Seeded'
    BY <1>1, <2>1 DEF PInv, WithinLimit, Seeded, Direct
  <2>5. ASSUME ~changed PROVE RequiresClosed(CallSites(pkg))
    <3>1. known \subseteq visited /\ RequiresClosed({cs \in CallSites(pkg) : cs.callee \in visited})
      BY <2>1, <2>5 DEF PInv, Settling
    <3>2. \A cs \in CallSites(pkg) : cs \in Sites
      BY <1>2, InputTypes
    <3>3. \A cs \in CallSites(pkg) : cs.callee \notin known => PassedOn(cs, requires[cs.callee]) = {}
      BY <1>2, <3>2 DEF TypeOK, Sites, PassedOn
    <3> QED
      BY <3>1, <3>3 DEF RequiresClosed
  <2>6. Settling'
    BY <1>1, <1>4, <2>1, <2>5 DEF Settling
  <2> QED
    BY <1>3, <2>3, <2>4, <2>6 DEF PInv
<1>7. CASE StartSites
  <2>1. /\ pc = "acquires" /\ pc' = "sites" /\ changed' = FALSE /\ pending' = pending /\ visited' = visited
        /\ iteration' = iteration /\ site' = 1 /\ truncated' = truncated /\ iteration < MaxIterations
    BY <1>7 DEF StartSites, Again
  <2>2. site' \in 1..(Len(pkg'.sites) + 1) /\ 1..(site' - 1) = {}
    BY <1>1, <1>2, <2>1
  <2>3. TypeOK'
    BY <1>1, <1>2, <2>1, <2>2 DEF TypeOK
  <2>4. WithinLimit' /\ Seeded'
    BY <1>1, <2>1 DEF PInv, WithinLimit, Seeded, Direct
  <2>5. AcquiresClosed({pkg.sites[i] : i \in 1..(site - 1)})'
    BY <2>2 DEF AcquiresClosed
  <2>6. ~truncated => RequiresClosed(CallSites(pkg))
    BY <2>1 DEF PInv, Settling
  <2>7. Settling'
    BY <1>4, <2>1, <2>5, <2>6 DEF Settling
  <2> QED
    BY <1>3, <2>3, <2>4, <2>7 DEF PInv
<1>8. CASE EndSites
  <2>1. /\ pc = "sites" /\ pc' = "acquires" /\ changed' = changed /\ pending' = pending /\ visited' = visited
        /\ iteration' = iteration + 1 /\ site' = site /\ truncated' = truncated /\ site > Len(pkg.sites)
    BY <1>8 DEF EndSites
  <2>2. iteration' \in 0..MaxIterations
    BY <1>2, <2>1, PropagationAssumption DEF PInv, WithinLimit
  <2>3. TypeOK'
    BY <1>1, <1>2, <2>1, <2>2 DEF TypeOK
  <2>4. WithinLimit' /\ Seeded'
    BY <1>1, <2>1 DEF PInv, WithinLimit, Seeded, Direct
  <2>5. site - 1 = Len(pkg.sites)
    BY <1>2, <2>1 DEF TypeOK
  <2>6. ~changed => AcquiresClosed(CallSites(pkg))
    BY <2>1, <2>5 DEF PInv, Settling, CallSites
  <2>7. ~truncated => RequiresClosed(CallSites(pkg))
    BY <2>1 DEF PInv, Settling
  <2>8. Settling'
    BY <1>4, <2>1, <2>6, <2>7 DEF Settling
  <2> QED
    BY <1>3, <2>3, <2>4, <2>8 DEF PInv
<1>9. CASE Finish
  <2>1. /\ pc = "acquires" /\ pc' = "done" /\ changed' = changed /\ pending' = pending /\ visited' = visited
        /\ iteration' = iteration /\ site' = site
    BY <1>9 DEF Finish
  <2>2. truncated' \in BOOLEAN /\ (~truncated' => ~truncated /\ ~changed)
    BY <1>9 DEF Finish
  <2>3. TypeOK'
    BY <1>1, <1>2, <2>1, <2>2 DEF TypeOK
  <2>4. WithinLimit' /\ Seeded'
    BY <1>1, <2>1 DEF PInv, WithinLimit, Seeded, Direct
  <2>5. (~truncated /\ ~changed) => RequiresClosed(CallSites(pkg)) /\ AcquiresClosed(CallSites(pkg))
    BY <2>1 DEF PInv, Settling
  <2>6. Settling'
    BY <1>4, <2>1, <2>2, <2>5 DEF Settling
  <2> QED
    BY <1>3, <2>3, <2>4, <2>6 DEF PInv
<1>10. CASE UNCHANGED vars
  <2>1. /\ pc' = pc /\ changed' = changed /\ pending' = pending /\ visited' = visited
        /\ iteration' = iteration /\ site' = site /\ truncated' = truncated
    BY <1>10 DEF vars
  <2>2. TypeOK' /\ WithinLimit' /\ Seeded'
    BY <1>1, <1>2, <2>1 DEF PInv, TypeOK, WithinLimit, Seeded, Direct
  <2>3. Settling'
    BY <1>1, <2>1 DEF PInv, Settling, RequiresClosed, AcquiresClosed, PassedOn, callerHoldsMutex, CallSites
  <2> QED
    BY <1>3, <2>2, <2>3 DEF PInv
<1> QED
  BY <1>5, <1>6, <1>7, <1>8, <1>9, <1>10

LEMMA PStep == PInv /\ [Next]_vars => PInv'
BY DeriveStep, VisitCalleeStep, SeedStep, VisitSiteStep, ControlStep DEF Next

-----------------------------------------------------------------------------
\* funcFacts and the variables of the loops keep their types, and a function without
\* an entry in funcFacts never has a lock.
THEOREM PropagationTypes == Spec => []TypeOK
<1>1. PInv => TypeOK
  BY DEF PInv
<1> QED
  BY <1>1, PInit, PStep, PTL DEF Spec

\* Whatever the package and the order of the ranges, propagateRequirements records
\* only requirements and acquisitions that every solution has.
THEOREM NoSpuriousSummaries == Spec => []NothingSpurious
<1>1. PInv => NothingSpurious
  BY DEF PInv
<1> QED
  BY <1>1, PInit, PStep, PTL DEF Spec

\* The loops have reached a solution when they end by themselves.
LEMMA Solved ==
    ASSUME PInv, pc = "acquires", ~truncated, ~changed
    PROVE  SolvesRequires(pkg, requires) /\ SolvesAcquires(pkg, acquiresTransitive)
<1>1. RequiresClosed(CallSites(pkg)) /\ AcquiresClosed(CallSites(pkg))
  BY DEF PInv, Settling
<1>2. \A f \in Funcs : /\ pkg.requires[f] \cup Direct(pkg, f) \subseteq requires[f]
                       /\ pkg.acquiresTransitive[f] \cup pkg.acquires[f] \subseteq acquiresTransitive[f]
  BY DEF PInv, Seeded
<1>3. \A cs \in CallSites(pkg) : \A mfk \in requires[cs.callee] :
        mfk \in cs.held \/ cs.prePublication \/ mfk \in requires[cs.caller]
  BY <1>1 DEF RequiresClosed, PassedOn, callerHoldsMutex
<1> QED
  BY <1>1, <1>2, <1>3 DEF SolvesRequires, SolvesAcquires, AcquiresClosed

\* Unless maxIterations cuts a loop short, propagateRequirements implements Summary,
\* for every package: the later phases see the least requirements and acquisitions.
THEOREM ComputesLeastSummaries == Spec /\ []NeverTruncated => Implements
<1> DEFINE result == IF pc = "done" THEN <<requires, acquiresTransitive>> ELSE <<>>
<1>1. Init => Abstract!Init
  BY DEF Init, Abstract!Init
<1>2. ASSUME PInv, NeverTruncated', [Next]_vars
      PROVE  [Abstract!Compute]_<<pkg, result>>
  <2>1. pkg' = pkg
    BY <1>2 DEF Next, vars, DeriveInitialRequirements, StartRange, VisitCallee, EndRange, SeedAcquires,
                StartSites, VisitSite, EndSites, Finish
  <2>2. CASE Finish
    <3>1. /\ pc = "acquires" /\ pc' = "done" /\ requires' = requires
          /\ acquiresTransitive' = acquiresTransitive /\ ~truncated /\ ~changed
      BY <1>2, <2>2 DEF Finish, NeverTruncated
    <3>2. result = <<>> /\ result' = <<requires, acquiresTransitive>>
      BY <3>1
    <3>3. SolvesRequires(pkg, requires) /\ SolvesAcquires(pkg, acquiresTransitive)
      BY <1>2, <3>1, Solved
    <3>4. /\ requires \in LockSets /\ acquiresTransitive \in LockSets
          /\ \A R \in LockSets : SolvesRequires(pkg, R) => Contained(requires, R)
          /\ \A A \in LockSets : SolvesAcquires(pkg, A) => Contained(acquiresTransitive, A)
      BY <1>2 DEF PInv, TypeOK, NothingSpurious
    <3>5. /\ Abstract!LockSets = LockSets
          /\ \A R : Abstract!SolvesRequires(pkg, R) <=> SolvesRequires(pkg, R)
          /\ \A R : Abstract!SolvesAcquires(pkg, R) <=> SolvesAcquires(pkg, R)
          /\ \A R, S : Abstract!Contained(R, S) <=> Contained(R, S)
      BY DEF Abstract!LockSets, LockSets, Abstract!SolvesRequires, SolvesRequires, Abstract!SolvesAcquires,
             SolvesAcquires, Abstract!Contained, Contained, Abstract!CallSites, CallSites, Abstract!Direct, Direct
    <3> HIDE DEF result
    <3>6. /\ result' \in LockSets \X LockSets /\ result'[1] = requires /\ result'[2] = acquiresTransitive
      BY <3>2, <3>4
    <3>7. Abstract!IsLeast(requires, Abstract!SolvesRequires) /\ Abstract!IsLeast(acquiresTransitive, Abstract!SolvesAcquires)
      BY <3>3, <3>4, <3>5 DEF Abstract!IsLeast
    <3> QED
      BY <2>1, <3>2, <3>5, <3>6, <3>7 DEF Abstract!Compute, result
  <2>3. CASE ~Finish
    <3>1. (pc' # "done" /\ pc # "done") \/ UNCHANGED <<pc, requires, acquiresTransitive>>
      BY <1>2, <2>3 DEF Next, vars, DeriveInitialRequirements, StartRange, VisitCallee, EndRange, SeedAcquires,
                StartSites, VisitSite, EndSites
    <3>2. result' = result
      BY <3>1
    <3> QED
      BY <2>1, <3>2
  <2> QED
    BY <2>2, <2>3
<1> QED
  BY <1>1, <1>2, PInit, PStep, PTL DEF Spec, Implements, Abstract!Spec

-----------------------------------------------------------------------------
(* The iteration limit. *)

\* Everybody who has lock k.
Requiring(k) == {f \in Funcs : k \in requires[f]}
Acquiring(k) == {f \in Funcs : k \in acquiresTransitive[f]}

\* The call sites of S pass lock k on to nobody who does not have it.
RequiresClosedFor(k, S) ==
    \A cs \in S : k \in PassedOn(cs, requires[cs.callee]) => k \in requires[cs.caller]
AcquiresClosedFor(k, S) ==
    \A cs \in S : k \in acquiresTransitive[cs.callee] => k \in acquiresTransitive[cs.caller]

\* As long as a lock has not reached everybody it must, each round takes it one
\* function further.
RequiresAdvance ==
    /\ pc = "requires" =>
         /\ \A k \in MutexKeys : \/ RequiresClosedFor(k, CallSites(pkg))
                                 \/ iteration + 1 <= Cardinality(Requiring(k))
         /\ changed => iteration = 0 \/ \E k \in MutexKeys : iteration + 1 <= Cardinality(Requiring(k))
    /\ pc = "range" =>
         /\ \A k \in MutexKeys :
              \/ RequiresClosedFor(k, CallSites(pkg))
              \/ iteration + 2 <= Cardinality(Requiring(k))
              \/ /\ iteration + 1 <= Cardinality(Requiring(k))
                 /\ Requiring(k) \subseteq visited \cup pending
                 /\ RequiresClosedFor(k, {cs \in CallSites(pkg) : cs.callee \in visited})
         /\ changed => \E k \in MutexKeys : iteration + 2 <= Cardinality(Requiring(k))

AcquiresAdvance ==
    /\ pc = "acquires" =>
         /\ \A k \in MutexKeys : \/ AcquiresClosedFor(k, CallSites(pkg))
                                 \/ iteration + 1 <= Cardinality(Acquiring(k))
         /\ changed => iteration = 0 \/ \E k \in MutexKeys : iteration + 1 <= Cardinality(Acquiring(k))
    /\ pc = "sites" =>
         /\ \A k \in MutexKeys :
              \/ AcquiresClosedFor(k, CallSites(pkg))
              \/ iteration + 2 <= Cardinality(Acquiring(k))
              \/ /\ iteration + 1 <= Cardinality(Acquiring(k))
                 /\ AcquiresClosedFor(k, {pkg.sites[i] : i \in 1..(site - 1)})
         /\ changed => \E k \in MutexKeys : iteration + 2 <= Cardinality(Acquiring(k))

LInv == PInv /\ NeverTruncated /\ RequiresAdvance /\ AcquiresAdvance

\* The limit is no smaller than the number of functions.
LimitSuffices == IsFiniteSet(Funcs) /\ Cardinality(Funcs) <= MaxIterations /\ MaxIterations > 0

LEMMA SmallerSet ==
    ASSUME IsFiniteSet(Funcs), NEW T \in SUBSET Funcs, NEW S \in SUBSET T
    PROVE  /\ Cardinality(S) \in Nat /\ Cardinality(T) \in Nat /\ Cardinality(Funcs) \in Nat
           /\ Cardinality(S) <= Cardinality(T) /\ Cardinality(T) <= Cardinality(Funcs)
           /\ S # T => Cardinality(S) + 1 <= Cardinality(T)
           /\ S # {} => 1 <= Cardinality(S)
<1>1. IsFiniteSet(T) /\ Cardinality(T) <= Cardinality(Funcs)
  BY FS_Subset
<1>2. IsFiniteSet(S) /\ Cardinality(S) <= Cardinality(T) /\ (Cardinality(T) = Cardinality(S) => T = S)
  BY <1>1, FS_Subset
<1>3. Cardinality(S) \in Nat /\ Cardinality(T) \in Nat /\ Cardinality(Funcs) \in Nat
  BY <1>1, <1>2, FS_CardinalityType
<1>4. S # {} => Cardinality(S) # 0
  BY <1>2, FS_EmptySet
<1> QED
  BY <1>1, <1>2, <1>3, <1>4

\* A lock that is passed on has a holder.
LEMMA NotClosedNext ==
    ASSUME LimitSuffices, PInv', NEW k
    PROVE  /\ RequiresClosedFor(k, CallSites(pkg))' \/ 1 <= Cardinality(Requiring(k)')
           /\ AcquiresClosedFor(k, CallSites(pkg))' \/ 1 <= Cardinality(Acquiring(k)')
<1>1. CallSites(pkg)' \subseteq Sites
  BY InputTypes DEF PInv, TypeOK, CallSites
<1>2. \A cs \in CallSites(pkg)' : cs.callee \in Funcs
  BY <1>1 DEF Sites
<1>3. /\ RequiresClosedFor(k, CallSites(pkg))' \/ Requiring(k)' # {}
      /\ AcquiresClosedFor(k, CallSites(pkg))' \/ Acquiring(k)' # {}
  BY <1>2 DEF RequiresClosedFor, AcquiresClosedFor, PassedOn, Requiring, Acquiring
<1>4. Requiring(k)' \in SUBSET Funcs /\ Acquiring(k)' \in SUBSET Funcs
  BY DEF Requiring, Acquiring
<1> QED
  BY <1>3, <1>4, SmallerSet DEF LimitSuffices

LEMMA VisitCalleeAdvances ==
    ASSUME LimitSuffices, LInv, PInv', NEW callee \in Funcs, VisitCallee(callee)
    PROVE  LInv'
<1>1. /\ pc = "range" /\ pc' = "range" /\ pkg' = pkg /\ iteration' = iteration /\ truncated' = truncated
      /\ requires' = [f \in Funcs |-> requires[f] \cup FromCallee(f, callee)]
      /\ visited' = visited \cup {callee} /\ pending' = pending \ {callee}
      /\ CallSites(pkg)' = CallSites(pkg) /\ iteration \in Nat
  BY PropagationAssumption DEF VisitCallee, LInv, PInv, TypeOK, CallSites
<1>2. (changed' => changed \/ requires' # requires) /\ CallSites(pkg) \subseteq Sites
  BY InputTypes DEF VisitCallee, LInv, PInv, TypeOK
<1>3. \A f \in Funcs : requires'[f] = requires[f] \cup FromCallee(f, callee)
  BY <1>1
<1>4. ASSUME NEW k
      PROVE  /\ Requiring(k) \subseteq Requiring(k)' /\ Requiring(k)' \subseteq Funcs
             /\ Cardinality(Requiring(k)) \in Nat /\ Cardinality(Requiring(k)') \in Nat
             /\ Cardinality(Requiring(k)) <= Cardinality(Requiring(k)')
             /\ Requiring(k)' # Requiring(k) => Cardinality(Requiring(k)) + 1 <= Cardinality(Requiring(k)')
  <2>1. Requiring(k) \subseteq Requiring(k)' /\ Requiring(k)' \subseteq Funcs
    BY <1>3 DEF Requiring
  <2> QED
    BY <2>1, SmallerSet DEF LimitSuffices
<1>5. ASSUME NEW k, RequiresClosedFor(k, CallSites(pkg))
      PROVE  Requiring(k)' = Requiring(k) /\ RequiresClosedFor(k, CallSites(pkg))'
  <2>1. ASSUME NEW f \in Funcs, k \in FromCallee(f, callee) PROVE k \in requires[f]
    <3>1. PICK cs \in CallSites(pkg) : cs.caller = f /\ cs.callee = callee /\ k \in PassedOn(cs, requires[callee])
      BY <2>1, FromCalleeTypes
    <3> QED
      BY <1>5, <3>1 DEF RequiresClosedFor
  <2>2. \A f \in Funcs : k \in requires'[f] <=> k \in requires[f]
    BY <1>3, <2>1
  <2>3. \A cs \in CallSites(pkg) : cs.caller \in Funcs /\ cs.callee \in Funcs
    BY <1>2 DEF Sites
  <2> QED
    BY <1>1, <1>5, <2>2, <2>3 DEF Requiring, RequiresClosedFor, PassedOn, callerHoldsMutex
<1>6. ASSUME NEW k \in MutexKeys
      PROVE  \/ RequiresClosedFor(k, CallSites(pkg))'
             \/ iteration' + 2 <= Cardinality(Requiring(k)')
             \/ /\ iteration' + 1 <= Cardinality(Requiring(k)')
                /\ Requiring(k)' \subseteq visited' \cup pending'
                /\ RequiresClosedFor(k, {cs \in CallSites(pkg) : cs.callee \in visited})'
  <2>1. CASE RequiresClosedFor(k, CallSites(pkg))
    BY <1>5, <2>1
  <2>2. CASE iteration + 2 <= Cardinality(Requiring(k))
    BY <1>1, <1>4, <2>2
  <2>3. CASE /\ iteration + 1 <= Cardinality(Requiring(k))
             /\ Requiring(k) \subseteq visited \cup pending
             /\ RequiresClosedFor(k, {cs \in CallSites(pkg) : cs.callee \in visited})
    <3>1. CASE Requiring(k)' # Requiring(k)
      BY <1>1, <1>4, <2>3, <3>1
    <3>2. CASE Requiring(k)' = Requiring(k)
      <4>1. Requiring(k)' \subseteq visited' \cup pending'
        BY <1>1, <2>3, <3>2
      <4>2. \A f \in Funcs : k \in requires'[f] <=> k \in requires[f]
        BY <3>2 DEF Requiring
      <4>3. ASSUME NEW cs \in CallSites(pkg), cs.callee \in visited',
                   k \in PassedOn(cs, requires[cs.callee])
            PROVE  k \in requires[cs.caller]
        <5>1. cs.caller \in Funcs /\ cs.callee \in Funcs
          BY <1>2 DEF Sites
        <5>2. CASE cs.callee \in visited
          BY <2>3, <4>3, <5>2 DEF RequiresClosedFor
        <5>3. CASE cs.callee = callee
          <6>1. k \in FromCallee(cs.caller, callee)
            BY <4>3, <5>3, FromCalleeTypes
          <6> QED
            BY <1>3, <4>2, <5>1, <6>1
        <5> QED
          BY <1>1, <4>3, <5>2, <5>3
      <4>4. \A cs \in CallSites(pkg) : cs.caller \in Funcs /\ cs.callee \in Funcs
        BY <1>2 DEF Sites
      <4>5. RequiresClosedFor(k, {cs \in CallSites(pkg) : cs.callee \in visited})'
        BY <1>1, <4>2, <4>3, <4>4 DEF RequiresClosedFor, PassedOn, callerHoldsMutex
      <4> QED
        BY <1>1, <1>4, <2>3, <4>1, <4>5
    <3> QED
      BY <3>1, <3>2
  <2> QED
    BY <1>1, <2>1, <2>2, <2>3 DEF LInv, RequiresAdvance
<1>7. ASSUME changed' PROVE \E k \in MutexKeys : iteration' + 2 <= Cardinality(Requiring(k)')
  <2>1. CASE changed
    <3>1. PICK k \in MutexKeys : iteration + 2 <= Cardinality(Requiring(k))
      BY <1>1, <2>1 DEF LInv, RequiresAdvance
    <3> QED
      BY <1>1, <1>4, <3>1
  <2>2. CASE requires' # requires
    <3>1. requires \in LockSets /\ requires' \in LockSets
      BY DEF LInv, PInv, TypeOK
    <3>2. PICK f \in Funcs : requires'[f] # requires[f]
      BY <2>2, <3>1 DEF LockSets
    <3>3. PICK k \in MutexKeys : k \in requires'[f] /\ k \notin requires[f]
      BY <1>3, <3>1, <3>2 DEF LockSets
    <3>4. Requiring(k)' # Requiring(k)
      BY <3>3 DEF Requiring
    <3>5. iteration + 1 <= Cardinality(Requiring(k))
      <4>1. ~RequiresClosedFor(k, CallSites(pkg))
        BY <1>5, <3>4
      <4>2. \/ iteration + 2 <= Cardinality(Requiring(k))
            \/ iteration + 1 <= Cardinality(Requiring(k))
        BY <1>1, <4>1 DEF LInv, RequiresAdvance
      <4> QED
        BY <1>1, <1>4, <4>2
    <3> QED
      BY <1>1, <1>4, <3>4, <3>5
  <2> QED
    BY <1>2, <1>7, <2>1, <2>2
<1>8. RequiresAdvance' /\ AcquiresAdvance' /\ NeverTruncated'
  BY <1>1, <1>6, <1>7 DEF RequiresAdvance, AcquiresAdvance, NeverTruncated, LInv
<1> QED
  BY <1>8 DEF LInv

LEMMA VisitSiteAdvances ==
    ASSUME LimitSuffices, LInv, PInv', VisitSite
    PROVE  LInv'
<1>0. PICK cs : cs = pkg.sites[site]
  OBVIOUS
<1>1. /\ pc = "sites" /\ pc' = "sites" /\ pkg' = pkg /\ iteration' = iteration /\ truncated' = truncated
      /\ site <= Len(pkg.sites) /\ site' = site + 1
      /\ CallSites(pkg)' = CallSites(pkg) /\ iteration \in Nat
  BY PropagationAssumption DEF VisitSite, LInv, PInv, TypeOK, CallSites
<1>2. /\ acquiresTransitive \in LockSets /\ acquiresTransitive' \in LockSets /\ CallSites(pkg) \subseteq Sites
      /\ Len(pkg.sites) \in Nat /\ site \in 1..(Len(pkg.sites) + 1)
  BY InputTypes DEF LInv, PInv, TypeOK
<1>3. cs \in CallSites(pkg) /\ \A c \in CallSites(pkg) : c.caller \in Funcs /\ c.callee \in Funcs
  <2>1. site \in 1..Len(pkg.sites)
    BY <1>1, <1>2
  <2> QED
    BY <1>0, <1>2, <2>1 DEF CallSites, Sites
<1>4. /\ \A f \in Funcs : f # cs.caller => acquiresTransitive'[f] = acquiresTransitive[f]
      /\ acquiresTransitive'[cs.caller] = acquiresTransitive[cs.caller] \cup acquiresTransitive[cs.callee]
      /\ changed' => changed \/ acquiresTransitive' # acquiresTransitive
  <2>1. CASE cs.callee \in known
    <3>1. /\ acquiresTransitive' = [acquiresTransitive EXCEPT ![cs.caller] = @ \cup acquiresTransitive[cs.callee]]
          /\ changed' => changed \/ acquiresTransitive' # acquiresTransitive
      BY <1>0, <2>1 DEF VisitSite
    <3> QED
      BY <1>2, <1>3, <3>1 DEF LockSets
  <2>2. CASE cs.callee \notin known
    <3>1. acquiresTransitive' = acquiresTransitive /\ changed' = changed
      BY <1>0, <2>2 DEF VisitSite
    <3>2. acquiresTransitive[cs.callee] = {}
      BY <1>3, <2>2 DEF LInv, PInv, TypeOK
    <3> QED
      BY <3>1, <3>2
  <2> QED
    BY <2>1, <2>2
<1>5. ASSUME NEW k
      PROVE  /\ Acquiring(k) \subseteq Acquiring(k)' /\ Acquiring(k)' \subseteq Funcs
             /\ Cardinality(Acquiring(k)) \in Nat /\ Cardinality(Acquiring(k)') \in Nat
             /\ Cardinality(Acquiring(k)) <= Cardinality(Acquiring(k)')
             /\ Acquiring(k)' # Acquiring(k) => Cardinality(Acquiring(k)) + 1 <= Cardinality(Acquiring(k)')
  <2>1. Acquiring(k) \subseteq Acquiring(k)' /\ Acquiring(k)' \subseteq Funcs
    BY <1>4 DEF Acquiring
  <2> QED
    BY <2>1, SmallerSet DEF LimitSuffices
<1>6. ASSUME NEW k, AcquiresClosedFor(k, CallSites(pkg))
      PROVE  Acquiring(k)' = Acquiring(k) /\ AcquiresClosedFor(k, CallSites(pkg))'
  <2>1. \A f \in Funcs : k \in acquiresTransitive'[f] <=> k \in acquiresTransitive[f]
    BY <1>3, <1>4, <1>6 DEF AcquiresClosedFor
  <2> QED
    BY <1>1, <1>3, <1>6, <2>1 DEF Acquiring, AcquiresClosedFor
<1>7. ASSUME NEW k \in MutexKeys
      PROVE  \/ AcquiresClosedFor(k, CallSites(pkg))'
             \/ iteration' + 2 <= Cardinality(Acquiring(k)')
             \/ /\ iteration' + 1 <= Cardinality(Acquiring(k)')
                /\ AcquiresClosedFor(k, {pkg.sites[i] : i \in 1..(site - 1)})'
  <2>1. CASE AcquiresClosedFor(k, CallSites(pkg))
    BY <1>6, <2>1
  <2>2. CASE iteration + 2 <= Cardinality(Acquiring(k))
    BY <1>1, <1>5, <2>2
  <2>3. CASE /\ iteration + 1 <= Cardinality(Acquiring(k))
             /\ AcquiresClosedFor(k, {pkg.sites[i] : i \in 1..(site - 1)})
    <3>1. CASE Acquiring(k)' # Acquiring(k)
      BY <1>1, <1>5, <2>3, <3>1
    <3>2. CASE Acquiring(k)' = Acquiring(k)
      <4>1. \A f \in Funcs : k \in acquiresTransitive'[f] <=> k \in acquiresTransitive[f]
        BY <3>2 DEF Acquiring
      <4>2. ASSUME NEW i \in 1..site, k \in acquiresTransitive[pkg.sites[i].callee]
            PROVE  k \in acquiresTransitive[pkg.sites[i].caller]
        <5>1. CASE i = site
          BY <1>0, <1>3, <1>4, <4>1, <4>2, <5>1
        <5>2. CASE i # site
          <6>1. i \in 1..(site - 1)
            BY <1>2, <5>2
          <6> QED
            BY <2>3, <4>2, <6>1 DEF AcquiresClosedFor
        <5> QED
          BY <5>1, <5>2
      <4>3. \A i \in 1..site : pkg.sites[i].caller \in Funcs /\ pkg.sites[i].callee \in Funcs
        <5>1. \A i \in 1..site : pkg.sites[i] \in CallSites(pkg)
          BY <1>1, <1>2 DEF CallSites
        <5> QED
          BY <1>3, <5>1
      <4>4. site' - 1 = site
        BY <1>1, <1>2
      <4>5. AcquiresClosedFor(k, {pkg.sites[i] : i \in 1..(site - 1)})'
        BY <1>1, <4>1, <4>2, <4>3, <4>4 DEF AcquiresClosedFor
      <4> QED
        BY <1>1, <1>5, <2>3, <4>5
    <3> QED
      BY <3>1, <3>2
  <2> QED
    BY <1>1, <2>1, <2>2, <2>3 DEF LInv, AcquiresAdvance
<1>8. ASSUME changed' PROVE \E k \in MutexKeys : iteration' + 2 <= Cardinality(Acquiring(k)')
  <2>1. CASE changed
    <3>1. PICK k \in MutexKeys : iteration + 2 <= Cardinality(Acquiring(k))
      BY <1>1, <2>1 DEF LInv, AcquiresAdvance
    <3> QED
      BY <1>1, <1>5, <3>1
  <2>2. CASE acquiresTransitive' # acquiresTransitive
    <3>1. PICK f \in Funcs : acquiresTransitive'[f] # acquiresTransitive[f]
      BY <1>2, <2>2 DEF LockSets
    <3>2. PICK k \in MutexKeys : k \in acquiresTransitive'[f] /\ k \notin acquiresTransitive[f]
      BY <1>2, <1>4, <3>1 DEF LockSets
    <3>3. Acquiring(k)' # Acquiring(k)
      BY <3>2 DEF Acquiring
    <3>4. ~AcquiresClosedFor(k, CallSites(pkg))
      BY <1>6, <3>3
    <3>5. \/ iteration + 2 <= Cardinality(Acquiring(k))
          \/ iteration + 1 <= Cardinality(Acquiring(k))
      BY <1>1, <3>4 DEF LInv, AcquiresAdvance
    <3> QED
      BY <1>1, <1>5, <3>3, <3>5
  <2> QED
    BY <1>4, <1>8, <2>1, <2>2
<1>9. RequiresAdvance' /\ AcquiresAdvance' /\ NeverTruncated'
  BY <1>1, <1>7, <1>8 DEF RequiresAdvance, AcquiresAdvance, NeverTruncated, LInv
<1> QED
  BY <1>9 DEF LInv

\* Where a loop begins, and where it ends: it cannot have been cut short.
LEMMA LoopsAdvance ==
    ASSUME LimitSuffices, LInv, PInv', DeriveInitialRequirements \/ SeedAcquires \/ Finish
    PROVE  LInv'
<1>1. /\ Cardinality(Funcs) \in Nat /\ MaxIterations \in Nat /\ iteration \in Nat
      /\ \A k : Cardinality(Requiring(k)) \in Nat /\ Cardinality(Requiring(k)) <= Cardinality(Funcs)
      /\ \A k : Cardinality(Acquiring(k)) \in Nat /\ Cardinality(Acquiring(k)) <= Cardinality(Funcs)
  <2>1. \A k : Requiring(k) \subseteq Funcs /\ Acquiring(k) \subseteq Funcs
    BY DEF Requiring, Acquiring
  <2>2. MaxIterations \in Nat /\ iteration \in Nat
    BY PropagationAssumption DEF LInv, PInv, TypeOK
  <2> QED
    BY <2>1, <2>2, SmallerSet DEF LimitSuffices
<1>2. \A k : /\ RequiresClosedFor(k, CallSites(pkg))' \/ 1 <= Cardinality(Requiring(k)')
             /\ AcquiresClosedFor(k, CallSites(pkg))' \/ 1 <= Cardinality(Acquiring(k)')
  BY NotClosedNext
<1>3. CASE DeriveInitialRequirements
  <2>1. pc' = "requires" /\ iteration' = 0 /\ truncated' = truncated
    BY <1>3 DEF DeriveInitialRequirements
  <2> QED
    BY <1>2, <2>1 DEF LInv, RequiresAdvance, AcquiresAdvance, NeverTruncated
<1>4. CASE SeedAcquires
  <2>1. pc = "requires" /\ ~(changed /\ iteration < MaxIterations) /\ pc' = "acquires" /\ iteration' = 0 /\ truncated' = changed
    BY <1>4 DEF SeedAcquires, Again
  <2>2. ASSUME changed PROVE FALSE
    <3>1. iteration = 0 \/ \E k \in MutexKeys : iteration + 1 <= Cardinality(Requiring(k))
      BY <2>1, <2>2 DEF LInv, RequiresAdvance
    <3> QED
      BY <1>1, <2>1, <2>2, <3>1 DEF LimitSuffices
  <2> QED
    BY <1>2, <2>1, <2>2 DEF LInv, RequiresAdvance, AcquiresAdvance, NeverTruncated
<1>5. CASE Finish
  <2>1. /\ pc = "acquires" /\ ~(changed /\ iteration < MaxIterations) /\ pc' = "done"
        /\ truncated' => truncated \/ changed
    BY <1>5 DEF Finish, Again
  <2>2. ASSUME changed PROVE FALSE
    <3>1. iteration = 0 \/ \E k \in MutexKeys : iteration + 1 <= Cardinality(Acquiring(k))
      BY <2>1, <2>2 DEF LInv, AcquiresAdvance
    <3> QED
      BY <1>1, <2>1, <2>2, <3>1 DEF LimitSuffices
  <2> QED
    BY <2>1, <2>2 DEF LInv, RequiresAdvance, AcquiresAdvance, NeverTruncated
<1> QED
  BY <1>3, <1>4, <1>5

\* Where a round begins and ends.
LEMMA RoundsAdvance ==
    ASSUME LimitSuffices, LInv, PInv', StartRange \/ EndRange \/ StartSites \/ EndSites \/ UNCHANGED vars
    PROVE  LInv'
<1>1. /\ pkg' = pkg /\ requires' = requires /\ acquiresTransitive' = acquiresTransitive /\ truncated' = truncated
  BY DEF StartRange, EndRange, StartSites, EndSites, vars
<1>2. /\ \A k : Requiring(k)' = Requiring(k) /\ Acquiring(k)' = Acquiring(k)
      /\ \A k, S : RequiresClosedFor(k, S)' <=> RequiresClosedFor(k, S)
      /\ \A k, S : AcquiresClosedFor(k, S)' <=> AcquiresClosedFor(k, S)
      /\ CallSites(pkg)' = CallSites(pkg) /\ CallSites(pkg) \subseteq Sites /\ iteration \in Nat
      /\ Len(pkg.sites) \in Nat
  BY <1>1, InputTypes, PropagationAssumption DEF Requiring, Acquiring, RequiresClosedFor, AcquiresClosedFor, PassedOn, callerHoldsMutex,
                 CallSites, LInv, PInv, TypeOK
<1>3. CASE StartRange
  <2>1. pc = "requires" /\ pc' = "range" /\ iteration' = iteration /\ changed' = FALSE /\ pending' = known /\ visited' = {}
    BY <1>3 DEF StartRange
  <2>2. ASSUME NEW k \in MutexKeys
        PROVE  /\ Requiring(k) \subseteq visited' \cup pending'
               /\ RequiresClosedFor(k, {cs \in CallSites(pkg) : cs.callee \in visited}')
    BY <2>1 DEF LInv, PInv, TypeOK, Requiring, RequiresClosedFor
  <2>3. \A k \in MutexKeys : RequiresClosedFor(k, CallSites(pkg)) \/ iteration + 1 <= Cardinality(Requiring(k))
    BY <2>1 DEF LInv, RequiresAdvance
  <2>4. RequiresAdvance'
    BY <1>2, <2>1, <2>2, <2>3 DEF RequiresAdvance
  <2> QED
    BY <1>1, <2>1, <2>4 DEF LInv, AcquiresAdvance, NeverTruncated
<1>4. CASE EndRange
  <2>1. pc = "range" /\ pending = {} /\ pc' = "requires" /\ iteration' = iteration + 1 /\ changed' = changed
    BY <1>4 DEF EndRange
  <2>2. iteration + 2 = iteration' + 1
    BY <1>2, <2>1
  <2>3. ASSUME NEW k \in MutexKeys, Requiring(k) \subseteq visited,
               RequiresClosedFor(k, {cs \in CallSites(pkg) : cs.callee \in visited})
        PROVE  RequiresClosedFor(k, CallSites(pkg))
    BY <1>2, <2>3 DEF Requiring, RequiresClosedFor, PassedOn, Sites
  <2>4. \A k \in MutexKeys : RequiresClosedFor(k, CallSites(pkg)) \/ iteration' + 1 <= Cardinality(Requiring(k))
    BY <2>1, <2>2, <2>3 DEF LInv, RequiresAdvance
  <2>5. changed => \E k \in MutexKeys : iteration' + 1 <= Cardinality(Requiring(k))
    BY <2>1, <2>2 DEF LInv, RequiresAdvance
  <2>6. RequiresAdvance'
    BY <1>2, <2>1, <2>4, <2>5 DEF RequiresAdvance
  <2> QED
    BY <1>1, <2>1, <2>6 DEF LInv, AcquiresAdvance, NeverTruncated
<1>5. CASE StartSites
  <2>1. pc = "acquires" /\ pc' = "sites" /\ iteration' = iteration /\ changed' = FALSE /\ site' = 1
    BY <1>5 DEF StartSites
  <2>2. 1..(site' - 1) = {}
    BY <2>1
  <2>3. \A k : AcquiresClosedFor(k, {pkg.sites[i] : i \in 1..(site - 1)}')
    BY <2>2 DEF AcquiresClosedFor
  <2>4. \A k \in MutexKeys : AcquiresClosedFor(k, CallSites(pkg)) \/ iteration + 1 <= Cardinality(Acquiring(k))
    BY <2>1 DEF LInv, AcquiresAdvance
  <2>5. AcquiresAdvance'
    BY <1>2, <2>1, <2>3, <2>4 DEF AcquiresAdvance
  <2> QED
    BY <1>1, <2>1, <2>5 DEF LInv, RequiresAdvance, NeverTruncated
<1>6. CASE EndSites
  <2>1. pc = "sites" /\ site > Len(pkg.sites) /\ pc' = "acquires" /\ iteration' = iteration + 1 /\ changed' = changed
    BY <1>6 DEF EndSites
  <2>2. iteration + 2 = iteration' + 1
    BY <1>2, <2>1
  <2>3. {pkg.sites[i] : i \in 1..(site - 1)} = CallSites(pkg)
    <3>1. site - 1 = Len(pkg.sites)
      BY <1>2, <2>1 DEF LInv, PInv, TypeOK
    <3> QED
      BY <3>1 DEF CallSites
  <2>4. \A k \in MutexKeys : AcquiresClosedFor(k, CallSites(pkg)) \/ iteration' + 1 <= Cardinality(Acquiring(k))
    BY <2>1, <2>2, <2>3 DEF LInv, AcquiresAdvance
  <2>5. changed => \E k \in MutexKeys : iteration' + 1 <= Cardinality(Acquiring(k))
    BY <2>1, <2>2 DEF LInv, AcquiresAdvance
  <2>6. AcquiresAdvance'
    BY <1>2, <2>1, <2>4, <2>5 DEF AcquiresAdvance
  <2> QED
    BY <1>1, <2>1, <2>6 DEF LInv, RequiresAdvance, NeverTruncated
<1>7. CASE UNCHANGED vars
  <2>1. /\ pc' = pc /\ changed' = changed /\ pending' = pending /\ visited' = visited
        /\ iteration' = iteration /\ site' = site
    BY <1>7 DEF vars
  <2>2. RequiresAdvance'
    BY <1>1, <1>2, <2>1 DEF LInv, RequiresAdvance
  <2>3. AcquiresAdvance'
    BY <1>1, <1>2, <2>1 DEF LInv, AcquiresAdvance
  <2> QED
    BY <1>1, <2>2, <2>3 DEF LInv, NeverTruncated
<1> QED
  BY <1>3, <1>4, <1>5, <1>6, <1>7

LEMMA LStep == LimitSuffices /\ LInv /\ [Next]_vars => LInv'
<1> SUFFICES ASSUME LimitSuffices, LInv, [Next]_vars PROVE LInv'
  OBVIOUS
<1>1. PInv'
  BY PStep DEF LInv
<1> QED
  BY <1>1, VisitCalleeAdvances, VisitSiteAdvances, LoopsAdvance, RoundsAdvance DEF Next

-----------------------------------------------------------------------------
LEMMA LStart == Started => LInv
BY PStart DEF Started, LInv, NeverTruncated, RequiresAdvance, AcquiresAdvance

\* The limit of maxIterations rounds is not met if it is no smaller than the number
\* of functions: in each round that changes something a lock gets to one more of them.
THEOREM LimitNotMet == LimitSuffices => (Spec => []NeverTruncated)
<1> SUFFICES ASSUME LimitSuffices PROVE Spec => []NeverTruncated
  OBVIOUS
<1>1. Init => LInv
  BY LStart, CallGraphAssumption DEF Init, Started
<1>2. LInv /\ [Next]_vars => LInv'
  BY LStep
<1>3. LInv => NeverTruncated
  BY DEF LInv
<1> QED
  BY <1>1, <1>2, <1>3, PTL DEF Spec

\* With such a limit, propagateRequirements computes the least summaries of every package.
THEOREM ComputesSummaries == LimitSuffices => (Spec => Implements)
BY LimitNotMet, ComputesLeastSummaries, PTL
=============================================================================
