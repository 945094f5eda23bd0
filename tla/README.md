# A TLA+ model of golintmu

golintmu is a `go/analysis` linter. It infers which mutex guards which struct field and
reports accesses, calls and lock operations that break the discipline. One *pass* analyses
one package: a sequential program of phases (`run` in `pkg/analyzer/golintmu.go`) over a
shared `passContext`. What makes it hard to get right is not concurrency of its own but

* the order in which a control-flow graph is walked, and blocks being walked again;
* results that an earlier walk has recorded and a later one overtakes, and a lock state that two
  places share without a copy;
* Go's map iteration order, and a map that is extended while it is ranged over;
* fixed points over recursive call graphs, with an iteration limit;
* reports that are suppressed in one place because another place will make them;
* facts that one pass writes and the pass of an importing package reads;
* a depth-first search whose answers depend on the order of equal names;
* source positions that stand for the order of execution.

The modules here model the phases that carry that logic, TLC checks them on small packages,
and TLAPS proves the central claims for all packages.

## 1. Inventory

| Part (source under `src/pkg/analyzer`) | State | Operations | What makes it correct |
|---|---|---|---|
| Lock state (`lockstate.go`) | held locks with mode, deferred unlocks | lock, unlock, deferUnlock, equalHeld, diff, intersect, fork | a merge claims nothing that one side lacks |
| SSA walk, phase 1 (`ssawalk.go`) | entry and exit state per block; recursion of `walkBlock`; observations, call sites, candidates, lock-order edges | one handler per instruction; visit, revisit, merge | sound for every path; exact where the lattice allows; terminates. Not all of it holds: section 3 |
| Value resolution (`resolver.go`) | visited phis, seen loads, per question | resolveLockRef, resolveEmbeddedMutexRef, resolveFieldAccess | the base of a lock is on every way its value can come |
| Guard inference, phase 2 (`inference.go`) | guards per field | inferGuards | independent of map order |
| Requirements, phases 2.5 and 3 (`interprocedural.go`) | `Requires`, `RequiresOrigin`, `AcquiresTransitive` per function | derive, propagate | least fixed points, in every iteration order; origins lead to a cause |
| Calls before publication (`interprocedural.go`) | none | isPrePublicationConstructorCall | an exempt call is not executed on a published struct |
| Concurrent context, phase 3.5 (`concurrency.go`) | reachable functions, or nil | detect entry points, breadth-first search | exactly the functions reachable from entry points |
| Lock order, phase 3.7 (`lockorder.go`) | edges; colours, parents; cycles | addEdge, detectCycles, extractCycle, deduplicateCycles | cycles are real; no loop of locks is missed entirely |
| Acquire helpers, leaks, bad unlocks, phases 3.8 and 3.9 (`reporter.go`) | ReturnsHolding | computeReturnsHolding, deferred C4, C5 and C13 reports | each leak is reported, or somebody answers for it |
| Violations, phase 4 (`reporter.go`) | diagnostics | checkViolations, checkInterproceduralViolations | a suppressed violation shows at some call site; no report without cause |
| Facts, phases 1.5 and 5 (`facts.go`) | facts per object | import, export | package by package gives what one propagation over the program would |
| Annotations, phase 0 (`annotations.go`) | concurrent and ignored functions, silenced lines | parse, isSuppressed | a directive silences what it stands at and nothing else |
| Exported fields, phase 4.5 (`reporter.go`), command (`cmd/golintmu`) | none across calls | filtering, start | |

The phases interact only through `passContext`: the walk writes observations, candidates,
call sites, acquisitions and lock-order edges; inference turns observations into guards;
propagation and the search read call sites and write function facts and the reachable set;
the reporting phases read all of these. `PROJECT.json` lists the hazards line by line.

## 2. Modules

| Module | Models | Form |
|---|---|---|
| `LockState` | `lockstate.go` | operators on values: absent map keys are `"free"`; sharing of a lock state is in `SsaWalk` |
| `SsaWalk` | `collectObservations`, `walkFunction`, `walkBlock`, all instruction handlers | state machine; the activations of `walkBlock` are the frames of `stack` |
| `WalkSound` | `SsaWalk` followed by an execution of the walked function | history variable `paths`; the execution `x` |
| `WalkExact` | a reference definition: all paths and their exact lock states | operators; properties over `SsaWalk`'s state |
| `WalkProofs` | | proofs about the walk and executions (`SsaWalk`, `WalkSound`) |
| `Leaks` | phases 3.8 to 3.9.3 after `SsaWalk` | composition: extends `WalkExact`; the requirements in between are taken in one step |
| `LeaksProofs` | | proofs about the walk and the reports compared with all paths (`WalkExact`, `Leaks`) |
| `Resolver` | `resolver.go` | state machine; activations of `resolvePhiIfUniform` are frames |
| `CallGraph` | call sites, guarded accesses, function facts; what a summary must satisfy | data and predicates |
| `Summary` | what propagation promises, in one step | abstract specification |
| `Propagation` | `deriveInitialRequirements`, `propagateRequirements` | state machine, refines `Summary` |
| `Provenance` | the origins noted next to the requirements, the explanation of a diagnostic | adds variables to `Propagation` |
| `PropagationProofs`, `ProvenanceProofs`, `PassesProofs` | | proofs about the summaries, their origins, and the passes |
| `Publication` | `isPrePublicationConstructorCall`, against an execution of the constructor | state machine of the execution |
| `Annotations`, `Inference` | `annotations.go`, `inference.go` | operators; a range over a map is the set of its possible results |
| `Diagnose` | `computeConcurrentContext`, `checkViolations`, `checkInterproceduralViolations` | composition of `Propagation`, `Annotations` and `Inference` |
| `Passes` | `run`, `facts.go`, phase 4.5, entry points | a program: one pass per package, over `Diagnose` |
| `LockOrder` | lock-order graph, search for cycles, reports | state machine; activations of `dfs` are frames, `extractCycle`'s loop is a loop |
| `ResolverProofs`, `LockOrderProofs` | | proofs about value resolution and the search for cycles |
| `StackLemmas` | | what the proofs share: sequences as stacks, least elements, places in a ring |
| `Packages`, `MC*` | packages for TLC | constants |

How state and actions correspond to the code:

* **SsaWalk.** `prog` is the package: per function a sequence of blocks with instructions
  and successors. `fn` is the loop of `collectObservations`. A frame has the block, the next
  instruction, the local lock state and the next successor. `Lock`, `Unlock`, `DeferUnlock`,
  `DeferLock`, `Return`, `Access`, `Call` and `Skip` are the handlers; `VisitBlock`,
  `RevisitEqual` and `RevisitMerge` are the three ways `walkBlock` begins, `ExitBlock` and
  `LeaveBlock` the rest of it. `isBackEdge` is domination, defined by sets of blocks.
  `WalkFunction` starts a function with a fresh `walkContext`.
  A Go `lockState` is a mutable object. Wherever the code forks it, the copy is a value of its
  own. The one place without a fork is the re-walk (`ssawalk.go` 57-58): the merged state is
  stored in `entryStates` and is the running state at once. The frame then has `shared = TRUE`, and
  `Advance` writes the lock state after each instruction to `entryStates`, too. When the block is
  done, its entry in the map is its exit state; a later visit is compared, merged and diffed with that.
  `MaxDepth` is the depth of recursion that the goroutine's stack has room for: a walk that needs
  more is stuck there, as the process is dead.
* **Propagation.** `known` is the key set of `funcFacts`. The range over that map visits
  every entry it started with, and any of the entries inserted meanwhile (`pending`,
  `visited`): Go promises no more. The second loop ranges over the slice of call sites.
* **Provenance.** `RequiresOrigin` is a slice of which the formatter uses each element once
  and then only the first, so the model has the set and the first. The range visits functions
  in any order, so what is first depends on it.
* **Diagnose.** The queue of the search with its head index; the entry points are queued in
  any order. The two reporting phases are one step each, since they only read.
* **Passes.** `prog` is a sequence of packages, `current` the one under analysis. A package is
  its declarations and directives by line, what its walk records, and its entry points by kind.
  `ImportFacts` is phases 0 and 1.5, `InferGuard` one iteration of `inferGuards`,
  `EndInference` hands the observations with their guards to `Propagation`, `Phases3And4` are
  the steps of `Diagnose`, then `CheckExportedGuardedFields` and `ExportFacts`. A fact about a
  lock is dropped where `mutexRefToKey` does not find the type (`Resolvable`).
* **Leaks.** `Walk` is a step of `SsaWalk`; each later phase is one step. Function number four
  belongs to another package and has a fact. A function with a `defer` has a block that the walk
  never enters and that ends in a return, as go/ssa's Recover block does. `Solves` has the
  exemptions of constructors and of calls before publication, and the imported requirements.
* **Resolver.** A question is a call of `resolveLockRef`, `resolveEmbeddedMutexRef` or
  `resolveFieldAccess`; `val` is the value
  looked at, `stack` the open phis, `index` is set once `canonicalizeBase` runs.
* **Publication.** The state is that of an execution; the analyzer's judgement is an operator.
* **LockOrder.** `sort.Slice` is not stable: what remains of a sorted slice is a set, and the
  next element is any with the least name. `backEdge`, `cycle`, `current` and `visited` are
  the locals of `extractCycle`.

A definition that is marked as a *mutant* states a plausible mistake in the definition after
it. Putting the mutant in that definition's place makes TLC find a violation of the property
that `PROJECT.json` pairs it with; nothing else uses mutants.

Inputs of the models, instead of code: the shape of go statements and handler registrations,
whether a function is constructor-like for a type (names and signatures), the text of comments,
and, in `Propagation`, `Passes` and `Leaks`, whether a call is one before publication (`Publication`
models the judgement) and which lock an instruction names (`Resolver` models it).

## 3. Runs

All runs set `CHECK_DEADLOCK FALSE`: a pass ends.

| Run | Packages | Shows |
|---|---|---|
| `walk` | seven control-flow graphs of four blocks (diamond, three-way merge, loop, loop with break, irreducible loop, two returns, a loop whose header is a merge), every block with one of several bodies over one RWMutex, one Mutex with calls, or two mutexes; the walk, then every execution | the results equal what all paths give: `ExitExact`, `LeaksExact` (each lock in one mode); nothing is made up: `HeldOnPath`, `ExitHeld`, `HeldDiagsReal`, `EdgesReal`, `CallSitesReal`; in functions without a loop and with at most two paths to a block, `UnlocksExact`, `InconsistencyReal`, `CallSitesCover`; `TypeOK` |
| `leaks` | packages of two or three functions: helpers with one and two returns, with and without defer, implicit returns that share a position, callers that release, hand on or forget, a constructor, a helper of another package, ignored calls | `HelpersReal`, `LeaksAccounted`, `HelperLocksExcused` against all paths |
| `propagation` | call graphs with up to three of eighteen possible calls; chains of four functions with a call back; imported facts, constructors | `Implements`, `NothingSpurious`, `NeverTruncated`, `ReasonsGrounded`, `ReasonsComplete`, `Termination`, `TypeOK` |
| `passes` | single packages with call lists up to length three and all kinds of entry points; a directive on every line of a file; two and three packages with and without a direct import; three accesses under all subsets of two mutexes | `GuardsDetermined`, `ModularExact`, `ReachableExact`, `RootsToldOfAccess`, `ReportsHaveCauses`, `AnalysisEnds`, `STypeOK` |
| `lock_order` | all graphs on three locks (self-edges included) with distinct and with equal names; rings of four locks with all chords; edges from call sites; parallel edges by two functions, some concurrent | `CyclesReal`, `ParentChainIntact`, `LoopsFound`, `LoopsReported`, `TypeOK` |
| `resolver` | all graphs of three two-operand phis over each other, a load and a parameter; phis of field addresses; embedded Mutex and RWMutex | `BaseSound`, `BaseStable`, `NoPhiWithinItself` |

Why the bounds are enough to be interesting. Four blocks are the fewest in which a merge has
three ways in, a loop has a break, or a block is walked three times; outer activations with
overtaken lock states occur in the irreducible and three-way graphs, and re-walks that overwrite
the entry state a third visit meets in the three-way graph and the loop after a merge. `MaxDepth`
of `SsaWalk` is 40: on these graphs the functions whose walk gets 20 activations deep are the same
as those that get 40 deep, so only walks without an end are cut off. It is 80 in `walk_diverges`,
where a block comes to be on the stack more often than there are lock states. `MaxIterations` is 4 in
`propagation`, the number of functions; with 3 `NeverTruncated` fails, so the limit is really
tested (the code's 1000 is thus enough for call chains of up to 1000 functions). Four locks
allow two cycles to share two locks. `MaxDepth` of `Provenance` is the code's 5, and with one
line less `ReasonsComplete` fails: four functions that call in a circle give explanations of
five lines. Three packages are the fewest in
which a lock's package is imported only indirectly. Three phis allow a cycle that is entered in
the middle. Three accesses are the fewest with a tie that reads would decide otherwise.

**Fairness.** Every model is a sequential program, so weak fairness of the whole next-state
relation is all that is assumed, and only for `Termination` of `propagation` and `AnalysisEnds` of
`passes`. The walk has no such property, since it need not end.

### Where the code and its documentation disagree

The first two have one cause: the re-walk does not fork (`ssawalk.go` 57-58), so the stored entry
state, "state at block entry", becomes the block's exit state: at a merge of `L(a)` and nothing, a lock
that the merge block takes itself is then in its entry state. In the packages, `L`, `U`, `D` are Lock,
Unlock, defer Unlock.

| Run | What TLC finds |
|---|---|
| `walk_missed_unlock` | `if c1 { L(a); if c2 { D(a) } }; U(a)`: the re-walk with `{a}` leaves `{}`, so the path with `{}` counts as walked and its bad unlock is no C4 candidate (`UnlocksCaught`) |
| `walk_diverges` | `if c { L(b) }; for { L(a); ...; U(a); L(b) }`: each visit of header and body differs from the exit state that is stored, merges to the same state and walks again; `walkBlock` recurses until the stack overflows (`RewalksBounded`) |
| `walk_implicit_return` | returns without a position share one key of `lockLeakCandidates`: of two functions that end without a `return`, the second deletes the leak candidate of the first |
| `walk_stale_observation` | an access keeps the locks of its first walk although a later path reaches it without them |
| `diagnose_entry` | a function that a `go` statement starts and another function calls with the lock held: the direct report is suppressed and no call site is reported. A function whose only caller is itself fares the same |
| `publication_loop` | in a loop, the publication below a call precedes the call of the next iteration; the comparison of positions exempts that call ("never the reverse"). In straight-line code and across branches the claim holds |

What the overwritten entry states leave intact is what the passing runs check and the theorems
prove: exit states, leak candidates, and everything that is reported because a lock *is* held. The
overwritten state is first read at the third visit of a block. Where there is none (`NoThirdVisit`), bad
unlocks, inconsistencies and the locks of call sites are right, too; `walk` checks that, and without
that condition TLC refutes each of the three properties:

* a false bad unlock, against design-c3-c4.md ("will panic on some paths"), in
  `L(a); if c1 { L(b); if c2 { D(b) } }; U(a)`: the first re-walk takes `a` from the entry state, the
  second merges with that and meets the unlock without `a`, which every path holds;
* a false inconsistency, against C11's "held in one predecessor but not the other", in
  `if c { L(b) }; for { L(a); ...; U(a); U(b) }`: the header was re-walked over the back edge, where
  nothing is reported, and has `a` in its entry state; the next visit reports `a`, which no path holds there;
* a lost requirement, in the package of `walk_missed_unlock` with a call before the unlock: every
  record of the call claims the lock, so a requirement of the callee does not get to the caller.

Met while modelling, not kept as runs:

* `checkCallersOfAcquireHelpers` ranges over imported functions, too: a package that calls an acquire
  helper of another package reports the helper again, although design-c13.md says "reported once", and
  although the helper may be marked `mu:ignore` in its own package.

* `equalHeld` ignores modes, so a lock held exclusively on one path and shared on the other is
  not dropped at the merge, as the comment on `intersect` says; the mode walked first stays.
* `inconsistentLockReported` is set even if the states differ in deferred unlocks only, and then
  silences a later difference at the block.
* `detectCycles` finds one cycle per back edge, not "all cycles"; `LoopsFound` is what it
  guarantees. Of parallel edges by different functions only the first met can be in a found
  cycle, so the concurrency filter may drop a cycle of which another edge is concurrent
  (`LoopsReported` states what is left). Cycles through two types of one name collide in
  `deduplicateCycles`.
* A static call without arguments is not recorded as a call site.
* A function with any `defer` has a Recover block with a return that the walk never gets to, so
  the counts never agree and it is never taken for an acquire helper; its leak is a C5 report.
* `ReturnsHolding` is not transitive: a caller that hands the lock on is excused only if its own
  returns are candidates, which needs a Lock of its own. design-c13.md leaves a caller that
  unlocks on some paths only to C5, but the walk knows nothing of a lock taken in a callee.
* A leaked lock that the function also requires is not reported, although such a lock was
  thought to give no candidate (design-c5.md).
* A phi whose operands all come from one value through other phis is often left unresolved:
  `p = phi(q, q)` with `q = phi(x, x)` gives `x` for `q` and `p` for `p`, because the second
  operand meets `q` as visited; likewise `p = phi(x, p)`. A base that is found is right.
* A send on a channel and a store through an interface are publications to design.md and not to
  the code. One imported entry point ends the fallback that treats all functions as concurrent.
  An explanation deeper than five calls ends without its cause.

## 4. Proofs

TLAPS checks the following for every package and every set of locks, functions, fields and
positions. The assumptions on constants give them their types (`WalkAssumption`,
`CallGraphAssumption`, `PropagationAssumption`, `LockOrderAssumption`) or say what every
input of the analyzer satisfies:

* `FiniteLockRefs`: a function names finitely many locks, so its paths have finitely many lock
  states and `Reached` gets to its fixed point;
* `ResolverAssumption`: an SSA value is an instruction of one kind;
* `ImportedAssumption`: a function with a call site in the package has no imported fact, since
  facts are imported for functions of other packages only;
* `PassesAssumption`: a program has finitely many functions; what the walk records is about the
  package's own functions, and the locks it records with an access are mutexes of the accessed
  struct (`Recorded`); packages are in dependency order (`WellOrdered`).

| Module | Theorem | States |
|---|---|---|
| `WalkProofs` | `TypeCorrect` | `Spec => []TypeOK` for the walk |
| | `HeldIsReal` | `SSpec => []HeldOnPath` |
| `LeaksProofs` | `EdgesAreReal` | `Spec => []EdgesReal` |
| | `HeldDiagsAreReal` | `Spec => []HeldDiagsReal` |
| | `CallSitesAreReal` | `Spec => []CallSitesReal` |
| | `ExitsAreExact` | `Spec => []ExitExact` |
| | `ExitsAreHeld` | `SSpec => []ExitHeld` |
| | `LeaksAreExact` | `ReturnPositions => (Spec => []LeaksExact)` |
| | `HelpersAreReal` | `RecoverBlocks => (LSpec => []HelpersReal)` |
| | `LeaksAreAccounted` | `(ReturnPositions /\ ReturnsApart) => (LSpec => []LeaksAccounted)` |
| | `HelperLocksAreExcused` | `(ReturnPositions /\ ReturnsApart) => (LSpec => []HelperLocksExcused)` |
| `ResolverProofs` | `BasesAreSound` | `Spec => []BaseSound` |
| | `RecursionIsBounded` | `Spec => []NoPhiWithinItself` |
| `PropagationProofs` | `PropagationTypes` | `Spec => []TypeOK` for the propagation |
| | `NoSpuriousSummaries` | `Spec => []NothingSpurious` |
| | `LimitNotMet` | `LimitSuffices => (Spec => []NeverTruncated)` |
| | `ComputesLeastSummaries` | `Spec /\ []NeverTruncated => Implements`: refinement of `Summary` |
| | `ComputesSummaries` | `LimitSuffices => (Spec => Implements)` |
| `ProvenanceProofs` | `ReasonsAreGrounded` | `OSpec => []ReasonsGrounded` |
| | `ExplanationsComplete` | `OSpec => [](ChainsFit => ReasonsComplete)` |
| `LockOrderProofs` | `LockOrderTypes` | `Spec => []TypeOK` for the lock-order graph |
| | `CyclesAreReal` | `Spec => []CyclesReal` |
| | `TracesComplete` | `Spec => []ParentChainIntact` |
| | `LoopsAreFound` | `Spec => []LoopsFound` |
| | `LoopsAreReported` | `Spec => []LoopsReported` |
| `PassesProofs` | `PassTypes` | `SSpec => []STypeOK` for the passes |
| | `GuardsAreDetermined` | `SSpec => []GuardsDetermined` |
| | `SearchIsExact` | `SSpec => []ReachableExact` |
| | `ReportsAreCaused` | `SSpec => []ReportsHaveCauses` |
| | `RootsAreTold` | `LimitSuffices => (SSpec => []RootsToldOfAccess)` |
| | `PassesAreModular` | `LimitSuffices => (SSpec => []ModularExact)` |

`LimitSuffices` says that the iteration limit (1000 in the code) is at least the number of
functions; without it the loops may be cut off, and the last two theorems of `PassesProofs` are
false. `ChainsFit` says that fewer functions require a lock than `maxDepth`; the code cuts an
explanation off after five lines.

The theorems about what a walk leaves behind (`ExitsAreExact`, `ExitsAreHeld`, `LeaksAreExact` and
the three of `Leaks`) are of partial correctness: they say what holds when the walk of a function
has ended. `walk_diverges` shows that it need not end. `MaxDepth` is any positive number in the proofs.

Three hypotheses are about the packages, and every package of the `leaks` run satisfies them.
`ReturnPositions`: no two returns of one function that paths reach stand at one position. A
function has at most one return without a position that the walk gets to, the one at the end of
its body, so Go code has this. `ReturnsApart`: no two functions have a return *statement* at one
position, which Go code has, too. Implicit returns, which all share token.NoPos, are not restricted;
they displace each other's candidates (`walk_implicit_return`), and `LeaksAccounted` is therefore
about return statements. `RecoverBlocks`: a function
with a deferred unlock has a return in a block that no block leads to. go/ssa makes it so, and
without it `HelpersReal` is false: a function that locks, defers the unlock on one branch only and
returns after the branches meet would count as a helper (as with the mutant of `EveryReturnHolds`).

**What is held is real.** Intersection only forgets, and a frame's state is merged with its
entry state when it is entered and at no other time. So a frame's state is within the exact state of
the path on the stack, in the same modes (`HeldOnPath`), whatever the stored states have become.

**The exit states survive.** The entry states are of no use to an invariant: a re-walk turns them
into exit states while it runs. What survives is the *settled* state of a block, the state at its
end if it were entered with what is stored: `Settled(b) == After(Body, b, entryStates[b])`. The
instructions of a block set some locks to fixed values and leave the others alone, so running
them twice is running them once (`AfterAbsorbs`), and `After` of an intersection is the
intersection of the `After`s, but for modes (`AfterIntersect`). Hence `Settled(b)` does not change
while a re-walk overwrites the entry state, and after a merge it is the meet of what it was and of
what the new visit gives, just as if the entry state had been kept. `Covered` says with it: the
running frame is on its way to the settled state of its block; exit states of blocks that are not
being walked are settled states; of every edge, either the successor's settled state is below what
the predecessor's settled state gives there (`Arrives`), or an activation has still to visit it
(`EdgeOpen`). A visit that returns early keeps this, because states that `equalHeld` cannot tell
apart settle alike. When the stack is empty no edge is open, and an execution stays above the settled states
block by block (`ExitsAreHeld`). Within a block the argument says nothing, which is where the
bad unlocks and call sites are lost.

**The walk and all paths.** `Reached` is shown to be the least set of pairs of block and lock
state that has the entry and is closed under blocks (`ReachedLeast`): its bounded iteration either
grows or has stopped, and it cannot grow more often than there are pairs. `ExactInv` then relates
the walk to `Paths`, the states that paths have at an instruction, from both sides. From below by
`Covered`. From above (`AllFit`): every frame is within the state of some path to its point, so
every report about a held lock is about a path when it is made (`RecordsReal`); and every settled
state *fits* the paths to the end of its block, which means that it lacks a lock only if not all of
them hold that lock in one mode, and a deferred unlock only if some path lacks it. At the
end of a walk the two sides meet (`EndExact`, `EndMeets`). If each lock is used in one mode,
"all paths hold it" and "all hold it alike" are the same. `Latest` says of the
instructions processed since their block was last entered that what they record is
there: some call site for each call and, for a return, the C5 candidates of just the settled
state, since a return ends its block; this takes `ReturnPositions`.

**Leaks and helpers.** What is known of a function at the end of its walk (`JustKnown`) stays
known while others are walked (`Known`): candidates are at reached returns where all paths hold
the lock, reached calls have records, leaks have candidates. For the last a candidate must not be
dropped by another function, which takes `ReturnsApart` (`OthersStay`). `PhaseOK` says what each
later phase has told. A helper has as many candidate positions as returns, and each position
gives a return of its own that is held; an injection between finite sets of one size is
onto, so every return is reached and held (`EveryReturnIsHeld`). A function with a deferred unlock
has a return that is not reached, so a helper defers none, and what is held is left held. For
`HelperLocksExcused` the same count is made in the other direction (`RealHelpersCount`).

**Value resolution.** `RInv` says of the open activations that each has come, on the only way
there is, from what it was called for to its phi, and that the operands looked at so far agree
on `unique` (`Traced`, `Agreed`); and of the caller that the value being unwrapped would answer
the question (`Called`). "The only way" is witnessed by a set of phis that is left through the
base only; such sets are closed under union, which is what a uniform phi needs. The set of
visited phis does not occur in that argument: it decides whether a phi is resolved, never to what.
It bounds the recursion: the open phis are all visited (`OpenVisited`), and a visited phi is not entered.

**Propagation.** Safety from above: each step keeps the summaries within
every solution. From below (`Settling`): in a round that has changed nothing, nothing was
inserted into the map, so what was not visited is pending, and the call sites of visited
callees are satisfied; when such a round ends, all are. The second loop is alike, with the
index into the call sites. The limit is not met because a lock that has
not reached all the functions it must reaches one more in every round (`RequiresAdvance`,
`AcquiresAdvance`): in round `n` at least `n` functions have it, so the number of functions
bounds the rounds.

**Origins.** A first origin is written once, when the lock is added, and points to a function
that required the lock before. So among any functions that require a lock the one that got it
first has it by itself or from outside the set, which is `ReasonsGrounded`. A chain of first
origins then meets no function twice, and with fewer functions than lines it ends at a root;
`formatSingleOrigin`, a recursive function, is followed line by line.

**Lock order.** `CInv`: the gray locks are the stack, each the parent of the one above by a
recorded edge; while a cycle is extracted, `cycle` and `current` are a segment of the stack. So
tracing parents from the top gets to every gray lock (`ParentChainIntact`) and gives a cycle
without repetition (`CyclesReal`). Of a loop of locks, look at the one that is
blackened first: its successor within the loop was gray then, hence a back edge was met, and
its cycle closed between two locks of the loop (`LoopsFound`). For `LoopsReported` the key of
`deduplicateCycles` is shown to tell cycles apart: with distinct names two cycles with equal
keys have the same locks in the same ring, so one of them is kept that has an edge in the loop,
and its edges are of concurrent functions.

**Passes.** The result of `inferGuards` is the choice that the counts allow for each field
visited, whatever was visited before (`GuardsInv`). The queue of the search holds only
reachable functions, and the callees of those before `head` are in it (`ReachInv`). A reported
requirement is in every solution of the constraints, in particular in the set of functions that
get to a cause without the lock, which is one (`ReportsAreCaused`); a requirement that is
missing contradicts that the summaries are closed under calls once the limit was not met
(`RootsAreTold`). `PassesAreModular` carries, over the passes, that the facts exported so far are
what a propagation over the packages so far gives: from above, every set closed over those
packages contains the functions with the fact; from below, the functions with the fact, together
with those of this package that have the lock, are such a closed set, since no earlier package calls this one.

Facts about recursive functions and finite sequences are proved by the least counterexample
(`LeastNatural` in `StackLemmas`) where the theorems above need them.

**Only model-checked:**

* termination (`Termination`, `AnalysisEnds`): liveness is out of reach of the prover;
* `UnlocksExact`, `InconsistencyReal` and `CallSitesCover`: they take that no block is visited a
  third time, which is a fact about the whole depth-first walk and not about one of its states;
* `BaseStable`: it compares two traces that enter the phis at different places, which takes a
  description of the whole recursion as a function. It needs that no cycle of phis is closed to
  the outside, which holds in reachable code and of the graphs of the run: with
  `p = phi(q, q)`, `q = phi(r, r)`, `r = phi(p, p)` each of the three has another as its base.

## 5. What is not modelled, and assumptions

* A call leaves the caller's locks as they were: the analyzer assumes it, and so does the
  execution in `WalkSound`. Deferred closures and dynamic calls are `other` instructions.
* Positions of acquisitions and the wording of diagnostics.
* By shape only, and inputs here: go statements and handler registrations (`concurrency.go`
  101-207), constructor-like functions (`inference.go` 43-84), the text of directives.
* In `Annotations` a package is one file, and a comment on the line of a closing brace comes
  after the body. In `Leaks` requirements are the least solution, which `Propagation` is shown
  to compute; phases 3.7 to 3.9.3 are not repeated in `Passes`, since they write diagnostics only.
* The encoding of facts and the order of passes are the analysis framework's: a pass sees the
  facts of all packages before it.
* The command only starts the framework.

## 6. Plan

1. *Proofs.* `BaseStable`, with the recursion through phis as a function of the visited set.
2. *The remaining joint of the pass*: `SsaWalk`'s results as the input of `Passes`.
