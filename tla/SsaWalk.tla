------------------------------ MODULE SsaWalk ------------------------------
(***************************************************************************)
(* Phase 1 of an analyzer pass (pkg/analyzer/ssawalk.go): for every source *)
(* function in turn, walk its control-flow graph depth first, thread a     *)
(* lock state through the instructions, merge states at blocks reached     *)
(* again, and record what the later phases work from.                      *)
(*                                                                         *)
(* walkBlock is recursive.  Its activations are the frames of `stack', the *)
(* top frame being the running one:                                        *)
(*   block  the block it walks        ls    its local lock state           *)
(*   ip     the next instruction      succ  0 while instructions remain,   *)
(*                                          then the next successor        *)
(*   shared whether ls is the very lockState that entryStates[block] holds *)
(* A first visit stores a fork in entryStates and goes on with its own     *)
(* lock state.  A re-walk stores the merged state and goes on with it, so  *)
(* its instructions change the stored entry state with their own: when     *)
(* they are done, entryStates[block] is the block's exit state.            *)
(*                                                                         *)
(* One action is one instruction handler, or one recursive call of         *)
(* walkBlock up to its early return or its first instruction.              *)
(***************************************************************************)
EXTENDS LockState, Integers, Sequences, FiniteSets

CONSTANTS
    Programs,     \* the packages to analyse: sequences of function bodies
    Positions,    \* token.Pos values of instructions, NoPos among them
    NoPos,        \* token.NoPos, the position of an implicit return
    MutexKeys,    \* mutexFieldKey: (struct type, field index)
    NoKey,        \* lockRefToMutexFieldKey's result (_, false)
    KeyOf,        \* lockRefToMutexFieldKey: peels up to four pointers
    NormKeyOf,    \* the key normalizeLockState gives: one pointer only
    Bases,        \* canonical SSA values of structs
    BaseOf,       \* lockRef.base
    Fields,       \* fieldKey of the non-mutex struct fields
    FuncIds,      \* functions: the source functions 1..Len(prog) and others
    Suppressed,   \* <<function, position>> pairs isSuppressed accepts
    MaxDepth      \* activations that fit on a goroutine's stack: the process dies beyond

LockInstrs == [op : {"lock", "unlock", "deferUnlock"},
               ref : LockRefs, mode : Modes, pos : Positions]
TypoInstrs == [op : {"deferLock"}, ref : LockRefs, pos : Positions]
CallInstrs == [op : {"call"}, callee : FuncIds, pos : Positions]
\* chain: the accessed field and its value-type ancestors, innermost first.
AccessInstrs == [op : {"access"}, chain : Seq([field : Fields, base : Bases]),
                 isRead : BOOLEAN, pos : Positions]
ReturnInstrs == [op : {"return"}, pos : Positions]
\* Instructions the walk has no case for, or returns from early: unresolvable mutexes,
\* dynamic calls, calls without arguments.
OtherInstrs == [op : {"other"}, pos : Positions]

Instrs == LockInstrs \cup TypoInstrs \cup CallInstrs \cup AccessInstrs
            \cup ReturnInstrs \cup OtherInstrs

\* A function body: basic blocks 1..Len(body), block 1 the entry block.  A return
\* ends its block.
Bodies == {body \in Seq([instrs : Seq(Instrs), succs : Seq(Nat)]) :
             \A b \in DOMAIN body :
               /\ \A i \in DOMAIN body[b].succs : body[b].succs[i] \in DOMAIN body
               /\ \A i \in DOMAIN body[b].instrs :
                    body[b].instrs[i].op = "return" => i = Len(body[b].instrs)}

ASSUME WalkAssumption ==
    /\ Programs \subseteq Seq(Bodies)
    /\ NoPos \in Positions
    /\ NoKey \notin MutexKeys
    /\ KeyOf \in [LockRefs -> MutexKeys \cup {NoKey}]
    /\ NormKeyOf \in [LockRefs -> MutexKeys \cup {NoKey}]
    /\ BaseOf \in [LockRefs -> Bases]
    /\ FuncIds \subseteq Nat
    /\ MaxDepth \in Nat \ {0}
    /\ \A p \in Programs : DOMAIN p \subseteq FuncIds

VARIABLES
    prog,          \* the package under analysis, never modified
    fn,            \* collectObservations' loop: the function being walked
    stack,         \* the activations of walkBlock
    entryStates, exitStates, inconsistentLockReported,      \* walkContext
    diags,         \* diagnostics reported during the walk
    unlockOfUnlockedCandidates, lockLeakCandidates,
    deferredLockTypoReported,
    observations,  \* one record per obsKey, so observedAt is their keys
    callSites, lockOrderEdges, acquires, releases           \* passContext

walkVars == <<prog, fn, stack, entryStates, exitStates, inconsistentLockReported>>
passVars == <<diags, unlockOfUnlockedCandidates, lockLeakCandidates,
              deferredLockTypoReported, observations, callSites,
              lockOrderEdges, acquires, releases>>
vars == <<walkVars, passVars>>

-----------------------------------------------------------------------------
(* The control-flow graph of the function being walked. *)

Body == prog[fn]
Succs(b) == Body[b].succs
Code(b) == Body[b].instrs

\* block.Preds, one entry per edge.
Preds(b) == UNION {{<<p, i>> : i \in {j \in DOMAIN Succs(p) : Succs(p)[j] = b}} : p \in DOMAIN Body}

\* to.Dominates(from): no path from the entry block reaches `from' around
\* `to', that is, some set of blocks around the entry is left through `to' only.
isBackEdge(from, to) ==
    \/ to = 1
    \/ to = from
    \/ \E S \in SUBSET (DOMAIN Body \ {to, from}) :
         /\ 1 \in S
         /\ \A b \in S : \A i \in DOMAIN Succs(b) : Succs(b)[i] \in S \cup {to}

\* The position of the block's first instruction that has one.
blockPos(b) ==
    LET valid == {i \in DOMAIN Code(b) : Code(b)[i].pos # NoPos}
    IN  IF valid = {} THEN NoPos
        ELSE Code(b)[CHOOSE i \in valid : \A j \in valid : i <= j].pos

\* The Go map m with key b set to v.
Put(m, b, v) == [x \in DOMAIN m \cup {b} |-> IF x = b THEN v ELSE m[x]]

Top == stack[Len(stack)]
Instr == Code(Top.block)[Top.ip]

\* The top frame goes on to its next instruction with lock state ls, which is the
\* stored entry state of the block, too, if the two are one object.
Advance(ls) ==
    /\ stack' = [stack EXCEPT ![Len(stack)].ls = ls, ![Len(stack)].ip = @ + 1]
    /\ entryStates' = IF Top.shared THEN Put(entryStates, Top.block, ls) ELSE entryStates
    /\ UNCHANGED <<prog, fn, exitStates, inconsistentLockReported>>

\* The top frame is about to execute an instruction of one of these kinds.
At(ops) ==
    /\ stack # <<>>
    /\ Top.ip <= Len(Code(Top.block))
    /\ Instr.op \in ops

\* A diagnostic about ref, unless suppressed or without a name for the lock.
Diag(kind, pos, ref) ==
    IF <<fn, pos>> \in Suppressed \/ KeyOf[ref] = NoKey THEN {}
    ELSE {[kind |-> kind, fn |-> fn, pos |-> pos, ref |-> ref]}

\* The mutexFieldKey of ref as a set: empty when it has none.
KeySet(ref) == {KeyOf[ref]} \ {NoKey}

-----------------------------------------------------------------------------
(* Instruction handlers. *)

\* The diagnostic of acquiring in `mode' a lock already held in mode `held'.
AcquireKind(mode, held) ==
    IF held = "shared"
      THEN IF mode = "shared" THEN "recursiveRLock" ELSE "lockUpgrade"
      ELSE "doubleLock"

AcquireDiags(ls, i) ==
    IF ls.held[i.ref] = "free" THEN {}
    ELSE Diag(AcquireKind(i.mode, ls.held[i.ref]), i.pos, i.ref)

\* Mutant of AcquireEdges: from the new lock to the held ones.
AcquireEdgesSwapped(ls, i) ==
    {[from |-> KeyOf[i.ref], to |-> KeyOf[h], fn |-> fn] :
        h \in {k \in Keys(ls) \ {i.ref} : NoKey \notin {KeyOf[k], KeyOf[i.ref]}}}

AcquireEdges(ls, i) ==
    {[from |-> KeyOf[h], to |-> KeyOf[i.ref], fn |-> fn] :
        h \in {k \in Keys(ls) \ {i.ref} : NoKey \notin {KeyOf[k], KeyOf[i.ref]}}}

\* Mutant of MismatchDiags: a lock that is not held counts as held in the other mode.
MismatchDiagsFree(ls, i) ==
    IF ls.held[i.ref] = i.mode THEN {} ELSE Diag("mismatchedUnlock", i.pos, i.ref)

MismatchDiags(ls, i) ==
    IF ls.held[i.ref] \in {"free", i.mode} THEN {}
    ELSE Diag("mismatchedUnlock", i.pos, i.ref)

\* checkAndRecordLockAcquire
Lock ==
    /\ At({"lock"})
    /\ diags' = diags \cup AcquireDiags(Top.ls, Instr)
    /\ lockOrderEdges' = lockOrderEdges \cup AcquireEdges(Top.ls, Instr)
    /\ acquires' = [acquires EXCEPT ![fn] = @ \cup KeySet(Instr.ref)]
    /\ Advance(lock(Top.ls, Instr.ref, Instr.mode))
    /\ UNCHANGED <<unlockOfUnlockedCandidates, lockLeakCandidates, releases,
                   deferredLockTypoReported, observations, callSites>>

\* checkAndRecordUnlock: an unlock of a lock not held is a C4 candidate.
Unlock ==
    /\ At({"unlock"})
    /\ diags' = diags \cup MismatchDiags(Top.ls, Instr)
    /\ unlockOfUnlockedCandidates' = unlockOfUnlockedCandidates \cup
         IF Instr.ref \in Keys(Top.ls) THEN {}
         ELSE {[fn |-> fn, pos |-> Instr.pos, ref |-> Instr.ref]}
    /\ releases' = [releases EXCEPT ![fn] = @ \cup KeySet(Instr.ref)]
    /\ Advance(unlock(Top.ls, Instr.ref))
    /\ UNCHANGED <<lockLeakCandidates, deferredLockTypoReported, observations,
                   callSites, lockOrderEdges, acquires>>

\* checkDeferredUnlockMismatch and recordDeferredUnlock
DeferUnlock ==
    /\ At({"deferUnlock"})
    /\ diags' = diags \cup MismatchDiags(Top.ls, Instr)
    /\ releases' = [releases EXCEPT ![fn] = @ \cup KeySet(Instr.ref)]
    /\ Advance(deferUnlock(Top.ls, Instr.ref))
    /\ UNCHANGED <<unlockOfUnlockedCandidates, lockLeakCandidates,
                   deferredLockTypoReported, observations, callSites,
                   lockOrderEdges, acquires>>

\* checkDeferredLockInsteadOfUnlock
DeferLock ==
    /\ At({"deferLock"})
    /\ diags' = diags \cup Diag("deferredLock", Instr.pos, Instr.ref)
    /\ deferredLockTypoReported' = deferredLockTypoReported \cup {<<fn, Instr.ref>>}
    /\ Advance(Top.ls)
    /\ UNCHANGED <<unlockOfUnlockedCandidates, lockLeakCandidates, observations,
                   callSites, lockOrderEdges, acquires, releases>>

\* checkReturnWithHeldLocks: the locks held here without a deferred unlock
\* replace the candidates kept under the same return position.
LeakedAt(ls) == Keys(ls) \ ls.deferred

KeptCandidates(pos) == {c \in lockLeakCandidates : c.pos # pos}

Return ==
    /\ At({"return"})
    /\ lockLeakCandidates' =
         KeptCandidates(Instr.pos)
           \cup {[fn |-> fn, pos |-> Instr.pos, ref |-> r] : r \in LeakedAt(Top.ls)}
    /\ Advance(Top.ls)
    /\ UNCHANGED <<diags, unlockOfUnlockedCandidates, deferredLockTypoReported,
                   observations, callSites, lockOrderEdges, acquires, releases>>

\* sameBaseMutexFields: the held locks of one struct instance, with their modes.
sameBaseMutexFields(base, ls) ==
    {<<r, ls.held[r]>> : r \in {k \in Keys(ls) : BaseOf[k] = base}}

ObservedAt(field, i) ==
    \E o \in observations : o.field = field /\ o.pos = i.pos /\ o.isRead = i.isRead

\* processStore, processRead and recordAncestorObservations: nothing is recorded
\* twice for one (field, position, read or write).
NewObservations(ls, i) ==
    IF i.chain = <<>> \/ ObservedAt(i.chain[1].field, i) THEN {}
    ELSE {[field |-> i.chain[k].field, pos |-> i.pos, isRead |-> i.isRead, fn |-> fn,
           held |-> sameBaseMutexFields(i.chain[k].base, ls)] :
            k \in {j \in DOMAIN i.chain :
                     /\ ~ObservedAt(i.chain[j].field, i)
                     /\ \A l \in 1..(j - 1) : i.chain[l].field # i.chain[j].field}}

Access ==
    /\ At({"access"})
    /\ observations' = observations \cup NewObservations(Top.ls, Instr)
    /\ Advance(Top.ls)
    /\ UNCHANGED <<diags, unlockOfUnlockedCandidates, lockLeakCandidates,
                   deferredLockTypoReported, callSites, lockOrderEdges,
                   acquires, releases>>

\* normalizeLockState: the type-scoped keys of the held locks.
normalizeLockState(ls) ==
    {<<NormKeyOf[r], ls.held[r]>> : r \in {k \in Keys(ls) : NormKeyOf[k] # NoKey}}

CallSite(i, ls) ==
    [caller |-> fn, callee |-> i.callee, pos |-> i.pos, held |-> normalizeLockState(ls)]

\* Mutant of recordCallSite: one record per call, as with observations.
recordCallSiteOnce(i, ls) ==
    callSites \cup IF \E c \in callSites : c.caller = fn /\ c.pos = i.pos THEN {} ELSE {CallSite(i, ls)}

recordCallSite(i, ls) == callSites \cup {CallSite(i, ls)}

\* processCall on a static callee that is no mutex method.
Call ==
    /\ At({"call"})
    /\ callSites' = recordCallSite(Instr, Top.ls)
    /\ Advance(Top.ls)
    /\ UNCHANGED <<diags, unlockOfUnlockedCandidates, lockLeakCandidates,
                   deferredLockTypoReported, observations, lockOrderEdges,
                   acquires, releases>>

\* processInstruction's switch has no case for the instruction.
Skip ==
    /\ At({"other"})
    /\ Advance(Top.ls)
    /\ UNCHANGED passVars

-----------------------------------------------------------------------------
(* walkFunction and walkBlock. *)

\* Mutant of Frame: a block's successors are walked before its instructions.
FrameAtSuccs(b, ls, shared) == [block |-> b, ls |-> ls, shared |-> shared, ip |-> 1, succ |-> 1]

Frame(b, ls, shared) == [block |-> b, ls |-> ls, shared |-> shared, ip |-> 1, succ |-> 0]

\* The next function of collectObservations: a fresh walkContext and, if the
\* function has blocks, the walk of its entry block.
WalkFunction ==
    /\ stack = <<>>
    /\ fn < Len(prog)
    /\ fn' = fn + 1
    /\ entryStates' = [b \in DOMAIN prog[fn + 1] \cap {1} |-> newLockState]
    /\ exitStates' = <<>>
    /\ inconsistentLockReported' = {}
    /\ stack' = IF prog[fn + 1] = <<>> THEN <<>> ELSE <<Frame(1, newLockState, FALSE)>>
    /\ UNCHANGED <<prog, passVars>>

\* All instructions are done: remember the exit state, turn to the successors.
ExitBlock ==
    /\ stack # <<>>
    /\ Top.ip > Len(Code(Top.block))
    /\ Top.succ = 0
    /\ exitStates' = Put(exitStates, Top.block, Top.ls)
    /\ stack' = [stack EXCEPT ![Len(stack)].succ = 1]
    /\ UNCHANGED <<prog, fn, entryStates, inconsistentLockReported, passVars>>

\* The loop over block.Succs has a next successor.
HasNextSucc == stack # <<>> /\ Top.succ \in DOMAIN Succs(Top.block)
NextSucc == Succs(Top.block)[Top.succ]

\* The stack once the recursive call has returned early, or has started to
\* walk block b with lock state ls.
Returned == [stack EXCEPT ![Len(stack)].succ = @ + 1]
Entered(b, ls, shared) == Append(Returned, Frame(b, ls, shared))
CanEnter == Len(stack) < MaxDepth

\* The first visit: entryStates gets a copy.
VisitBlock ==
    /\ HasNextSucc
    /\ NextSucc \notin DOMAIN entryStates
    /\ CanEnter
    /\ entryStates' = Put(entryStates, NextSucc, Top.ls)
    /\ stack' = Entered(NextSucc, Top.ls, FALSE)
    /\ UNCHANGED <<prog, fn, exitStates, inconsistentLockReported, passVars>>

\* An early return: the block was walked with the same keys.
RevisitEqual ==
    /\ HasNextSucc
    /\ NextSucc \in DOMAIN entryStates
    /\ equalHeld(Top.ls, entryStates[NextSucc])
    /\ stack' = Returned
    /\ UNCHANGED <<prog, fn, entryStates, exitStates, inconsistentLockReported, passVars>>

\* Whether this visit of NextSucc reports an inconsistent lock state.
ReportsInconsistency ==
    /\ NextSucc \notin inconsistentLockReported
    /\ Cardinality(Preds(NextSucc)) > 1
    /\ ~isBackEdge(Top.block, NextSucc)

\* Mutant of InconsistencyDiags: all locks that either state holds.
InconsistencyDiagsEither(b, stateA, stateB) ==
    IF blockPos(b) = NoPos THEN {}
    ELSE UNION {Diag("inconsistent", blockPos(b), r) : r \in Keys(stateA) \cup Keys(stateB)}

\* reportInconsistentLockState
InconsistencyDiags(b, stateA, stateB) ==
    IF blockPos(b) = NoPos THEN {}
    ELSE UNION {Diag("inconsistent", blockPos(b), r) : r \in diff(stateA, stateB)}

\* The block was walked with other keys: merge, report once, and walk it
\* again unless the merge changed nothing, with the lock state stored in entryStates.
RevisitMerge ==
    /\ HasNextSucc
    /\ NextSucc \in DOMAIN entryStates
    /\ ~equalHeld(Top.ls, entryStates[NextSucc])
    /\ LET prev   == entryStates[NextSucc]
           merged == intersect(prev, Top.ls)
       IN /\ IF ReportsInconsistency
               THEN /\ diags' = diags \cup InconsistencyDiags(NextSucc, prev, Top.ls)
                    /\ inconsistentLockReported' = inconsistentLockReported \cup {NextSucc}
               ELSE UNCHANGED <<diags, inconsistentLockReported>>
          /\ IF equalHeld(merged, prev)
               THEN stack' = Returned /\ UNCHANGED entryStates
               ELSE /\ CanEnter
                    /\ entryStates' = Put(entryStates, NextSucc, merged)
                    /\ stack' = Entered(NextSucc, merged, TRUE)
    /\ UNCHANGED <<prog, fn, exitStates, unlockOfUnlockedCandidates,
                   lockLeakCandidates, deferredLockTypoReported, observations,
                   callSites, lockOrderEdges, acquires, releases>>

\* All successors are done: the activation returns.
LeaveBlock ==
    /\ stack # <<>>
    /\ Top.succ > Len(Succs(Top.block))
    /\ stack' = SubSeq(stack, 1, Len(stack) - 1)
    /\ UNCHANGED <<prog, fn, entryStates, exitStates, inconsistentLockReported, passVars>>

-----------------------------------------------------------------------------
Init ==
    /\ prog \in Programs
    /\ fn = 0
    /\ stack = <<>>
    /\ entryStates = <<>> /\ exitStates = <<>> /\ inconsistentLockReported = {}
    /\ diags = {} /\ unlockOfUnlockedCandidates = {} /\ lockLeakCandidates = {}
    /\ deferredLockTypoReported = {} /\ observations = {} /\ callSites = {}
    /\ lockOrderEdges = {}
    /\ acquires = [f \in FuncIds |-> {}] /\ releases = [f \in FuncIds |-> {}]

ProcessInstruction == Lock \/ Unlock \/ DeferUnlock \/ DeferLock \/ Return \/ Access \/ Call \/ Skip
WalkBlock == VisitBlock \/ RevisitEqual \/ RevisitMerge \/ ExitBlock \/ LeaveBlock

Next == WalkFunction \/ ProcessInstruction \/ WalkBlock

Spec == Init /\ [][Next]_vars

\* collectObservations has returned.
Done == fn = Len(prog) /\ stack = <<>>

-----------------------------------------------------------------------------
Frames == {f \in [block : DOMAIN Body, ls : LockStates, shared : BOOLEAN, ip : Nat, succ : Nat] :
             /\ f.ip \in 1..(Len(Code(f.block)) + 1)
             /\ f.succ \in 0..(Len(Succs(f.block)) + 1)
             /\ f.succ > 0 => f.ip = Len(Code(f.block)) + 1}

\* Type invariant of the walk: a frame points into its block, only the top
\* frame has instructions left, every block on the stack has an entry state, and
\* during a re-walk that is the running lock state.
TypeOK ==
    /\ prog \in Seq(Bodies) /\ DOMAIN prog \subseteq FuncIds
    /\ fn \in 0..Len(prog)
    /\ fn = 0 => stack = <<>>
    /\ fn > 0 =>
         /\ stack \in Seq(Frames)
         /\ \A k \in 1..Len(stack) :
              /\ stack[k].block \in DOMAIN entryStates
              /\ k < Len(stack) => stack[k].succ > 0
         /\ (stack # <<>> /\ Top.shared /\ Top.succ = 0) => entryStates[Top.block] = Top.ls
         /\ DOMAIN entryStates \subseteq DOMAIN Body
         /\ \A b \in DOMAIN entryStates : entryStates[b] \in LockStates
    /\ acquires \in [FuncIds -> SUBSET MutexKeys]
    /\ releases \in [FuncIds -> SUBSET MutexKeys]

\* What an instruction does to the locks of the goroutine that executes it, as
\* the sync package has it: the walk's handlers are compared with this.
Effect(i, ls) ==
    CASE i.op = "lock"        -> [ls EXCEPT !.held[i.ref] = i.mode]
      [] i.op = "unlock"      -> [ls EXCEPT !.held[i.ref] = "free"]
      [] i.op = "deferUnlock" -> [ls EXCEPT !.deferred = @ \cup {i.ref}]
      [] OTHER                -> ls

\* ls <= other: every key and every deferred unlock of ls is one of other.
Below(ls, other) == Keys(ls) \subseteq Keys(other) /\ ls.deferred \subseteq other.deferred

\* docs/design.md: the visited-block cache prevents re-walking blocks with the same lock
\* state.  So no block is on the stack more often than there are lock states for
\* equalHeld to tell apart: a set of held locks and a set of deferred unlocks.
RewalksBounded ==
    \A b \in {stack[k].block : k \in DOMAIN stack} :
      Cardinality({k \in DOMAIN stack : stack[k].block = b}) <= 4 ^ Cardinality(LockRefs)

\* Every C5 candidate the walk of a function leaves behind is still there when
\* the later phases read the candidates (checkReturnWithHeldLocks keys them by
\* return position): walking one function drops no candidate of another.
LeakCandidatesKept ==
    [][ \A c \in lockLeakCandidates : c.fn # fn => c \in lockLeakCandidates' ]_vars
=============================================================================
