----------------------------- MODULE WalkSound -----------------------------
(***************************************************************************)
(* What the results of a walk mean for the executions of the function.     *)
(*                                                                         *)
(* The walk of SsaWalk is observed by a history variable and followed by   *)
(* an execution of the function it walked:                                 *)
(*   paths  for each frame, the exact lock state along the path of blocks  *)
(*          on the stack: no merge has touched it                          *)
(*   x      an execution: block, next instruction, locks held and unlocks  *)
(*          deferred so far.  It may take any successor, as the walk does; *)
(*          a lock operation changes only its own reference, and a call    *)
(*          leaves the caller's locks as they were                         *)
(***************************************************************************)
EXTENDS SsaWalk

VARIABLES paths, x

svars == <<vars, paths, x>>

Idle == [on |-> FALSE, block |-> 1, ip |-> 1, ls |-> newLockState]

-----------------------------------------------------------------------------
SInit == Init /\ paths = <<>> /\ x = Idle

StartFunction ==
    /\ WalkFunction
    /\ paths' = IF stack' = <<>> THEN <<>> ELSE <<newLockState>>
    /\ x' = Idle

StepInstruction ==
    /\ ProcessInstruction
    /\ paths' = [paths EXCEPT ![Len(stack)] = Effect(Instr, @)]
    /\ UNCHANGED x

\* A recursive call that walks the block, rather than return early.
Enters == Len(stack') > Len(stack)

StepBlock ==
    /\ WalkBlock
    /\ paths' = IF Enters THEN Append(paths, paths[Len(stack)])
                ELSE SubSeq(paths, 1, Len(stack'))
    /\ UNCHANGED x

\* The function whose walk has just ended is called.
Begin ==
    /\ stack = <<>> /\ fn > 0 /\ Body # <<>>
    /\ ~x.on
    /\ x' = [x EXCEPT !.on = TRUE]
    /\ UNCHANGED <<vars, paths>>

Execute ==
    /\ x.on /\ x.ip <= Len(Code(x.block))
    /\ x' = [x EXCEPT !.ls = Effect(Code(x.block)[x.ip], @), !.ip = @ + 1]
    /\ UNCHANGED <<vars, paths>>

Branch ==
    /\ x.on /\ x.ip > Len(Code(x.block))
    /\ \E i \in DOMAIN Succs(x.block) :
         x' = [x EXCEPT !.block = Succs(x.block)[i], !.ip = 1]
    /\ UNCHANGED <<vars, paths>>

SNext == StartFunction \/ StepInstruction \/ StepBlock \/ Begin \/ Execute \/ Branch

SSpec == SInit /\ [][SNext]_svars

-----------------------------------------------------------------------------
\* Soundness of the walk (walkBlock with merge by intersection) where re-walks leave it
\* intact, at the end of a block: whatever path an execution takes there, it holds every
\* lock, and has deferred every unlock, of the block's exit state.
ExitHeld ==
    (x.on /\ x.ip > Len(Code(x.block))) =>
      x.block \in DOMAIN exitStates /\ Below(exitStates[x.block], x.ls)

\* ls claims nothing that the exact state does not have, modes included.
Within(ls, exact) ==
    /\ \A r \in LockRefs : ls.held[r] \in {"free", exact.held[r]}
    /\ ls.deferred \subseteq exact.deferred

\* The lock state of a frame is real on the path of the stack, in the same modes:
\* what checkAndRecordLockAcquire and checkAndRecordUnlock report about a held
\* lock (double lock, upgrade, mismatched unlock) happens on that path.
HeldOnPath ==
    /\ Len(paths) = Len(stack)
    /\ \A k \in DOMAIN stack : Within(stack[k].ls, paths[k])

-----------------------------------------------------------------------------
(* What a document says, and the walk does not do. *)

\* docs/design-c3-c4.md: C4 fires when an unlock instruction executes with the lock not
\* held.  An execution that does so is at a candidate of checkAndRecordUnlock.
UnlocksCaught ==
    (x.on /\ x.ip <= Len(Code(x.block))) =>
      LET i == Code(x.block)[x.ip]
      IN  (i.op = "unlock" /\ x.ls.held[i.ref] = "free") =>
             [fn |-> fn, pos |-> i.pos, ref |-> i.ref] \in unlockOfUnlockedCandidates
=============================================================================
