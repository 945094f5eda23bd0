----------------------------- MODULE LockState -----------------------------
(***************************************************************************)
(* The lock state that the SSA walk threads through a function             *)
(* (pkg/analyzer/lockstate.go).                                            *)
(*                                                                         *)
(* The Go map  held : lockRef -> heldLock  is a total function from lock   *)
(* references to a mode, "free" standing for an absent key; the position   *)
(* kept in heldLock only words a diagnostic and is left out.  The Go map   *)
(* deferredUnlocks is the set of its keys.                                 *)
(*                                                                         *)
(* A Go lockState is a pointer to mutable maps; the model has its value.   *)
(* fork copies the maps, and a copy has the same value.  The walk shares   *)
(* one lockState between two places only where it does not fork, on the    *)
(* re-walk of a block, and SsaWalk writes both places there.               *)
(***************************************************************************)
CONSTANT LockRefs   \* the lock references of the analysed functions

Modes == {"shared", "exclusive"}

LockStates == [held : [LockRefs -> Modes \cup {"free"}], deferred : SUBSET LockRefs]

newLockState == [held |-> [r \in LockRefs |-> "free"], deferred |-> {}]

\* The keys of the Go map held.
Keys(ls) == {r \in LockRefs : ls.held[r] # "free"}

lock(ls, ref, mode) == [ls EXCEPT !.held[ref] = mode]

\* Mutant of unlock: RUnlock leaves the lock in the map.
unlockKeepsShared(ls, ref) ==
    IF ls.held[ref] = "shared" THEN ls ELSE [ls EXCEPT !.held[ref] = "free"]

unlock(ls, ref) == [ls EXCEPT !.held[ref] = "free"]

deferUnlock(ls, ref) == [ls EXCEPT !.deferred = @ \cup {ref}]

\* Mutant of equalHeld: the deferred unlocks are forgotten.
equalHeldOnly(ls, other) == Keys(ls) = Keys(other)

\* Compares the key sets only: a lock held in two modes counts as equal.
equalHeld(ls, other) ==
    /\ Keys(ls) = Keys(other)
    /\ ls.deferred = other.deferred

\* The two result slices of diff, which reportInconsistentLockState unites.
diff(ls, other) == (Keys(ls) \ Keys(other)) \cup (Keys(other) \ Keys(ls))

\* Mutants of intersect: the merge keeps the first state as it is, or what either has.
intersectFirst(ls, other) == ls
intersectEither(ls, other) ==
    [held     |-> [r \in LockRefs |-> IF ls.held[r] = "free" THEN other.held[r] ELSE ls.held[r]],
     deferred |-> ls.deferred \cup other.deferred]

intersect(ls, other) ==
    [held     |-> [r \in LockRefs |-> IF ls.held[r] = other.held[r]
                                        THEN ls.held[r] ELSE "free"],
     deferred |-> ls.deferred \cap other.deferred]
=============================================================================
