------------------------------ MODULE Summary ------------------------------
(***************************************************************************)
(* What the propagation promises the later phases: in one step, the least  *)
(* requirements and the least acquisitions of the functions of a package.  *)
(***************************************************************************)
EXTENDS CallGraph

VARIABLES pkg, result      \* result: <<>>, then <<requires, acquiresTransitive>>

Init == pkg \in Packages /\ result = <<>>

IsLeast(R, Solves(_, _)) ==
    Solves(pkg, R) /\ \A S \in LockSets : Solves(pkg, S) => Contained(R, S)

Compute ==
    /\ result = <<>>
    /\ result' \in LockSets \X LockSets
    /\ IsLeast(result'[1], SolvesRequires)
    /\ IsLeast(result'[2], SolvesAcquires)
    /\ UNCHANGED pkg

Spec == Init /\ [][Compute]_<<pkg, result>>
=============================================================================
