------------------------------- MODULE MCWalk -------------------------------
(* WalkSound and WalkExact on the packages of Packages. *)
EXTENDS WalkSound, WalkExact, Packages
=============================================================================
