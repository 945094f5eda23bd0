------------------------------ MODULE MCLeaks ------------------------------
(* Leaks on the packages of Packages. *)
EXTENDS Leaks, Packages
=============================================================================
