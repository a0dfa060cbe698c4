------------------------------ MODULE MCRunCmd ------------------------------
(***************************************************************************)
(* Instances of RunCmd for TLC.  An invocation is not reused, so the end   *)
(* of all of them is a deadlock.                                           *)
(***************************************************************************)
EXTENDS RunCmd
=============================================================================
