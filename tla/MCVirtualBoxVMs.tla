-------------------------- MODULE MCVirtualBoxVMs --------------------------
(***************************************************************************)
(* An instance of VirtualBoxVMs for TLC.                                   *)
(***************************************************************************)
EXTENDS VirtualBoxVMs, TLC

\* Callers are interchangeable, and so are the numbers of CPUs.
MCSymmetry == Permutations(Call) \cup Permutations(CPUs)
=============================================================================
