---------------------------- MODULE MCVMwareVMs ----------------------------
(***************************************************************************)
(* Instances of VMwareVMs for TLC: one key that every machine has and one  *)
(* that only a call sets.                                                  *)
(***************************************************************************)
EXTENDS VMwareVMs, TLC

CONSTANTS v1, v2, memsize, guestinfo, a, b

MCKey == {memsize, guestinfo}
MCImage == memsize :> a @@ guestinfo :> None
MCSettings == {memsize :> b, memsize :> b @@ guestinfo :> a}
\* One machine was moved here.
MCForeign == {<<v2, "foreign">>}
\* Machines are called by their names, and one of them by its path too.
MCTarget == VM \cup {<<v1, "own">>}
MCSymmetry == Permutations(Call)
=============================================================================
