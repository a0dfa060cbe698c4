-------------------------- MODULE MCProviderSelect --------------------------
(***************************************************************************)
(* An instance of ProviderSelect for TLC.  Calls share nothing but the     *)
(* host, which may change at any time, so one call meets all there is.     *)
(***************************************************************************)
EXTENDS ProviderSelect, TLC
=============================================================================
