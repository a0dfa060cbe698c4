-------------------------- MODULE MCVirtualBoxNet --------------------------
(***************************************************************************)
(* An instance of VirtualBoxNet for TLC: two networks whose names are one  *)
(* word and one whose name is two, the first of them the name of another,  *)
(* and one pair of ports forwarded for tcp or for udp.                     *)
(***************************************************************************)
EXTENDS VirtualBoxNet, TLC

CONSTANTS net, lab, labTwo, tcp, udp

MCFirstWord == net :> net @@ lab :> lab @@ labTwo :> lab
MCRule == [name : {"pf-8080-80"}, forward : {tcp, udp}]
MCAsked == [op : {"ensure"}, network : {lab}, cidr : CIDR]
           \cup [op : {"expose"}, network : {lab}, rule : MCRule]
           \cup [op : {"ip"}, network : {None, lab}]
MCSymmetry == Permutations(Call) \cup Permutations(MAC)
              \cup Permutations(CIDR) \cup Permutations({tcp, udp})
=============================================================================
