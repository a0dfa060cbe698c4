---------------------------- MODULE MCFetchHTTPS ----------------------------
(***************************************************************************)
(* Instances of FetchHTTPS for TLC: two payloads of different lengths, so  *)
(* that a short body can be written over the remains of a longer one.      *)
(***************************************************************************)
EXTENDS FetchHTTPS, TLC

CONSTANTS p1, p2

MCPayload == {p1, p2}
MCSize == p1 :> 1 @@ p2 :> MaxSize

\* Fetches, destinations and inodes are interchangeable; payloads are not.
MCSymmetry == Permutations(Fetch) \cup Permutations(Inode)
=============================================================================
