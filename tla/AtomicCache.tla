---------------------------- MODULE AtomicCache ----------------------------
(***************************************************************************)
(* What fetchHTTPS (core/artifact/fetch.go) promises the tools built on    *)
(* it: the artifact cache is a map from destination paths to whole         *)
(* payloads, and a fetch replaces one entry in a single step, with a       *)
(* payload that has the requested checksum, or leaves the map alone.       *)
(* Nothing here knows about temporary files, blocks or hashing.            *)
(***************************************************************************)
CONSTANTS Request,  \* identities of fetch calls
          Entry,    \* destination paths
          Payload,  \* bodies an origin may serve; a payload is its own sha256
          None      \* no payload, no checksum, no reply

VARIABLES store,    \* the payload at each destination, or None
          phase,    \* "idle", "busy" or "done", for each fetch
          dest,     \* the destination each fetch was asked for
          want,     \* the sha256 it must have, None when the caller has none
          reply     \* what the fetch reported

vars == <<store, phase, dest, want, reply>>

Init == /\ store = [d \in Entry |-> None]
        /\ phase = [f \in Request |-> "idle"]
        /\ dest = [f \in Request |-> None]
        /\ want = [f \in Request |-> None]
        /\ reply = [f \in Request |-> None]

Finish(f, answer) == /\ phase[f] = "busy"
                     /\ phase' = [phase EXCEPT ![f] = "done"]
                     /\ reply' = [reply EXCEPT ![f] = answer]
                     /\ UNCHANGED <<dest, want>>

Ask(f, d, w) == /\ phase[f] = "idle"
                /\ phase' = [phase EXCEPT ![f] = "busy"]
                /\ dest' = [dest EXCEPT ![f] = d]
                /\ want' = [want EXCEPT ![f] = w]
                /\ UNCHANGED <<store, reply>>

\* The entry already has the wanted checksum: nothing is downloaded.
Hit(f) == /\ want[f] # None
          /\ store[dest[f]] = want[f]
          /\ Finish(f, "present")
          /\ UNCHANGED store

\* The entry becomes p, all of it at once, if p is what was asked for.
Put(f, p) == /\ want[f] \in {None, p}
             /\ store' = [store EXCEPT ![dest[f]] = p]
             /\ Finish(f, "fetched")

Fail(f) == /\ Finish(f, "failed")
           /\ UNCHANGED store

\* The caller takes the reply, or the server process dies: either way the
\* call is over and the cache is as it was.
End(f) == /\ phase[f] # "idle"
          /\ phase' = [phase EXCEPT ![f] = "idle"]
          /\ dest' = [dest EXCEPT ![f] = None]
          /\ want' = [want EXCEPT ![f] = None]
          /\ reply' = [reply EXCEPT ![f] = None]
          /\ UNCHANGED store

Next == \E f \in Request :
          \/ \E d \in Entry, w \in Payload \cup {None} : Ask(f, d, w)
          \/ Hit(f)
          \/ \E p \in Payload : Put(f, p)
          \/ Fail(f)
          \/ End(f)

Spec == Init /\ [][Next]_vars
=============================================================================
