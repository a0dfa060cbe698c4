-------------------------- MODULE FetchOverCache --------------------------
(***************************************************************************)
(* Fetch (core/artifact/fetch.go) on top of fetchHTTPS as AtomicCache has  *)
(* it: where FetchArtifact says for itself what a download does to the     *)
(* cache, here Fetch calls the abstract cache and goes on with its reply.  *)
(* FetchHTTPSProofs shows that fetchHTTPS is that cache, and               *)
(* FetchArtifactProofs that what is built on it is FetchArtifact.          *)
(***************************************************************************)
EXTENDS FetchArtifact

VARIABLES
  phase,  \* of the one call of fetchHTTPS that is made at a time
  asked,  \* its destPath
  sought, \* its wantSHA
  reply   \* out, err

request == <<phase, asked, sought, reply>>

It == "fetchHTTPS"

Cache == INSTANCE AtomicCache WITH Request <- {It}, Entry <- Names, store <- cache,
                                   dest <- asked, want <- sought

OverInit == Init /\ Cache!Init

\* Fetch knows where and what, and calls fetchHTTPS unless nothing is to be done.
LookupAsks == /\ Lookup
              /\ IF job.dry THEN UNCHANGED request ELSE Cache!Ask(It, dest', want')

\* fetchHTTPS returns, and Fetch looks at nothing but err.
Returns == /\ pc = "get"
           /\ \/ Cache!Hit(It)
              \/ Serving.release <= release[Origin(r)] /\ Cache!Put(It, Serving)
              \/ Cache!Fail(It)
           /\ IF reply'[It] = "failed" THEN Finish("failed") ELSE Got
           /\ UNCHANGED <<release, dir, inUse>>

Ends == /\ TakeReply \/ Kill
        /\ IF phase[It] = "idle" THEN UNCHANGED request ELSE Cache!End(It)

\* What Fetch does without the cache, and what others do to it.
Else == /\ \/ \E j \in Jobs : Fetch(j)
           \/ LookupFails
           \/ \E m \in Members : ExtractMember(m)
           \/ CopyMember \/ Extracted \/ ExtractFails
           \/ World
        /\ UNCHANGED request

OverNext == LookupAsks \/ Returns \/ Ends \/ Else

OverSpec == OverInit /\ [][OverNext]_<<vars, request>>
=============================================================================
