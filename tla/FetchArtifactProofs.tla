------------------------ MODULE FetchArtifactProofs ------------------------
(***************************************************************************)
(* A fetch answers with what it was asked for, with the latest release and *)
(* with the whole of one box, whatever lies under the same name, for any   *)
(* artifacts, names, publishers and numbers of releases.                   *)
(***************************************************************************)
EXTENDS FetchOverCache, TLAPS

\* What a call was asked, and when.
Asked == pc # "idle" => job \in Jobs /\ known \in Releases /\ known <= release[Origin(r)]

\* What it found published.
Looked == pc \in {"get", "extract", "ok", "dry"} =>
            /\ version \in Releases /\ (job.tag = None => known <= version)
            /\ want = IF r \in Digested THEN Body(r, version) ELSE None

\* What it has extracted so far.
Boxed == pc = "extract" =>
           /\ r.channel = "vagrant" /\ cache[dest] = Body(r, version)
           /\ \A m \in Members \ (left \cup {member}) :
                \/ dir[dest][m] = cache[dest]
                \/ m = "disk" /\ dest \in inUse
                \/ m \in unseen

IInv == TypeOK /\ Asked /\ Looked /\ Boxed
-----------------------------------------------------------------------------
LEMMA Constants ==
  /\ \A a \in Artifact : Origin(a) \in Origins
  /\ Releases \subseteq Nat
  /\ \A a \in Artifact, v \in Releases :
       /\ Dest(a, v) \in Names /\ (a.channel = "vagrant" => Dest(a, v) \in Boxes)
       /\ Body(a, v) \in Payload
       /\ Body(a, v).of = Origin(a) /\ Body(a, v).release = v
  /\ \A o \in Origins : MaxRelease[o] \in Nat \ {0} /\ 1 .. MaxRelease[o] \subseteq Releases
<1>1. MaxRelease \in [Origins -> Nat \ {0}]
  BY BoundAssumption
<1>2. Releases = UNION {1 .. MaxRelease[o] : o \in Origins}
  BY DEF Releases
<1>3. \A a \in Artifact : Origin(a) \in Origins
  BY DEF Origins
<1>4. Releases \subseteq Nat
  BY <1>1, <1>2
<1>5. \A o \in Origins : MaxRelease[o] \in Nat \ {0} /\ 1 .. MaxRelease[o] \subseteq Releases
  BY <1>1, <1>2
<1>6. ASSUME NEW a \in Artifact, NEW v \in Releases
      PROVE  /\ Dest(a, v) \in Names /\ (a.channel = "vagrant" => Dest(a, v) \in Boxes)
             /\ Body(a, v) \in Payload
             /\ Body(a, v).of = Origin(a) /\ Body(a, v).release = v
  <2>1. Dest(a, v) \in Names /\ (a.channel = "vagrant" => Dest(a, v) \in Boxes)
    BY DEF Names, Boxes
  <2> QED
    BY <1>3, <2>1 DEF Body, Payload
<1> QED
  BY <1>3, <1>4, <1>5, <1>6

LEMMA InitInv == Init => IInv
<1> SUFFICES ASSUME Init PROVE IInv
  OBVIOUS
<1>1. \A o \in Origins : 1 \in Releases
  BY Constants
<1>2. TypeOK
  BY <1>1 DEF Init, Rest, TypeOK, Held
<1> QED
  BY <1>2 DEF Init, Rest, IInv, Asked, Looked, Boxed

\* What a call that is under way is about.
LEMMA UnderWay ==
  ASSUME IInv, pc # "idle"
  PROVE  /\ r \in Artifact /\ Origin(r) \in Origins
         /\ release[Origin(r)] \in Releases /\ release[Origin(r)] \in Nat
         /\ pc \in {"get", "extract", "ok", "dry"} =>
              /\ version \in Releases /\ dest \in Names /\ Body(r, version) \in Payload
              /\ r.channel = "vagrant" => dest \in Boxes
<1>1. r \in Artifact
  BY DEF IInv, Asked, Jobs, r
<1>2. Origin(r) \in Origins /\ release[Origin(r)] \in Releases
  BY <1>1, Constants DEF IInv, TypeOK
<1> QED
  BY <1>1, <1>2, Constants DEF IInv, Looked, dest

\* A call that ends.
LEMMA FinishInv ==
  ASSUME IInv, pc # "idle", NEW answer \in {"ok", "failed"}, Finish(answer),
         answer = "ok" => pc \in {"get", "extract"},
         cache' \in [Names -> Held], UNCHANGED <<release, dir, inUse>>
  PROVE  IInv'
<1>1. /\ pc' = answer /\ member' = None
      /\ UNCHANGED <<job, known, version, want, left, unseen>>
  BY DEF Finish
<1>2. TypeOK /\ Asked /\ Looked
  BY DEF IInv
<1>3. TypeOK'
  BY <1>1, <1>2 DEF TypeOK
<1>4. Asked' /\ Looked' /\ Boxed'
  BY <1>1, <1>2 DEF Asked, Looked, Boxed, r
<1> QED
  BY <1>3, <1>4 DEF IInv

\* A file that has come to the cache: the call ends, or goes on to the box.
LEMMA GotInv ==
  ASSUME IInv, pc = "get", Got, cache' \in [Names -> Held],
         r.channel = "vagrant" => cache'[dest] = Body(r, version),
         UNCHANGED <<release, dir, inUse>>
  PROVE  IInv'
<1>1. CASE r.channel # "vagrant"
  BY <1>1, FinishInv DEF Got
<1>2. CASE r.channel = "vagrant"
  <2>1. /\ pc' = "extract" /\ left' = Members
        /\ UNCHANGED <<job, known, version, want, member, unseen>>
    BY <1>2 DEF Got
  <2>2. TypeOK /\ Asked /\ Looked
    BY DEF IInv
  <2>3. TypeOK'
    BY <2>1, <2>2 DEF TypeOK
  <2>4. Asked' /\ Looked'
    BY <2>1, <2>2 DEF Asked, Looked, r
  <2>5. Boxed'
    BY <1>2, <2>1 DEF Boxed, r, dest
  <2> QED
    BY <2>3, <2>4, <2>5 DEF IInv
<1> QED
  BY <1>1, <1>2

LEMMA FetchInv ==
  ASSUME IInv, NEW j \in Jobs, Fetch(j)
  PROVE  IInv'
<1>1. /\ pc' = "resolve" /\ job' = j /\ known' = release[Origin(j.artifact)]
      /\ UNCHANGED <<release, cache, dir, inUse, version, want, left, member, unseen>>
  BY DEF Fetch
<1>2. TypeOK
  BY DEF IInv
<1>3. j.artifact \in Artifact
  BY DEF Jobs
<1>4. release[Origin(j.artifact)] \in Releases /\ release[Origin(j.artifact)] \in Nat
  BY <1>2, <1>3, Constants DEF TypeOK
<1>5. TypeOK'
  BY <1>1, <1>2, <1>4 DEF TypeOK
<1>6. Asked' /\ Looked' /\ Boxed'
  BY <1>1, <1>4 DEF Asked, Looked, Boxed, r
<1> QED
  BY <1>5, <1>6 DEF IInv

LEMMA LookupInv ==
  ASSUME IInv, Lookup
  PROVE  IInv'
<1> DEFINE v == IF Versioned(r) /\ job.tag # None THEN job.tag ELSE release[Origin(r)]
<1>1. /\ pc = "resolve" /\ version' = v /\ want' = IF r \in Digested THEN Body(r, v) ELSE None
      /\ pc' = IF job.dry THEN "dry" ELSE "get"
      /\ UNCHANGED <<release, cache, dir, inUse, job, known, left, member, unseen>>
  BY DEF Lookup
<1>2. TypeOK /\ Asked /\ Boxed
  BY DEF IInv
<1>3. r \in Artifact /\ release[Origin(r)] \in Releases
  BY <1>1, UnderWay
<1>4. v \in Releases /\ (job.tag = None => known <= v)
  <2>1. job \in Jobs /\ job.tag \in Releases \cup {None}
    BY <1>1, <1>2 DEF Asked, Jobs
  <2> QED
    BY <1>1, <1>2, <1>3, <2>1 DEF Asked
<1>5. Body(r, v) \in Payload
  BY <1>3, <1>4, Constants
<1> HIDE DEF v
<1>6. TypeOK'
  BY <1>1, <1>2, <1>4, <1>5 DEF TypeOK, Held
<1>7. Asked' /\ Looked' /\ Boxed'
  BY <1>1, <1>2, <1>4 DEF Asked, Looked, Boxed, r
<1> QED
  BY <1>6, <1>7 DEF IInv

LEMMA DownloadInv ==
  ASSUME IInv, Download
  PROVE  IInv'
<1> DEFINE v == IF Versioned(r) THEN version ELSE release[Origin(r)]
<1>1. /\ pc = "get" /\ cache' = [cache EXCEPT ![dest] = Body(r, v)] /\ Got
      /\ UNCHANGED <<release, dir, inUse>>
  BY DEF Download, Serving
<1>2. r \in Artifact /\ version \in Releases /\ v \in Releases /\ dest \in Names
  BY <1>1, UnderWay
<1>3. Body(r, v) \in Payload
  BY <1>2, Constants
<1>4. r.channel = "vagrant" => Body(r, v) = Body(r, version)
  BY DEF Versioned
<1> HIDE DEF v
<1>5. cache \in [Names -> Held]
  BY DEF IInv, TypeOK
<1>6. cache' \in [Names -> Held]
  BY <1>1, <1>3, <1>5 DEF Held
<1>7. r.channel = "vagrant" => cache'[dest] = Body(r, version)
  BY <1>1, <1>2, <1>4, <1>5
<1> QED
  BY <1>1, <1>6, <1>7, GotInv

\* A step that changes a member of the box at most.
LEMMA ExtractInv ==
  ASSUME IInv, pc = "extract", NEW m \in Members, NEW file \in Held \cup {Torn, Guest},
         dir' = [dir EXCEPT ![dest][m] = file],
         left' \in SUBSET Members, member' \in Members \cup {None},
         \A k \in Members \ (left' \cup {member'}) :
           \/ k # m /\ k \notin left \cup {member}
           \/ k = m /\ (file = cache[dest] \/ m \in unseen'),
         unseen \subseteq unseen', unseen' \subseteq Members,
         UNCHANGED <<release, cache, inUse, pc, job, known, version, want>>
  PROVE  IInv'
<1>1. TypeOK /\ Asked /\ Looked /\ Boxed
  BY DEF IInv
<1>2. dest \in Boxes /\ dest' = dest /\ r' = r
  BY <1>1, UnderWay DEF Boxed, dest, r
<1>3. dir' \in [Boxes -> [Members -> Held \cup {Torn, Guest}]]
  BY <1>1, <1>2 DEF TypeOK
<1>4. TypeOK'
  BY <1>1, <1>3 DEF TypeOK
<1>5. Asked' /\ Looked'
  BY <1>1 DEF Asked, Looked, r
<1>6. \A n \in Boxes, k \in Members :
        dir'[n][k] = IF n = dest /\ k = m THEN file ELSE dir[n][k]
  BY <1>1, <1>2 DEF TypeOK
<1>7. Boxed'
  BY <1>1, <1>2, <1>6 DEF Boxed
<1> QED
  BY <1>4, <1>5, <1>7 DEF IInv

LEMMA MembersInv ==
  ASSUME IInv, (\E m \in Members : ExtractMember(m)) \/ CopyMember
  PROVE  IInv'
<1>1. TypeOK
  BY DEF IInv
<1>2. ASSUME NEW m \in Members, ExtractMember(m) PROVE IInv'
  <2>1. /\ pc = "extract" /\ left' = left \ {m} /\ member' = m
        /\ dir' = [dir EXCEPT ![dest][m] = Torn]
        /\ member = None
        /\ UNCHANGED <<release, cache, inUse, pc, job, known, version, want, unseen>>
    BY <1>2 DEF ExtractMember
  <2>2. left' \in SUBSET Members /\ member' \in Members \cup {None} /\ unseen \subseteq Members
    BY <1>1, <2>1 DEF TypeOK
  <2>3. \A k \in Members \ (left' \cup {member'}) : k # m /\ k \notin left \cup {member}
    BY <2>1, NoneAssumption
  <2> QED
    BY <2>1, <2>2, <2>3, ExtractInv
<1>3. CASE CopyMember
  <2>1. /\ pc = "extract" /\ left' = left /\ member' = None
        /\ UNCHANGED <<release, cache, inUse, pc, job, known, version, want>>
    BY <1>3 DEF CopyMember
  <2>2. member \in Members /\ left \in SUBSET Members /\ unseen \subseteq Members
    BY <1>1, <1>3 DEF TypeOK, CopyMember
  <2>3. PICK file \in Held \cup {Torn, Guest} :
          /\ dir' = [dir EXCEPT ![dest][member] = file]
          /\ unseen \subseteq unseen' /\ unseen' \subseteq Members
          /\ file = cache[dest] \/ member \in unseen'
    <3>1. /\ dest \in Names /\ dest \in Boxes /\ cache[dest] \in Held
          /\ dir \in [Boxes -> [Members -> Held \cup {Torn, Guest}]]
      BY <1>1, <2>1, UnderWay DEF TypeOK, IInv, Boxed
    <3>2. CASE dir' = [dir EXCEPT ![dest][member] = cache[dest]] /\ unseen' = unseen
      BY <2>2, <3>1, <3>2
    <3>3. CASE dir' = dir /\ unseen' = unseen \cup {member}
      <4>1. dir[dest][member] \in Held \cup {Torn, Guest}
        BY <2>2, <3>1
      <4>2. dir' = [dir EXCEPT ![dest][member] = dir[dest][member]]
        BY <2>2, <3>1, <3>3
      <4> QED
        BY <2>2, <3>3, <4>1, <4>2
    <3> QED
      BY <1>3, <3>2, <3>3 DEF CopyMember
  <2>4. \A k \in Members \ (left' \cup {member'}) : k = member \/ k \notin left \cup {member}
    BY <2>1
  <2> QED
    BY <2>1, <2>2, <2>3, <2>4, ExtractInv
<1> QED
  BY <1>2, <1>3

LEMMA EndsInv ==
  ASSUME IInv, TakeReply \/ Kill
  PROVE  IInv'
<1>1. /\ pc' = "idle" /\ job' = NoJob /\ known' = None /\ version' = None /\ want' = None
      /\ left' = {} /\ member' = None /\ unseen' = {}
      /\ UNCHANGED <<release, cache, dir, inUse>>
  BY DEF TakeReply, Kill, Reset
<1>2. TypeOK
  BY DEF IInv
<1>3. TypeOK'
  BY <1>1, <1>2 DEF TypeOK, Held
<1> QED
  BY <1>1, <1>2, <1>3 DEF IInv, Asked, Looked, Boxed

LEMMA ServerInv ==
  ASSUME IInv, Server
  PROVE  IInv'
<1>1. cache \in [Names -> Held]
  BY DEF IInv, TypeOK
<1>2. CASE LookupFails \/ DownloadFails \/ ExtractFails \/ Extracted
  BY <1>1, <1>2, FinishInv DEF LookupFails, DownloadFails, ExtractFails, Extracted
<1>3. CASE AlreadyPresent
  <2>1. pc = "get" /\ want # None /\ cache[dest] = want /\ Got
        /\ UNCHANGED <<release, cache, dir, inUse>>
    BY <1>3 DEF AlreadyPresent, Present
  <2>2. cache[dest] = Body(r, version)
    BY <2>1 DEF IInv, Looked
  <2> QED
    BY <1>1, <2>1, <2>2, GotInv DEF dest
<1> QED
  BY <1>2, <1>3, FetchInv, LookupInv, DownloadInv, MembersInv, EndsInv DEF Server

LEMMA WorldInv ==
  ASSUME IInv, World
  PROVE  IInv'
<1>1. TypeOK /\ Asked /\ Looked /\ Boxed
  BY DEF IInv
<1>2. ASSUME NEW o \in Origins, Publish(o) PROVE IInv'
  <2>1. /\ release[o] < MaxRelease[o] /\ release' = [release EXCEPT ![o] = release[o] + 1]
        /\ UNCHANGED <<cache, dir, inUse, call>>
    BY <1>2 DEF Publish
  <2>2. release[o] \in Releases /\ release[o] \in Nat /\ release[o] + 1 \in Releases
    <3>1. release[o] \in UNION {1 .. MaxRelease[p] : p \in Origins}
      BY <1>1 DEF TypeOK, Releases
    <3>2. release[o] \in Nat /\ release[o] >= 1
      BY <3>1, Constants
    <3> QED
      BY <1>1, <2>1, <3>2, Constants DEF TypeOK
  <2>3. TypeOK'
    BY <1>1, <2>1, <2>2 DEF TypeOK, call
  <2>4. Asked'
    <3>1. pc # "idle" => release[Origin(r)] <= release'[Origin(r)]
      BY <1>1, <2>1, <2>2, UnderWay DEF TypeOK
    <3>2. pc # "idle" => /\ job \in Jobs /\ known \in Releases /\ known \in Nat
                         /\ known <= release[Origin(r)]
                         /\ release[Origin(r)] \in Nat /\ release'[Origin(r)] \in Nat
      BY <1>1, <2>3, UnderWay, Constants DEF Asked, TypeOK
    <3>3. pc # "idle" => known <= release'[Origin(r)]
      BY <3>1, <3>2
    <3> QED
      BY <2>1, <3>2, <3>3 DEF Asked, r, call
  <2> QED
    BY <1>1, <2>1, <2>3, <2>4
    DEF IInv, Looked, Boxed, call, r, dest
<1>3. ASSUME NEW n \in Names, Prune(n) PROVE IInv'
  <2>1. /\ pc \notin {"get", "extract"} /\ cache' = [cache EXCEPT ![n] = None]
        /\ UNCHANGED <<release, dir, inUse, call>>
    BY <1>3 DEF Prune
  <2>2. TypeOK'
    BY <1>1, <2>1 DEF TypeOK, call, Held
  <2> QED
    BY <1>1, <2>1, <2>2 DEF IInv, Asked, Looked, Boxed, call, r
<1>4. CASE ImportInPlace
  <2>1. /\ pc = "ok" /\ r.channel = "vagrant" /\ inUse' = inUse \cup {dest}
        /\ UNCHANGED <<release, cache, dir, call>>
    BY <1>4 DEF ImportInPlace
  <2>2. dest \in Boxes
    BY <2>1, UnderWay
  <2>3. TypeOK'
    BY <1>1, <2>1, <2>2 DEF TypeOK, call
  <2> QED
    BY <1>1, <2>1, <2>3 DEF IInv, Asked, Looked, Boxed, call, r
<1>5. ASSUME NEW n \in Boxes, GuestWrites(n) PROVE IInv'
  <2>1. /\ n \in inUse /\ dir' = [dir EXCEPT ![n]["disk"] = Guest]
        /\ UNCHANGED <<release, cache, inUse, call>>
    BY <1>5 DEF GuestWrites
  <2>2. TypeOK'
    BY <1>1, <2>1 DEF TypeOK, call
  <2>3. \A b \in Boxes, k \in Members :
          dir'[b][k] = IF b = n /\ k = "disk" THEN Guest ELSE dir[b][k]
    BY <1>1, <2>1 DEF TypeOK
  <2>4. Boxed'
    <3>1. SUFFICES ASSUME pc = "extract" PROVE Boxed'
      BY <2>1 DEF Boxed, call
    <3>2. dest \in Boxes
      BY <1>1, <3>1, UnderWay DEF Boxed
    <3> QED
      BY <1>1, <2>1, <2>3, <3>1, <3>2 DEF Boxed, call, r, dest
  <2> QED
    BY <1>1, <2>1, <2>2, <2>4 DEF IInv, Asked, Looked, call, r
<1> QED
  BY <1>2, <1>3, <1>4, <1>5 DEF World

LEMMA NextInv == IInv /\ [Next]_vars => IInv'
<1> SUFFICES ASSUME IInv, [Next]_vars PROVE IInv'
  OBVIOUS
<1>1. CASE UNCHANGED vars
  BY <1>1 DEF vars, call, IInv, TypeOK, Asked, Looked, Boxed, r, dest
<1> QED
  BY <1>1, ServerInv, WorldInv DEF Next

LEMMA Invariance == Spec => []IInv
  BY InitInv, NextInv, PTL DEF Spec
-----------------------------------------------------------------------------
\* Publishers, files and the call are always of their types.
THEOREM FetchArtifactTypeOK == Spec => []TypeOK
<1>1. IInv => TypeOK
  BY DEF IInv
<1> QED
  BY <1>1, Invariance, PTL

\* What an answer holds, by the way it came about.
LEMMA Answered ==
  ASSUME IInv, [Next]_vars, Answers
  PROVE  /\ pc \in {"get", "extract"}
         /\ UNCHANGED <<job, known, version, dir, inUse>>
         /\ pc = "extract" => cache' = cache /\ left = {} /\ member = None
         /\ pc = "get" => /\ r.channel # "vagrant"
                          /\ \/ cache' = cache /\ want # None /\ cache[dest] = want
                             \/ cache' = [cache EXCEPT ![dest] =
                                   Body(r, IF Versioned(r) THEN version ELSE release[Origin(r)])]
<1>1. pc # "ok" /\ pc' = "ok"
  BY DEF Answers
<1>2. Next
  BY <1>1 DEF vars, call
<1>3. ~World
  BY <1>1 DEF World, Publish, Prune, ImportInPlace, GuestWrites, call
<1>4. AlreadyPresent \/ Download \/ Extracted
  BY <1>1, <1>2, <1>3 DEF Next, Server, Fetch, Lookup, LookupFails, DownloadFails, ExtractMember,
     CopyMember, ExtractFails, TakeReply, Kill, Reset, Finish
<1>5. CASE Extracted
  BY <1>5 DEF Extracted, Finish
<1>6. CASE AlreadyPresent
  <2>1. r.channel # "vagrant" /\ Finish("ok")
    BY <1>1, <1>6 DEF AlreadyPresent, Got
  <2> QED
    BY <1>6, <2>1 DEF AlreadyPresent, Present, Finish
<1>7. CASE Download
  <2>1. r.channel # "vagrant" /\ Finish("ok")
    BY <1>1, <1>7 DEF Download, Got
  <2> QED
    BY <1>7, <2>1 DEF Download, Serving, Finish
<1> QED
  BY <1>4, <1>5, <1>6, <1>7

\* What the answer names holds what was published for the artifact it is for: the version
\* that was looked up, or what the publisher serves by now.
LEMMA FetchedIsPublished ==
  ASSUME IInv, [Next]_vars, Trusted
  PROVE  \E v \in {version, release[Origin(r)]} :
           /\ Fetched' = Body(r, v) /\ v \in Releases
           /\ Versioned(r) => v = version
           /\ job.tag = None => v >= known
<1>1. /\ pc \in {"get", "extract"}
      /\ UNCHANGED <<job, known, version, dir, inUse>>
      /\ pc = "extract" => cache' = cache /\ left = {} /\ member = None
      /\ pc = "get" => /\ r.channel # "vagrant"
                       /\ \/ cache' = cache /\ want # None /\ cache[dest] = want
                          \/ cache' = [cache EXCEPT ![dest] =
                                Body(r, IF Versioned(r) THEN version ELSE release[Origin(r)])]
  BY Answered DEF Trusted
<1>2. /\ r \in Artifact /\ release[Origin(r)] \in Releases /\ version \in Releases
      /\ dest \in Names
  BY <1>1, UnderWay
<1>3. job.tag = None => version >= known /\ release[Origin(r)] >= known
  <2>1. known \in Nat /\ version \in Nat /\ release[Origin(r)] \in Nat
    BY <1>1, <1>2, Constants DEF IInv, Asked
  <2> QED
    BY <1>1, <2>1 DEF IInv, Asked, Looked
<1>4. r' = r /\ dest' = dest
  BY <1>1 DEF r, dest
<1>5. CASE pc = "extract"
  <2>1. r.channel = "vagrant" /\ dir[dest]["machine"] = Body(r, version)
    BY <1>1, <1>5, NoneAssumption DEF IInv, Boxed, Members, Trusted
  <2>2. Fetched' = Body(r, version)
    BY <1>1, <1>4, <2>1 DEF Fetched
  <2> QED
    BY <1>2, <1>3, <2>2
<1>6. CASE pc = "get"
  <2>1. want # None => want = Body(r, version)
    BY <1>6 DEF IInv, Looked
  <2>2. \E v \in {version, release[Origin(r)]} :
          cache'[dest] = Body(r, v) /\ (Versioned(r) => v = version)
    BY <1>1, <1>2, <1>6, <2>1 DEF IInv, TypeOK
  <2>3. Fetched' = cache'[dest]
    BY <1>1, <1>4, <1>6 DEF Fetched
  <2> QED
    BY <1>2, <1>3, <2>2, <2>3
<1> QED
  BY <1>1, <1>5, <1>6

\* Whatever lies under the same name in the cache, Fetch (fetch.go:57-211) answers with
\* what was published for the artifact it is for, in the version that it reports.
THEOREM FetchAnswersWithItsOwn == Spec => AnswersWithItsOwn
<1> DEFINE A == Trusted => /\ Fetched'.of = Origin(r)
                           /\ Versioned(r) => Fetched'.release = version
<1>1. ASSUME IInv, [Next]_vars, Trusted
      PROVE  Fetched'.of = Origin(r) /\ (Versioned(r) => Fetched'.release = version)
  <2>1. r \in Artifact
    BY <1>1, Answered, UnderWay DEF Trusted
  <2> QED
    BY <1>1, <2>1, FetchedIsPublished, Constants
<1>2. IInv /\ [Next]_vars => [A]_vars
  BY <1>1
<1>3. Spec => [][A]_vars
  BY <1>2, Invariance, PTL DEF Spec
<1> QED
  BY <1>3 DEF AnswersWithItsOwn

\* A fetch without a version (main.go:139) answers with a release that is no older than
\* the latest when it began, whatever lies in the cache.
THEOREM LatestIsFetched == Spec => LatestMeansLatest
<1> DEFINE A == Trusted /\ job.tag = None => Fetched'.release >= known
<1>1. ASSUME IInv, [Next]_vars, Trusted, job.tag = None PROVE Fetched'.release >= known
  <2>1. r \in Artifact
    BY <1>1, Answered, UnderWay DEF Trusted
  <2> QED
    BY <1>1, <2>1, FetchedIsPublished, Constants
<1>2. IInv /\ [Next]_vars => [A]_vars
  BY <1>1
<1>3. Spec => [][A]_vars
  BY <1>2, Invariance, PTL DEF Spec
<1> QED
  BY <1>3 DEF LatestMeansLatest

\* The machine that a fetch of a box answers with (fetch.go:57, extractBox) is all of
\* that box, whatever lay in its place, but for members that could not be closed; a guest
\* that runs from it keeps its own disk.
THEOREM BoxesAreWhole == Spec => BoxIsWhole
<1> DEFINE A == Answers /\ r.channel = "vagrant" =>
                  \A m \in Members : \/ dir'[dest][m] = cache[dest]
                                     \/ m = "disk" /\ dest \in inUse
                                     \/ m \in unseen
<1>1. ASSUME IInv, [Next]_vars, Answers, r.channel = "vagrant"
      PROVE  \A m \in Members : \/ dir'[dest][m] = cache[dest]
                                \/ m = "disk" /\ dest \in inUse
                                \/ m \in unseen
  <2>1. pc = "extract" /\ dir' = dir /\ left = {} /\ member = None
    BY <1>1, Answered
  <2> QED
    BY <1>1, <2>1, NoneAssumption DEF IInv, Boxed
<1>2. IInv /\ [Next]_vars => [A]_vars
  BY <1>1
<1>3. Spec => [][A]_vars
  BY <1>2, Invariance, PTL DEF Spec
<1> QED
  BY <1>3 DEF BoxIsWhole
-----------------------------------------------------------------------------
(* Fetch on top of the abstract cache.                                     *)

\* While fetchHTTPS runs, it is about the file and the digest that Fetch wants.
OverInv == /\ asked \in [{It} -> Names \cup {None}]
           /\ sought \in [{It} -> Held]
           /\ reply \in [{It} -> {"present", "fetched", "failed", None}]
           /\ pc = "get" => asked[It] = dest /\ sought[It] = want

LEMMA InitOver == OverInit => IInv /\ OverInv
<1>1. OverInit => OverInv
  BY DEF OverInit, Init, Rest, Cache!Init, OverInv, Held
<1> QED
  BY <1>1, InitInv DEF OverInit

\* fetchHTTPS is called with what Fetch has looked up.
LEMMA AskOver ==
  ASSUME OverInv, IInv, LookupAsks
  PROVE  Lookup /\ OverInv'
<1>1. IInv'
  BY LookupInv DEF LookupAsks
<1>2. CASE job.dry
  BY <1>2 DEF LookupAsks, Lookup, OverInv, request
<1>3. CASE ~job.dry
  <2>1. /\ pc' = "get" /\ asked' = [asked EXCEPT ![It] = dest']
        /\ sought' = [sought EXCEPT ![It] = want'] /\ reply' = reply
    BY <1>3 DEF LookupAsks, Lookup, Cache!Ask
  <2>2. dest' \in Names /\ want' \in Held
    <3>1. r' \in Artifact /\ version' \in Releases
      BY <1>1, <2>1 DEF IInv, Asked, Looked, Jobs, r
    <3> QED
      BY <1>1, <3>1 DEF IInv, TypeOK, dest, Names
  <2> QED
    BY <2>1, <2>2 DEF OverInv, LookupAsks
<1> QED
  BY <1>2, <1>3 DEF LookupAsks

\* However fetchHTTPS returns, Fetch has a download, a file that was there or an error.
LEMMA ReturnOver ==
  ASSUME OverInv, Returns
  PROVE  (AlreadyPresent \/ Download \/ DownloadFails) /\ OverInv'
<1>1. /\ pc = "get" /\ asked[It] = dest /\ sought[It] = want
      /\ UNCHANGED <<release, dir, inUse>>
  BY DEF Returns, OverInv
<1>2. ASSUME NEW a \in {"present", "fetched", "failed"}, Cache!Finish(It, a)
      PROVE  reply'[It] = a /\ asked' = asked /\ sought' = sought
             /\ reply' \in [{It} -> {"present", "fetched", "failed", None}]
  BY <1>2 DEF Cache!Finish, OverInv
<1>3. pc' # "get"
  BY DEF Returns, Finish, Got
<1>4. CASE Cache!Hit(It)
  <2>1. Cache!Finish(It, "present") /\ want # None /\ cache[dest] = want /\ cache' = cache
    BY <1>1, <1>4 DEF Cache!Hit
  <2>2. Got
    BY <1>2, <2>1 DEF Returns
  <2> QED
    BY <1>1, <1>2, <1>3, <2>1, <2>2 DEF AlreadyPresent, Present, OverInv
<1>5. CASE Serving.release <= release[Origin(r)] /\ Cache!Put(It, Serving)
  <2>1. /\ Cache!Finish(It, "fetched") /\ want \in {None, Serving}
        /\ cache' = [cache EXCEPT ![dest] = Serving]
    BY <1>1, <1>5 DEF Cache!Put
  <2>2. Got
    BY <1>2, <2>1 DEF Returns
  <2> QED
    BY <1>1, <1>2, <1>3, <1>5, <2>1, <2>2 DEF Download, OverInv
<1>6. CASE Cache!Fail(It)
  <2>1. Cache!Finish(It, "failed") /\ cache' = cache
    BY <1>6 DEF Cache!Fail
  <2>2. Finish("failed")
    BY <1>2, <2>1 DEF Returns
  <2> QED
    BY <1>1, <1>2, <1>3, <2>1, <2>2 DEF DownloadFails, OverInv
<1> QED
  BY <1>4, <1>5, <1>6 DEF Returns

LEMMA EndOver ==
  ASSUME OverInv, Ends
  PROVE  (TakeReply \/ Kill) /\ OverInv'
<1>1. pc' = "idle"
  BY DEF Ends, TakeReply, Kill, Reset
<1>2. CASE UNCHANGED request
  BY <1>1, <1>2 DEF Ends, OverInv, request
<1>3. CASE Cache!End(It)
  BY <1>1, <1>3 DEF Ends, OverInv, Cache!End, Held
<1> QED
  BY <1>2, <1>3 DEF Ends

LEMMA ElseOver ==
  ASSUME OverInv, Else
  PROVE  Next /\ OverInv'
<1>1. CASE World
  BY <1>1 DEF Else, Next, World, Publish, Prune, ImportInPlace, GuestWrites, OverInv, request,
     call, r, dest
<1>2. CASE ~World
  <2>1. pc' # "get"
    BY <1>2 DEF Else, Fetch, LookupFails, ExtractMember, CopyMember, Extracted, ExtractFails,
       Finish
  <2> QED
    BY <1>2, <2>1 DEF Else, Next, Server, OverInv, request
<1> QED
  BY <1>1, <1>2

LEMMA NextOver == IInv /\ OverInv /\ [OverNext]_<<vars, request>> => [Next]_vars /\ OverInv'
<1> SUFFICES ASSUME IInv, OverInv, [OverNext]_<<vars, request>> PROVE [Next]_vars /\ OverInv'
  OBVIOUS
<1>1. CASE UNCHANGED <<vars, request>>
  BY <1>1 DEF vars, request, call, OverInv, r, dest
<1>2. CASE OverNext
  BY <1>2, AskOver, ReturnOver, EndOver, ElseOver DEF OverNext, Next, Server
<1> QED
  BY <1>1, <1>2

\* Fetch needs of fetchHTTPS no more than what AtomicCache says (fetch.go:79, 114, 137,
\* 156 and 195 look at its error only): on top of any such cache it is FetchArtifact, and
\* what holds of that holds of the two together.
THEOREM FetchNeedsTheCacheOnly == OverSpec => Spec
<1>1. OverInit => Init
  BY DEF OverInit
<1>2. IInv /\ [Next]_vars => IInv'
  BY NextInv
<1> QED
  BY <1>1, <1>2, InitOver, NextOver, PTL DEF OverSpec, Spec
=============================================================================
