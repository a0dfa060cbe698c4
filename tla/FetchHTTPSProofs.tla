-------------------------- MODULE FetchHTTPSProofs --------------------------
(***************************************************************************)
(* Theorems about FetchHTTPS, for any number of calls, destinations,       *)
(* payloads and inodes.                                                    *)
(***************************************************************************)
EXTENDS FetchHTTPS, TLAPS

\* A call that has started has a destination, and one that was answered a body.
ArgsOK == \A f \in Fetch :
            /\ pc[f] # "idle" => dest[f] \in Dest
            /\ pc[f] \in {"create", "copy", "publish", "discard"} => body[f] \in Payload

TypeInv == TypeOK /\ ArgsOK

LEMMA BlankContent == Blank \in Content
  BY DEF Blank, Content

LEMMA InitTyped == Init => TypeInv
  BY BlankContent, SizeAssumption DEF Init, TypeInv, TypeOK, ArgsOK

\* One step keeps the types (every action of FetchHTTPS).
LEMMA NextTyped == TypeInv /\ [Next]_vars => TypeInv'
<1> SUFFICES ASSUME TypeInv, [Next]_vars PROVE TypeInv'
  OBVIOUS
<1>0. serial' \in BOOLEAN
  BY DEF Next, vars, TypeInv, TypeOK
<1> USE <1>0, SizeAssumption, NoneAssumption DEF TypeInv, TypeOK, ArgsOK
<1>1. ASSUME NEW f \in Fetch, NEW d \in Dest, NEW w \in Payload \cup {None}, Call(f, d, w)
      PROVE TypeInv'
  BY <1>1 DEF Call, GoTo, fs
<1>2. ASSUME NEW f \in Fetch, AlreadyPresent(f) PROVE TypeInv'
  BY <1>2 DEF AlreadyPresent, Finish, Locals, GoTo, fs, args
<1>3. ASSUME NEW f \in Fetch, NeedsDownload(f) PROVE TypeInv'
  BY <1>3 DEF NeedsDownload, GoTo, fs, args
<1>4. ASSUME NEW f \in Fetch, RequestFails(f) PROVE TypeInv'
  BY <1>4 DEF RequestFails, Finish, Locals, GoTo, fs, args
<1>5. ASSUME NEW f \in Fetch, NEW p \in Payload, Answer(f, p) PROVE TypeInv'
  BY <1>5 DEF Answer, GoTo, fs, args
<1>6. ASSUME NEW f \in Fetch, CreatePart(f) PROVE TypeInv'
  <2>1. PICK i \in Inode : /\ part' = [part EXCEPT ![dest[f]] = i]
                           /\ data' = [data EXCEPT ![i] = Blank]
                           /\ fd' = [fd EXCEPT ![f] = i]
    BY <1>6 DEF CreatePart, GoTo, Free, Truncated
  <2>2. /\ part' \in [Dest -> Inode \cup {None}]
        /\ data' \in [Inode -> Content]
        /\ fd' \in [Fetch -> Inode \cup {None}]
    BY <2>1, BlankContent
  <2>3. overlapped' \in SUBSET Fetch
    BY <1>6 DEF CreatePart
  <2>4. QED
    BY <1>6, <2>2, <2>3 DEF CreatePart, GoTo, args
<1>7. ASSUME NEW f \in Fetch, CreateFails(f) PROVE TypeInv'
  BY <1>7 DEF CreateFails, Finish, Locals, GoTo, fs, args
<1>8. ASSUME NEW f \in Fetch, CopyBlock(f) PROVE TypeInv'
  <2>1. body[f] \in Payload /\ off[f] + 1 \in 0..MaxSize
    BY <1>8 DEF CopyBlock
  <2>2. data' \in [Inode -> Content]
    BY <1>8, <2>1 DEF CopyBlock, CopyTo, Content
  <2>3. QED
    BY <1>8, <2>1, <2>2 DEF CopyBlock, args
<1>9. ASSUME NEW f \in Fetch, CopyFails(f) PROVE TypeInv'
  BY <1>9 DEF CopyFails, Close, GoTo, fs, args
<1>10. ASSUME NEW f \in Fetch, CopyEnds(f) PROVE TypeInv'
  BY <1>10 DEF CopyEnds, Close, GoTo, fs, args
<1>11. ASSUME NEW f \in Fetch, Publish(f) PROVE TypeInv'
  BY <1>11 DEF Publish, NameRemoved, Finish, Locals, GoTo, args
<1>12. ASSUME NEW f \in Fetch, PublishFails(f) PROVE TypeInv'
  BY <1>12 DEF PublishFails, GoTo, fs, args
<1>13. ASSUME NEW f \in Fetch, Discard(f) PROVE TypeInv'
  BY <1>13 DEF Discard, NameRemoved, Finish, Locals, GoTo, args
<1>14. ASSUME NEW f \in Fetch, Reset(f) PROVE TypeInv'
  BY <1>14 DEF Reset, Locals, fs
<1>15. CASE UNCHANGED vars
  BY <1>15 DEF vars
<1>16. QED
  BY <1>1, <1>2, <1>3, <1>4, <1>5, <1>6, <1>7, <1>8, <1>9, <1>10, <1>11, <1>12,
     <1>13, <1>14, <1>15 DEF Next, Step, Return, Kill

LEMMA Typed == Spec => []TypeInv
  BY InitTyped, NextTyped, PTL DEF Spec

\* The variables of fetchHTTPS and of the file system it uses keep their types.
THEOREM TypeCorrect == Spec => []TypeOK
  BY Typed, PTL DEF TypeInv
-----------------------------------------------------------------------------
(***************************************************************************)
(* A call alone on its part file.  Names never share an inode; a call that *)
(* holds a descriptor is copying; two calls writing one part file know it; *)
(* a descriptor on an inode that is still a part file belongs to a call    *)
(* for that destination.                                                   *)
(***************************************************************************)
NamesDistinct == \A d, e \in Dest :
                   /\ part[d] # None => file[e] # part[d]
                   /\ part[d] # None /\ d # e => part[d] # part[e]

OpenIffCopying == \A f \in Fetch : fd[f] # None <=> pc[f] = "copy"

SharedIsOverlapped == \A f, g \in Fetch :
                        f # g /\ Writing(f) /\ Writing(g) /\ dest[f] = dest[g]
                          => f \in overlapped

OpenInPlace == \A f, g \in Fetch : \A d \in Dest :
                 /\ fd[f] # None /\ fd[f] = fd[g] => dest[f] = dest[g]
                 /\ fd[f] # None /\ fd[f] = part[d] => dest[f] = d

\* What a call that shares its part file with nobody knows of it.
Owns(f) == /\ part[dest[f]] # None
           /\ data[part[dest[f]]] = Prefix(body[f], off[f])
           /\ pc[f] = "copy" => part[dest[f]] = fd[f]
           /\ pc[f] = "publish" => off[f] = Size[body[f]] /\ Verified(f)

AloneOwns == \A f \in Fetch :
               pc[f] \in {"copy", "publish"} /\ f \notin overlapped => Owns(f)

FreshOffset == \A f \in Fetch : ~Writing(f) => off[f] = 0

FileInv == /\ NamesDistinct
           /\ OpenIffCopying
           /\ FreshOffset
           /\ SharedIsOverlapped
           /\ OpenInPlace
           /\ AloneOwns
Inv == TypeInv /\ FileInv

LEMMA InitFileInv == Init => FileInv
  BY NoneAssumption
  DEF Init, FileInv, NamesDistinct, OpenIffCopying, FreshOffset, SharedIsOverlapped,
      OpenInPlace, AloneOwns, Writing

\* The actions of f that leave the files alone and do not write a part file.
Quiet(f) == /\ \A g \in Fetch \ {f} : /\ pc'[g] = pc[g]
                                      /\ dest'[g] = dest[g]
                                      /\ want'[g] = want[g]
                                      /\ body'[g] = body[g]
                                      /\ off'[g] = off[g]
                                      /\ fd'[g] = fd[g]
            /\ pc'[f] \in {"idle", "check", "request", "create", "done"}
            /\ off'[f] = 0
            /\ fd'[f] = None
            /\ overlapped \ {f} \subseteq overlapped'
            /\ UNCHANGED fs

LEMMA QuietKeepsFileInv ==
  ASSUME Inv, NEW f \in Fetch, Quiet(f)
  PROVE FileInv'
<1> USE DEF Inv, FileInv, Quiet, fs, Writing
<1>1. NamesDistinct'
  BY DEF NamesDistinct
<1>2. OpenIffCopying'
  BY DEF OpenIffCopying
<1>3. FreshOffset'
  BY DEF FreshOffset
<1>4. SharedIsOverlapped'
  BY DEF SharedIsOverlapped
<1>5. OpenInPlace'
  BY DEF OpenInPlace
<1>6. AloneOwns'
  BY DEF AloneOwns, Owns, Verified
<1>7. QED
  BY <1>1, <1>2, <1>3, <1>4, <1>5, <1>6

LEMMA PrefixZero == \A p : Prefix(p, 0) = Blank
  BY SizeAssumption DEF Prefix, Blank, Blocks

LEMMA PrefixNext ==
  ASSUME NEW p, NEW n \in Nat, n + 1 \in Blocks
  PROVE [Prefix(p, n) EXCEPT ![n + 1] = p] = Prefix(p, n + 1)
<1>1. ASSUME NEW k \in Blocks
      PROVE (k <= n \/ k = n + 1) <=> k <= n + 1
  BY SizeAssumption DEF Blocks
<1>2. QED
  BY <1>1 DEF Prefix

\* os.Create of the part file.
LEMMA CreateKeepsFileInv ==
  ASSUME Inv, NEW f \in Fetch, CreatePart(f)
  PROVE FileInv'
<1> USE NoneAssumption DEF Inv, TypeInv, TypeOK, ArgsOK, FileInv, Writing
<1> DEFINE d == dest[f]
           others == {g \in Fetch \ {f} : Writing(g) /\ dest[g] = d}
<1>1. /\ d \in Dest
      /\ pc[f] = "create" /\ pc' = [pc EXCEPT ![f] = "copy"]
      /\ UNCHANGED <<file, dest, want, body, off, reply>>
      /\ overlapped' = IF others = {} THEN overlapped ELSE overlapped \cup others \cup {f}
  BY DEF CreatePart, GoTo, args
<1>2. PICK i \in IF part[d] = None THEN Free ELSE {part[d]} :
        /\ part' = [part EXCEPT ![d] = i]
        /\ data' = [data EXCEPT ![i] = Blank]
        /\ fd' = [fd EXCEPT ![f] = i]
  BY DEF CreatePart, Truncated
<1>3. /\ i \in Inode
      /\ \A e \in Dest : i # file[e] /\ (e # d => i # part[e])
      /\ \A g \in Fetch : fd[g] = i => dest[g] = d
  BY <1>1, <1>2 DEF Free, NamesDistinct, OpenInPlace
<1>4. NamesDistinct'
  BY <1>1, <1>2, <1>3 DEF NamesDistinct
<1>5. OpenIffCopying'
  BY <1>1, <1>2, <1>3 DEF OpenIffCopying
<1>6. FreshOffset'
  BY <1>1 DEF FreshOffset
<1>7. SharedIsOverlapped'
  BY <1>1 DEF SharedIsOverlapped
<1>8. OpenInPlace'
  BY <1>1, <1>2, <1>3 DEF OpenInPlace
<1>9. AloneOwns'
  <2> SUFFICES ASSUME NEW g \in Fetch, pc'[g] \in {"copy", "publish"}, g \notin overlapped'
               PROVE Owns(g)'
    BY DEF AloneOwns
  <2>1. CASE g = f
    BY <2>1, <1>1, <1>2, <1>3, PrefixZero DEF Owns, FreshOffset
  <2>2. CASE g # f
    <3>1. Owns(g) /\ dest[g] # d /\ dest[g] \in Dest
      BY <2>2, <1>1 DEF AloneOwns
    <3>2. QED
      BY <2>2, <3>1, <1>1, <1>2, <1>3 DEF Owns, Verified
  <2>3. QED
    BY <2>1, <2>2
<1>10. QED
  BY <1>4, <1>5, <1>6, <1>7, <1>8, <1>9

\* One block of io.Copy.
LEMMA CopyKeepsFileInv ==
  ASSUME Inv, NEW f \in Fetch, CopyBlock(f)
  PROVE FileInv'
<1> USE NoneAssumption DEF Inv, TypeInv, TypeOK, ArgsOK, FileInv, Writing
<1>1. /\ pc[f] = "copy" /\ off[f] < Size[body[f]]
      /\ data' = [data EXCEPT ![fd[f]] = [@ EXCEPT ![off[f] + 1] = body[f]]]
      /\ off' = [off EXCEPT ![f] = off[f] + 1]
      /\ UNCHANGED <<file, part, pc, dest, want, body, fd, reply, overlapped>>
  BY DEF CopyBlock, CopyTo, args
<1>2. off[f] \in Nat /\ off[f] + 1 \in Blocks
  BY <1>1, SizeAssumption DEF Blocks
<1>3. AloneOwns'
  <2> SUFFICES ASSUME NEW g \in Fetch, pc[g] \in {"copy", "publish"}, g \notin overlapped
               PROVE Owns(g)'
    BY <1>1 DEF AloneOwns
  <2>1. Owns(g) /\ dest[g] \in Dest
    BY DEF AloneOwns
  <2>2. CASE g = f
    BY <2>1, <2>2, <1>1, <1>2, PrefixNext DEF Owns
  <2>3. CASE g # f
    <3>1. part[dest[g]] # fd[f]
      BY <2>1, <2>3, <1>1 DEF OpenInPlace, SharedIsOverlapped, Owns
    <3>2. QED
      BY <2>1, <2>3, <3>1, <1>1 DEF Owns, Verified
  <2>4. QED
    BY <2>2, <2>3
<1>4. QED
  BY <1>1, <1>3 DEF NamesDistinct, OpenIffCopying, FreshOffset, SharedIsOverlapped, OpenInPlace

\* Close, after an error or at the end of the body; and a rename that fails.
LEMMA CloseKeepsFileInv ==
  ASSUME Inv, NEW f \in Fetch, CopyFails(f) \/ CopyEnds(f) \/ PublishFails(f)
  PROVE FileInv'
<1> USE NoneAssumption DEF Inv, TypeInv, TypeOK, ArgsOK, FileInv, Writing
<1>1. /\ Writing(f)
      /\ UNCHANGED <<file, part, data, dest, want, body, off, overlapped>>
      /\ \A g \in Fetch : /\ fd'[g] = IF g = f THEN None ELSE fd[g]
                          /\ g # f => pc'[g] = pc[g]
      /\ \/ pc'[f] = "discard"
         \/ pc'[f] = "publish" /\ pc[f] = "copy" /\ off[f] = Size[body[f]] /\ Verified(f)
  <2>1. CASE CopyFails(f)
    BY <2>1 DEF CopyFails, GoTo, Close, fs, args
  <2>2. CASE CopyEnds(f)
    BY <2>2 DEF CopyEnds, GoTo, Close, fs, args
  <2>3. CASE PublishFails(f)
    BY <2>3 DEF PublishFails, GoTo, fs, args, OpenIffCopying
  <2>4. QED
    BY <2>1, <2>2, <2>3
<1>2. OpenIffCopying'
  BY <1>1 DEF OpenIffCopying
<1>3. SharedIsOverlapped'
  BY <1>1 DEF SharedIsOverlapped
<1>4. OpenInPlace'
  BY <1>1 DEF OpenInPlace
<1>5. AloneOwns'
  BY <1>1 DEF AloneOwns, Owns, Verified
<1>6. QED
  BY <1>1, <1>2, <1>3, <1>4, <1>5 DEF NamesDistinct, FreshOffset

\* The part name goes: renamed over the destination, or removed.
LEMMA UnnameKeepsFileInv ==
  ASSUME Inv, NEW f \in Fetch, Publish(f) \/ Discard(f)
  PROVE FileInv'
<1> USE NoneAssumption DEF Inv, TypeInv, TypeOK, ArgsOK, FileInv, Writing
<1>1. /\ dest[f] \in Dest /\ pc[f] \in {"publish", "discard"}
      /\ pc' = [pc EXCEPT ![f] = "done"]
      /\ part' = [part EXCEPT ![dest[f]] = None]
      /\ \/ UNCHANGED file
         \/ file' = [file EXCEPT ![dest[f]] = part[dest[f]]]
      /\ off' = [off EXCEPT ![f] = 0]
      /\ fd' = [fd EXCEPT ![f] = None]
      /\ body' = [body EXCEPT ![f] = None]
      /\ overlapped' = overlapped \ {f}
      /\ UNCHANGED <<data, dest, want>>
  BY DEF Publish, Discard, NameRemoved, Finish, Locals, GoTo, args
<1>2. NamesDistinct'
  BY <1>1 DEF NamesDistinct
<1>3. OpenIffCopying' /\ FreshOffset'
  BY <1>1 DEF OpenIffCopying, FreshOffset
<1>4. SharedIsOverlapped'
  BY <1>1 DEF SharedIsOverlapped
<1>5. OpenInPlace'
  BY <1>1 DEF OpenInPlace
<1>6. AloneOwns'
  <2> SUFFICES ASSUME NEW g \in Fetch, pc'[g] \in {"copy", "publish"}, g \notin overlapped'
               PROVE Owns(g)'
    BY DEF AloneOwns
  <2>1. g # f /\ Owns(g) /\ dest[g] # dest[f]
    BY <1>1 DEF AloneOwns, SharedIsOverlapped
  <2>2. QED
    BY <2>1, <1>1 DEF Owns, Verified
<1>7. QED
  BY <1>2, <1>3, <1>4, <1>5, <1>6

LEMMA NextFileInv == Inv /\ [Next]_vars => FileInv'
<1> SUFFICES ASSUME Inv, [Next]_vars PROVE FileInv'
  OBVIOUS
<1>1. ASSUME NEW f \in Fetch,
             \/ \E d \in Dest, w \in Payload \cup {None} : Call(f, d, w)
             \/ AlreadyPresent(f) \/ NeedsDownload(f) \/ RequestFails(f)
             \/ \E p \in Payload : Answer(f, p)
             \/ CreateFails(f) \/ Reset(f)
      PROVE FileInv'
  <2>1. Quiet(f)
    BY <1>1 DEF Quiet, Call, AlreadyPresent, NeedsDownload, RequestFails, Answer, CreateFails,
       Reset, Finish, Locals, GoTo, fs, args, Inv, TypeInv, TypeOK, FileInv, OpenIffCopying,
       FreshOffset, Writing
  <2>2. QED
    BY <2>1, QuietKeepsFileInv
<1>2. CASE UNCHANGED vars
  BY <1>2 DEF vars, Inv, FileInv, NamesDistinct, OpenIffCopying, FreshOffset,
     SharedIsOverlapped, OpenInPlace, AloneOwns, Owns, Verified, Writing
<1>3. QED
  BY <1>1, <1>2, CreateKeepsFileInv, CopyKeepsFileInv, CloseKeepsFileInv, UnnameKeepsFileInv
  DEF Next, Step, Return, Kill

LEMMA Invariance == Spec => []Inv
<1>1. Init => Inv
  BY InitTyped, InitFileInv DEF Inv
<1>2. Inv /\ [Next]_vars => Inv'
  BY NextTyped, NextFileInv DEF Inv
<1>3. QED
  BY <1>1, <1>2, PTL DEF Spec

LEMMA PublishedOnlyByPublish ==
  ASSUME TypeOK, Next, NEW f \in Fetch, Published(f)
  PROVE Publish(f)
<1> USE DEF TypeOK, Published, GoTo
<1>1. ASSUME NEW g \in Fetch, Step(g) PROVE Publish(f)
  <2>1. CASE AlreadyPresent(g) \/ RequestFails(g) \/ CreateFails(g) \/ Discard(g)
    BY <2>1 DEF AlreadyPresent, RequestFails, CreateFails, Discard, Finish
  <2>2. CASE NeedsDownload(g) \/ (\E p \in Payload : Answer(g, p)) \/ CreatePart(g)
    BY <2>2 DEF NeedsDownload, Answer, CreatePart
  <2>3. CASE CopyBlock(g) \/ CopyFails(g) \/ CopyEnds(g) \/ PublishFails(g)
    BY <2>3 DEF CopyBlock, CopyFails, CopyEnds, PublishFails
  <2>4. CASE Publish(g)
    BY <2>4 DEF Publish, Finish
  <2>5. QED
    BY <1>1, <2>1, <2>2, <2>3, <2>4 DEF Step
<1>2. ASSUME NEW g \in Fetch,
             \/ \E d \in Dest, w \in Payload \cup {None} : Call(g, d, w)
             \/ Return(g) \/ Kill(g)
      PROVE FALSE
  BY <1>2 DEF Call, Return, Kill, Reset
<1>3. QED
  BY <1>1, <1>2 DEF Next

\* However calls are interleaved and killed, one that was alone on its part
\* file publishes the whole body it verified (fetch.go:279-300).
THEOREM AlonePublishes == Spec => AlonePublishesWhole
<1> DEFINE A == \A f \in Fetch : Published(f) /\ f \notin overlapped =>
                  /\ file'[dest[f]] # None
                  /\ data'[file'[dest[f]]] = Whole(body[f])
                  /\ want[f] \in {None, body[f]}
<1>1. Inv /\ [Next]_vars => [A]_vars
  <2> SUFFICES ASSUME Inv, Next, NEW f \in Fetch, Published(f), f \notin overlapped
               PROVE /\ file'[dest[f]] # None
                     /\ data'[file'[dest[f]]] = Whole(body[f])
                     /\ want[f] \in {None, body[f]}
    BY DEF vars
  <2> USE DEF Inv, TypeInv, TypeOK, ArgsOK
  <2>1. Publish(f)
    BY PublishedOnlyByPublish
  <2>2. Owns(f) /\ dest[f] \in Dest
    BY DEF Published, FileInv, AloneOwns
  <2>3. off[f] = Size[body[f]] /\ Verified(f)
    BY <2>2 DEF Published, Owns
  <2>4. /\ file'[dest[f]] = part[dest[f]]
        /\ data' = data
    BY <2>1, <2>2 DEF Publish
  <2>5. QED
    BY <2>2, <2>3, <2>4 DEF Owns, Whole, Verified
<1>2. QED
  BY <1>1, Invariance, PTL DEF AlonePublishesWhole, Spec

\* A call that stops writing was killed, or took the part name away.
LEMMA WriterCleansUp ==
  ASSUME TypeInv, Next, NEW f \in Fetch, Writing(f)
  PROVE  \/ Writing(f)' /\ dest'[f] = dest[f]
         \/ part'[dest[f]] = None
         \/ pc'[f] = "idle"
<1> USE DEF TypeInv, TypeOK, ArgsOK, Writing, GoTo
<1>1. ASSUME NEW g \in Fetch, Step(g)
      PROVE (Writing(f)' /\ dest'[f] = dest[f]) \/ part'[dest[f]] = None
  <2>1. CASE AlreadyPresent(g) \/ RequestFails(g) \/ CreateFails(g)
    BY <2>1 DEF AlreadyPresent, RequestFails, CreateFails, Finish, args
  <2>2. CASE Publish(g) \/ Discard(g)
    BY <2>2 DEF Publish, Discard, NameRemoved, Finish, args
  <2>3. CASE NeedsDownload(g) \/ (\E p \in Payload : Answer(g, p)) \/ CreatePart(g)
    BY <2>3 DEF NeedsDownload, Answer, CreatePart, args
  <2>4. CASE CopyBlock(g) \/ CopyFails(g) \/ CopyEnds(g) \/ PublishFails(g)
    BY <2>4 DEF CopyBlock, CopyFails, CopyEnds, PublishFails, args
  <2>5. QED
    BY <1>1, <2>1, <2>2, <2>3, <2>4 DEF Step
<1>2. ASSUME NEW g \in Fetch, NEW d \in Dest, NEW w \in Payload \cup {None}, Call(g, d, w)
      PROVE Writing(f)' /\ dest'[f] = dest[f]
  BY <1>2 DEF Call
<1>3. ASSUME NEW g \in Fetch, Return(g) \/ Kill(g)
      PROVE (Writing(f)' /\ dest'[f] = dest[f]) \/ pc'[f] = "idle"
  BY <1>3 DEF Return, Kill, Reset
<1>4. QED
  BY <1>1, <1>2, <1>3 DEF Next

\* A part file appears with a call that writes it.
LEMMA PartHasWriter ==
  ASSUME TypeInv, Next, NEW d \in Dest, part[d] = None, part'[d] # None
  PROVE  \E f \in Fetch : Writing(f)' /\ dest'[f] = d
<1> USE DEF TypeInv, TypeOK, ArgsOK, Writing, GoTo
<1>1. PICK f \in Fetch : CreatePart(f)
  <2>1. ASSUME NEW g \in Fetch, Publish(g) \/ Discard(g) PROVE FALSE
    BY <2>1 DEF Publish, Discard, NameRemoved
  <2>2. QED
    BY <2>1 DEF Next, Step, Call, AlreadyPresent, NeedsDownload, RequestFails, Answer, CreateFails,
       CopyBlock, CopyFails, CopyEnds, PublishFails, Return, Kill, Reset, fs
<1>2. QED
  BY <1>1 DEF CreatePart, args

\* Only a killed process leaves a part file behind (fetch.go:289, 297, 301).
THEOREM StrayPartsByKill == Spec => StrayOnlyByKill
<1> DEFINE A == \A d \in Dest : Stray(d)' /\ ~Stray(d) =>
                  \E f \in Fetch : Writing(f) /\ dest[f] = d /\ pc'[f] = "idle"
<1>1. TypeInv /\ [Next]_vars => [A]_vars
  <2> SUFFICES ASSUME TypeInv, Next, NEW d \in Dest, Stray(d)', ~Stray(d)
               PROVE \E f \in Fetch : Writing(f) /\ dest[f] = d /\ pc'[f] = "idle"
    BY DEF vars
  <2>1. part[d] # None
    BY PartHasWriter DEF Stray
  <2>2. PICK f \in Fetch : Writing(f) /\ dest[f] = d
    BY <2>1 DEF Stray
  <2>3. QED
    BY <2>2, WriterCleansUp DEF Stray
<1>2. QED
  BY <1>1, Typed, PTL DEF StrayOnlyByKill, Spec
-----------------------------------------------------------------------------
(* Clients that fetch one destination at a time (serial): no crash leaves  *)
(* a torn destination, and fetchHTTPS implements AtomicCache.              *)

SerialInv == /\ Inv
             /\ serial => /\ OneFetchPerDest
                          /\ overlapped = {}
             /\ NeverTorn

\* Only a rename changes what a destination names, and no step writes to an
\* inode that a destination names.
LEMMA FilesOnlyByRename ==
  ASSUME SerialInv, serial, NEW f \in Fetch, Step(f), ~Publish(f)
  PROVE  /\ file' = file
         /\ \A d \in Dest : file[d] # None => data'[file[d]] = data[file[d]]
<1> USE NoneAssumption DEF SerialInv, Inv, TypeInv, TypeOK, ArgsOK, FileInv
<1>1. CASE CreatePart(f)
  <2>1. PICK i \in IF part[dest[f]] = None THEN Free ELSE {part[dest[f]]} :
          data' = [data EXCEPT ![i] = Blank]
    BY <1>1 DEF CreatePart, Truncated
  <2>2. dest[f] \in Dest /\ \A d \in Dest : file[d] # i
    BY <1>1, <2>1 DEF CreatePart, GoTo, Free, NamesDistinct
  <2>3. QED
    BY <1>1, <2>1, <2>2 DEF CreatePart
<1>2. CASE CopyBlock(f)
  <2>1. Owns(f) /\ pc[f] = "copy" /\ dest[f] \in Dest
    BY <1>2 DEF CopyBlock, AloneOwns
  <2>2. \A d \in Dest : file[d] # fd[f]
    BY <2>1 DEF Owns, NamesDistinct
  <2>3. QED
    BY <1>2, <2>2 DEF CopyBlock, CopyTo
<1>3. CASE ~CreatePart(f) /\ ~CopyBlock(f)
  BY <1>3 DEF Step, AlreadyPresent, NeedsDownload, RequestFails, Answer, CreateFails,
     CopyFails, CopyEnds, PublishFails, Discard, fs
<1>4. QED
  BY <1>1, <1>2, <1>3

\* What a rename publishes is the whole body.
LEMMA PublishesWhole ==
  ASSUME SerialInv, serial, NEW f \in Fetch, Publish(f)
  PROVE  /\ dest[f] \in Dest /\ body[f] \in Payload
         /\ file' = [file EXCEPT ![dest[f]] = part[dest[f]]]
         /\ part[dest[f]] # None
         /\ data' = data
         /\ data[part[dest[f]]] = Whole(body[f])
         /\ Verified(f)
<1> USE DEF SerialInv, Inv, TypeInv, TypeOK, ArgsOK, FileInv
<1>1. pc[f] = "publish"
  BY DEF Publish, Finish, GoTo
<1>2. Owns(f)
  BY <1>1 DEF AloneOwns
<1>3. QED
  BY <1>1, <1>2 DEF Publish, Owns, Whole

LEMMA NextSerialInv == SerialInv /\ [Next]_vars => SerialInv'
<1> SUFFICES ASSUME SerialInv, [Next]_vars PROVE SerialInv'
  OBVIOUS
<1>1. Inv'
  BY NextTyped, NextFileInv DEF SerialInv, Inv
<1>2. CASE UNCHANGED vars
  BY <1>1, <1>2 DEF vars, SerialInv, OneFetchPerDest, NeverTorn
<1>3. CASE ~serial /\ Next
  BY <1>1, <1>3 DEF SerialInv, NeverTorn, Next
<1>4. ASSUME serial, serial', OneFetchPerDest', NEW f \in Fetch, Step(f) PROVE SerialInv'
  <2>1. overlapped' = {}
    <3>1. CASE CreatePart(f)
      BY <1>4, <3>1 DEF SerialInv, OneFetchPerDest, CreatePart, GoTo, Writing
    <3>2. CASE ~CreatePart(f)
      BY <1>4, <3>2 DEF SerialInv, Step, AlreadyPresent, NeedsDownload, RequestFails, Answer,
         CreateFails, CopyBlock, CopyFails, CopyEnds, Publish, PublishFails, Discard, Finish,
         Locals
    <3>3. QED
      BY <3>1, <3>2
  <2>2. NeverTorn'
    <3>1. CASE Publish(f)
      BY <1>4, <3>1, PublishesWhole DEF SerialInv, NeverTorn, Inv, TypeInv, TypeOK
    <3>2. CASE ~Publish(f)
      BY <1>4, <3>2, FilesOnlyByRename DEF SerialInv, NeverTorn
    <3>3. QED
      BY <3>1, <3>2
  <2>3. QED
    BY <1>1, <1>4, <2>1, <2>2 DEF SerialInv
<1>5. ASSUME serial, serial', OneFetchPerDest', NEW f \in Fetch,
             \/ \E d \in Dest, w \in Payload \cup {None} : Call(f, d, w)
             \/ Reset(f)
      PROVE SerialInv'
  BY <1>1, <1>5 DEF SerialInv, NeverTorn, Call, Reset, Locals, fs
<1>6. QED
  BY <1>2, <1>3, <1>4, <1>5 DEF Next, Return, Kill

LEMMA SerialInvariance == Spec => []SerialInv
<1>1. Init => SerialInv
  BY InitTyped, InitFileInv
  DEF SerialInv, Inv, Init, OneFetchPerDest, NeverTorn
<1>2. QED
  BY <1>1, NextSerialInv, PTL DEF Spec

\* Where clients fetch one destination at a time, one that exists holds a whole
\* payload, at every moment and so after every crash (fetch.go:279-303).
THEOREM DestinationsNeverTorn == Spec => []NeverTorn
  BY SerialInvariance, PTL DEF SerialInv
-----------------------------------------------------------------------------
LEMMA WholeInjective ==
  ASSUME NEW p \in Payload, NEW q \in Payload, Whole(p) = Whole(q)
  PROVE p = q
<1>1. 1 \in Blocks /\ 1 <= Size[p] /\ 1 <= Size[q]
  BY SizeAssumption DEF Blocks
<1>2. Whole(p)[1] = p /\ Whole(q)[1] = q
  BY <1>1 DEF Whole, Prefix
<1>3. QED
  BY <1>2

\* Whatever keeps the destinations keeps the abstract store.
LEMMA StoreKept ==
  ASSUME file' = file, \A d \in Dest : file[d] # None => data'[file[d]] = data[file[d]]
  PROVE \A d \in Dest : Stored(d)' = Stored(d)
<1>1. ASSUME NEW d \in Dest PROVE Stored(d)' = Stored(d)
  BY DEF Stored
<1>2. QED
  BY <1>1

LEMMA CacheInit == Init => Cache!Init
  BY DEF Init, Cache!Init, Stored, Phase, Seen

\* A call that returns, seen from the cache's clients.
LEMMA FinishMaps ==
  ASSUME TypeOK, serial, serial', NEW f \in Fetch, NEW from \in {"check", "request", "create", "publish", "discard"},
         NEW answer, Finish(f, from, answer)
  PROVE Cache!Finish(f, answer)
<1>1. /\ Phase(f) = "busy" /\ Phase(f)' = "done"
      /\ \A g \in Fetch \ {f} : Phase(g)' = Phase(g)
  BY DEF TypeOK, Finish, GoTo, Phase
<1>2. QED
  BY <1>1 DEF Cache!Finish, Finish, args, Seen, TypeOK

\* The call goes on: nothing its clients can see has changed.
LEMMA GoToMaps ==
  ASSUME TypeOK, NEW f \in Fetch,
         pc[f] \notin {"idle", "done"}, pc'[f] \notin {"idle", "done"},
         \A g \in Fetch \ {f} : pc'[g] = pc[g]
  PROVE \A g \in Fetch : Phase(g)' = Phase(g)
  BY DEF TypeOK, Phase

\* Every step of fetchHTTPS is a step of the atomic cache or changes nothing in it.
LEMMA CacheStep == SerialInv /\ [Next]_vars => [Cache!Next]_Cache!vars
<1> SUFFICES ASSUME SerialInv, [Next]_vars
             PROVE Cache!Next \/ UNCHANGED Cache!vars
  OBVIOUS
<1>a. CASE ~serial /\ Next
  BY <1>a DEF Next, Cache!vars, Seen
<1> USE DEF SerialInv, Inv, TypeInv
<1>1. ASSUME serial, serial', NEW f \in Fetch, NEW d \in Dest, NEW w \in Payload \cup {None}, Call(f, d, w)
      PROVE Cache!Ask(f, d, w)
  <2>1. /\ Phase(f) = "idle" /\ Phase(f)' = "busy"
        /\ \A g \in Fetch \ {f} : Phase(g)' = Phase(g)
    BY <1>1 DEF Call, GoTo, Phase, TypeOK
  <2>2. QED
    BY <1>1, <2>1, StoreKept DEF Cache!Ask, Call, fs, Seen, TypeOK
<1>2. ASSUME serial, serial', NEW f \in Fetch, AlreadyPresent(f) PROVE Cache!Hit(f)
  <2>1. Cache!Finish(f, "present")
    BY <1>2, FinishMaps DEF AlreadyPresent
  <2>2. dest[f] \in Dest /\ Stored(dest[f]) = want[f]
    BY <1>2, WholeInjective DEF Stored, AlreadyPresent, Present, Finish, GoTo, TypeOK, ArgsOK
  <2>3. QED
    BY <1>2, <2>1, <2>2, StoreKept DEF Cache!Hit, AlreadyPresent, Present, fs, Seen, Finish, GoTo, TypeOK, ArgsOK
<1>3. ASSUME serial, serial', NEW f \in Fetch, RequestFails(f) \/ CreateFails(f) \/ Discard(f)
      PROVE Cache!Fail(f)
  <2>1. Cache!Finish(f, "failed")
    BY <1>3, FinishMaps DEF RequestFails, CreateFails, Discard
  <2>2. QED
    BY <1>3, <2>1, StoreKept DEF Cache!Fail, RequestFails, CreateFails, Discard, fs
<1>4. ASSUME serial, serial', NEW f \in Fetch, Publish(f) PROVE Cache!Put(f, body[f])
  <2>1. Cache!Finish(f, "fetched")
    BY <1>4, FinishMaps DEF Publish
  <2>2. ASSUME NEW d \in Dest, d = dest[f] PROVE Stored(d)' = body[f]
    <3>1. file'[d] # None /\ data'[file'[d]] = Whole(body[f])
      BY <1>4, <2>2, PublishesWhole DEF TypeOK
    <3>2. QED
      BY <1>4, <3>1, PublishesWhole, WholeInjective DEF Stored
  <2>3. ASSUME NEW d \in Dest \ {dest[f]} PROVE Stored(d)' = Stored(d)
    <3>1. file'[d] = file[d] /\ data' = data
      BY <1>4, PublishesWhole DEF TypeOK
    <3>2. QED
      BY <3>1 DEF Stored
  <2>4. [d \in Dest |-> IF serial THEN Stored(d) ELSE None]'
          = [[d \in Dest |-> IF serial THEN Stored(d) ELSE None] EXCEPT ![dest[f]] = body[f]]
    BY <1>4, <2>2, <2>3
  <2>5. QED
    BY <1>4, <2>1, <2>4, PublishesWhole DEF Cache!Put, Verified, Seen, TypeOK
<1>5. ASSUME serial, serial', NEW f \in Fetch, Return(f) \/ Kill(f) PROVE Cache!End(f)
  <2>1. /\ Phase(f) # "idle" /\ Phase(f)' = "idle"
        /\ \A g \in Fetch \ {f} : Phase(g)' = Phase(g)
    BY <1>5 DEF Return, Kill, Reset, Phase, TypeOK
  <2>2. Reset(f)
    BY <1>5 DEF Return, Kill
  <2>3. QED
    BY <1>5, <2>1, <2>2, StoreKept DEF Cache!End, Reset, fs, Seen, TypeOK
<1>6. ASSUME serial, serial', NEW f \in Fetch,
             \/ NeedsDownload(f) \/ CreatePart(f) \/ CopyBlock(f) \/ CopyFails(f)
             \/ CopyEnds(f) \/ PublishFails(f) \/ \E p \in Payload : Answer(f, p)
      PROVE UNCHANGED Cache!vars
  <2>1. Step(f) /\ ~Publish(f)
    BY <1>6 DEF Step, Publish, NeedsDownload, CreatePart, CopyBlock, CopyFails, CopyEnds,
       PublishFails, Answer, Finish, GoTo, TypeOK
  <2>2. \A d \in Dest : Stored(d)' = Stored(d)
    BY <1>6, <2>1, FilesOnlyByRename, StoreKept
  <2>3. /\ pc[f] \notin {"idle", "done"} /\ pc'[f] \notin {"idle", "done"}
        /\ \A g \in Fetch \ {f} : pc'[g] = pc[g]
        /\ UNCHANGED <<dest, want, reply>>
    BY <1>6 DEF NeedsDownload, CreatePart, CopyBlock, CopyFails, CopyEnds, PublishFails, Answer,
       GoTo, args, TypeOK
  <2>4. QED
    BY <1>6, <2>2, <2>3, GoToMaps DEF Cache!vars, Seen
<1>7. CASE UNCHANGED vars
  BY <1>7 DEF vars, Cache!vars, Stored, Phase, Seen
<1>8. QED
  BY <1>a, <1>1, <1>2, <1>3, <1>4, <1>5, <1>6, <1>7, PublishesWhole DEF Next, Step, Cache!Next

\* Clients that fetch one destination at a time see an atomic cache
\* (fetch.go:249-306).
THEOREM FetchImplementsCache == Spec => ImplementsAtomicCache
  BY CacheInit, CacheStep, SerialInvariance, PTL
  DEF Spec, ImplementsAtomicCache, Cache!Spec
=============================================================================
