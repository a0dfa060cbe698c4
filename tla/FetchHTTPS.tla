----------------------------- MODULE FetchHTTPS -----------------------------
(***************************************************************************)
(* The download protocol of core/artifact/fetch.go: fetchHTTPS streams a   *)
(* body into <dest>.part while hashing the stream, compares the hash with  *)
(* the wanted sha256 and renames the part file over the destination.       *)
(*                                                                         *)
(* Tool calls run concurrently (the MCP server handles each request on its *)
(* own goroutine, and each client starts a server process of its own over  *)
(* one cache directory), the part file's name depends on the destination   *)
(* alone, and no lock is taken.  So the file system is modelled as it is:  *)
(* names point at inodes, an open descriptor keeps writing to its inode    *)
(* whatever becomes of the name, and rename and remove act on names.       *)
(*                                                                         *)
(* A payload stands for a body and for its sha256; contents are blocks,    *)
(* each written by one turn of io.Copy.                                    *)
(***************************************************************************)
EXTENDS Naturals

CONSTANTS Fetch,    \* identities of concurrent fetchHTTPS calls
          Dest,     \* destination paths
          Payload,  \* bodies an origin may serve; a payload is its own sha256
          MaxSize,  \* bound on the number of blocks of a payload
          Size,     \* the number of blocks of each payload
          Inode,    \* inodes of the file system
          None      \* no inode, no payload, no checksum, no reply

ASSUME SizeAssumption == /\ MaxSize \in Nat
                         /\ Size \in [Payload -> 1..MaxSize]

ASSUME NoneAssumption == None \notin Dest \cup Payload \cup Inode

Blocks == 1..MaxSize
Content == [Blocks -> Payload \cup {None}]

\* The first n blocks of p; a block is None where nothing was written.
Prefix(p, n) == [k \in Blocks |-> IF k <= n THEN p ELSE None]
Whole(p) == Prefix(p, Size[p])
Blank == [k \in Blocks |-> None]

VARIABLES
  \* the file system
  file,        \* the inode that each destination names, or None
  part,        \* the inode that <dest>.part names, or None
  data,        \* the content of each inode
  \* the locals of each call
  pc,          \* where the call is
  dest, want,  \* its arguments
  body,        \* the body the origin is sending
  off,         \* how many blocks were copied
  fd,          \* the inode its descriptor writes to
  reply,       \* what it returned
  \* the clients
  serial,      \* whether they fetch one destination at a time; never changes
  \* history
  overlapped   \* calls that shared their part file with another call

fs == <<file, part, data>>
args == <<dest, want>>
vars == <<file, part, data, pc, dest, want, body, off, fd, reply, serial, overlapped>>

Init == /\ file = [d \in Dest |-> None]
        /\ part = [d \in Dest |-> None]
        /\ data = [i \in Inode |-> Blank]
        /\ pc = [f \in Fetch |-> "idle"]
        /\ dest = [f \in Fetch |-> None]
        /\ want = [f \in Fetch |-> None]
        /\ body = [f \in Fetch |-> None]
        /\ off = [f \in Fetch |-> 0]
        /\ fd = [f \in Fetch |-> None]
        /\ reply = [f \in Fetch |-> None]
        /\ serial \in BOOLEAN
        /\ overlapped = {}

\* Between its os.Create and its rename or remove a call owns the part name,
\* or believes it does.
Writing(f) == pc[f] \in {"copy", "publish", "discard"}

\* Inodes nothing names and no descriptor holds.
Free == {i \in Inode : /\ \A d \in Dest : i # file[d] /\ i # part[d]
                       /\ \A f \in Fetch : i # fd[f]}

GoTo(f, from, to) == pc[f] = from /\ pc' = [pc EXCEPT ![f] = to]

\* return to the caller; the locals of the call are gone
Locals(f) == /\ body' = [body EXCEPT ![f] = None]
             /\ off' = [off EXCEPT ![f] = 0]
             /\ fd' = [fd EXCEPT ![f] = None]
             /\ overlapped' = overlapped \ {f}

Finish(f, from, answer) == /\ GoTo(f, from, "done")
                           /\ reply' = [reply EXCEPT ![f] = answer]
                           /\ Locals(f)
                           /\ UNCHANGED args

Present(f) == /\ want[f] # None
              /\ file[dest[f]] # None
              /\ data[file[dest[f]]] = Whole(want[f])

\* Mutant: the part file is opened without O_TRUNC.
TruncatedNot(content) == content

Truncated(content) == Blank

CopyTo(f) == [data EXCEPT ![fd[f]][off[f] + 1] = body[f]]

\* Mutant: the digest is computed and never compared.
VerifiedNot(f) == TRUE

\* the hash is that of the stream, not of what the part file holds
Verified(f) == want[f] \in {None, body[f]}

NameRemoved(f) == [part EXCEPT ![dest[f]] = None]
-----------------------------------------------------------------------------
Call(f, d, w) == /\ GoTo(f, "idle", "check")
                 /\ dest' = [dest EXCEPT ![f] = d]
                 /\ want' = [want EXCEPT ![f] = w]
                 /\ UNCHANGED <<fs, body, off, fd, reply, overlapped>>

\* An existing file with a matching checksum is a no-op.
AlreadyPresent(f) == /\ Present(f)
                     /\ Finish(f, "check", "present")
                     /\ UNCHANGED fs

\* Also when the file is there but cannot be read to the end.
NeedsDownload(f) == /\ GoTo(f, "check", "request")
                    /\ UNCHANGED <<fs, args, body, off, fd, reply, overlapped>>

\* A URL that is not https, no directory to write in, no answer, or an HTTP
\* status other than 200.
RequestFails(f) == /\ \/ Finish(f, "check", "failed")
                      \/ Finish(f, "request", "failed")
                   /\ UNCHANGED fs

Answer(f, p) == /\ GoTo(f, "request", "create")
                /\ body' = [body EXCEPT ![f] = p]
                /\ UNCHANGED <<fs, args, off, fd, reply, overlapped>>

\* os.Create: a new inode, or the existing one cut to nothing.
CreatePart(f) ==
  LET d == dest[f]
      others == {g \in Fetch \ {f} : Writing(g) /\ dest[g] = d}
  IN  /\ GoTo(f, "create", "copy")
      /\ \E i \in IF part[d] = None THEN Free ELSE {part[d]} :
           /\ part' = [part EXCEPT ![d] = i]
           /\ data' = [data EXCEPT ![i] = IF part[d] = None
                                          THEN Blank ELSE Truncated(data[i])]
           /\ fd' = [fd EXCEPT ![f] = i]
      /\ overlapped' = IF others = {} THEN overlapped
                                      ELSE overlapped \cup others \cup {f}
      /\ UNCHANGED <<file, args, body, off, reply>>

CreateFails(f) == /\ Finish(f, "create", "failed")
                  /\ UNCHANGED fs

\* Mutant: the copy loop runs one block too far.
CopyBlockPastEnd(f) == /\ pc[f] = "copy"
                       /\ off[f] <= Size[body[f]]
                       /\ data' = CopyTo(f)
                       /\ off' = [off EXCEPT ![f] = @ + 1]
                       /\ UNCHANGED <<file, part, pc, args, body, fd, reply, overlapped>>

CopyBlock(f) == /\ pc[f] = "copy"
                /\ off[f] < Size[body[f]]
                /\ data' = CopyTo(f)
                /\ off' = [off EXCEPT ![f] = @ + 1]
                /\ UNCHANGED <<file, part, pc, args, body, fd, reply, overlapped>>

Close(f) == fd' = [fd EXCEPT ![f] = None]

\* Mutant: the error of io.Copy is dropped.
CopyFailsUnseen(f) == /\ GoTo(f, "copy", "publish")
                      /\ Close(f)
                      /\ UNCHANGED <<fs, args, body, off, reply, overlapped>>

\* The connection breaks, the client's timeout expires, or the disk is full.
CopyFails(f) == /\ GoTo(f, "copy", "discard")
                /\ Close(f)
                /\ UNCHANGED <<fs, args, body, off, reply, overlapped>>

CopyEnds(f) == /\ GoTo(f, "copy", IF Verified(f) THEN "publish" ELSE "discard")
               /\ off[f] = Size[body[f]]
               /\ Close(f)
               /\ UNCHANGED <<fs, args, body, off, reply, overlapped>>

Publish(f) == /\ Finish(f, "publish", "fetched")
              /\ part[dest[f]] # None
              /\ file' = [file EXCEPT ![dest[f]] = part[dest[f]]]
              /\ part' = NameRemoved(f)
              /\ UNCHANGED data

\* Mutant: a failed rename returns without removing the part file.
PublishFailsDirty(f) == Finish(f, "publish", "failed") /\ UNCHANGED fs

\* os.Rename fails: the part name is gone, or the destination cannot be
\* replaced.
PublishFails(f) == /\ GoTo(f, "publish", "discard")
                   /\ UNCHANGED <<fs, args, body, off, fd, reply, overlapped>>

\* os.Remove, by name; that there is nothing to remove is not looked at.
Discard(f) == /\ Finish(f, "discard", "failed")
              /\ part' = NameRemoved(f)
              /\ UNCHANGED <<file, data>>

Reset(f) == /\ pc' = [pc EXCEPT ![f] = "idle"]
            /\ dest' = [dest EXCEPT ![f] = None]
            /\ want' = [want EXCEPT ![f] = None]
            /\ reply' = [reply EXCEPT ![f] = None]
            /\ Locals(f)
            /\ UNCHANGED fs

\* The client has the reply and may use f for another call.
Return(f) == pc[f] = "done" /\ Reset(f)

\* The server process dies: files stay as they are, descriptors close.
Kill(f) == pc[f] \notin {"idle", "done"} /\ Reset(f)

Step(f) == \/ AlreadyPresent(f) \/ NeedsDownload(f) \/ RequestFails(f)
           \/ \E p \in Payload : Answer(f, p)
           \/ CreatePart(f) \/ CreateFails(f)
           \/ CopyBlock(f) \/ CopyFails(f) \/ CopyEnds(f)
           \/ Publish(f) \/ PublishFails(f) \/ Discard(f)

\* Clients that wait for a fetch before they start another of the same
\* destination.
OneFetchPerDest == \A f, g \in Fetch : f # g /\ {pc[f], pc[g]} \cap {"idle", "done"} = {}
                                         => dest[f] # dest[g]

Next == /\ \E f \in Fetch :
             \/ \E d \in Dest, w \in Payload \cup {None} : Call(f, d, w)
             \/ Step(f) \/ Return(f) \/ Kill(f)
        /\ serial => OneFetchPerDest'
        /\ UNCHANGED serial

Spec == Init /\ [][Next]_vars
-----------------------------------------------------------------------------
TypeOK == /\ file \in [Dest -> Inode \cup {None}]
          /\ part \in [Dest -> Inode \cup {None}]
          /\ data \in [Inode -> Content]
          /\ pc \in [Fetch -> {"idle", "check", "request", "create", "copy",
                               "publish", "discard", "done"}]
          /\ dest \in [Fetch -> Dest \cup {None}]
          /\ want \in [Fetch -> Payload \cup {None}]
          /\ body \in [Fetch -> Payload \cup {None}]
          /\ off \in [Fetch -> 0..MaxSize]
          /\ fd \in [Fetch -> Inode \cup {None}]
          /\ reply \in [Fetch -> {"present", "fetched", "failed", None}]
          /\ serial \in BOOLEAN
          /\ overlapped \in SUBSET Fetch

Published(f) == pc[f] = "publish" /\ pc'[f] = "done"

\* A call whose part file no other call touched publishes exactly the body it
\* hashed, whatever else runs, whatever a killed process left behind, and only
\* if the body has the wanted checksum (fetch.go:279-300).
AlonePublishesWhole ==
  [][\A f \in Fetch : Published(f) /\ f \notin overlapped =>
       /\ file'[dest[f]] # None
       /\ data'[file'[dest[f]]] = Whole(body[f])
       /\ want[f] \in {None, body[f]}]_vars

\* "verifying the sha256 when provided" (fetch.go:249-250): when a call reports
\* a verified download, the destination holds that payload.
VerifiedMeansIntact ==
  [][\A f \in Fetch : Published(f) /\ want[f] # None =>
       data'[file'[dest[f]]] = Whole(want[f])]_vars

\* A part file that no running call will rename or remove.
Stray(d) == part[d] # None /\ ~ \E f \in Fetch : Writing(f) /\ dest[f] = d

\* Every error path removes the part file (fetch.go:289, 297, 301): only the
\* death of a process that was writing one leaves it behind.
StrayOnlyByKill ==
  [][\A d \in Dest : Stray(d)' /\ ~Stray(d) =>
       \E f \in Fetch : Writing(f) /\ dest[f] = d /\ pc'[f] = "idle"]_vars

\* If clients fetch one destination at a time then at every moment, and so after
\* every crash, a destination that exists holds a whole payload: the point of
\* writing to a part file (fetch.go:279-303).
NeverTorn == serial => \A d \in Dest : file[d] # None =>
                         \E p \in Payload : data[file[d]] = Whole(p)

Stored(d) == IF file[d] = None THEN None
             ELSE IF \E p \in Payload : data[file[d]] = Whole(p)
                  THEN CHOOSE p \in Payload : data[file[d]] = Whole(p)
                  ELSE "torn"

Phase(f) == IF pc[f] \in {"idle", "done"} THEN pc[f] ELSE "busy"

\* Of clients that do not wait for each other nothing is shown: no call of theirs
\* reaches the cache.
Seen(f, v) == IF serial THEN v ELSE None

Cache == INSTANCE AtomicCache WITH
           Request <- Fetch, Entry <- Dest,
           store <- [d \in Dest |-> IF serial THEN Stored(d) ELSE None],
           phase <- [f \in Fetch |-> IF serial THEN Phase(f) ELSE "idle"],
           dest  <- [f \in Fetch |-> Seen(f, dest[f])],
           want  <- [f \in Fetch |-> Seen(f, want[f])],
           reply <- [f \in Fetch |-> Seen(f, reply[f])]

\* For clients that fetch one destination at a time, a fetch is atomic: it
\* replaces one entry by a payload with the wanted checksum or changes nothing
\* (fetch.go:249-306).
ImplementsAtomicCache == Cache!Spec
=============================================================================
