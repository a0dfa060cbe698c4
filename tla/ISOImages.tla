------------------------------ MODULE ISOImages ------------------------------
(***************************************************************************)
(* The ISO files that tool calls make: RepackISO (provider/repackiso.go)   *)
(* adds boot arguments to the GRUB configuration of an installer's image,  *)
(* MakeISO (provider/vmware/ops.go) packs a directory.  Both remove the    *)
(* destination first and have a command of the host write it anew, so that *)
(* a call meets others in the files it reads and writes, and a failure may *)
(* come after the removal.                                                 *)
(*                                                                         *)
(* An image is where it came from and its GRUB configuration, a sequence   *)
(* of lines, each a sequence of words.  What the caller passes for         *)
(* bootArgs is one text of several words.  The temporary directory is the  *)
(* call's own, so it appears as a local only.                              *)
(***************************************************************************)
EXTENDS Naturals, Sequences

CONSTANTS Call,      \* identities of concurrent tool calls
          Path,      \* paths of ISO files
          WithISO,   \* the path that hdiutil writes when it is asked for a path
          Arg,       \* texts that callers pass for bootArgs
          Word,      \* the words of GRUB configurations and of arguments
          Words,     \* the words of an argument
          Holding,   \* for each of them the words that a line that has the text has there
          Installer, \* the lines of the GRUB configuration of an installer's image
          None       \* no file, no image, no reply

ASSUME PathAssumption == WithISO \in [Path -> Path]
ASSUME WordAssumption ==
  /\ {"linux", "linuxefi", "---"} \subseteq Word
  /\ Words \in [Arg -> Seq(Word)]
  /\ \A a \in Arg : /\ Holding[a] \in [DOMAIN Words[a] -> SUBSET Word]
                    /\ \A k \in DOMAIN Words[a] : Words[a][k] \in Holding[a][k]
ASSUME InstallerAssumption == Installer \in Seq(Seq(Word))

\* got is history: the arguments that were added to the line.
Line == [words : Seq(Word), got : SUBSET Arg]

Image == [from : {"installer", "made"}, grub : Seq(Line)]
Original == [from |-> "installer",
             grub |-> [i \in DOMAIN Installer |-> [words |-> Installer[i], got |-> {}]]]
Made == [from |-> "made", grub |-> <<>>]
Torn == [from |-> "torn", grub |-> <<>>]

ASSUME NoneAssumption == /\ None \notin Path \cup {"ok", "failed"}
                         /\ None # Torn /\ None \notin Image

VARIABLES
  backend,  \* the host's tool for MakeISO, "" when there is none
  disc,     \* the image at each path
  \* the tool calls
  pc, job,
  grub,     \* the lines that RepackISO works on
  out,      \* the path under which the file being written is known, if any
  image,    \* the image being written
  reply,
  \* history
  mixed,    \* calls that had a file open together with another
  disturbed \* calls whose files another call removed or wrote meanwhile

host == <<backend, disc>>
vars == <<backend, disc, pc, job, grub, out, image, reply, mixed, disturbed>>

Jobs == [op : {"repack"}, src : Path, dest : Path, arg : Arg]
        \cup [op : {"make"}, dest : Path]

Init == /\ backend \in {"", "hdiutil", "mkisofs"}
        /\ disc \in [Path -> {None, Original}]
        /\ pc = [c \in Call |-> "idle"]
        /\ job = [c \in Call |-> None]
        /\ grub = [c \in Call |-> <<>>]
        /\ out = [c \in Call |-> None]
        /\ image = [c \in Call |-> None]
        /\ reply = [c \in Call |-> None]
        /\ mixed = {}
        /\ disturbed = {}
-----------------------------------------------------------------------------
(* The lines of a GRUB configuration.                                      *)

Kernel(line) == line.words # <<>> /\ Head(line.words) \in {"linux", "linuxefi"}

\* Mutant: the arguments are added however often the line has them.
HasArgNot(line, a) == FALSE

\* strings.Contains: as text, so that the first and the last word may be parts of others
HasArg(line, a) ==
  \E i \in 0 .. Len(line.words) :
    \A k \in DOMAIN Words[a] : /\ i + k \in DOMAIN line.words
                               /\ line.words[i + k] \in Holding[a][k]

Separators(line) == {i \in DOMAIN line.words : line.words[i] = "---"}

\* before the last separator, or at the end
Place(line) == IF Separators(line) = {} THEN Len(line.words) + 1
               ELSE CHOOSE i \in Separators(line) : \A k \in Separators(line) : k <= i

\* Mutant: nothing is written where the argument belongs.
WithArgEmpty(line, a) == [line EXCEPT !.words = Append(@, "")]

WithArg(line, a) == [words |-> SubSeq(line.words, 1, Place(line) - 1) \o Words[a]
                                 \o SubSeq(line.words, Place(line), Len(line.words)),
                     got |-> line.got \cup {a}]

PatchedLine(line, a) == IF Kernel(line) /\ ~HasArg(line, a) THEN WithArg(line, a)
                                                               ELSE line

Patched(lines, a) == [i \in DOMAIN lines |-> PatchedLine(lines[i], a)]
-----------------------------------------------------------------------------
GoTo(c, from, to) == pc[c] = from /\ pc' = [pc EXCEPT ![c] = to]

Locals(c) == /\ grub' = [grub EXCEPT ![c] = <<>>]
             /\ out' = [out EXCEPT ![c] = None]
             /\ image' = [image EXCEPT ![c] = None]
             /\ mixed' = mixed \ {c}

Return(c, from, answer) == /\ GoTo(c, from, "done")
                           /\ reply' = [reply EXCEPT ![c] = answer]
                           /\ Locals(c)
                           /\ UNCHANGED <<backend, job>>

Writing(c) == pc[c] \in {"commit", "orphan"}

\* hdiutil is given the path without ".iso", and adds it.
Written(j) == IF j.op = "make" /\ backend = "hdiutil" THEN WithISO[j.dest] ELSE j.dest

Files(c) == {job[c].dest, Written(job[c])}
            \cup (IF job[c].op = "repack" THEN {job[c].src} ELSE {})

\* c changed what is at p
Touch(c, p) ==
  disturbed' = disturbed \cup {d \in Call \ {c} : pc[d] \notin {"idle", "done"}
                                                  /\ p \in Files(d)}

Readable(p) == disc[p] \notin {None, Torn}

Begin(c, j) == /\ GoTo(c, "idle", "start")
               /\ job' = [job EXCEPT ![c] = j]
               /\ UNCHANGED <<host, grub, out, image, reply, mixed, disturbed>>

\* xorriso is not there, no temporary directory can be made, the GRUB
\* configuration cannot be extracted, read or rewritten; or no adapter was
\* chosen, or it has no tool to make an ISO with: nothing was done.
Refuse(c) == /\ \/ Return(c, "start", "failed")
                \/ Return(c, "check", "failed")
                \/ Return(c, "remove", "failed")
             /\ UNCHANGED <<disc, disturbed>>

\* MkdirTemp, extraction, Chmod and ReadFile
Extract(c) == LET p == job[c].src IN
              /\ GoTo(c, "start", "check") /\ job[c].op = "repack"
              /\ Readable(p) /\ disc[p].grub # <<>>
              /\ grub' = [grub EXCEPT ![c] = disc[p].grub]
              /\ UNCHANGED <<host, job, out, image, reply, mixed, disturbed>>

\* Mutant: the configuration is read-only and stays as it is.
RewriteReadOnly(c) == /\ GoTo(c, "check", "remove")
                      /\ Patched(grub[c], job[c].arg) # grub[c]
                      /\ UNCHANGED <<host, job, grub, out, image, reply, mixed, disturbed>>

\* The lines are patched and written back: patching a line lengthens it, so that
\* they are as before when patched = 0.
Rewrite(c) == LET lines == Patched(grub[c], job[c].arg) IN
              /\ GoTo(c, "check", "remove")
              /\ lines # grub[c]
              /\ grub' = [grub EXCEPT ![c] = lines]
              /\ UNCHANGED <<host, job, out, image, reply, mixed, disturbed>>

\* Mutant: whether there was anything to patch is not asked.
NothingToPatchGoesOn(c) == /\ GoTo(c, "check", "remove")
                           /\ Patched(grub[c], job[c].arg) = grub[c]
                           /\ UNCHANGED <<host, job, grub, out, image, reply, mixed, disturbed>>

\* patched == 0
NothingToPatch(c) == /\ Return(c, "check", "failed")
                     /\ Patched(grub[c], job[c].arg) = grub[c]
                     /\ UNCHANGED <<disc, disturbed>>

Pack(c) == /\ GoTo(c, "start", "remove")
           /\ job[c].op = "make" /\ backend # ""
           /\ UNCHANGED <<host, job, grub, out, image, reply, mixed, disturbed>>

\* os.Remove: the name goes, whoever writes to the file goes on writing.
RemoveDest(c) == LET p == job[c].dest IN
             /\ GoTo(c, "remove", "open")
             /\ disc' = [disc EXCEPT ![p] = None]
             /\ out' = [d \in Call |-> IF out[d] = p THEN None ELSE out[d]]
             /\ IF disc[p] = None THEN UNCHANGED disturbed ELSE Touch(c, p)
             /\ UNCHANGED <<backend, job, grub, image, reply, mixed>>

\* What the command is about to write.
Product(c) == IF job[c].op = "make" THEN Made
              ELSE [from |-> disc[job[c].src].from, grub |-> grub[c]]

\* xorriso loads the source and wants a blank target, hdiutil refuses to replace a
\* file, the others write over it.
Open(c) == LET p == Written(job[c])
               writers == {d \in Call : Writing(d) /\ out[d] = p}
           IN  /\ GoTo(c, "open", "commit")
               /\ job[c].op = "repack" => Readable(job[c].src)
               /\ job[c].op = "repack" \/ backend = "hdiutil" => disc[p] = None
               /\ disc' = [disc EXCEPT ![p] = Torn]
               /\ image' = [image EXCEPT ![c] = Product(c)]
               /\ out' = [out EXCEPT ![c] = p]
               /\ grub' = [grub EXCEPT ![c] = <<>>]
               /\ mixed' = IF writers = {} THEN mixed ELSE mixed \cup writers \cup {c}
               /\ Touch(c, p)
               /\ UNCHANGED <<backend, job, reply>>

\* The file is complete; what two commands wrote into one file is not an image.
Complete(c) ==
  IF out[c] = None THEN UNCHANGED <<disc, disturbed>>
  ELSE /\ disc' = [disc EXCEPT ![out[c]] = IF c \in mixed THEN Torn ELSE image[c]]
       /\ Touch(c, out[c])

Commit(c) == Return(c, "commit", "ok") /\ Complete(c)

\* The command fails or runs out of time: what it wrote stays.
WriteFails(c) == /\ Return(c, "open", "failed") \/ Return(c, "commit", "failed")
                 /\ UNCHANGED <<disc, disturbed>>

Over(c) == /\ pc' = [pc EXCEPT ![c] = "idle"]
           /\ job' = [job EXCEPT ![c] = None]
           /\ reply' = [reply EXCEPT ![c] = None]
           /\ Locals(c)
           /\ UNCHANGED backend

TakeReply(c) == /\ pc[c] = "done" /\ Over(c)
                /\ disturbed' = disturbed \ {c}
                /\ UNCHANGED disc

\* The server dies; the command it started goes on without it.
Kill(c) == \/ /\ pc[c] \in {"start", "check", "remove", "open"} /\ Over(c)
              /\ disturbed' = disturbed \ {c}
              /\ UNCHANGED disc
           \/ /\ GoTo(c, "commit", "orphan")
              /\ UNCHANGED <<host, job, grub, out, image, reply, mixed, disturbed>>

OrphanEnds(c) == /\ pc[c] = "orphan" /\ Over(c)
                 /\ Complete(c) \/ UNCHANGED <<disc, disturbed>>

Step(c) == \/ Refuse(c) \/ Extract(c) \/ Rewrite(c) \/ NothingToPatch(c)
           \/ Pack(c) \/ RemoveDest(c) \/ Open(c) \/ Commit(c) \/ WriteFails(c)

Next == \E c \in Call : \/ \E j \in Jobs : Begin(c, j)
                        \/ Step(c) \/ TakeReply(c) \/ Kill(c) \/ OrphanEnds(c)

Spec == Init /\ [][Next]_vars
-----------------------------------------------------------------------------
TypeOK == /\ backend \in {"", "hdiutil", "mkisofs"}
          /\ disc \in [Path -> Image \cup {None, Torn}]
          /\ pc \in [Call -> {"idle", "start", "check", "remove", "open", "commit",
                              "orphan", "done"}]
          /\ job \in [Call -> Jobs \cup {None}]
          /\ grub \in [Call -> Seq(Line)]
          /\ out \in [Call -> Path \cup {None}]
          /\ image \in [Call -> Image \cup {None}]
          /\ reply \in [Call -> {"ok", "failed", None}]
          /\ mixed \subseteq Call
          /\ disturbed \subseteq Call

\* new is old with a added to every kernel line that did not have it, before the last
\* separator.
Adds(new, old, a) ==
  /\ Len(new) = Len(old)
  /\ \A i \in DOMAIN old :
       IF Kernel(old[i]) /\ ~HasArg(old[i], a)
       THEN \E k \in 0 .. Len(old[i].words) :
              /\ new[i].words = SubSeq(old[i].words, 1, k) \o Words[a]
                                   \o SubSeq(old[i].words, k + 1, Len(old[i].words))
              /\ \A n \in Separators(old[i]) : k < n \/ \E m \in Separators(old[i]) : n < m
       ELSE new[i] = old[i]

\* "repacked src -> dest ... with: args" and "iso: dest" (repackiso.go:92-93,
\* vmware/ops.go:634, 650): if no other call wrote one of its files meanwhile,
\* the path that the reply names holds that image, whole: the source with the
\* arguments on every kernel line, or the directory that was packed.
ReplyIsTrue ==
  [][\A c \in Call : reply'[c] = "ok" /\ reply[c] = None /\ c \notin disturbed =>
       LET j == job[c] IN
       IF j.op = "make" THEN disc'[Written(j)] = Made
       ELSE /\ disc'[j.dest].from = disc[j.src].from
            /\ Adds(disc'[j.dest].grub, disc[j.src].grub, j.arg)]_vars

\* Nothing that is inserted before the last separator comes between its words.
Unparted(a) == \A k \in DOMAIN Words[a] : Words[a][k] = "---" => k = 1

\* "keep repacks idempotent" (repackiso.go:64): however often images are repacked from
\* each other, and with whatever other arguments in between, no line is given the same
\* arguments twice.  (Single words may be twice on a line, when two texts share them.)
AddedOnce ==
  [][\A c \in Call : pc[c] = "check" /\ pc'[c] = "remove" /\ Unparted(job[c].arg) =>
       \A i \in DOMAIN grub[c] : grub'[c][i] # grub[c][i] =>
                                  job[c].arg \notin grub[c][i].got]_vars

\* A repack that adds nothing, because the arguments are there already or the
\* kernel lines are not, leaves its destination alone, even when that is its source
\* (repackiso.go:63-81): a removal finds a line in the source that lacks them.
KeptIfNothingToAdd ==
  [][\A c \in Call \ disturbed :
       pc[c] = "remove" /\ pc'[c] = "open" /\ job[c].op = "repack" =>
         LET lines == disc[job[c].src].grub
         IN  \E i \in DOMAIN lines : Kernel(lines[i]) /\ ~HasArg(lines[i], job[c].arg)]_vars
=============================================================================
