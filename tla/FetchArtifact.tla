--------------------------- MODULE FetchArtifact ---------------------------
(***************************************************************************)
(* core/artifact/fetch.go, Fetch and extractBox: what a resolved artifact  *)
(* is called in the image cache, when the file of that name is good enough,*)
(* and how a Vagrant box becomes the machine that is imported.             *)
(*                                                                         *)
(* One fetch at a time, so that fetchHTTPS is the atomic cache that        *)
(* FetchHTTPSProofs shows it to be.  Meanwhile publishers release, users   *)
(* prune the cache, a virtual machine imported in place writes to its      *)
(* disk, and the server may be killed.                                     *)
(***************************************************************************)
EXTENDS Naturals, Sequences, TLC

CONSTANTS Artifact,   \* values of Resolve: source, channel, locator (its parts), asset, ...
          Digested,   \* those whose publisher gives a sha256 with the release
          MaxRelease, \* bound: r's origin |-> how many releases it has
          Torn,       \* what a half-written file holds
          Guest,      \* what a disk holds that a virtual machine has written to
          None        \* no file, no digest, no version asked for

ASSUME ArtifactAssumption ==
  \A r \in Artifact : r.channel \in {"github_asset", "url", "vagrant",
                                     "ubuntu_cloud", "talos_factory"}
ASSUME DigestedAssumption ==
  /\ \A r \in Artifact : r.channel = "ubuntu_cloud" => r \in Digested
  /\ \A r \in Digested : r.channel \notin {"url", "talos_factory"}

VARIABLES
  release, \* publishers: the latest release behind each artifact's URL
  cache,   \* the image cache: name |-> what the file holds
  dir,     \* directories of extracted boxes: name |-> member |-> what it holds
  inUse,   \* extracted boxes that are virtual machines now
  \* the call
  pc, job, \* what is fetched and the version asked for
  known,   \* history: the latest release when the call began
  version, \* the release that the publisher's answer names
  want,    \* the digest to verify against
  left,    \* members of the box still to be extracted
  member,  \* the one being written
  unseen   \* history: members of the box whose closing failed

call == <<pc, job, known, version, want, left, member, unseen>>
vars == <<release, cache, dir, inUse, call>>

Members == {"machine", "disk"}

Origin(r) == <<r.channel, r.locator, r.provider, r.arch>>
Origins == {Origin(r) : r \in Artifact}
Releases == UNION {1 .. MaxRelease[o] : o \in Origins}

ASSUME BoundAssumption == MaxRelease \in [Origins -> Nat \ {0}]
Payload == [of : Origins, release : Releases]
Body(r, v) == [of |-> Origin(r), release |-> v]

ASSUME NoneAssumption == None \notin Payload /\ None \notin Members /\ Torn \notin Payload

\* Which releases have names of their own.
Versioned(r) == r.channel \in {"github_asset", "talos_factory", "vagrant"}

\* The name in the cache; Fetch builds it by its own rule for every channel.  Names need
\* not differ: a fixed URL's is that of the image, and dashes and slashes look the same
\* in a box's.  Of Ubuntu there is one series, the default.
Dest(r, v) ==
  CASE r.channel = "url" -> r.source \o "." \o r.format
    [] r.channel = "vagrant" -> "boxes/" \o r.locator[1] \o "-" \o r.locator[2] \o "-"
                                  \o ToString(v) \o "-" \o r.provider \o "-" \o r.arch
    [] r.channel = "ubuntu_cloud" -> "ubuntu-24.04-server-cloudimg-" \o r.arch \o ".ova"
    [] OTHER -> r.source \o "-" \o ToString(v) \o "-" \o r.asset

Names == {Dest(r, v) : r \in Artifact, v \in Releases}
Boxes == {Dest(r, v) : r \in {b \in Artifact : b.channel = "vagrant"}, v \in Releases}

NoJob == [artifact |-> None, tag |-> None, dry |-> FALSE]
Jobs == [artifact : Artifact, tag : Releases \cup {None}, dry : BOOLEAN]

Rest == /\ pc = "idle" /\ job = NoJob /\ known = None
        /\ version = None /\ want = None /\ left = {} /\ member = None /\ unseen = {}

Init == /\ release = [o \in Origins |-> 1]
        /\ cache = [n \in Names |-> None]
        /\ dir = [n \in Boxes |-> [m \in Members |-> None]]
        /\ inUse = {}
        /\ Rest

r == job.artifact
dest == Dest(r, version)

Finish(answer) == /\ pc' = answer /\ member' = None
                  /\ UNCHANGED <<job, known, version, want, left, unseen>>

Fetch(j) == /\ pc = "idle" /\ pc' = "resolve"
            /\ job' = j
            /\ known' = release[Origin(j.artifact)]
            /\ UNCHANGED <<release, cache, dir, inUse, version, want, left, member, unseen>>

\* githubRelease, vagrantResolve, ubuntuCloudResolve: one answer of the publisher
\* names the release and, when there is one, its digest.  A fixed URL has neither.
\* The factory is asked for nothing but the latest release.
Lookup ==
  LET latest == release[Origin(r)]
      v == IF Versioned(r) /\ job.tag # None THEN job.tag ELSE latest
  IN  /\ pc = "resolve"
      /\ v <= latest \/ r.channel = "talos_factory"
      /\ version' = v
      /\ want' = IF r \in Digested THEN Body(r, v) ELSE None
      /\ pc' = IF job.dry THEN "dry" ELSE "get"
      /\ UNCHANGED <<release, cache, dir, inUse, job, known, left, member, unseen>>

LookupFails == /\ pc = "resolve" /\ Finish("failed")
               /\ UNCHANGED <<release, cache, dir, inUse>>

\* Mutants: a file of that name is good enough, whatever it holds, or if nothing is known
\* of what it should hold.
PresentByName == cache[dest] # None
PresentUnverified == cache[dest] # None /\ want \in {None, cache[dest]}

Present == want # None /\ cache[dest] = want

\* fetchHTTPS is through: a box has still to be extracted.
Got == IF r.channel = "vagrant"
       THEN /\ pc' = "extract" /\ left' = Members
            /\ UNCHANGED <<job, known, version, want, member, unseen>>
       ELSE Finish("ok")

AlreadyPresent == /\ pc = "get" /\ Present /\ Got
                  /\ UNCHANGED <<release, cache, dir, inUse>>

\* A URL without a version serves what is published by now.
Serving == Body(r, IF Versioned(r) THEN version ELSE release[Origin(r)])

\* A file that cannot be read to the end is downloaded again, whatever it holds.
Download ==
  /\ pc = "get"
  /\ Serving.release <= release[Origin(r)]
  /\ want \in {None, Serving}
  /\ cache' = [cache EXCEPT ![dest] = Serving]
  /\ Got
  /\ UNCHANGED <<release, dir, inUse>>

\* Also when the digest does not match.
DownloadFails == /\ pc = "get" /\ Finish("failed")
                 /\ UNCHANGED <<release, cache, dir, inUse>>

\* Mutant: a machine file that is there already is not extracted again.
ExtractMissing(m) == /\ pc = "extract" /\ member = None /\ m \in left
                     /\ IF dir[dest]["machine"] # None
                        THEN left' = {} /\ UNCHANGED <<dir, member>>
                        ELSE /\ left' = left \ {m}
                             /\ member' = m
                             /\ dir' = [dir EXCEPT ![dest][m] = Torn]
                     /\ UNCHANGED <<release, cache, inUse, pc, job, known, version, want,
                                    unseen>>

\* Mutant: a name that leaves the directory is followed.
ExtractAnywhere(m) == /\ pc = "extract" /\ member = None /\ m \in left
                      /\ left' = left \ {m}
                      /\ member' = ".."
                      /\ UNCHANGED <<release, cache, dir, inUse, pc, job, known, version, want,
                                     unseen>>

\* extractBox: os.Create empties the file of that name, whatever it is by now.
ExtractMember(m) == /\ pc = "extract" /\ member = None /\ m \in left
                    /\ left' = left \ {m}
                    /\ member' = m
                    /\ dir' = [dir EXCEPT ![dest][m] = Torn]
                    /\ UNCHANGED <<release, cache, inUse, pc, job, known, version, want,
                                   unseen>>

\* An error of Close, a full disk for one, is not looked at.
CopyMember == /\ pc = "extract" /\ member # None
              /\ \/ dir' = [dir EXCEPT ![dest][member] = cache[dest]] /\ unseen' = unseen
                 \/ dir' = dir /\ unseen' = unseen \cup {member}
              /\ member' = None
              /\ UNCHANGED <<release, cache, inUse, pc, job, known, version, want, left>>

Extracted == /\ pc = "extract" /\ member = None /\ left = {}
             /\ Finish("ok")
             /\ UNCHANGED <<release, cache, dir, inUse>>

\* A damaged archive, an unsafe path, a full disk: what was extracted stays.
ExtractFails == /\ pc = "extract" /\ Finish("failed")
                /\ UNCHANGED <<release, cache, dir, inUse>>

Reset == /\ pc' = "idle" /\ job' = NoJob /\ known' = None
         /\ version' = None /\ want' = None /\ left' = {} /\ member' = None /\ unseen' = {}

TakeReply == /\ pc \in {"ok", "dry", "failed"} /\ Reset
             /\ UNCHANGED <<release, cache, dir, inUse>>

Kill == /\ pc \notin {"idle", "ok", "dry", "failed"} /\ Reset
        /\ UNCHANGED <<release, cache, dir, inUse>>
-----------------------------------------------------------------------------
(* The world around.                                                       *)

Publish(o) == /\ release[o] < MaxRelease[o]
              /\ release' = [release EXCEPT ![o] = @ + 1]
              /\ UNCHANGED <<cache, dir, inUse, call>>

\* A user reclaims the space of a download.
Prune(n) == /\ pc \notin {"get", "extract"} /\ cache[n] # None
            /\ cache' = [cache EXCEPT ![n] = None]
            /\ UNCHANGED <<release, dir, inUse, call>>

\* VMware uses the .vmx of a box where it was extracted (ImportImage).
ImportInPlace == /\ pc = "ok" /\ r.channel = "vagrant" /\ r.provider = "vmware_desktop"
                 /\ inUse' = inUse \cup {dest}
                 /\ UNCHANGED <<release, cache, dir, call>>

\* The virtual machine runs.
GuestWrites(n) == /\ n \in inUse
                  /\ dir' = [dir EXCEPT ![n]["disk"] = Guest]
                  /\ UNCHANGED <<release, cache, inUse, call>>

Server == \/ \E j \in Jobs : Fetch(j)
          \/ Lookup \/ LookupFails
          \/ AlreadyPresent \/ Download \/ DownloadFails
          \/ \E m \in Members : ExtractMember(m)
          \/ CopyMember \/ Extracted \/ ExtractFails
          \/ TakeReply \/ Kill

World == \/ \E o \in Origins : Publish(o)
         \/ \E n \in Names : Prune(n)
         \/ ImportInPlace
         \/ \E n \in Boxes : GuestWrites(n)

Next == Server \/ World

Spec == Init /\ [][Next]_vars
-----------------------------------------------------------------------------
Held == Payload \cup {None}

TypeOK == /\ release \in [Origins -> Releases]
          /\ cache \in [Names -> Held]
          /\ dir \in [Boxes -> [Members -> Held \cup {Torn, Guest}]]
          /\ inUse \subseteq Boxes
          /\ pc \in {"idle", "resolve", "get", "extract", "ok", "dry", "failed"}
          /\ job \in Jobs \cup {NoJob}
          /\ {known, version} \subseteq Releases \cup {None}
          /\ want \in Held
          /\ left \subseteq Members
          /\ member \in Members \cup {None}
          /\ unseen \subseteq Members

\* The call answers, just now, with the path of what it fetched.
Answers == pc # "ok" /\ pc' = "ok"

\* What the file holds for which that path stands, when nobody but the server
\* wrote there.
Fetched == IF r.channel = "vagrant" THEN dir[dest]["machine"] ELSE cache[dest]

\* Nothing tells a fetch that the file it answers with could not be closed.
Trusted == Answers /\ "machine" \notin unseen

\* "Resolution is therefore keyed on (image, provider kind, host arch) rather than
\* on image alone" (resolve.go:8-9), and names in the cache are not: whatever the fetch
\* of another artifact has left under that name, a fetch answers with what was published
\* for the provider and the architecture it is for, in the version that it reports.
AnswersWithItsOwn ==
  [][Trusted => /\ Fetched'.of = Origin(r)
                /\ Versioned(r) => Fetched'.release = version]_vars

\* "default latest" (main.go:139): a fetch without a version answers with a release
\* that is no older than the latest when it began, whatever lies in the cache.
LatestMeansLatest ==
  [][Trusted /\ job.tag = None => Fetched'.release >= known]_vars

\* "extracting Vagrant boxes down to their importable machine file"
\* (fetch.go:57): the machine that a fetch answers with is all of one box,
\* whatever an earlier fetch that failed or was killed left in its place.  A guest
\* that runs from it keeps its own disk, and a member is torn only if closing it
\* failed, in this very fetch, which the code does not look at (fetch.go:519).
BoxIsWhole ==
  [][Answers /\ r.channel = "vagrant" =>
       \A m \in Members : \/ dir'[dest][m] = cache[dest]
                          \/ m = "disk" /\ dest \in inUse
                          \/ m \in unseen]_vars

\* "idempotent downloads" (skills/hv-maintenance/SKILL.md:26-27): fetching again
\* leaves the disk of the virtual machine that was imported from the box alone.
GuestKept ==
  [][\A n \in inUse : dir[n]["disk"] = Guest => dir'[n]["disk"] = Guest]_vars
=============================================================================
