# A verification of desktop-hypervisor-mcp

TLA+ models of the server's core logic, the TLC configurations that check them
on small instances, and proofs, checked by TLAPS, of what matters most for every
instance. Paths are relative to the repository; a bare `fetch.go` is
`core/artifact/fetch.go`. `PROJECT.json` maps every definition to the lines it
models and lists runs, hazards, findings and theorems.

## 1. The system

One process per MCP client serves tool calls over stdio; calls of one client, and
of several clients over the same files, run concurrently. The server keeps **no
state and takes no lock**: all state is in the file system, in the hypervisors and
at the publishers of images, and every call finds out afresh how things stand.
That is what makes it simple to read and hard to test: its correctness is about
what may change between two looks at the world.

| Component | State it works on | Operations | What makes it correct | Module |
|---|---|---|---|---|
| tool selection and dispatch (`main.go:36-91`, the tools' switches) with both `Detect` functions | installed hypervisors and tools, descriptors of one call | `discover`, `ready`, `selectOps`, the choice of a method | an adapter is never guessed; no answer rests on an earlier call; capabilities decide what is supported | ProviderSelect |
| image resolution (`resolve.go`) | the catalog, a descriptor | `Resolve`, `pick` | the best variant is chosen; what resolves can be imported | Resolve, ArtifactCatalog |
| image fetching (`fetch.go:55-212, 325-578`) | image cache, directories of extracted boxes | `Fetch` for five channels, `extractBox` | the right image, in the latest release, whole | FetchArtifact, FetchOverCache |
| verified download (`fetch.go:236-306`) | `<dest>` and `<dest>.part` | `fetchHTTPS` | a destination is whole and has the wanted digest | FetchHTTPS, AtomicCache |
| command runner (`provider/runcmd.go`) | a child process, its output, a deadline | `RunCmd` | success is true; every call is answered | RunCmd |
| operation interface (`provider/ops.go`) | what its adapters keep | life cycle of machines | one operation changes one machine, once and as it says, or none; success is true | ProviderContract |
| VMware adapter (`provider/vmware/ops.go`) | directories, `.vmx` files, power states | create, power, clone, import, export, configuration | a configuration is what was set, and is not changed under a running machine | VMwareVMs |
| VirtualBox adapter (`provider/virtualbox/ops.go`) | registered machines, disks | the same, as lists of `VBoxManage` commands | "created" is complete; a listing was true | VirtualBoxVMs |
| network operations of VirtualBox (`virtualbox/ops.go:82-118, 357-386`) | NAT networks, port rules, leases | ensure a network, expose a port, IP | an address was the machine's; a lease is found; what was promised holds | VirtualBoxNet |
| ISO images (`provider/repackiso.go`, `MakeISO`) | ISO files | `RepackISO`, `MakeISO` | the reply names that image, whole; repacking is idempotent | ISOImages |
| HTTP client (`httpclient.go`) | – | dial, with DNS over TCP as a fallback | | not modelled |
| child environment, host file system, MCP SDK, packaging, skills | – | – | | not modelled |

How they interact: a tool call runs `selectOps`, which probes every adapter
(ProviderSelect); `artifact` then resolves (Resolve), fetches (FetchArtifact) and
downloads (FetchHTTPS); the other tools call one method of the adapter (VMwareVMs,
VirtualBoxVMs, VirtualBoxNet, ISOImages), each of which runs commands through `RunCmd`.
The path that `fetch` answers with is what `import` is given later: with VMware a box's
`.vmx` is used where it was extracted, which ties the image cache to running machines.

What is hard here: calls that interleave between a check and the act it guards;
calls that share a file name; commands that take effect and are reported as failed;
operations of several commands that end in the middle; a killed server; cached
files that are stale; probes that time out.

## 2. The modules

**FetchHTTPS** is `fetchHTTPS` one system call at a time. Names point at inodes,
descriptors keep their inode whatever becomes of the name, and each turn of
`io.Copy` writes one block: that is the detail in which two calls for one
destination meet, because the part file's name depends on the destination only.
`overlapped` remembers which calls shared a part file. `serial`, chosen once and for
all, says whether clients fetch one destination at a time: only then is a destination
never torn and the cache atomic. **AtomicCache** is what the
tools on top rely on: a map from destinations to whole payloads that a fetch
updates in one step. `Stored` and `Phase` map the one to the other. A file that is there
and cannot be read to the end is downloaded again (`fetch.go:258` drops that error).

**FetchArtifact** is `Fetch` on top of that atomic cache, one call at a time: the
rule by which each channel names its file (`Dest`), when a file that is there will
do (`Present`: only when there is a digest and it matches), and `extractBox` member
by member. Around it publishers release, users prune, a box imported in place is
written to by its guest. Names are put together as in the code and may be shared: a
fixed URL's is that of its image, and dashes and slashes look the same in a box's. The
file of a member may fail to be closed, which nobody looks at (`fetch.go:519`); `unseen`
remembers for which members of this call. Tags stand for themselves (the code's adding
of a `v` is left out), Ubuntu is its default series (`fetch.go:539-541`; another series
is an image of another name), and a box has two members, the machine file and a disk.
FetchArtifact says for itself what a download does to the cache. In **FetchOverCache**
`Fetch` calls AtomicCache instead and goes on with its reply: that this comes to the
same is what joins the two halves of the fetcher (section 4).

**Resolve** is `Resolve` with `pick`'s loop one turn at a time; **ArtifactCatalog**
is the maintained list, its eight Vagrant boxes as one. A host is a kind of
provider, an architecture and the formats that `Detect` advertises with and without
ovftool.

**ProviderSelect** is `discover` and `selectOps`: VirtualBox's version, its
properties, VMware's vmrun with the tools beside it, then the choice, and then the
action: the method that the tool dispatches to refuses it as unsupported or runs a
program. Both VMware products are one provider, as there is one of them per platform.
`seen` and `missed` remember which hypervisors were there, and were not, at some time
during each call, `came` and `went` the same of ovftool and mkisofs.

**ProviderContract** is what the `Ops` interface promises of any adapter's life cycle
operations, without commands, files or names to be looked up: a call states an intent
(an operation, and the machines that may be meant), changes one of these once and as the
operation says, or nothing, and is answered with "ok" only when it has. After a failure
or a kill the change may have been made. Both adapters implement it. Their mappings differ
where the adapters do. In VirtualBox a machine is there as soon as the first command of
a create has worked, which makes the call `acted`; pressing the power button is an
operation that promises no change. In VMware a name may stand for either `.vmx` in its
directory, and a `.vmx` that is imported is used in place; the contract is about clients
that make one call at a time, since concurrent configurations may make a file anew that
another call has deleted.

**RunCmd** has the child process, the deadline, the client's cancellation, the two
output streams (one flag) and a process that the command leaves behind.

**VMwareVMs** follows every operation that changes a machine through its file
accesses and commands. `path` is what `resolveVMX` found, in the directory that this
platform gives the machine or else in another platform's (`Foreign`; `ops.go:65-71`);
`seen` is what `os.ReadFile` returned; `os.WriteFile` is two steps, because it empties
the file before it writes. The effects of vmrun and ovftool (`StartVM` ... `ImportOVA`)
are external, modelled from how the adapter uses them; any command may fail, may work
and be reported as failed, and goes on when the server is killed (`orphan`).
`told` is the configuration that the replies so far amount to, whatever became of the
file. What the code does not rule out is kept apart from it: `spoilt`, the keys of a
file that may differ from what was told, since a write was cut off after it had emptied
the file or a call wrote what it had read too early; `behind`, the keys that a call
under way does not know, as they were spoilt when it read the file or another call set
them since; `overtaken`, the calls whose machine was started after they had seen it off.
`serial` says, as in FetchHTTPS, whether clients make one call at a time, and none while
a command of a killed server goes on.

**VirtualBoxVMs** has each operation as its list of commands (`Commands`), given up at
the first that fails. `Can`, `NewVM` and `NewMedia` say what VBoxManage needs and does,
and are external; each command is atomic, as VirtualBox's service makes it, and takes
effect, if at all, before the call ends. `was` remembers the states of every machine
during a list, `shared` the creates that were not alone.

**VirtualBoxNet** has the network operations of the same adapter command by command:
`EnsureClusterNetwork` (look, then add), `ExposeGuestPort`, and `IP` with its chain of
Guest Additions, MAC address, networks, leases. Meanwhile networks come and go, leases
move, and the machine is deleted and made anew with another MAC address. `had` and
`sure` remember the addresses that the machine had during a call and the leases it
kept all through it, `promised` what replies said.

**ISOImages** is `RepackISO` and `MakeISO`. An image is its origin and its GRUB
configuration, a sequence of lines of words; `Patched` is the loop over the lines. The
arguments are one text of several words (`Words`), which the code looks for as text,
so that its first and last word may be parts of others (`Holding`), and inserts as a
whole at `Place`. `got` remembers what was added to a line. The
destination is removed and then written by a command, which goes on when the server is
killed (`orphan`), and which keeps writing to a file whose name is gone (`out`).

The `MC` modules give the constants values. Definitions under a comment that begins
with "Mutant:" are plausible slips in the code that `PROJECT.json` substitutes for
the definition that follows them, to see that the named property notices.

## 3. What is checked

| Run | Instance | Shows |
|---|---|---|
| fetch_shared | 2 calls, 1 destination, payloads of 1 and 2 blocks, 3 inodes, serial or not | `AlonePublishesWhole`, `StrayOnlyByKill`, and if serial `NeverTorn`, `ImplementsAtomicCache`; types |
| fetch_artifact | 2 images, one released twice under one name; 2 variants of an image under one name; 1 box for 2 hypervisors | `AnswersWithItsOwn`, `LatestMeansLatest`, `BoxIsWhole`, types |
| resolve | the catalog, every list of up to 3 variants, a box by name, a typo; 3 kinds, 2 architectures | `ResolvedIsUsable`, `PicksBestVariant`, types |
| select_prompt | 1 call, 2 providers, 2 tools, VBoxManage in time | `NeverGuessed`, `AnswersAreFresh`, `CapabilitiesDecide`, types |
| runcmd | 2 invocations, fair | `OkIsTrue`, `EveryCommandReplies`, types (`RunTypeOK`) |
| vmware | 2 machines, one moved here from another platform, 2 keys, 2 values; one call at a time on all of them, or 2 calls on one machine | `ToldIsTrue`, `NotEditedWhileRunning`, and for one call at a time `ImplementsContract`; types |
| vbox | 2 calls, 1 machine and its clones, all operations, failures | `ListIsTrue`, `CreatedIsComplete`, `ImplementsContract`, types |
| vbox_net | 1 call, 3 networks (one of two words), 2 adapters, 1 address, rules that differ in their protocol | `AddressWasTrue`, `LeaseIsFound`, `EnsureWorks`, `PromisesKept`, types |
| iso_images | 2 calls, 2 paths, 2 texts of arguments with words in common, every backend | `ReplyIsTrue`, `AddedOnce`, `KeptIfNothingToAdd`, types |

Runs that end in a violation show where the code does not do what the repository
says of it; each is a finding in `PROJECT.json`.

| Run | What happens |
|---|---|
| fetch_verified | Two calls share a part file: one reports a verified download of a file that the other is still writing. |
| fetch_again | A box fetched again is extracted over the disk of the machine imported in place from it. |
| vmware_create | `Create` reads a `.vmx` that does not exist yet, and so never succeeds. |

### Observations

What the models also show, by their actions or by a change of a run's constants, and
no run of its own is kept for:

* A path that a reply gave may hold another artifact later: KindURL names a file by
  image and format (`fetch.go:145`), which the two variants of `windows-dev` share, and
  the parts of a box's name are joined with dashes (`fetch.go:181`), so that `a/b-c`
  and `a-b/c` are one file. Each reply is true when it is given (`AnswersWithItsOwn`).
* A member of a box whose closing failed, on a full disk say, is answered with as if it
  were whole (`fetch.go:519`): the exception `unseen` in `BoxIsWhole`, `LatestMeansLatest`
  and `AnswersWithItsOwn`. The next fetch of the box mends it.
* `List` says "stopped" of every VirtualBox machine that does not run, a saved one too
  (`virtualbox/ops.go:55-58`), where `provider/ops.go:25` has the word "suspended":
  `Meant` in `ListIsTrue`. Who goes by the listing configures a machine that VirtualBox
  does not let be configured.
* `ensureOff` takes a suspended machine for one that is off (`vmware/ops.go:76`), and
  drops an error of `vmrun list`: with `ListFails` TRUE, `NotEditedWhileRunning` fails.
* A `.vmx` file can lose what earlier replies reported as set (`vmware/ops.go:105`): all
  of it when the server dies, or the disk is full, between emptying and writing; the
  keys of one of two calls that read the file before either wrote it, though both
  report success. `ToldIsTrue` does not say that this cannot happen but which keys it
  can happen to, `spoilt`; and that with one call at a time such a key is missing, never
  an old value. Any other loss violates it.
* A machine that another call starts between a call's look and its write is edited while
  it runs: the condition `overtaken` of `NotEditedWhileRunning`. `Create` may write
  over a machine that another call put there after it looked (`vmware/ops.go:288`).
* A `.vmx` imported under a name is not found by it afterwards
  (`vmware/ops.go:373`).
* With `Slow` TRUE, `NeverGuessed` fails: a VBoxManage that needs more than ten
  seconds counts as not installed (`virtualbox/detect.go:44`), and VMware is chosen
  silently.
* A VirtualBox create that failed between its disk and the attachment leaves a disk
  that delete does not remove, and the next create of that name fails
  (`virtualbox/ops.go:151`). A machine created without a disk has no SATA controller,
  so `attach_iso` fails (`virtualbox/ops.go:146`).
* A process that the command leaves behind and that holds its output keeps `RunCmd`
  waiting beyond any deadline (`runcmd.go:26`): the premise of `EveryCommandReplies`.
* `RepackISO` removes the destination before xorriso has written anything
  (`repackiso.go:79`): when xorriso fails the old image is gone, and with the source as
  destination so is the source. Two calls on one file may leave neither image:
  `ReplyIsTrue` and `KeptIfNothingToAdd` leave out `disturbed` calls.
* It looks for its arguments as one text (`repackiso.go:64`). One that is part of other
  words of a line counts as present. Texts that share words put them on the line twice
  (`autoinstall`, then `autoinstall ds=nocloud`): `AddedOnce` is of whole texts. A text
  with ` ---` inside may be parted by the next insertion and then be added again: the
  condition `Unparted`.
* `hdiutil` adds `.iso` to a path without it, and `MakeISO` removes the path as given:
  a second call of that kind fails on the file of the first (`vmware/ops.go:615`).
* Of two calls that ensure one network, the second to add it fails although the network
  is there (`virtualbox/ops.go:367`): the condition `crossed` of `EnsureWorks`, as `hit`
  is of a list that failed unseen (`virtualbox/ops.go:364`). A network of that name with
  another subnet is accepted. A rule's name lacks the protocol, so one pair of ports
  cannot be exposed for tcp and for udp, nor again after a reply that was lost
  (`virtualbox/ops.go:381`). `IP` takes the first word of a network's name and so never
  searches one whose name has several (`virtualbox/ops.go:101`): `LeaseIsFound` leaves
  these out.
* VirtualBox's `screenshot` works although the capability is not advertised: the
  exception in `CapabilitiesDecide`.

### Bounds, and why they are enough

* Two calls: every hazard of this code is between two of them (they share one file
  name, one machine, one list). Three inodes are what two calls and the old
  destination can hold at once. select_prompt and vbox_net have one call: calls of
  ProviderSelect share nothing but the host, and what another call does to a network is
  what `Elsewhere` and `Remove` do. Where TLC stops at one or two, the theorems hold
  for any number.
* Payloads of different lengths, so that a short body can be written over a longer
  one, which is what truncation is for.
* Two releases of the image whose name stays the same distinguish "latest" from
  "cached". The other artifacts get one. The two variants of `windows-dev` share their
  name with each other, the two boxes their payload.
* Two keys, one that every machine has and one that only a caller sets, distinguish
  replacing a line from adding one; two values tell an update from a repetition.
* In vbox calls name one machine, and only cloning makes another: machines meet in
  `List` alone, which has to tell two apart.
* One machine of vmware may lie in another platform's directory, beside which this
  platform's may be made: where the search for a `.vmx` falls back and where it must not.
* `Settings` bounds what callers set in vmware to one key or both with two values, and
  `Crowded` what two concurrent calls are about to one machine: a race needs two calls
  on one file, and the other machine is what one call at a time clones to.
* `Asked` bounds what is asked of vbox_net to one network and to both kinds of `IP`. Of
  its networks one has a name of two words, the first being another's name. Two
  adapters tell the machine's lease from another's and from its former one; one address
  is enough to move between them.
* The installer in iso_images has a kernel line with a separator, one without, a line
  that is none and an empty one, and words that end like an argument. The two texts have
  words in common and one has a separator inside. Two paths, one with `.iso` and one
  without, make source and destination equal or different and let `hdiutil` write
  another than it was given.
* `MaxVMs` bounds the machines, the lists of variants stop at three variants
  (a class can then be met twice and be beaten by another); ResolveProofs has any
  length.
* `CHECK_DEADLOCK FALSE` only for Resolve and RunCmd, whose behaviours end.

### Fairness

Only RunCmd's `FairRunSpec` is fair: the timer fires, a killed process dies, and goroutines
are scheduled; nothing is assumed of the command. Of a process that it leaves behind,
`EveryCommandReplies` supposes that it does not hold the output for ever. Starting,
cancelling and everything external is never fair.

## 4. What is proved

Thirty-six theorems hold for every value of the
constants that satisfies the assumptions in the modules (`NoneAssumption` keeps the
"none" value, and that of a torn file, apart from the values they stand in for;
`SizeAssumption` gives every payload one block or more and `BoundAssumption` every image
one release or more; `AnyAssumption` keeps the wildcard apart; the others give the
constants their types). Where a theorem has a hypothesis besides, it is named below.
All but one are of properties that a run checks too.

* **FetchHTTPSProofs**: `TypeCorrect`, `AlonePublishes`, `StrayPartsByKill`. The
  property alone is not inductive: it needs that a call that shared its part file
  with nobody *owns* it, that the part name leads to the inode its descriptor
  writes, that no other name or descriptor does, and that the inode holds exactly
  the blocks copied so far (`FileInv`). Each way of changing a name or an inode
  (create, copy, close, rename, remove) has a lemma.
  Then `DestinationsNeverTorn` and `FetchImplementsCache`, of clients that fetch one
  destination at a time (`serial`). The invariant adds that no call overlaps; then only
  a rename changes what a destination names, and what it publishes is the whole body.
  Every step maps to a step of AtomicCache or a stutter.
* **FetchArtifactProofs**: `FetchArtifactTypeOK`, `FetchAnswersWithItsOwn`,
  `LatestIsFetched`, `BoxesAreWhole`. Nothing is supposed of names: any artifacts may
  share one. The invariant says of a call under way that it asked about a release that
  was the latest then (`Asked`), that what it wants is what was published since
  (`Looked`), and that the box it extracts from is that one and the members it is done
  with are the archive's, but for a guest's disk and for those whose closing failed in
  this call (`Boxed`).
  `FetchNeedsTheCacheOnly` is of FetchOverCache: `Fetch` on top of AtomicCache implements
  FetchArtifact. With `FetchImplementsCache`, which says that `fetchHTTPS` is such a cache
  for one fetch at a time, all that is shown of FetchArtifact is so of the two together.
  Its invariant (`OverInv`) is that while `fetchHTTPS` runs, it is about the file and the
  digest that the lookup found. No run checks this one, as a second picture of the same
  system would add none of its own properties; TLC agrees on small instances.
* **ResolveProofs**: `BestVariantPicked`, `ResolveTypeOK`, `ResolvedArtifactIsUsable`.
  The loop invariant says of the variants passed that none is exact and that each
  pointer is to the first of its class; `ExactIsBest` and `LadderIsBest` take it to the
  best fit over all variants. The last theorem has a hypothesis that the code relies on
  and no test states, `KeepsChannel`: no variant overrides its image's channel to or
  from vagrant (`resolve.go:231` asks for the kind of the source).
* **ProviderSelectProofs**: `SelectTypeOK` and `CapabilitiesAlwaysDecide` without any
  condition, `PromptNeverGuesses` and `PromptAnswersAreFresh` assuming that VBoxManage
  answers in time (`~Slow`; without it they fail). The invariant backs every descriptor
  by what was so during the call: "ready" by `seen`, "missing" by `missed`, a
  capability by `came`, the lack of one by `went`. A lemma says that a step of one call
  leaves the invariant of every other alone.
* **VMwareVMsProofs**: `VMwareTypeOK`, `RepliesAddUp`, `RunningAreNotEdited`, for
  clients that make one call at a time and for those that do not. `CallInv` says what a
  call is about by the time that it is where it is. What a file holds is what the
  replies amount to but for its `spoilt` keys (`FileInv`), and what a call has read is
  what they amount to by now but for the keys it is `behind` in (`ReadInv`); both are
  missing, not old, where one call is made at a time. That a running machine is not
  edited needs that whoever starts a machine overtakes the calls that have seen it off
  (`OffInv`), and a hypothesis, `~ListFails`: `ensureOff` drops the error of the list
  (`ops.go:76`), and when that fails the property is false. `VMwareHonorsContract`: for
  clients that make one call at a time the adapter implements ProviderContract. Its
  invariant says that what is not there is off and that a `.vmx` lies in a directory
  (`StoreInv`), that a command is about a machine that was meant (`Asked`), and of a
  call that is alone that what it configures is there and that a create finds no machine
  where it makes its own (`Alone`). One lemma for each kind of step (`AskSeen`,
  `WaySeen`, `CommandSeen`, ...) says what clients see of it, and one for each command
  what it changes (`StartSeen` ... `NewVMSeen`).
* **VirtualBoxNetProofs**: `NetTypeOK`, `AddressesWereTrue`, `LeasesAreFound`,
  `EnsureAlwaysWorks`, `PromisesAreKept`. The properties speak of answers; the invariant
  says of a call on its way what it needs to answer truly. The histories take in the
  present (`Watches`); the MAC address it read was the machine's, and every lease of
  that address was had, also when the machine has another by now (`Knows`); a lease that
  is there all the time is still to be looked for (`Looks`); the network to add is not
  there (`Adds`). Leases are on networks only (`LeasesInNetworks`), which makes a lease
  held all the time a network listed at any time. What the host may do to others' calls
  is one relation (`Moves`), and `OthersKeep` says once that a call which does nothing
  keeps its invariant under it.
* **VirtualBoxVMsProofs**: `VMsTypeOK`, `ListsAreTrue`, `CreatedMachinesAreComplete`. A
  list runs two commands, and what it says of a machine combines both. The invariant:
  the history of a list holds how things are now (`Sees`); a machine that its first
  command named was there, and if it is gone it was stopped before it went (`Finds`),
  since VBoxManage deletes no machine that runs. So a machine that the second command
  does not name was stopped at some time, whether or not it exists by then. A create
  that is alone finds its machine as far as the commands that are left say (`Built`), so
  with none left it is complete; a machine of that name that was there before fails the
  first command.
  `VirtualBoxHonorsContract`: the adapter implements ProviderContract for any number of
  concurrent calls. What it takes besides the types is that a call under way has all
  its commands before it, unless it is a list, or a create that made its machine with
  the first of them (`Plans`): then every other operation changes its machine with its
  only command, and cannot be answered with "ok" without it.
  `RunCmdTypeOK` and `OkCommandsWorked` are of the commands themselves, that is of
  RunCmd, which the same module extends: that the adapter goes on only after a command
  that worked is what RunCmd's "ok" is worth. The invariant says that a process that
  ended well did its work, and that it is looked at only when it can change no more.
* **ISOImagesProofs**: `ISOTypeOK`, `ArgsAddedOnce`, `DestinationKept`, `RepliesAreTrue`.
  Unless another call disturbed it, what a call has read is what its source holds
  (`HasRead`), and once it goes on to remove the destination a line lacks the arguments
  (`HasFound`). What was added to a line and cannot be parted is on it still (`Keeps`): on
  disks, in the lines a call patches and in the image it writes. A later insertion goes
  before the last separator or to the end, so that it leaves the words of an earlier one
  together or comes before them (`StaysTogether`). That needs the last
  separator of a line, which the lemma `LastOf` takes as the maximum of a bounded set by
  well-foundedness. For the replies the invariant follows the image to the disk: what an
  undisturbed call has prepared, and what the command it started is writing, is its
  source with the arguments added to every kernel line (`Aim`), and that command holds
  the file that the path names (`OutInv`), although those that killed servers have left
  may write too.

Left to TLC: liveness (`EveryCommandReplies`), as ENABLED and fairness are out of the
prover's reach; every other property of a passing run is a theorem. No module declares a
RECURSIVE operator, and no theorem needs induction over data.

## 5. What is not modelled

* Parsing of publishers' answers beyond its outcome (an asset, a digest or a box's
  provider entry is found or not), and the wording of replies.
* The HTTP client's dialer: it keeps no state and shares none. For every caller it is a
  sequence of attempts that ends in a connection or an error, and FetchHTTPS and
  FetchArtifact let any request fail at any time.
* `ChildEnv` and `normalizeEnv`: a pure rewriting of environment strings that unit
  tests cover.
* Read-only `show` and VMware's `list` and `ip`; snapshots, guest operations and the
  raw command: each is one command whose state is the hypervisor's, so that a model
  would be of the hypervisor.
* `hostfs`: one system call for the free space of a directory.
* The MCP SDK, which is not in the repository: that it runs calls concurrently is what
  the sets of calls stand for. Packaging, release scripts and the skills' texts are no
  part of the running program.

* What a VBoxManage still does after its call has ended, by its deadline or with its
  server: VirtualBoxVMs has a command take effect before the reply or never.
* Channel overrides in the catalog, which has none: `KeepsChannel` in section 4.

The guest and the hypervisors appear only through what the adapters' commands need
and do.

## 6. Plan

Done, in this order: FetchHTTPS with AtomicCache and its proofs; VMwareVMs; Resolve
with ArtifactCatalog and its proofs; FetchArtifact; ProviderSelect with its proofs;
VirtualBoxVMs with its proofs; RunCmd with its proofs; ISOImages with its proofs;
VirtualBoxNet with its proofs; the proofs of VMwareVMs and of FetchArtifact;
ProviderContract, implemented by both adapters; Fetch on top of AtomicCache.

Next:

1. Concurrent fetches of one box, which extract over each other: FetchArtifact has one
   call at a time.
2. A contract for concurrent calls that VMware honors too: what a configuration does to
   a machine deleted meanwhile, and a create to one made meanwhile, would be outcomes of
   their own.
