----------------------------- MODULE VMwareVMs -----------------------------
(***************************************************************************)
(* The VMware adapter (provider/vmware/ops.go): virtual machines are .vmx  *)
(* files in directories named after them, and every operation is a         *)
(* sequence of file accesses and vmrun or ovftool commands with no lock    *)
(* around it.  Concurrent tool calls interleave between any two of them,   *)
(* a command may take effect and still be reported as failed (RunCmd's     *)
(* timeout kills the client, not the hypervisor), and the server may be    *)
(* killed.                                                                 *)
(*                                                                         *)
(* vmrun, ovftool and vmware-vdiskmanager are modelled from how the        *)
(* adapter uses them.  A configuration maps keys, spelled without case, to *)
(* values; the order and the quoting of lines are left out.                *)
(***************************************************************************)
EXTENDS Naturals, FiniteSets

CONSTANTS Call,      \* identities of concurrent tool calls
          VM,        \* names of virtual machines
          Key,       \* keys of a .vmx file
          Value,     \* their values
          Settings,  \* bound: what callers set, functions from keys to values
          Image,     \* the configuration that a cloned or imported machine has
          Foreign,   \* .vmx files that were there before, in another platform's layout
          Target,    \* the names and paths that callers use
          Crowded,   \* bound: those that concurrent calls use
          ListFails, \* whether "vmrun list" may fail
          MaxVMs,    \* bound: machines there is room for
          None       \* no value, no machine, no reply

\* <name>.vmx and the .vmx an import brought, in the directory <name> (<name>.vmwarevm
\* on macOS), and a .vmx in the directory that another platform calls <name>.
Path == VM \X {"own", "image", "foreign"}
Bundle(p) == <<p[1], IF p[2] = "foreign" THEN "foreign" ELSE "native">>
Config == [Key -> Value \cup {None}]
Pairs == UNION {[K -> Value] : K \in SUBSET Key \ {{}}}
Empty == [k \in Key |-> None]

ASSUME SettingsAssumption == Settings \subseteq Pairs
ASSUME ImageAssumption == Image \in Config \ {Empty}
ASSUME ForeignAssumption == Foreign \subseteq {p \in Path : p[2] = "foreign"}
ASSUME TargetAssumption == Target \subseteq VM \cup Path /\ Crowded \subseteq Target
ASSUME ListAssumption == ListFails \in BOOLEAN
ASSUME BoundAssumption == MaxVMs \in Nat
ASSUME NoneAssumption == None \notin Value \cup VM \cup Path

VARIABLES
  \* the virtual machine store and the hypervisor
  bundle,   \* directories of machines
  exists,   \* .vmx files
  content,  \* what each of them says
  power,    \* "off", "on" or "suspended"
  \* the tool calls
  pc,
  job,      \* the operation and its arguments
  path,     \* the .vmx file that resolveVMX found
  seen,     \* what os.ReadFile returned
  reply,
  \* the clients
  serial,   \* whether they make one call at a time, and none while a command of a server
            \* that was killed goes on; never changes
  \* history
  told,     \* the configuration the replies so far amount to
  behind,   \* keys of which a call has read something else than what was told since
  spoilt,   \* keys of a .vmx that were emptied, or written by a call behind in them
  overtaken \* calls whose machine was started after they saw it off

store == <<bundle, exists, content, power>>
history == <<told, behind, spoilt, overtaken>>
host == <<store, history>>
vars == <<store, pc, job, path, seen, reply, serial, history>>

PowerOps == {"start", "stop", "suspend", "reset", "delete"}

Jobs ==
  [op : PowerOps \cup {"export"}, vm : Target]
  \cup [op : {"clone"}, vm : Target, dest : VM]
  \cup [op : {"configure"}, vm : Target, pairs : Settings]
  \cup [op : {"create"}, vm : Target \cap VM, pairs : Settings]
  \cup [op : {"import"}, vm : Target \cap VM, format : {"ova", "vmx"}]

\* A store may have been moved here from another platform.
Init == /\ bundle = {Bundle(p) : p \in Foreign}
        /\ exists = Foreign
        /\ content = [p \in Path |-> IF p \in Foreign THEN Image ELSE Empty]
        /\ power = [p \in Path |-> "off"]
        /\ serial \in BOOLEAN
        /\ told = content
        /\ behind = [c \in Call |-> {}]
        /\ spoilt = [p \in Path |-> {}]
        /\ overtaken = {}
        /\ pc = [c \in Call |-> "idle"]
        /\ job = [c \in Call |-> None]
        /\ path = [c \in Call |-> None]
        /\ seen = [c \in Call |-> Empty]
        /\ reply = [c \in Call |-> None]

GoTo(c, from, to) == pc[c] = from /\ pc' = [pc EXCEPT ![c] = to]

Return(c, answer) == /\ pc' = [pc EXCEPT ![c] = "done"]
                     /\ reply' = [reply EXCEPT ![c] = answer]
                     /\ path' = [path EXCEPT ![c] = None]
                     /\ seen' = [seen EXCEPT ![c] = Empty]
                     /\ UNCHANGED job

Found(dir) == {p \in exists : Bundle(p) = dir}
OnlyOne(dir) == Cardinality(Found(dir)) = 1
TheOne(dir) == CHOOSE p \in Found(dir) : TRUE

\* A path stands for itself; a name for the one .vmx file in its directory, or else for
\* the one in the directory that another platform would have it in.
Resolve(vm) == IF vm \in Path THEN vm
               ELSE IF OnlyOne(<<vm, "native">>) THEN TheOne(<<vm, "native">>)
               ELSE IF OnlyOne(<<vm, "foreign">>) THEN TheOne(<<vm, "foreign">>)
               ELSE None

Merge(old, pairs) == [k \in Key |-> IF k \in DOMAIN pairs THEN pairs[k] ELSE old[k]]

\* Names and paths that a job is about.
About(j) == {j.vm} \cup (IF j.op = "clone" THEN {j.dest} ELSE {})

Begin(c, j) == /\ GoTo(c, "idle", "start")
               /\ IF serial THEN \A d \in Call : pc[d] = "idle" ELSE About(j) \subseteq Crowded
               /\ job' = [job EXCEPT ![c] = j]
               /\ UNCHANGED <<host, path, seen, reply>>

\* The calls that are between reading and writing p.
Editing(p) == {c \in Call : path[c] = p /\ pc[c] \in {"truncate", "write"}}

\* c has made or deleted p: whoever has read it is behind in all of it.
Changed(c, p) == /\ behind' = [d \in Call |-> IF d \in Editing(p) \ {c} THEN Key ELSE behind[d]]
                 /\ spoilt' = [spoilt EXCEPT ![p] = {}]
                 /\ UNCHANGED overtaken

\* No provider is ready, an argument is missing, an ISO file is not there, the
\* provider lacks the capability, or no directory can be made: nothing was done.
Refuse(c) == pc[c] = "start" /\ Return(c, "failed") /\ UNCHANGED host
-----------------------------------------------------------------------------
(* What the hypervisor's commands do to the store.                         *)

StartVM(p) == /\ p \in exists /\ content[p] # Empty /\ power[p] # "on"
              /\ power' = [power EXCEPT ![p] = "on"]
              /\ overtaken' = overtaken \cup {d \in Call : /\ path[d] = p
                                                        /\ pc[d] \in {"read", "truncate", "write"}}
              /\ UNCHANGED <<bundle, exists, content, told, behind, spoilt>>

PowerTo(p, state) == /\ power[p] = "on"
                     /\ power' = [power EXCEPT ![p] = state]
                     /\ UNCHANGED <<bundle, exists, content, history>>

ResetVM(p) == power[p] = "on" /\ UNCHANGED host

DeleteVM(c, p) == /\ p \in exists /\ power[p] # "on"
                  /\ exists' = exists \ {p}
                  /\ bundle' = IF Found(Bundle(p)) = {p} THEN bundle \ {Bundle(p)} ELSE bundle
                  /\ power' = [power EXCEPT ![p] = "off"]
                  /\ content' = [content EXCEPT ![p] = Empty]
                  /\ told' = [told EXCEPT ![p] = Empty]
                  /\ Changed(c, p)

\* A machine appears at p with the configuration conf.
NewVM(c, p, conf) == /\ p \notin exists /\ Cardinality(exists) < MaxVMs
                     /\ conf # Empty
                     /\ exists' = exists \cup {p}
                     /\ bundle' = bundle \cup {Bundle(p)}
                     /\ content' = [content EXCEPT ![p] = conf]
                     /\ told' = [told EXCEPT ![p] = conf]
                     /\ Changed(c, p)
                     /\ UNCHANGED power

CloneVM(c, p, v) == /\ p \in exists /\ power[p] = "off"
                    /\ NewVM(c, <<v, "own">>, content[p])

ImportOVA(c, v) == NewVM(c, <<v, "image">>, Image)

Effect(c) == LET j == job[c] p == path[c] IN
             \/ j.op = "start" /\ StartVM(p)
             \/ j.op = "stop" /\ PowerTo(p, "off")
             \/ j.op = "suspend" /\ PowerTo(p, "suspended")
             \/ j.op = "reset" /\ ResetVM(p)
             \/ j.op = "delete" /\ DeleteVM(c, p)
             \/ j.op = "clone" /\ CloneVM(c, p, j.dest)
             \/ j.op = "import" /\ ImportOVA(c, j.vm)
             \/ j.op = "export" /\ UNCHANGED host

\* Mutant: the error of the command is dropped.
CommandUnseen(c) == /\ pc[c] = "command"
                    /\ Effect(c) \/ UNCHANGED host
                    /\ Return(c, "ok")

\* The last step of an operation that is one command: it works, it fails, or
\* it works and is reported as failed.
Command(c) == /\ pc[c] = "command"
              /\ \/ Effect(c) /\ \E answer \in {"ok", "failed"} : Return(c, answer)
                 \/ UNCHANGED host /\ Return(c, "failed")
-----------------------------------------------------------------------------
(* The operations up to their last command.                                *)

\* Mutant: the name is handed to vmrun as it is.
ResolvedByName(c, to) == /\ GoTo(c, "start", to)
                         /\ Resolve(job[c].vm) # None
                         /\ path' = [path EXCEPT ![c] = job[c].vm]
                         /\ UNCHANGED <<host, job, seen, reply>>

Resolved(c, to) == LET p == Resolve(job[c].vm) IN
                   /\ GoTo(c, "start", to)
                   /\ p # None
                   /\ path' = [path EXCEPT ![c] = p]
                   /\ UNCHANGED <<host, job, seen, reply>>

NotFound(c) == /\ pc[c] = "start"
               /\ job[c].op \notin {"create", "import"}
               /\ Resolve(job[c].vm) = None
               /\ Return(c, "failed") /\ UNCHANGED host

Power(c) == pc[c] = "start" /\ job[c].op \in PowerOps /\ Resolved(c, "command")

Clone(c) == pc[c] = "start" /\ job[c].op = "clone" /\ Resolved(c, "mkdir")

\* ExportOVA and configure look at the list of running machines first.
Configure(c) == /\ pc[c] = "start" /\ job[c].op \in {"configure", "export"}
                /\ Resolved(c, "list")

\* A .vmx file is used where it lies, whatever name was given.
ImportInPlace(c) == /\ pc[c] = "start" /\ job[c].op = "import" /\ job[c].format = "vmx"
                    /\ Return(c, "ok") /\ UNCHANGED host

ImportImage(c) == /\ pc[c] = "start" /\ job[c].op = "import" /\ job[c].format = "ova"
                  /\ GoTo(c, "start", "command")
                  /\ UNCHANGED <<host, job, path, seen, reply>>

\* os.Stat of the bundle.
Create(c) == /\ pc[c] = "start" /\ job[c].op = "create"
             /\ IF <<job[c].vm, "native">> \in bundle
                THEN Return(c, "failed")
                ELSE /\ GoTo(c, "start", "mkdir")
                     /\ UNCHANGED <<job, path, seen, reply>>
             /\ UNCHANGED host

\* os.MkdirAll: that the directory is there already is no error.
MakeBundle(c) ==
  LET v == IF job[c].op = "clone" THEN job[c].dest ELSE job[c].vm
  IN  /\ GoTo(c, "mkdir", IF job[c].op = "clone" THEN "command" ELSE "disk")
      /\ bundle' = bundle \cup {<<v, "native">>}
      /\ UNCHANGED <<exists, content, power, history, job, path, seen, reply>>

MakeDisk(c) == /\ GoTo(c, "disk", "read")
               /\ path' = [path EXCEPT ![c] = <<job[c].vm, "own">>]
               /\ UNCHANGED <<host, job, seen, reply>>

MakeDiskFails(c) == pc[c] = "disk" /\ Return(c, "failed") /\ UNCHANGED host

\* Mutant: ensureOff is not called.
EnsureNothing(c) == /\ GoTo(c, "list", IF job[c].op = "export" THEN "command" ELSE "read")
                    /\ UNCHANGED <<host, job, path, seen, reply>>

\* A machine in the list is running; the error of the command is dropped.
EnsureOff(c) ==
  /\ pc[c] = "list"
  /\ \/ /\ power[path[c]] # "on" \/ ListFails
        /\ GoTo(c, "list", IF job[c].op = "export" THEN "command" ELSE "read")
        /\ UNCHANGED <<job, path, seen, reply>>
     \/ power[path[c]] = "on" /\ Return(c, "failed")
  /\ UNCHANGED host

(* setVMXKeys: read the file, change the keys, write it back.              *)

GiveUp(c) == /\ behind' = [behind EXCEPT ![c] = {}]
             /\ overtaken' = overtaken \ {c}
             /\ UNCHANGED <<store, told, spoilt>>

\* Mutant: the keys are written to an empty file.
ReadNothing(c) == /\ GoTo(c, "read", "truncate")
                  /\ behind' = [behind EXCEPT ![c] = spoilt[path[c]]]
                  /\ UNCHANGED <<store, told, spoilt, overtaken, job, path, seen, reply>>

ReadVMX(c) == /\ GoTo(c, "read", "truncate")
              /\ path[c] \in exists
              /\ seen' = [seen EXCEPT ![c] = content[path[c]]]
              /\ behind' = [behind EXCEPT ![c] = spoilt[path[c]]]
              /\ UNCHANGED <<store, told, spoilt, overtaken, job, path, reply>>

ReadVMXFails(c) == /\ pc[c] = "read" /\ path[c] \notin exists
                   /\ Return(c, "failed") /\ GiveUp(c)

\* os.WriteFile opens the file: it is created if need be, and empty.
Truncate(c) == LET p == path[c] IN
               /\ GoTo(c, "truncate", "write")
               /\ Bundle(p) \in bundle
               /\ exists' = exists \cup {p}
               /\ content' = [content EXCEPT ![p] = Empty]
               /\ spoilt' = [spoilt EXCEPT ![p] = Key]
               /\ UNCHANGED <<bundle, power, told, behind, overtaken, job, path, seen, reply>>

TruncateFails(c) == pc[c] = "truncate" /\ Return(c, "failed") /\ GiveUp(c)

\* A file deleted since it was opened is written to no avail; one made anew since is
\* taken for it.  Keys that c sets are as they should be, the others if it was not behind.
Write(c) == LET p == path[c] set == DOMAIN job[c].pairs IN
            /\ pc[c] = "write"
            /\ IF p \in exists
               THEN /\ content' = [content EXCEPT ![p] = Merge(seen[c], job[c].pairs)]
                    /\ told' = [told EXCEPT ![p] = Merge(told[p], job[c].pairs)]
                    /\ spoilt' = [spoilt EXCEPT ![p] = behind[c] \ set]
                    /\ behind' = [d \in Call |-> IF d = c THEN {}
                                               ELSE IF d \in Editing(p) THEN behind[d] \cup set
                                               ELSE behind[d]]
               ELSE /\ behind' = [behind EXCEPT ![c] = {}]
                    /\ UNCHANGED <<content, told, spoilt>>
            /\ overtaken' = overtaken \ {c}
            /\ Return(c, "ok")
            /\ UNCHANGED <<bundle, exists, power>>

\* What was in the file is gone.
WriteFails(c) == pc[c] = "write" /\ Return(c, "failed") /\ GiveUp(c)

Reset(c) == /\ pc' = [pc EXCEPT ![c] = "idle"]
            /\ job' = [job EXCEPT ![c] = None]
            /\ path' = [path EXCEPT ![c] = None]
            /\ seen' = [seen EXCEPT ![c] = Empty]
            /\ reply' = [reply EXCEPT ![c] = None]

TakeReply(c) == pc[c] = "done" /\ Reset(c) /\ UNCHANGED host

\* The server dies; a command that it has started goes on without it.
Kill(c) == /\ \/ pc[c] \notin {"idle", "command", "orphan", "done"} /\ Reset(c)
              \/ GoTo(c, "command", "orphan") /\ UNCHANGED <<job, path, seen, reply>>
           /\ GiveUp(c)

EndAlone(c) == /\ pc[c] = "orphan"
               /\ Effect(c) \/ UNCHANGED host
               /\ Reset(c)

Step(c) == \/ Refuse(c) \/ NotFound(c)
           \/ Power(c) \/ Clone(c) \/ Configure(c) \/ Create(c)
           \/ ImportInPlace(c) \/ ImportImage(c) \/ Command(c)
           \/ MakeBundle(c) \/ MakeDisk(c) \/ MakeDiskFails(c)
           \/ EnsureOff(c)
           \/ ReadVMX(c) \/ ReadVMXFails(c)
           \/ Truncate(c) \/ TruncateFails(c) \/ Write(c) \/ WriteFails(c)
           \/ TakeReply(c) \/ Kill(c) \/ EndAlone(c)

Next == /\ \E c \in Call : Step(c) \/ \E j \in Jobs : Begin(c, j)
        /\ UNCHANGED serial

Spec == Init /\ [][Next]_vars
-----------------------------------------------------------------------------
TypeOK == /\ bundle \subseteq VM \X {"native", "foreign"}
          /\ exists \subseteq Path
          /\ content \in [Path -> Config]
          /\ power \in [Path -> {"off", "on", "suspended"}]
          /\ serial \in BOOLEAN
          /\ told \in [Path -> Config] /\ spoilt \in [Path -> SUBSET Key]
          /\ behind \in [Call -> SUBSET Key] /\ overtaken \subseteq Call
          /\ pc \in [Call -> {"idle", "start", "mkdir", "disk", "list", "read", "truncate",
                              "write", "command", "orphan", "done"}]
          /\ job \in [Call -> Jobs \cup {None}]
          /\ path \in [Call -> Path \cup {None}]
          /\ seen \in [Call -> Config]
          /\ reply \in [Call -> {"ok", "failed", None}]

Edited(p) == {p} \subseteq exists \cap exists' /\ content'[p] # content[p]

\* "VM is running - power it off first" (ops.go:75-80): the configuration of a
\* machine that runs is not changed under it, but for a machine that another call
\* started after the call that changes it had seen it off, and for one that another
\* call put where Create, which has seen no directory there, is making one.
NotEditedWhileRunning ==
  [][\A p \in Path : Edited(p) /\ power[p] = "on" =>
       \E c \in Editing(p) : c \in overtaken \/ job[c].op = "create"]_vars

\* Each key of a .vmx file is what the replies amount to: "set k=v" is in the file, and
\* so is what was there before (ops.go:85-106, 404-420), but for keys that are spoilt.  A
\* write that is cut off, by a kill or an error, once it has emptied the file spoils them
\* all; a write spoils those that other calls set, and those that were spoilt, by the time
\* it read the file or since.  A key that is set again is as told again.  Where one call is
\* made at a time a spoilt key is missing, and never has an earlier value.
ToldIsTrue == \A p \in exists, k \in Key :
                content[p][k] # told[p][k] =>
                  k \in spoilt[p] /\ (serial => content[p][k] = None)

\* "methods a provider cannot honor return ErrUnsupported" (provider/ops.go:47-48):
\* once its directory and its disk are made, creating a machine works.
CreateWorks ==
  [][\A c \in Call : pc[c] = "read" /\ job[c].op = "create" => reply'[c] # "failed"]_vars

\* The machines that a name or a path may stand for.
Named(n) == {p \in Path : p = n \/ p[1] = n}

\* What a caller asks for when it asks for j.
Intended(j) == [op |-> IF j.op = "import" /\ j.format = "vmx" THEN "use in place" ELSE j.op,
                of |-> Named(IF j.op = "clone" THEN j.dest ELSE j.vm)]

\* VMRef.State.
RefState(p) == IF p \notin exists THEN "absent"
               ELSE CASE power[p] = "off" -> "stopped"
                      [] power[p] = "on" -> "running"
                      [] OTHER -> "suspended"

\* Create fails before it makes a machine (CreateWorks), so that no call changes a
\* machine earlier than it answers.
Phase(c) == IF pc[c] \in {"idle", "done"} THEN pc[c] ELSE "asked"

\* Of clients that do not wait for each other nothing is shown.
Contract == INSTANCE ProviderContract WITH
              Machine <- Path,
              Intent <- {Intended(j) : j \in Jobs},
              state  <- [p \in Path |-> IF serial THEN RefState(p) ELSE "absent"],
              phase  <- [c \in Call |-> IF serial THEN Phase(c) ELSE "idle"],
              intent <- [c \in Call |-> IF serial /\ pc[c] # "idle"
                                        THEN Intended(job[c]) ELSE None],
              answer <- [c \in Call |-> IF serial THEN reply[c] ELSE None]

\* "The neutral operation surface" (provider/ops.go:45-48), for clients that make one
\* call at a time: an operation changes one of the machines that its name may stand
\* for, once, as its name says, or nothing; "ok" says that it did.  Of concurrent calls
\* it fails: setVMXKeys writes a .vmx file that another call has deleted since it was
\* read (ops.go:85-106), and so makes a machine.
ImplementsContract == Contract!Spec
=============================================================================
