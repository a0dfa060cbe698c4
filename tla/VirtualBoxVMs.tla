--------------------------- MODULE VirtualBoxVMs ---------------------------
(***************************************************************************)
(* The VirtualBox adapter (provider/virtualbox/ops.go): every operation is *)
(* a list of VBoxManage commands, given up at the first that fails.        *)
(* VirtualBox makes each command atomic; nothing makes a list of them so.  *)
(* A command may fail for reasons of its own, or work and be reported as   *)
(* failed (RunCmd's timeout), calls interleave between commands, and the   *)
(* server may be killed.                                                   *)
(*                                                                         *)
(* VBoxManage is modelled from how the adapter uses it.                    *)
(***************************************************************************)
EXTENDS Naturals, Sequences

CONSTANTS Call,   \* identities of concurrent tool calls
          VM,     \* names of virtual machines
          Target, \* those that calls are about; clones may have other names
          CPUs,   \* numbers of CPUs that callers ask for
          None    \* no machine, no job, no disk, no reply

ASSUME TargetAssumption == Target \subseteq VM

VARIABLES
  vm,     \* the registered machines
  media,  \* names whose <name>/<name>.vdi exists
  \* the tool calls
  job,    \* the operation and its arguments
  todo,   \* the commands that are left
  names,  \* what "list vms" printed
  listed, \* the answer of List: name |-> state
  reply,
  \* history
  was,    \* states every machine was in during a list
  shared  \* creates that were not alone all the time

host == <<vm, media>>
vars == <<vm, media, job, todo, names, listed, reply, was, shared>>

Machine == [power : {"on", "off", "saved"}, cpus : CPUs \cup {None}, sata : BOOLEAN,
            disk : {"own", "image", None}]
New == [power |-> "off", cpus |-> None, sata |-> FALSE, disk |-> None]
Image == [power |-> "off", cpus |-> None, sata |-> TRUE, disk |-> "image"]

Jobs == [op : {"create"}, vm : Target, cpus : CPUs, disk : BOOLEAN]
        \cup [op : {"resources"}, vm : Target, cpus : CPUs]
        \cup [op : {"clone"}, vm : Target, dest : VM]
        \cup [op : {"stop"}, vm : Target, hard : BOOLEAN]
        \cup [op : {"start", "suspend", "reset", "delete", "import",
                    "export", "attach_iso"}, vm : Target]
        \cup [op : {"list"}]

ASSUME NoneAssumption == /\ None \notin CPUs /\ None \notin Machine /\ None \notin Jobs
                         /\ None \notin {"ok", "failed"}

Commands(j) ==
  CASE j.op = "create" -> <<"createvm", "modifyvm">>
                          \o IF j.disk THEN <<"storagectl", "createmedium", "storageattach">>
                             ELSE <<>>
    [] j.op = "stop" -> <<IF j.hard THEN "poweroff" ELSE "acpipowerbutton">>
    [] j.op = "list" -> <<"list vms", "list runningvms">>
    [] OTHER -> <<j.op>>

Init == /\ vm = [v \in VM |-> None]
        /\ media = {}
        /\ job = [c \in Call |-> None]
        /\ todo = [c \in Call |-> <<>>]
        /\ names = [c \in Call |-> {}]
        /\ listed = [c \in Call |-> <<>>]
        /\ reply = [c \in Call |-> None]
        /\ was = [c \in Call |-> [v \in VM |-> {}]]
        /\ shared = {}
-----------------------------------------------------------------------------
(* VBoxManage: what a command needs, and what it does.                     *)

Exists(v) == vm[v] # None
IsOn(v) == Exists(v) /\ vm[v].power = "on"
IsOff(v) == Exists(v) /\ vm[v].power = "off"

Can(cmd, j) ==
  CASE cmd \in {"createvm", "import"} -> ~Exists(j.vm)
    [] cmd \in {"modifyvm", "resources"} -> IsOff(j.vm)
    [] cmd = "storagectl" -> IsOff(j.vm) /\ ~vm[j.vm].sata
    [] cmd = "createmedium" -> j.vm \notin media
    [] cmd = "storageattach" -> IsOff(j.vm) /\ vm[j.vm].sata /\ j.vm \in media
    [] cmd = "attach_iso" -> IsOff(j.vm) /\ vm[j.vm].sata
    [] cmd \in {"poweroff", "acpipowerbutton", "suspend", "reset"} -> IsOn(j.vm)
    [] cmd \in {"start", "delete"} -> Exists(j.vm) /\ ~IsOn(j.vm)
    [] cmd = "clone" -> IsOff(j.vm) /\ ~Exists(j.dest)
    [] cmd = "export" -> IsOff(j.vm)
    [] OTHER -> TRUE

\* unregistervm --delete removes the disks that are attached.
NewMedia(cmd, j) ==
  CASE cmd = "createmedium" -> media \cup {j.vm}
    [] cmd = "delete" /\ vm[j.vm].disk = "own" -> media \ {j.vm}
    [] OTHER -> media

NewVM(cmd, j) ==
  CASE cmd = "createvm" -> [vm EXCEPT ![j.vm] = New]
    [] cmd = "import" -> [vm EXCEPT ![j.vm] = Image]
    [] cmd \in {"modifyvm", "resources"} -> [vm EXCEPT ![j.vm].cpus = j.cpus]
    [] cmd = "storagectl" -> [vm EXCEPT ![j.vm].sata = TRUE]
    [] cmd = "storageattach" -> [vm EXCEPT ![j.vm].disk = "own"]
    [] cmd = "start" -> [vm EXCEPT ![j.vm].power = "on"]
    [] cmd = "poweroff" -> [vm EXCEPT ![j.vm].power = "off"]
    [] cmd = "suspend" -> [vm EXCEPT ![j.vm].power = "saved"]
    [] cmd = "delete" -> [vm EXCEPT ![j.vm] = None]
    [] cmd = "clone" -> [vm EXCEPT ![j.dest] = [vm[j.vm] EXCEPT !.disk =
                            IF @ = None THEN None ELSE "image"]]
    [] OTHER -> vm

\* VMRef.State (provider/ops.go:25), as a machine is.
RefState(v) == IF ~Exists(v) THEN "absent"
               ELSE CASE vm[v].power = "on" -> "running"
                      [] vm[v].power = "off" -> "stopped"
                      [] OTHER -> "suspended"

\* A list under way remembers the states that machines come to be in, a create
\* whether there was another call.
Remember ==
  LET active == {c \in Call : job'[c] # None}
      Active(op) == {c \in active : job'[c].op = op}
  IN  /\ was' = [c \in Call |-> [v \in VM |->
                  IF c \in Active("list") /\ reply'[c] = None
                  THEN was[c][v] \cup {RefState(v)'} ELSE {}]]
      /\ shared' = {c \in Active("create") : c \in shared \/ active # {c}}

\* The guest follows the power button, or shuts down by itself.
GuestOff(v) == /\ IsOn(v)
               /\ vm' = [vm EXCEPT ![v].power = "off"]
               /\ UNCHANGED <<media, job, todo, names, listed, reply>>
               /\ Remember

Effect(cmd, j) == vm' = NewVM(cmd, j) /\ media' = NewMedia(cmd, j)
-----------------------------------------------------------------------------
(* The adapter.                                                            *)

Begin(c, j) == /\ job[c] = None
               /\ job' = [job EXCEPT ![c] = j]
               /\ todo' = [todo EXCEPT ![c] = Commands(j)]
               /\ UNCHANGED <<host, names, listed, reply>>
               /\ Remember

Return(c, answer, list) == /\ todo' = [todo EXCEPT ![c] = <<>>]
                           /\ listed' = [listed EXCEPT ![c] = list]
                           /\ reply' = [reply EXCEPT ![c] = answer]
                           /\ UNCHANGED <<job, names>>

Continue(c, found) == /\ todo' = [todo EXCEPT ![c] = Tail(@)]
                      /\ names' = [names EXCEPT ![c] = found]
                      /\ UNCHANGED <<job, listed, reply>>

\* Mutant: a machine that does not run is given VirtualBox's word for its state.
ListingRaw(c, running) ==
  [v \in names[c] |-> IF v \in running THEN "running" ELSE "poweroff"]

\* List joins the names of all machines with those that run.
Listing(c, running) ==
  [v \in names[c] |-> IF v \in running THEN "running" ELSE "stopped"]

Succeeded(c, cmd) ==
  CASE cmd = "list vms" -> Continue(c, {v \in VM : Exists(v)})
    [] cmd = "list runningvms" -> Return(c, "ok", Listing(c, {v \in VM : IsOn(v)}))
    [] OTHER -> IF Len(todo[c]) = 1 THEN Return(c, "ok", <<>>) ELSE Continue(c, {})

CommandWorks(c) == /\ todo[c] # <<>>
                   /\ LET cmd == Head(todo[c]) IN
                      Can(cmd, job[c]) /\ Effect(cmd, job[c]) /\ Succeeded(c, cmd)
                   /\ Remember

\* Mutant: the error of a command is dropped.
FailureUnseen(c) == /\ todo[c] # <<>>
                    /\ IF Len(todo[c]) > 1 THEN Continue(c, {})
                       ELSE Return(c, "ok", Listing(c, {}))
                    /\ UNCHANGED host
                    /\ Remember

CommandFails(c) == /\ todo[c] # <<>>
                   /\ Return(c, "failed", <<>>) /\ UNCHANGED host
                   /\ Remember

\* The command outlasts RunCmd's timeout and works all the same.
CommandTimesOut(c) == /\ todo[c] # <<>>
                      /\ LET cmd == Head(todo[c]) IN
                         Can(cmd, job[c]) /\ Effect(cmd, job[c])
                      /\ Return(c, "failed", <<>>)
                      /\ Remember

Reset(c) == /\ job' = [job EXCEPT ![c] = None]
            /\ todo' = [todo EXCEPT ![c] = <<>>]
            /\ names' = [names EXCEPT ![c] = {}]
            /\ listed' = [listed EXCEPT ![c] = <<>>]
            /\ reply' = [reply EXCEPT ![c] = None]
            /\ UNCHANGED host
            /\ Remember

TakeReply(c) == reply[c] # None /\ Reset(c)

Kill(c) == job[c] # None /\ reply[c] = None /\ Reset(c)

Next == \/ \E c \in Call :
             \/ \E j \in Jobs : Begin(c, j)
             \/ CommandWorks(c) \/ CommandFails(c) \/ CommandTimesOut(c)
             \/ TakeReply(c) \/ Kill(c)
        \/ \E v \in VM : GuestOff(v)

Spec == Init /\ [][Next]_vars
-----------------------------------------------------------------------------
CommandNames == {"createvm", "modifyvm", "storagectl", "createmedium", "storageattach",
                 "list vms", "list runningvms", "poweroff", "acpipowerbutton",
                 "resources", "clone", "start", "suspend", "reset", "delete", "import",
                 "export", "attach_iso"}

TypeOK == /\ vm \in [VM -> Machine \cup {None}]
          /\ media \subseteq VM
          /\ job \in [Call -> Jobs \cup {None}]
          /\ \A c \in Call : todo[c] \in Seq(CommandNames)
          /\ names \in [Call -> SUBSET VM]
          /\ \A c \in Call : listed[c] \in [DOMAIN listed[c] -> {"running", "stopped"}]
          /\ reply \in [Call -> {"ok", "failed", None}]
          /\ was \in [Call -> [VM -> SUBSET {"absent", "running", "stopped", "suspended"}]]
          /\ shared \subseteq Call

Answers(c, op) == job[c] # None /\ job[c].op = op /\ reply[c] = None /\ reply'[c] # None

\* "created %s: %d CPU, ..., %dGB disk on SATA:0" (ops.go:143-160): when create
\* says so to a caller that is alone, the machine has the CPUs and the disk that
\* were asked for, however often creating it failed or was killed before.
CreatedIsComplete ==
  [][\A c \in Call \ shared : Answers(c, "create") /\ reply'[c] = "ok" =>
       vm'[job[c].vm] = [power |-> "off", cpus |-> job[c].cpus, sata |-> job[c].disk,
                         disk |-> IF job[c].disk THEN "own" ELSE None]]_vars

\* List calls every machine that does not run "stopped", a suspended one too, although
\* VMRef.State has a word for that (provider/ops.go:25).
Meant(word) == IF word = "stopped" THEN {"stopped", "suspended"} ELSE {word}

\* List asks twice and joins by name (ops.go:42-62): whatever happens between the two
\* commands, a machine that it calls running was running at some time during the call,
\* one that it calls stopped was stopped or suspended at some time, and one that it leaves
\* out was not there at some time.
ListIsTrue ==
  [][\A c \in Call : Answers(c, "list") /\ reply'[c] = "ok" =>
       \A v \in VM : Meant(IF v \in DOMAIN listed'[c] THEN listed'[c][v] ELSE "absent")
                      \cap was[c][v] # {}]_vars

\* What a caller asks for when it asks for j; the guest may ignore a power button.
Intended(j) == [op |-> IF j.op = "stop" /\ ~j.hard THEN "press button" ELSE j.op,
                of |-> CASE j.op = "list" -> {}
                         [] j.op = "clone" -> {j.dest}
                         [] OTHER -> {j.vm}]

\* A machine is there as soon as the first command of create has worked.
Phase(c) == CASE job[c] = None -> "idle"
              [] job[c] # None /\ reply[c] # None -> "done"
              [] OTHER -> IF job[c].op = "create" /\ todo[c] # Commands(job[c])
                          THEN "acted" ELSE "asked"

Contract == INSTANCE ProviderContract WITH
              Machine <- VM,
              Intent <- {Intended(j) : j \in Jobs},
              state  <- [v \in VM |-> RefState(v)],
              phase  <- [c \in Call |-> Phase(c)],
              intent <- [c \in Call |-> IF job[c] = None THEN None ELSE Intended(job[c])],
              answer <- reply

\* "The neutral operation surface" (provider/ops.go:45-48): with concurrent calls,
\* commands that fail or take too long, and kills, an operation changes the one machine
\* that it names, once, as its name says, or nothing; "ok" says that it did.
ImplementsContract == Contract!Spec
=============================================================================
