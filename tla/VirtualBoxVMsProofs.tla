------------------------ MODULE VirtualBoxVMsProofs ------------------------
(***************************************************************************)
(* List tells the truth, a create that is alone builds the machine it      *)
(* reports, and the adapter implements ProviderContract, for any number of *)
(* machines and of calls; and what RunCmd calls a success of a command is  *)
(* one.                                                                    *)
(***************************************************************************)
EXTENDS VirtualBoxVMs, RunCmd, SequenceTheorems, TLAPS

\* The commands of an operation.
Allowed(op) == CASE op = "create" -> {"createvm", "modifyvm", "storagectl", "createmedium",
                                      "storageattach"}
                 [] op = "stop" -> {"poweroff", "acpipowerbutton"}
                 [] op = "list" -> {"list vms", "list runningvms"}
                 [] OTHER -> {op}

Ops == {"create", "resources", "clone", "stop", "start", "suspend", "reset", "delete",
        "import", "export", "attach_iso", "list"}

Lists(c) == job[c] # None /\ job[c].op = "list" /\ reply[c] = None

Both == <<"list vms", "list runningvms">>
Second == <<"list runningvms">>

\* What a list knows.
Shape(c) == /\ job[c] = None => todo[c] = <<>> /\ reply[c] = None
            /\ job[c] # None => todo[c] \in Seq(Allowed(job[c].op))
            /\ reply[c] # None => todo[c] = <<>>
            /\ Lists(c) => todo[c] \in {<<>>, Second, Both}

\* It has seen how things are.
Sees(c) == Lists(c) => \A v \in VM : RefState(v) \in was[c][v]

\* A machine that it has found was there, and if it is gone it did not run before.
Finds(c) == Lists(c) /\ todo[c] = Second =>
              \A v \in VM : IF v \notin names[c] THEN "absent" \in was[c][v]
                            ELSE ~Exists(v) => Meant("stopped") \cap was[c][v] # {}

CallInv(c) == Shape(c) /\ Sees(c) /\ Finds(c)

IInv == /\ TypeOK
        /\ todo = [c \in Call |-> todo[c]] /\ listed = [c \in Call |-> listed[c]]
        /\ \A c \in Call : CallInv(c)
-----------------------------------------------------------------------------
LEMMA JobFacts ==
  ASSUME NEW j \in Jobs
  PROVE  /\ j.op \in Ops
         /\ j.op # "list" => j.vm \in VM
         /\ j.op = "clone" => j.dest \in VM
         /\ j.op \in {"create", "resources"} => j.cpus \in CPUs
  BY TargetAssumption DEF Jobs, Ops

LEMMA CommandsAllowed ==
  ASSUME NEW j \in Jobs
  PROVE  /\ Commands(j) \in Seq(Allowed(j.op))
         /\ j.op = "list" => Commands(j) = Both
<1>1. CASE j.op = "create"
  <2> DEFINE S == {"createvm", "modifyvm", "storagectl", "createmedium", "storageattach"}
  <2>1. /\ <<"createvm", "modifyvm">> \in Seq(S)
        /\ <<"storagectl", "createmedium", "storageattach">> \in Seq(S)
        /\ <<>> \in Seq(S)
    OBVIOUS
  <2> HIDE DEF S
  <2>2. Commands(j) \in Seq(S)
    BY <1>1, <2>1, ConcatProperties DEF Commands
  <2> QED
    BY <1>1, <2>2 DEF Allowed, S
<1>2. CASE j.op = "stop"
  <2>1. Commands(j) = <<IF j.hard THEN "poweroff" ELSE "acpipowerbutton">>
    BY <1>2 DEF Commands
  <2>2. Allowed(j.op) = {"poweroff", "acpipowerbutton"}
    BY <1>2 DEF Allowed
  <2> QED
    BY <1>2, <2>1, <2>2
<1>3. CASE j.op = "list"
  <2>1. Commands(j) = <<"list vms", "list runningvms">>
    BY <1>3 DEF Commands
  <2>2. Allowed(j.op) = {"list vms", "list runningvms"}
    BY <1>3 DEF Allowed
  <2>3. <<"list vms", "list runningvms">> \in Seq({"list vms", "list runningvms"})
    OBVIOUS
  <2>4. Commands(j) \in Seq(Allowed(j.op))
    BY <2>1, <2>2, <2>3
  <2> QED
    BY <2>1, <2>4 DEF Both
<1>4. CASE j.op \notin {"create", "stop", "list"}
  <2>1. Commands(j) = <<j.op>> /\ Allowed(j.op) = {j.op}
    BY <1>4 DEF Commands, Allowed
  <2> QED
    BY <1>4, <2>1
<1> QED
  BY <1>1, <1>2, <1>3, <1>4

LEMMA AllowedNames ==
  ASSUME NEW op \in Ops
  PROVE  Allowed(op) \subseteq CommandNames
  BY DEF Allowed, CommandNames, Ops

\* A command that an operation has, with its arguments.
LEMMA NextCommand ==
  ASSUME IInv, NEW c \in Call, todo[c] # <<>>
  PROVE  /\ job[c] \in Jobs /\ job[c] # None /\ reply[c] = None
         /\ Head(todo[c]) \in Allowed(job[c].op)
         /\ Head(todo[c]) \in CommandNames
         /\ Tail(todo[c]) \in Seq(Allowed(job[c].op))
         /\ Tail(todo[c]) \in Seq(CommandNames)
<1>1. job[c] # None /\ job[c] \in Jobs /\ reply[c] = None /\ todo[c] \in Seq(Allowed(job[c].op))
  BY DEF IInv, TypeOK, CallInv, Shape
<1>2. Allowed(job[c].op) \subseteq CommandNames
  BY <1>1, JobFacts, AllowedNames
<1>3. todo[c] \in Seq(CommandNames)
  BY DEF IInv, TypeOK
<1> QED
  BY <1>1, <1>2, <1>3, HeadTailProperties

\* What a command does to the machines.
Moves == /\ vm' \in [VM -> Machine \cup {None}]
         /\ \A v \in VM : Exists(v) /\ ~Exists(v)' => ~IsOn(v)

LEMMA EffectMoves ==
  ASSUME IInv, NEW c \in Call, todo[c] # <<>>,
         Can(Head(todo[c]), job[c]), Effect(Head(todo[c]), job[c])
  PROVE  Moves /\ media' \subseteq VM
<1> DEFINE cmd == Head(todo[c])
           j == job[c]
<1>1. /\ vm \in [VM -> Machine \cup {None}] /\ media \subseteq VM
      /\ j \in Jobs /\ cmd \in Allowed(j.op) /\ cmd \in CommandNames
      /\ vm' = NewVM(cmd, j) /\ media' = NewMedia(cmd, j) /\ Can(cmd, j)
  BY NextCommand DEF IInv, TypeOK, Effect
<1>2. /\ j.op \in Ops /\ (j.op # "list" => j.vm \in VM) /\ (j.op = "clone" => j.dest \in VM)
      /\ (j.op \in {"create", "resources"} => j.cpus \in CPUs)
  BY <1>1, JobFacts
<1> HIDE DEF cmd, j
<1>3. /\ cmd \notin {"list vms", "list runningvms"} => j.op # "list"
      /\ cmd = "clone" => j.op = "clone"
      /\ cmd \in {"modifyvm", "resources"} => j.op \in {"create", "resources"}
  BY <1>1, <1>2 DEF Allowed, Ops
<1>4. media' \subseteq VM
  BY <1>1, <1>2, <1>3 DEF NewMedia
<1>5. CASE cmd = "createvm" \/ cmd = "import"
  <2>1. vm' = [vm EXCEPT ![j.vm] = IF cmd = "createvm" THEN New ELSE Image] /\ j.vm \in VM
    BY <1>1, <1>2, <1>3, <1>5 DEF NewVM
  <2>2. New \in Machine /\ Image \in Machine
    BY DEF New, Image, Machine
  <2> QED
    BY <1>1, <1>4, <2>1, <2>2, NoneAssumption DEF Moves, Exists
<1>6. CASE cmd = "modifyvm" \/ cmd = "resources"
  <2>1. vm' = [vm EXCEPT ![j.vm].cpus = j.cpus] /\ j.vm \in VM /\ j.cpus \in CPUs
        /\ vm[j.vm] \in Machine
    BY <1>1, <1>2, <1>3, <1>6 DEF NewVM, Can, IsOff, Exists
  <2>2. [vm[j.vm] EXCEPT !.cpus = j.cpus] \in Machine
    BY <2>1 DEF Machine
  <2> QED
    BY <1>1, <1>4, <2>1, <2>2, NoneAssumption DEF Moves, Exists
<1>7. CASE cmd = "storagectl"
  <2>1. vm' = [vm EXCEPT ![j.vm].sata = TRUE] /\ j.vm \in VM /\ vm[j.vm] \in Machine
    BY <1>1, <1>2, <1>3, <1>7 DEF NewVM, Can, IsOff, Exists
  <2>2. [vm[j.vm] EXCEPT !.sata = TRUE] \in Machine
    BY <2>1 DEF Machine
  <2> QED
    BY <1>1, <1>4, <2>1, <2>2, NoneAssumption DEF Moves, Exists
<1>8. CASE cmd = "storageattach"
  <2>1. vm' = [vm EXCEPT ![j.vm].disk = "own"] /\ j.vm \in VM /\ vm[j.vm] \in Machine
    BY <1>1, <1>2, <1>3, <1>8 DEF NewVM, Can, IsOff, Exists
  <2>2. [vm[j.vm] EXCEPT !.disk = "own"] \in Machine
    BY <2>1 DEF Machine
  <2> QED
    BY <1>1, <1>4, <2>1, <2>2, NoneAssumption DEF Moves, Exists
<1>9. CASE cmd \in {"start", "poweroff", "suspend"}
  <2>1. PICK s \in {"on", "off", "saved"} :
          vm' = [vm EXCEPT ![j.vm].power = s] /\ j.vm \in VM /\ vm[j.vm] \in Machine
    BY <1>1, <1>2, <1>3, <1>9 DEF NewVM, Can, IsOn, Exists
  <2>2. [vm[j.vm] EXCEPT !.power = s] \in Machine
    BY <2>1 DEF Machine
  <2> QED
    BY <1>1, <1>4, <2>1, <2>2, NoneAssumption DEF Moves, Exists
<1>10. CASE cmd = "delete"
  <2>1. vm' = [vm EXCEPT ![j.vm] = None] /\ j.vm \in VM /\ ~IsOn(j.vm)
    BY <1>1, <1>2, <1>3, <1>10 DEF NewVM, Can
  <2> QED
    BY <1>1, <1>4, <2>1 DEF Moves, Exists
<1>11. CASE cmd = "clone"
  <2> DEFINE m == [vm[j.vm] EXCEPT !.disk = IF @ = None THEN None ELSE "image"]
  <2>1. /\ vm' = [vm EXCEPT ![j.dest] = m]
        /\ j.vm \in VM /\ j.dest \in VM /\ vm[j.vm] \in Machine
    BY <1>1, <1>2, <1>3, <1>11 DEF NewVM, Can, IsOff, Exists
  <2>2. m \in Machine
    BY <2>1 DEF Machine
  <2> HIDE DEF m
  <2> QED
    BY <1>1, <1>4, <2>1, <2>2, NoneAssumption DEF Moves, Exists
<1>12. CASE cmd \in {"createmedium", "attach_iso", "acpipowerbutton", "reset", "export",
                     "list vms", "list runningvms"}
  <2>1. vm' = vm
    BY <1>1, <1>12 DEF NewVM
  <2> QED
    BY <1>1, <1>4, <2>1 DEF Moves, Exists
<1> QED
  BY <1>1, <1>4, <1>5, <1>6, <1>7, <1>8, <1>9, <1>10, <1>11, <1>12 DEF CommandNames
-----------------------------------------------------------------------------
\* What follows from the history that is kept.
LEMMA Remembered ==
  ASSUME IInv, Remember, vm' \in [VM -> Machine \cup {None}]
  PROVE  /\ was' \in [Call -> [VM -> SUBSET {"absent", "running", "stopped", "suspended"}]]
         /\ shared' \subseteq Call
         /\ \A c \in Call : Lists(c)' => Sees(c)'
         /\ \A c \in Call, v \in VM : Lists(c)' => was[c][v] \subseteq was'[c][v]
<1>1. \A v \in VM : RefState(v)' \in {"absent", "running", "stopped", "suspended"}
  BY DEF RefState
<1>2. was \in [Call -> [VM -> SUBSET {"absent", "running", "stopped", "suspended"}]]
  BY DEF IInv, TypeOK
<1>3. was' = [c \in Call |-> [v \in VM |->
                 IF job'[c] # None /\ job'[c].op = "list" /\ reply'[c] = None
                 THEN was[c][v] \cup {RefState(v)'} ELSE {}]]
  BY DEF Remember
<1>4. shared' \subseteq Call
  BY DEF Remember
<1> QED
  BY <1>1, <1>2, <1>3, <1>4 DEF Lists, Sees

\* A call that does nothing in a step keeps its invariant, whatever the machines do.
LEMMA OthersKeep ==
  ASSUME IInv, Remember, Moves, NEW e \in Call, job'[e] = job[e], todo'[e] = todo[e],
         names'[e] = names[e], listed'[e] = listed[e], reply'[e] = reply[e]
  PROVE  CallInv(e)'
<1>1. CallInv(e)
  BY DEF IInv
<1>2. Shape(e)'
  BY <1>1 DEF CallInv, Shape, Lists
<1>3. Lists(e)' => Sees(e)' /\ \A v \in VM : was[e][v] \subseteq was'[e][v]
  BY Remembered DEF Moves
<1>4. Sees(e)'
  BY <1>3 DEF Sees
<1>5. Finds(e)'
  <2> SUFFICES ASSUME Lists(e), todo[e] = Second, NEW v \in VM
               PROVE  IF v \notin names[e] THEN "absent" \in was'[e][v]
                      ELSE ~Exists(v)' => Meant("stopped") \cap was'[e][v] # {}
    BY DEF Finds, Lists
  <2>1. was[e][v] \subseteq was'[e][v] /\ RefState(v) \in was[e][v]
    BY <1>1, <1>3 DEF Lists, CallInv, Sees
  <2>2. CASE v \in names[e] /\ Exists(v) /\ ~Exists(v)'
    <3>1. ~IsOn(v) /\ vm[v] \in Machine
      BY <2>2 DEF Moves, Exists, IInv, TypeOK
    <3>2. RefState(v) \in Meant("stopped")
      BY <2>2, <3>1 DEF RefState, IsOn, Machine, Meant
    <3> QED
      BY <2>1, <2>2, <3>2
  <2> QED
    BY <1>1, <2>1, <2>2 DEF CallInv, Finds
<1> QED
  BY <1>2, <1>4, <1>5 DEF CallInv

\* The calls and the machines have their types.
CallTypes == /\ job \in [Call -> Jobs \cup {None}]
             /\ todo = [c \in Call |-> todo[c]] /\ \A c \in Call : todo[c] \in Seq(CommandNames)
             /\ names \in [Call -> SUBSET VM]
             /\ listed = [c \in Call |-> listed[c]]
             /\ \A c \in Call : listed[c] \in [DOMAIN listed[c] -> {"running", "stopped"}]
             /\ reply \in [Call -> {"ok", "failed", None}]

LEMMA Together ==
  ASSUME IInv, Remember, Moves, media' \subseteq VM, CallTypes', \A c \in Call : CallInv(c)'
  PROVE  IInv'
BY Remembered DEF IInv, TypeOK, CallTypes, Moves

LEMMA NoListing == <<>> \in [DOMAIN <<>> -> {"running", "stopped"}]
<1>1. DOMAIN <<>> = {}
  OBVIOUS
<1> QED
  BY <1>1

LEMMA BeginInv ==
  ASSUME IInv, NEW c \in Call, NEW j \in Jobs, Begin(c, j)
  PROVE  IInv'
<1>1. /\ job[c] = None /\ job' = [job EXCEPT ![c] = j]
      /\ todo' = [todo EXCEPT ![c] = Commands(j)]
      /\ UNCHANGED <<vm, media, names, listed, reply>> /\ Remember
  BY DEF Begin, host
<1>2. IInv /\ CallTypes /\ reply[c] = None /\ j # None
  BY <1>1, NoneAssumption DEF IInv, TypeOK, CallTypes, CallInv, Shape
<1>3. Commands(j) \in Seq(CommandNames) /\ Commands(j) \in Seq(Allowed(j.op))
      /\ (j.op = "list" => Commands(j) = Both)
  BY CommandsAllowed, JobFacts, AllowedNames
<1>4. Moves /\ media' \subseteq VM
  BY <1>1 DEF IInv, TypeOK, Moves, Exists
<1>5. CallTypes'
  BY <1>1, <1>2, <1>3 DEF CallTypes
<1>6. job'[c] = j /\ todo'[c] = Commands(j) /\ reply'[c] = None
      /\ \A e \in Call \ {c} : job'[e] = job[e] /\ todo'[e] = todo[e]
  BY <1>1, <1>2 DEF CallTypes
<1>7. Both # Second
  BY DEF Both, Second
<1>8. CallInv(c)'
  <2>1. Shape(c)'
    BY <1>2, <1>3, <1>6 DEF Shape, Lists
  <2>2. Sees(c)'
    BY <1>1, <1>4, Remembered DEF Moves, Sees
  <2>3. Finds(c)'
    BY <1>3, <1>6, <1>7, NoneAssumption DEF Finds, Lists
  <2> QED
    BY <2>1, <2>2, <2>3 DEF CallInv
<1>9. \A e \in Call \ {c} : CallInv(e)'
  BY <1>1, <1>4, <1>6, OthersKeep
<1> QED
  BY <1>1, <1>4, <1>5, <1>8, <1>9, Together

\* A call is answered.
LEMMA ReturnInv ==
  ASSUME IInv, Remember, Moves, media' \subseteq VM, NEW c \in Call, todo[c] # <<>>,
         NEW answer \in {"ok", "failed"}, NEW list, Return(c, answer, list),
         list \in [DOMAIN list -> {"running", "stopped"}]
  PROVE  IInv'
<1>1. /\ todo' = [todo EXCEPT ![c] = <<>>] /\ listed' = [listed EXCEPT ![c] = list]
      /\ reply' = [reply EXCEPT ![c] = answer] /\ UNCHANGED <<job, names>>
  BY DEF Return
<1>2. CallTypes /\ job[c] # None
  BY NextCommand DEF IInv, TypeOK, CallTypes
<1>4. todo'[c] = <<>> /\ listed'[c] = list /\ reply'[c] = answer
      /\ \A e \in Call \ {c} : todo'[e] = todo[e] /\ listed'[e] = listed[e] /\ reply'[e] = reply[e]
  BY <1>1, <1>2 DEF CallTypes
<1>3. CallTypes'
  <2>1. \A e \in Call : todo'[e] \in Seq(CommandNames)
    BY <1>2, <1>4, EmptySeq DEF CallTypes
  <2>2. \A e \in Call : listed'[e] \in [DOMAIN listed'[e] -> {"running", "stopped"}]
    BY <1>2, <1>4 DEF CallTypes
  <2>3. todo' = [e \in Call |-> todo'[e]] /\ listed' = [e \in Call |-> listed'[e]]
    BY <1>1, <1>2 DEF CallTypes
  <2>4. reply' \in [Call -> {"ok", "failed", None}]
    BY <1>1, <1>2 DEF CallTypes
  <2> QED
    BY <1>1, <1>2, <2>1, <2>2, <2>3, <2>4 DEF CallTypes
<1>5. Second # <<>>
  BY DEF Second
<1>6. Sees(c)' /\ ~Lists(c)'
  BY <1>4, NoneAssumption DEF Sees, Lists
<1>7. Shape(c)' /\ Finds(c)'
  <2>1. job'[c] = job[c] /\ \A S : <<>> \in Seq(S)
    BY <1>1
  <2>2. Shape(c)'
    BY <1>2, <1>4, <2>1 DEF Shape, Lists
  <2> QED
    BY <1>4, <1>5, <2>2 DEF Finds
<1>9. \A e \in Call \ {c} : CallInv(e)'
  BY <1>1, <1>4, OthersKeep
<1> QED
  BY <1>3, <1>6, <1>7, <1>9, Together DEF CallInv

LEMMA TailOfTwo == ASSUME NEW a, NEW b PROVE Tail(<<a, b>>) = <<b>>
  OBVIOUS

LEMMA ContinueInv ==
  ASSUME IInv, Remember, Moves, media' \subseteq VM, NEW c \in Call, todo[c] # <<>>,
         NEW found \in SUBSET VM, Continue(c, found),
         Lists(c) => todo[c] = Both /\ found = {v \in VM : Exists(v)} /\ vm' = vm
  PROVE  IInv'
<1>1. /\ todo' = [todo EXCEPT ![c] = Tail(@)] /\ names' = [names EXCEPT ![c] = found]
      /\ UNCHANGED <<job, listed, reply>>
  BY DEF Continue
<1>2. CallTypes /\ job[c] # None /\ reply[c] = None
      /\ Tail(todo[c]) \in Seq(CommandNames) /\ Tail(todo[c]) \in Seq(Allowed(job[c].op))
  BY NextCommand DEF IInv, TypeOK, CallTypes
<1>3. CallTypes'
  BY <1>1, <1>2 DEF CallTypes
<1>4. todo'[c] = Tail(todo[c]) /\ names'[c] = found
      /\ \A e \in Call \ {c} : todo'[e] = todo[e] /\ names'[e] = names[e]
  BY <1>1, <1>2 DEF CallTypes
<1>5. Tail(Both) = Second
  BY TailOfTwo DEF Both, Second
<1>6. Sees(c)' /\ (Lists(c) => \A v \in VM : was[c][v] \subseteq was'[c][v])
  BY <1>1, Remembered DEF Moves, Sees, Lists
<1>7. Shape(c)'
  BY <1>1, <1>2, <1>4, <1>5, NoneAssumption DEF Shape, Lists
<1>8. Finds(c)'
  <2> SUFFICES ASSUME Lists(c), NEW v \in VM
               PROVE  IF v \notin found THEN "absent" \in was'[c][v]
                      ELSE ~Exists(v)' => Meant("stopped") \cap was'[c][v] # {}
    BY <1>1, <1>4 DEF Finds, Lists
  <2>1. RefState(v) \in was[c][v] /\ was[c][v] \subseteq was'[c][v] /\ Exists(v)' = Exists(v)
    BY <1>6 DEF IInv, CallInv, Sees, Exists
  <2> QED
    BY <2>1 DEF RefState
<1>9. \A e \in Call \ {c} : CallInv(e)'
  BY <1>1, <1>4, OthersKeep
<1> QED
  BY <1>3, <1>6, <1>7, <1>8, <1>9, Together DEF CallInv

LEMMA ListsWhat ==
  ASSUME IInv, NEW c \in Call, todo[c] # <<>>
  PROVE  /\ Lists(c) => todo[c] = Both \/ todo[c] = Second
         /\ Head(todo[c]) = "list vms" => Lists(c) /\ todo[c] = Both
         /\ Head(todo[c]) = "list runningvms" => Lists(c) /\ todo[c] = Second
         /\ Lists(c) => Head(todo[c]) \in {"list vms", "list runningvms"}
<1>1. /\ job[c] \in Jobs /\ job[c] # None /\ Head(todo[c]) \in Allowed(job[c].op)
      /\ job[c].op \in Ops /\ reply[c] = None
  BY NextCommand, JobFacts
<1>2. Lists(c) => todo[c] = Both \/ todo[c] = Second
  BY DEF IInv, CallInv, Shape
<1>3. Head(todo[c]) \in {"list vms", "list runningvms"} <=> Lists(c)
  BY <1>1 DEF Allowed, Ops, Lists
<1>4. Head(Both) = "list vms" /\ Head(Second) = "list runningvms"
  BY DEF Both, Second
<1> QED
  BY <1>2, <1>3, <1>4

LEMMA CommandWorksInv ==
  ASSUME IInv, NEW c \in Call, CommandWorks(c)
  PROVE  IInv'
<1> DEFINE cmd == Head(todo[c])
<1>1. /\ todo[c] # <<>> /\ Can(cmd, job[c]) /\ Effect(cmd, job[c])
      /\ Succeeded(c, cmd) /\ Remember
  BY DEF CommandWorks
<1>2. Moves /\ media' \subseteq VM
  BY <1>1, EffectMoves
<1> HIDE DEF cmd
<1>3. CASE cmd = "list vms"
  <2>1. Continue(c, {v \in VM : Exists(v)}) /\ vm' = vm
    BY <1>1, <1>3 DEF Succeeded, Effect, NewVM
  <2>2. todo[c] = Both
    BY <1>1, <1>3, ListsWhat DEF cmd
  <2> QED
    BY <1>1, <1>2, <2>1, <2>2, ContinueInv
<1>4. CASE cmd = "list runningvms"
  <2>1. Return(c, "ok", Listing(c, {v \in VM : IsOn(v)}))
    BY <1>1, <1>4 DEF Succeeded
  <2>2. Listing(c, {v \in VM : IsOn(v)})
          \in [DOMAIN Listing(c, {v \in VM : IsOn(v)}) -> {"running", "stopped"}]
    BY DEF Listing
  <2> QED
    BY <1>1, <1>2, <2>1, <2>2, ReturnInv
<1>5. CASE cmd \notin {"list vms", "list runningvms"}
  <2>1. Return(c, "ok", <<>>) \/ Continue(c, {})
    BY <1>1, <1>5 DEF Succeeded
  <2>2. ~Lists(c)
    BY <1>1, <1>5, ListsWhat DEF cmd
  <2> QED
    BY <1>1, <1>2, <2>1, <2>2, ReturnInv, ContinueInv, NoListing
<1> QED
  BY <1>3, <1>4, <1>5

LEMMA FailsInv ==
  ASSUME IInv, NEW c \in Call, CommandFails(c) \/ CommandTimesOut(c)
  PROVE  IInv'
<1>1. todo[c] # <<>> /\ Remember /\ Return(c, "failed", <<>>)
  BY DEF CommandFails, CommandTimesOut
<1>2. Moves /\ media' \subseteq VM
  <2>1. CASE CommandFails(c)
    BY <2>1 DEF CommandFails, host, IInv, TypeOK, Moves, Exists
  <2>2. CASE CommandTimesOut(c)
    BY <2>2, EffectMoves DEF CommandTimesOut
  <2> QED
    BY <2>1, <2>2
<1> QED
  BY <1>1, <1>2, NoListing, ReturnInv

LEMMA ResetInv ==
  ASSUME IInv, NEW c \in Call, Reset(c)
  PROVE  IInv'
<1>1. /\ job' = [job EXCEPT ![c] = None] /\ todo' = [todo EXCEPT ![c] = <<>>]
      /\ names' = [names EXCEPT ![c] = {}] /\ listed' = [listed EXCEPT ![c] = <<>>]
      /\ reply' = [reply EXCEPT ![c] = None] /\ UNCHANGED <<vm, media>> /\ Remember
  BY DEF Reset, host
<1>2. CallTypes /\ Moves /\ media' \subseteq VM
  BY <1>1 DEF IInv, TypeOK, CallTypes, Moves, Exists
<1>3. CallTypes'
  <2>1. \A e \in Call : todo'[e] \in Seq(CommandNames)
    BY <1>1, <1>2, EmptySeq DEF CallTypes
  <2>2. \A e \in Call : listed'[e] \in [DOMAIN listed'[e] -> {"running", "stopped"}]
    BY <1>1, <1>2, NoListing DEF CallTypes
  <2>3. todo' = [e \in Call |-> todo'[e]] /\ listed' = [e \in Call |-> listed'[e]]
    BY <1>1, <1>2 DEF CallTypes
  <2>4. /\ job' \in [Call -> Jobs \cup {None}] /\ names' \in [Call -> SUBSET VM]
        /\ reply' \in [Call -> {"ok", "failed", None}]
    BY <1>1, <1>2 DEF CallTypes
  <2> QED
    BY <2>1, <2>2, <2>3, <2>4 DEF CallTypes
<1>4. /\ job'[c] = None /\ todo'[c] = <<>> /\ reply'[c] = None
      /\ \A e \in Call \ {c} : /\ job'[e] = job[e] /\ todo'[e] = todo[e] /\ names'[e] = names[e]
                               /\ listed'[e] = listed[e] /\ reply'[e] = reply[e]
  BY <1>1, <1>2 DEF CallTypes
<1>5. CallInv(c)'
  BY <1>4, NoneAssumption DEF CallInv, Shape, Sees, Finds, Lists
<1>6. \A e \in Call \ {c} : CallInv(e)'
  BY <1>1, <1>2, <1>4, OthersKeep
<1> QED
  BY <1>1, <1>2, <1>3, <1>5, <1>6, Together

LEMMA GuestOffInv ==
  ASSUME IInv, NEW v \in VM, GuestOff(v)
  PROVE  IInv'
<1>1. /\ IsOn(v) /\ vm' = [vm EXCEPT ![v].power = "off"] /\ Remember
      /\ UNCHANGED <<media, job, todo, names, listed, reply>>
  BY DEF GuestOff
<1>2. vm \in [VM -> Machine \cup {None}] /\ vm[v] \in Machine
  BY <1>1 DEF IInv, TypeOK, IsOn, Exists
<1>3. [vm[v] EXCEPT !.power = "off"] \in Machine
  BY <1>2 DEF Machine
<1>4. Moves
  BY <1>1, <1>2, <1>3, NoneAssumption DEF Moves, Exists
<1>5. CallTypes' /\ media' \subseteq VM
  BY <1>1 DEF IInv, TypeOK, CallTypes
<1>6. \A e \in Call : CallInv(e)'
  BY <1>1, <1>4, OthersKeep
<1> QED
  BY <1>1, <1>4, <1>5, <1>6, Together

LEMMA InitInv == Init => IInv
<1> SUFFICES ASSUME Init PROVE IInv
  OBVIOUS
<1>1. TypeOK
  BY NoListing, EmptySeq DEF Init, TypeOK
<1>2. \A c \in Call : CallInv(c)
  BY NoneAssumption DEF Init, CallInv, Shape, Sees, Finds, Lists
<1> QED
  BY <1>1, <1>2 DEF Init, IInv

LEMMA NextInv == IInv /\ [Next]_vars => IInv'
<1> SUFFICES ASSUME IInv, [Next]_vars PROVE IInv'
  OBVIOUS
<1>1. CASE UNCHANGED vars
  BY <1>1 DEF vars, IInv, TypeOK, CallInv, Shape, Sees, Finds, Lists, RefState, Exists, IsOn
<1>2. ASSUME NEW c \in Call, NEW j \in Jobs, Begin(c, j) PROVE IInv'
  BY <1>2, BeginInv
<1>3. ASSUME NEW c \in Call, TakeReply(c) \/ Kill(c) PROVE IInv'
  BY <1>3, ResetInv DEF TakeReply, Kill
<1> QED
  BY <1>1, <1>2, <1>3, CommandWorksInv, FailsInv, GuestOffInv DEF Next

LEMMA Invariance == Spec => []IInv
  BY InitInv, NextInv, PTL DEF Spec
-----------------------------------------------------------------------------
\* Machines, disks and calls are always of their types.
THEOREM VMsTypeOK == Spec => []TypeOK
<1>1. IInv => TypeOK
  BY DEF IInv
<1> QED
  BY <1>1, Invariance, PTL

\* A list that is printed says of every machine what it was at some time.
LEMMA PrintedIsTrue ==
  ASSUME IInv, NEW c \in Call, Lists(c), todo[c] = Second, NEW v \in VM,
         NEW list, list = Listing(c, {u \in VM : IsOn(u)})
  PROVE  Meant(IF v \in DOMAIN list THEN list[v] ELSE "absent") \cap was[c][v] # {}
<1>1. /\ DOMAIN list = names[c]
      /\ v \in names[c] => list[v] = IF IsOn(v) THEN "running" ELSE "stopped"
  BY DEF Listing
<1>2. /\ RefState(v) \in was[c][v]
      /\ IF v \notin names[c] THEN "absent" \in was[c][v]
         ELSE ~Exists(v) => Meant("stopped") \cap was[c][v] # {}
  BY DEF IInv, CallInv, Sees, Finds
<1>3. CASE v \notin names[c]
  BY <1>1, <1>2, <1>3 DEF Meant
<1>4. CASE v \in names[c] /\ ~Exists(v)
  BY <1>1, <1>2, <1>4 DEF IsOn
<1>5. CASE v \in names[c] /\ Exists(v)
  <2>1. vm[v] \in Machine
    BY <1>5 DEF Exists, IInv, TypeOK
  <2>2. RefState(v) \in Meant(list[v])
    BY <1>1, <1>5, <2>1 DEF RefState, IsOn, Machine, Meant
  <2> QED
    BY <1>1, <1>2, <1>5, <2>2
<1> QED
  BY <1>3, <1>4, <1>5

\* A step that answers "ok" is the last command of its call.
LEMMA OkIsReturned ==
  ASSUME IInv, [Next]_vars, NEW c \in Call, reply[c] = None, reply'[c] = "ok"
  PROVE  /\ todo[c] # <<>> /\ Can(Head(todo[c]), job[c]) /\ Effect(Head(todo[c]), job[c])
         /\ Succeeded(c, Head(todo[c])) /\ Return(c, "ok", listed'[c])
<1>1. /\ job \in [Call -> Jobs \cup {None}] /\ reply \in [Call -> {"ok", "failed", None}]
      /\ listed = [d \in Call |-> listed[d]] /\ reply' # reply
  BY NoneAssumption DEF IInv, TypeOK
<1>2. ASSUME NEW d \in Call, reply' = [reply EXCEPT ![d] = None] \/
                             reply' = [reply EXCEPT ![d] = "failed"]
      PROVE FALSE
  BY <1>1, <1>2, NoneAssumption
<1>3. ASSUME NEW d \in Call, CommandWorks(d)
      PROVE  d = c /\ Return(c, "ok", listed'[c])
  <2>1. (\E list : Return(d, "ok", list)) \/ (\E found : Continue(d, found))
    BY <1>3 DEF CommandWorks, Succeeded
  <2>2. PICK list : Return(d, "ok", list)
    BY <1>1, <2>1 DEF Continue
  <2>3. reply' = [reply EXCEPT ![d] = "ok"] /\ listed' = [listed EXCEPT ![d] = list]
    BY <2>2 DEF Return
  <2>4. d = c
    BY <1>1, <2>3, NoneAssumption
  <2>5. listed'[c] = list
    BY <1>1, <2>3, <2>4
  <2> QED
    BY <2>2, <2>4, <2>5
<1>4. ASSUME NEW d \in Call, CommandFails(d) \/ CommandTimesOut(d) PROVE FALSE
  BY <1>2, <1>4 DEF CommandFails, CommandTimesOut, Return
<1>5. ASSUME NEW d \in Call, TakeReply(d) \/ Kill(d) PROVE FALSE
  BY <1>2, <1>5 DEF TakeReply, Kill, Reset
<1>6. /\ ~(\E d \in Call : \E j \in Jobs : Begin(d, j)) /\ ~(\E v \in VM : GuestOff(v))
      /\ ~UNCHANGED vars
  BY <1>1 DEF Begin, GuestOff, vars
<1>7. CommandWorks(c) /\ Return(c, "ok", listed'[c])
  BY <1>3, <1>4, <1>5, <1>6 DEF Next
<1> QED
  BY <1>7 DEF CommandWorks

\* The list of a call that answers is the listing it has just joined.
LEMMA AnswerIsListing ==
  ASSUME IInv, [Next]_vars, NEW c \in Call, Answers(c, "list"), reply'[c] = "ok"
  PROVE  todo[c] = Second /\ listed'[c] = Listing(c, {v \in VM : IsOn(v)})
<1>1. /\ todo[c] # <<>> /\ Succeeded(c, Head(todo[c])) /\ Return(c, "ok", listed'[c])
      /\ Lists(c) /\ reply' # reply
      /\ listed = [d \in Call |-> listed[d]] /\ reply = [d \in Call |-> reply[d]]
  BY OkIsReturned DEF Answers, Lists, IInv, TypeOK
<1>2. Head(todo[c]) # "list vms"
  BY <1>1 DEF Succeeded, Continue
<1>3. Head(todo[c]) = "list runningvms"
  BY <1>1, <1>2, ListsWhat
<1>4. Return(c, "ok", Listing(c, {v \in VM : IsOn(v)}))
  BY <1>1, <1>3 DEF Succeeded
<1> QED
  BY <1>1, <1>3, <1>4, ListsWhat DEF Return

\* What List (ops.go:41) says of a machine was true at some time during the call, where
\* "stopped" is said of suspended machines too.
THEOREM ListsAreTrue == Spec => ListIsTrue
<1> DEFINE Step == \A c \in Call : Answers(c, "list") /\ reply'[c] = "ok" =>
       \A v \in VM : Meant(IF v \in DOMAIN listed'[c] THEN listed'[c][v] ELSE "absent")
                      \cap was[c][v] # {}
<1>1. ASSUME IInv, [Next]_vars PROVE Step
  <2> SUFFICES ASSUME NEW c \in Call, Answers(c, "list"), reply'[c] = "ok", NEW v \in VM
               PROVE  Meant(IF v \in DOMAIN listed'[c] THEN listed'[c][v] ELSE "absent")
                        \cap was[c][v] # {}
    OBVIOUS
  <2>1. Lists(c) /\ todo[c] = Second /\ listed'[c] = Listing(c, {u \in VM : IsOn(u)})
    BY <1>1, AnswerIsListing DEF Answers, Lists
  <2> QED
    BY <1>1, <2>1, PrintedIsTrue
<1>2. IInv /\ [Next]_vars => [Step]_vars
  BY <1>1
<1>3. Spec => [][Step]_vars
  BY <1>2, Invariance, PTL DEF Spec
<1> QED
  BY <1>3 DEF ListIsTrue
-----------------------------------------------------------------------------
(* Creating a machine.                                                     *)

\* c creates a machine, and has been alone all the time.
Alone(c) == job[c] # None /\ job[c].op = "create" /\ reply[c] = None /\ c \notin shared

Sized(j) == [power |-> "off", cpus |-> j.cpus, sata |-> FALSE, disk |-> None]
WithSATA(j) == [power |-> "off", cpus |-> j.cpus, sata |-> TRUE, disk |-> None]
WithDisk(j) == [power |-> "off", cpus |-> j.cpus, sata |-> TRUE, disk |-> "own"]

\* The machine is as far as the commands that are left say.
Built(m, rest, j) ==
  \/ rest = Commands(j)
  \/ /\ j.disk
     /\ \/ rest = <<"modifyvm", "storagectl", "createmedium", "storageattach">> /\ m = New
        \/ rest = <<"storagectl", "createmedium", "storageattach">> /\ m = Sized(j)
        \/ rest = <<"createmedium", "storageattach">> /\ m = WithSATA(j)
        \/ rest = <<"storageattach">> /\ m = WithSATA(j)
  \/ ~j.disk /\ rest = <<"modifyvm">> /\ m = New

AloneInv(c) == Alone(c) => /\ \A d \in Call \ {c} : job[d] = None
                           /\ Built(vm[job[c].vm], todo[c], job[c])

AloneInvs == \A c \in Call : AloneInv(c)

Complete(m, j) == m = IF j.disk THEN WithDisk(j) ELSE Sized(j)

LEMMA Five ==
  LET all == <<"createvm", "modifyvm", "storagectl", "createmedium", "storageattach">>
  IN  /\ <<"createvm", "modifyvm">> \o <<"storagectl", "createmedium", "storageattach">> = all
      /\ Head(all) = "createvm" /\ Len(all) = 5
      /\ Tail(all) = <<"modifyvm", "storagectl", "createmedium", "storageattach">>
<1> DEFINE all == <<"createvm", "modifyvm", "storagectl", "createmedium", "storageattach">>
           S == {"createvm", "modifyvm", "storagectl", "createmedium", "storageattach"}
           s == <<"createvm", "modifyvm">> \o <<"storagectl", "createmedium", "storageattach">>
<1>1. /\ <<"createvm", "modifyvm">> \in Seq(S)
      /\ <<"storagectl", "createmedium", "storageattach">> \in Seq(S)
      /\ all \in Seq(S)
  OBVIOUS
<1>2. s \in Seq(S) /\ Len(s) = 5
  BY <1>1, ConcatProperties
<1>3. /\ s[1] = "createvm" /\ s[2] = "modifyvm" /\ s[3] = "storagectl"
      /\ s[4] = "createmedium" /\ s[5] = "storageattach"
  BY <1>1, ConcatProperties
<1> HIDE DEF s, S
<1>4. ASSUME NEW i \in 1..5 PROVE s[i] = all[i]
  BY <1>3
<1>5. Len(all) = 5 /\ Head(all) = "createvm"
  OBVIOUS
<1>6. s = all
  BY <1>1, <1>2, <1>4, <1>5, SeqEqual
<1>7. Tail(all) = <<"modifyvm", "storagectl", "createmedium", "storageattach">>
  OBVIOUS
<1> QED
  BY <1>5, <1>6, <1>7 DEF s

LEMMA Four == ASSUME NEW a, NEW b, NEW c, NEW d
              PROVE  /\ Head(<<a, b, c, d>>) = a /\ Len(<<a, b, c, d>>) = 4
                     /\ Tail(<<a, b, c, d>>) = <<b, c, d>>
<1>1. Tail(<<a, b, c, d>>) = <<b, c, d>>
  OBVIOUS
<1> QED
  BY <1>1

LEMMA Three == ASSUME NEW a, NEW b, NEW c
               PROVE  /\ Head(<<a, b, c>>) = a /\ Len(<<a, b, c>>) = 3
                      /\ Tail(<<a, b, c>>) = <<b, c>>
<1>1. Tail(<<a, b, c>>) = <<b, c>>
  OBVIOUS
<1> QED
  BY <1>1

LEMMA TwoOne == ASSUME NEW a, NEW b
                PROVE  /\ Head(<<a, b>>) = a /\ Len(<<a, b>>) = 2 /\ Tail(<<a, b>>) = <<b>>
                       /\ Head(<<a>>) = a /\ Len(<<a>>) = 1 /\ <<a, b>> \o <<>> = <<a, b>>
<1>1. Tail(<<a, b>>) = <<b>>
  OBVIOUS
<1>2. <<a, b>> \o <<>> = <<a, b>>
  OBVIOUS
<1> QED
  BY <1>1, <1>2

LEMMA CreateCommands ==
  ASSUME NEW j \in Jobs, j.op = "create"
  PROVE  /\ j.disk => Commands(j) = <<"createvm", "modifyvm", "storagectl", "createmedium",
                                      "storageattach">>
         /\ ~j.disk => Commands(j) = <<"createvm", "modifyvm">>
         /\ j.vm \in VM /\ j.cpus \in CPUs /\ j.disk \in BOOLEAN
<1>1. j.vm \in VM /\ j.cpus \in CPUs /\ j.disk \in BOOLEAN
  BY TargetAssumption DEF Jobs
<1>2. CASE j.disk
  <2>1. Commands(j) = <<"createvm", "modifyvm">> \o <<"storagectl", "createmedium",
                                                       "storageattach">>
    BY <1>2 DEF Commands
  <2>2. <<"createvm", "modifyvm">> \o <<"storagectl", "createmedium", "storageattach">>
        = <<"createvm", "modifyvm", "storagectl", "createmedium", "storageattach">>
    BY Five
  <2> QED
    BY <1>1, <1>2, <2>1, <2>2
<1>3. CASE ~j.disk
  <2>1. Commands(j) = <<"createvm", "modifyvm">> \o <<>>
    BY <1>3 DEF Commands
  <2> QED
    BY <1>1, <1>3, <2>1, TwoOne
<1> QED
  BY <1>2, <1>3

\* Each command takes the machine one step further, the last one to its end.
LEMMA CreateGoesOn ==
  ASSUME NEW j \in Jobs, j.op = "create", NEW rest, rest # <<>>,
         vm \in [VM -> Machine \cup {None}], Built(vm[j.vm], rest, j),
         Can(Head(rest), j), vm' = NewVM(Head(rest), j)
  PROVE  /\ Len(rest) = 1 => Complete(vm'[j.vm], j)
         /\ Len(rest) # 1 => Built(vm'[j.vm], Tail(rest), j)
         /\ Head(rest) \notin {"list vms", "list runningvms"}
<1>1. /\ j.disk => Commands(j) = <<"createvm", "modifyvm", "storagectl", "createmedium",
                                   "storageattach">>
      /\ ~j.disk => Commands(j) = <<"createvm", "modifyvm">>
      /\ j.vm \in VM /\ j.cpus \in CPUs /\ j.disk \in BOOLEAN
  BY CreateCommands
<1>2. CASE rest = Commands(j)
  <2>1. Head(rest) = "createvm" /\ Len(rest) # 1
    <3>1. \/ rest = <<"createvm", "modifyvm", "storagectl", "createmedium", "storageattach">>
          \/ rest = <<"createvm", "modifyvm">>
      BY <1>1, <1>2, Zenon
    <3>2. CASE rest = <<"createvm", "modifyvm">>
      <4>1. /\ Head(<<"createvm", "modifyvm">>) = "createvm"
            /\ Len(<<"createvm", "modifyvm">>) # 1
        BY TwoOne
      <4> QED
        BY <3>2, <4>1, Zenon
    <3>3. CASE rest # <<"createvm", "modifyvm">>
      <4>1. Head(rest) = "createvm" /\ Len(rest) = 5
        BY <3>1, <3>3, Five, Zenon
      <4> QED
        BY <4>1
    <3> QED
      BY <3>2, <3>3
  <2>2. vm'[j.vm] = New
    <3>1. vm' = [vm EXCEPT ![j.vm] = New]
      BY <2>1 DEF NewVM
    <3> QED
      BY <1>1, <3>1
  <2>3. CASE j.disk
    <3>1. rest = <<"createvm", "modifyvm", "storagectl", "createmedium", "storageattach">>
      BY <1>1, <1>2, <2>3
    <3>2. Tail(rest) = <<"modifyvm", "storagectl", "createmedium", "storageattach">>
      BY <3>1, Five, Zenon
    <3> QED
      BY <2>1, <2>2, <2>3, <3>2 DEF Built
  <2>4. CASE ~j.disk
    <3>1. rest = <<"createvm", "modifyvm">>
      BY <1>1, <1>2, <2>4, Zenon
    <3>2. Tail(rest) = <<"modifyvm">>
      BY <3>1
    <3> QED
      BY <2>1, <2>2, <2>4, <3>2 DEF Built
  <2> QED
    BY <2>3, <2>4
<1>3. CASE Head(rest) = "modifyvm" /\ vm[j.vm] = New /\ rest # Commands(j)
  <2> vm'[j.vm] = Sized(j)
    <3>1. vm' = [vm EXCEPT ![j.vm].cpus = j.cpus]
      BY <1>3 DEF NewVM
    <3>2. vm'[j.vm] = [New EXCEPT !.cpus = j.cpus]
      BY <1>1, <1>3, <3>1
    <3> QED
      BY <3>2 DEF New, Sized
  <2>1. CASE j.disk /\ rest = <<"modifyvm", "storagectl", "createmedium", "storageattach">>
    <3>1. Tail(rest) = <<"storagectl", "createmedium", "storageattach">> /\ Len(rest) = 4
      BY <2>1, Four
    <3> QED
      BY <1>3, <2>1, <3>1 DEF Built
  <2>2. CASE ~j.disk /\ rest = <<"modifyvm">>
    <3>1. Len(rest) = 1
      BY <2>2, TwoOne
    <3> QED
      BY <1>3, <2>2, <3>1 DEF Complete
  <2>3. /\ Head(<<"storagectl", "createmedium", "storageattach">>) # "modifyvm"
        /\ Head(<<"createmedium", "storageattach">>) # "modifyvm"
        /\ Head(<<"storageattach">>) # "modifyvm"
    BY Three, TwoOne
  <2> QED
    BY <1>3, <2>1, <2>2, <2>3 DEF Built
<1>4. CASE j.disk /\ rest = <<"storagectl", "createmedium", "storageattach">>
           /\ vm[j.vm] = Sized(j)
  <2>1. /\ Tail(rest) = <<"createmedium", "storageattach">> /\ Len(rest) = 3
        /\ Head(rest) = "storagectl"
    BY <1>4, Three
  <2>2. vm' = [vm EXCEPT ![j.vm].sata = TRUE]
    BY <2>1 DEF NewVM
  <2>3. vm'[j.vm] = [Sized(j) EXCEPT !.sata = TRUE]
    BY <1>1, <1>4, <2>2
  <2>4. vm'[j.vm] = WithSATA(j)
    BY <2>3 DEF Sized, WithSATA
  <2> QED
    BY <1>4, <2>1, <2>4 DEF Built
<1>5. CASE j.disk /\ rest = <<"createmedium", "storageattach">> /\ vm[j.vm] = WithSATA(j)
  <2>1. Tail(rest) = <<"storageattach">> /\ Len(rest) = 2 /\ Head(rest) = "createmedium"
    BY <1>5, TwoOne
  <2>2. vm'[j.vm] = WithSATA(j)
    BY <1>5, <2>1 DEF NewVM
  <2> QED
    BY <1>5, <2>1, <2>2 DEF Built
<1>6. CASE j.disk /\ rest = <<"storageattach">> /\ vm[j.vm] = WithSATA(j)
  <2>1. Len(rest) = 1 /\ Head(rest) = "storageattach"
    BY <1>6, TwoOne
  <2>2. vm' = [vm EXCEPT ![j.vm].disk = "own"]
    BY <2>1 DEF NewVM
  <2>3. vm'[j.vm] = [WithSATA(j) EXCEPT !.disk = "own"]
    BY <1>1, <1>6, <2>2
  <2>4. vm'[j.vm] = WithDisk(j)
    BY <2>3 DEF WithSATA, WithDisk
  <2> QED
    BY <1>6, <2>1, <2>4 DEF Complete
<1>7. /\ Head(<<"modifyvm", "storagectl", "createmedium", "storageattach">>) = "modifyvm"
      /\ Head(<<"modifyvm">>) = "modifyvm"
  BY Four, TwoOne
<1> QED
  BY <1>2, <1>3, <1>4, <1>5, <1>6, <1>7 DEF Built

\* Who is alone in the end has been so.
LEMMA StaysAlone ==
  ASSUME IInv, AloneInvs, Remember, NEW c \in Call, Alone(c)'
  PROVE  /\ \A d \in Call \ {c} : job'[d] = None
         /\ job[c] = job'[c] => c \notin shared
<1> QED
  BY DEF Alone, Remember

\* A step of another call, or of the guest, does nothing to the machine.
LEMMA NextAlone == IInv /\ AloneInvs /\ [Next]_vars => AloneInvs'
<1> SUFFICES ASSUME IInv, AloneInvs, [Next]_vars, NEW c \in Call PROVE AloneInv(c)'
  BY DEF AloneInvs
<1>1. CASE UNCHANGED vars
  BY <1>1 DEF vars, AloneInvs, AloneInv, Alone
<1>2. CASE Next
  <2> SUFFICES ASSUME Alone(c)' PROVE Built(vm'[job'[c].vm], todo'[c], job'[c])
    <3>1. Remember
      BY <1>2 DEF Next, Begin, CommandWorks, CommandFails, CommandTimesOut, TakeReply, Kill,
         Reset, GuestOff
    <3> QED
      BY <3>1, StaysAlone DEF AloneInv
  <2>1. Remember
    BY <1>2 DEF Next, Begin, CommandWorks, CommandFails, CommandTimesOut, TakeReply, Kill,
       Reset, GuestOff
  <2>2. \A d \in Call \ {c} : job'[d] = None
    BY <2>1, StaysAlone
  <2>3. /\ job \in [Call -> Jobs \cup {None}] /\ reply \in [Call -> {"ok", "failed", None}]
        /\ vm \in [VM -> Machine \cup {None}]
    BY DEF IInv, TypeOK
  <2>4. ASSUME job'[c] = job[c], reply[c] = None
        PROVE  Built(vm[job[c].vm], todo[c], job[c]) /\ job[c] \in Jobs /\ job[c].op = "create"
    <3>1. Alone(c)
      BY <2>1, <2>4, StaysAlone DEF Alone
    <3> QED
      BY <2>3, <3>1 DEF AloneInvs, AloneInv, Alone
  <2>5. ASSUME NEW d \in Call, NEW j \in Jobs, Begin(d, j)
        PROVE  Built(vm'[job'[c].vm], todo'[c], job'[c])
    <3>1. job'[d] = j /\ j # None
      BY <2>3, <2>5, NoneAssumption DEF Begin
    <3>2. d = c
      BY <2>2, <3>1
    <3>3. todo'[c] = Commands(job'[c])
      BY <2>5, <3>1, <3>2 DEF Begin, IInv
    <3> QED
      BY <3>3 DEF Built
  <2>6. ASSUME NEW d \in Call, todo[d] # <<>>, job' = job PROVE d = c
    BY <2>2, <2>6, NextCommand
  <2>7. ASSUME NEW d \in Call, CommandWorks(d)
        PROVE  Built(vm'[job'[c].vm], todo'[c], job'[c])
    <3>1. job' = job /\ todo[d] # <<>>
      BY <2>7 DEF CommandWorks, Succeeded, Return, Continue
    <3>2. d = c /\ reply[c] = None
      BY <2>6, <3>1, NextCommand
    <3>3. /\ Can(Head(todo[c]), job[c]) /\ vm' = NewVM(Head(todo[c]), job[c])
          /\ Succeeded(c, Head(todo[c]))
      BY <2>7, <3>2 DEF CommandWorks, Effect
    <3>4. /\ Len(todo[c]) # 1 => Built(vm'[job[c].vm], Tail(todo[c]), job[c])
          /\ Head(todo[c]) \notin {"list vms", "list runningvms"}
      BY <2>3, <2>4, <3>1, <3>2, <3>3, CreateGoesOn
    <3>5. ~Return(c, "ok", <<>>)
      BY <2>3, NoneAssumption DEF Return, Alone
    <3>6. Len(todo[c]) # 1 /\ Continue(c, {})
      BY <3>3, <3>4, <3>5 DEF Succeeded
    <3>7. todo'[c] = Tail(todo[c])
      BY <3>6 DEF Continue, IInv
    <3> QED
      BY <3>1, <3>4, <3>6, <3>7
  <2>8. ASSUME NEW d \in Call, CommandFails(d) \/ CommandTimesOut(d) PROVE FALSE
    <3>1. job' = job /\ todo[d] # <<>> /\ reply' = [reply EXCEPT ![d] = "failed"]
      BY <2>8 DEF CommandFails, CommandTimesOut, Return
    <3> QED
      BY <2>3, <2>6, <3>1, NoneAssumption DEF Alone
  <2>9. ASSUME NEW d \in Call, TakeReply(d) \/ Kill(d)
        PROVE  Built(vm'[job'[c].vm], todo'[c], job'[c])
    <3>1. job' = [job EXCEPT ![d] = None] /\ job[d] # None /\ vm' = vm
      BY <2>9 DEF TakeReply, Kill, Reset, host, IInv, CallInv, Shape
    <3>2. d # c
      BY <2>3, <3>1 DEF Alone
    <3>3. job'[c] = job[c] /\ todo'[c] = todo[c] /\ reply[c] = None
      BY <2>3, <2>9, <3>2 DEF TakeReply, Kill, Reset, Alone, IInv
    <3> QED
      BY <2>4, <3>1, <3>3
  <2>10. ASSUME NEW v \in VM, GuestOff(v)
         PROVE  Built(vm'[job'[c].vm], todo'[c], job'[c])
    <3>1. job' = job /\ reply' = reply /\ todo' = todo /\ IsOn(v)
          /\ vm' = [vm EXCEPT ![v].power = "off"]
      BY <2>10 DEF GuestOff
    <3>2. Built(vm[job[c].vm], todo[c], job[c]) /\ job[c] \in Jobs /\ job[c].op = "create"
      BY <2>4, <3>1 DEF Alone
    <3>3. CASE v = job[c].vm
      <4>1. vm[v].power = "on"
        BY <3>1 DEF IsOn
      <4>2. vm[v] \notin {New, Sized(job[c]), WithSATA(job[c])}
        BY <4>1 DEF New, Sized, WithSATA
      <4>3. todo[c] = Commands(job[c])
        BY <3>2, <3>3, <4>2 DEF Built
      <4> QED
        BY <3>1, <4>3 DEF Built
    <3>4. CASE v # job[c].vm
      <4>1. vm'[job[c].vm] = vm[job[c].vm]
        BY <2>3, <3>1, <3>2, <3>4, JobFacts
      <4> QED
        BY <3>1, <3>2, <4>1
    <3> QED
      BY <3>3, <3>4
  <2> QED
    BY <1>2, <2>5, <2>7, <2>8, <2>9, <2>10 DEF Next
<1> QED
  BY <1>1, <1>2

LEMMA InitAlone == Init => AloneInvs
  BY DEF Init, AloneInvs, AloneInv, Alone

LEMMA AloneInvariance == Spec => [](IInv /\ AloneInvs)
  BY InitInv, NextInv, InitAlone, NextAlone, PTL DEF Spec

\* Only the last command of a create ends it with "ok", and it completes the machine.
LEMMA EndsComplete ==
  ASSUME IInv, AloneInvs, [Next]_vars, NEW c \in Call \ shared,
         Answers(c, "create"), reply'[c] = "ok"
  PROVE  Complete(vm'[job[c].vm], job[c])
<1>1. /\ job \in [Call -> Jobs \cup {None}] /\ reply \in [Call -> {"ok", "failed", None}]
      /\ vm \in [VM -> Machine \cup {None}]
  BY DEF IInv, TypeOK
<1>2. Built(vm[job[c].vm], todo[c], job[c]) /\ job[c] \in Jobs /\ job[c].op = "create"
  BY <1>1 DEF Answers, AloneInvs, AloneInv, Alone
<1>3. /\ todo[c] # <<>> /\ Can(Head(todo[c]), job[c])
      /\ vm' = NewVM(Head(todo[c]), job[c]) /\ Return(c, "ok", listed'[c])
      /\ Succeeded(c, Head(todo[c]))
  BY OkIsReturned DEF Answers, Effect
<1>4. /\ Len(todo[c]) = 1 => Complete(vm'[job[c].vm], job[c])
      /\ Head(todo[c]) \notin {"list vms", "list runningvms"}
  BY <1>1, <1>2, <1>3, CreateGoesOn
<1>5. Len(todo[c]) = 1
  BY <1>3, <1>4 DEF Answers, Succeeded, Continue
<1> QED
  BY <1>4, <1>5

\* When create (ops.go:143-160) says to a caller that is alone that the machine was
\* created, the machine has the CPUs and the disk that were asked for.
THEOREM CreatedMachinesAreComplete == Spec => CreatedIsComplete
<1> DEFINE Step == \A c \in Call \ shared : Answers(c, "create") /\ reply'[c] = "ok" =>
       vm'[job[c].vm] = [power |-> "off", cpus |-> job[c].cpus, sata |-> job[c].disk,
                         disk |-> IF job[c].disk THEN "own" ELSE None]
<1>1. ASSUME IInv, AloneInvs, [Next]_vars PROVE Step
  <2> SUFFICES ASSUME NEW c \in Call \ shared, Answers(c, "create"), reply'[c] = "ok"
               PROVE  vm'[job[c].vm] =
                        [power |-> "off", cpus |-> job[c].cpus, sata |-> job[c].disk,
                         disk |-> IF job[c].disk THEN "own" ELSE None]
    OBVIOUS
  <2>1. Complete(vm'[job[c].vm], job[c])
    BY <1>1, EndsComplete
  <2>2. job[c].disk \in BOOLEAN
    BY <1>1, CreateCommands DEF IInv, TypeOK, Answers
  <2> QED
    BY <2>1, <2>2 DEF Complete, Sized, WithDisk
<1>2. IInv /\ AloneInvs /\ [Next]_vars => [Step]_vars
  BY <1>1
<1>3. Spec => [][Step]_vars
  BY <1>2, AloneInvariance, PTL DEF Spec
<1> QED
  BY <1>3 DEF CreatedIsComplete
-----------------------------------------------------------------------------
(* The contract of the Ops interface.                                      *)

Later == {"modifyvm", "storagectl", "createmedium", "storageattach"}

\* A call that is under way has all its commands before it, but for a list, and for a
\* create that made its machine with its first command.
Plan(c) == job[c] # None /\ reply[c] = None =>
             /\ todo[c] # <<>>
             /\ \/ todo[c] = Commands(job[c])
                \/ job[c].op = "create" /\ todo[c] \in Seq(Later)
                \/ job[c].op = "list"

Plans == \A c \in Call : Plan(c)

LEMMA FirstCommand ==
  ASSUME NEW j \in Jobs
  PROVE  /\ Commands(j) # <<>>
         /\ j.op = "create" => /\ Head(Commands(j)) = "createvm" /\ Len(Commands(j)) # 1
                               /\ Tail(Commands(j)) \in Seq(Later) \ {<<>>}
         /\ j.op \notin {"create", "list"} =>
              /\ Len(Commands(j)) = 1
              /\ Head(Commands(j)) = IF j.op # "stop" THEN j.op
                                     ELSE IF j.hard THEN "poweroff" ELSE "acpipowerbutton"
<1>1. CASE j.op = "create"
  <2> SUFFICES /\ Commands(j) # <<>> /\ Head(Commands(j)) = "createvm" /\ Len(Commands(j)) # 1
               /\ Tail(Commands(j)) \in Seq(Later) \ {<<>>}
    BY <1>1
  <2>1. CASE j.disk
    <3> DEFINE rest == <<"modifyvm", "storagectl", "createmedium", "storageattach">>
    <3>1. Commands(j) = <<"createvm", "modifyvm", "storagectl", "createmedium", "storageattach">>
      BY <1>1, <2>1, CreateCommands
    <3>2. Head(Commands(j)) = "createvm" /\ Len(Commands(j)) = 5 /\ Tail(Commands(j)) = rest
      BY <3>1, Five, Zenon
    <3>3. rest \in Seq(Later) /\ rest # <<>> /\ Commands(j) # <<>>
      BY <3>1 DEF Later
    <3> HIDE DEF rest
    <3>4. Len(Commands(j)) = 5 => Len(Commands(j)) # 1
      OBVIOUS
    <3> QED
      BY <3>2, <3>3, <3>4, Zenon
  <2>2. CASE ~j.disk
    <3>1. Commands(j) = <<"createvm", "modifyvm">>
      BY <1>1, <2>2, CreateCommands
    <3>2. Head(Commands(j)) = "createvm" /\ Len(Commands(j)) = 2
          /\ Tail(Commands(j)) = <<"modifyvm">>
      BY <3>1, TwoOne
    <3>3. Tail(Commands(j)) \in Seq(Later) \ {<<>>} /\ Commands(j) # <<>>
      BY <3>1, <3>2 DEF Later
    <3> QED
      BY <3>2, <3>3
  <2> QED
    BY <2>1, <2>2
<1>2. CASE j.op = "list"
  <2>1. Commands(j) = Both /\ Both # <<>>
    BY <1>2, CommandsAllowed DEF Both
  <2> QED
    BY <1>2, <2>1
<1>3. CASE j.op = "stop"
  <2> DEFINE cmd == IF j.hard THEN "poweroff" ELSE "acpipowerbutton"
  <2>1. Commands(j) = <<cmd>>
    BY <1>3 DEF Commands
  <2> HIDE DEF cmd
  <2>2. Head(<<cmd>>) = cmd /\ Len(<<cmd>>) = 1 /\ <<cmd>> # <<>>
    BY TwoOne
  <2> QED
    BY <1>3, <2>1, <2>2 DEF cmd
<1>4. CASE j.op \notin {"create", "list", "stop"}
  <2>1. Commands(j) = <<j.op>>
    BY <1>4 DEF Commands
  <2>2. Head(<<j.op>>) = j.op /\ Len(<<j.op>>) = 1 /\ <<j.op>> # <<>>
    BY TwoOne
  <2> QED
    BY <1>4, <2>1, <2>2
<1> QED
  BY <1>1, <1>2, <1>3, <1>4

LEMMA LaterCommand ==
  ASSUME NEW rest \in Seq(Later), rest # <<>>
  PROVE  /\ Head(rest) \in Later /\ Tail(rest) \in Seq(Later)
         /\ Len(rest) # 1 => Tail(rest) # <<>>
<1>1. /\ Head(rest) \in Later /\ Tail(rest) \in Seq(Later)
      /\ Len(rest) \in Nat /\ Len(rest) # 0 /\ Len(Tail(rest)) = Len(rest) - 1
  BY HeadTailProperties, LenProperties, EmptySeq
<1> QED
  BY <1>1, EmptySeq

\* What a call that is under way may do next.
LEMMA PlanFacts ==
  ASSUME IInv, Plans, NEW c \in Call, todo[c] # <<>>
  PROVE  /\ job[c] \in Jobs /\ job[c] # None /\ reply[c] = None
         /\ \/ /\ job[c].op = "create" /\ Phase(c) = "asked" /\ Head(todo[c]) = "createvm"
               /\ Len(todo[c]) # 1 /\ Tail(todo[c]) \in Seq(Later) \ {<<>>}
            \/ /\ job[c].op = "create" /\ Phase(c) = "acted" /\ Head(todo[c]) \in Later
               /\ Tail(todo[c]) \in Seq(Later) /\ (Len(todo[c]) # 1 => Tail(todo[c]) # <<>>)
            \/ /\ job[c].op = "list" /\ Phase(c) = "asked"
               /\ \/ Head(todo[c]) = "list vms" /\ Tail(todo[c]) # <<>>
                  \/ Head(todo[c]) = "list runningvms"
            \/ /\ job[c].op \notin {"create", "list"} /\ Phase(c) = "asked" /\ Len(todo[c]) = 1
               /\ Head(todo[c]) = IF job[c].op # "stop" THEN job[c].op
                                  ELSE IF job[c].hard THEN "poweroff" ELSE "acpipowerbutton"
<1>1. /\ job[c] \in Jobs /\ job[c] # None /\ reply[c] = None /\ Plan(c)
  BY NextCommand DEF Plans
<1>2. Phase(c) = IF job[c].op = "create" /\ todo[c] # Commands(job[c]) THEN "acted" ELSE "asked"
  BY <1>1 DEF Phase
<1>3. CASE todo[c] = Commands(job[c]) /\ job[c].op # "list"
  BY <1>1, <1>2, <1>3, FirstCommand
<1>4. CASE job[c].op = "create" /\ todo[c] # Commands(job[c])
  BY <1>1, <1>2, <1>4, LaterCommand DEF Plan
<1>5. CASE job[c].op = "list"
  <2>1. Lists(c)
    BY <1>1, <1>5 DEF Lists
  <2>2. Tail(Both) # <<>>
    BY TailOfTwo DEF Both
  <2>3. \/ Head(todo[c]) = "list vms" /\ Tail(todo[c]) # <<>>
        \/ Head(todo[c]) = "list runningvms"
    BY <2>1, <2>2, ListsWhat
  <2> QED
    BY <1>1, <1>2, <1>5, <2>3
<1> QED
  BY <1>1, <1>3, <1>4, <1>5 DEF Plan

\* The commands that are left of a create are not all its commands.
LEMMA ActedIsLate ==
  ASSUME NEW j \in Jobs, j.op = "create", NEW rest \in Seq(Later), rest # <<>>
  PROVE  rest # Commands(j)
<1>1. Head(rest) \in Later /\ Head(Commands(j)) = "createvm"
  BY FirstCommand, LaterCommand
<1> QED
  BY <1>1 DEF Later

\* A call that does nothing in a step.
Idles(e) == job'[e] = job[e] /\ todo'[e] = todo[e] /\ reply'[e] = reply[e]

LEMMA BeginDoes ==
  ASSUME IInv, NEW c \in Call, NEW j \in Jobs, Begin(c, j)
  PROVE  /\ job[c] = None /\ job'[c] = j /\ todo'[c] = Commands(j) /\ reply'[c] = None
         /\ vm' = vm /\ reply' = reply /\ j # None
         /\ \A e \in Call \ {c} : Idles(e)
<1>1. job \in [Call -> Jobs \cup {None}] /\ todo = [e \in Call |-> todo[e]] /\ Shape(c)
  BY DEF IInv, TypeOK, CallInv
<1> QED
  BY <1>1, NoneAssumption DEF Begin, host, Shape, Idles

LEMMA ReturnDoes ==
  ASSUME IInv, NEW c \in Call, NEW answer, NEW list, Return(c, answer, list)
  PROVE  /\ todo'[c] = <<>> /\ reply'[c] = answer /\ job' = job
         /\ reply' = [reply EXCEPT ![c] = answer]
         /\ \A e \in Call \ {c} : Idles(e)
<1>1. todo = [e \in Call |-> todo[e]] /\ reply \in [Call -> {"ok", "failed", None}]
  BY DEF IInv, TypeOK
<1> QED
  BY <1>1 DEF Return, Idles

LEMMA ContinueDoes ==
  ASSUME IInv, NEW c \in Call, NEW found, Continue(c, found)
  PROVE  /\ todo'[c] = Tail(todo[c]) /\ job' = job /\ reply' = reply
         /\ \A e \in Call \ {c} : Idles(e)
<1>1. todo = [e \in Call |-> todo[e]]
  BY DEF IInv
<1> QED
  BY <1>1 DEF Continue, Idles

LEMMA ResetDoes ==
  ASSUME IInv, NEW c \in Call, Reset(c)
  PROVE  /\ job'[c] = None /\ reply'[c] = None /\ reply' = [reply EXCEPT ![c] = None]
         /\ vm' = vm
         /\ \A e \in Call \ {c} : Idles(e)
<1>1. /\ job \in [Call -> Jobs \cup {None}] /\ todo = [e \in Call |-> todo[e]]
      /\ reply \in [Call -> {"ok", "failed", None}]
  BY DEF IInv, TypeOK
<1> QED
  BY <1>1 DEF Reset, host, Idles

\* How a command that has worked goes on: with the answer, or with the next.
LEMMA SucceededDoes ==
  ASSUME IInv, Plans, NEW c \in Call, todo[c] # <<>>, Succeeded(c, Head(todo[c]))
  PROVE  \/ \E list : Return(c, "ok", list)
         \/ \E found : Continue(c, found) /\ Tail(todo[c]) # <<>>
<1>1. \/ \E list : Return(c, "ok", list)
      \/ \E found : Continue(c, found) /\ (Len(todo[c]) # 1 \/ Head(todo[c]) = "list vms")
  <2>1. CASE Head(todo[c]) = "list vms"
    BY <2>1 DEF Succeeded
  <2>2. CASE Head(todo[c]) # "list vms"
    BY <2>2 DEF Succeeded
  <2> QED
    BY <2>1, <2>2
<1>2. Len(todo[c]) # 1 \/ Head(todo[c]) = "list vms" =>
        Tail(todo[c]) # <<>> \/ Head(todo[c]) = "list runningvms"
  <2>1. Tail(Both) # <<>>
    BY TailOfTwo DEF Both
  <2>2. Head(todo[c]) = "list vms" => Tail(todo[c]) # <<>>
    BY <2>1, ListsWhat
  <2> QED
    BY <2>2, PlanFacts, Zenon
<1>3. Head(todo[c]) = "list runningvms" => \E list : Return(c, "ok", list)
  BY DEF Succeeded
<1> QED
  BY <1>1, <1>2, <1>3

LEMMA InitPlans == Init => Plans
  BY DEF Init, Plans, Plan

LEMMA NextPlans == IInv /\ Plans /\ [Next]_vars => Plans'
<1> SUFFICES ASSUME IInv, Plans, [Next]_vars PROVE Plans'
  OBVIOUS
<1>0. ASSUME NEW e \in Call, Idles(e) PROVE Plan(e)'
  BY <1>0 DEF Plans, Plan, Idles
<1>1. ASSUME NEW c \in Call, Plan(c)', \A e \in Call \ {c} : Idles(e) PROVE Plans'
  BY <1>0, <1>1 DEF Plans
<1>2. ASSUME NEW c \in Call, NEW j \in Jobs, Begin(c, j) PROVE Plans'
  <2>1. Plan(c)'
    BY <1>2, BeginDoes, FirstCommand DEF Plan
  <2> QED
    BY <1>1, <1>2, <2>1, BeginDoes
<1>3. ASSUME NEW c \in Call, CommandWorks(c) PROVE Plans'
  <2>1. todo[c] # <<>> /\ Succeeded(c, Head(todo[c]))
    BY <1>3 DEF CommandWorks
  <2>2. ASSUME NEW list, Return(c, "ok", list) PROVE Plans'
    BY <1>1, <2>2, ReturnDoes, NoneAssumption DEF Plan
  <2>3. ASSUME NEW found, Continue(c, found), Tail(todo[c]) # <<>> PROVE Plans'
    <3>1. todo'[c] = Tail(todo[c]) /\ job' = job /\ \A e \in Call \ {c} : Idles(e)
      BY <2>3, ContinueDoes
    <3>2. \/ job[c].op = "create" /\ Tail(todo[c]) \in Seq(Later)
          \/ job[c].op = "list"
          \/ Len(todo[c]) = 1 /\ job[c].op \notin {"create", "list"}
      BY <2>1, PlanFacts
    <3>3. CASE Len(todo[c]) = 1 /\ job[c].op \notin {"create", "list"}
      <4>1. todo[c] \in Seq(CommandNames) /\ Len(Tail(todo[c])) = 0
            /\ Tail(todo[c]) \in Seq(CommandNames)
        BY <2>1, <3>3, HeadTailProperties DEF IInv, TypeOK
      <4> QED
        BY <2>3, <4>1, EmptySeq
    <3> QED
      BY <1>1, <2>3, <3>1, <3>2, <3>3 DEF Plan
  <2> QED
    BY <2>1, <2>2, <2>3, SucceededDoes
<1>4. ASSUME NEW c \in Call, CommandFails(c) \/ CommandTimesOut(c) PROVE Plans'
  <2>1. Return(c, "failed", <<>>)
    BY <1>4 DEF CommandFails, CommandTimesOut
  <2> QED
    BY <1>1, <2>1, ReturnDoes, NoneAssumption DEF Plan
<1>5. ASSUME NEW c \in Call, TakeReply(c) \/ Kill(c) PROVE Plans'
  <2>1. Reset(c)
    BY <1>5 DEF TakeReply, Kill
  <2> QED
    BY <1>1, <2>1, ResetDoes DEF Plan
<1>6. CASE UNCHANGED vars \/ \E v \in VM : GuestOff(v)
  BY <1>0, <1>6 DEF vars, GuestOff, Idles, Plans
<1> QED
  BY <1>2, <1>3, <1>4, <1>5, <1>6 DEF Next

LEMMA PlanInvariance == Spec => [](IInv /\ Plans)
  BY InitInv, NextInv, InitPlans, NextPlans, PTL DEF Spec

\* What the contract sees.
States == [v \in VM |-> RefState(v)]
Phases == [e \in Call |-> Phase(e)]
Intents == [e \in Call |-> IF job[e] = None THEN None ELSE Intended(job[e])]

\* A step of one call is seen in that call only.
LEMMA OneCallSeen ==
  ASSUME NEW c \in Call, \A e \in Call \ {c} : Idles(e)
  PROVE  /\ Phases' = [Phases EXCEPT ![c] = Phase(c)']
         /\ Intents' = [Intents EXCEPT ![c] = IF job'[c] = None THEN None
                                              ELSE Intended(job'[c])]
         /\ job'[c] = job[c] => Intents' = Intents
<1>1. \A e \in Call \ {c} : Phase(e)' = Phase(e) /\ job'[e] = job[e]
  BY DEF Idles, Phase
<1> QED
  BY <1>1 DEF Phases, Intents

\* Of a machine that is given another value, and of the others.
LEMMA OneMachineSeen ==
  ASSUME vm \in [VM -> Machine \cup {None}], NEW v \in VM, NEW m, vm' = [vm EXCEPT ![v] = m]
  PROVE  /\ m = None => States' = [States EXCEPT ![v] = "absent"]
         /\ m # None /\ m.power = "on" => States' = [States EXCEPT ![v] = "running"]
         /\ m # None /\ m.power = "off" => States' = [States EXCEPT ![v] = "stopped"]
         /\ m # None /\ m.power = "saved" => States' = [States EXCEPT ![v] = "suspended"]
<1>1. \A w \in VM : vm'[w] = IF w = v THEN m ELSE vm[w]
  OBVIOUS
<1> QED
  BY <1>1 DEF States, RefState, Exists

LEMMA IntendedFacts ==
  ASSUME NEW j \in Jobs
  PROVE  /\ Intended(j).op = IF j.op = "stop" /\ ~j.hard THEN "press button" ELSE j.op
         /\ j.op \notin {"list", "clone"} => Intended(j).of = {j.vm}
         /\ j.op = "clone" => Intended(j).of = {j.dest}
<1>1. Intended(j).of = CASE j.op = "list" -> {}
                         [] j.op = "clone" -> {j.dest}
                         [] OTHER -> {j.vm}
  BY DEF Intended
<1>2. Intended(j).op = IF j.op = "stop" /\ ~j.hard THEN "press button" ELSE j.op
  BY DEF Intended
<1> QED
  BY <1>1, <1>2

\* A machine that j means goes to another state, as j's operation says.
Moved(j) == \E m \in Intended(j).of, new \in {"absent", "stopped", "running", "suspended"} :
              /\ Contract!Becomes(Intended(j).op, States[m], new)
              /\ States' = [States EXCEPT ![m] = new]

LEMMA MovedOne ==
  ASSUME NEW j, NEW m, NEW new \in {"absent", "stopped", "running", "suspended"},
         Intended(j).of = {m}, Contract!Becomes(Intended(j).op, States[m], new),
         States' = [States EXCEPT ![m] = new]
  PROVE  Moved(j)
  BY DEF Moved

\* The first command does what the operation is for, the others change no state.
LEMMA CommandSeen ==
  ASSUME IInv, Plans, NEW c \in Call, todo[c] # <<>>,
         Can(Head(todo[c]), job[c]), Effect(Head(todo[c]), job[c])
  PROVE  \/ /\ Phase(c) = "asked" /\ Intended(job[c]).op \in Contract!Changing
            /\ Moved(job[c])
         \/ /\ Phase(c) = "acted" \/ Intended(job[c]).op \notin Contract!Changing
            /\ States' = States
<1> DEFINE j == job[c]
           cmd == Head(todo[c])
<1> SUFFICES \/ /\ Phase(c) = "asked" /\ Intended(j).op \in Contract!Changing
                /\ Moved(j)
             \/ /\ Phase(c) = "acted" \/ Intended(j).op \notin Contract!Changing
                /\ States' = States
  OBVIOUS
<1>1. /\ j \in Jobs /\ vm \in [VM -> Machine \cup {None}]
      /\ vm' = NewVM(cmd, j) /\ Can(cmd, j)
  BY PlanFacts DEF IInv, TypeOK, Effect
<1>2. /\ j.op \in Ops /\ (j.op # "list" => j.vm \in VM) /\ (j.op = "clone" => j.dest \in VM)
      /\ (j.op \in {"create", "resources"} => j.cpus \in CPUs)
  BY <1>1, JobFacts
<1>3. \/ j.op = "create" /\ Phase(c) = "asked" /\ cmd = "createvm"
      \/ j.op = "create" /\ Phase(c) = "acted" /\ cmd \in Later
      \/ j.op = "list" /\ Phase(c) = "asked" /\ cmd \in {"list vms", "list runningvms"}
      \/ j.op = "stop" /\ ~j.hard /\ Phase(c) = "asked" /\ cmd = "acpipowerbutton"
      \/ j.op = "stop" /\ j.hard /\ Phase(c) = "asked" /\ cmd = "poweroff"
      \/ j.op \notin {"create", "list", "stop"} /\ Phase(c) = "asked" /\ cmd = j.op
  BY PlanFacts, Zenon
<1> HIDE DEF cmd, j
<1> USE DEF Contract!Changing
<1>4. \A v \in VM : States[v] = RefState(v)
  BY DEF States
<1>5. ASSUME NEW v \in VM, IsOff(v), NEW m, m # None, m.power = "off",
             vm' = [vm EXCEPT ![v] = m]
      PROVE  States' = States
  <2>1. States' = [States EXCEPT ![v] = "stopped"]
    BY <1>1, <1>5, OneMachineSeen
  <2>2. States[v] = "stopped" /\ States = [w \in VM |-> States[w]]
    BY <1>4, <1>5 DEF IsOff, RefState, States
  <2> QED
    BY <2>1, <2>2
<1>6. vm' = vm => States' = States
  BY DEF States, RefState, Exists
<1>7. CASE cmd \in {"createvm", "import"}
  <2> DEFINE m == IF cmd = "createvm" THEN New ELSE Image
  <2>1. /\ j.op = IF cmd = "createvm" THEN "create" ELSE "import"
        /\ Phase(c) = "asked" /\ j.vm \in VM
        /\ vm' = [vm EXCEPT ![j.vm] = m] /\ States[j.vm] = "absent"
    BY <1>1, <1>2, <1>3, <1>4, <1>7 DEF NewVM, Can, RefState, Later, Ops
  <2>2. m \in Machine /\ m.power = "off"
    BY DEF New, Image, Machine
  <2> HIDE DEF m
  <2>3. States' = [States EXCEPT ![j.vm] = "stopped"]
    BY <1>1, <2>1, <2>2, OneMachineSeen, NoneAssumption
  <2> QED
    BY <1>1, <1>7, <2>1, <2>3, IntendedFacts, MovedOne DEF Contract!Becomes
<1>8. CASE cmd \in {"modifyvm", "resources", "storagectl", "storageattach"}
  <2>1. /\ j.op \in {"create", "resources"} /\ j.vm \in VM
        /\ j.op = "create" => Phase(c) = "acted"
        /\ IsOff(j.vm) /\ vm[j.vm] \in Machine
    BY <1>1, <1>2, <1>3, <1>8 DEF Can, Later, IsOff, Exists, Ops
  <2>2. PICK m : m = CASE cmd \in {"modifyvm", "resources"} -> [vm[j.vm] EXCEPT !.cpus = j.cpus]
                       [] cmd = "storagectl" -> [vm[j.vm] EXCEPT !.sata = TRUE]
                       [] cmd = "storageattach" -> [vm[j.vm] EXCEPT !.disk = "own"]
    OBVIOUS
  <2>3. vm' = [vm EXCEPT ![j.vm] = m]
    BY <1>1, <1>8, <2>2 DEF NewVM
  <2>4. m \in Machine /\ m.power = "off"
    <3>1. vm[j.vm].power = "off"
      BY <2>1 DEF IsOff
    <3>2. CASE cmd \in {"modifyvm", "resources"}
      <4>1. m = [vm[j.vm] EXCEPT !.cpus = j.cpus] /\ j.cpus \in CPUs
        BY <1>2, <2>1, <2>2, <3>2
      <4> QED
        BY <2>1, <3>1, <4>1 DEF Machine
    <3>3. CASE cmd = "storagectl"
      <4>1. m = [vm[j.vm] EXCEPT !.sata = TRUE]
        BY <2>2, <3>3
      <4> QED
        BY <2>1, <3>1, <4>1 DEF Machine
    <3>4. CASE cmd = "storageattach"
      <4>1. m = [vm[j.vm] EXCEPT !.disk = "own"]
        BY <2>2, <3>4
      <4> QED
        BY <2>1, <3>1, <4>1 DEF Machine
    <3> QED
      BY <1>8, <3>2, <3>3, <3>4
  <2>5. States' = States
    BY <1>5, <2>1, <2>3, <2>4, NoneAssumption
  <2> QED
    BY <1>1, <2>1, <2>5, IntendedFacts
<1>9. CASE cmd \in {"start", "poweroff", "suspend"}
  <2>1. /\ j.op = IF cmd = "poweroff" THEN "stop" ELSE cmd
        /\ cmd = "poweroff" => j.hard
        /\ j.vm \in VM /\ vm[j.vm] \in Machine
    BY <1>1, <1>2, <1>3, <1>9 DEF Can, Later, IsOn, Exists, Ops
  <2>2. PICK s \in {"on", "off", "saved"} : /\ vm' = [vm EXCEPT ![j.vm].power = s]
                                            /\ cmd = "start" => s = "on"
                                            /\ cmd = "poweroff" => s = "off"
                                            /\ cmd = "suspend" => s = "saved"
    BY <1>1, <1>9 DEF NewVM
  <2> DEFINE m == [vm[j.vm] EXCEPT !.power = s]
  <2>3. vm' = [vm EXCEPT ![j.vm] = m] /\ m \in Machine /\ m.power = s
    BY <2>1, <2>2 DEF Machine
  <2> HIDE DEF m
  <2>4. States[j.vm] \in IF cmd = "start" THEN {"stopped", "suspended"} ELSE {"running"}
    BY <1>1, <1>4, <1>9, <2>1 DEF Can, IsOn, RefState, Machine
  <2>5. States' = [States EXCEPT ![j.vm] = CASE cmd = "start" -> "running"
                                             [] cmd = "poweroff" -> "stopped"
                                             [] cmd = "suspend" -> "suspended"]
    BY <1>1, <1>9, <2>1, <2>2, <2>3, OneMachineSeen, NoneAssumption
  <2>6. Intended(j).op = j.op /\ Intended(j).of = {j.vm}
    BY <1>1, <1>9, <2>1, IntendedFacts
  <2>7. Moved(j) /\ j.op \in Contract!Changing
    BY <1>9, <2>1, <2>4, <2>5, <2>6, MovedOne DEF Contract!Becomes
  <2> QED
    BY <1>3, <1>9, <2>1, <2>6, <2>7 DEF Later
<1>10. CASE cmd = "delete"
  <2>1. j.op = "delete" /\ Phase(c) = "asked" /\ j.vm \in VM /\ vm' = [vm EXCEPT ![j.vm] = None]
    BY <1>1, <1>2, <1>3, <1>10 DEF NewVM, Later
  <2>2. States[j.vm] \in {"stopped", "suspended"}
    BY <1>1, <1>4, <1>10, <2>1 DEF Can, IsOn, RefState
  <2>3. States' = [States EXCEPT ![j.vm] = "absent"]
    BY <1>1, <2>1, OneMachineSeen
  <2> QED
    BY <1>1, <2>1, <2>2, <2>3, IntendedFacts, MovedOne DEF Contract!Becomes
<1>11. CASE cmd = "clone"
  <2> DEFINE m == [vm[j.vm] EXCEPT !.disk = IF @ = None THEN None ELSE "image"]
  <2>1. /\ j.op = "clone" /\ Phase(c) = "asked" /\ vm' = [vm EXCEPT ![j.dest] = m]
        /\ j.dest \in VM /\ vm[j.vm] \in Machine
        /\ vm[j.vm].power = "off" /\ States[j.dest] = "absent"
    BY <1>1, <1>2, <1>3, <1>4, <1>11 DEF NewVM, Can, IsOff, Exists, RefState, Later
  <2>2. m \in Machine /\ m.power = "off"
    BY <2>1 DEF Machine
  <2> HIDE DEF m
  <2>3. States' = [States EXCEPT ![j.dest] = "stopped"]
    BY <1>1, <2>1, <2>2, OneMachineSeen, NoneAssumption
  <2> QED
    BY <1>1, <2>1, <2>3, IntendedFacts, MovedOne DEF Contract!Becomes
<1>12. CASE cmd \in {"createmedium", "attach_iso", "acpipowerbutton", "reset", "export"}
  <2>1. vm' = vm
    BY <1>1, <1>12 DEF NewVM
  <2>2. Phase(c) = "acted" \/ Intended(j).op \notin Contract!Changing
    <3>1. \/ Phase(c) = "acted"
          \/ j.op \in {"attach_iso", "reset", "export"}
          \/ j.op = "stop" /\ ~j.hard
      BY <1>2, <1>3, <1>12 DEF Ops
    <3> QED
      BY <1>1, <3>1, IntendedFacts
  <2> QED
    BY <1>6, <2>1, <2>2
<1>13. CASE cmd \in {"list vms", "list runningvms"}
  <2>1. vm' = vm
    BY <1>1, <1>13 DEF NewVM
  <2>2. j.op = "list"
    <3>1. cmd \notin Later \cup {"createvm", "acpipowerbutton", "poweroff"} \cup Ops
      BY <1>13 DEF Later, Ops
    <3> QED
      BY <1>2, <1>3, <3>1
  <2> QED
    BY <1>1, <1>6, <2>1, <2>2, IntendedFacts
<1>14. cmd \in CommandNames
  BY NextCommand DEF cmd
<1> QED
  BY <1>7, <1>8, <1>9, <1>10, <1>11, <1>12, <1>13, <1>14 DEF CommandNames

\* A call is answered, as clients of the contract see it.
LEMMA ReturnSeen ==
  ASSUME IInv, Plans, NEW c \in Call, todo[c] # <<>>, NEW answer \in {"ok", "failed"},
         NEW list, Return(c, answer, list)
  PROVE  Contract!Return(c, answer)
<1>1. /\ reply'[c] = answer /\ job' = job /\ reply' = [reply EXCEPT ![c] = answer]
      /\ \A e \in Call \ {c} : Idles(e)
  BY ReturnDoes
<1>2. job[c] # None /\ answer # None
  BY PlanFacts, NoneAssumption
<1>3. Phase(c)' = "done"
  BY <1>1, <1>2 DEF Phase
<1>4. Phases' = [Phases EXCEPT ![c] = "done"] /\ Intents' = Intents
  BY <1>1, <1>3, OneCallSeen
<1> QED
  BY <1>1, <1>4 DEF Contract!Return, Phases, Intents

\* A command changes the machine that the call means.
LEMMA MovedChanges ==
  ASSUME NEW c \in Call, job[c] # None, Moved(job[c])
  PROVE  Contract!Changes(c)
<1>1. Intents[c] = Intended(job[c])
  BY DEF Intents
<1> QED
  BY <1>1 DEF Moved, Contract!Changes, States, Intents

LEMMA WorksSeen ==
  ASSUME IInv, Plans, NEW c \in Call, CommandWorks(c)
  PROVE  Contract!Act(c) \/ Contract!Succeed(c) \/ UNCHANGED Contract!vars
<1>1. /\ todo[c] # <<>> /\ Can(Head(todo[c]), job[c]) /\ Effect(Head(todo[c]), job[c])
      /\ Succeeded(c, Head(todo[c]))
  BY DEF CommandWorks
<1>2. /\ job[c] \in Jobs /\ job[c] # None /\ reply[c] = None
      /\ Phases[c] = Phase(c) /\ Intents[c] = Intended(job[c])
  BY <1>1, PlanFacts DEF Phases, Intents
<1>3. \/ Phase(c) = "asked" /\ Intended(job[c]).op \in Contract!Changing /\ Contract!Changes(c)
      \/ /\ Phase(c) = "acted" \/ Intended(job[c]).op \notin Contract!Changing
         /\ States' = States
  BY <1>1, <1>2, CommandSeen, MovedChanges
<1>4. Phase(c) \in {"asked", "acted"}
  BY <1>1, PlanFacts
<1>5. ASSUME NEW list, Return(c, "ok", list) PROVE Contract!Succeed(c)
  <2>1. Contract!Return(c, "ok")
    BY <1>1, <1>5, ReturnSeen
  <2> QED
    BY <1>2, <1>3, <1>4, <2>1 DEF Contract!Succeed, Phases, Intents, States
<1>6. ASSUME NEW found, Continue(c, found), Tail(todo[c]) # <<>>
      PROVE  Contract!Act(c) \/ UNCHANGED Contract!vars
  <2>1. /\ todo'[c] = Tail(todo[c]) /\ job' = job /\ reply' = reply
        /\ \A e \in Call \ {c} : Idles(e)
    BY <1>6, ContinueDoes
  <2>2. Phases' = [Phases EXCEPT ![c] = Phase(c)'] /\ Intents' = Intents
    BY <2>1, OneCallSeen
  <2>3. Phase(c)' = IF job[c].op = "create" /\ Tail(todo[c]) # Commands(job[c])
                    THEN "acted" ELSE "asked"
    BY <1>2, <2>1 DEF Phase
  <2>4. CASE job[c].op = "create"
    <3>1. Tail(todo[c]) \in Seq(Later)
      BY <1>1, <2>4, PlanFacts
    <3>2. Phase(c)' = "acted"
      BY <1>2, <1>6, <2>3, <2>4, <3>1, ActedIsLate
    <3>3. CASE Phase(c) = "asked"
      <4>1. Intended(job[c]).op = "create"
        BY <1>2, <2>4, IntendedFacts
      <4>2. Contract!Changes(c)
        BY <1>3, <3>3, <4>1 DEF Contract!Changing
      <4> QED
        BY <1>2, <2>1, <2>2, <3>2, <3>3, <4>2 DEF Contract!Act, Phases, Intents
    <3>4. CASE Phase(c) = "acted"
      <4>1. Phases' = Phases
        BY <1>2, <2>2, <3>2, <3>4 DEF Phases
      <4>2. States' = States
        BY <1>3, <3>4
      <4> QED
        BY <2>1, <2>2, <4>1, <4>2 DEF Contract!vars, Phases, Intents, States
    <3> QED
      BY <1>4, <3>3, <3>4
  <2>5. CASE job[c].op # "create"
    <3>1. Phase(c)' = "asked" /\ Phase(c) = "asked"
      BY <1>1, <2>3, <2>5, PlanFacts
    <3>2. Phases' = Phases
      BY <1>2, <2>2, <3>1 DEF Phases
    <3>3. job[c].op = "list"
      <4>1. todo[c] \in Seq(CommandNames) /\ (Len(todo[c]) = 1 => Len(Tail(todo[c])) = 0)
            /\ Tail(todo[c]) \in Seq(CommandNames)
        BY <1>1, HeadTailProperties DEF IInv, TypeOK
      <4>2. Len(todo[c]) # 1
        BY <1>6, <4>1, EmptySeq
      <4> QED
        BY <1>1, <2>5, <4>2, PlanFacts, Zenon
    <3>4. Intended(job[c]).op \notin Contract!Changing
      BY <1>2, <3>3, IntendedFacts DEF Contract!Changing
    <3>5. States' = States
      BY <1>3, <3>4
    <3> QED
      BY <2>1, <2>2, <3>2, <3>5 DEF Contract!vars, Phases, Intents, States
  <2> QED
    BY <2>4, <2>5
<1> QED
  BY <1>1, <1>5, <1>6, SucceededDoes

\* Every step of the adapter is a step of the contract, or changes nothing in it.
LEMMA ContractStep == IInv /\ Plans /\ [Next]_vars => [Contract!Next]_(Contract!vars)
<1> SUFFICES ASSUME IInv, Plans, [Next]_vars PROVE Contract!Next \/ UNCHANGED Contract!vars
  OBVIOUS
<1>1. ASSUME NEW c \in Call, NEW j \in Jobs, Begin(c, j) PROVE Contract!Ask(c, Intended(j))
  <2>1. /\ job[c] = None /\ job'[c] = j /\ todo'[c] = Commands(j) /\ reply'[c] = None
        /\ vm' = vm /\ reply' = reply /\ j # None /\ \A e \in Call \ {c} : Idles(e)
    BY <1>1, BeginDoes
  <2>2. Phase(c) = "idle" /\ Phase(c)' = "asked" /\ Phases[c] = Phase(c)
    BY <2>1 DEF Phase, Phases
  <2>3. Phases' = [Phases EXCEPT ![c] = "asked"] /\ Intents' = [Intents EXCEPT ![c] = Intended(j)]
    BY <2>1, <2>2, OneCallSeen
  <2>4. States' = States
    BY <2>1 DEF States, RefState, Exists
  <2> QED
    BY <2>1, <2>2, <2>3, <2>4 DEF Contract!Ask, Phases, Intents, States
<1>2. ASSUME NEW c \in Call, CommandFails(c) \/ CommandTimesOut(c) PROVE Contract!Fail(c)
  <2>1. todo[c] # <<>> /\ Return(c, "failed", <<>>)
    BY <1>2 DEF CommandFails, CommandTimesOut
  <2>2. Contract!Return(c, "failed") /\ Phase(c) \in {"asked", "acted"} /\ job[c] # None
        /\ Phases[c] = Phase(c)
    BY <2>1, ReturnSeen, PlanFacts DEF Phases
  <2>3. States' = States \/ (Phase(c) = "asked" /\ Contract!Changes(c))
    <3>1. CASE CommandFails(c)
      BY <3>1 DEF CommandFails, host, States, RefState, Exists
    <3>2. CASE CommandTimesOut(c)
      BY <2>1, <2>2, <3>2, CommandSeen, MovedChanges DEF CommandTimesOut
    <3> QED
      BY <1>2, <3>1, <3>2
  <2> QED
    BY <2>2, <2>3 DEF Contract!Fail, Phases, States
<1>3. ASSUME NEW c \in Call, TakeReply(c) \/ Kill(c) PROVE Contract!End(c)
  <2>1. Reset(c) /\ job[c] # None
    BY <1>3 DEF TakeReply, Kill, IInv, CallInv, Shape
  <2>2. /\ job'[c] = None /\ reply' = [reply EXCEPT ![c] = None] /\ vm' = vm
        /\ \A e \in Call \ {c} : Idles(e)
    BY <2>1, ResetDoes
  <2>3. Phase(c) # "idle" /\ Phase(c)' = "idle" /\ Phases[c] = Phase(c)
    BY <2>1, <2>2 DEF Phase, Phases
  <2>4. Phases' = [Phases EXCEPT ![c] = "idle"] /\ Intents' = [Intents EXCEPT ![c] = None]
    BY <2>2, <2>3, OneCallSeen
  <2>5. States' = States
    BY <2>2 DEF States, RefState, Exists
  <2> QED
    BY <2>2, <2>3, <2>4, <2>5 DEF Contract!End, Phases, Intents, States
<1>4. ASSUME NEW v \in VM, GuestOff(v) PROVE Contract!GuestOff(v)
  <2>1. /\ vm' = [vm EXCEPT ![v] = [vm[v] EXCEPT !.power = "off"]]
        /\ vm[v].power = "on" /\ vm[v] \in Machine /\ UNCHANGED <<job, todo, reply>>
        /\ vm \in [VM -> Machine \cup {None}]
    BY <1>4 DEF GuestOff, IsOn, Exists, IInv, TypeOK
  <2>2. [vm[v] EXCEPT !.power = "off"] \in Machine /\ [vm[v] EXCEPT !.power = "off"].power = "off"
    BY <2>1 DEF Machine
  <2>3. States' = [States EXCEPT ![v] = "stopped"]
    BY <2>1, <2>2, OneMachineSeen, NoneAssumption
  <2>4. States[v] = "running"
    BY <2>1, NoneAssumption DEF States, RefState, Exists
  <2>5. Phases' = Phases /\ Intents' = Intents
    BY <2>1 DEF Phases, Phase, Intents
  <2> QED
    BY <2>1, <2>3, <2>4, <2>5 DEF Contract!GuestOff, Phases, Intents, States
<1>5. CASE UNCHANGED vars
  BY <1>5 DEF vars, Contract!vars, Phase, RefState, Exists
<1> QED
  BY <1>1, <1>2, <1>3, <1>4, <1>5, WorksSeen DEF Next, Contract!Next

\* The neutral operations (provider/ops.go:45-48) on VirtualBox: for any number of
\* concurrent calls, each changes the one machine that it names, once, as its name
\* says, or nothing, and "ok" says that it did.
THEOREM VirtualBoxHonorsContract == Spec => ImplementsContract
<1>1. Init => Contract!Init
  BY DEF Init, Contract!Init, RefState, Exists, Phase
<1> QED
  BY <1>1, ContractStep, PlanInvariance, PTL DEF Spec, ImplementsContract, Contract!Spec
-----------------------------------------------------------------------------
(* The commands.  Every command of the adapter is an invocation of RunCmd  *)
(* (provider/runcmd.go), and the adapter goes on to the next only if       *)
(* RunCmd says "ok" (CommandWorks above).                                  *)

\* A process that ended well has done its work, and RunCmd looks at how it ended
\* only when the output is complete and the process can change no more.
OkInv(c) == /\ child[c] = "exit 0" => worked[c]
            /\ pc[c] \in {"waited", "done"} => child[c] # "running" /\ copied[c]
            /\ pc[c] = "idle" => child[c] = "none"
            /\ outcome[c] = "ok" => pc[c] = "done" /\ child[c] = "exit 0"

RunInv == RunTypeOK /\ \A c \in Invocation : OkInv(c)

LEMMA InitRun == RunInit => RunInv
  BY InvocationAssumption DEF RunInit, RunInv, RunTypeOK, OkInv

LEMMA NextRun == RunInv /\ [RunNext]_runs => RunInv'
<1> SUFFICES ASSUME RunInv, [RunNext]_runs PROVE RunInv'
  OBVIOUS
<1> USE DEF RunInv, RunTypeOK, OkInv
<1>1. CASE DaemonEnds
  BY <1>1 DEF DaemonEnds
<1>2. CASE UNCHANGED runs
  BY <1>2 DEF runs
<1>3. ASSUME NEW c \in Invocation,
             \/ Start(c) \/ StartFails(c)
             \/ Work(c) \/ LeaveBehind(c)
             \/ \E code \in {"exit 0", "exit 1"} : Exit(c, code)
             \/ Deadline(c) \/ Cancel(c) \/ KillChild(c)
             \/ ReadToEnd(c) \/ Wait(c) \/ Report(c)
      PROVE  RunInv'
  <2>1. CASE Start(c)
    BY <2>1 DEF Start
  <2>2. CASE StartFails(c)
    BY <2>2 DEF StartFails
  <2>3. CASE Work(c)
    BY <2>3 DEF Work
  <2>4. CASE LeaveBehind(c)
    BY <2>4 DEF LeaveBehind
  <2>5. ASSUME NEW code \in {"exit 0", "exit 1"}, Exit(c, code)
        PROVE  RunInv'
    BY <2>5 DEF Exit
  <2>6. CASE Deadline(c)
    BY <2>6 DEF Deadline
  <2>7. CASE Cancel(c)
    BY <2>7 DEF Cancel
  <2>8. CASE KillChild(c)
    BY <2>8 DEF KillChild
  <2>9. CASE ReadToEnd(c)
    BY <2>9 DEF ReadToEnd
  <2>10. CASE Wait(c)
    BY <2>10 DEF Wait
  <2>11. CASE Report(c)
    BY <2>11 DEF Report
  <2> QED
    BY <1>3, <2>1, <2>2, <2>3, <2>4, <2>5, <2>6, <2>7, <2>8, <2>9, <2>10, <2>11
<1> QED
  BY <1>1, <1>2, <1>3 DEF RunNext

\* Type correctness of RunCmd: in particular no invocation is left without an answer
\* in another state than these.
THEOREM RunCmdTypeOK == RunSpec => []RunTypeOK
<1>1. RunInv => RunTypeOK
  BY DEF RunInv
<1>2. RunInit => RunInv
  BY InitRun
<1> QED
  BY <1>1, <1>2, NextRun, PTL DEF RunSpec

\* A command that RunCmd says "ok" of (runcmd.go:28-49), so that an adapter takes it to
\* have worked, has ended by itself and successfully, and its output is complete.
THEOREM OkCommandsWorked == RunSpec => []OkIsTrue
<1>1. RunInv => OkIsTrue
  BY DEF RunInv, OkInv, OkIsTrue
<1>2. RunInit => RunInv
  BY InitRun
<1> QED
  BY <1>1, <1>2, NextRun, PTL DEF RunSpec
=============================================================================
