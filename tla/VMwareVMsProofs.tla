-------------------------- MODULE VMwareVMsProofs --------------------------
(***************************************************************************)
(* The configurations of VMware's machines are what the replies amount to, *)
(* none is changed while its machine runs, and one call at a time honors   *)
(* the contract of the Ops interface, for any number of calls, machines,   *)
(* keys and values.                                                        *)
(***************************************************************************)
EXTENDS VMwareVMs, FiniteSetTheorems, TLAPS

\* What a call is about and has found by the time that it is where it is.
CallInv(c) ==
  /\ pc[c] # "idle" => job[c] \in Jobs
  /\ pc[c] = "mkdir" => /\ job[c].op \in {"clone", "create"}
                        /\ job[c].op = "clone" => path[c] \in Path
  /\ pc[c] = "disk" => job[c].op = "create"
  /\ pc[c] = "list" => job[c].op \in {"configure", "export"} /\ path[c] \in Path
  /\ pc[c] \in {"read", "truncate", "write"} =>
       job[c].op \in {"configure", "create"} /\ path[c] \in Path
  /\ pc[c] \in {"command", "orphan"} /\ job[c].op # "import" => path[c] \in Path

TypeInv == TypeOK /\ \A c \in Call : CallInv(c)

\* A call that saw its machine off is overtaken by whoever starts it.
OffInv(c) ==
  pc[c] \in {"read", "truncate", "write"} /\ job[c].op = "configure"
    /\ power[path[c]] = "on" => c \in overtaken

StepOf(c) == (\E j \in Jobs : Begin(c, j)) \/ Step(c)
-----------------------------------------------------------------------------
LEMMA JobFacts ==
  ASSUME NEW j \in Jobs
  PROVE  /\ j.op \in PowerOps \cup {"export", "clone", "configure", "create", "import"}
         /\ j.vm \in VM \cup Path
         /\ j.op = "clone" => j.dest \in VM
         /\ j.op \in {"configure", "create"} => j.pairs \in Pairs
         /\ j.op \in {"create", "import"} => j.vm \in VM
  BY TargetAssumption, SettingsAssumption DEF Jobs, PowerOps

LEMMA MergeTyped ==
  ASSUME NEW old \in Config, NEW pairs \in Pairs
  PROVE  Merge(old, pairs) \in Config
<1>1. PICK K \in SUBSET Key : pairs \in [K -> Value]
  BY DEF Pairs
<1> QED
  BY <1>1 DEF Merge, Config

LEMMA PairsTyped ==
  ASSUME NEW pairs \in Pairs
  PROVE  DOMAIN pairs \subseteq Key
  BY DEF Pairs

LEMMA EmptyTyped == Empty \in Config
  BY DEF Empty, Config

LEMMA OnlyOneFound ==
  ASSUME NEW dir, OnlyOne(dir)
  PROVE  TheOne(dir) \in Found(dir)
<1>1. Found(dir) # {}
  BY FS_EmptySet DEF OnlyOne
<1> QED
  BY <1>1 DEF TheOne

\* What a name or a path stands for is a .vmx file that it may stand for, or nothing.
LEMMA ResolvesToNamed ==
  ASSUME exists \subseteq Path, NEW vm \in VM \cup Path
  PROVE  /\ Resolve(vm) \in Path \cup {None}
         /\ Resolve(vm) # None => Resolve(vm) \in Named(vm)
<1>1. CASE vm \in Path
  BY <1>1 DEF Resolve, Named
<1>2. ASSUME vm \notin Path, NEW layout, OnlyOne(<<vm, layout>>)
      PROVE  TheOne(<<vm, layout>>) \in Path /\ TheOne(<<vm, layout>>) \in Named(vm)
  <2>1. TheOne(<<vm, layout>>) \in Found(<<vm, layout>>)
    BY <1>2, OnlyOneFound
  <2> QED
    BY <2>1 DEF Found, Bundle, Named
<1>3. CASE vm \notin Path
  BY <1>2, <1>3 DEF Resolve
<1> QED
  BY <1>1, <1>3

LEMMA ResolvedTyped ==
  ASSUME TypeInv, NEW c \in Call, NEW to, Resolved(c, to)
  PROVE  /\ path' = [path EXCEPT ![c] = Resolve(job[c].vm)]
         /\ Resolve(job[c].vm) \in Path
         /\ pc[c] = "start" /\ pc' = [pc EXCEPT ![c] = to]
         /\ UNCHANGED <<host, job, seen, reply>>
<1>1. job[c] \in Jobs /\ pc[c] = "start"
  BY DEF TypeInv, CallInv, Resolved, GoTo
<1>2. Resolve(job[c].vm) \in Path \cup {None}
  BY <1>1, JobFacts, ResolvesToNamed DEF TypeInv, TypeOK
<1> QED
  BY <1>1, <1>2 DEF Resolved, GoTo
-----------------------------------------------------------------------------
(* Types.                                                                  *)

HostTypes == /\ bundle \subseteq VM \X {"native", "foreign"}
             /\ exists \subseteq Path
             /\ content \in [Path -> Config]
             /\ power \in [Path -> {"off", "on", "suspended"}]
             /\ told \in [Path -> Config] /\ spoilt \in [Path -> SUBSET Key]
             /\ behind \in [Call -> SUBSET Key] /\ overtaken \subseteq Call

CallTypes == /\ pc \in [Call -> {"idle", "start", "mkdir", "disk", "list", "read", "truncate",
                                 "write", "command", "orphan", "done"}]
             /\ job \in [Call -> Jobs \cup {None}]
             /\ path \in [Call -> Path \cup {None}]
             /\ seen \in [Call -> Config]
             /\ reply \in [Call -> {"ok", "failed", None}]

LEMMA TypesSplit == TypeOK <=> HostTypes /\ CallTypes /\ serial \in BOOLEAN
  BY DEF TypeOK, HostTypes, CallTypes

LEMMA BundleTyped ==
  ASSUME NEW p \in Path
  PROVE  Bundle(p) \in VM \X {"native", "foreign"}
  BY DEF Path, Bundle

LEMMA NewVMTyped ==
  ASSUME HostTypes, NEW c \in Call, NEW p \in Path, NEW conf \in Config, NewVM(c, p, conf)
  PROVE  HostTypes'
<1>1. Bundle(p) \in VM \X {"native", "foreign"}
  BY BundleTyped
<1> QED
  BY <1>1 DEF HostTypes, NewVM, Changed, Editing

LEMMA EffectTyped ==
  ASSUME TypeInv, NEW c \in Call, pc[c] \in {"command", "orphan"}, Effect(c)
  PROVE  HostTypes'
<1>1. HostTypes /\ job[c] \in Jobs
  BY TypesSplit DEF TypeInv, CallInv
<1>2. job[c].op # "import" => path[c] \in Path
  BY DEF TypeInv, CallInv
<1>3. CASE job[c].op = "start" /\ StartVM(path[c])
  BY <1>1, <1>2, <1>3 DEF StartVM, HostTypes
<1>4. ASSUME NEW state \in {"off", "suspended"}, PowerTo(path[c], state) PROVE HostTypes'
  BY <1>1, <1>4 DEF PowerTo, HostTypes, history
<1>5. CASE ResetVM(path[c]) \/ UNCHANGED host
  BY <1>1, <1>5 DEF ResetVM, HostTypes, host, store, history
<1>6. CASE job[c].op = "delete" /\ DeleteVM(c, path[c])
  BY <1>1, <1>2, <1>6, EmptyTyped DEF DeleteVM, HostTypes, Changed, Editing
<1>7. CASE job[c].op = "clone" /\ CloneVM(c, path[c], job[c].dest)
  <2>1. <<job[c].dest, "own">> \in Path
    BY <1>1, <1>7, JobFacts DEF Path
  <2>2. content[path[c]] \in Config
    BY <1>1, <1>2, <1>7 DEF HostTypes
  <2> QED
    BY <1>1, <1>7, <2>1, <2>2, NewVMTyped DEF CloneVM
<1>8. CASE job[c].op = "import" /\ ImportOVA(c, job[c].vm)
  <2>1. <<job[c].vm, "image">> \in Path
    BY <1>1, <1>8, JobFacts DEF Path
  <2> QED
    BY <1>1, <1>8, <2>1, NewVMTyped, ImageAssumption DEF ImportOVA
<1> QED
  BY <1>3, <1>4, <1>5, <1>6, <1>7, <1>8 DEF Effect

LEMMA GiveUpTyped ==
  ASSUME HostTypes, NEW c \in Call, GiveUp(c)
  PROVE  HostTypes'
  BY DEF HostTypes, GiveUp, store

\* c has moved and nobody else has.
Moves(c) == /\ CallTypes' /\ CallInv(c)'
            /\ \A d \in Call \ {c} : /\ pc'[d] = pc[d] /\ job'[d] = job[d]
                                     /\ path'[d] = path[d] /\ seen'[d] = seen[d]

LEMMA Together ==
  ASSUME TypeInv, NEW c \in Call, HostTypes', Moves(c), serial' \in BOOLEAN
  PROVE  TypeInv'
<1>1. \A d \in Call \ {c} : CallInv(d)'
  BY DEF TypeInv, CallInv, Moves
<1> QED
  BY <1>1, TypesSplit DEF TypeInv, Moves, TypeOK, HostTypes, CallTypes

LEMMA ReturnMoves ==
  ASSUME TypeInv, NEW c \in Call, NEW answer \in {"ok", "failed"}, Return(c, answer),
         pc[c] # "idle"
  PROVE  Moves(c) /\ pc'[c] = "done"
<1>1. CallTypes /\ job[c] \in Jobs
  BY TypesSplit DEF TypeInv, CallInv
<1> QED
  BY <1>1, EmptyTyped DEF CallTypes, Return, Moves, CallInv

LEMMA ResetMoves ==
  ASSUME TypeInv, NEW c \in Call, Reset(c)
  PROVE  Moves(c) /\ pc'[c] = "idle"
<1>1. CallTypes
  BY TypesSplit DEF TypeInv
<1> QED
  BY <1>1, EmptyTyped DEF CallTypes, Reset, Moves, CallInv

LEMMA HostKept == HostTypes /\ UNCHANGED host => HostTypes'
  BY DEF HostTypes, host, store, history

LEMMA BeginTyped ==
  ASSUME TypeInv, NEW c \in Call, NEW j \in Jobs, Begin(c, j)
  PROVE  HostTypes' /\ Moves(c)
<1>1. HostTypes /\ CallTypes
  BY TypesSplit DEF TypeInv
<1> QED
  BY <1>1, HostKept DEF Begin, GoTo, CallTypes, Moves, CallInv

\* The steps of an operation up to its last command.
LEMMA LookTyped ==
  ASSUME TypeInv, NEW c \in Call,
         \/ Power(c) \/ Clone(c) \/ Configure(c) \/ Create(c)
         \/ ImportImage(c) \/ MakeBundle(c) \/ MakeDisk(c) \/ EnsureOff(c)
  PROVE  HostTypes' /\ Moves(c)
<1>1. HostTypes /\ CallTypes /\ CallInv(c)
  BY TypesSplit DEF TypeInv
<1>2. pc[c] # "idle" => job[c] \in Jobs
  BY <1>1 DEF CallInv
<1>3. ASSUME NEW to \in {"command", "mkdir", "list"}, Resolved(c, to),
             \/ to = "command" /\ job[c].op \in PowerOps
             \/ to = "mkdir" /\ job[c].op = "clone"
             \/ to = "list" /\ job[c].op \in {"configure", "export"}
      PROVE  HostTypes' /\ Moves(c)
  <2>1. /\ path' = [path EXCEPT ![c] = Resolve(job[c].vm)]
        /\ Resolve(job[c].vm) \in Path
        /\ pc[c] = "start" /\ pc' = [pc EXCEPT ![c] = to]
        /\ UNCHANGED <<host, job, seen, reply>>
    BY <1>3, ResolvedTyped
  <2> QED
    BY <1>1, <1>2, <1>3, <2>1, HostKept DEF CallTypes, Moves, CallInv, PowerOps
<1>4. CASE Power(c) \/ Clone(c) \/ Configure(c)
  BY <1>3, <1>4 DEF Power, Clone, Configure
<1>5. CASE Create(c)
  <2>1. HostTypes'
    BY <1>1, <1>5, HostKept DEF Create
  <2>2. CASE <<job[c].vm, "native">> \in bundle
    BY <1>5, <2>1, <2>2, ReturnMoves DEF Create
  <2>3. CASE <<job[c].vm, "native">> \notin bundle
    BY <1>1, <1>2, <1>5, <2>1, <2>3 DEF Create, GoTo, CallTypes, Moves, CallInv
  <2> QED
    BY <2>2, <2>3, <2>1
<1>6. CASE ImportImage(c)
  BY <1>1, <1>2, <1>6, HostKept DEF ImportImage, GoTo, CallTypes, Moves, CallInv
<1>7. CASE MakeBundle(c)
  <2>1. /\ job[c].op = "clone" => job[c].dest \in VM
        /\ job[c].op # "clone" => job[c].vm \in VM
    BY <1>1, <1>2, <1>7, JobFacts DEF MakeBundle, GoTo, CallInv
  <2>2. HostTypes'
    BY <1>1, <1>7, <2>1 DEF MakeBundle, HostTypes, history
  <2> QED
    BY <1>1, <1>2, <1>7, <2>2 DEF MakeBundle, GoTo, CallTypes, Moves, CallInv
<1>8. CASE MakeDisk(c)
  <2>1. <<job[c].vm, "own">> \in Path
    BY <1>1, <1>2, <1>8, JobFacts DEF MakeDisk, GoTo, CallInv, Path
  <2> QED
    BY <1>1, <1>2, <1>8, <2>1, HostKept DEF MakeDisk, GoTo, CallTypes, Moves, CallInv
<1>9. CASE EnsureOff(c)
  <2>1. HostTypes'
    BY <1>1, <1>9, HostKept DEF EnsureOff
  <2>2. CASE Return(c, "failed")
    BY <1>9, <2>1, <2>2, ReturnMoves DEF EnsureOff
  <2>3. CASE ~Return(c, "failed")
    BY <1>1, <1>2, <1>9, <2>1, <2>3 DEF EnsureOff, GoTo, CallTypes, Moves, CallInv
  <2> QED
    BY <2>1, <2>2, <2>3
<1> QED
  BY <1>4, <1>5, <1>6, <1>7, <1>8, <1>9

\* The steps that end an operation before it writes.
LEMMA AnswerTyped ==
  ASSUME TypeInv, NEW c \in Call,
         \/ Refuse(c) \/ NotFound(c) \/ ImportInPlace(c) \/ MakeDiskFails(c) \/ Command(c)
  PROVE  HostTypes' /\ Moves(c)
<1>1. HostTypes
  BY TypesSplit DEF TypeInv
<1>2. CASE Refuse(c) \/ NotFound(c) \/ ImportInPlace(c) \/ MakeDiskFails(c)
  BY <1>1, <1>2, HostKept, ReturnMoves DEF Refuse, NotFound, ImportInPlace, MakeDiskFails
<1>3. CASE Command(c)
  BY <1>1, <1>3, HostKept, EffectTyped, ReturnMoves DEF Command
<1> QED
  BY <1>2, <1>3

\* setVMXKeys.
LEMMA SetTyped ==
  ASSUME TypeInv, NEW c \in Call,
         \/ ReadVMX(c) \/ ReadVMXFails(c)
         \/ Truncate(c) \/ TruncateFails(c) \/ Write(c) \/ WriteFails(c)
  PROVE  HostTypes' /\ Moves(c)
<1>1. HostTypes /\ CallTypes /\ CallInv(c)
  BY TypesSplit DEF TypeInv
<1>2. pc[c] \in {"read", "truncate", "write"} =>
        path[c] \in Path /\ job[c] \in Jobs /\ job[c].op \in {"configure", "create"}
  BY <1>1 DEF CallInv
<1>3. CASE ReadVMX(c)
  <2>1. content[path[c]] \in Config /\ spoilt[path[c]] \subseteq Key
    BY <1>1, <1>2, <1>3 DEF ReadVMX, GoTo, HostTypes
  <2>2. HostTypes'
    BY <1>1, <1>3, <2>1 DEF ReadVMX, HostTypes, store
  <2> QED
    BY <1>1, <1>2, <1>3, <2>1, <2>2 DEF ReadVMX, GoTo, CallTypes, Moves, CallInv
<1>4. CASE ReadVMXFails(c) \/ TruncateFails(c) \/ WriteFails(c)
  BY <1>1, <1>4, GiveUpTyped, ReturnMoves DEF ReadVMXFails, TruncateFails, WriteFails
<1>5. CASE Truncate(c)
  <2>1. HostTypes'
    BY <1>1, <1>2, <1>5, EmptyTyped DEF Truncate, GoTo, HostTypes
  <2> QED
    BY <1>1, <1>2, <1>5, <2>1 DEF Truncate, GoTo, CallTypes, Moves, CallInv
<1>6. CASE Write(c)
  <2>1. path[c] \in Path /\ job[c].pairs \in Pairs
    BY <1>2, <1>6, JobFacts DEF Write
  <2>2. /\ Merge(seen[c], job[c].pairs) \in Config
        /\ Merge(told[path[c]], job[c].pairs) \in Config
        /\ DOMAIN job[c].pairs \subseteq Key
    BY <1>1, <2>1, MergeTyped, PairsTyped DEF HostTypes, CallTypes
  <2>3. HostTypes'
    BY <1>1, <1>6, <2>1, <2>2 DEF Write, HostTypes
  <2> QED
    BY <1>6, <2>3, ReturnMoves DEF Write
<1> QED
  BY <1>3, <1>4, <1>5, <1>6

LEMMA EndsTyped ==
  ASSUME TypeInv, NEW c \in Call, TakeReply(c) \/ Kill(c) \/ EndAlone(c)
  PROVE  HostTypes' /\ Moves(c)
<1>1. HostTypes /\ CallTypes /\ CallInv(c)
  BY TypesSplit DEF TypeInv
<1>2. CASE TakeReply(c)
  BY <1>1, <1>2, HostKept, ResetMoves DEF TakeReply
<1>3. CASE Kill(c)
  <2>1. HostTypes'
    BY <1>1, <1>3, GiveUpTyped DEF Kill
  <2>2. CASE Reset(c)
    BY <2>1, <2>2, ResetMoves
  <2>3. CASE GoTo(c, "command", "orphan") /\ UNCHANGED <<job, path, seen, reply>>
    BY <1>1, <2>1, <2>3 DEF GoTo, CallTypes, Moves, CallInv
  <2> QED
    BY <1>3, <2>2, <2>3 DEF Kill
<1>4. CASE EndAlone(c)
  BY <1>1, <1>4, HostKept, EffectTyped, ResetMoves DEF EndAlone
<1> QED
  BY <1>2, <1>3, <1>4

LEMMA InitTyped == Init => TypeInv
<1> SUFFICES ASSUME Init PROVE TypeInv
  OBVIOUS
<1>1. Foreign \subseteq Path /\ Image \in Config
  BY ForeignAssumption, ImageAssumption
<1>2. bundle \subseteq VM \X {"native", "foreign"}
  BY <1>1, BundleTyped DEF Init
<1>3. content \in [Path -> Config] /\ told = content
  BY <1>1, EmptyTyped DEF Init
<1> QED
  BY <1>1, <1>2, <1>3, EmptyTyped DEF Init, TypeInv, TypeOK, CallInv

LEMMA NextTyped == TypeInv /\ [Next]_vars => TypeInv'
<1> SUFFICES ASSUME TypeInv, [Next]_vars PROVE TypeInv'
  OBVIOUS
<1>1. CASE UNCHANGED vars
  BY <1>1 DEF vars, store, history, TypeInv, TypeOK, CallInv
<1>2. CASE Next
  <2>1. serial' \in BOOLEAN
    BY <1>2 DEF Next, TypeInv, TypeOK
  <2>2. PICK c \in Call : StepOf(c)
    BY <1>2 DEF Next, StepOf
  <2>3. HostTypes' /\ Moves(c)
    BY <2>2, BeginTyped, LookTyped, AnswerTyped, SetTyped, EndsTyped DEF StepOf, Step
  <2> QED
    BY <2>1, <2>3, Together
<1> QED
  BY <1>1, <1>2

LEMMA Typed == Spec => []TypeInv
  BY InitTyped, NextTyped, PTL DEF Spec

\* Bundles, files, states and calls are always of their types.
THEOREM VMwareTypeOK == Spec => []TypeOK
<1>1. TypeInv => TypeOK
  BY DEF TypeInv
<1> QED
  BY <1>1, Typed, PTL

\* Every step is one of a call, and everybody else stays where he is.
LEMMA StepOfOne ==
  ASSUME TypeInv, Next
  PROVE  \E c \in Call : StepOf(c) /\ Moves(c)
<1>1. PICK c \in Call : StepOf(c)
  BY DEF Next, StepOf
<1>2. Moves(c)
  BY <1>1, BeginTyped, LookTyped, AnswerTyped, SetTyped, EndsTyped DEF StepOf, Step
<1> QED
  BY <1>1, <1>2
-----------------------------------------------------------------------------
(* Machines that run.                                                      *)

OffInvs == \A c \in Call : OffInv(c)

AtMachine(c) == pc[c] \in {"read", "truncate", "write"}

\* Whoever starts a machine overtakes the calls at it.
LEMMA StartsOvertake ==
  ASSUME TypeInv, NEW c \in Call,
         StepOf(c)
  PROVE  \A d \in Call \ {c} : /\ d \in overtaken => d \in overtaken'
                               /\ AtMachine(d) /\ power'[path[d]] = "on" =>
                                    power[path[d]] = "on" \/ d \in overtaken'
<1>1. CASE power' = power /\ overtaken \ {c} \subseteq overtaken'
  BY <1>1
<1>2. CASE Effect(c) \/ UNCHANGED host
  <2>1. HostTypes /\ \A d \in Call : AtMachine(d) => path[d] \in Path
    BY TypesSplit DEF TypeInv, CallInv, AtMachine
  <2>2. CASE UNCHANGED host
    BY <1>1, <2>2 DEF host, store, history
  <2>3. CASE StartVM(path[c])
    BY <2>1, <2>3 DEF StartVM, HostTypes, AtMachine
  <2>4. ASSUME NEW state \in {"off", "suspended"}, PowerTo(path[c], state)
        PROVE  \A d \in Call \ {c} : /\ d \in overtaken => d \in overtaken'
                                     /\ AtMachine(d) /\ power'[path[d]] = "on" =>
                                          power[path[d]] = "on"
    BY <2>1, <2>4 DEF PowerTo, HostTypes, history
  <2>5. CASE DeleteVM(c, path[c])
    BY <2>1, <2>5 DEF DeleteVM, HostTypes, Changed
  <2>6. ASSUME NEW p, NEW conf, NewVM(c, p, conf)
        PROVE  power' = power /\ overtaken' = overtaken
    BY <2>6 DEF NewVM, Changed
  <2> QED
    BY <1>2, <1>1, <2>2, <2>3, <2>4, <2>5, <2>6
    DEF Effect, ResetVM, CloneVM, ImportOVA
<1>3. CASE ~Command(c) /\ ~EndAlone(c)
  BY <1>1, <1>3
  DEF StepOf, Step, Begin, TakeReply, Kill, Refuse, NotFound, ImportInPlace, MakeDiskFails, Power,
      Clone, Configure, Create, ImportImage, MakeBundle, MakeDisk, EnsureOff, Resolved, ReadVMX,
      ReadVMXFails, Truncate, TruncateFails, Write, WriteFails, GiveUp, host, store, history
<1> QED
  BY <1>2, <1>3 DEF Command, EndAlone

\* c goes to a machine to configure it only if that is off.
LEMMA LooksFirst ==
  ASSUME ~ListFails, TypeInv, OffInvs, NEW c \in Call,
         StepOf(c)
  PROVE  OffInv(c)'
<1> USE DEF TypeInv, TypeOK
<1> SUFFICES ASSUME AtMachine(c)', job'[c].op = "configure", power'[path'[c]] = "on"
             PROVE  c \in overtaken'
  BY DEF OffInv, AtMachine
<1>1. CASE EnsureOff(c)
  <2>1. power[path[c]] # "on" /\ path'[c] = path[c] /\ power' = power
    BY <1>1 DEF EnsureOff, Return, AtMachine, host, store
  <2> QED
    BY <2>1
<1>2. CASE ReadVMX(c) \/ Truncate(c)
  <2>1. /\ AtMachine(c) /\ job' = job /\ path' = path /\ power' = power
        /\ overtaken' = overtaken
    BY <1>2 DEF ReadVMX, Truncate, GoTo, AtMachine, store
  <2> QED
    BY <2>1 DEF OffInvs, OffInv, AtMachine
<1>3. CASE MakeDisk(c)
  BY <1>3 DEF MakeDisk, GoTo, CallInv
<1>4. CASE \/ Refuse(c) \/ NotFound(c) \/ ImportInPlace(c) \/ MakeDiskFails(c) \/ Command(c)
           \/ ReadVMXFails(c) \/ TruncateFails(c) \/ Write(c) \/ WriteFails(c)
  BY <1>4 DEF Refuse, NotFound, ImportInPlace, MakeDiskFails, Command, ReadVMXFails,
     TruncateFails, Write, WriteFails, Return, AtMachine
<1>5. CASE Power(c) \/ Clone(c) \/ Configure(c) \/ Create(c) \/ ImportImage(c) \/ MakeBundle(c)
  BY <1>5 DEF Power, Clone, Configure, Create, ImportImage, MakeBundle, Resolved, GoTo,
     Return, AtMachine
<1>6. CASE (\E j \in Jobs : Begin(c, j)) \/ TakeReply(c) \/ Kill(c) \/ EndAlone(c)
  BY <1>6 DEF Begin, TakeReply, Kill, EndAlone, Reset, GoTo, AtMachine
<1> QED
  BY <1>1, <1>2, <1>3, <1>4, <1>5, <1>6 DEF StepOf, Step

LEMMA NextOff == ~ListFails /\ TypeInv /\ OffInvs /\ [Next]_vars => OffInvs'
<1> SUFFICES ASSUME ~ListFails, TypeInv, OffInvs, [Next]_vars PROVE OffInvs'
  OBVIOUS
<1>1. CASE UNCHANGED vars
  BY <1>1 DEF OffInvs, OffInv, vars, store, history
<1>2. CASE Next
  <2>1. PICK c \in Call :
          /\ StepOf(c)
          /\ Moves(c)
    BY <1>2, StepOfOne
  <2>2. ASSUME NEW d \in Call \ {c} PROVE OffInv(d)'
    <3>1. /\ d \in overtaken => d \in overtaken'
          /\ AtMachine(d) /\ power'[path[d]] = "on" =>
               power[path[d]] = "on" \/ d \in overtaken'
      BY <2>1, StartsOvertake
    <3>2. pc'[d] = pc[d] /\ job'[d] = job[d] /\ path'[d] = path[d]
      BY <2>1 DEF Moves
    <3>3. OffInv(d)
      BY DEF OffInvs
    <3> QED
      BY <3>1, <3>2, <3>3 DEF OffInv, AtMachine
  <2>3. OffInv(c)'
    BY <2>1, LooksFirst
  <2> QED
    BY <2>2, <2>3 DEF OffInvs
<1> QED
  BY <1>1, <1>2

\* A file that is there before and after a step is changed by a call that writes it.
LEMMA EditorsEdit ==
  ASSUME TypeInv, Next, NEW p \in Path, Edited(p)
  PROVE  \E c \in Editing(p) : TRUE
<1>1. PICK c \in Call : StepOf(c)
  BY DEF Next, StepOf
<1>2. HostTypes /\ p \in exists /\ p \in exists' /\ content'[p] # content[p]
  BY TypesSplit DEF TypeInv, Edited
<1>3. CASE Truncate(c) \/ Write(c)
  BY <1>2, <1>3 DEF Truncate, Write, GoTo, HostTypes, Editing
<1>4. ASSUME Effect(c) \/ UNCHANGED host PROVE FALSE
  <2>1. ASSUME NEW q, NEW conf, NewVM(c, q, conf) PROVE FALSE
    BY <1>2, <2>1 DEF NewVM, HostTypes
  <2>2. ASSUME DeleteVM(c, path[c]) PROVE FALSE
    BY <1>2, <2>2 DEF DeleteVM, HostTypes
  <2> QED
    BY <1>2, <1>4, <2>1, <2>2
    DEF Effect, StartVM, PowerTo, ResetVM, CloneVM, ImportOVA, host, store
<1>5. CASE ~Command(c) /\ ~EndAlone(c) /\ ~Truncate(c) /\ ~Write(c)
  BY <1>1, <1>2, <1>5
  DEF StepOf, Step, Begin, TakeReply, Kill, Refuse, NotFound, ImportInPlace, MakeDiskFails, Power,
      Clone, Configure, Create, ImportImage, MakeBundle, MakeDisk, EnsureOff, Resolved, ReadVMX,
      ReadVMXFails, TruncateFails, WriteFails, GiveUp, host, store
<1> QED
  BY <1>3, <1>4, <1>5 DEF Command, EndAlone

\* The configuration of a machine that runs is not changed under it (ops.go:75-80), as
\* long as VMware answers when it is asked for the machines that run, but for one that
\* was started behind the back of the call and for one that Create made a file of.
THEOREM RunningAreNotEdited ==
  ASSUME ~ListFails
  PROVE  Spec => NotEditedWhileRunning
<1> DEFINE A == \A p \in Path : Edited(p) /\ power[p] = "on" =>
                  \E c \in Editing(p) : c \in overtaken \/ job[c].op = "create"
<1>1. Init => OffInvs
  BY DEF Init, OffInvs, OffInv
<1>2. TypeInv /\ OffInvs /\ [Next]_vars => [A]_vars
  <2> SUFFICES ASSUME TypeInv, OffInvs, Next, NEW p \in Path, Edited(p), power[p] = "on"
               PROVE  \E c \in Editing(p) : c \in overtaken \/ job[c].op = "create"
    OBVIOUS
  <2>1. PICK c \in Editing(p) : TRUE
    BY EditorsEdit
  <2>2. job[c].op \in {"configure", "create"} /\ OffInv(c)
    BY <2>1 DEF TypeInv, CallInv, OffInvs, Editing
  <2> QED
    BY <2>1, <2>2 DEF OffInv, Editing
<1>3. TypeInv /\ OffInvs /\ [Next]_vars => OffInvs'
  BY NextOff
<1> QED
  BY <1>1, <1>2, <1>3, Typed, PTL DEF Spec, NotEditedWhileRunning
-----------------------------------------------------------------------------
(* The contract of the Ops interface.                                      *)

\* What is not there is off, and a .vmx file lies in a directory.
StoreInv == /\ \A p \in Path \ exists : power[p] = "off"
            /\ \A p \in exists : Bundle(p) \in bundle

\* A command is about a machine that was meant.
Asked(c) == pc[c] \in {"command", "orphan"} =>
              /\ job[c].op \in PowerOps => path[c] \in Named(job[c].vm)
              /\ job[c].op = "import" => job[c].format = "ova"

\* Where one call is made at a time, a create finds no machine where it makes its own,
\* and so no configuration to change; a file that is configured is there.
Alone(c) ==
  serial =>
    /\ pc[c] # "idle" => \A d \in Call \ {c} : pc[d] = "idle"
    /\ pc[c] \in {"mkdir", "disk", "read"} /\ job[c].op = "create" =>
         \A p \in exists : Bundle(p) # <<job[c].vm, "native">>
    /\ pc[c] = "read" /\ job[c].op = "create" => Bundle(path[c]) = <<job[c].vm, "native">>
    /\ pc[c] \in {"truncate", "write"} => path[c] \in exists /\ job[c].op = "configure"

ContractInv == TypeInv /\ StoreInv /\ \A c \in Call : Asked(c) /\ Alone(c)

\* The steps that change no machine.
Looks(c) == \/ (\E j \in Jobs : Begin(c, j)) \/ TakeReply(c) \/ Kill(c)
            \/ Refuse(c) \/ NotFound(c) \/ ImportInPlace(c) \/ MakeDiskFails(c)
            \/ Power(c) \/ Clone(c) \/ Configure(c) \/ Create(c) \/ ImportImage(c)
            \/ MakeDisk(c) \/ EnsureOff(c)
            \/ ReadVMX(c) \/ ReadVMXFails(c) \/ TruncateFails(c) \/ Write(c) \/ WriteFails(c)

LEMMA StepKinds ==
  ASSUME NEW c \in Call, StepOf(c)
  PROVE  Looks(c) \/ MakeBundle(c) \/ Truncate(c) \/ Command(c) \/ EndAlone(c)
  BY DEF StepOf, Step, Looks

LEMMA LooksOnly ==
  ASSUME NEW c \in Call, Looks(c)
  PROVE  UNCHANGED <<bundle, exists, power>>
<1>1. CASE (\E j \in Jobs : Begin(c, j)) \/ TakeReply(c) \/ Kill(c)
  BY <1>1 DEF Begin, TakeReply, Kill, GiveUp, host, store
<1>2. CASE \/ Refuse(c) \/ NotFound(c) \/ ImportInPlace(c) \/ MakeDiskFails(c)
           \/ Power(c) \/ Clone(c) \/ Configure(c) \/ Create(c) \/ ImportImage(c)
           \/ MakeDisk(c) \/ EnsureOff(c)
  BY <1>2 DEF Refuse, NotFound, ImportInPlace, MakeDiskFails, Power, Clone, Configure, Create,
     ImportImage, MakeDisk, EnsureOff, Resolved, host, store
<1>3. CASE ReadVMX(c) \/ ReadVMXFails(c) \/ TruncateFails(c) \/ Write(c) \/ WriteFails(c)
  BY <1>3 DEF ReadVMX, ReadVMXFails, TruncateFails, Write, WriteFails, GiveUp, host, store
<1> QED
  BY <1>1, <1>2, <1>3 DEF Looks

LEMMA NewVMStore ==
  ASSUME HostTypes, StoreInv, NEW c, NEW p \in Path, NEW conf, NewVM(c, p, conf)
  PROVE  StoreInv'
  BY DEF HostTypes, StoreInv, NewVM

LEMMA EffectStore ==
  ASSUME TypeInv, StoreInv, NEW c \in Call, pc[c] \in {"command", "orphan"}, Effect(c)
  PROVE  StoreInv'
<1>1. HostTypes /\ job[c] \in Jobs /\ (job[c].op # "import" => path[c] \in Path)
  BY TypesSplit DEF TypeInv, CallInv
<1>2. CASE job[c].op = "start" /\ StartVM(path[c])
  BY <1>1, <1>2 DEF StartVM, HostTypes, StoreInv
<1>3. ASSUME job[c].op # "import", NEW state, PowerTo(path[c], state) PROVE StoreInv'
  BY <1>1, <1>3 DEF PowerTo, HostTypes, StoreInv
<1>4. CASE ResetVM(path[c]) \/ UNCHANGED host
  BY <1>4 DEF ResetVM, StoreInv, host, store
<1>5. CASE job[c].op = "delete" /\ DeleteVM(c, path[c])
  <2> DEFINE p == path[c]
  <2>1. p \in Path /\ exists' = exists \ {p} /\ power' = [power EXCEPT ![p] = "off"]
        /\ bundle' = IF Found(Bundle(p)) = {p} THEN bundle \ {Bundle(p)} ELSE bundle
    BY <1>1, <1>5 DEF DeleteVM
  <2> HIDE DEF p
  <2>2. ASSUME NEW q \in exists' PROVE Bundle(q) \in bundle'
    <3>1. q \in exists /\ q # p /\ Bundle(q) \in bundle
      BY <2>1 DEF StoreInv
    <3>2. Bundle(q) = Bundle(p) => Found(Bundle(p)) # {p}
      BY <3>1 DEF Found
    <3> QED
      BY <2>1, <3>1, <3>2
  <2>3. \A q \in Path \ exists' : power'[q] = "off"
    BY <1>1, <2>1 DEF HostTypes, StoreInv
  <2> QED
    BY <2>2, <2>3 DEF StoreInv
<1>6. CASE job[c].op = "clone" /\ CloneVM(c, path[c], job[c].dest)
  <2>1. <<job[c].dest, "own">> \in Path
    BY <1>1, <1>6, JobFacts DEF Path
  <2> QED
    BY <1>1, <1>6, <2>1, NewVMStore DEF CloneVM
<1>7. CASE job[c].op = "import" /\ ImportOVA(c, job[c].vm)
  <2>1. <<job[c].vm, "image">> \in Path
    BY <1>1, <1>7, JobFacts DEF Path
  <2> QED
    BY <1>1, <1>7, <2>1, NewVMStore DEF ImportOVA
<1> QED
  BY <1>2, <1>3, <1>4, <1>5, <1>6, <1>7 DEF Effect

LEMMA StepStore ==
  ASSUME TypeInv, StoreInv, NEW c \in Call, StepOf(c)
  PROVE  StoreInv'
<1>1. CASE Looks(c)
  BY <1>1, LooksOnly DEF StoreInv
<1>2. CASE MakeBundle(c)
  BY <1>2 DEF MakeBundle, StoreInv
<1>3. CASE Truncate(c)
  BY <1>3 DEF Truncate, StoreInv
<1>4. CASE Command(c) \/ EndAlone(c)
  <2>1. CASE UNCHANGED host
    BY <2>1 DEF host, store, StoreInv
  <2> QED
    BY <1>4, <2>1, EffectStore DEF Command, EndAlone
<1> QED
  BY <1>1, <1>2, <1>3, <1>4, StepKinds

LEMMA StepAsked ==
  ASSUME TypeInv, NEW c \in Call, Asked(c), StepOf(c)
  PROVE  Asked(c)'
<1> SUFFICES ASSUME pc'[c] \in {"command", "orphan"}
             PROVE  /\ job'[c].op \in PowerOps => path'[c] \in Named(job'[c].vm)
                    /\ job'[c].op = "import" => job'[c].format = "ova"
  BY DEF Asked, Named
<1>1. pc \in [Call -> {"idle", "start", "mkdir", "disk", "list", "read", "truncate",
                       "write", "command", "orphan", "done"}]
      /\ path \in [Call -> Path \cup {None}] /\ exists \subseteq Path
      /\ (pc[c] # "idle" => job[c] \in Jobs) /\ CallInv(c)
  BY DEF TypeInv, TypeOK, CallInv
<1>2. CASE Power(c)
  <2>1. /\ path' = [path EXCEPT ![c] = Resolve(job[c].vm)] /\ Resolve(job[c].vm) # None
        /\ job' = job /\ pc[c] = "start" /\ job[c].op \in PowerOps
    BY <1>2 DEF Power, Resolved
  <2>2. Resolve(job[c].vm) \in Named(job[c].vm)
    BY <1>1, <2>1, JobFacts, ResolvesToNamed
  <2> QED
    BY <1>1, <2>1, <2>2 DEF PowerOps
<1>3. CASE ImportImage(c)
  BY <1>3 DEF ImportImage, PowerOps
<1>4. CASE MakeBundle(c)
  BY <1>1, <1>4 DEF MakeBundle, GoTo, CallInv, PowerOps
<1>5. CASE EnsureOff(c)
  <2>1. ~Return(c, "failed")
    BY <1>1 DEF Return
  <2>2. job'[c] = job[c] /\ job[c].op = "export"
    BY <1>1, <1>5, <2>1 DEF EnsureOff, GoTo
  <2> QED
    BY <2>2 DEF PowerOps
<1>6. CASE Kill(c)
  <2>1. pc[c] = "command" /\ job' = job /\ path' = path
    BY <1>1, <1>6 DEF Kill, Reset, GoTo
  <2> QED
    BY <2>1 DEF Asked
<1>7. ASSUME ~Power(c), ~ImportImage(c), ~MakeBundle(c), ~EnsureOff(c), ~Kill(c) PROVE FALSE
  <2>1. CASE (\E j \in Jobs : Begin(c, j)) \/ TakeReply(c) \/ EndAlone(c)
    BY <1>1, <2>1 DEF Begin, TakeReply, EndAlone, Reset, GoTo
  <2>2. CASE \/ Refuse(c) \/ NotFound(c) \/ ImportInPlace(c) \/ MakeDiskFails(c) \/ Command(c)
             \/ ReadVMXFails(c) \/ TruncateFails(c) \/ Write(c) \/ WriteFails(c)
    BY <1>1, <2>2 DEF Refuse, NotFound, ImportInPlace, MakeDiskFails, Command, ReadVMXFails,
       TruncateFails, Write, WriteFails, Return
  <2>3. CASE \/ Clone(c) \/ Configure(c) \/ Create(c) \/ MakeDisk(c) \/ ReadVMX(c)
             \/ Truncate(c)
    BY <1>1, <2>3 DEF Clone, Configure, Create, MakeDisk, ReadVMX, Truncate, Resolved, GoTo,
       Return
  <2> QED
    BY <1>7, <2>1, <2>2, <2>3 DEF StepOf, Step
<1> QED
  BY <1>2, <1>3, <1>4, <1>5, <1>6, <1>7

\* Of a call that is alone, its step leaves the others idle.
LEMMA StepAlone ==
  ASSUME TypeInv, StoreInv, NEW c \in Call, Alone(c), StepOf(c), Moves(c), serial, serial',
         pc'[c] # "idle"
  PROVE  \A d \in Call \ {c} : pc'[d] = "idle"
<1>1. ASSUME NEW d \in Call \ {c}, pc[c] # "idle" PROVE pc'[d] = "idle"
  BY <1>1 DEF Alone, Moves
<1>2. CASE pc[c] = "idle"
  <2>1. \A j \in Jobs : Begin(c, j) => \A d \in Call : pc[d] = "idle"
    BY DEF Begin
  <2>2. ~Step(c)
    BY <1>2 DEF Step, Refuse, NotFound, Power, Clone, Configure, Create, ImportInPlace,
       ImportImage, Command, MakeBundle, MakeDisk, MakeDiskFails, EnsureOff, ReadVMX,
       ReadVMXFails, Truncate, TruncateFails, Write, WriteFails, GoTo, TakeReply, Kill, EndAlone
  <2> QED
    BY <2>1, <2>2 DEF StepOf, Moves
<1> QED
  BY <1>1, <1>2

LEMMA StepAloneInv ==
  ASSUME TypeInv, StoreInv, NEW c \in Call, Alone(c), StepOf(c), Moves(c), serial' = serial
  PROVE  Alone(c)'
<1> SUFFICES ASSUME serial, serial'
             PROVE  /\ pc'[c] # "idle" => \A d \in Call \ {c} : pc'[d] = "idle"
                    /\ pc'[c] \in {"mkdir", "disk", "read"} /\ job'[c].op = "create" =>
                         \A p \in exists' : Bundle(p) # <<job'[c].vm, "native">>
                    /\ pc'[c] = "read" /\ job'[c].op = "create" =>
                         Bundle(path'[c]) = <<job'[c].vm, "native">>
                    /\ pc'[c] \in {"truncate", "write"} =>
                         path'[c] \in exists' /\ job'[c].op = "configure"
  BY DEF Alone
<1>1. pc \in [Call -> {"idle", "start", "mkdir", "disk", "list", "read", "truncate",
                       "write", "command", "orphan", "done"}]
      /\ path \in [Call -> Path \cup {None}] /\ exists \subseteq Path /\ CallInv(c)
  BY DEF TypeInv, TypeOK, CallInv
<1>2. pc'[c] # "idle" => \A d \in Call \ {c} : pc'[d] = "idle"
  BY StepAlone
<1>3. CASE Create(c)
  <2>1. CASE <<job[c].vm, "native">> \in bundle
    BY <1>1, <1>2, <1>3, <2>1 DEF Create, Return
  <2>2. CASE <<job[c].vm, "native">> \notin bundle
    BY <1>1, <1>2, <1>3, <2>2 DEF Create, GoTo, StoreInv, host, store
  <2> QED
    BY <2>1, <2>2
<1>4. CASE MakeBundle(c)
  BY <1>1, <1>2, <1>4 DEF MakeBundle, GoTo, CallInv, Alone
<1>5. CASE MakeDisk(c)
  BY <1>1, <1>2, <1>5 DEF MakeDisk, GoTo, Alone, Bundle, host, store
<1>6. CASE EnsureOff(c)
  BY <1>1, <1>2, <1>6 DEF EnsureOff, GoTo, Return, CallInv
<1>7. CASE ReadVMX(c)
  BY <1>1, <1>2, <1>7 DEF ReadVMX, GoTo, CallInv, Alone, host, store
<1>8. CASE Truncate(c)
  BY <1>1, <1>2, <1>8 DEF Truncate, GoTo, Alone
<1>9. CASE Clone(c)
  BY <1>1, <1>2, <1>9 DEF Clone, Resolved, GoTo
<1>10. ASSUME ~Create(c), ~MakeBundle(c), ~MakeDisk(c), ~EnsureOff(c), ~ReadVMX(c), ~Truncate(c),
              ~Clone(c)
       PROVE  pc'[c] \notin {"mkdir", "disk", "read", "truncate", "write"}
  <2>1. CASE (\E j \in Jobs : Begin(c, j)) \/ TakeReply(c) \/ Kill(c) \/ EndAlone(c)
    BY <1>1, <2>1 DEF Begin, TakeReply, Kill, EndAlone, Reset, GoTo
  <2>2. CASE \/ Refuse(c) \/ NotFound(c) \/ ImportInPlace(c) \/ MakeDiskFails(c) \/ Command(c)
             \/ ReadVMXFails(c) \/ TruncateFails(c) \/ Write(c) \/ WriteFails(c)
    BY <1>1, <2>2 DEF Refuse, NotFound, ImportInPlace, MakeDiskFails, Command, ReadVMXFails,
       TruncateFails, Write, WriteFails, Return
  <2>3. CASE Power(c) \/ Configure(c) \/ ImportImage(c)
    BY <1>1, <2>3 DEF Power, Configure, ImportImage, Resolved, GoTo
  <2> QED
    BY <1>10, <2>1, <2>2, <2>3 DEF StepOf, Step
<1> QED
  BY <1>2, <1>3, <1>4, <1>5, <1>6, <1>7, <1>8, <1>9, <1>10

LEMMA InitContractInv == Init => ContractInv
<1>1. Init => StoreInv /\ \A c \in Call : Asked(c) /\ Alone(c)
  BY ForeignAssumption DEF Init, StoreInv, Asked, Alone
<1> QED
  BY <1>1, InitTyped DEF ContractInv

LEMMA NextContractInv == ContractInv /\ [Next]_vars => ContractInv'
<1> SUFFICES ASSUME ContractInv, [Next]_vars PROVE ContractInv'
  OBVIOUS
<1> USE DEF ContractInv
<1>1. TypeInv'
  BY NextTyped
<1>2. CASE UNCHANGED vars
  BY <1>1, <1>2 DEF vars, store, history, StoreInv, Asked, Alone, Named
<1>3. CASE Next
  <2>1. PICK c \in Call : StepOf(c) /\ Moves(c)
    BY <1>3, StepOfOne DEF StepOf
  <2>2. serial' = serial
    BY <1>3 DEF Next
  <2>3. StoreInv' /\ Asked(c)' /\ Alone(c)'
    BY <2>1, <2>2, StepStore, StepAsked, StepAloneInv
  <2>4. ASSUME NEW d \in Call \ {c} PROVE Asked(d)' /\ Alone(d)'
    <3>1. pc'[d] = pc[d] /\ job'[d] = job[d] /\ path'[d] = path[d]
      BY <2>1 DEF Moves
    <3>2. Asked(d)'
      BY <3>1 DEF Asked, Named
    <3>3. serial => pc[d] = "idle"
      <4>1. CASE pc[c] # "idle"
        BY <4>1 DEF Alone
      <4>2. CASE pc'[c] # "idle"
        BY <2>1, <2>2, <3>1, <4>2, StepAlone
      <4>3. CASE pc[c] = "idle" /\ pc'[c] = "idle"
        <5>1. \A j \in Jobs : ~Begin(c, j)
          BY <4>3 DEF Begin, GoTo, TypeInv, TypeOK
        <5> QED
          BY <2>1, <4>3, <5>1 DEF StepOf, Step, Refuse, NotFound, Power, Clone, Configure, Create,
             ImportInPlace, ImportImage, Command, MakeBundle, MakeDisk, MakeDiskFails, EnsureOff,
             ReadVMX, ReadVMXFails, Truncate, TruncateFails, Write, WriteFails, GoTo, TakeReply,
             Kill, EndAlone
      <4> QED
        BY <4>1, <4>2, <4>3
    <3>4. Alone(d)'
      BY <2>2, <3>1, <3>3 DEF Alone
    <3> QED
      BY <3>2, <3>4
  <2> QED
    BY <1>1, <2>3, <2>4
<1> QED
  BY <1>2, <1>3

LEMMA ContractInvariance == Spec => []ContractInv
  BY InitContractInv, NextContractInv, PTL DEF Spec

\* What the contract sees.
States == [p \in Path |-> IF serial THEN RefState(p) ELSE "absent"]
Phases == [c \in Call |-> IF serial THEN Phase(c) ELSE "idle"]
Intents == [c \in Call |-> IF serial /\ pc[c] # "idle" THEN Intended(job[c]) ELSE None]
Answers == [c \in Call |-> IF serial THEN reply[c] ELSE None]

LEMMA CallSeen ==
  ASSUME serial, serial', NEW c \in Call, Moves(c)
  PROVE  /\ Phases' = [Phases EXCEPT ![c] = Phase(c)']
         /\ Intents' = [Intents EXCEPT ![c] = IF pc'[c] # "idle" THEN Intended(job'[c])
                                              ELSE None]
         /\ Phases[c] = Phase(c)
         /\ pc[c] # "idle" => Intents[c] = Intended(job[c])
<1>1. \A d \in Call \ {c} : Phase(d)' = Phase(d)
  BY DEF Moves, Phase
<1>2. \A d \in Call \ {c} : pc'[d] = pc[d] /\ job'[d] = job[d]
  BY DEF Moves
<1>3. \A d \in Call : Intended(job[d])' = Intended(job'[d])
  BY DEF Intended, Named
<1> QED
  BY <1>1, <1>2, <1>3 DEF Phases, Intents

\* A call goes on: nothing that clients see of it has changed.
LEMMA GoesOnSeen ==
  ASSUME serial, serial', NEW c \in Call, Moves(c), pc[c] \notin {"idle", "done"},
         pc'[c] \notin {"idle", "done"}, job' = job, reply' = reply
  PROVE  Phases' = Phases /\ Intents' = Intents /\ Answers' = Answers
<1>1. Phase(c) = "asked" /\ Phase(c)' = "asked"
  BY DEF Phase
<1>2. Phases' = [Phases EXCEPT ![c] = "asked"] /\ Phases[c] = "asked"
      /\ Intents' = [Intents EXCEPT ![c] = Intents[c]]
  BY <1>1, CallSeen
<1> QED
  BY <1>2 DEF Phases, Intents, Answers

LEMMA ReturnSeen ==
  ASSUME TypeInv, serial, serial', NEW c \in Call, Moves(c), pc[c] \notin {"idle", "done"},
         NEW answer, Return(c, answer)
  PROVE  /\ Contract!Return(c, answer)
         /\ Phases[c] = "asked" /\ Intents[c] = Intended(job[c])
<1>1. /\ pc'[c] = "done" /\ job' = job /\ reply' = [reply EXCEPT ![c] = answer]
      /\ reply \in [Call -> {"ok", "failed", None}]
  BY DEF Return, TypeInv, TypeOK
<1>2. Phase(c) = "asked" /\ Phase(c)' = "done"
  BY <1>1 DEF Phase
<1>3. /\ Phases' = [Phases EXCEPT ![c] = "done"] /\ Phases[c] = "asked"
      /\ Intents' = [Intents EXCEPT ![c] = Intents[c]] /\ Intents[c] = Intended(job[c])
  BY <1>1, <1>2, CallSeen
<1>4. Intents' = Intents
  BY <1>3 DEF Intents
<1>5. Answers' = [Answers EXCEPT ![c] = answer]
  BY <1>1 DEF Answers
<1> QED
  BY <1>3, <1>4, <1>5 DEF Contract!Return, Phases, Intents, Answers

LEMMA StatesKept ==
  ASSUME exists' = exists, power' = power, serial' = serial
  PROVE  States' = States
  BY DEF States, RefState

\* One machine, and no other, has changed.
LEMMA OneMachineSeen ==
  ASSUME serial, serial', NEW p \in Path,
         \A q \in Path \ {p} : (q \in exists' <=> q \in exists) /\ power'[q] = power[q]
  PROVE  States' = [States EXCEPT ![p] = RefState(p)'] /\ States[p] = RefState(p)
<1>1. \A q \in Path \ {p} : RefState(q)' = RefState(q)
  BY DEF RefState
<1> QED
  BY <1>1 DEF States

\* A machine that j means goes to another state, as j's operation says.
Moved(j) == \E m \in Intended(j).of, new \in {"absent", "stopped", "running", "suspended"} :
              /\ Contract!Becomes(Intended(j).op, States[m], new)
              /\ States' = [States EXCEPT ![m] = new]

LEMMA IntendedFacts ==
  ASSUME NEW j
  PROVE  /\ Intended(j).op = IF j.op = "import" /\ j.format = "vmx" THEN "use in place" ELSE j.op
         /\ Intended(j).of = Named(IF j.op = "clone" THEN j.dest ELSE j.vm)
  BY DEF Intended

\* The one machine that has changed is one that j means.
LEMMA ChangeSeen ==
  ASSUME serial, serial', NEW j, NEW p \in Intended(j).of, p \in Path,
         NEW new \in {"absent", "stopped", "running", "suspended"},
         \A q \in Path \ {p} : (q \in exists' <=> q \in exists) /\ power'[q] = power[q],
         RefState(p)' = new, Contract!Becomes(Intended(j).op, RefState(p), new)
  PROVE  Moved(j)
<1>1. States' = [States EXCEPT ![p] = new] /\ States[p] = RefState(p)
  BY OneMachineSeen
<1> QED
  BY <1>1 DEF Moved

LEMMA StartSeen ==
  ASSUME HostTypes, serial, serial', NEW j, j.op = "start", NEW p \in Named(j.vm), p \in Path,
         StartVM(p)
  PROVE  Moved(j)
<1>1. p \in exists /\ power[p] \in {"off", "suspended"} /\ exists' = exists
      /\ power' = [power EXCEPT ![p] = "on"] /\ power \in [Path -> {"off", "on", "suspended"}]
  BY DEF StartVM, HostTypes
<1>2. RefState(p) \in {"stopped", "suspended"} /\ RefState(p)' = "running"
  BY <1>1 DEF RefState
<1>3. p \in Intended(j).of /\ Contract!Becomes(Intended(j).op, RefState(p), "running")
  BY <1>2, IntendedFacts DEF Contract!Becomes
<1> QED
  BY <1>1, <1>2, <1>3, ChangeSeen

LEMMA PowerSeen ==
  ASSUME HostTypes, StoreInv, serial, serial', NEW state \in {"off", "suspended"}, NEW j,
         j.op = IF state = "off" THEN "stop" ELSE "suspend",
         NEW p \in Named(j.vm), p \in Path, PowerTo(p, state)
  PROVE  Moved(j)
<1> DEFINE new == IF state = "off" THEN "stopped" ELSE "suspended"
<1>1. p \in exists /\ power[p] = "on" /\ exists' = exists
      /\ power' = [power EXCEPT ![p] = state] /\ power \in [Path -> {"off", "on", "suspended"}]
  BY DEF PowerTo, HostTypes, StoreInv
<1>2. RefState(p) = "running" /\ RefState(p)' = new
  BY <1>1 DEF RefState
<1>3. p \in Intended(j).of /\ Contract!Becomes(Intended(j).op, RefState(p), new)
  BY <1>2, IntendedFacts DEF Contract!Becomes
<1> QED
  BY <1>1, <1>2, <1>3, ChangeSeen

LEMMA DeleteSeen ==
  ASSUME HostTypes, serial, serial', NEW c, NEW j, j.op = "delete", NEW p \in Named(j.vm),
         p \in Path, DeleteVM(c, p)
  PROVE  Moved(j)
<1>1. p \in exists /\ power[p] \in {"off", "suspended"} /\ exists' = exists \ {p}
      /\ power' = [power EXCEPT ![p] = "off"] /\ power \in [Path -> {"off", "on", "suspended"}]
  BY DEF DeleteVM, HostTypes
<1>2. RefState(p) \in {"stopped", "suspended"} /\ RefState(p)' = "absent"
  BY <1>1 DEF RefState
<1>3. p \in Intended(j).of /\ Contract!Becomes(Intended(j).op, RefState(p), "absent")
  BY <1>2, IntendedFacts DEF Contract!Becomes
<1> QED
  BY <1>1, <1>2, <1>3, ChangeSeen

LEMMA NewVMSeen ==
  ASSUME StoreInv, serial, serial', NEW c, NEW j, j.op \in {"clone", "import"},
         j.op = "import" => j.format = "ova",
         NEW p \in Named(IF j.op = "clone" THEN j.dest ELSE j.vm), p \in Path,
         NEW conf, NewVM(c, p, conf)
  PROVE  Moved(j)
<1>1. p \notin exists /\ exists' = exists \cup {p} /\ power' = power /\ power[p] = "off"
  BY DEF NewVM, StoreInv
<1>2. RefState(p) = "absent" /\ RefState(p)' = "stopped"
  BY <1>1 DEF RefState
<1>3. p \in Intended(j).of /\ Contract!Becomes(Intended(j).op, RefState(p), "stopped")
  BY <1>2, IntendedFacts DEF Contract!Becomes
<1> QED
  BY <1>1, <1>2, <1>3, ChangeSeen

\* What a command does is what the operation says, or nothing that clients see.
LEMMA EffectSeen ==
  ASSUME ContractInv, serial, serial', NEW c \in Call, pc[c] \in {"command", "orphan"},
         Effect(c)
  PROVE  \/ Moved(job[c])
         \/ Intended(job[c]).op \notin Contract!Changing /\ States' = States
<1>0. PICK j \in Jobs, p \in Path \cup {None} : j = job[c] /\ p = path[c]
  BY DEF ContractInv, TypeInv, TypeOK, CallInv
<1>1. /\ HostTypes /\ StoreInv /\ (j.op # "import" => p \in Path)
      /\ j.op \in PowerOps => p \in Named(j.vm)
      /\ j.op = "import" => j.format = "ova"
  BY <1>0, TypesSplit DEF ContractInv, TypeInv, CallInv, Asked
<1>2. \/ j.op = "start" /\ StartVM(p)
      \/ j.op = "stop" /\ PowerTo(p, "off")
      \/ j.op = "suspend" /\ PowerTo(p, "suspended")
      \/ j.op = "reset" /\ ResetVM(p)
      \/ j.op = "delete" /\ DeleteVM(c, p)
      \/ j.op = "clone" /\ CloneVM(c, p, j.dest)
      \/ j.op = "import" /\ ImportOVA(c, j.vm)
      \/ j.op = "export" /\ UNCHANGED host
  BY <1>0 DEF Effect
<1>3. CASE j.op = "start" /\ StartVM(p)
  BY <1>0, <1>1, <1>3, StartSeen DEF PowerOps
<1>4. CASE j.op = "stop" /\ PowerTo(p, "off")
  BY <1>0, <1>1, <1>4, PowerSeen DEF PowerOps
<1>5. CASE j.op = "suspend" /\ PowerTo(p, "suspended")
  BY <1>0, <1>1, <1>5, PowerSeen DEF PowerOps
<1>6. CASE (j.op = "reset" /\ ResetVM(p)) \/ (j.op = "export" /\ UNCHANGED host)
  <2>1. States' = States
    BY <1>6, StatesKept DEF ResetVM, host, store
  <2>2. Intended(j).op \in {"reset", "export"}
    BY <1>6, IntendedFacts
  <2> QED
    BY <1>0, <2>1, <2>2 DEF Contract!Changing
<1>7. CASE j.op = "delete" /\ DeleteVM(c, p)
  BY <1>0, <1>1, <1>7, DeleteSeen DEF PowerOps
<1>8. CASE j.op = "clone" /\ CloneVM(c, p, j.dest)
  <2>1. <<j.dest, "own">> \in Path /\ <<j.dest, "own">> \in Named(j.dest)
    BY <1>8, JobFacts DEF Path, Named
  <2> QED
    BY <1>0, <1>1, <1>8, <2>1, NewVMSeen DEF CloneVM
<1>9. CASE j.op = "import" /\ ImportOVA(c, j.vm)
  <2>1. <<j.vm, "image">> \in Path /\ <<j.vm, "image">> \in Named(j.vm)
    BY <1>9, JobFacts DEF Path, Named
  <2> QED
    BY <1>0, <1>1, <1>9, <2>1, NewVMSeen DEF ImportOVA
<1> QED
  BY <1>2, <1>3, <1>4, <1>5, <1>6, <1>7, <1>8, <1>9

\* What a step of a call is to its clients.
LEMMA ReturnedSeen ==
  ASSUME TypeInv, serial, serial', NEW c \in Call, Moves(c), pc[c] \notin {"idle", "done"},
         Return(c, "failed"), exists' = exists, power' = power
  PROVE  Contract!Fail(c)
<1>1. /\ Contract!Return(c, "failed") /\ Phases[c] = "asked"
  BY ReturnSeen
<1> QED
  BY <1>1, StatesKept DEF Contract!Fail, States, Phases

LEMMA CommandSeen ==
  ASSUME ContractInv, serial, serial', NEW c \in Call, Moves(c), Command(c)
  PROVE  Contract!Succeed(c) \/ Contract!Fail(c)
<1>1. PICK answer \in {"ok", "failed"} :
        Return(c, answer) /\ (Effect(c) \/ (UNCHANGED host /\ answer = "failed"))
  BY DEF Command
<1>2. TypeInv /\ pc[c] = "command"
  BY DEF ContractInv, Command
<1>3. Contract!Return(c, answer) /\ Phases[c] = "asked" /\ Intents[c] = Intended(job[c])
  BY <1>1, <1>2, ReturnSeen
<1>4. CASE UNCHANGED host /\ answer = "failed"
  BY <1>1, <1>2, <1>4, ReturnedSeen DEF host, store
<1>5. CASE Effect(c)
  <2>1. CASE Moved(job[c])
    <3>1. Contract!Changes(c)
      BY <1>3, <2>1 DEF Moved, Contract!Changes, States, Intents
    <3> QED
      BY <1>3, <3>1 DEF Contract!Succeed, Contract!Fail, Phases
  <2>2. CASE Intended(job[c]).op \notin Contract!Changing /\ States' = States
    BY <1>3, <2>2 DEF Contract!Succeed, Contract!Fail, States, Phases, Intents
  <2> QED
    BY <1>2, <1>5, <2>1, <2>2, EffectSeen
<1> QED
  BY <1>1, <1>4, <1>5

\* Configuring a machine and using one where it lies change no machine's state.
LEMMA DoneSeen ==
  ASSUME TypeInv, serial, serial', NEW c \in Call, Moves(c), pc[c] \notin {"idle", "done"},
         Return(c, "ok"), exists' = exists, power' = power,
         \/ job[c].op = "configure"
         \/ job[c].op = "import" /\ job[c].format = "vmx"
  PROVE  Contract!Succeed(c)
<1>1. Contract!Return(c, "ok") /\ Phases[c] = "asked" /\ Intents[c] = Intended(job[c])
  BY ReturnSeen
<1>2. Intended(job[c]).op \in {"configure", "use in place"}
  BY IntendedFacts
<1>3. Intents[c].op \notin Contract!Changing
  BY <1>1, <1>2 DEF Contract!Changing
<1> QED
  BY <1>1, <1>3, StatesKept DEF Contract!Succeed, States, Phases, Intents

LEMMA AskSeen ==
  ASSUME TypeInv, serial, serial', NEW c \in Call, Moves(c), NEW j \in Jobs, Begin(c, j)
  PROVE  Contract!Ask(c, Intended(j))
<1>1. /\ pc[c] = "idle" /\ pc'[c] = "start" /\ job'[c] = j
      /\ UNCHANGED <<exists, power, reply>>
  BY DEF Begin, GoTo, TypeInv, TypeOK, host, store
<1>2. Phase(c) = "idle" /\ Phase(c)' = "asked"
  BY <1>1 DEF Phase
<1>3. /\ Phases' = [Phases EXCEPT ![c] = "asked"] /\ Phases[c] = "idle"
      /\ Intents' = [Intents EXCEPT ![c] = Intended(j)]
  BY <1>1, <1>2, CallSeen
<1>4. States' = States /\ Answers' = Answers
  BY <1>1, StatesKept DEF Answers
<1> QED
  BY <1>3, <1>4 DEF Contract!Ask, States, Phases, Intents, Answers

LEMMA ResetSeen ==
  ASSUME TypeInv, serial, serial', NEW c \in Call, Moves(c), pc[c] # "idle", Reset(c)
  PROVE  /\ Phases' = [Phases EXCEPT ![c] = "idle"] /\ Phases[c] = Phase(c)
         /\ Phase(c) # "idle"
         /\ Intents' = [Intents EXCEPT ![c] = None] /\ Intents[c] = Intended(job[c])
         /\ Answers' = [Answers EXCEPT ![c] = None]
<1>1. pc'[c] = "idle" /\ reply' = [reply EXCEPT ![c] = None]
  BY DEF Reset, TypeInv, TypeOK
<1>2. Phase(c) # "idle" /\ Phase(c)' = "idle"
  BY <1>1 DEF Phase
<1>3. Answers' = [Answers EXCEPT ![c] = None]
  BY <1>1 DEF Answers, TypeInv, TypeOK
<1> QED
  BY <1>1, <1>2, <1>3, CallSeen

LEMMA EndSeen ==
  ASSUME TypeInv, serial, serial', NEW c \in Call, Moves(c), pc[c] # "idle", Reset(c),
         UNCHANGED <<exists, power>>
  PROVE  Contract!End(c)
<1>1. States' = States
  BY StatesKept
<1> QED
  BY <1>1, ResetSeen DEF Contract!End, States, Phases, Intents, Answers

\* A command that goes on without its server ends, and may have come to effect.
LEMMA EndAloneSeen ==
  ASSUME ContractInv, serial, serial', NEW c \in Call, Moves(c), EndAlone(c)
  PROVE  Contract!End(c)
<1>1. TypeInv /\ pc[c] = "orphan" /\ Reset(c) /\ (Effect(c) \/ UNCHANGED host)
  BY DEF ContractInv, EndAlone
<1>2. /\ Phases' = [Phases EXCEPT ![c] = "idle"] /\ Phases[c] = "asked"
      /\ Intents' = [Intents EXCEPT ![c] = None] /\ Intents[c] = Intended(job[c])
      /\ Answers' = [Answers EXCEPT ![c] = None]
  BY <1>1, ResetSeen DEF Phase
<1>3. CASE UNCHANGED host
  BY <1>1, <1>3, EndSeen DEF host, store
<1>4. CASE Moved(job[c])
  <2>1. Contract!Changes(c)
    BY <1>2, <1>4 DEF Moved, Contract!Changes, States, Intents
  <2> QED
    BY <1>2, <2>1 DEF Contract!End, Phases, Intents, Answers
<1>5. CASE States' = States
  BY <1>2, <1>5 DEF Contract!End, States, Phases, Intents, Answers
<1> QED
  BY <1>1, <1>3, <1>4, <1>5, EffectSeen

\* The calls that give up before they come to their command.
LEMMA RefusalSeen ==
  ASSUME TypeInv, serial, serial', NEW c \in Call, Moves(c),
         \/ Refuse(c) \/ NotFound(c) \/ MakeDiskFails(c)
         \/ ReadVMXFails(c) \/ TruncateFails(c) \/ WriteFails(c)
  PROVE  Contract!Fail(c)
<1>1. pc[c] \notin {"idle", "done"} /\ Return(c, "failed") /\ exists' = exists /\ power' = power
  BY DEF Refuse, NotFound, MakeDiskFails, ReadVMXFails, TruncateFails, WriteFails, GiveUp,
     host, store
<1> QED
  BY <1>1, ReturnedSeen

\* The steps on the way are nothing to clients.
LEMMA WaySeen ==
  ASSUME ContractInv, serial, serial', NEW c \in Call, Moves(c),
         \/ Power(c) \/ Clone(c) \/ Configure(c) \/ ImportImage(c)
         \/ MakeBundle(c) \/ MakeDisk(c) \/ ReadVMX(c) \/ Truncate(c)
         \/ Create(c) /\ ~Return(c, "failed")
         \/ EnsureOff(c) /\ ~Return(c, "failed")
         \/ Kill(c) /\ ~Reset(c)
  PROVE  UNCHANGED Contract!vars
<1>1. pc[c] \notin {"idle", "done"} /\ job' = job /\ reply' = reply
  BY DEF Power, Clone, Configure, ImportImage, MakeBundle, MakeDisk, ReadVMX, Truncate, Create,
     EnsureOff, Kill, Resolved, GoTo
<1>2. pc'[c] \notin {"idle", "done"}
  BY DEF Power, Clone, Configure, ImportImage, MakeBundle, MakeDisk, ReadVMX, Truncate, Create,
     EnsureOff, Kill, Resolved, GoTo, ContractInv, TypeInv, TypeOK
<1>3. exists' = exists /\ power' = power
  <2>1. CASE Truncate(c)
    BY <2>1 DEF Truncate, GoTo, ContractInv, Alone
  <2> QED
    BY <2>1 DEF Power, Clone, Configure, ImportImage, MakeBundle, MakeDisk, ReadVMX, Create,
       EnsureOff, Kill, GiveUp, Resolved, host, store
<1>4. States' = States /\ Phases' = Phases /\ Intents' = Intents /\ Answers' = Answers
  BY <1>1, <1>2, <1>3, GoesOnSeen, StatesKept
<1> QED
  BY <1>4 DEF Contract!vars, States, Phases, Intents, Answers

LEMMA StepSeen ==
  ASSUME ContractInv, serial, serial', NEW c \in Call, StepOf(c), Moves(c)
  PROVE  Contract!Next \/ UNCHANGED Contract!vars
<1>0. TypeInv
  BY DEF ContractInv
<1>1. ASSUME NEW j \in Jobs, Begin(c, j) PROVE Contract!Next
  <2>1. Contract!Ask(c, Intended(j)) /\ Intended(j) \in {Intended(i) : i \in Jobs}
    BY <1>0, <1>1, AskSeen
  <2> QED
    BY <2>1 DEF Contract!Next
<1>2. CASE TakeReply(c) \/ EndAlone(c) \/ (Kill(c) /\ Reset(c))
  <2>1. CASE TakeReply(c) \/ (Kill(c) /\ Reset(c))
    <3>1. pc[c] # "idle" /\ Reset(c) /\ UNCHANGED <<exists, power>>
      <4>1. pc[c] # "idle"
        BY <2>1 DEF TakeReply, Kill, GoTo
      <4> QED
        BY <2>1, <4>1 DEF TakeReply, Kill, GiveUp, host, store
    <3> QED
      BY <1>0, <3>1, EndSeen DEF Contract!Next
  <2> QED
    BY <1>2, <2>1, EndAloneSeen DEF Contract!Next
<1>8. CASE Kill(c) /\ ~Reset(c)
  BY <1>8, WaySeen
<1>3. CASE \/ Refuse(c) \/ NotFound(c) \/ MakeDiskFails(c)
           \/ ReadVMXFails(c) \/ TruncateFails(c) \/ WriteFails(c)
  BY <1>0, <1>3, RefusalSeen DEF Contract!Next
<1>4. CASE \/ Power(c) \/ Clone(c) \/ Configure(c) \/ ImportImage(c)
           \/ MakeBundle(c) \/ MakeDisk(c) \/ ReadVMX(c) \/ Truncate(c)
  BY <1>4, WaySeen
<1>5. CASE Create(c) \/ EnsureOff(c)
  <2>1. CASE Return(c, "failed")
    <3>1. pc[c] \notin {"idle", "done"} /\ exists' = exists /\ power' = power
      BY <1>5 DEF Create, EnsureOff, host, store
    <3> QED
      BY <1>0, <2>1, <3>1, ReturnedSeen DEF Contract!Next
  <2>2. CASE ~Return(c, "failed")
    BY <1>5, <2>2, WaySeen
  <2> QED
    BY <2>1, <2>2
<1>6. CASE Command(c)
  BY <1>6, CommandSeen DEF Contract!Next
<1>7. CASE ImportInPlace(c) \/ Write(c)
  <2>1. /\ pc[c] \notin {"idle", "done"} /\ Return(c, "ok") /\ exists' = exists /\ power' = power
        /\ \/ job[c].op = "configure"
           \/ job[c].op = "import" /\ job[c].format = "vmx"
    BY <1>7 DEF ImportInPlace, Write, ContractInv, Alone, host, store
  <2> QED
    BY <1>0, <2>1, DoneSeen DEF Contract!Next
<1> QED
  BY <1>1, <1>2, <1>3, <1>4, <1>5, <1>6, <1>7, <1>8 DEF StepOf, Step

LEMMA NextSeen == ContractInv /\ [Next]_vars => [Contract!Next]_(Contract!vars)
<1> SUFFICES ASSUME ContractInv, [Next]_vars PROVE Contract!Next \/ UNCHANGED Contract!vars
  OBVIOUS
<1>1. CASE UNCHANGED vars
  <2>1. States' = States /\ Phases' = Phases /\ Intents' = Intents /\ Answers' = Answers
    BY <1>1 DEF vars, store, States, RefState, Phases, Phase, Intents, Intended, Named, Answers
  <2> QED
    BY <2>1 DEF Contract!vars, States, Phases, Intents, Answers
<1>2. CASE Next /\ ~serial
  <2>1. ~serial /\ ~serial'
    BY <1>2 DEF Next
  <2> QED
    BY <2>1 DEF Contract!vars
<1>3. CASE Next /\ serial
  <2>1. serial /\ serial'
    BY <1>3 DEF Next
  <2>2. PICK c \in Call : StepOf(c) /\ Moves(c)
    BY <1>3, StepOfOne DEF StepOf, ContractInv
  <2> QED
    BY <2>1, <2>2, StepSeen
<1> QED
  BY <1>1, <1>2, <1>3

\* VMware honors "the neutral operation surface" (provider/ops.go:45-48) where clients
\* make one call at a time: an operation changes one of the machines that its name may
\* stand for, once, as its name says, or nothing, and "ok" says that it did.
THEOREM VMwareHonorsContract == Spec => ImplementsContract
<1>1. Init => Contract!Init
  BY DEF Init, Contract!Init, RefState, Phase
<1> QED
  BY <1>1, ContractInvariance, NextSeen, PTL DEF Spec, ImplementsContract, Contract!Spec
-----------------------------------------------------------------------------
(* What the replies amount to.                                             *)

\* A configuration is as it should be but for some keys, which are missing where one
\* call is made at a time.
AsTold(conf, should, keys) ==
  \A k \in Key : conf[k] # should[k] => k \in keys /\ (serial => conf[k] = None)

AtFile(c) == pc[c] \in {"truncate", "write"}

\* A call knows what was told, but for the keys that it is behind in.
ReadInv(c) == AtFile(c) => AsTold(seen[c], told[path[c]], behind[c])

FileInv(p) == p \in exists => AsTold(content[p], told[p], spoilt[p])

FilesInv == (\A c \in Call : ReadInv(c)) /\ (\A p \in Path : FileInv(p))

\* Others at files are there only where calls do not wait for each other.
Others(c) == serial => \A d \in Call \ {c} : ~AtFile(d) /\ ~AtFile(d)'

LEMMA OthersStay ==
  ASSUME NEW c \in Call, Moves(c)
  PROVE  \A d \in Call \ {c} : /\ pc'[d] = pc[d] /\ path'[d] = path[d] /\ seen'[d] = seen[d]
                               /\ AtFile(d)' <=> AtFile(d)
  BY DEF Moves, AtFile

LEMMA OthersIdle ==
  ASSUME ContractInv, NEW c \in Call, StepOf(c), Moves(c), serial' = serial
  PROVE  Others(c)
<1> SUFFICES ASSUME serial, NEW d \in Call \ {c}, AtFile(d) PROVE FALSE
  BY OthersStay DEF Others
<1>1. pc[d] \notin {"idle"} /\ pc[c] = "idle"
  BY DEF AtFile, ContractInv, Alone
<1>2. PICK j \in Jobs : Begin(c, j)
  BY <1>1 DEF StepOf, Step, Refuse, NotFound, Power, Clone, Configure, Create, ImportInPlace,
     ImportImage, Command, MakeBundle, MakeDisk, MakeDiskFails, EnsureOff, ReadVMX, ReadVMXFails,
     Truncate, TruncateFails, Write, WriteFails, GoTo, TakeReply, Kill, EndAlone
<1> QED
  BY <1>1, <1>2 DEF Begin

\* A call that is at no file when it has moved leaves all files alone.
LEMMA FilesKept ==
  ASSUME FilesInv, NEW c \in Call, Moves(c), ~AtFile(c)', serial' = serial,
         UNCHANGED <<exists, content, told, spoilt>>,
         \A d \in Call \ {c} : behind'[d] = behind[d]
  PROVE  FilesInv'
<1>1. \A d \in Call : ReadInv(d)'
  BY OthersStay DEF FilesInv, ReadInv, AsTold
<1>2. \A p \in Path : FileInv(p)'
  BY DEF FilesInv, FileInv, AsTold
<1> QED
  BY <1>1, <1>2 DEF FilesInv

\* What happens to other files is none of p's business.
Elsewhere(p) == \A q \in Path \ {p} : /\ q \in exists' <=> q \in exists
                                      /\ content'[q] = content[q]
                                      /\ told'[q] = told[q]
                                      /\ spoilt'[q] = spoilt[q]

LEMMA OtherFiles ==
  ASSUME FilesInv, serial' = serial, NEW p \in Path, Elsewhere(p)
  PROVE  \A q \in Path \ {p} : FileInv(q)'
  BY DEF FilesInv, FileInv, Elsewhere, AsTold

\* Whoever has read a file that is now another one is behind in all of it.
LEMMA FileReplaced ==
  ASSUME TypeInv, FilesInv, NEW c \in Call, Moves(c), Others(c), serial' = serial,
         ~AtFile(c)', NEW p \in Path, Elsewhere(p), Changed(c, p),
         p \in exists' => content'[p] = told'[p]
  PROVE  FilesInv'
<1>1. \A d \in Call : ReadInv(d)'
  <2> SUFFICES ASSUME NEW d \in Call \ {c}, AtFile(d)
               PROVE  \A k \in Key : seen'[d][k] # told'[path'[d]][k] =>
                                       k \in behind'[d] /\ (serial => seen'[d][k] = None)
    BY OthersStay DEF ReadInv, AsTold
  <2>1. path'[d] = path[d] /\ seen'[d] = seen[d] /\ path[d] \in Path /\ ~serial
    BY OthersStay DEF AtFile, TypeInv, CallInv, Others
  <2>2. CASE path[d] = p
    <3>1. d \in Editing(p) \ {c}
      BY <2>2 DEF Editing, AtFile
    <3>2. behind'[d] = Key
      BY <3>1 DEF Changed
    <3> QED
      BY <2>1, <3>2 DEF AsTold
  <2>3. CASE path[d] # p
    <3>1. behind'[d] = behind[d] /\ told'[path[d]] = told[path[d]]
      BY <2>1, <2>3 DEF Changed, Editing, Elsewhere
    <3> QED
      BY <2>1, <3>1 DEF FilesInv, ReadInv, AsTold
  <2> QED
    BY <2>2, <2>3
<1>2. FileInv(p)'
  BY DEF FileInv, AsTold
<1> QED
  BY <1>1, <1>2, OtherFiles DEF FilesInv

\* vmrun and ovftool replace files, and tell.
LEMMA CommandFiles ==
  ASSUME TypeInv, FilesInv, NEW c \in Call, Moves(c), Others(c), serial' = serial,
         pc[c] \in {"command", "orphan"}, ~AtFile(c)', Effect(c) \/ UNCHANGED host
  PROVE  FilesInv'
<1>1. HostTypes /\ CallInv(c) /\ job[c] \in Jobs
  BY TypesSplit DEF TypeInv, CallInv
<1>2. CASE UNCHANGED <<exists, content, told, spoilt, behind>>
  BY <1>2, FilesKept
<1>3. ASSUME NEW p \in Path, NEW conf \in Config, NewVM(c, p, conf) PROVE FilesInv'
  <2>1. Elsewhere(p) /\ content'[p] = told'[p] /\ Changed(c, p)
    BY <1>1, <1>3 DEF NewVM, Elsewhere, Changed, HostTypes
  <2> QED
    BY <2>1, FileReplaced
<1>4. CASE job[c].op = "delete" /\ DeleteVM(c, path[c])
  <2>1. path[c] \in Path
    BY <1>1, <1>4 DEF CallInv
  <2>2. Elsewhere(path[c]) /\ path[c] \notin exists' /\ Changed(c, path[c])
    BY <1>1, <1>4, <2>1 DEF DeleteVM, Elsewhere, Changed, HostTypes
  <2>3. ASSUME NEW p \in Path, p = path[c] PROVE FilesInv'
    BY <2>2, <2>3, FileReplaced
  <2> QED
    BY <2>1, <2>3
<1>5. CASE job[c].op = "clone" /\ CloneVM(c, path[c], job[c].dest)
  <2>1. <<job[c].dest, "own">> \in Path /\ content[path[c]] \in Config
    BY <1>1, <1>5, JobFacts DEF Path, CallInv, HostTypes
  <2> QED
    BY <1>3, <1>5, <2>1 DEF CloneVM
<1>6. CASE job[c].op = "import" /\ ImportOVA(c, job[c].vm)
  <2>1. <<job[c].vm, "image">> \in Path
    BY <1>1, <1>6, JobFacts DEF Path
  <2> QED
    BY <1>3, <1>6, <2>1, ImageAssumption DEF ImportOVA
<1> QED
  BY <1>2, <1>4, <1>5, <1>6 DEF Effect, StartVM, PowerTo, ResetVM, host, store, history

LEMMA ReadFiles ==
  ASSUME TypeInv, FilesInv, NEW c \in Call, Moves(c), serial' = serial, ReadVMX(c)
  PROVE  FilesInv'
<1>1. /\ path'[c] = path[c] /\ path[c] \in exists /\ seen'[c] = content[path[c]]
      /\ behind' = [behind EXCEPT ![c] = spoilt[path[c]]]
      /\ UNCHANGED <<exists, content, told, spoilt>>
  BY DEF ReadVMX, GoTo, TypeInv, TypeOK, store
<1>2. path[c] \in Path /\ behind'[c] = spoilt[path[c]]
  BY <1>1 DEF TypeInv, TypeOK
<1>3. ReadInv(c)'
  BY <1>1, <1>2 DEF FilesInv, FileInv, ReadInv, AsTold
<1>4. \A d \in Call \ {c} : ReadInv(d)'
  BY <1>1, OthersStay DEF FilesInv, ReadInv, AsTold
<1>5. \A p \in Path : FileInv(p)'
  BY <1>1 DEF FilesInv, FileInv, AsTold
<1> QED
  BY <1>3, <1>4, <1>5 DEF FilesInv

LEMMA TruncateFiles ==
  ASSUME TypeInv, FilesInv, NEW c \in Call, Moves(c), serial' = serial, Truncate(c)
  PROVE  FilesInv'
<1>0. PICK p \in Path : p = path[c]
  BY DEF Truncate, GoTo, TypeInv, CallInv
<1>1. /\ path' = path /\ seen' = seen /\ told' = told /\ behind' = behind
      /\ exists' = exists \cup {p} /\ content' = [content EXCEPT ![p] = Empty]
      /\ spoilt' = [spoilt EXCEPT ![p] = Key] /\ pc[c] = "truncate"
  BY <1>0 DEF Truncate, GoTo
<1>2. \A d \in Call : ReadInv(d)'
  BY <1>1, OthersStay DEF FilesInv, ReadInv, AtFile, AsTold
<1>3. content'[p] = Empty /\ spoilt'[p] = Key /\ Elsewhere(p)
  BY <1>1 DEF TypeInv, TypeOK, Elsewhere
<1>4. FileInv(p)'
  BY <1>3 DEF FileInv, AsTold, Empty
<1> QED
  BY <1>2, <1>3, <1>4, OtherFiles DEF FilesInv

LEMMA WriteFiles ==
  ASSUME TypeInv, FilesInv, NEW c \in Call, Moves(c), Others(c), serial' = serial, Write(c)
  PROVE  FilesInv'
<1>0. PICK p \in Path, pairs \in Pairs : p = path[c] /\ pairs = job[c].pairs
  BY JobFacts DEF Write, TypeInv, CallInv
<1>1. pc[c] = "write" /\ ~AtFile(c)' /\ exists' = exists
  BY DEF Write, Return, TypeInv, TypeOK, AtFile
<1>2. CASE p \notin exists
  BY <1>0, <1>1, <1>2, FilesKept DEF Write, TypeInv, TypeOK
<1>3. CASE p \in exists
  <2>1. /\ content' = [content EXCEPT ![p] = Merge(seen[c], pairs)]
        /\ told' = [told EXCEPT ![p] = Merge(told[p], pairs)]
        /\ spoilt' = [spoilt EXCEPT ![p] = behind[c] \ DOMAIN pairs]
        /\ behind' = [d \in Call |-> IF d = c THEN {}
                                    ELSE IF d \in Editing(p) THEN behind[d] \cup DOMAIN pairs
                                    ELSE behind[d]]
    BY <1>0, <1>3 DEF Write
  <2>2. /\ content'[p] = Merge(seen[c], pairs) /\ told'[p] = Merge(told[p], pairs)
        /\ spoilt'[p] = behind[c] \ DOMAIN pairs /\ Elsewhere(p)
    BY <1>1, <2>1 DEF TypeInv, TypeOK, Elsewhere
  <2>3. FileInv(p)'
    <3>1. AsTold(seen[c], told[p], behind[c])
      BY <1>0, <1>1 DEF FilesInv, ReadInv, AtFile
    <3>2. \A k \in Key : content'[p][k] # told'[p][k] =>
                          k \in behind[c] \ DOMAIN pairs /\ (serial => content'[p][k] = None)
      BY <2>2, <3>1 DEF AsTold, Merge
    <3> QED
      BY <2>2, <3>2 DEF FileInv, AsTold
  <2>4. \A d \in Call : ReadInv(d)'
    <3> SUFFICES ASSUME NEW d \in Call \ {c}, AtFile(d)
                 PROVE  \A k \in Key : seen[d][k] # told'[path[d]][k] =>
                                         k \in behind'[d] /\ (serial => seen[d][k] = None)
      BY <1>1, OthersStay DEF ReadInv, AsTold
    <3>1. path[d] \in Path /\ ~serial /\ AsTold(seen[d], told[path[d]], behind[d])
      BY DEF AtFile, TypeInv, CallInv, Others, FilesInv, ReadInv
    <3>2. CASE path[d] = p
      <4>1. behind'[d] = behind[d] \cup DOMAIN pairs
        BY <2>1, <3>2 DEF Editing, AtFile
      <4> QED
        BY <2>2, <3>1, <3>2, <4>1 DEF AsTold, Merge
    <3>3. CASE path[d] # p
      <4>1. behind'[d] = behind[d] /\ told'[path[d]] = told[path[d]]
        BY <2>1, <2>2, <3>1, <3>3 DEF Editing, Elsewhere
      <4> QED
        BY <3>1, <4>1 DEF AsTold
    <3> QED
      BY <3>2, <3>3
  <2> QED
    BY <2>2, <2>3, <2>4, OtherFiles DEF FilesInv
<1> QED
  BY <1>2, <1>3

LEMMA StepFiles ==
  ASSUME TypeInv, FilesInv, NEW c \in Call, Moves(c), Others(c), serial' = serial, StepOf(c)
  PROVE  FilesInv'
<1> USE DEF TypeInv, TypeOK
<1>1. CASE \/ (\E j \in Jobs : Begin(c, j)) \/ TakeReply(c)
           \/ Refuse(c) \/ NotFound(c) \/ ImportInPlace(c) \/ MakeDiskFails(c)
           \/ Power(c) \/ Clone(c) \/ Configure(c) \/ Create(c) \/ ImportImage(c)
           \/ MakeBundle(c) \/ MakeDisk(c) \/ EnsureOff(c)
  <2>1. UNCHANGED <<exists, content, told, spoilt, behind>>
    BY <1>1
    DEF Begin, TakeReply, Refuse, NotFound, ImportInPlace, MakeDiskFails, Power, Clone, Configure,
        Create, ImportImage, MakeBundle, MakeDisk, EnsureOff, Resolved, host, store, history
  <2>2. ~AtFile(c)'
    <3>1. CASE (\E j \in Jobs : Begin(c, j)) \/ TakeReply(c)
      BY <3>1 DEF Begin, TakeReply, Reset, GoTo, AtFile
    <3>2. CASE Refuse(c) \/ NotFound(c) \/ ImportInPlace(c) \/ MakeDiskFails(c)
      BY <3>2 DEF Refuse, NotFound, ImportInPlace, MakeDiskFails, Return, AtFile
    <3>3. CASE Power(c) \/ Clone(c) \/ Configure(c) \/ Create(c) \/ ImportImage(c)
      BY <3>3 DEF Power, Clone, Configure, Create, ImportImage, Resolved, GoTo, Return, AtFile
    <3>4. CASE MakeBundle(c) \/ MakeDisk(c) \/ EnsureOff(c)
      BY <3>4 DEF MakeBundle, MakeDisk, EnsureOff, GoTo, Return, AtFile
    <3> QED
      BY <1>1, <3>1, <3>2, <3>3, <3>4
  <2> QED
    BY <2>1, <2>2, FilesKept
<1>2. CASE ReadVMXFails(c) \/ TruncateFails(c) \/ WriteFails(c) \/ Kill(c)
  <2>1. ~AtFile(c)' /\ GiveUp(c)
    BY <1>2 DEF ReadVMXFails, TruncateFails, WriteFails, Kill, Return, Reset, GoTo, AtFile
  <2> QED
    BY <2>1, FilesKept DEF GiveUp, store
<1>3. CASE Command(c) \/ EndAlone(c)
  <2>1. ~AtFile(c)' /\ pc[c] \in {"command", "orphan"} /\ (Effect(c) \/ UNCHANGED host)
    BY <1>3 DEF Command, EndAlone, Return, Reset, AtFile
  <2> QED
    BY <2>1, CommandFiles
<1> QED
  BY <1>1, <1>2, <1>3, ReadFiles, TruncateFiles, WriteFiles DEF StepOf, Step

\* The invariant that RepliesAddUp rests on.
IInv == ContractInv /\ FilesInv

LEMMA Invariance == Spec => []IInv
<1>1. Init => FilesInv
  BY DEF Init, FilesInv, ReadInv, FileInv, AtFile, AsTold
<1>2. IInv /\ [Next]_vars => IInv'
  <2> SUFFICES ASSUME IInv, [Next]_vars PROVE IInv'
    OBVIOUS
  <2>1. ContractInv'
    BY NextContractInv DEF IInv
  <2>2. CASE UNCHANGED vars
    BY <2>1, <2>2
    DEF IInv, FilesInv, ReadInv, FileInv, AtFile, AsTold, vars, store, history
  <2>3. CASE Next
    <3>1. PICK c \in Call : StepOf(c) /\ Moves(c)
      BY <2>3, StepOfOne DEF IInv, ContractInv
    <3>2. serial' = serial
      BY <2>3 DEF Next
    <3> QED
      BY <2>1, <3>1, <3>2, OthersIdle, StepFiles DEF IInv, ContractInv
  <2> QED
    BY <2>2, <2>3
<1> QED
  BY <1>1, <1>2, InitContractInv, PTL DEF Spec, IInv

\* Every key that a reply said was set is in the file, with all that was there before
\* (ops.go:85-106), but for keys that a write which was cut off emptied, and keys that a
\* call wrote as it had read them before they were set or while they were spoilt.  One call
\* at a time never leaves an earlier value: such a key is missing.
THEOREM RepliesAddUp == Spec => []ToldIsTrue
<1>1. IInv => ToldIsTrue
  BY DEF IInv, ContractInv, TypeInv, TypeOK, FilesInv, FileInv, AsTold, ToldIsTrue
<1> QED
  BY <1>1, Invariance, PTL
=============================================================================
