------------------------ MODULE VirtualBoxNetProofs ------------------------
(***************************************************************************)
(* The network operations keep their word for any number of calls,         *)
(* networks, addresses and rules.                                          *)
(***************************************************************************)
EXTENDS VirtualBoxNet, TLAPS

\* The commands of an operation.
Stages(op) == CASE op = "ensure" -> {"list", "add", "done"}
                [] op = "expose" -> {"modify", "done"}
                [] OTHER -> {"property", "info", "networks", "find", "done"}

Shape(c) == \/ call[c] = Idle
            \/ /\ call[c].job \in Asked
               /\ call[c].at \in Stages(call[c].job.op)
               /\ call[c].at # "find" => call[c].todo = {}
               /\ call[c].at = "networks" => call[c].job.network = None

\* A call is on its way.
Asks(c, op) == call[c].at \notin {"idle", "done"} /\ call[c].job.op = op

\* The addresses and the leases that it knows of take in the present.
Watches(c) == Asks(c, "ip") => Addresses \subseteq had[c] /\ sure[c] \subseteq Leased

\* It has the MAC address of a machine that was there during the call.
Knows(c) == call[c].at \in {"networks", "find"} =>
              /\ call[c].mac \in MAC
              /\ \A n \in Network : lease[n][call[c].mac] # None =>
                                      lease[n][call[c].mac] \in had[c]
              /\ \A s \in sure[c] : s[2] = call[c].mac

\* A lease that it could not miss is still to be looked for.
Looks(c) == call[c].at = "find" /\ c \notin hit =>
              \A s \in sure[c] : \/ s[1] \in call[c].todo
                                 \/ IF call[c].job.network = None THEN FirstWord[s[1]] # s[1]
                                    ELSE s[1] # call[c].job.network

\* The network to add is not there, unless it has just come.
Adds(c) == call[c].at = "add" /\ c \notin hit \cup crossed => call[c].job.network \notin Networks

AddressOf(c) == Answered(c, "ip") /\ call[c].reply # "failed" => call[c].reply \in had[c]

LeaseOfCall(c) == Answered(c, "ip") /\ call[c].reply = "failed" /\ c \notin hit =>
                    \A s \in sure[c] : IF call[c].job.network = None THEN FirstWord[s[1]] # s[1]
                                       ELSE s[1] # call[c].job.network

EnsureOf(c) == Answered(c, "ensure") /\ call[c].reply = "failed" => c \in hit \cup crossed

CallInv(c) == /\ Shape(c)
              /\ Watches(c) /\ Knows(c) /\ Looks(c) /\ Adds(c)
              /\ AddressOf(c) /\ LeaseOfCall(c) /\ EnsureOf(c)

\* There are leases on networks only.
LeasesInNetworks == \A n \in Network, m \in MAC : lease[n][m] # None => n \in Networks

Promise == [network : Network, cidr : CIDR] \cup [network : Network, rule : Rule]

IInv == /\ TypeOK /\ LeasesInNetworks
        /\ promised \subseteq Promise /\ PromisesKept
        /\ \A c \in Call : CallInv(c)
-----------------------------------------------------------------------------
LEMMA JobFacts ==
  ASSUME NEW j \in Asked
  PROVE  /\ j.op \in {"ensure", "expose", "ip"}
         /\ j.op = "ensure" => j.network \in Network /\ j.cidr \in CIDR
         /\ j.op = "expose" => j.network \in Network /\ j.rule \in Rule
         /\ j.op = "ip" => j.network \in Network \cup {None}
  BY AskedAssumption DEF Jobs

LEMMA StagesOf == /\ Stages("ensure") = {"list", "add", "done"}
                  /\ Stages("expose") = {"modify", "done"}
                  /\ Stages("ip") = {"property", "info", "networks", "find", "done"}
                  /\ Start("ensure") = "list" /\ Start("expose") = "modify"
                  /\ Start("ip") = "property"
  BY DEF Stages, Start

\* The operation of a call tells its commands, and its command the operation.
LEMMA CommandTells ==
  ASSUME IInv, NEW c \in Call, call[c].at # "idle"
  PROVE  /\ call[c].job \in Asked
         /\ call[c].at \in {"list", "add"} => call[c].job.op = "ensure"
         /\ call[c].at = "modify" => call[c].job.op = "expose"
         /\ call[c].at \in {"property", "info", "networks", "find"} => call[c].job.op = "ip"
         /\ call[c].at # "find" => call[c].todo = {}
<1>1. call[c].job \in Asked /\ call[c].at \in Stages(call[c].job.op)
      /\ (call[c].at # "find" => call[c].todo = {})
  BY DEF IInv, CallInv, Shape, Idle
<1> QED
  BY <1>1, JobFacts, StagesOf
-----------------------------------------------------------------------------
\* What a step does to the host: a lease stays, goes, or is the machine's.
Moves == /\ LeasesInNetworks'
         /\ \A n \in Network, m \in MAC :
              lease'[n][m] \in {lease[n][m], None} \/ m = nic'
         /\ network' \in [Network -> CIDR \cup {None}]
         /\ lease' \in [Network -> [MAC -> IP \cup {None}]]
         /\ rules' \in [Network -> SUBSET Rule]
         /\ nic' \in MAC \cup {None}
         /\ tools' \in IP \cup {None}

LEMMA QuietMoves == ASSUME IInv, UNCHANGED host PROVE Moves
  BY DEF IInv, TypeOK, host, Moves, LeasesInNetworks, Networks

\* What follows from the history that is kept.
LEMMA Remembered ==
  ASSUME IInv, Remember, Moves, NEW c \in Call
  PROVE  /\ Addresses' \subseteq IP
         /\ Leased' \subseteq Network \X MAC
         /\ had'[c] = IF ~(call'[c].at # "idle" /\ call'[c].job.op = "ip") THEN {}
                      ELSE IF call[c].reply = None THEN had[c] \cup Addresses' ELSE had[c]
         /\ sure'[c] = IF ~(call'[c].at # "idle" /\ call'[c].job.op = "ip") THEN {}
                       ELSE IF call[c] = Idle THEN Leased'
                       ELSE IF call[c].reply = None THEN sure[c] \cap Leased'
                       ELSE sure[c]
         /\ c \in crossed' <=> /\ call'[c].at # "idle" /\ call'[c].job.op = "ensure"
                               /\ \/ c \in crossed
                                  \/ /\ call[c].reply = None
                                     /\ LET n == call'[c].job.network
                                        IN  (n \in Networks') # (n \in Networks)
<1>1. Addresses' \subseteq IP
  BY DEF Moves, Addresses
<1>2. Leased' \subseteq Network \X MAC
  BY DEF Moves, Leased
<1> QED
  BY <1>1, <1>2 DEF Remember

\* An address of the machine's adapter is one of its addresses.
LEMMA LeaseIsAddress ==
  ASSUME NEW n \in Network, NEW m \in MAC, m = nic, lease[n][m] # None
  PROVE  lease[n][m] \in Addresses
  BY DEF Addresses

\* A call that does nothing in a step keeps its invariant, whatever the host does.
LEMMA OthersKeep ==
  ASSUME IInv, Remember, Moves, NEW e \in Call, call'[e] = call[e], e \in hit' <=> e \in hit
  PROVE  CallInv(e)'
<1>1. CallInv(e)
  BY DEF IInv
<1>2. call[e].reply # None <=> call[e].at = "done"
  BY DEF IInv, TypeOK
<1>3. CASE call[e].at \in {"idle", "done"}
  <2>1. Shape(e)' /\ Watches(e)' /\ Knows(e)' /\ Looks(e)' /\ Adds(e)'
    BY <1>1, <1>3 DEF CallInv, Shape, Watches, Asks, Knows, Looks, Adds
  <2>2. call[e].at = "done" =>
          /\ call[e] # Idle /\ call[e].reply # None
          /\ call[e].job.op = "ip" => had'[e] = had[e] /\ sure'[e] = sure[e]
          /\ call[e].job.op = "ensure" => (e \in crossed => e \in crossed')
    <3> SUFFICES ASSUME call[e].at = "done"
                 PROVE  /\ call[e] # Idle /\ call[e].reply # None
                        /\ call[e].job.op = "ip" => had'[e] = had[e] /\ sure'[e] = sure[e]
                        /\ call[e].job.op = "ensure" => (e \in crossed => e \in crossed')
      OBVIOUS
    <3>1. call[e] # Idle /\ call[e].reply # None
      BY <1>2 DEF Idle
    <3>2. call[e].job.op = "ip" => had'[e] = had[e] /\ sure'[e] = sure[e]
      BY <3>1, Remembered
    <3>3. call[e].job.op = "ensure" => (e \in crossed => e \in crossed')
      BY <3>1, Remembered
    <3> QED
      BY <3>1, <3>2, <3>3
  <2>3. AddressOf(e)' /\ LeaseOfCall(e)' /\ EnsureOf(e)'
    BY <1>1, <2>2 DEF CallInv, AddressOf, LeaseOfCall, EnsureOf, Answered
  <2> QED
    BY <2>1, <2>3 DEF CallInv
<1>4. CASE call[e].at \notin {"idle", "done"}
  <2>1. call[e] # Idle /\ call[e].reply = None
    BY <1>2, <1>4 DEF Idle
  <2>2. call[e].job.op = "ip" => /\ had'[e] = had[e] \cup Addresses'
                                 /\ sure'[e] = sure[e] \cap Leased'
    BY <1>4, <2>1, Remembered
  <2>3. Shape(e)' /\ Watches(e)'
    BY <1>1, <2>2 DEF CallInv, Shape, Watches, Asks
  <2>4. Knows(e)'
    <3> SUFFICES ASSUME call[e].at \in {"networks", "find"} PROVE Knows(e)'
      BY DEF Knows
    <3>1. call[e].job.op = "ip" /\ call[e].mac \in MAC
      BY <1>1, <1>4, CommandTells DEF CallInv, Knows
    <3>2. ASSUME NEW n \in Network, lease'[n][call[e].mac] # None
          PROVE  lease'[n][call[e].mac] \in had'[e]
      <4>1. CASE lease'[n][call[e].mac] = lease[n][call[e].mac]
        BY <1>1, <2>2, <3>1, <3>2, <4>1 DEF CallInv, Knows
      <4>2. CASE call[e].mac = nic'
        <5>1. lease'[n][call[e].mac] \in Addresses'
          BY <3>1, <3>2, <4>2 DEF Addresses
        <5> QED
          BY <2>2, <3>1, <5>1
      <4> QED
        BY <3>1, <3>2, <4>1, <4>2 DEF Moves
    <3> QED
      BY <1>1, <2>2, <3>1, <3>2 DEF CallInv, Knows
  <2>5. Looks(e)'
    <3>1. CASE call[e].at = "find"
      <4>1. call[e].job.op = "ip"
        BY <1>4, <3>1, CommandTells
      <4> QED
        BY <1>1, <2>2, <4>1 DEF CallInv, Looks
    <3>2. CASE call[e].at # "find"
      BY <3>2 DEF Looks
    <3> QED
      BY <3>1, <3>2
  <2>6. Adds(e)'
    <3>1. CASE call[e].at = "add"
      <4>1. call[e].job.op = "ensure"
        BY <1>4, <3>1, CommandTells
      <4>2. e \notin crossed' => /\ e \notin crossed
                                 /\ LET n == call[e].job.network
                                    IN  n \in Networks' <=> n \in Networks
        BY <1>4, <2>1, <4>1, Remembered
      <4> QED
        BY <1>1, <4>2 DEF CallInv, Adds
    <3>2. CASE call[e].at # "add"
      BY <3>2 DEF Adds
    <3> QED
      BY <3>1, <3>2
  <2>7. AddressOf(e)' /\ LeaseOfCall(e)' /\ EnsureOf(e)'
    BY <1>4 DEF AddressOf, LeaseOfCall, EnsureOf, Answered
  <2> QED
    BY <2>3, <2>4, <2>5, <2>6, <2>7 DEF CallInv
<1> QED
  BY <1>3, <1>4
-----------------------------------------------------------------------------
CallType == [at : Commands \cup {"idle", "done"}, job : Asked \cup {None},
             mac : MAC \cup {None}, todo : SUBSET Network,
             reply : IP \cup {"ok", "failed", None}]

\* Where a call begins and where it ends.
BeginForm(at, job) == [Idle EXCEPT !.at = at, !.job = job]
DoneForm(job, answer) == [Idle EXCEPT !.at = "done", !.job = job, !.reply = answer]

LEMMA IdleType == /\ Idle \in CallType
                  /\ Idle.todo = {} /\ Idle.reply = None
<1>1. /\ Idle \in CallType
      /\ Idle = [at |-> "idle", job |-> None, mac |-> None, todo |-> {}, reply |-> None]
  BY DEF Idle, CallType
<1> QED
  BY <1>1

LEMMA BeginType ==
  ASSUME NEW at \in Commands, NEW job \in Asked
  PROVE  /\ BeginForm(at, job) \in CallType
         /\ BeginForm(at, job).at = at /\ BeginForm(at, job).job = job
         /\ BeginForm(at, job).todo = {} /\ BeginForm(at, job).reply = None
  BY IdleType DEF BeginForm, CallType

LEMMA DoneType ==
  ASSUME NEW job \in Asked, NEW answer \in IP \cup {"ok", "failed"}
  PROVE  /\ DoneForm(job, answer) \in CallType
         /\ DoneForm(job, answer).at = "done" /\ DoneForm(job, answer).job = job
         /\ DoneForm(job, answer).todo = {} /\ DoneForm(job, answer).reply = answer
  BY IdleType DEF DoneForm, CallType

Promises == promised \subseteq Promise /\ PromisesKept

\* The parts of a step make the whole.
LEMMA Together ==
  ASSUME IInv, Remember, Moves, Promises',
         call' \in [Call -> CallType], hit' \subseteq Call,
         \A c \in Call : call'[c].reply # None <=> call'[c].at = "done",
         \A c \in Call : CallInv(c)'
  PROVE  IInv'
<1>1. crossed' \subseteq Call
  BY DEF Remember
<1>2. had' \in [Call -> SUBSET IP]
  <2>1. \A c \in Call : had[c] \subseteq IP
    BY DEF IInv, TypeOK
  <2> QED
    BY <2>1, Remembered DEF Remember
<1>3. sure' \in [Call -> SUBSET (Network \X MAC)]
  <2>1. \A c \in Call : sure[c] \subseteq Network \X MAC
    BY DEF IInv, TypeOK
  <2> QED
    BY <2>1, Remembered DEF Remember
<1>4. TypeOK'
  BY <1>1, <1>2, <1>3 DEF TypeOK, Moves, CallType
<1> QED
  BY <1>4 DEF IInv, Moves, Promises

\* Call c is at another command, or has begun.
LEMMA GoesOn ==
  ASSUME IInv, Remember, UNCHANGED <<host, promised>>, NEW c \in Call, NEW r \in CallType,
         call' = [call EXCEPT ![c] = r], call[c].reply = None,
         r.reply = None, r.at \notin {"idle", "done"},
         hit' \subseteq Call, \A e \in Call \ {c} : e \in hit' <=> e \in hit,
         Shape(c)', Knows(c)', Looks(c)', Adds(c)'
  PROVE  IInv'
<1>1. Moves
  BY QuietMoves
<1>2. /\ call \in [Call -> CallType] /\ call'[c] = r
      /\ \A e \in Call : call[e].reply # None <=> call[e].at = "done"
      /\ \A e \in Call \ {c} : call'[e] = call[e]
  BY DEF IInv, TypeOK, CallType
<1>3. Watches(c)'
  <2> SUFFICES ASSUME r.job.op = "ip"
               PROVE  Addresses' \subseteq had'[c] /\ sure'[c] \subseteq Leased'
    BY <1>2 DEF Watches, Asks
  <2> QED
    BY <1>1, <1>2, Remembered
<1>4. AddressOf(c)' /\ LeaseOfCall(c)' /\ EnsureOf(c)'
  BY <1>2 DEF AddressOf, LeaseOfCall, EnsureOf, Answered
<1>5. CallInv(c)'
  BY <1>3, <1>4 DEF CallInv
<1>6. \A e \in Call \ {c} : CallInv(e)'
  BY <1>1, <1>2, OthersKeep
<1>7. Promises'
  BY DEF IInv, Promises, PromisesKept, Networks, host
<1> QED
  BY <1>1, <1>2, <1>5, <1>6, <1>7, Together

\* Call c is answered.
LEMMA Answers ==
  ASSUME IInv, Remember, Moves, Promises', NEW c \in Call,
         NEW answer \in IP \cup {"ok", "failed"}, Return(c, answer),
         call[c].at \notin {"idle", "done"},
         hit' \subseteq Call, \A e \in Call \ {c} : e \in hit' <=> e \in hit,
         call[c].job.op = "ip" /\ answer # "failed" => answer \in had[c] \cup Addresses',
         call[c].job.op = "ip" /\ answer = "failed" /\ c \notin hit' =>
           \A s \in sure[c] \cap Leased' :
             IF call[c].job.network = None THEN FirstWord[s[1]] # s[1]
             ELSE s[1] # call[c].job.network,
         call[c].job.op = "ensure" /\ answer = "failed" => c \in hit' \cup crossed
  PROVE  IInv'
<1> DEFINE r == DoneForm(call[c].job, answer)
<1>1. /\ call \in [Call -> CallType] /\ call[c].job \in Asked
      /\ \A e \in Call : call[e].reply # None <=> call[e].at = "done"
  BY CommandTells DEF IInv, TypeOK, CallType
<1>2. call' = [call EXCEPT ![c] = r]
  BY DEF Return, DoneForm
<1>3. answer # None
  BY NoneAssumption
<1>5. /\ r \in CallType
      /\ r.at = "done" /\ r.job = call[c].job /\ r.reply = answer /\ r.todo = {}
  BY <1>1, DoneType
<1> HIDE DEF r
<1>4. /\ call' \in [Call -> CallType] /\ call'[c] = r
      /\ \A e \in Call \ {c} : call'[e] = call[e]
  BY <1>1, <1>2, <1>5
<1>6. \A e \in Call : call'[e].reply # None <=> call'[e].at = "done"
  BY <1>1, <1>3, <1>4, <1>5
<1>7. CallInv(c)'
  <2>1. call[c] # Idle /\ call[c].reply = None
    BY <1>1 DEF Idle
  <2>2. call[c].job.op \in {"ensure", "expose", "ip"}
    BY <1>1, JobFacts
  <2>3. Shape(c)'
    BY <1>1, <1>4, <1>5, <2>2, StagesOf DEF Shape
  <2>4. Watches(c)' /\ Knows(c)' /\ Looks(c)' /\ Adds(c)'
    BY <1>4, <1>5 DEF Watches, Asks, Knows, Looks, Adds
  <2>5. call[c].job.op = "ip" => /\ had'[c] = had[c] \cup Addresses'
                                 /\ sure'[c] = sure[c] \cap Leased'
    <3> SUFFICES ASSUME call[c].job.op = "ip"
                 PROVE  had'[c] = had[c] \cup Addresses' /\ sure'[c] = sure[c] \cap Leased'
      OBVIOUS
    <3>1. call'[c].at # "idle" /\ call'[c].job.op = "ip"
      BY <1>4, <1>5
    <3> QED
      BY <2>1, <3>1, Remembered
  <2>6. call[c].job.op = "ensure" => (c \in crossed => c \in crossed')
    BY <1>4, <1>5, <2>1, Remembered
  <2>7. AddressOf(c)' /\ LeaseOfCall(c)' /\ EnsureOf(c)'
    BY <1>4, <1>5, <2>5, <2>6 DEF AddressOf, LeaseOfCall, EnsureOf, Answered
  <2> QED
    BY <2>3, <2>4, <2>7 DEF CallInv
<1>8. \A e \in Call \ {c} : CallInv(e)'
  BY <1>4, OthersKeep
<1> QED
  BY <1>4, <1>6, <1>7, <1>8, Together
-----------------------------------------------------------------------------
(* The steps of a call.                                                    *)

LEMMA BeginInv ==
  ASSUME IInv, Remember, NEW c \in Call, NEW j \in Asked, Begin(c, j)
  PROVE  IInv'
<1> DEFINE r == BeginForm(Start(j.op), j)
<1>1. call[c] = Idle /\ call \in [Call -> CallType] /\ call' = [call EXCEPT ![c] = r]
  BY DEF Begin, BeginForm, IInv, TypeOK, CallType
<1>2. Start(j.op) \in {"list", "modify", "property"} /\ Start(j.op) \in Stages(j.op)
  BY JobFacts, StagesOf
<1>3. /\ r \in CallType
      /\ r.at = Start(j.op) /\ r.job = j /\ r.todo = {} /\ r.reply = None
  BY <1>2, BeginType DEF Commands
<1> HIDE DEF r
<1>4. call'[c] = r
  BY <1>1
<1>5. Shape(c)' /\ Knows(c)' /\ Looks(c)' /\ Adds(c)'
  BY <1>2, <1>3, <1>4 DEF Shape, Knows, Looks, Adds
<1>6. call[c].reply = None /\ r.at \notin {"idle", "done"}
  BY <1>1, <1>2, <1>3 DEF Idle
<1>7. hit' \subseteq Call /\ (\A e \in Call \ {c} : e \in hit' <=> e \in hit)
      /\ UNCHANGED <<host, promised>>
  BY DEF Begin, IInv, TypeOK
<1> QED
  BY <1>1, <1>3, <1>5, <1>6, <1>7, GoesOn

\* What is known of a call that is on its way.
LEMMA OnItsWay ==
  ASSUME IInv, NEW c \in Call, call[c].at \notin {"idle", "done"}
  PROVE  /\ call \in [Call -> CallType] /\ call[c] \in CallType /\ call[c].reply = None
         /\ call[c].job \in Asked
         /\ call[c].job.op = "ip" => Addresses \subseteq had[c] /\ sure[c] \subseteq Leased
         /\ CallInv(c)
<1>1. call \in [Call -> CallType] /\ call[c] \in CallType /\ call[c].reply = None /\ CallInv(c)
  BY DEF IInv, TypeOK, CallType
<1>2. call[c].job \in Asked
  BY CommandTells
<1> QED
  BY <1>1, <1>2 DEF CallInv, Watches, Asks

\* The next command, with nothing changed but hit.
LEMMA GoesInv ==
  ASSUME IInv, Remember, NEW c \in Call, NEW to \in {"add", "info"}, Goes(c, to),
         call[c].at = IF to = "add" THEN "list" ELSE "property",
         UNCHANGED <<host, promised>>, hit' \in {hit, hit \cup {c}},
         to = "add" /\ c \notin hit' => call[c].job.network \notin Networks
  PROVE  IInv'
<1> DEFINE r == [call[c] EXCEPT !.at = to]
<1>1. call \in [Call -> CallType] /\ call[c].reply = None /\ call[c] \in CallType
  BY OnItsWay
<1>2. call' = [call EXCEPT ![c] = r]
  BY <1>1 DEF Goes, CallType
<1>3. /\ r \in CallType /\ r.at = to /\ r.job = call[c].job /\ r.todo = call[c].todo
      /\ r.reply = None
  BY <1>1 DEF CallType, Commands
<1>4. call'[c] = r
  BY <1>1, <1>2
<1>5. /\ call[c].job \in Asked /\ call[c].todo = {}
      /\ call[c].job.op = IF to = "add" THEN "ensure" ELSE "ip"
  BY CommandTells
<1> HIDE DEF r
<1>6. Shape(c)'
  BY <1>3, <1>4, <1>5, StagesOf DEF Shape
<1>7. Knows(c)' /\ Looks(c)'
  BY <1>3, <1>4 DEF Knows, Looks
<1>8. Adds(c)'
  <2>1. Networks' = Networks
    BY DEF Networks, host
  <2> QED
    BY <1>3, <1>4, <2>1 DEF Adds
<1>9. hit' \subseteq Call /\ \A e \in Call \ {c} : e \in hit' <=> e \in hit
  BY DEF IInv, TypeOK
<1> QED
  BY <1>1, <1>2, <1>3, <1>6, <1>7, <1>8, <1>9, GoesOn

\* A search of networks goes on with fewer of them: those left out have no lease
\* that could not be missed.
LEMMA SearchInv ==
  ASSUME IInv, Remember, NEW c \in Call, call[c].at \in {"networks", "find"},
         NEW nets \in SUBSET Network, Search(c, nets),
         UNCHANGED <<host, promised>>, hit' \in {hit, hit \cup {c}},
         c \notin hit' => \A s \in sure[c] :
                            \/ s[1] \in nets
                            \/ IF call[c].job.network = None THEN FirstWord[s[1]] # s[1]
                               ELSE s[1] # call[c].job.network
  PROVE  IInv'
<1> DEFINE r == [call[c] EXCEPT !.at = "find", !.todo = nets]
<1>1. call \in [Call -> CallType] /\ call[c].reply = None /\ call[c] \in CallType /\ CallInv(c)
  BY OnItsWay
<1>2. call' = [call EXCEPT ![c] = r]
  BY <1>1 DEF Search, CallType
<1>3. /\ r \in CallType /\ r.at = "find" /\ r.job = call[c].job /\ r.todo = nets
      /\ r.mac = call[c].mac /\ r.reply = None
  BY <1>1 DEF CallType, Commands
<1>4. call'[c] = r
  BY <1>1, <1>2
<1>5. call[c].job \in Asked /\ call[c].job.op = "ip"
  BY CommandTells
<1>6. had'[c] = had[c] \cup Addresses' /\ sure'[c] = sure[c] \cap Leased'
  <2>1. call[c] # Idle /\ Moves
    BY QuietMoves DEF Idle
  <2>2. call'[c].at # "idle" /\ call'[c].job.op = "ip"
    BY <1>3, <1>4, <1>5
  <2> QED
    BY <1>1, <2>1, <2>2, Remembered
<1> HIDE DEF r
<1>7. Shape(c)' /\ Adds(c)'
  BY <1>3, <1>4, <1>5, StagesOf DEF Shape, Adds
<1>8. Knows(c)'
  BY <1>1, <1>3, <1>4, <1>6 DEF CallInv, Knows, host
<1>9. Looks(c)'
  BY <1>3, <1>4, <1>6 DEF Looks
<1>10. hit' \subseteq Call /\ \A e \in Call \ {c} : e \in hit' <=> e \in hit
  BY DEF IInv, TypeOK
<1> QED
  BY <1>1, <1>2, <1>3, <1>7, <1>8, <1>9, <1>10, GoesOn

LEMMA TodoTells ==
  ASSUME IInv, NEW c \in Call, call[c].todo # {}
  PROVE  call[c].at = "find"
<1>1. Shape(c) /\ Idle.todo = {}
  BY IdleType DEF IInv, CallInv
<1> QED
  BY <1>1 DEF Shape

\* An answer that changes nothing on the host.
LEMMA QuietAnswer ==
  ASSUME IInv, Remember, NEW c \in Call, call[c].at \notin {"idle", "done"},
         NEW answer \in IP \cup {"ok", "failed"}, Return(c, answer),
         UNCHANGED <<host, promised>>, hit' \in {hit, hit \cup {c}},
         call[c].job.op = "ip" /\ answer # "failed" => answer \in had[c] \cup Addresses,
         call[c].job.op = "ip" /\ answer = "failed" /\ c \notin hit' =>
           \A s \in sure[c] \cap Leased :
             IF call[c].job.network = None THEN FirstWord[s[1]] # s[1]
             ELSE s[1] # call[c].job.network,
         call[c].job.op = "ensure" /\ answer = "failed" => c \in hit' \cup crossed
  PROVE  IInv'
<1>1. Moves
  BY QuietMoves
<1>2. Promises' /\ Addresses' = Addresses /\ Leased' = Leased
  BY DEF IInv, Promises, PromisesKept, Networks, Addresses, Leased, host
<1>3. hit' \subseteq Call /\ \A e \in Call \ {c} : e \in hit' <=> e \in hit
  BY DEF IInv, TypeOK
<1> QED
  BY <1>1, <1>2, <1>3, Answers

LEMMA EnsureInv ==
  ASSUME IInv, Remember, NEW c \in Call, Ensure(c)
  PROVE  IInv'
<1> DEFINE j == call[c].job
<1>0. call[c].at \in {"list", "add"} /\ j \in Asked /\ j.op = "ensure"
      /\ j.network \in Network /\ j.cidr \in CIDR
  <2>1. call[c].at \in {"list", "add"}
    BY DEF Ensure, List, Add, AddRefused
  <2> QED
    BY <2>1, CommandTells, JobFacts
<1> HIDE DEF j
<1>1. CASE List(c)
  <2>1. call[c].at = "list" /\ UNCHANGED <<host, promised>> /\ hit' = hit
    BY <1>1 DEF List, Quiet
  <2>2. CASE j.network \in Networks
    <3>1. Return(c, "ok")
      BY <1>1, <2>2 DEF List, j
    <3> QED
      BY <1>0, <2>1, <3>1, QuietAnswer DEF j
  <2>3. CASE j.network \notin Networks
    <3>1. Goes(c, "add")
      BY <1>1, <2>3 DEF List, j
    <3> QED
      BY <2>1, <2>3, <3>1, GoesInv DEF j
  <2> QED
    BY <2>2, <2>3
<1>2. CASE Add(c)
  <2>1. /\ call[c].at = "add" /\ j.network \notin Networks
        /\ network' = [network EXCEPT ![j.network] = j.cidr]
        /\ UNCHANGED <<lease, rules, nic, tools>>
    BY <1>2 DEF Add, j
  <2>2. j.cidr # None /\ network \in [Network -> CIDR \cup {None}]
    BY <1>0, NoneAssumption DEF IInv, TypeOK
  <2>3. Networks' = Networks \cup {j.network}
    BY <1>0, <2>1, <2>2 DEF Networks
  <2>4. Moves
    BY <1>0, <2>1, <2>2, <2>3 DEF IInv, TypeOK, Moves, LeasesInNetworks
  <2>5. ASSUME NEW p \in promised
        PROVE  /\ p.network \in Networks'
               /\ "cidr" \in DOMAIN p => network'[p.network] = p.cidr
               /\ "rule" \in DOMAIN p => p.rule \in rules'[p.network]
    <3>1. /\ p.network \in Networks
          /\ "cidr" \in DOMAIN p => network[p.network] = p.cidr
          /\ "rule" \in DOMAIN p => p.rule \in rules[p.network]
      BY DEF IInv, PromisesKept
    <3>2. p.network # j.network /\ p.network \in Network
      BY <2>1, <3>1 DEF Networks
    <3> QED
      BY <2>1, <2>2, <2>3, <3>1, <3>2
  <2>6. CASE Return(c, "ok") /\ hit' = hit
             /\ promised' = promised \cup {[network |-> j.network, cidr |-> j.cidr]}
    <3> DEFINE p == [network |-> j.network, cidr |-> j.cidr]
    <3>1. p \in Promise /\ p.network = j.network /\ p.cidr = j.cidr /\ "rule" \notin DOMAIN p
      BY <1>0 DEF Promise
    <3>2. network'[j.network] = j.cidr /\ j.network \in Networks'
      BY <1>0, <2>1, <2>2, <2>3
    <3> HIDE DEF p
    <3>3. promised' = promised \cup {p}
      BY <2>6 DEF p
    <3>4. Promises'
      BY <2>5, <3>1, <3>2, <3>3 DEF IInv, Promises, PromisesKept
    <3>5. hit' \subseteq Call /\ \A e \in Call \ {c} : e \in hit' <=> e \in hit
      BY <2>6 DEF IInv, TypeOK
    <3> QED
      BY <1>0, <2>1, <2>4, <2>6, <3>4, <3>5, Answers DEF j
  <2>7. CASE Return(c, "failed") /\ hit' = hit \cup {c} /\ promised' = promised
    <3>1. Promises'
      BY <2>5, <2>7 DEF IInv, Promises, PromisesKept
    <3>2. hit' \subseteq Call /\ \A e \in Call \ {c} : e \in hit' <=> e \in hit
      BY <2>7 DEF IInv, TypeOK
    <3> QED
      BY <1>0, <2>1, <2>4, <2>7, <3>1, <3>2, Answers DEF j
  <2> QED
    BY <1>2, <2>6, <2>7 DEF Add, j
<1>3. CASE AddRefused(c)
  <2>1. /\ call[c].at = "add" /\ j.network \in Networks /\ Return(c, "failed")
        /\ UNCHANGED <<host, promised>> /\ hit' = hit
    BY <1>3 DEF AddRefused, Quiet, j
  <2>2. c \in hit' \cup crossed
    BY <2>1 DEF IInv, CallInv, Adds, j
  <2> QED
    BY <1>0, <2>1, <2>2, QuietAnswer DEF j
<1> QED
  BY <1>1, <1>2, <1>3 DEF Ensure

LEMMA ModifyInv ==
  ASSUME IInv, Remember, NEW c \in Call, Modify(c)
  PROVE  IInv'
<1> DEFINE j == call[c].job
<1>0. call[c].at = "modify" /\ j.op = "expose" /\ j.network \in Networks
      /\ j.network \in Network /\ j.rule \in Rule
  <2>1. call[c].at = "modify" /\ j.network \in Networks
    BY DEF Modify
  <2> QED
    BY <2>1, CommandTells, JobFacts
<1>1. /\ rules' = [rules EXCEPT ![j.network] = @ \cup {j.rule}]
      /\ UNCHANGED <<network, lease, nic, tools>>
  BY DEF Modify
<1>2. rules \in [Network -> SUBSET Rule]
  BY DEF IInv, TypeOK
<1>3. \/ /\ Return(c, "ok") /\ hit' = hit
         /\ promised' = promised \cup {[network |-> j.network, rule |-> j.rule]}
      \/ Return(c, "failed") /\ hit' = hit \cup {c} /\ promised' = promised
  BY DEF Modify
<1> HIDE DEF j
<1>4. Networks' = Networks /\ rules'[j.network] = rules[j.network] \cup {j.rule}
      /\ \A n \in Network : rules[n] \subseteq rules'[n]
  BY <1>0, <1>1, <1>2 DEF Networks
<1>5. Moves
  BY <1>0, <1>1, <1>2, <1>4 DEF IInv, TypeOK, Moves, LeasesInNetworks
<1>6. Promises'
  <2> DEFINE p == [network |-> j.network, rule |-> j.rule]
  <2>1. p \in Promise /\ p.network = j.network /\ p.rule = j.rule /\ "cidr" \notin DOMAIN p
    BY <1>0 DEF Promise
  <2>2. promised' \subseteq promised \cup {p}
    BY <1>3
  <2> HIDE DEF p
  <2>3. ASSUME NEW q \in promised
        PROVE  /\ q.network \in Networks'
               /\ "cidr" \in DOMAIN q => network'[q.network] = q.cidr
               /\ "rule" \in DOMAIN q => q.rule \in rules'[q.network]
    BY <1>1, <1>4 DEF IInv, PromisesKept, Networks
  <2> QED
    BY <1>0, <1>4, <2>1, <2>2, <2>3 DEF IInv, Promises, PromisesKept
<1>7. hit' \subseteq Call /\ \A e \in Call \ {c} : e \in hit' <=> e \in hit
  BY <1>3 DEF IInv, TypeOK
<1> QED
  BY <1>0, <1>3, <1>5, <1>6, <1>7, Answers DEF j

LEMMA InfoInv ==
  ASSUME IInv, Remember, NEW c \in Call, Info(c)
  PROVE  IInv'
<1> DEFINE n == call[c].job.network
           r == [call[c] EXCEPT !.at = IF n = None THEN "networks" ELSE "find",
                                !.mac = nic, !.todo = {n} \ {None}]
<1>0. /\ call[c].at = "info" /\ UNCHANGED <<host, promised>> /\ hit' = hit
      /\ call[c].job \in Asked /\ call[c].job.op = "ip" /\ n \in Network \cup {None}
  <2>1. call[c].at = "info" /\ UNCHANGED <<host, promised>> /\ hit' = hit
    BY DEF Info, Quiet
  <2> QED
    BY <2>1, CommandTells, JobFacts
<1>1. CASE nic = None
  <2>1. Return(c, "failed")
    BY <1>1 DEF Info
  <2>2. Leased = {}
    BY <1>1, NoneAssumption DEF Leased
  <2> HIDE DEF n, r
  <2> QED
    BY <1>0, <2>1, <2>2, QuietAnswer
<1>2. CASE nic # None
  <2>1. call \in [Call -> CallType] /\ call[c] \in CallType /\ call[c].reply = None
    BY <1>0, OnItsWay
  <2>2. nic \in MAC
    BY <1>2 DEF IInv, TypeOK
  <2>3. call' = [call EXCEPT ![c] = r]
    BY <1>2, <2>1 DEF Info, CallType
  <2>4. /\ r \in CallType /\ r.mac = nic /\ r.job = call[c].job /\ r.reply = None
        /\ r.at = IF n = None THEN "networks" ELSE "find"
        /\ r.todo = {n} \ {None}
    BY <1>0, <2>1, <2>2 DEF CallType, Commands
  <2>5. call'[c] = r
    BY <2>1, <2>3
  <2> HIDE DEF r
  <2>6. had'[c] = had[c] \cup Addresses' /\ sure'[c] = sure[c] \cap Leased'
    <3>1. call[c] # Idle /\ Moves
      BY <1>0, QuietMoves DEF Idle
    <3>2. call'[c].at # "idle" /\ call'[c].job.op = "ip"
      BY <1>0, <2>4, <2>5
    <3> QED
      BY <2>1, <3>1, <3>2, Remembered
  <2>7. Knows(c)'
    <3>1. \A k \in Network : lease[k][nic] # None => lease[k][nic] \in had'[c]
      BY <1>0, <2>2, <2>6, LeaseIsAddress DEF Addresses, host
    <3>2. \A s \in sure'[c] : s[2] = nic
      BY <1>0, <2>6 DEF Leased, host
    <3>3. lease' = lease /\ call'[c].mac = nic
      BY <1>0, <2>4, <2>5 DEF host
    <3> QED
      BY <2>2, <3>1, <3>2, <3>3 DEF Knows
  <2>8. Shape(c)'
    BY <1>0, <2>4, <2>5, StagesOf DEF Shape
  <2>9. Looks(c)' /\ Adds(c)'
    BY <2>4, <2>5 DEF Looks, Adds
  <2>10. hit' \subseteq Call /\ r.at \notin {"idle", "done"}
    BY <1>0, <2>4 DEF IInv, TypeOK
  <2> HIDE DEF n
  <2> QED
    BY <1>0, <2>1, <2>3, <2>4, <2>7, <2>8, <2>9, <2>10, GoesOn
<1> QED
  BY <1>1, <1>2

\* The leases that a call watches are the machine's now.
LEMMA SureIsLeased ==
  ASSUME IInv, NEW c \in Call, call[c].at \in {"networks", "find"}, NEW s \in sure[c]
  PROVE  /\ s[1] \in Network /\ s[1] \in Networks
         /\ lease[s[1]][call[c].mac] # None
<1>1. s \in Leased /\ s[2] = call[c].mac
  BY CommandTells DEF IInv, CallInv, Watches, Asks, Knows
<1>2. s[1] \in Network /\ s[2] = nic /\ nic \in MAC /\ lease[s[1]][nic] # None
  BY <1>1 DEF Leased
<1> QED
  BY <1>1, <1>2 DEF IInv, LeasesInNetworks

LEMMA AddressInv ==
  ASSUME IInv, Remember, NEW c \in Call, Address(c)
  PROVE  IInv'
<1>1. CASE Property(c)
  <2>1. call[c].at = "property" /\ UNCHANGED <<host, promised>> /\ hit' = hit
    BY <1>1 DEF Property, Quiet
  <2>2. CASE nic # None /\ tools # None
    <3>1. Return(c, tools) /\ tools \in IP /\ tools \in Addresses /\ tools # "failed"
      BY <1>1, <2>2, NoneAssumption DEF Property, Addresses, IInv, TypeOK
    <3> QED
      BY <2>1, <3>1, CommandTells, QuietAnswer
  <2>3. CASE ~(nic # None /\ tools # None)
    <3>1. Goes(c, "info")
      BY <1>1, <2>3 DEF Property
    <3> QED
      BY <2>1, <3>1, GoesInv
  <2> QED
    BY <2>2, <2>3
<1>2. CASE Info(c)
  BY <1>2, InfoInv
<1>3. CASE ListAll(c)
  <2> DEFINE nets == {FirstWord[n] : n \in Networks}
  <2>1. /\ call[c].at = "networks" /\ Search(c, nets)
        /\ UNCHANGED <<host, promised>> /\ hit' = hit
    BY <1>3 DEF ListAll, Quiet
  <2>2. call[c].job.network = None
    BY <2>1, IdleType DEF IInv, CallInv, Shape, Idle
  <2>3. nets \subseteq Network
    BY WordAssumption DEF Networks
  <2>4. \A s \in sure[c] : s[1] \in nets \/ FirstWord[s[1]] # s[1]
    BY <2>1, SureIsLeased
  <2> HIDE DEF nets
  <2> QED
    BY <2>1, <2>2, <2>3, <2>4, SearchInv
<1>4. ASSUME NEW n \in Network, Find(c, n) PROVE IInv'
  <2>1. /\ Return(c, lease[n][call[c].mac]) /\ lease[n][call[c].mac] # None
        /\ UNCHANGED <<host, promised>> /\ hit' = hit /\ call[c].todo # {}
    BY <1>4 DEF Find, LeaseOf, Quiet
  <2>2. call[c].at = "find"
    BY <2>1, TodoTells
  <2>3. call[c].mac \in MAC /\ lease[n][call[c].mac] \in had[c] /\ call[c].job.op = "ip"
    BY <2>1, <2>2, CommandTells DEF IInv, CallInv, Knows
  <2>4. lease[n][call[c].mac] \in IP /\ lease[n][call[c].mac] # "failed"
    BY <2>1, <2>3, NoneAssumption DEF IInv, TypeOK
  <2> QED
    BY <2>1, <2>2, <2>3, <2>4, QuietAnswer
<1>5. ASSUME NEW n \in Network, NoLease(c, n) PROVE IInv'
  <2>1. /\ Search(c, call[c].todo \ {n}) /\ lease[n][call[c].mac] = None
        /\ UNCHANGED <<host, promised>> /\ hit' = hit /\ call[c].todo # {}
    BY <1>5 DEF NoLease, LeaseOf, Quiet
  <2>2. call[c].at = "find" /\ CallInv(c) /\ call[c].todo \subseteq Network
    BY <2>1, TodoTells DEF IInv, TypeOK
  <2>3. \A s \in sure[c] : s[1] # n
    BY <2>1, <2>2, SureIsLeased
  <2>4. call[c].todo \ {n} \in SUBSET Network
    BY <2>2
  <2> QED
    BY <2>1, <2>2, <2>3, <2>4, SearchInv DEF CallInv, Looks
<1>6. CASE NotFound(c)
  <2>1. /\ call[c].at = "find" /\ call[c].todo = {} /\ Return(c, "failed")
        /\ UNCHANGED <<host, promised>> /\ hit' = hit
    BY <1>6 DEF NotFound, Quiet
  <2>2. call[c].job.op = "ip" /\ CallInv(c)
    BY <2>1, CommandTells DEF IInv
  <2> QED
    BY <2>1, <2>2, QuietAnswer DEF CallInv, Looks
<1> QED
  BY <1>1, <1>2, <1>3, <1>4, <1>5, <1>6 DEF Address

LEMMA CommandFailsInv ==
  ASSUME IInv, Remember, NEW c \in Call, CommandFails(c)
  PROVE  IInv'
<1>1. hit' = hit \cup {c} /\ UNCHANGED <<host, promised>>
  BY DEF CommandFails
<1>2. CASE call[c].at \in {"add", "modify", "info"} /\ Return(c, "failed")
  BY <1>1, <1>2, QuietAnswer
<1>3. CASE call[c].at = "list" /\ Goes(c, "add")
  BY <1>1, <1>3, GoesInv
<1>4. CASE call[c].at = "property" /\ Goes(c, "info")
  BY <1>1, <1>4, GoesInv
<1>5. CASE call[c].at = "networks" /\ Search(c, {})
  BY <1>1, <1>5, SearchInv
<1>6. ASSUME NEW n \in call[c].todo, Search(c, call[c].todo \ {n}) PROVE IInv'
  <2>1. call[c].at = "find" /\ call[c].todo \subseteq Network
    BY TodoTells DEF IInv, TypeOK
  <2>2. call[c].todo \ {n} \in SUBSET Network
    BY <2>1
  <2> QED
    BY <1>1, <1>6, <2>1, <2>2, SearchInv
<1> QED
  BY <1>2, <1>3, <1>4, <1>5, <1>6 DEF CommandFails

LEMMA EndInv ==
  ASSUME IInv, Remember, NEW c \in Call, End(c)
  PROVE  IInv'
<1>1. /\ call' = [call EXCEPT ![c] = Idle] /\ hit' = hit \ {c}
      /\ UNCHANGED <<host, promised>> /\ Moves
  BY QuietMoves DEF End
<1>2. call \in [Call -> CallType] /\ \A e \in Call : call[e].reply # None <=> call[e].at = "done"
  BY DEF IInv, TypeOK, CallType
<1>3. /\ call' \in [Call -> CallType] /\ call'[c] = Idle
      /\ \A e \in Call \ {c} : call'[e] = call[e]
  BY <1>1, <1>2, IdleType
<1>4. Idle.at = "idle"
  BY DEF Idle
<1>5. CallInv(c)'
  BY <1>3, <1>4 DEF CallInv, Shape, Watches, Asks, Knows, Looks, Adds, AddressOf, LeaseOfCall,
                    EnsureOf, Answered
<1>6. \A e \in Call \ {c} : CallInv(e)'
  BY <1>1, <1>3, OthersKeep
<1>7. hit' \subseteq Call /\ \A e \in Call : call'[e].reply # None <=> call'[e].at = "done"
  BY <1>1, <1>2, <1>3, <1>4, IdleType DEF IInv, TypeOK
<1>8. Promises'
  BY <1>1 DEF IInv, Promises, PromisesKept, Networks, host
<1> QED
  BY <1>1, <1>3, <1>5, <1>6, <1>7, <1>8, Together
-----------------------------------------------------------------------------
\* What the host does by itself is no call's doing.
LEMMA HostKeeps ==
  ASSUME IInv, Remember, Moves, Promises', UNCHANGED <<call, hit>>
  PROVE  IInv'
<1>1. call \in [Call -> CallType] /\ \A e \in Call : call[e].reply # None <=> call[e].at = "done"
  BY DEF IInv, TypeOK, CallType
<1>2. \A e \in Call : CallInv(e)'
  BY OthersKeep
<1>3. hit' \subseteq Call
  BY DEF IInv, TypeOK
<1> QED
  BY <1>1, <1>2, <1>3, Together

LEMMA HostInv ==
  ASSUME IInv, Remember, Host
  PROVE  IInv'
<1>0. UNCHANGED <<call, hit>> /\ Promises
  BY DEF Host, IInv, Promises
<1>1. ASSUME NEW n \in Network, NEW a \in IP \cup {None}, GetLease(n, a) PROVE IInv'
  <2>1. /\ n \in Networks /\ nic \in MAC
        /\ lease' = [lease EXCEPT ![n][nic] = a]
        /\ UNCHANGED <<network, rules, nic, tools, promised>>
    BY <1>1 DEF GetLease, IInv, TypeOK
  <2>2. lease \in [Network -> [MAC -> IP \cup {None}]]
    BY DEF IInv, TypeOK
  <2>3. \A k \in Network, m \in MAC : lease'[k][m] = IF k = n /\ m = nic THEN a ELSE lease[k][m]
    BY <2>1, <2>2
  <2>4. LeasesInNetworks'
    BY <2>1, <2>3 DEF IInv, LeasesInNetworks, Networks
  <2>5. Moves
    BY <2>1, <2>2, <2>3, <2>4 DEF IInv, TypeOK, Moves
  <2>6. Promises'
    BY <1>0, <2>1 DEF Promises, PromisesKept, Networks
  <2> QED
    BY <1>0, <2>5, <2>6, HostKeeps
<1>2. ASSUME NEW a \in IP \cup {None}, Report(a) PROVE IInv'
  <2>1. tools' = a /\ UNCHANGED <<network, lease, rules, nic, promised>>
    BY <1>2 DEF Report
  <2>2. Moves /\ Promises'
    BY <1>0, <2>1 DEF IInv, TypeOK, Moves, LeasesInNetworks, Promises, PromisesKept, Networks
  <2> QED
    BY <1>0, <2>2, HostKeeps
<1>3. ASSUME NEW m \in MAC \cup {None}, Replace(m) PROVE IInv'
  <2>1. nic' = m /\ tools' = None /\ UNCHANGED <<network, lease, rules, promised>>
    BY <1>3 DEF Replace
  <2>2. Moves /\ Promises'
    BY <1>0, <2>1 DEF IInv, TypeOK, Moves, LeasesInNetworks, Promises, PromisesKept, Networks
  <2> QED
    BY <1>0, <2>2, HostKeeps
<1>4. ASSUME NEW n \in Network, NEW cidr \in CIDR, Elsewhere(n, cidr) PROVE IInv'
  <2>1. /\ n \notin Networks /\ network' = [network EXCEPT ![n] = cidr]
        /\ UNCHANGED <<lease, rules, nic, tools, promised>>
    BY <1>4 DEF Elsewhere
  <2>2. cidr # None /\ network \in [Network -> CIDR \cup {None}]
    BY NoneAssumption DEF IInv, TypeOK
  <2>3. Networks' = Networks \cup {n}
    BY <2>1, <2>2 DEF Networks
  <2>4. Moves
    BY <2>1, <2>2, <2>3 DEF IInv, TypeOK, Moves, LeasesInNetworks
  <2>5. \A k \in Networks : network'[k] = network[k]
    BY <2>1, <2>2 DEF Networks
  <2>6. Promises'
    BY <1>0, <2>1, <2>3, <2>5 DEF Promises, PromisesKept
  <2> QED
    BY <1>0, <2>4, <2>6, HostKeeps
<1>5. ASSUME NEW n \in Network, Remove(n) PROVE IInv'
  <2>1. /\ network' = [network EXCEPT ![n] = None]
        /\ lease' = [lease EXCEPT ![n] = [m \in MAC |-> None]]
        /\ rules' = [rules EXCEPT ![n] = {}]
        /\ promised' = {p \in promised : p.network # n}
        /\ UNCHANGED <<nic, tools>>
    BY <1>5 DEF Remove
  <2>2. /\ network \in [Network -> CIDR \cup {None}]
        /\ lease \in [Network -> [MAC -> IP \cup {None}]]
        /\ rules \in [Network -> SUBSET Rule]
    BY DEF IInv, TypeOK
  <2>3. Networks' = Networks \ {n}
    BY <2>1, <2>2 DEF Networks
  <2>4. \A k \in Network, m \in MAC : lease'[k][m] = IF k = n THEN None ELSE lease[k][m]
    BY <2>1, <2>2
  <2>5. LeasesInNetworks'
    BY <2>3, <2>4 DEF IInv, LeasesInNetworks
  <2>6. Moves
    BY <2>1, <2>2, <2>4, <2>5 DEF IInv, TypeOK, Moves
  <2>7. \A k \in Networks \ {n} : network'[k] = network[k] /\ rules'[k] = rules[k]
    BY <2>1, <2>2 DEF Networks
  <2>8. Promises'
    BY <1>0, <2>1, <2>3, <2>7 DEF Promises, PromisesKept
  <2> QED
    BY <1>0, <2>6, <2>8, HostKeeps
<1> QED
  BY <1>1, <1>2, <1>3, <1>4, <1>5 DEF Host

LEMMA InitInv == Init => IInv
<1> SUFFICES ASSUME Init PROVE IInv
  OBVIOUS
<1>1. \A c \in Call : call[c] = Idle /\ Idle.at = "idle" /\ Idle.reply = None
  BY DEF Init, Idle
<1>2. call \in [Call -> CallType]
  BY IdleType DEF Init
<1>3. TypeOK
  BY <1>1, <1>2 DEF Init, TypeOK, CallType
<1>4. \A c \in Call : CallInv(c)
  BY <1>1 DEF CallInv, Shape, Watches, Asks, Knows, Looks, Adds, AddressOf, LeaseOfCall,
              EnsureOf, Answered
<1> QED
  BY <1>3, <1>4 DEF Init, IInv, LeasesInNetworks, PromisesKept

LEMMA NextInv == IInv /\ [Next]_vars => IInv'
<1> SUFFICES ASSUME IInv, [Next]_vars PROVE IInv'
  OBVIOUS
<1>1. CASE UNCHANGED vars
  BY <1>1 DEF vars, host, IInv, TypeOK, LeasesInNetworks, PromisesKept, Networks, CallInv, Shape,
              Watches, Asks, Knows, Looks, Adds, AddressOf, LeaseOfCall, EnsureOf, Answered,
              Addresses, Leased
<1>2. CASE Next
  <2>1. Remember
    BY <1>2 DEF Next
  <2>2. ASSUME NEW c \in Call, NEW j \in Asked, Begin(c, j) PROVE IInv'
    BY <2>1, <2>2, BeginInv
  <2>3. ASSUME NEW c \in Call,
               \/ Ensure(c) \/ Modify(c) \/ Address(c) \/ CommandFails(c) \/ End(c)
        PROVE  IInv'
    BY <2>1, <2>3, EnsureInv, ModifyInv, AddressInv, CommandFailsInv, EndInv
  <2>4. CASE Host
    BY <2>1, <2>4, HostInv
  <2> QED
    BY <1>2, <2>2, <2>3, <2>4 DEF Next
<1> QED
  BY <1>1, <1>2

LEMMA Invariance == Spec => []IInv
  BY InitInv, NextInv, PTL DEF Spec
-----------------------------------------------------------------------------
\* Networks, leases and calls are always of their types.
THEOREM NetTypeOK == Spec => []TypeOK
<1>1. IInv => TypeOK
  BY DEF IInv
<1> QED
  BY <1>1, Invariance, PTL

\* The address that IP (ops.go:81) answers is one that the machine had during the call.
THEOREM AddressesWereTrue == Spec => []AddressWasTrue
<1>1. IInv => AddressWasTrue
  BY DEF IInv, CallInv, AddressOf, AddressWasTrue
<1> QED
  BY <1>1, Invariance, PTL

\* IP finds a lease that is there all the time, unless a command fails or the name of
\* its network has more than one word.
THEOREM LeasesAreFound == Spec => []LeaseIsFound
<1>1. IInv => LeaseIsFound
  BY DEF IInv, CallInv, LeaseOfCall, LeaseIsFound
<1> QED
  BY <1>1, Invariance, PTL

\* EnsureClusterNetwork (ops.go:357) fails only for a command that fails or a network
\* that comes or goes at that time.
THEOREM EnsureAlwaysWorks == Spec => []EnsureWorks
<1>1. IInv => EnsureWorks
  BY DEF IInv, CallInv, EnsureOf, EnsureWorks
<1> QED
  BY <1>1, Invariance, PTL

\* A network or a rule that a reply told of stays as told until somebody removes it.
THEOREM PromisesAreKept == Spec => []PromisesKept
<1>1. IInv => PromisesKept
  BY DEF IInv
<1> QED
  BY <1>1, Invariance, PTL
=============================================================================
