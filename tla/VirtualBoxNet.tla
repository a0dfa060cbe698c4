--------------------------- MODULE VirtualBoxNet ---------------------------
(***************************************************************************)
(* The network operations of the VirtualBox adapter                        *)
(* (provider/virtualbox/ops.go): EnsureClusterNetwork, ExposeGuestPort and *)
(* IP.  Each is a few VBoxManage commands, one after the other, while      *)
(* other calls and the user of the host change networks, leases and the    *)
(* machine that is asked about.  A command may fail for reasons of its     *)
(* own, or work and be reported as failed.                                 *)
(*                                                                         *)
(* VBoxManage, its DHCP server and the guest are modelled from how the     *)
(* adapter uses them.  There is one machine; it may be deleted and made    *)
(* anew with another MAC address.                                          *)
(***************************************************************************)
EXTENDS FiniteSets

CONSTANTS Call,      \* identities of concurrent tool calls
          Network,   \* names of NAT networks
          FirstWord, \* the first word of each of them
          CIDR,      \* the subnets that callers ask for
          MAC,       \* addresses of the machine's adapter
          IP,        \* addresses that guests have
          Rule,      \* port forwardings, records with a name
          Asked,     \* bound: what callers ask for
          None       \* no network, machine, lease, job or reply

ASSUME WordAssumption == FirstWord \in [Network -> Network]
ASSUME RuleAssumption == \A r \in Rule : DOMAIN r = {"name", "forward"}
ASSUME NoneAssumption == /\ None \notin CIDR \cup MAC \cup IP \cup Network \cup {"ok", "failed"}
                         /\ IP \cap {"ok", "failed"} = {}

Jobs == [op : {"ensure"}, network : Network, cidr : CIDR]
        \cup [op : {"expose"}, network : Network, rule : Rule]
        \cup [op : {"ip"}, network : Network \cup {None}]

ASSUME AskedAssumption == Asked \subseteq Jobs

VARIABLES
  network,  \* the NAT networks: name |-> subnet
  lease,    \* what the DHCP server of a network has given to an adapter
  rules,    \* the port forwardings of each network
  nic,      \* the address of the machine's adapter
  tools,    \* what Guest Additions say the machine's address is
  call,     \* the tool calls: operation, next command, what they know, reply
  \* history
  hit,      \* calls with a command that failed for reasons of its own
  crossed,  \* ensures during which the network came or went
  had,      \* addresses that the machine had at some time during an IP call
  sure,     \* the leases that it has had all the time
  promised  \* what replies said of networks and rules

host == <<network, lease, rules, nic, tools>>
vars == <<host, call, hit, crossed, had, sure, promised>>

Idle == [at |-> "idle", job |-> None, mac |-> None, todo |-> {}, reply |-> None]

Init == /\ network = [n \in Network |-> None]
        /\ lease = [n \in Network |-> [m \in MAC |-> None]]
        /\ rules = [n \in Network |-> {}]
        /\ nic \in MAC
        /\ tools = None
        /\ call = [c \in Call |-> Idle]
        /\ hit = {} /\ crossed = {} /\ promised = {}
        /\ had = [c \in Call |-> {}]
        /\ sure = [c \in Call |-> {}]

Networks == {n \in Network : network[n] # None}
Leased == {n \in Network : \E m \in MAC : m = nic /\ lease[n][m] # None} \X {nic}
Addresses == ({tools} \cup {lease[n][m] : n \in Network, m \in MAC \cap {nic}}) \ {None}

\* What the calls that have not answered yet have seen happen.
Remember ==
  LET Does(c, op) == call'[c].at # "idle" /\ call'[c].job.op = op
      Asking(c) == call[c].reply = None
      Changes(n) == (n \in Networks') # (n \in Networks)
  IN  /\ crossed' = {c \in Call : /\ Does(c, "ensure")
                                  /\ c \in crossed \/ (Asking(c) /\ Changes(call'[c].job.network))}
      /\ had' = [c \in Call |-> IF ~Does(c, "ip") THEN {}
                                ELSE IF Asking(c) THEN had[c] \cup Addresses'
                                ELSE had[c]]
      /\ sure' = [c \in Call |-> IF ~Does(c, "ip") THEN {}
                                 ELSE IF call[c] = Idle THEN Leased'
                                 ELSE IF Asking(c) THEN sure[c] \cap Leased'
                                 ELSE sure[c]]
-----------------------------------------------------------------------------
(* The host by itself.                                                     *)

\* The guest asks for an address that no other adapter has, or its lease runs out.
GetLease(n, a) == /\ n \in Networks /\ nic # None
                  /\ lease[n][nic] # a
                  /\ a # None => \A m \in MAC : lease[n][m] # a
                  /\ lease' = [lease EXCEPT ![n][nic] = a]
                  /\ UNCHANGED <<network, rules, nic, tools, promised>>

\* Guest Additions come up, see the address change, or go away.
Report(a) == /\ nic # None /\ tools # a
             /\ tools' = a
             /\ UNCHANGED <<network, lease, rules, nic, promised>>

\* The machine is deleted, or made anew.
Replace(m) == /\ nic # m
              /\ nic' = m /\ tools' = None
              /\ UNCHANGED <<network, lease, rules, promised>>

\* Somebody else, another call or the user of the host, adds a network.
Elsewhere(n, cidr) == /\ n \notin Networks
                      /\ network' = [network EXCEPT ![n] = cidr]
                      /\ UNCHANGED <<lease, rules, nic, tools, promised>>

\* A raw command or somebody else removes one.
Remove(n) == /\ n \in Networks
             /\ network' = [network EXCEPT ![n] = None]
             /\ lease' = [lease EXCEPT ![n] = [m \in MAC |-> None]]
             /\ rules' = [rules EXCEPT ![n] = {}]
             /\ promised' = {p \in promised : p.network # n}
             /\ UNCHANGED <<nic, tools>>

Host == /\ \/ \E n \in Network, a \in IP \cup {None} : GetLease(n, a)
           \/ \E a \in IP \cup {None} : Report(a)
           \/ \E m \in MAC \cup {None} : Replace(m)
           \/ \E n \in Network : Remove(n) \/ \E cidr \in CIDR : Elsewhere(n, cidr)
        /\ UNCHANGED <<call, hit>>
-----------------------------------------------------------------------------
(* The operations: what a call does after each command.                    *)

Start(op) == CASE op = "ensure" -> "list" [] op = "expose" -> "modify" [] OTHER -> "property"

Begin(c, j) == /\ call[c] = Idle
               /\ call' = [call EXCEPT ![c] = [Idle EXCEPT !.at = Start(j.op), !.job = j]]
               /\ UNCHANGED <<host, hit, promised>>

Goes(c, to) == call' = [call EXCEPT ![c].at = to]

Return(c, answer) == call' = [call EXCEPT ![c] = [Idle EXCEPT !.at = "done", !.job = call[c].job,
                                                              !.reply = answer]]

\* The networks c goes on to search.
Search(c, nets) == call' = [call EXCEPT ![c].at = "find", ![c].todo = nets]

\* A command that changes nothing has worked, or failed as it was bound to.
Quiet == UNCHANGED <<host, hit, promised>>

\* Mutant: a network is added without a look at those there are.
ListNothing(c) == call[c].at = "list" /\ Goes(c, "add") /\ Quiet

\* natnetwork list: a network of that name is enough, whatever its subnet.
List(c) == /\ call[c].at = "list"
           /\ IF call[c].job.network \in Networks THEN Return(c, "ok") ELSE Goes(c, "add")
           /\ Quiet

\* natnetwork add, reported as done or, at RunCmd's timeout, as failed.
Add(c) == LET j == call[c].job IN
          /\ call[c].at = "add" /\ j.network \notin Networks
          /\ network' = [network EXCEPT ![j.network] = j.cidr]
          /\ \/ /\ Return(c, "ok") /\ UNCHANGED hit
                /\ promised' = promised \cup {[network |-> j.network, cidr |-> j.cidr]}
             \/ Return(c, "failed") /\ hit' = hit \cup {c} /\ UNCHANGED promised
          /\ UNCHANGED <<lease, rules, nic, tools>>

AddRefused(c) == /\ call[c].at = "add" /\ call[c].job.network \in Networks
                 /\ Return(c, "failed") /\ Quiet

\* natnetwork modify: the name of a rule tells the ports, and no two rules of a
\* network have one name.
Modify(c) == LET j == call[c].job IN
             /\ call[c].at = "modify" /\ j.network \in Networks
             /\ \A r \in rules[j.network] : r.name # j.rule.name
             /\ rules' = [rules EXCEPT ![j.network] = @ \cup {j.rule}]
             /\ \/ /\ Return(c, "ok") /\ UNCHANGED hit
                   /\ promised' = promised \cup {[network |-> j.network, rule |-> j.rule]}
                \/ Return(c, "failed") /\ hit' = hit \cup {c} /\ UNCHANGED promised
             /\ UNCHANGED <<network, lease, nic, tools>>

\* Mutant: what guestproperty printed is the answer, a value or "No value set!".
PropertyUnread(c) == call[c].at = "property" /\ nic # None /\ Return(c, tools) /\ Quiet

\* guestproperty get: the address, or nothing.
Property(c) == /\ call[c].at = "property"
               /\ IF nic # None /\ tools # None THEN Return(c, tools) ELSE Goes(c, "info")
               /\ Quiet

\* showvminfo; the network to search is the one named, or any that is listed.
Info(c) == LET n == call[c].job.network IN
           /\ call[c].at = "info"
           /\ IF nic = None THEN Return(c, "failed")
              ELSE call' = [call EXCEPT ![c].at = IF n = None THEN "networks" ELSE "find",
                                        ![c].mac = nic, ![c].todo = {n} \ {None}]
           /\ Quiet

\* natnetwork list: of a name the expression takes the first word.
ListAll(c) == /\ call[c].at = "networks"
              /\ Search(c, {FirstWord[n] : n \in Networks})
              /\ Quiet

LeaseOf(c, n) == lease[n][call[c].mac]

\* Mutant: any lease of the network will do.
FindAny(c, n) == \E m \in MAC : /\ n \in call[c].todo /\ lease[n][m] # None
                                /\ Return(c, lease[n][m]) /\ Quiet

\* dhcpserver findlease, network by network in the order of the list.
Find(c, n) == /\ n \in call[c].todo /\ LeaseOf(c, n) # None
              /\ Return(c, LeaseOf(c, n)) /\ Quiet

\* Mutant: the search ends with the first network that has no lease.
GiveUpAtOnce(c, n) == /\ n \in call[c].todo /\ LeaseOf(c, n) = None
                      /\ Search(c, {}) /\ Quiet

NoLease(c, n) == /\ n \in call[c].todo /\ LeaseOf(c, n) = None
                 /\ Search(c, call[c].todo \ {n}) /\ Quiet

NotFound(c) == /\ call[c].at = "find" /\ call[c].todo = {}
               /\ Return(c, "failed") /\ Quiet

\* Mutant: the error of natnetwork modify is dropped.
FailureUnseen(c) == LET j == call[c].job IN
                    /\ call[c].at = "modify"
                    /\ Return(c, "ok")
                    /\ promised' = promised \cup {[network |-> j.network, rule |-> j.rule]}
                    /\ hit' = hit \cup {c} /\ UNCHANGED host

\* A command fails: the errors of natnetwork list, guestproperty and findlease are
\* taken for finding nothing.
CommandFails(c) ==
  /\ \/ call[c].at \in {"add", "modify", "info"} /\ Return(c, "failed")
     \/ call[c].at = "list" /\ Goes(c, "add")
     \/ call[c].at = "property" /\ Goes(c, "info")
     \/ call[c].at = "networks" /\ Search(c, {})
     \/ \E n \in call[c].todo : Search(c, call[c].todo \ {n})
  /\ hit' = hit \cup {c}
  /\ UNCHANGED <<host, promised>>

\* The reply is taken, or the server killed.
End(c) == /\ call[c] # Idle
          /\ call' = [call EXCEPT ![c] = Idle]
          /\ hit' = hit \ {c}
          /\ UNCHANGED <<host, promised>>

Ensure(c) == List(c) \/ Add(c) \/ AddRefused(c)

Address(c) == \/ Property(c) \/ Info(c) \/ ListAll(c)
              \/ \E n \in Network : Find(c, n) \/ NoLease(c, n)
              \/ NotFound(c)

Next == /\ \/ \E c \in Call : \/ \E j \in Asked : Begin(c, j)
                              \/ Ensure(c) \/ Modify(c) \/ Address(c)
                              \/ CommandFails(c) \/ End(c)
           \/ Host
        /\ Remember

Spec == Init /\ [][Next]_vars
-----------------------------------------------------------------------------
Commands == {"list", "add", "modify", "property", "info", "networks", "find"}

TypeOK == /\ network \in [Network -> CIDR \cup {None}]
          /\ lease \in [Network -> [MAC -> IP \cup {None}]]
          /\ rules \in [Network -> SUBSET Rule]
          /\ nic \in MAC \cup {None}
          /\ tools \in IP \cup {None}
          /\ call \in [Call -> [at : Commands \cup {"idle", "done"}, job : Asked \cup {None},
                                mac : MAC \cup {None}, todo : SUBSET Network,
                                reply : IP \cup {"ok", "failed", None}]]
          /\ \A c \in Call : call[c].reply # None <=> call[c].at = "done"
          /\ hit \subseteq Call /\ crossed \subseteq Call
          /\ had \in [Call -> SUBSET IP]
          /\ sure \in [Call -> SUBSET (Network \X MAC)]

Answered(c, op) == call[c].at = "done" /\ call[c].job.op = op

\* "Guest Additions first ... DHCP lease by MAC" (ops.go:82-118): the address that IP
\* answers is one the machine had at some time during the call, however leases,
\* networks and the machine change between the commands.
AddressWasTrue ==
  \A c \in Call : Answered(c, "ip") /\ call[c].reply # "failed" => call[c].reply \in had[c]

\* "Try every NAT network rather than demanding the caller know one" (ops.go:99): if
\* no command fails of its own, a lease that the machine has all the time, on the
\* network named or on any whose name is one word, is not missed.
LeaseIsFound ==
  \A c \in Call : Answered(c, "ip") /\ call[c].reply = "failed" /\ c \notin hit =>
    \A s \in sure[c] : IF call[c].job.network = None THEN FirstWord[s[1]] # s[1]
                       ELSE s[1] # call[c].job.network

\* Ensuring a network fails only if a command fails of its own, or if the network
\* came or went between looking for it and adding it (ops.go:364-370).
EnsureWorks ==
  \A c \in Call : Answered(c, "ensure") /\ call[c].reply = "failed" => c \in hit \cup crossed

\* "created NAT network %s (%s, DHCP on)", "host 127.0.0.1:%d -> %s:%d" (ops.go:371,
\* 385): what replies said of networks, their subnets and their rules holds until
\* somebody removes the network.
PromisesKept ==
  \A p \in promised : /\ p.network \in Networks
                      /\ "cidr" \in DOMAIN p => network[p.network] = p.cidr
                      /\ "rule" \in DOMAIN p => p.rule \in rules[p.network]
=============================================================================
