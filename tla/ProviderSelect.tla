--------------------------- MODULE ProviderSelect ---------------------------
(***************************************************************************)
(* main.go, discover and selectOps, over the two Detect functions: every   *)
(* tool call probes the host afresh, one command after the other, settles  *)
(* on an adapter and hands it the action asked for, which the adapter      *)
(* carries out with one program or another or refuses as unsupported.      *)
(* Hypervisors and tools come and go meanwhile, and a probe of VirtualBox  *)
(* may outlast its ten seconds.                                            *)
(***************************************************************************)
CONSTANTS Call,     \* identities of concurrent tool calls
          Slow,     \* whether VBoxManage may take more than ten seconds
          None      \* no provider named or chosen

VBox == "virtualbox-local"
VMware == "vmware-local"
Provider == {VBox, VMware}
Other == "other-local"  \* a name no provider has
Tool == {"ovftool", "mkisofs"}  \* what VMware needs besides vmrun
Capability == {"ova", "make_iso", "guestinfo_config", "capture_screen"}
Op == {"import ova", "export", "make_iso", "guestinfo", "screenshot", "start", "unheard-of"}

ASSUME SlowAssumption == Slow \in BOOLEAN
ASSUME NoneAssumption == None \notin Provider \cup {Other}

VARIABLES
  installed, \* the hypervisors on the host
  tools,     \* the tools on the host
  \* the calls
  pc,
  asked,     \* the provider argument
  ds,        \* the descriptors so far: provider |-> status, machine folder, capabilities
  answer,    \* the adapter chosen, or why there is none
  outcome,   \* what it made of the action: the action and the result
  \* history
  seen,      \* hypervisors that were installed at some time during the call
  missed,    \* those that were not at some time
  came,      \* tools that were
  went       \* and that were not

host == <<installed, tools>>
history == <<seen, missed, came, went>>
vars == <<host, pc, asked, ds, answer, outcome, history>>

Descriptor == [status : {"unprobed", "ready", "missing_tooling"},
               vmdir : BOOLEAN, caps : SUBSET Capability]
Unprobed == [status |-> "unprobed", vmdir |-> FALSE, caps |-> {}]

\* Mutant: the status of a provider that is not installed is left empty.
MissingUnsaid == [status |-> "", vmdir |-> FALSE, caps |-> {}]

Missing == [status |-> "missing_tooling", vmdir |-> FALSE, caps |-> {}]
Refusals == {"no such provider", "not ready", "none ready", "several ready"}

Init == /\ installed \in SUBSET Provider /\ tools \in SUBSET Tool
        /\ pc = [c \in Call |-> "idle"]
        /\ asked = [c \in Call |-> None]
        /\ ds = [c \in Call |-> [p \in Provider |-> Unprobed]]
        /\ answer = [c \in Call |-> None]
        /\ outcome = [c \in Call |-> None]
        /\ seen = [c \in Call |-> {}] /\ missed = [c \in Call |-> {}]
        /\ came = [c \in Call |-> {}] /\ went = [c \in Call |-> {}]

Begin(c, id) == /\ pc[c] = "idle"
                /\ pc' = [pc EXCEPT ![c] = "version"]
                /\ asked' = [asked EXCEPT ![c] = id]
                /\ seen' = [seen EXCEPT ![c] = installed]
                /\ missed' = [missed EXCEPT ![c] = Provider \ installed]
                /\ came' = [came EXCEPT ![c] = tools]
                /\ went' = [went EXCEPT ![c] = Tool \ tools]
                /\ UNCHANGED <<host, ds, answer, outcome>>

\* A probe moves the call on and settles the descriptor of p.
Probe(c, from, to, p, d) == /\ pc[c] = from
                            /\ pc' = [pc EXCEPT ![c] = to]
                            /\ ds' = [ds EXCEPT ![c][p] = d]
                            /\ UNCHANGED <<host, asked, answer, outcome, history>>

\* virtualbox.Detect: VBoxManage --version, killed after ten seconds.
VersionAnswers(c) == /\ VBox \in installed
                     /\ Probe(c, "version", "properties", VBox,
                              [status |-> "ready", vmdir |-> FALSE, caps |-> {"ova"}])

VersionFails(c) == /\ VBox \notin installed \/ Slow
                   /\ Probe(c, "version", "vmrun", VBox, Missing)

\* VBoxManage list systemproperties; the descriptor is ready without it.
PropertiesAnswer(c) == /\ VBox \in installed
                       /\ Probe(c, "properties", "vmrun", VBox,
                                [status |-> "ready", vmdir |-> TRUE, caps |-> {"ova"}])

PropertiesFail(c) == /\ VBox \notin installed \/ Slow
                     /\ Probe(c, "properties", "vmrun", VBox,
                              ds[c][VBox])

\* Mutant: making images is advertised wherever vmrun is.
FindVmrunAlone(c) ==
  Probe(c, "vmrun", "select", VMware,
        IF VMware \in installed
        THEN [status |-> "ready", vmdir |-> TRUE,
              caps |-> {"guestinfo_config", "capture_screen", "make_iso"}
                       \cup (IF "ovftool" \in tools THEN {"ova"} ELSE {})]
        ELSE Missing)

\* vmware.Detect: vmrun is there; that running it may fail or hang is no matter.
FindVmrun(c) ==
  Probe(c, "vmrun", "select", VMware,
        IF VMware \in installed
        THEN [status |-> "ready", vmdir |-> TRUE,
              caps |-> {"guestinfo_config", "capture_screen"}
                       \cup (IF "ovftool" \in tools THEN {"ova"} ELSE {})
                       \cup (IF "mkisofs" \in tools THEN {"make_iso"} ELSE {})]
        ELSE Missing)

Ready(c) == {p \in Provider : ds[c][p].status = "ready"}

Answer(c, a) == /\ pc[c] = "select"
                /\ pc' = [pc EXCEPT ![c] = IF a \in Provider THEN "act" ELSE "done"]
                /\ answer' = [answer EXCEPT ![c] = a]
                /\ UNCHANGED <<host, asked, ds, outcome, history>>

\* Mutant: a provider is used by its name, ready or not.
SelectAnyNamed(c) ==
  asked[c] # None /\ Answer(c, IF asked[c] \in Provider THEN asked[c] ELSE "no such provider")

SelectNamed(c) ==
  asked[c] # None /\ Answer(c, IF asked[c] \notin Provider THEN "no such provider"
                               ELSE IF asked[c] \in Ready(c) THEN asked[c]
                               ELSE "not ready")

\* Mutant: the first of those that are ready will do.
SelectFirst(c) ==
  asked[c] = None /\ Answer(c, IF Ready(c) = {} THEN "none ready"
                               ELSE CHOOSE p \in Ready(c) : TRUE)

SelectReady(c) ==
  asked[c] = None /\ Answer(c, IF Ready(c) = {} THEN "none ready"
                               ELSE IF Ready(c) = Provider THEN "several ready"
                               ELSE CHOOSE p \in Ready(c) : TRUE)

(* The adapter's methods, as far as capabilities decide them.              *)

\* The capability that contract.go has for an action, and the tool behind it.
Needs(op) == CASE op \in {"import ova", "export"} -> "ova"
               [] op = "make_iso" -> "make_iso"
               [] op = "guestinfo" -> "guestinfo_config"
               [] op = "screenshot" -> "capture_screen"
               [] OTHER -> None

Behind(k) == CASE k = "ova" -> "ovftool" [] k = "make_iso" -> "mkisofs" [] OTHER -> None

\* VMware goes by the descriptor for OVA files, and looks for mkisofs afresh.
Refused(c, op) ==
  IF answer[c] = VBox THEN op \in {"make_iso", "guestinfo"}
  ELSE \/ op \in {"import ova", "export"} /\ "ova" \notin ds[c][VMware].caps
       \/ op = "make_iso" /\ "mkisofs" \notin tools

Program(p, op) == IF p = VMware /\ Behind(Needs(op)) # None THEN Behind(Needs(op)) ELSE p

Act(c, op, result) == /\ pc[c] = "act"
                      /\ pc' = [pc EXCEPT ![c] = "done"]
                      /\ outcome' = [outcome EXCEPT ![c] = [op |-> op, result |-> result]]
                      /\ UNCHANGED <<host, asked, ds, answer, history>>

\* The tool's switch comes after the provider has been chosen.
ActUnknown(c) == Act(c, "unheard-of", "unknown action")

ActUnsupported(c, op) == Refused(c, op) /\ Act(c, op, "unsupported")

ActWorks(c, op) == /\ ~Refused(c, op)
                   /\ Program(answer[c], op) \in installed \cup tools
                   /\ Act(c, op, "ok")

ActFails(c, op) == ~Refused(c, op) /\ Act(c, op, "failed")

Perform(c) == \/ ActUnknown(c)
              \/ \E op \in Op \ {"unheard-of"} :
                   ActUnsupported(c, op) \/ ActWorks(c, op) \/ ActFails(c, op)

Done(c) == /\ pc[c] = "done"
           /\ pc' = [pc EXCEPT ![c] = "idle"]
           /\ asked' = [asked EXCEPT ![c] = None]
           /\ ds' = [ds EXCEPT ![c] = [p \in Provider |-> Unprobed]]
           /\ answer' = [answer EXCEPT ![c] = None]
           /\ outcome' = [outcome EXCEPT ![c] = None]
           /\ seen' = [seen EXCEPT ![c] = {}] /\ missed' = [missed EXCEPT ![c] = {}]
           /\ came' = [came EXCEPT ![c] = {}] /\ went' = [went EXCEPT ![c] = {}]
           /\ UNCHANGED host

\* Software is installed or removed.
Change == LET Grown(h, more) == [c \in Call |-> IF pc[c] = "idle" THEN {} ELSE h[c] \cup more] IN
          /\ installed' \in SUBSET Provider /\ tools' \in SUBSET Tool
          /\ host' # host
          /\ seen' = Grown(seen, installed')
          /\ missed' = Grown(missed, Provider \ installed')
          /\ came' = Grown(came, tools')
          /\ went' = Grown(went, Tool \ tools')
          /\ UNCHANGED <<pc, asked, ds, answer, outcome>>

Discover(c) == \/ VersionAnswers(c) \/ VersionFails(c)
               \/ PropertiesAnswer(c) \/ PropertiesFail(c)
               \/ FindVmrun(c)

Next == \/ Change
        \/ \E c \in Call : \/ \E id \in Provider \cup {Other, None} : Begin(c, id)
                           \/ Discover(c)
                           \/ SelectNamed(c) \/ SelectReady(c)
                           \/ Perform(c)
                           \/ Done(c)

Spec == Init /\ [][Next]_vars
-----------------------------------------------------------------------------
Result == {"ok", "failed", "unsupported", "unknown action"}

TypeOK == /\ installed \subseteq Provider
          /\ tools \subseteq Tool
          /\ pc \in [Call -> {"idle", "version", "properties", "vmrun", "select", "act", "done"}]
          /\ asked \in [Call -> Provider \cup {Other, None}]
          /\ ds \in [Call -> [Provider -> Descriptor]]
          /\ answer \in [Call -> Provider \cup Refusals \cup {None}]
          /\ outcome \in [Call -> [op : Op, result : Result] \cup {None}]
          /\ seen \in [Call -> SUBSET Provider] /\ missed \in [Call -> SUBSET Provider]
          /\ came \in [Call -> SUBSET Tool] /\ went \in [Call -> SUBSET Tool]

Unnamed(c) == pc[c] = "done" /\ asked[c] = None

\* "Ambiguity is surfaced, never guessed" (main.go:63): a call that names no
\* provider gets one only if it is the only one, every other having been away at
\* some time while the call probed the host.
NeverGuessed ==
  \A c \in Call : Unnamed(c) /\ answer[c] \in Provider => Provider \ {answer[c]} \subseteq missed[c]

\* "Detection runs per call: hypervisors can be installed mid-session"
\* (main.go:63-64): no answer rests on what an earlier call saw.  The provider
\* chosen was there during this very call, and one that is refused was away, or
\* was one of several that were there.
AnswersAreFresh ==
  \A c \in Call : pc[c] = "done" =>
    /\ answer[c] \in Provider => answer[c] \in seen[c]
    /\ answer[c] = "not ready" => asked[c] \in missed[c]
    /\ answer[c] = "none ready" => missed[c] = Provider
    /\ answer[c] = "several ready" => seen[c] = Provider

\* What became of the action c asked for is what the capabilities say.
Decided(c) ==
  pc[c] = "done" /\ outcome[c] # None =>
    LET k == Needs(outcome[c].op)
        advertised == k \in ds[c][answer[c]].caps
        moved == Behind(k) \in came[c] \cap went[c]
    IN  /\ outcome[c].result = "unsupported" => ~advertised \/ moved
        /\ outcome[c].result = "ok" => \/ k = None \/ advertised \/ moved
                                       \/ answer[c] = VBox /\ k = "capture_screen"

\* "capabilities decide whether a given action succeeds or returns ErrUnsupported"
\* (contract.go:52-54): an action is refused as unsupported if the provider does not
\* advertise it and carried out only if it does, but for one whose tool came or went
\* between the probe and the action, and for VirtualBox's screenshots.
CapabilitiesDecide == \A c \in Call : Decided(c)
=============================================================================
