------------------------ MODULE ProviderSelectProofs ------------------------
(***************************************************************************)
(* For any number of calls and whatever comes and goes: capabilities       *)
(* decide what is carried out, and where VBoxManage answers in time a      *)
(* provider is never guessed and no answer is stale.                       *)
(***************************************************************************)
EXTENDS ProviderSelect, TLAPS

\* The status of p in the descriptors of c is backed by what was so during c.
Backed(c, p) == /\ ds[c][p].status = "ready" => p \in seen[c]
                /\ ~Slow /\ ds[c][p].status = "missing_tooling" => p \in missed[c]

\* Which probes are through.
Probed(c) == /\ pc[c] = "idle" => \A p \in Provider : ds[c][p].status = "unprobed"
             /\ pc[c] \in {"properties"} => ds[c][VBox].status = "ready"
             /\ pc[c] \in {"vmrun", "select", "act", "done"} => ds[c][VBox].status # "unprobed"
             /\ pc[c] \in {"select", "act", "done"} => ds[c][VMware].status # "unprobed"

\* seen and missed take in the present.
Current(c) == pc[c] # "idle" => installed \subseteq seen[c] /\ Provider \ installed \subseteq missed[c]

Reasons(c) ==
  ~Slow /\ pc[c] \in {"act", "done"} =>
    /\ answer[c] \in Provider => answer[c] \in seen[c]
    /\ answer[c] = "not ready" => asked[c] \in missed[c]
    /\ answer[c] = "none ready" => missed[c] = Provider
    /\ answer[c] = "several ready" => seen[c] = Provider
    /\ asked[c] = None /\ answer[c] \in Provider => Provider \ {answer[c]} \subseteq missed[c]

\* What a ready descriptor advertises, and why.
Advertises(c, p) ==
  ds[c][p].status = "ready" =>
    /\ p = VBox => ds[c][p].caps = {"ova"}
    /\ p = VMware => /\ {"guestinfo_config", "capture_screen"} \subseteq ds[c][p].caps
                     /\ IF "ova" \in ds[c][p].caps THEN "ovftool" \in came[c]
                                                   ELSE "ovftool" \in went[c]
                     /\ IF "make_iso" \in ds[c][p].caps THEN "mkisofs" \in came[c]
                                                        ELSE "mkisofs" \in went[c]

\* came and went take in the present.
ToolsCurrent(c) == pc[c] # "idle" => tools \subseteq came[c] /\ Tool \ tools \subseteq went[c]

\* The adapter at work is the one behind a ready descriptor.
Chosen(c) == /\ pc[c] = "act" => answer[c] \in Provider
             /\ pc[c] \in {"act", "done"} /\ answer[c] \in Provider =>
                  ds[c][answer[c]].status = "ready"
             /\ pc[c] # "done" => outcome[c] = None

CallCaps(c) == /\ \A p \in Provider : Advertises(c, p)
               /\ ToolsCurrent(c) /\ Chosen(c) /\ Decided(c)

CallInv(c) == /\ \A p \in Provider : Backed(c, p)
              /\ Probed(c) /\ Current(c) /\ Reasons(c) /\ CallCaps(c)

IInv == TypeOK /\ \A c \in Call : CallInv(c)

LEMMA TwoProviders == /\ VBox \in Provider /\ VMware \in Provider /\ VBox # VMware
                      /\ Provider = {VBox, VMware}
                      /\ None \notin Provider
                      /\ Provider \cap Refusals = {}
                      /\ Other \notin Provider
  BY NoneAssumption DEF Provider, VBox, VMware, Refusals, Other

\* The capability and the tool behind each action.
LEMMA NeedsOf == /\ \A op \in {"import ova", "export"} : Needs(op) = "ova"
                 /\ Needs("make_iso") = "make_iso" /\ Needs("guestinfo") = "guestinfo_config"
                 /\ Needs("screenshot") = "capture_screen"
                 /\ Needs("start") = None /\ Needs("unheard-of") = None
                 /\ Behind("make_iso") = "mkisofs" /\ Behind("ova") = "ovftool"
  BY DEF Needs, Behind

LEMMA InitInv == Init => IInv
  BY DEF Init, IInv, TypeOK, CallInv, Backed, Probed, Current, Reasons, CallCaps, Advertises,
         ToolsCurrent, Chosen, Decided, Descriptor, Unprobed, Provider

\* A step leaves the host and call e alone.
Untouched(e) == /\ installed' = installed /\ tools' = tools
                /\ pc'[e] = pc[e] /\ asked'[e] = asked[e] /\ ds'[e] = ds[e]
                /\ answer'[e] = answer[e] /\ outcome'[e] = outcome[e]
                /\ seen'[e] = seen[e] /\ missed'[e] = missed[e]
                /\ came'[e] = came[e] /\ went'[e] = went[e]

LEMMA OtherKeeps ==
  ASSUME IInv, NEW e \in Call, Untouched(e)
  PROVE  CallInv(e)'
<1> USE DEF Untouched
<1>1. CallInv(e)
  BY DEF IInv
<1>2. (\A p \in Provider : Backed(e, p))'
  BY <1>1 DEF CallInv, Backed
<1>3. Probed(e)'
  BY <1>1 DEF CallInv, Probed
<1>4. Current(e)'
  BY <1>1 DEF CallInv, Current
<1>5. Reasons(e)'
  BY <1>1 DEF CallInv, Reasons
<1>6. CallCaps(e)'
  <2>1. (\A p \in Provider : Advertises(e, p))'
    BY <1>1 DEF CallInv, CallCaps, Advertises
  <2>2. ToolsCurrent(e)' /\ Chosen(e)'
    BY <1>1 DEF CallInv, CallCaps, ToolsCurrent, Chosen
  <2>3. Decided(e)'
    BY <1>1 DEF CallInv, CallCaps, Decided
  <2> QED
    BY <2>1, <2>2, <2>3 DEF CallCaps
<1> QED
  BY <1>2, <1>3, <1>4, <1>5, <1>6 DEF CallInv

LEMMA ProbeInv ==
  ASSUME IInv, NEW c \in Call, NEW p \in Provider, NEW d \in Descriptor,
         NEW from \in {"version", "properties", "vmrun"},
         NEW to \in {"properties", "vmrun", "select"},
         Probe(c, from, to, p, d),
         d.status = "ready" => p \in seen[c],
         ~Slow /\ d.status = "missing_tooling" => p \in missed[c],
         Probed(c)', Advertises(c, p)'
  PROVE  IInv'
<1> USE DEF Probe
<1>1. TypeOK'
  BY DEF IInv, TypeOK, host, history
<1>2. ASSUME NEW e \in Call \ {c} PROVE CallInv(e)'
  <2>1. Untouched(e)
    BY DEF IInv, TypeOK, host, history, Untouched
  <2> HIDE DEF Probe
  <2> QED
    BY <2>1, OtherKeeps
<1>3. CallInv(c)'
  <2>1. pc[c] = from /\ pc'[c] = to /\ ds'[c][p] = d
        /\ \A q \in Provider \ {p} : ds'[c][q] = ds[c][q]
    BY DEF IInv, TypeOK, host
  <2>2. \A q \in Provider : Backed(c, q)'
    BY <2>1 DEF IInv, CallInv, Backed, history
  <2>3. Current(c)' /\ Reasons(c)'
    BY <2>1 DEF IInv, CallInv, Current, Reasons, host, history
  <2>4. \A q \in Provider : Advertises(c, q)'
    <3> TAKE q \in Provider
    <3>1. CASE q = p
      BY <3>1
    <3>2. CASE q # p
      BY <2>1, <3>2 DEF IInv, CallInv, CallCaps, Advertises, history
    <3> QED
      BY <3>1, <3>2
  <2>5. ToolsCurrent(c)' /\ Chosen(c)' /\ Decided(c)'
    BY <2>1 DEF IInv, CallInv, CallCaps, ToolsCurrent, Chosen, Decided, host, history
  <2> QED
    BY <2>2, <2>3, <2>4, <2>5 DEF CallInv, CallCaps
<1> QED
  BY <1>1, <1>2, <1>3 DEF IInv

LEMMA AnswerInv ==
  ASSUME IInv, NEW c \in Call, NEW a \in Provider \cup Refusals, Answer(c, a),
         a \in Provider => a \in Ready(c),
         a = "not ready" => asked[c] \in Provider \ Ready(c),
         a = "none ready" => Ready(c) = {},
         a = "several ready" => Ready(c) = Provider,
         asked[c] = None /\ a \in Provider => Ready(c) = {a}
  PROVE  IInv'
<1> USE DEF Answer
<1>1. TypeOK'
  BY DEF IInv, TypeOK, host, history
<1>2. ASSUME NEW e \in Call \ {c} PROVE CallInv(e)'
  <2>1. Untouched(e)
    BY DEF IInv, TypeOK, host, history, Untouched
  <2> HIDE DEF Answer
  <2> QED
    BY <2>1, OtherKeeps
<1>3. /\ pc[c] = "select" /\ answer'[c] = a
      /\ pc'[c] = IF a \in Provider THEN "act" ELSE "done"
  BY DEF IInv, TypeOK, host
<1>4. \A p \in Provider : /\ p \in Ready(c) => p \in seen[c]
                          /\ ~Slow /\ p \notin Ready(c) => p \in missed[c]
  <2> TAKE p \in Provider
  <2>1. ds[c][p] \in Descriptor
    BY DEF IInv, TypeOK, host
  <2>2. ds[c][p].status # "unprobed"
    BY <1>3, TwoProviders DEF IInv, CallInv, Probed
  <2>3. ds[c][p].status \in {"ready", "missing_tooling"}
    BY <2>1, <2>2 DEF Descriptor
  <2> QED
    BY <2>3 DEF IInv, CallInv, Backed, Ready
<1>5. Reasons(c)'
  <2>1. seen[c] \subseteq Provider /\ missed[c] \subseteq Provider
    BY DEF IInv, TypeOK, host
  <2> QED
    BY <1>3, <1>4, <2>1 DEF Reasons, history
<1>6. (\A p \in Provider : Backed(c, p))' /\ Probed(c)' /\ Current(c)'
  <2>1. CallInv(c) /\ ds' = ds /\ seen' = seen /\ missed' = missed /\ installed' = installed
    BY DEF IInv, host, history
  <2>2. (\A p \in Provider : Backed(c, p))' /\ Current(c)'
    BY <1>3, <2>1 DEF CallInv, Backed, Current
  <2>3. pc'[c] \in {"act", "done"}
    BY <1>3
  <2>4. Probed(c)'
    BY <1>3, <2>1, <2>3 DEF CallInv, Probed
  <2> QED
    BY <2>2, <2>4
<1>7. CallCaps(c)'
  <2>1. (\A p \in Provider : Advertises(c, p))' /\ ToolsCurrent(c)'
    BY <1>3 DEF IInv, CallInv, CallCaps, Advertises, ToolsCurrent, host, history
  <2>2. outcome'[c] = None /\ ds' = ds
    BY <1>3 DEF IInv, CallInv, CallCaps, Chosen
  <2>3. a \in Provider => ds'[c][a].status = "ready"
    BY <2>2 DEF Ready
  <2>4. Chosen(c)'
    <3> HIDE DEF Answer
    <3> QED
      BY <1>3, <2>2, <2>3 DEF Chosen
  <2>5. Decided(c)'
    BY <2>2 DEF Decided
  <2> QED
    BY <2>1, <2>4, <2>5 DEF CallCaps
<1> QED
  BY <1>1, <1>2, <1>5, <1>6, <1>7 DEF IInv, CallInv

LEMMA ActInv ==
  ASSUME IInv, NEW c \in Call, NEW op \in Op, NEW result \in Result, Act(c, op, result),
         result = "unsupported" => Refused(c, op),
         result = "ok" => ~Refused(c, op) /\ Program(answer[c], op) \in installed \cup tools
  PROVE  IInv'
<1> USE DEF Act
<1>1. TypeOK'
  BY DEF IInv, TypeOK, host, history
<1>2. ASSUME NEW e \in Call \ {c} PROVE CallInv(e)'
  <2>1. Untouched(e)
    BY DEF IInv, TypeOK, host, history, Untouched
  <2> HIDE DEF Act
  <2> QED
    BY <2>1, OtherKeeps
<1>3. /\ pc[c] = "act" /\ pc'[c] = "done"
      /\ outcome'[c] = [op |-> op, result |-> result]
  BY DEF IInv, TypeOK, host
<1>4. (\A p \in Provider : Backed(c, p))' /\ Probed(c)' /\ Current(c)' /\ Reasons(c)'
  BY <1>3 DEF IInv, CallInv, Backed, Probed, Current, Reasons, host, history
<1>5. (\A p \in Provider : Advertises(c, p))' /\ ToolsCurrent(c)' /\ Chosen(c)'
  BY <1>3 DEF IInv, CallInv, CallCaps, Advertises, ToolsCurrent, Chosen, host, history
<1>6. Decided(c)'
  <2> DEFINE k == Needs(op)
             caps == ds[c][answer[c]].caps
             moved == Behind(k) \in came[c] \cap went[c]
             screen == answer[c] = VBox /\ k = "capture_screen"
  <2>1. /\ answer[c] \in Provider /\ ds[c][answer[c]].status = "ready"
        /\ Advertises(c, answer[c]) /\ tools \subseteq came[c] /\ Tool \ tools \subseteq went[c]
    BY <1>3 DEF IInv, CallInv, CallCaps, ToolsCurrent, Chosen
  <2>2. installed \subseteq Provider /\ tools \subseteq Tool
    BY DEF IInv, TypeOK
  <2>3. ASSUME answer[c] = VBox
        PROVE  /\ result = "unsupported" => k \notin caps
               /\ result = "ok" => k = None \/ k \in caps \/ screen
    <3>1. caps = {"ova"}
      BY <2>1, <2>3 DEF Advertises
    <3>2. Refused(c, op) <=> op \in {"make_iso", "guestinfo"}
      BY <2>3 DEF Refused
    <3>3. CASE op \in {"make_iso", "guestinfo"}
      BY <3>1, <3>2, <3>3, NeedsOf
    <3>4. CASE op \notin {"make_iso", "guestinfo"}
      <4>1. k \in {"ova", "capture_screen", None}
        BY <3>4, NeedsOf DEF Op
      <4> QED
        BY <2>3, <3>1, <3>2, <3>4, <4>1
    <3> QED
      BY <3>3, <3>4
  <2>4. ASSUME answer[c] = VMware
        PROVE  /\ result = "unsupported" => k \notin caps \/ moved
               /\ result = "ok" => k = None \/ k \in caps \/ moved
    <3>1. answer[c] # VBox
      BY <2>4, TwoProviders
    <3>2. Refused(c, op) <=> \/ op \in {"import ova", "export"} /\ "ova" \notin caps
                             \/ op = "make_iso" /\ "mkisofs" \notin tools
      <4>1. ds[c][VMware].caps = caps
        BY <2>4
      <4> HIDE DEF Act, caps
      <4> QED
        BY <3>1, <4>1 DEF Refused
    <3>3. CASE op \in {"import ova", "export"}
      <4>1. k = "ova" /\ op # "make_iso"
        BY <3>3, NeedsOf
      <4>2. result = "unsupported" => "ova" \notin caps
        BY <3>2, <4>1
      <4>3. result = "ok" => "ova" \in caps
        BY <3>2, <3>3
      <4> QED
        BY <4>1, <4>2, <4>3
    <3>4. CASE op = "make_iso"
      <4>1. Needs(op) = "make_iso" /\ Behind(Needs(op)) = "mkisofs"
        BY <3>4, NeedsOf
      <4>2. "mkisofs" \in Tool /\ "mkisofs" \notin Provider
        BY DEF Tool, Provider, VBox, VMware
      <4>3. result = "unsupported" => "mkisofs" \in went[c]
        BY <2>1, <3>2, <3>4, <4>2
      <4>4. result = "ok" => "mkisofs" \in came[c]
        BY <2>1, <3>2, <3>4, <4>2
      <4>5. IF "make_iso" \in caps THEN "mkisofs" \in came[c] ELSE "mkisofs" \in went[c]
        BY <2>1, <2>4, TwoProviders DEF Advertises
      <4> QED
        BY <4>1, <4>3, <4>4, <4>5
    <3>5. CASE op \notin {"import ova", "export", "make_iso"}
      <4>1. ~Refused(c, op)
        BY <3>2, <3>5
      <4>2. {"guestinfo_config", "capture_screen"} \subseteq caps
        BY <2>1, <2>4, TwoProviders DEF Advertises
      <4>3. k \in {"guestinfo_config", "capture_screen", None}
        BY <3>5, NeedsOf DEF Op
      <4> QED
        BY <4>1, <4>2, <4>3
    <3> QED
      BY <3>3, <3>4, <3>5
  <2>5. /\ result = "unsupported" => k \notin caps \/ moved
        /\ result = "ok" => k = None \/ k \in caps \/ moved \/ screen
    <3> HIDE DEF k, caps, moved, screen
    <3> QED
      BY <2>1, <2>3, <2>4, TwoProviders
  <2>6. /\ outcome'[c].op = op /\ outcome'[c].result = result
        /\ ds' = ds /\ answer' = answer /\ came' = came /\ went' = went
    BY <1>3 DEF history
  <2> QED
    BY <2>5, <2>6 DEF Decided
<1> QED
  BY <1>1, <1>2, <1>4, <1>5, <1>6 DEF IInv, CallInv, CallCaps

LEMMA NextInv == IInv /\ [Next]_vars => IInv'
<1> SUFFICES ASSUME IInv, [Next]_vars PROVE IInv'
  OBVIOUS
<1>1. CASE Change
  <2>1. TypeOK'
    BY <1>1 DEF Change, IInv, TypeOK
  <2>2. ASSUME NEW c \in Call PROVE CallInv(c)'
    <3>1. /\ pc' = pc /\ ds' = ds /\ answer' = answer /\ asked' = asked /\ outcome' = outcome
          /\ pc[c] # "idle" => /\ seen'[c] = seen[c] \cup installed'
                               /\ missed'[c] = missed[c] \cup (Provider \ installed')
                               /\ came'[c] = came[c] \cup tools'
                               /\ went'[c] = went[c] \cup (Tool \ tools')
          /\ pc[c] = "idle" => seen'[c] = {} /\ missed'[c] = {} /\ came'[c] = {} /\ went'[c] = {}
          /\ seen[c] \subseteq Provider /\ missed[c] \subseteq Provider
          /\ installed' \subseteq Provider /\ CallInv(c)
      BY <1>1 DEF Change, IInv, TypeOK
    <3>2. CASE pc[c] # "idle"
      <4>1. (\A p \in Provider : Backed(c, p))' /\ Probed(c)' /\ Current(c)'
        BY <3>1, <3>2 DEF CallInv, Backed, Probed, Current
      <4>2. Reasons(c)'
        BY <3>1, <3>2 DEF CallInv, Reasons
      <4>3. (\A p \in Provider : Advertises(c, p))'
        BY <3>1, <3>2 DEF CallInv, CallCaps, Advertises
      <4>4. ToolsCurrent(c)' /\ Chosen(c)'
        BY <3>1, <3>2 DEF CallInv, CallCaps, ToolsCurrent, Chosen
      <4>5. Decided(c)'
        BY <3>1, <3>2 DEF CallInv, CallCaps, Decided
      <4> QED
        BY <4>1, <4>2, <4>3, <4>4, <4>5 DEF CallInv, CallCaps
    <3>3. CASE pc[c] = "idle"
      <4>1. \A p \in Provider : ds[c][p].status = "unprobed"
        BY <3>1, <3>3 DEF CallInv, Probed
      <4>2. (\A p \in Provider : Backed(c, p))'
        BY <3>1, <4>1 DEF Backed
      <4>3. Probed(c)' /\ Current(c)' /\ Reasons(c)'
        BY <3>1, <3>3, <4>1 DEF Probed, Current, Reasons
      <4>4. CallCaps(c)'
        BY <3>1, <3>3, <4>1 DEF CallInv, CallCaps, Advertises, ToolsCurrent, Chosen, Decided
      <4> QED
        BY <4>2, <4>3, <4>4 DEF CallInv
    <3> QED
      BY <3>2, <3>3
  <2> QED
    BY <2>1, <2>2 DEF IInv
<1>2. CASE UNCHANGED vars
  <2>1. TypeOK'
    BY <1>2 DEF vars, host, history, IInv, TypeOK
  <2>2. ASSUME NEW e \in Call PROVE CallInv(e)'
    BY <1>2, OtherKeeps DEF vars, host, history, Untouched
  <2> QED
    BY <2>1, <2>2 DEF IInv
<1>3. ASSUME NEW c \in Call, NEW id \in Provider \cup {Other, None}, Begin(c, id)
      PROVE  IInv'
  <2> USE <1>3 DEF Begin
  <2>1. TypeOK'
    BY DEF IInv, TypeOK, host
  <2>2. ASSUME NEW e \in Call \ {c} PROVE CallInv(e)'
    <3>1. Untouched(e)
      BY DEF IInv, TypeOK, host, Untouched
    <3> HIDE <1>3 DEF Begin
    <3> QED
      BY <3>1, OtherKeeps
  <2>3. CallInv(c)'
    <3>1. /\ pc[c] = "idle" /\ pc'[c] = "version" /\ ds' = ds /\ installed' = installed
          /\ tools' = tools /\ outcome' = outcome
          /\ seen'[c] = installed /\ missed'[c] = Provider \ installed
          /\ came'[c] = tools /\ went'[c] = Tool \ tools
      BY DEF IInv, TypeOK, host
    <3>2. \A p \in Provider : ds[c][p].status = "unprobed"
      BY <3>1 DEF IInv, CallInv, Probed
    <3>3. (\A p \in Provider : Backed(c, p))'
      BY <3>1, <3>2 DEF Backed
    <3>4. Probed(c)' /\ Current(c)' /\ Reasons(c)'
      BY <3>1 DEF Probed, Current, Reasons
    <3>5. CallCaps(c)'
      BY <3>1, <3>2 DEF IInv, CallInv, CallCaps, Advertises, ToolsCurrent, Chosen, Decided
    <3> QED
      BY <3>3, <3>4, <3>5 DEF CallInv
  <2> QED
    BY <2>1, <2>2, <2>3 DEF IInv
<1>4. ASSUME NEW c \in Call, Done(c) PROVE IInv'
  <2> USE <1>4 DEF Done
  <2>1. TypeOK'
    BY DEF IInv, TypeOK, Descriptor, Unprobed, host
  <2>2. ASSUME NEW e \in Call \ {c} PROVE CallInv(e)'
    <3>1. Untouched(e)
      BY DEF IInv, TypeOK, host, Untouched
    <3> HIDE <1>4 DEF Done
    <3> QED
      BY <3>1, OtherKeeps
  <2>3. CallInv(c)'
    <3>1. pc'[c] = "idle" /\ ds'[c] = [p \in Provider |-> Unprobed] /\ outcome'[c] = None
      BY DEF IInv, TypeOK, host
    <3>2. \A p \in Provider : ds'[c][p].status = "unprobed"
      BY <3>1 DEF Unprobed
    <3>3. (\A p \in Provider : Backed(c, p))'
      BY <3>2 DEF Backed
    <3>4. Probed(c)' /\ Current(c)' /\ Reasons(c)'
      BY <3>1, <3>2 DEF Probed, Current, Reasons
    <3>5. CallCaps(c)'
      BY <3>1, <3>2 DEF CallCaps, Advertises, ToolsCurrent, Chosen, Decided
    <3> QED
      BY <3>3, <3>4, <3>5 DEF CallInv
  <2> QED
    BY <2>1, <2>2, <2>3 DEF IInv
<1>5. ASSUME NEW c \in Call, Discover(c) PROVE IInv'
  <2>0. /\ pc[c] # "idle" => installed \subseteq seen[c] /\ Provider \ installed \subseteq missed[c]
        /\ Probed(c) /\ ds[c] \in [Provider -> Descriptor]
    BY DEF IInv, CallInv, Current, TypeOK
  <2>1. CASE VersionAnswers(c)
    <3> DEFINE d == [status |-> "ready", vmdir |-> FALSE, caps |-> {"ova"}]
    <3>1. Probe(c, "version", "properties", VBox, d) /\ VBox \in installed
      BY <2>1 DEF VersionAnswers
    <3>2. d \in Descriptor /\ VBox \in seen[c]
      BY <2>0, <3>1 DEF Descriptor, Probe, Capability
    <3>3. Probed(c)'
      BY <2>0, <3>1, TwoProviders DEF Probe, Probed, IInv, TypeOK
    <3>4. Advertises(c, VBox)'
      BY <2>0, <3>1, TwoProviders DEF Probe, Advertises, IInv, TypeOK
    <3> QED
      BY <3>1, <3>2, <3>3, <3>4, TwoProviders, ProbeInv
  <2>2. CASE VersionFails(c)
    <3>1. Probe(c, "version", "vmrun", VBox, Missing) /\ (Slow \/ VBox \notin installed)
      BY <2>2 DEF VersionFails
    <3>2. /\ Missing \in Descriptor /\ (Slow \/ VBox \in missed[c])
          /\ Missing.status = "missing_tooling"
      BY <2>0, <3>1, TwoProviders DEF Descriptor, Probe, Missing, Unprobed
    <3>3. Probed(c)'
      BY <2>0, <3>1, <3>2, TwoProviders DEF Probe, Probed, IInv, TypeOK
    <3>4. Advertises(c, VBox)'
      BY <2>0, <3>1, <3>2, TwoProviders DEF Probe, Advertises, IInv, TypeOK
    <3> QED
      BY <3>1, <3>2, <3>3, <3>4, TwoProviders, ProbeInv
  <2>3. CASE PropertiesAnswer(c)
    <3> DEFINE d == [status |-> "ready", vmdir |-> TRUE, caps |-> {"ova"}]
    <3>1. Probe(c, "properties", "vmrun", VBox, d)
      BY <2>3 DEF PropertiesAnswer
    <3>2. d \in Descriptor /\ d.status = "ready" /\ ds[c][VBox].status = "ready"
      BY <2>0, <3>1, TwoProviders DEF Descriptor, Probe, Probed, Capability
    <3>3. VBox \in seen[c]
      BY <3>2, TwoProviders DEF IInv, CallInv, Backed
    <3>4. Probed(c)'
      BY <2>0, <3>1, <3>2, TwoProviders DEF Probe, Probed, IInv, TypeOK
    <3>5. Advertises(c, VBox)'
      BY <2>0, <3>1, TwoProviders DEF Probe, Advertises, IInv, TypeOK
    <3> HIDE DEF d
    <3> QED
      BY <3>1, <3>2, <3>3, <3>4, <3>5, TwoProviders, ProbeInv
  <2>4. CASE PropertiesFail(c)
    <3> DEFINE d == ds[c][VBox]
    <3>1. Probe(c, "properties", "vmrun", VBox, d)
      BY <2>4 DEF PropertiesFail
    <3>2. d \in Descriptor /\ d.status = "ready"
      BY <2>0, <3>1, TwoProviders DEF Probe, Probed
    <3>3. VBox \in seen[c]
      BY <3>2, TwoProviders DEF IInv, CallInv, Backed
    <3>4. Probed(c)'
      BY <2>0, <3>1, <3>2, TwoProviders DEF Probe, Probed, IInv, TypeOK
    <3>5. Advertises(c, VBox)'
      BY <2>0, <3>1, <3>2, TwoProviders DEF Probe, Advertises, IInv, TypeOK, CallInv, CallCaps,
                                             history
    <3> HIDE DEF d
    <3> QED
      BY <3>1, <3>2, <3>3, <3>4, <3>5, TwoProviders, ProbeInv
  <2>5. CASE FindVmrun(c)
    <3> DEFINE caps == {"guestinfo_config", "capture_screen"}
                       \cup (IF "ovftool" \in tools THEN {"ova"} ELSE {})
                       \cup (IF "mkisofs" \in tools THEN {"make_iso"} ELSE {})
               d == IF VMware \in installed
                    THEN [status |-> "ready", vmdir |-> TRUE, caps |-> caps]
                    ELSE Missing
    <3>1. Probe(c, "vmrun", "select", VMware, d)
      BY <2>5 DEF FindVmrun
    <3>2. /\ caps \subseteq Capability
          /\ {"guestinfo_config", "capture_screen"} \subseteq caps
          /\ "ova" \in caps <=> "ovftool" \in tools
          /\ "make_iso" \in caps <=> "mkisofs" \in tools
      BY DEF Capability
    <3> HIDE DEF caps
    <3>3. /\ d \in Descriptor
          /\ d.status = "ready" => VMware \in installed /\ d.caps = caps
          /\ d.status = "missing_tooling" => VMware \notin installed
          /\ d.status # "unprobed"
      BY <3>2 DEF Descriptor, Missing, Unprobed, IInv, TypeOK
    <3>4. /\ d.status = "ready" => VMware \in seen[c]
          /\ d.status = "missing_tooling" => VMware \in missed[c]
      BY <2>0, <3>1, <3>3, TwoProviders DEF Probe
    <3> HIDE DEF d
    <3>5. Probed(c)'
      BY <2>0, <3>1, <3>3, TwoProviders DEF Probe, Probed, IInv, TypeOK
    <3>6. Advertises(c, VMware)'
      <4>1. ds'[c][VMware] = d /\ came' = came /\ went' = went
        BY <2>0, <3>1, TwoProviders DEF Probe, IInv, TypeOK, history
      <4>2. tools \subseteq came[c] /\ Tool \ tools \subseteq went[c]
        BY <3>1 DEF Probe, IInv, CallInv, CallCaps, ToolsCurrent
      <4>3. "ovftool" \in Tool /\ "mkisofs" \in Tool
        BY DEF Tool
      <4> QED
        BY <3>2, <3>3, <4>1, <4>2, <4>3, TwoProviders DEF Advertises
    <3> QED
      BY <3>1, <3>3, <3>4, <3>5, <3>6, TwoProviders, ProbeInv
  <2> QED
    BY <1>5, <2>1, <2>2, <2>3, <2>4, <2>5 DEF Discover
<1>6. ASSUME NEW c \in Call, SelectNamed(c) \/ SelectReady(c) PROVE IInv'
  <2>0. Ready(c) \subseteq Provider
    BY DEF Ready
  <2>1. CASE SelectNamed(c)
    <3> DEFINE a == IF asked[c] \notin Provider THEN "no such provider"
                    ELSE IF asked[c] \in Ready(c) THEN asked[c] ELSE "not ready"
    <3>1. asked[c] # None /\ Answer(c, a)
      BY <2>1 DEF SelectNamed
    <3>2. /\ a \in Provider \cup Refusals
          /\ a \in Provider => a \in Ready(c)
          /\ a = "not ready" => asked[c] \in Provider \ Ready(c)
          /\ a \notin {"none ready", "several ready"}
      BY <2>0, TwoProviders DEF Refusals, Provider
    <3> HIDE DEF a
    <3> QED
      BY <3>1, <3>2, AnswerInv
  <2>2. CASE SelectReady(c)
    <3> DEFINE a == IF Ready(c) = {} THEN "none ready"
                    ELSE IF Ready(c) = Provider THEN "several ready"
                    ELSE CHOOSE p \in Ready(c) : TRUE
    <3>1. asked[c] = None /\ Answer(c, a)
      BY <2>2 DEF SelectReady
    <3>2. /\ a \in Provider \cup Refusals
          /\ a \in Provider => Ready(c) = {a}
          /\ a = "none ready" => Ready(c) = {}
          /\ a = "several ready" => Ready(c) = Provider
          /\ a # "not ready"
      <4>1. CASE Ready(c) = {}
        <5>1. a = "none ready" /\ a \in Refusals
          BY <4>1 DEF Refusals
        <5> QED
          BY <4>1, <5>1, TwoProviders DEF Refusals
      <4>2. CASE Ready(c) = Provider
        BY <4>2, TwoProviders DEF Refusals, Provider
      <4>3. CASE Ready(c) # {} /\ Ready(c) # Provider
        <5>1. Ready(c) = {VBox} \/ Ready(c) = {VMware}
          BY <2>0, <4>3, TwoProviders
        <5>2. a \in Ready(c)
          BY <4>3
        <5> QED
          BY <5>1, <5>2 DEF Provider, VBox, VMware
      <4> QED
        BY <4>1, <4>2, <4>3
    <3> HIDE DEF a
    <3> QED
      BY <3>1, <3>2, AnswerInv
  <2> QED
    BY <1>6, <2>1, <2>2
<1>7. ASSUME NEW c \in Call, Perform(c) PROVE IInv'
  <2>1. CASE ActUnknown(c)
    <3>1. "unheard-of" \in Op /\ "unknown action" \in Result
      BY DEF Op, Result
    <3> QED
      BY <2>1, <3>1, ActInv DEF ActUnknown
  <2>2. ASSUME NEW op \in Op,
               ActUnsupported(c, op) \/ ActWorks(c, op) \/ ActFails(c, op)
        PROVE  IInv'
    <3>1. {"ok", "failed", "unsupported"} \subseteq Result
      BY DEF Result
    <3>2. CASE ActUnsupported(c, op)
      BY <3>1, <3>2, ActInv DEF ActUnsupported
    <3>3. CASE ActWorks(c, op)
      BY <3>1, <3>3, ActInv DEF ActWorks
    <3>4. CASE ActFails(c, op)
      BY <3>1, <3>4, ActInv DEF ActFails
    <3> QED
      BY <2>2, <3>2, <3>3, <3>4
  <2> QED
    BY <1>7, <2>1, <2>2 DEF Perform
<1> QED
  BY <1>1, <1>2, <1>3, <1>4, <1>5, <1>6, <1>7 DEF Next

\* "capabilities decide whether a given action succeeds or returns ErrUnsupported"
\* (contract.go:52-54), for any number of calls, with a slow VBoxManage or a quick one.
THEOREM CapabilitiesAlwaysDecide == Spec => []CapabilitiesDecide
<1>1. IInv => CapabilitiesDecide
  BY DEF IInv, CallInv, CallCaps, CapabilitiesDecide
<1> QED
  BY InitInv, NextInv, <1>1, PTL DEF Spec

\* Type correctness, under the same weak assumption.
THEOREM SelectTypeOK == Spec => []TypeOK
<1>1. IInv => TypeOK
  BY DEF IInv
<1> QED
  BY InitInv, NextInv, <1>1, PTL DEF Spec

\* "Ambiguity is surfaced, never guessed" (main.go:63), as long as VBoxManage
\* answers within its ten seconds.
THEOREM PromptNeverGuesses ==
  ASSUME ~Slow
  PROVE  Spec => []NeverGuessed
<1>1. ~Slow /\ IInv => NeverGuessed
  BY DEF IInv, CallInv, Reasons, NeverGuessed, Unnamed
<1>2. IInv /\ [Next]_vars => IInv'
  BY NextInv
<1> QED
  BY InitInv, <1>1, <1>2, PTL DEF Spec

\* "Detection runs per call" (main.go:63-64): under the same condition, no answer
\* rests on what was so before the call.
THEOREM PromptAnswersAreFresh ==
  ASSUME ~Slow
  PROVE  Spec => []AnswersAreFresh
<1>1. ~Slow /\ IInv => AnswersAreFresh
  BY DEF IInv, CallInv, Reasons, AnswersAreFresh
<1>2. IInv /\ [Next]_vars => IInv'
  BY NextInv
<1> QED
  BY InitInv, <1>1, <1>2, PTL DEF Spec
=============================================================================
