------------------------------ MODULE Resolve ------------------------------
(***************************************************************************)
(* core/artifact/resolve.go: from the name of an image and the descriptor  *)
(* of a provider to the one artifact that the provider can use.  pick's    *)
(* loop over the variants of an image is kept step by step.                *)
(*                                                                         *)
(* Asset names and notes are left out: neither decides anything here.      *)
(***************************************************************************)
EXTENDS Naturals, Sequences

CONSTANTS Catalog,  \* image |-> its kind and its sequence of variants
          Boxes,    \* names of the form vagrant:<org>/<box> |-> <org>/<box>
          Unknown,  \* other names callers may give
          Arch,     \* GOARCH of the hosts
          Any       \* the empty family, architecture or kind of a variant

Kinds == {"virtualbox", "vmware-fusion", "vmware-workstation"}
Families == {"virtualbox", "vmware"}
Formats == {"ova", "ovf", "iso", "vmx", "vdi", "vmdk"}
Channels == {"github_asset", "url", "vagrant", "ubuntu_cloud", "talos_factory"}

Variant == [family : Families \cup {Any}, arch : Arch \cup {Any},
            kind : Channels \cup {Any}, locator : STRING, format : Formats]

ASSUME AnyAssumption == Any \notin Families \cup Arch \cup Channels
ASSUME CatalogAssumption ==
  \A image \in DOMAIN Catalog : /\ Catalog[image].kind \in Channels
                                /\ Catalog[image].variants \in Seq(Variant)
ASSUME NamesAssumption == /\ DOMAIN Boxes \cap (DOMAIN Catalog \cup Unknown) = {}
                          /\ Unknown \cap DOMAIN Catalog = {}
                          /\ \A box \in DOMAIN Boxes : Boxes[box] \in STRING

VARIABLES
  pc,
  image,  \* what is asked for
  host,   \* the descriptor: kind of provider, architecture, accepted formats
  i,      \* pick's loop counter
  best,   \* its byFamily, byArch and any: indexes of variants, 0 for nil
  answer  \* a Resolved, or why there is none

vars == <<pc, image, host, i, best, answer>>

Images == DOMAIN Catalog \cup DOMAIN Boxes \cup Unknown
Hosts == [kind : Kinds, arch : Arch, formats : SUBSET Formats]

\* Formats of the descriptors that Detect returns; VMware's depend on ovftool.
Accepted(kind, ovftool) ==
  IF kind = "virtualbox" THEN {"ova", "ovf", "iso", "vdi", "vmdk"}
  ELSE {"vmx", "vmdk", "iso"} \cup IF ovftool THEN {"ova", "ovf"} ELSE {}

Family(kind) == IF kind = "virtualbox" THEN "virtualbox" ELSE "vmware"

\* Mutant: the registry is asked for the kind of the adapter.
NamedByKind(kind) == kind

VagrantProvider(kind) == IF kind = "virtualbox" THEN "virtualbox" ELSE "vmware_desktop"

\* Mutant: every box is called an OVF.
BoxIsOVF(family) == "ovf"

VagrantFormat(family) == IF family = "vmware" THEN "vmx" ELSE "ovf"

None == [why |-> "none"]
Init == /\ pc = "idle" /\ image \in Images /\ host \in Hosts
        /\ host.formats \in {Accepted(host.kind, ovftool) : ovftool \in BOOLEAN}
        /\ i = 1 /\ best = [c \in {"family", "arch", "any"} |-> 0]
        /\ answer = None

Variants == Catalog[image].variants

\* The first case of pick's switch that a variant falls into.
Class(v, family, arch) ==
  IF v.family = family /\ v.arch = arch THEN "exact"
  ELSE IF v.family = family /\ v.arch = Any THEN "family"
  ELSE IF v.family = Any /\ v.arch = arch THEN "arch"
  ELSE IF v.family = Any /\ v.arch = Any THEN "any" ELSE "no"

ClassAt(k) == Class(Variants[k], Family(host.kind), host.arch)

Fail(why) == pc' = "done" /\ answer' = [why |-> why]

Resolved(channel, locator, format, provider) ==
  /\ pc' = "done"
  /\ answer' = [kind |-> channel, locator |-> locator, format |-> format,
                provider |-> provider]

\* A box by its registry name needs no catalog.
ResolveBox == /\ pc = "idle" /\ image \in DOMAIN Boxes
              /\ Resolved("vagrant", Boxes[image], VagrantFormat(Family(host.kind)),
                          VagrantProvider(host.kind))
              /\ UNCHANGED <<image, host, i, best>>

UnknownImage == /\ pc = "idle" /\ image \in Unknown /\ Fail("unknown image")
                /\ UNCHANGED <<image, host, i, best>>

FindSource == /\ pc = "idle" /\ image \in DOMAIN Catalog
              /\ pc' = "pick"
              /\ UNCHANGED <<image, host, i, best, answer>>

(* pick: i indexes the variant looked at; at the end of the loop, and on    *)
(* its early return, i is the variant chosen.                              *)

\* Mutant: the last variant of a class wins.
KeepLast(c) == best' = [best EXCEPT ![c] = i]

Keep(c) == best' = IF best[c] = 0 THEN [best EXCEPT ![c] = i] ELSE best

PickExact == /\ pc = "pick" /\ i \in DOMAIN Variants /\ ClassAt(i) = "exact"
             /\ pc' = "picked"
             /\ UNCHANGED <<image, host, i, best, answer>>

PickNext == /\ pc = "pick" /\ i \in DOMAIN Variants /\ ClassAt(i) # "exact"
            /\ IF ClassAt(i) = "no" THEN UNCHANGED best ELSE Keep(ClassAt(i))
            /\ i' = i + 1
            /\ UNCHANGED <<pc, image, host, answer>>

PickLadder == /\ pc = "pick" /\ i \notin DOMAIN Variants
              /\ i' = IF best["family"] # 0 THEN best["family"]
                      ELSE IF best["arch"] # 0 THEN best["arch"] ELSE best["any"]
              /\ pc' = "picked"
              /\ UNCHANGED <<image, host, best, answer>>

NoVariant == /\ pc = "picked" /\ i = 0 /\ Fail("no variant")
             /\ UNCHANGED <<image, host, i, best>>

Accepts(format) == format \in host.formats

\* The kind of the variant overrides that of the source, but whether a box is
\* asked for is decided by the source.
Conclude ==
  LET v == Variants[i]
      source == Catalog[image].kind
      box == source = "vagrant"
      format == IF box THEN VagrantFormat(Family(host.kind)) ELSE v.format
  IN  /\ pc = "picked" /\ i # 0
      /\ IF Accepts(format)
         THEN Resolved(IF v.kind # Any THEN v.kind ELSE source, v.locator, format,
                       IF box THEN VagrantProvider(host.kind) ELSE "")
         ELSE Fail("not accepted")
      /\ UNCHANGED <<image, host, i, best>>

Next == \/ ResolveBox \/ UnknownImage \/ FindSource
        \/ PickExact \/ PickNext \/ PickLadder
        \/ NoVariant \/ Conclude

Spec == Init /\ [][Next]_vars
-----------------------------------------------------------------------------
Answers == [why : {"none", "unknown image", "no variant", "not accepted"}]
           \cup [kind : Channels, locator : STRING, format : Formats,
                 provider : {"virtualbox", "vmware_desktop", ""}]

TypeOK == /\ pc \in {"idle", "pick", "picked", "done"}
          /\ image \in Images
          /\ host \in Hosts
          /\ i \in Nat
          /\ best \in [{"family", "arch", "any"} -> Nat]
          /\ answer \in Answers

Found == "kind" \in DOMAIN answer

Serves(v, family, arch) == v.family \in {family, Any} /\ v.arch \in {arch, Any}

\* How closely a variant fits: the family counts for more than the architecture.
Fit(v) == (IF v.family = Any THEN 0 ELSE 2) + (IF v.arch = Any THEN 0 ELSE 1)

\* "Selection prefers an exact (family, arch) match, then family-only, then
\* arch-only, then the unconstrained variant" (resolve.go:180-181), and of equals
\* the first: pick's loop, its early return and its ladder choose the first of
\* the variants that fit best, and none only if none serves the host.
PicksBestVariant ==
  LET Fits(k) == Serves(Variants[k], Family(host.kind), host.arch)
      fit == [k \in DOMAIN Variants |-> Fit(Variants[k])]
  IN  pc = "picked" =>
        IF i = 0 THEN \A k \in DOMAIN Variants : ~Fits(k)
        ELSE /\ i \in DOMAIN Variants /\ Fits(i)
             /\ \A k \in DOMAIN Variants :
                  Fits(k) => fit[k] < fit[i] \/ (fit[k] = fit[i] /\ i <= k)

\* "A resolved artifact the provider cannot consume is a resolution failure, not
\* something to discover at import time" (resolve.go:240-241), on either path; and
\* "VagrantProvider is set for KindVagrant" (resolve.go:63), without which Fetch
\* refuses the box.
ResolvedIsUsable ==
  Found => /\ answer.format \in host.formats
           /\ answer.kind = "vagrant" <=> answer.provider # ""
=============================================================================
