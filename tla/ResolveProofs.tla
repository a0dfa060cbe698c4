--------------------------- MODULE ResolveProofs ---------------------------
(***************************************************************************)
(* pick chooses the variant that fits best, for every catalog: whatever    *)
(* the maintained list grows to, of any length and in any order.           *)
(***************************************************************************)
EXTENDS Resolve, TLAPS

Classes == {"family", "arch", "any"}

\* k is the first of the variants of vs below n that pick's switch puts in class c.
FirstOf(vs, family, arch, c, k, n) ==
  IF k = 0 THEN \A j \in 1 .. n - 1 : Class(vs[j], family, arch) # c
  ELSE /\ k \in 1 .. n - 1 /\ Class(vs[k], family, arch) = c
       /\ \A j \in 1 .. k - 1 : Class(vs[j], family, arch) # c

\* What the loop has established of the variants it passed: none is exact, and
\* each pointer is to the first of its class.
Passed(vs, family, arch, found, n) ==
  /\ \A j \in 1 .. n - 1 : Class(vs[j], family, arch) # "exact"
  /\ \A c \in Classes : FirstOf(vs, family, arch, c, found[c], n)

\* Index k is the answer that the ladder promises.
BestOf(vs, family, arch, k) ==
  IF k = 0 THEN \A j \in 1 .. Len(vs) : ~Serves(vs[j], family, arch)
  ELSE /\ k \in 1 .. Len(vs) /\ Serves(vs[k], family, arch)
       /\ \A j \in 1 .. Len(vs) :
            Serves(vs[j], family, arch) =>
              Fit(vs[j]) < Fit(vs[k]) \/ (Fit(vs[j]) = Fit(vs[k]) /\ k <= j)

hostFamily == Family(host.kind)
hostArch == host.arch

TypeInv == /\ image \in Images
           /\ host \in Hosts
           /\ i \in Nat
           /\ best \in [Classes -> Nat]
           /\ pc \in {"idle", "pick", "picked", "done"}
           /\ pc \in {"pick", "picked"} => image \in DOMAIN Catalog

LoopInv == /\ pc = "idle" => i = 1 /\ best = [c \in Classes |-> 0]
           /\ pc = "pick" => /\ i \in 1 .. Len(Variants) + 1
                             /\ Passed(Variants, hostFamily, hostArch, best, i)
           /\ pc = "picked" => BestOf(Variants, hostFamily, hostArch, i)

IInv == TypeInv /\ LoopInv
-----------------------------------------------------------------------------
LEMMA VariantsType ==
  ASSUME image \in DOMAIN Catalog
  PROVE  Variants \in Seq(Variant)
  BY CatalogAssumption DEF Variants

LEMMA HostType ==
  ASSUME host \in Hosts
  PROVE  hostFamily \in Families /\ hostArch \in Arch
  BY DEF Hosts, hostFamily, hostArch, Family, Families

\* The switch of pick is the order of specificity: a variant serves the host when
\* some case takes it, and the cases fit less and less in the order of the code.
LEMMA ClassIsFit ==
  ASSUME NEW v \in Variant, NEW f \in Families, NEW a \in Arch
  PROVE  /\ Class(v, f, a) \in {"exact", "family", "arch", "any", "no"}
         /\ Serves(v, f, a) <=> Class(v, f, a) # "no"
         /\ Class(v, f, a) = "exact" => Fit(v) = 3
         /\ Class(v, f, a) = "family" => Fit(v) = 2
         /\ Class(v, f, a) = "arch" => Fit(v) = 1
         /\ Class(v, f, a) = "any" => Fit(v) = 0
  BY AnyAssumption DEF Class, Serves, Fit, Variant

\* The early return: nothing fits better than an exact variant, and none of those
\* passed is exact.
LEMMA ExactIsBest ==
  ASSUME NEW vs \in Seq(Variant), NEW f \in Families, NEW a \in Arch,
         NEW n \in 1 .. Len(vs), NEW found \in [Classes -> Nat],
         Passed(vs, f, a, found, n), Class(vs[n], f, a) = "exact"
  PROVE  BestOf(vs, f, a, n)
<1>1. \A j \in 1 .. Len(vs) : vs[j] \in Variant
  OBVIOUS
<1>2. Serves(vs[n], f, a) /\ Fit(vs[n]) = 3
  BY <1>1, ClassIsFit
<1>3. ASSUME NEW j \in 1 .. Len(vs), Serves(vs[j], f, a)
      PROVE  Fit(vs[j]) < 3 \/ (Fit(vs[j]) = 3 /\ n <= j)
  <2>1. CASE Class(vs[j], f, a) = "exact"
    <3>1. ~(j \in 1 .. n - 1)
      BY <2>1 DEF Passed
    <3> QED
      BY <1>1, <2>1, <3>1, ClassIsFit
  <2>2. CASE Class(vs[j], f, a) # "exact"
    <3>1. Class(vs[j], f, a) \in {"family", "arch", "any"}
      BY <1>1, <1>3, <2>2, ClassIsFit
    <3> QED
      BY <1>1, <3>1, ClassIsFit
  <2> QED
    BY <2>1, <2>2
<1> QED
  BY <1>2, <1>3 DEF BestOf

\* The end of the loop: the first of the highest class that is not empty.
LEMMA LadderIsBest ==
  ASSUME NEW vs \in Seq(Variant), NEW f \in Families, NEW a \in Arch,
         NEW found \in [Classes -> Nat], Passed(vs, f, a, found, Len(vs) + 1)
  PROVE  LET k == IF found["family"] # 0 THEN found["family"]
                  ELSE IF found["arch"] # 0 THEN found["arch"] ELSE found["any"]
         IN  BestOf(vs, f, a, k)
<1> DEFINE n == Len(vs)
           class == [j \in 1 .. n |-> Class(vs[j], f, a)]
           fit == [j \in 1 .. n |-> Fit(vs[j])]
<1>1. n \in Nat /\ \A j \in 1 .. n : vs[j] \in Variant
  OBVIOUS
<1>2. \A j \in 1 .. n : class[j] # "exact"
  BY <1>1 DEF Passed
<1>3. ASSUME NEW c \in Classes
      PROVE  IF found[c] = 0 THEN \A j \in 1 .. n : class[j] # c
             ELSE /\ found[c] \in 1 .. n /\ class[found[c]] = c
                  /\ \A j \in 1 .. n : class[j] = c => found[c] <= j
  <2>1. FirstOf(vs, f, a, c, found[c], n + 1)
    BY DEF Passed
  <2> QED
    BY <1>1, <2>1 DEF FirstOf
<1>4. \A j \in 1 .. n :
        /\ class[j] \in {"family", "arch", "any", "no"}
        /\ Serves(vs[j], f, a) <=> class[j] # "no"
        /\ class[j] = "family" => fit[j] = 2
        /\ class[j] = "arch" => fit[j] = 1
        /\ class[j] = "any" => fit[j] = 0
  BY <1>1, <1>2, ClassIsFit
<1>5. ASSUME NEW k \in Nat,
             IF k = 0 THEN \A j \in 1 .. n : class[j] = "no"
             ELSE /\ k \in 1 .. n /\ class[k] # "no"
                  /\ \A j \in 1 .. n :
                       class[j] # "no" => fit[j] < fit[k] \/ (fit[j] = fit[k] /\ k <= j)
      PROVE  BestOf(vs, f, a, k)
  BY <1>1, <1>4, <1>5 DEF BestOf
<1>6. \A c \in Classes : found[c] \in Nat
  OBVIOUS
<1> HIDE DEF class, fit, n
<1>7. CASE found["family"] # 0
  <2>1. BestOf(vs, f, a, found["family"])
    BY <1>3, <1>4, <1>5, <1>6, <1>7 DEF Classes
  <2> QED
    BY <1>7, <2>1
<1>8. CASE found["family"] = 0 /\ found["arch"] # 0
  <2>1. BestOf(vs, f, a, found["arch"])
    BY <1>3, <1>4, <1>5, <1>6, <1>8 DEF Classes
  <2> QED
    BY <1>8, <2>1
<1>9. CASE found["family"] = 0 /\ found["arch"] = 0
  <2>1. BestOf(vs, f, a, found["any"])
    BY <1>3, <1>4, <1>5, <1>6, <1>9 DEF Classes
  <2> QED
    BY <1>9, <2>1
<1> QED
  BY <1>7, <1>8, <1>9

\* One turn of the loop.
LEMMA TurnKeepsPassed ==
  ASSUME NEW vs \in Seq(Variant), NEW f \in Families, NEW a \in Arch,
         NEW n \in 1 .. Len(vs), NEW found \in [Classes -> Nat],
         Passed(vs, f, a, found, n), Class(vs[n], f, a) # "exact",
         NEW kept \in [Classes -> Nat],
         \A c \in Classes :
           kept[c] = IF c = Class(vs[n], f, a) /\ found[c] = 0 THEN n ELSE found[c]
  PROVE  Passed(vs, f, a, kept, n + 1)
<1>1. \A j \in 1 .. n : Class(vs[j], f, a) # "exact"
  BY DEF Passed
<1>2. ASSUME NEW c \in Classes PROVE FirstOf(vs, f, a, c, kept[c], n + 1)
  <2>1. FirstOf(vs, f, a, c, found[c], n)
    BY DEF Passed
  <2> QED
    BY <2>1 DEF FirstOf
<1> QED
  BY <1>1, <1>2 DEF Passed
-----------------------------------------------------------------------------
LEMMA InitInv == Init => IInv
  BY DEF Init, IInv, TypeInv, LoopInv, Hosts, Classes

LEMMA NextInv == IInv /\ [Next]_vars => IInv'
<1> SUFFICES ASSUME IInv, [Next]_vars PROVE IInv'
  OBVIOUS
<1> USE DEF IInv
<1>1. CASE ResolveBox
  BY <1>1 DEF ResolveBox, Resolved, TypeInv, LoopInv
<1>2. CASE UnknownImage
  BY <1>2 DEF UnknownImage, Fail, TypeInv, LoopInv
<1>3. CASE FindSource
  <2>1. TypeInv'
    BY <1>3 DEF FindSource, TypeInv
  <2>2. i = 1 /\ best = [c \in Classes |-> 0] /\ i' = i /\ best' = best /\ pc' = "pick"
        /\ Variants' = Variants /\ Len(Variants) \in Nat
    BY <1>3, VariantsType DEF FindSource, LoopInv, Variants
  <2>3. LoopInv'
    BY <2>2 DEF LoopInv, Passed, FirstOf
  <2> QED
    BY <2>1, <2>3
<1>4. CASE PickExact \/ PickNext \/ PickLadder
  <2>1. /\ pc = "pick" /\ image \in DOMAIN Catalog /\ host \in Hosts
        /\ best \in [Classes -> Nat]
        /\ Passed(Variants, hostFamily, hostArch, best, i) /\ i \in 1 .. Len(Variants) + 1
    BY <1>4 DEF PickExact, PickNext, PickLadder, TypeInv, LoopInv
  <2>2. Variants \in Seq(Variant) /\ hostFamily \in Families /\ hostArch \in Arch
    BY <2>1, VariantsType, HostType
  <2>3. Variants' = Variants /\ hostFamily' = hostFamily /\ hostArch' = hostArch
        /\ image' = image /\ host' = host
    BY <1>4 DEF PickExact, PickNext, PickLadder, Variants, hostFamily, hostArch
  <2>4. CASE PickExact
    <3>1. i \in 1 .. Len(Variants) /\ Class(Variants[i], hostFamily, hostArch) = "exact"
      BY <2>2, <2>4 DEF PickExact, ClassAt, hostFamily, hostArch
    <3>2. BestOf(Variants, hostFamily, hostArch, i)
      BY <2>1, <2>2, <3>1, ExactIsBest
    <3>3. pc' = "picked" /\ i' = i /\ best' = best
      BY <2>4 DEF PickExact
    <3> QED
      BY <2>1, <2>3, <3>2, <3>3 DEF TypeInv, LoopInv
  <2>5. CASE PickNext
    <3>1. i \in 1 .. Len(Variants) /\ Class(Variants[i], hostFamily, hostArch) # "exact"
      BY <2>2, <2>5 DEF PickNext, ClassAt, hostFamily, hostArch
    <3>2. Class(Variants[i], hostFamily, hostArch) \in Classes \cup {"no"}
      BY <2>2, <3>1, ClassIsFit DEF Classes
    <3>3. /\ best' \in [Classes -> Nat]
          /\ \A c \in Classes :
               best'[c] = IF c = Class(Variants[i], hostFamily, hostArch) /\ best[c] = 0
                          THEN i ELSE best[c]
      BY <2>1, <2>5, <3>1, <3>2 DEF PickNext, Keep, ClassAt, hostFamily, hostArch, Classes
    <3>4. Passed(Variants, hostFamily, hostArch, best', i + 1)
      BY <2>1, <2>2, <3>1, <3>3, TurnKeepsPassed
    <3>5. pc' = pc /\ i' = i + 1 /\ i' \in 1 .. Len(Variants) + 1 /\ i' \in Nat
      BY <2>2, <2>5, <3>1 DEF PickNext
    <3> QED
      BY <2>1, <2>3, <3>3, <3>4, <3>5 DEF TypeInv, LoopInv
  <2>6. CASE PickLadder
    <3>1. i = Len(Variants) + 1
      BY <2>1, <2>2, <2>6 DEF PickLadder
    <3>2. BestOf(Variants, hostFamily, hostArch, i')
      BY <2>1, <2>2, <2>6, <3>1, LadderIsBest DEF PickLadder
    <3>3. pc' = "picked" /\ best' = best /\ i' \in Nat
      BY <2>1, <2>6 DEF PickLadder, Classes
    <3> QED
      BY <2>1, <2>3, <3>2, <3>3 DEF TypeInv, LoopInv
  <2> QED
    BY <1>4, <2>4, <2>5, <2>6
<1>5. CASE NoVariant \/ Conclude
  BY <1>5 DEF NoVariant, Conclude, Resolved, Fail, TypeInv, LoopInv
<1>6. CASE UNCHANGED vars
  BY <1>6 DEF vars, Variants, hostFamily, hostArch, TypeInv, LoopInv
<1> QED
  BY <1>1, <1>2, <1>3, <1>4, <1>5, <1>6 DEF Next

\* "Selection prefers an exact (family, arch) match, then family-only, then
\* arch-only, then the unconstrained variant" (resolve.go:180-181), whatever the
\* catalog holds.
THEOREM BestVariantPicked == Spec => []PicksBestVariant
<1>1. IInv => PicksBestVariant
  <2> SUFFICES ASSUME IInv, pc = "picked" PROVE PicksBestVariant
    BY DEF PicksBestVariant
  <2>1. BestOf(Variants, hostFamily, hostArch, i) /\ DOMAIN Variants = 1 .. Len(Variants)
    BY VariantsType DEF IInv, TypeInv, LoopInv
  <2> QED
    BY <2>1 DEF PicksBestVariant, BestOf, hostFamily, hostArch
<1> QED
  BY InitInv, NextInv, <1>1, PTL DEF Spec
-----------------------------------------------------------------------------
\* The variant that Resolve concludes with is one of the catalog's.
LEMMA ChosenVariant ==
  ASSUME IInv, pc = "picked", i # 0
  PROVE  image \in DOMAIN Catalog /\ i \in DOMAIN Variants /\ Variants[i] \in Variant
<1>1. image \in DOMAIN Catalog /\ BestOf(Variants, hostFamily, hostArch, i)
  BY DEF IInv, TypeInv, LoopInv
<1>2. Variants \in Seq(Variant) /\ i \in 1 .. Len(Variants)
  BY <1>1, VariantsType DEF BestOf
<1> QED
  BY <1>1, <1>2

\* What a box is called on either side of the registry.
LEMMA BoxNames ==
  ASSUME NEW kind \in Kinds
  PROVE  /\ VagrantFormat(Family(kind)) \in Formats
         /\ VagrantProvider(kind) \in {"virtualbox", "vmware_desktop"}
         /\ \A ovftool \in BOOLEAN : VagrantFormat(Family(kind)) \in Accepted(kind, ovftool)
  BY DEF Kinds, VagrantFormat, VagrantProvider, Family, Formats, Accepted

\* The two forms of an answer.
LEMMA Refusal ==
  ASSUME NEW why \in {"none", "unknown image", "no variant", "not accepted"}
  PROVE  [why |-> why] \in Answers /\ "kind" \notin DOMAIN [why |-> why]
  BY DEF Answers

LEMMA Resolution ==
  ASSUME NEW channel \in Channels, NEW locator \in STRING, NEW format \in Formats,
         NEW provider \in {"virtualbox", "vmware_desktop", ""}
  PROVE  [kind |-> channel, locator |-> locator, format |-> format, provider |-> provider]
           \in Answers
  BY DEF Answers

AnswerType == answer \in Answers

LEMMA NextAnswerType == IInv /\ AnswerType /\ [Next]_vars => AnswerType'
<1> SUFFICES ASSUME IInv, AnswerType, [Next]_vars PROVE AnswerType'
  OBVIOUS
<1>0. host.kind \in Kinds
  BY DEF IInv, TypeInv, Hosts
<1>1. CASE ResolveBox
  <2>1. Boxes[image] \in STRING
    BY <1>1, NamesAssumption DEF ResolveBox
  <2> QED
    BY <1>0, <1>1, <2>1, BoxNames, Resolution DEF ResolveBox, Resolved, AnswerType, Channels
<1>2. CASE UnknownImage \/ NoVariant
  BY <1>2, Refusal DEF UnknownImage, NoVariant, Fail, AnswerType
<1>3. CASE FindSource \/ PickExact \/ PickNext \/ PickLadder \/ UNCHANGED vars
  BY <1>3 DEF FindSource, PickExact, PickNext, PickLadder, vars, AnswerType
<1>4. CASE Conclude
  <2>1. /\ Variants[i] \in Variant /\ Catalog[image].kind \in Channels
    BY <1>4, ChosenVariant, CatalogAssumption DEF Conclude
  <2>2. /\ Variants[i].kind # Any => Variants[i].kind \in Channels
        /\ Variants[i].locator \in STRING /\ Variants[i].format \in Formats
    BY <2>1 DEF Variant
  <2>3. CASE answer' = [why |-> "not accepted"]
    BY <2>3, Refusal DEF AnswerType
  <2>4. CASE \E channel \in Channels, format \in Formats,
                provider \in {"virtualbox", "vmware_desktop", ""} :
               answer' = [kind |-> channel, locator |-> Variants[i].locator,
                          format |-> format, provider |-> provider]
    BY <2>2, <2>4, Resolution DEF AnswerType
  <2> QED
    BY <1>0, <1>4, <2>1, <2>2, <2>3, <2>4, BoxNames DEF Conclude, Resolved, Fail
<1> QED
  BY <1>1, <1>2, <1>3, <1>4 DEF Next

\* Type correctness, for every catalog: in particular every answer names a way to
\* fetch, a format and a provider that there are.
THEOREM ResolveTypeOK == Spec => []TypeOK
<1>1. Init => AnswerType
  BY DEF Init, AnswerType, Answers, None
<1>2. IInv /\ AnswerType => TypeOK
  BY DEF IInv, TypeInv, AnswerType, TypeOK, Classes
<1> QED
  BY InitInv, NextInv, NextAnswerType, <1>1, <1>2, PTL DEF Spec
-----------------------------------------------------------------------------
\* No variant makes a box of what is none, or the other way round.
KeepsChannel == \A name \in DOMAIN Catalog :
                  \A k \in DOMAIN Catalog[name].variants :
                    LET kind == Catalog[name].variants[k].kind
                    IN  kind # Any => (kind = "vagrant" <=> Catalog[name].kind = "vagrant")

UsableInv == /\ host.formats \in {Accepted(host.kind, ovftool) : ovftool \in BOOLEAN}
             /\ ResolvedIsUsable

LEMMA NextUsable ==
  ASSUME KeepsChannel, IInv, UsableInv, [Next]_vars
  PROVE  UsableInv'
<1>0. host.kind \in Kinds /\ host' = host
  BY DEF IInv, TypeInv, Hosts, Next, vars, ResolveBox, UnknownImage, FindSource, PickExact,
         PickNext, PickLadder, NoVariant, Conclude
<1>1. (host.formats \in {Accepted(host.kind, ovftool) : ovftool \in BOOLEAN})'
  BY <1>0 DEF UsableInv
<1>2. ResolvedIsUsable'
  <2>1. CASE ResolveBox
    <3>1. VagrantFormat(Family(host.kind)) \in host.formats
      BY <1>0, BoxNames DEF UsableInv
    <3>2. VagrantProvider(host.kind) # ""
      BY <1>0, BoxNames
    <3> QED
      BY <1>0, <2>1, <3>1, <3>2 DEF ResolveBox, Resolved, ResolvedIsUsable, Found
  <2>2. CASE UnknownImage \/ NoVariant
    <3>1. answer' = [why |-> "unknown image"] \/ answer' = [why |-> "no variant"]
      BY <2>2 DEF UnknownImage, NoVariant, Fail
    <3>2. ~Found'
      BY <3>1, Refusal DEF Found
    <3> QED
      BY <3>2 DEF ResolvedIsUsable
  <2>3. CASE FindSource \/ PickExact \/ PickNext \/ PickLadder \/ UNCHANGED vars
    BY <1>0, <2>3 DEF FindSource, PickExact, PickNext, PickLadder, vars, UsableInv,
                      ResolvedIsUsable, Found
  <2>4. CASE Conclude
    <3> DEFINE v == Variants[i]
               source == Catalog[image].kind
               channel == IF v.kind # Any THEN v.kind ELSE source
               format == IF source = "vagrant" THEN VagrantFormat(Family(host.kind)) ELSE v.format
               provider == IF source = "vagrant" THEN VagrantProvider(host.kind) ELSE ""
    <3>1. channel = "vagrant" <=> source = "vagrant"
      BY <2>4, ChosenVariant DEF KeepsChannel, Conclude, Variants
    <3>2. provider # "" <=> source = "vagrant"
      BY <1>0, BoxNames
    <3>3. \/ answer' = [why |-> "not accepted"]
          \/ /\ format \in host.formats
             /\ answer' = [kind |-> channel, locator |-> v.locator, format |-> format,
                           provider |-> provider]
      BY <2>4 DEF Conclude, Resolved, Fail, Accepts
    <3> HIDE DEF v, source, channel, format, provider
    <3>4. CASE answer' = [why |-> "not accepted"]
      BY <3>4, Refusal DEF ResolvedIsUsable, Found
    <3>5. CASE /\ format \in host.formats
               /\ answer' = [kind |-> channel, locator |-> v.locator, format |-> format,
                             provider |-> provider]
      <4>1. answer'.format = format /\ answer'.kind = channel /\ answer'.provider = provider
        BY <3>5
      <4> QED
        BY <1>0, <3>1, <3>2, <3>5, <4>1 DEF ResolvedIsUsable
    <3> QED
      BY <3>3, <3>4, <3>5
  <2> QED
    BY <2>1, <2>2, <2>3, <2>4 DEF Next
<1> QED
  BY <1>1, <1>2 DEF UsableInv

\* "A resolved artifact the provider cannot consume is a resolution failure"
\* (resolve.go:240-241), on either path, and a box comes with the provider to ask
\* for, for every catalog in which no variant makes a box of what is none.
THEOREM ResolvedArtifactIsUsable ==
  ASSUME KeepsChannel
  PROVE  Spec => []ResolvedIsUsable
<1>1. Init => UsableInv
  BY DEF Init, UsableInv, ResolvedIsUsable, Found, None
<1>2. IInv /\ UsableInv /\ [Next]_vars => UsableInv'
  BY NextUsable
<1>3. UsableInv => ResolvedIsUsable
  BY DEF UsableInv
<1> QED
  BY InitInv, NextInv, <1>1, <1>2, <1>3, PTL DEF Spec
=============================================================================
