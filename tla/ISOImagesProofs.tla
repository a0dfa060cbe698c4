-------------------------- MODULE ISOImagesProofs --------------------------
(***************************************************************************)
(* Repacking adds arguments once, removes nothing that it has nothing to   *)
(* add to, and leaves the image that it reports, for any number of calls,  *)
(* images, lines and arguments.                                            *)
(***************************************************************************)
EXTENDS ISOImages, SequenceTheorems, WellFoundedInduction, TLAPS

Grub == Seq(Line)

\* The words of a follow the first p words of the line.
At(line, a, p) == \A k \in DOMAIN Words[a] : /\ p + k \in DOMAIN line.words
                                             /\ line.words[p + k] = Words[a][k]

\* What was added to a line and cannot be parted is on it.
Keeps(line) == \A a \in line.got : Unparted(a) => \E p \in 0 .. Len(line.words) : At(line, a, p)
AllKeep(lines) == \A i \in DOMAIN lines : Keeps(lines[i])

\* There is something to add.
Lacks(lines, a) == \E i \in DOMAIN lines : Kernel(lines[i]) /\ ~HasArg(lines[i], a)

\* Unless it was disturbed, what a call has read is what there is.
HasRead(c) == pc[c] = "check" => /\ job[c] \in Jobs /\ job[c].op = "repack"
                                 /\ c \notin disturbed => disc[job[c].src].grub = grub[c]

HasFound(c) == pc[c] = "remove" =>
                 /\ job[c] \in Jobs
                 /\ job[c].op = "repack" /\ c \notin disturbed =>
                      Lacks(disc[job[c].src].grub, job[c].arg)

Works(c) == pc[c] \notin {"idle", "done"} => job[c] \in Jobs

CallInv(c) == /\ Works(c) /\ HasRead(c) /\ HasFound(c)
              /\ AllKeep(grub[c])
              /\ image[c] # None => AllKeep(image[c].grub)

DiscsKeep == \A p \in Path : disc[p] # None => AllKeep(disc[p].grub)

IInv == TypeOK /\ DiscsKeep /\ \A c \in Call : CallInv(c)
-----------------------------------------------------------------------------
(* The lines.                                                              *)

LEMMA LineFacts ==
  ASSUME NEW line \in Line
  PROVE  /\ line.words \in Seq(Word) /\ Len(line.words) \in Nat
         /\ DOMAIN line.words = 1 .. Len(line.words) /\ line.got \in SUBSET Arg
  BY DEF Line

LEMMA ArgFacts ==
  ASSUME NEW a \in Arg
  PROVE  /\ Words[a] \in Seq(Word) /\ Len(Words[a]) \in Nat
         /\ DOMAIN Words[a] = 1 .. Len(Words[a])
  BY WordAssumption

\* Words are inserted into a line after its first i.
LEMMA Inserted ==
  ASSUME NEW w \in Seq(Word), NEW i \in 0 .. Len(w), NEW b \in Seq(Word)
  PROVE  LET u == SubSeq(w, 1, i) \o b \o SubSeq(w, i + 1, Len(w)) IN
         /\ u \in Seq(Word) /\ Len(u) = Len(w) + Len(b)
         /\ \A k \in 1 .. Len(w) + Len(b) :
              u[k] = IF k <= i THEN w[k] ELSE IF k <= i + Len(b) THEN b[k - i] ELSE w[k - Len(b)]
<1> DEFINE s == SubSeq(w, 1, i)
           t == SubSeq(w, i + 1, Len(w))
           n == Len(b)
<1>0. Len(w) \in Nat /\ i \in Nat /\ i <= Len(w) /\ n \in Nat
  OBVIOUS
<1>1. s \in Seq(Word) /\ Len(s) = i /\ \A k \in 1 .. i : s[k] = w[k]
  <2>1. \A k \in 1 .. i : w[k] \in Word
    BY <1>0
  <2> QED
    BY <1>0, <2>1
<1>2. t \in Seq(Word) /\ Len(t) = Len(w) - i
      /\ \A k \in 1 .. Len(w) - i : t[k] = w[i + k]
  <2>1. /\ t \in Seq(Word)
        /\ Len(t) = IF i + 1 <= Len(w) THEN Len(w) - (i + 1) + 1 ELSE 0
        /\ \A k \in 1 .. Len(w) - (i + 1) + 1 : t[k] = w[(i + 1) + k - 1]
    <3>1. i + 1 \in Int /\ Len(w) \in Int /\ \A k \in (i + 1) .. Len(w) : w[k] \in Word
      BY <1>0
    <3> QED
      BY <3>1, SubSeqProperties
  <2>2. Len(w) - (i + 1) + 1 = Len(w) - i
    BY <1>0
  <2>3. ASSUME NEW k \in 1 .. Len(w) - i PROVE t[k] = w[i + k]
    <3>1. (i + 1) + k - 1 = i + k
      BY <1>0
    <3> QED
      BY <2>1, <2>2, <3>1
  <2>4. Len(t) = Len(w) - i
    BY <1>0, <2>1
  <2> QED
    BY <2>1, <2>3, <2>4
<1> HIDE DEF s, t
<1>3. /\ s \o b \in Seq(Word) /\ Len(s \o b) = i + n
      /\ \A k \in 1 .. i + n : (s \o b)[k] = IF k <= i THEN w[k] ELSE b[k - i]
  <2>1. /\ s \o b \in Seq(Word) /\ Len(s \o b) = i + n
        /\ \A k \in 1 .. i + n : (s \o b)[k] = IF k <= i THEN s[k] ELSE b[k - i]
    BY <1>0, <1>1, ConcatProperties
  <2> QED
    BY <1>0, <1>1, <2>1
<1> DEFINE v == s \o b
<1> HIDE DEF v
<1>4. /\ v \o t \in Seq(Word) /\ Len(v \o t) = Len(w) + n
      /\ \A k \in 1 .. Len(w) + n : (v \o t)[k] = IF k <= i + n THEN v[k] ELSE t[k - (i + n)]
  <2>1. v \in Seq(Word) /\ Len(v) = i + n
    BY <1>3 DEF v
  <2>2. (i + n) + (Len(w) - i) = Len(w) + n /\ i + n \in Int
    BY <1>0
  <2>3. /\ v \o t \in Seq(Word) /\ Len(v \o t) = Len(v) + Len(t)
        /\ \A k \in 1 .. Len(v) + Len(t) :
             (v \o t)[k] = IF k <= Len(v) THEN v[k] ELSE t[k - Len(v)]
    BY <1>2, <2>1, ConcatProperties
  <2>4. Len(v) + Len(t) = Len(w) + n
    BY <1>2, <2>1, <2>2
  <2> QED
    BY <2>1, <2>3, <2>4
<1>5. ASSUME NEW k \in 1 .. Len(w) + n
      PROVE  (v \o t)[k] = IF k <= i THEN w[k] ELSE IF k <= i + n THEN b[k - i] ELSE w[k - n]
  <2>1. CASE k <= i + n
    <3>1. k \in 1 .. i + n /\ (k <= i => k <= i + n)
      BY <1>0, <2>1
    <3> QED
      BY <1>3, <1>4, <2>1, <3>1 DEF v
  <2>2. CASE ~(k <= i + n)
    <3>1. k - (i + n) \in 1 .. Len(w) - i /\ i + (k - (i + n)) = k - n /\ ~(k <= i)
      BY <1>0, <2>2
    <3> QED
      BY <1>2, <1>4, <2>2, <3>1
  <2> QED
    BY <2>1, <2>2
<1> QED
  BY <1>4, <1>5 DEF s, t, v

\* The last separator is the last.
LEMMA LastOf ==
  ASSUME NEW n \in Nat, NEW S \in SUBSET (1 .. n), S # {}
  PROVE  \E x \in S : \A y \in S : y <= x
<1> DEFINE R == {ss \in Nat \X Nat : ss[1] < ss[2]}
           T == {n - x : x \in S}
<1>1. IsWellFoundedOn(R, Nat)
  BY NatLessThanWellFounded, Zenon DEF OpToRel
<1>2. \A x \in S : x \in Nat /\ n - x \in Nat
  OBVIOUS
<1>3. T \subseteq Nat /\ T # {}
  BY <1>2
<1>4. PICK m \in T : \A k \in T : <<k, m>> \notin R
  BY <1>1, <1>3, WFMin
<1>5. PICK x \in S : m = n - x
  OBVIOUS
<1>6. ASSUME NEW y \in S PROVE y <= x
  <2>1. n - y \in T /\ n - y \in Nat /\ m \in Nat /\ x \in Nat /\ y \in Nat
    BY <1>2, <1>3
  <2>2. ~(n - y < m)
    BY <1>4, <2>1
  <2> QED
    BY <1>5, <2>1, <2>2
<1> QED
  BY <1>6

\* The arguments go before the last separator, or to the end.
LEMMA Placed ==
  ASSUME NEW line \in Line
  PROVE  /\ Place(line) \in 1 .. Len(line.words) + 1
         /\ \A n \in Separators(line) : n <= Place(line)
         /\ Place(line) \in DOMAIN line.words => line.words[Place(line)] = "---"
         /\ Separators(line) # {} => Place(line) \in Separators(line)
<1>1. Separators(line) \in SUBSET (1 .. Len(line.words))
  BY LineFacts DEF Separators
<1>2. CASE Separators(line) = {}
  <2>1. Place(line) = Len(line.words) + 1
    BY <1>2 DEF Place
  <2> QED
    BY <1>2, <2>1, LineFacts
<1>3. CASE Separators(line) # {}
  <2>1. \E i \in Separators(line) : \A k \in Separators(line) : k <= i
    BY <1>1, <1>3, LineFacts, LastOf
  <2>2. Place(line) = CHOOSE i \in Separators(line) : \A k \in Separators(line) : k <= i
    BY <1>3 DEF Place
  <2>3. Place(line) \in Separators(line) /\ \A k \in Separators(line) : k <= Place(line)
    BY <2>1, <2>2
  <2> QED
    BY <1>1, <2>3, LineFacts DEF Separators
<1> QED
  BY <1>2, <1>3

LEMMA ArgsInserted ==
  ASSUME NEW line \in Line, NEW a \in Arg
  PROVE  LET new == WithArg(line, a)
             i == Place(line) - 1
             n == Len(Words[a])
         IN  /\ new \in Line /\ i \in 0 .. Len(line.words) /\ new.got = line.got \cup {a}
             /\ new.words = SubSeq(line.words, 1, i) \o Words[a]
                              \o SubSeq(line.words, i + 1, Len(line.words))
             /\ Len(new.words) = Len(line.words) + n
             /\ \A k \in 1 .. Len(line.words) + n :
                  new.words[k] = IF k <= i THEN line.words[k]
                                 ELSE IF k <= i + n THEN Words[a][k - i] ELSE line.words[k - n]
<1> DEFINE i == Place(line) - 1
           u == SubSeq(line.words, 1, i) \o Words[a]
                  \o SubSeq(line.words, i + 1, Len(line.words))
<1>1. i \in 0 .. Len(line.words) /\ i + 1 = Place(line)
  BY Placed, LineFacts
<1>2. WithArg(line, a) = [words |-> u, got |-> line.got \cup {a}]
  BY <1>1 DEF WithArg
<1>3. /\ u \in Seq(Word) /\ Len(u) = Len(line.words) + Len(Words[a])
      /\ \A k \in 1 .. Len(line.words) + Len(Words[a]) :
           u[k] = IF k <= i THEN line.words[k]
                  ELSE IF k <= i + Len(Words[a]) THEN Words[a][k - i]
                  ELSE line.words[k - Len(Words[a])]
  BY <1>1, LineFacts, ArgFacts, Inserted
<1> HIDE DEF u
<1>4. WithArg(line, a) \in Line
  BY <1>2, <1>3, LineFacts DEF Line
<1>5. WithArg(line, a).words = u /\ WithArg(line, a).got = line.got \cup {a}
  BY <1>2
<1>6. u = SubSeq(line.words, 1, i) \o Words[a] \o SubSeq(line.words, i + 1, Len(line.words))
  BY DEF u
<1> HIDE DEF i
<1>7. /\ WithArg(line, a) \in Line /\ i \in 0 .. Len(line.words)
      /\ WithArg(line, a).got = line.got \cup {a}
      /\ WithArg(line, a).words = SubSeq(line.words, 1, i) \o Words[a]
                                    \o SubSeq(line.words, i + 1, Len(line.words))
      /\ Len(WithArg(line, a).words) = Len(line.words) + Len(Words[a])
      /\ \A k \in 1 .. Len(line.words) + Len(Words[a]) :
           WithArg(line, a).words[k] = IF k <= i THEN line.words[k]
                                       ELSE IF k <= i + Len(Words[a]) THEN Words[a][k - i]
                                       ELSE line.words[k - Len(Words[a])]
  BY <1>1, <1>3, <1>4, <1>5, <1>6
<1> QED
  BY <1>7 DEF i

\* What is on a line as it was added is found there.
LEMMA Present ==
  ASSUME NEW line, NEW a \in Arg, NEW p \in 0 .. Len(line.words), At(line, a, p)
  PROVE  HasArg(line, a)
  BY WordAssumption DEF At, HasArg

\* It stays together when something is inserted before the last separator.
LEMMA StaysTogether ==
  ASSUME NEW line \in Line, NEW a \in Arg, NEW b \in Arg, Unparted(b),
         NEW p \in 0 .. Len(line.words), At(line, b, p)
  PROVE  \E q \in 0 .. Len(WithArg(line, a).words) : At(WithArg(line, a), b, q)
<1> DEFINE new == WithArg(line, a)
           i == Place(line) - 1
           n == Len(Words[a])
<1>0. /\ i \in 0 .. Len(line.words) /\ Len(new.words) = Len(line.words) + n
      /\ \A k \in 1 .. Len(line.words) + n :
           new.words[k] = IF k <= i THEN line.words[k]
                          ELSE IF k <= i + n THEN Words[a][k - i] ELSE line.words[k - n]
      /\ new \in Line
  BY ArgsInserted
<1>1. /\ i \in 0 .. Len(line.words) /\ Len(new.words) = Len(line.words) + n
      /\ \A k \in 1 .. Len(line.words) + n :
           new.words[k] = IF k <= i THEN line.words[k]
                          ELSE IF k <= i + n THEN Words[a][k - i] ELSE line.words[k - n]
      /\ DOMAIN new.words = 1 .. Len(line.words) + n
  <2> HIDE DEF new, i
  <2> QED
    BY <1>0, LineFacts
<1>2. Len(line.words) \in Nat /\ n \in Nat /\ DOMAIN line.words = 1 .. Len(line.words)
      /\ Len(Words[b]) \in Nat /\ DOMAIN Words[b] = 1 .. Len(Words[b])
  BY LineFacts, ArgFacts
<1> HIDE DEF new, n
<1>3. CASE p >= i
  <2>1. p + n \in 0 .. Len(new.words)
    BY <1>1, <1>2
  <2>2. ASSUME NEW k \in DOMAIN Words[b]
        PROVE  (p + n) + k \in DOMAIN new.words /\ new.words[(p + n) + k] = Words[b][k]
    <3>1. p + k \in 1 .. Len(line.words) /\ line.words[p + k] = Words[b][k]
      BY <1>2 DEF At
    <3>2. /\ (p + n) + k \in 1 .. Len(line.words) + n
          /\ ~((p + n) + k <= i) /\ ~((p + n) + k <= i + n) /\ ((p + n) + k) - n = p + k
      BY <1>1, <1>2, <1>3, <3>1
    <3>3. new.words[(p + n) + k] = line.words[((p + n) + k) - n]
      BY <1>1, <3>2
    <3> QED
      BY <1>1, <3>1, <3>2, <3>3
  <2> QED
    BY <2>1, <2>2 DEF At, new
<1>4. CASE p < i
  <2>1. ASSUME NEW k \in DOMAIN Words[b], ~(p + k <= i) PROVE FALSE
    <3> DEFINE m == Place(line) - p
    <3>1. Place(line) \in Nat /\ m \in DOMAIN Words[b] /\ p + m = Place(line) /\ m # 1
      BY <1>1, <1>2, <1>4, <2>1, Placed
    <3>2. p + m \in DOMAIN line.words /\ line.words[p + m] = Words[b][m]
      BY <3>1 DEF At
    <3> HIDE DEF m
    <3>3. Words[b][m] = "---"
      BY <3>1, <3>2, Placed
    <3> QED
      BY <3>1, <3>3 DEF Unparted
  <2>2. p \in 0 .. Len(new.words)
    BY <1>1, <1>2
  <2>3. ASSUME NEW k \in DOMAIN Words[b]
        PROVE  p + k \in DOMAIN new.words /\ new.words[p + k] = Words[b][k]
    <3>1. p + k \in 1 .. Len(line.words) /\ line.words[p + k] = Words[b][k] /\ p + k <= i
      BY <1>2, <2>1 DEF At
    <3>2. p + k \in 1 .. Len(line.words) + n
      BY <1>2, <3>1
    <3> QED
      BY <1>1, <3>1, <3>2
  <2> QED
    BY <2>2, <2>3 DEF At, new
<1> QED
  BY <1>1, <1>3, <1>4

LEMMA LinePatched ==
  ASSUME NEW line \in Line, NEW a \in Arg, Keeps(line)
  PROVE  /\ PatchedLine(line, a) \in Line
         /\ Keeps(PatchedLine(line, a))
<1>1. CASE ~(Kernel(line) /\ ~HasArg(line, a))
  BY <1>1 DEF PatchedLine
<1>2. CASE Kernel(line) /\ ~HasArg(line, a)
  <2> DEFINE new == WithArg(line, a)
             i == Place(line) - 1
  <2>1. PatchedLine(line, a) = new
    BY <1>2 DEF PatchedLine
  <2>2. /\ new \in Line /\ new.got = line.got \cup {a}
        /\ i \in 0 .. Len(line.words) /\ Len(new.words) = Len(line.words) + Len(Words[a])
        /\ \A k \in 1 .. Len(line.words) + Len(Words[a]) :
             new.words[k] = IF k <= i THEN line.words[k]
                            ELSE IF k <= i + Len(Words[a]) THEN Words[a][k - i]
                            ELSE line.words[k - Len(Words[a])]
    BY ArgsInserted
  <2>3. ASSUME NEW b \in new.got, Unparted(b)
        PROVE  \E q \in 0 .. Len(new.words) : At(new, b, q)
    <3>1. CASE b \in line.got
      <4>1. b \in Arg
        BY <3>1, LineFacts
      <4>2. PICK p \in 0 .. Len(line.words) : At(line, b, p)
        BY <2>3, <3>1 DEF Keeps
      <4> QED
        BY <2>3, <4>1, <4>2, StaysTogether
    <3>2. CASE b = a
      <4> HIDE DEF new, i
      <4>1. /\ Len(line.words) \in Nat /\ DOMAIN new.words = 1 .. Len(new.words)
            /\ Len(Words[a]) \in Nat /\ DOMAIN Words[a] = 1 .. Len(Words[a])
            /\ Len(new.words) \in Nat
        BY <2>2, LineFacts, ArgFacts
      <4> DEFINE l == Len(line.words)
                 n == Len(Words[a])
                 m == Len(new.words)
      <4>2. l \in Nat /\ n \in Nat /\ i \in 0 .. l /\ m = l + n
        BY <2>2, <4>1
      <4> HIDE DEF l, n, m
      <4>3. i \in 0 .. m
        BY <4>2
      <4>4. ASSUME NEW k \in DOMAIN Words[a]
            PROVE  i + k \in DOMAIN new.words /\ new.words[i + k] = Words[a][k]
        <5>1. k \in 1 .. n
          BY <4>1 DEF n
        <5>2. /\ i + k \in 1 .. l + n
              /\ ~(i + k <= i) /\ i + k <= i + n /\ (i + k) - i = k
          BY <4>2, <5>1
        <5>3. new.words[i + k] = Words[a][(i + k) - i]
          BY <2>2, <5>2 DEF l, n
        <5> QED
          BY <4>1, <4>2, <5>2, <5>3 DEF m
      <4> QED
        BY <3>2, <4>3, <4>4 DEF At, m
    <3> QED
      BY <2>2, <3>1, <3>2
  <2> QED
    BY <2>1, <2>2, <2>3 DEF Keeps
<1> QED
  BY <1>1, <1>2

\* Arguments that were added to a line, and are not parted, are not added again.
LEMMA NotAgain ==
  ASSUME NEW line \in Line, NEW a \in Arg, Keeps(line), Unparted(a), PatchedLine(line, a) # line
  PROVE  a \notin line.got
<1>1. ~HasArg(line, a)
  BY DEF PatchedLine
<1> QED
  BY <1>1, Present DEF Keeps

LEMMA GrubAdded ==
  ASSUME NEW lines \in Grub, NEW a \in Arg
  PROVE  Adds(Patched(lines, a), lines, a)
<1> DEFINE new == Patched(lines, a)
<1>1. /\ DOMAIN lines = 1 .. Len(lines) /\ Len(lines) \in Nat
      /\ \A i \in 1 .. Len(lines) : lines[i] \in Line
  BY DEF Grub
<1>2. new = [i \in 1 .. Len(lines) |-> PatchedLine(lines[i], a)]
  BY <1>1 DEF Patched
<1> HIDE DEF new
<1>3. Len(new) = Len(lines)
  BY <1>1, <1>2
<1>4. ASSUME NEW i \in DOMAIN lines
      PROVE  IF Kernel(lines[i]) /\ ~HasArg(lines[i], a)
             THEN \E k \in 0 .. Len(lines[i].words) :
                    /\ new[i].words = SubSeq(lines[i].words, 1, k) \o Words[a]
                                         \o SubSeq(lines[i].words, k + 1, Len(lines[i].words))
                    /\ \A n \in Separators(lines[i]) :
                         k < n \/ \E m \in Separators(lines[i]) : n < m
             ELSE new[i] = lines[i]
  <2>1. new[i] = PatchedLine(lines[i], a) /\ lines[i] \in Line
    BY <1>1, <1>2
  <2>2. CASE Kernel(lines[i]) /\ ~HasArg(lines[i], a)
    <3> DEFINE k == Place(lines[i]) - 1
    <3>1. new[i] = WithArg(lines[i], a)
      BY <2>1, <2>2 DEF PatchedLine
    <3>2. /\ k \in 0 .. Len(lines[i].words)
          /\ new[i].words = SubSeq(lines[i].words, 1, k) \o Words[a]
                               \o SubSeq(lines[i].words, k + 1, Len(lines[i].words))
      BY <2>1, <3>1, ArgsInserted
    <3>3. ASSUME NEW n \in Separators(lines[i])
          PROVE  k < n \/ \E m \in Separators(lines[i]) : n < m
      <4>1. /\ n <= Place(lines[i]) /\ Place(lines[i]) \in Separators(lines[i])
            /\ Place(lines[i]) \in Nat /\ n \in Nat
        BY <2>1, Placed, LineFacts DEF Separators
      <4> QED
        BY <4>1
    <3> QED
      BY <2>2, <3>2, <3>3
  <2>3. CASE ~(Kernel(lines[i]) /\ ~HasArg(lines[i], a))
    BY <2>1, <2>3 DEF PatchedLine
  <2> QED
    BY <2>2, <2>3
<1> QED
  BY <1>3, <1>4 DEF Adds, new

LEMMA GrubPatched ==
  ASSUME NEW lines \in Grub, NEW a \in Arg, AllKeep(lines)
  PROVE  /\ Patched(lines, a) \in Grub
         /\ AllKeep(Patched(lines, a))
         /\ Patched(lines, a) # lines => Lacks(lines, a)
<1> DEFINE new == Patched(lines, a)
<1>1. /\ lines \in Seq(Line) /\ DOMAIN lines = 1 .. Len(lines) /\ Len(lines) \in Nat
      /\ \A i \in 1 .. Len(lines) : lines[i] \in Line
  BY DEF Grub
<1>2. new = [i \in 1 .. Len(lines) |-> PatchedLine(lines[i], a)]
  BY <1>1 DEF Patched
<1>3. \A i \in 1 .. Len(lines) : /\ PatchedLine(lines[i], a) \in Line
                                 /\ Keeps(PatchedLine(lines[i], a))
  BY <1>1, LinePatched DEF AllKeep
<1> HIDE DEF new
<1>4. new \in Seq(Line)
  BY <1>1, <1>2, <1>3
<1>5. AllKeep(new)
  BY <1>2, <1>3 DEF AllKeep
<1>6. ASSUME ~Lacks(lines, a) PROVE new = lines
  <2>1. \A i \in 1 .. Len(lines) : PatchedLine(lines[i], a) = lines[i]
    BY <1>1, <1>6 DEF Lacks, PatchedLine
  <2>2. lines = [i \in 1 .. Len(lines) |-> lines[i]]
    BY <1>1
  <2> QED
    BY <1>2, <2>1, <2>2
<1> QED
  BY <1>4, <1>5, <1>6 DEF new, Grub
-----------------------------------------------------------------------------
(* The calls.                                                              *)

LEMMA JobFacts ==
  ASSUME NEW j \in Jobs
  PROVE  /\ j.op \in {"repack", "make"} /\ j.dest \in Path /\ Written(j) \in Path
         /\ j.op = "repack" => j.src \in Path /\ j.arg \in Arg
<1>1. j.op \in {"repack", "make"} /\ j.dest \in Path
      /\ (j.op = "repack" => j.src \in Path /\ j.arg \in Arg)
  BY DEF Jobs
<1> QED
  BY <1>1, PathAssumption DEF Written

LEMMA NoLine == <<>> \in Grub /\ AllKeep(<<>>)
<1>1. DOMAIN <<>> = {}
  OBVIOUS
<1> QED
  BY <1>1, EmptySeq DEF Grub, AllKeep

Disc == Image \cup {None, Torn}

\* c changes images at most, and whoever uses them is disturbed.
DiscMoves(c) ==
  /\ disc' \in [Path -> Disc] /\ DiscsKeep' /\ disturbed' \subseteq Call
  /\ \A e \in Call \ {c} : /\ e \in disturbed => e \in disturbed'
                           /\ pc[e] \notin {"idle", "done"} /\ e \notin disturbed' =>
                                \A p \in Files(e) : disc'[p] = disc[p]

LEMMA NothingMoves ==
  ASSUME IInv, NEW c \in Call, disc' = disc, disturbed' \in {disturbed, disturbed \ {c}}
  PROVE  DiscMoves(c)
  BY DEF IInv, TypeOK, DiscMoves, DiscsKeep, Disc

LEMMA TouchMoves ==
  ASSUME IInv, NEW c \in Call, NEW p \in Path, Touch(c, p), NEW x \in Disc,
         disc' = [disc EXCEPT ![p] = x], x # None => AllKeep(x.grub)
  PROVE  DiscMoves(c)
<1>1. disc \in [Path -> Disc] /\ DiscsKeep /\ disturbed \subseteq Call
  BY DEF IInv, TypeOK, Disc
<1>2. disturbed' \subseteq Call
  BY <1>1 DEF Touch
<1>3. disc' \in [Path -> Disc] /\ DiscsKeep'
  BY <1>1 DEF DiscsKeep
<1>4. ASSUME NEW e \in Call \ {c}, pc[e] \notin {"idle", "done"}, e \notin disturbed',
             NEW q \in Files(e)
      PROVE  disc'[q] = disc[q]
  <2>1. p # q
    BY <1>4 DEF Touch
  <2> QED
    BY <1>1, <2>1
<1> QED
  BY <1>2, <1>3, <1>4 DEF DiscMoves, Touch

\* A call that does nothing keeps its invariant.
LEMMA OthersKeep ==
  ASSUME IInv, NEW c \in Call, DiscMoves(c), NEW e \in Call \ {c}, pc'[e] = pc[e],
         job'[e] = job[e], grub'[e] = grub[e], image'[e] = image[e]
  PROVE  CallInv(e)'
<1>1. CallInv(e)
  BY DEF IInv
<1>2. e \in disturbed => e \in disturbed'
  BY DEF DiscMoves
<1>3. pc[e] \notin {"idle", "done"} /\ job[e].op = "repack" /\ e \notin disturbed' =>
        disc'[job[e].src] = disc[job[e].src]
  BY DEF DiscMoves, Files
<1> QED
  BY <1>1, <1>2, <1>3 DEF CallInv, Works, HasRead, HasFound

CallTypes == /\ pc \in [Call -> {"idle", "start", "check", "remove", "open", "commit",
                                 "orphan", "done"}]
             /\ job \in [Call -> Jobs \cup {None}]
             /\ grub \in [Call -> Grub]
             /\ out \in [Call -> Path \cup {None}]
             /\ image \in [Call -> Image \cup {None}]
             /\ reply \in [Call -> {"ok", "failed", None}]
             /\ mixed \subseteq Call

LEMMA TypesOfCalls == IInv => CallTypes /\ disc \in [Path -> Disc] /\ DiscsKeep
  BY DEF IInv, TypeOK, CallTypes, Grub, Disc

LEMMA Together ==
  ASSUME IInv, NEW c \in Call, DiscMoves(c), backend' = backend, CallTypes', CallInv(c)',
         \A e \in Call \ {c} : /\ pc'[e] = pc[e] /\ job'[e] = job[e]
                               /\ grub'[e] = grub[e] /\ image'[e] = image[e]
  PROVE  IInv'
<1>1. \A e \in Call : CallInv(e)'
  BY OthersKeep
<1>2. TypeOK'
  BY DEF IInv, TypeOK, CallTypes, DiscMoves, Grub, Disc
<1> QED
  BY <1>1, <1>2 DEF IInv, DiscMoves

LEMMA BeginInv ==
  ASSUME IInv, NEW c \in Call, NEW j \in Jobs, Begin(c, j)
  PROVE  IInv'
<1>1. /\ pc' = [pc EXCEPT ![c] = "start"] /\ job' = [job EXCEPT ![c] = j]
      /\ UNCHANGED <<host, grub, out, image, reply, mixed, disturbed>>
  BY DEF Begin, GoTo
<1>2. CallTypes /\ CallInv(c)
  BY TypesOfCalls DEF IInv
<1>3. CallTypes'
  BY <1>1, <1>2 DEF CallTypes
<1>4. /\ pc'[c] = "start" /\ job'[c] = j /\ grub'[c] = grub[c] /\ image'[c] = image[c]
      /\ \A e \in Call \ {c} : /\ pc'[e] = pc[e] /\ job'[e] = job[e]
                               /\ grub'[e] = grub[e] /\ image'[e] = image[e]
  BY <1>1, <1>2 DEF CallTypes
<1>5. CallInv(c)'
  BY <1>2, <1>4 DEF CallInv, Works, HasRead, HasFound
<1>6. DiscMoves(c) /\ backend' = backend
  BY <1>1, NothingMoves DEF host
<1> QED
  BY <1>3, <1>4, <1>5, <1>6, Together

\* A call that is answered or over has no locals.
LEMMA LocalsGone ==
  ASSUME IInv, NEW c \in Call, DiscMoves(c), Locals(c), NEW at \in {"idle", "done"},
         pc' = [pc EXCEPT ![c] = at], job' \in {job, [job EXCEPT ![c] = None]},
         NEW answer \in {"ok", "failed", None}, reply' = [reply EXCEPT ![c] = answer],
         backend' = backend
  PROVE  IInv'
<1>1. /\ grub' = [grub EXCEPT ![c] = <<>>] /\ out' = [out EXCEPT ![c] = None]
      /\ image' = [image EXCEPT ![c] = None] /\ mixed' = mixed \ {c}
  BY DEF Locals
<1>2. CallTypes
  BY TypesOfCalls
<1>3. CallTypes'
  BY <1>1, <1>2, NoLine DEF CallTypes
<1>4. pc'[c] = at /\ grub'[c] = <<>> /\ image'[c] = None
  BY <1>1, <1>2 DEF CallTypes
<1>5. CallInv(c)'
  BY <1>4, NoLine DEF CallInv, Works, HasRead, HasFound
<1> QED
  BY <1>1, <1>2, <1>3, <1>5, Together DEF CallTypes

LEMMA ReturnInv ==
  ASSUME IInv, NEW c \in Call, NEW from, NEW answer \in {"ok", "failed"},
         Return(c, from, answer), DiscMoves(c)
  PROVE  IInv'
  BY LocalsGone DEF Return, GoTo

LEMMA OverInv ==
  ASSUME IInv, NEW c \in Call, Over(c), DiscMoves(c)
  PROVE  IInv'
  BY LocalsGone DEF Over

\* A call goes on, with other lines and another image.
LEMMA GoesOn ==
  ASSUME IInv, NEW c \in Call, NEW from, NEW to \in {"check", "remove", "open", "commit", "orphan"},
         from \notin {"idle", "done"}, GoTo(c, from, to), DiscMoves(c),
         NEW g \in Grub, grub' = [grub EXCEPT ![c] = g], AllKeep(g),
         NEW i \in Image \cup {None}, image' = [image EXCEPT ![c] = i], i # None => AllKeep(i.grub),
         out' \in [Call -> Path \cup {None}], mixed' \subseteq Call,
         UNCHANGED <<backend, job, reply>>,
         HasRead(c)', HasFound(c)'
  PROVE  IInv'
<1>1. CallTypes /\ CallInv(c)
  BY TypesOfCalls DEF IInv
<1>2. pc[c] = from /\ pc' = [pc EXCEPT ![c] = to]
  BY DEF GoTo
<1>3. CallTypes'
  BY <1>1, <1>2 DEF CallTypes
<1>4. /\ job'[c] = job[c] /\ grub'[c] = g /\ image'[c] = i
      /\ \A e \in Call \ {c} : /\ pc'[e] = pc[e] /\ job'[e] = job[e]
                               /\ grub'[e] = grub[e] /\ image'[e] = image[e]
  BY <1>1, <1>2 DEF CallTypes
<1>5. CallInv(c)'
  BY <1>1, <1>2, <1>4 DEF CallInv, Works
<1> QED
  BY <1>3, <1>4, <1>5, Together

\* A step of a call that leaves its lines and its image alone.
LEMMA GoesQuietly ==
  ASSUME IInv, NEW c \in Call, NEW from, NEW to \in {"check", "remove", "open", "commit", "orphan"},
         from \notin {"idle", "done"}, GoTo(c, from, to), DiscMoves(c),
         out' \in [Call -> Path \cup {None}],
         UNCHANGED <<backend, job, grub, image, reply, mixed>>,
         HasRead(c)', HasFound(c)'
  PROVE  IInv'
<1>1. CallTypes /\ CallInv(c)
  BY TypesOfCalls DEF IInv
<1>2. /\ grub[c] \in Grub /\ grub' = [grub EXCEPT ![c] = grub[c]]
      /\ image[c] \in Image \cup {None} /\ image' = [image EXCEPT ![c] = image[c]]
      /\ mixed' \subseteq Call
  BY <1>1 DEF CallTypes
<1> QED
  BY <1>1, <1>2, GoesOn DEF CallInv

LEMMA ExtractInv ==
  ASSUME IInv, NEW c \in Call, Extract(c)
  PROVE  IInv'
<1> DEFINE p == job[c].src
<1>1. /\ GoTo(c, "start", "check") /\ job[c].op = "repack" /\ Readable(p)
      /\ grub' = [grub EXCEPT ![c] = disc[p].grub]
      /\ UNCHANGED <<host, job, out, image, reply, mixed, disturbed>>
  BY DEF Extract
<1>2. CallTypes /\ disc \in [Path -> Disc] /\ DiscsKeep /\ CallInv(c)
  BY TypesOfCalls DEF IInv
<1>3. job[c] \in Jobs /\ p \in Path
  BY <1>1, <1>2, JobFacts DEF CallInv, Works, GoTo
<1>4. disc[p] \in Image /\ disc[p].grub \in Grub /\ AllKeep(disc[p].grub)
  BY <1>1, <1>2, <1>3 DEF Readable, Disc, Image, DiscsKeep, Grub
<1>5. DiscMoves(c)
  BY <1>1, NothingMoves DEF host
<1>6. pc'[c] = "check" /\ grub'[c] = disc[p].grub
  BY <1>1, <1>2 DEF GoTo, CallTypes
<1>7. HasRead(c)' /\ HasFound(c)'
  BY <1>1, <1>3, <1>6 DEF HasRead, HasFound, host
<1>8. /\ image[c] \in Image \cup {None} /\ image' = [image EXCEPT ![c] = image[c]]
      /\ image[c] # None => AllKeep(image[c].grub)
      /\ out' \in [Call -> Path \cup {None}] /\ mixed' \subseteq Call /\ backend' = backend
  BY <1>1, <1>2 DEF CallTypes, CallInv, host
<1> QED
  BY <1>1, <1>4, <1>5, <1>7, <1>8, GoesOn

LEMMA RewriteInv ==
  ASSUME IInv, NEW c \in Call, Rewrite(c)
  PROVE  IInv'
<1> DEFINE lines == Patched(grub[c], job[c].arg)
<1>1. /\ GoTo(c, "check", "remove") /\ lines # grub[c]
      /\ grub' = [grub EXCEPT ![c] = lines]
      /\ UNCHANGED <<host, job, out, image, reply, mixed, disturbed>>
  BY DEF Rewrite
<1>2. CallTypes /\ CallInv(c)
  BY TypesOfCalls DEF IInv
<1>3. /\ job[c] \in Jobs /\ job[c].op = "repack" /\ job[c].arg \in Arg
      /\ c \notin disturbed => disc[job[c].src].grub = grub[c]
  BY <1>1, <1>2, JobFacts DEF CallInv, HasRead, GoTo
<1>4. lines \in Grub /\ AllKeep(lines) /\ Lacks(grub[c], job[c].arg)
  BY <1>1, <1>2, <1>3, GrubPatched DEF CallTypes, CallInv
<1> HIDE DEF lines
<1>5. DiscMoves(c)
  BY <1>1, NothingMoves DEF host
<1>6. pc'[c] = "remove"
  BY <1>1, <1>2 DEF GoTo, CallTypes
<1>7. HasRead(c)' /\ HasFound(c)'
  BY <1>1, <1>3, <1>4, <1>6 DEF HasRead, HasFound, host
<1>8. /\ image[c] \in Image \cup {None} /\ image' = [image EXCEPT ![c] = image[c]]
      /\ image[c] # None => AllKeep(image[c].grub)
      /\ out' \in [Call -> Path \cup {None}] /\ mixed' \subseteq Call /\ backend' = backend
  BY <1>1, <1>2 DEF CallTypes, CallInv, host
<1> QED
  BY <1>1, <1>4, <1>5, <1>7, <1>8, GoesOn

LEMMA RemoveDestMoves ==
  ASSUME IInv, NEW c \in Call, RemoveDest(c)
  PROVE  DiscMoves(c) /\ job[c] \in Jobs /\ job[c].dest \in Path
<1> DEFINE p == job[c].dest
<1>1. /\ pc[c] = "remove" /\ disc' = [disc EXCEPT ![p] = None]
      /\ IF disc[p] = None THEN disturbed' = disturbed ELSE Touch(c, p)
  BY DEF RemoveDest, GoTo
<1>2. disc \in [Path -> Disc] /\ job[c] \in Jobs /\ p \in Path
  BY <1>1, TypesOfCalls, JobFacts DEF IInv, CallInv, Works
<1>3. CASE disc[p] = None
  <2>1. disc' = disc
    BY <1>1, <1>2, <1>3
  <2> QED
    BY <1>1, <1>2, <1>3, <2>1, NothingMoves
<1>4. CASE disc[p] # None
  BY <1>1, <1>2, <1>4, TouchMoves DEF Disc
<1> QED
  BY <1>2, <1>3, <1>4

LEMMA RemoveDestInv ==
  ASSUME IInv, NEW c \in Call, RemoveDest(c)
  PROVE  IInv'
<1>1. /\ GoTo(c, "remove", "open")
      /\ out' = [d \in Call |-> IF out[d] = job[c].dest THEN None ELSE out[d]]
      /\ UNCHANGED <<backend, job, grub, image, reply, mixed>>
  BY DEF RemoveDest
<1>2. CallTypes
  BY TypesOfCalls
<1>3. pc'[c] = "open"
  BY <1>1, <1>2 DEF GoTo, CallTypes
<1>4. HasRead(c)' /\ HasFound(c)'
  BY <1>3 DEF HasRead, HasFound
<1>5. out' \in [Call -> Path \cup {None}]
  BY <1>1, <1>2 DEF CallTypes
<1> QED
  BY <1>1, <1>4, <1>5, RemoveDestMoves, GoesQuietly

LEMMA OpenMoves ==
  ASSUME IInv, NEW c \in Call, Open(c)
  PROVE  DiscMoves(c) /\ job[c] \in Jobs /\ Written(job[c]) \in Path
<1>1. /\ pc[c] = "open" /\ Touch(c, Written(job[c]))
      /\ disc' = [disc EXCEPT ![Written(job[c])] = Torn]
  BY DEF Open, GoTo
<1>2. job[c] \in Jobs /\ Written(job[c]) \in Path
  BY <1>1, JobFacts DEF IInv, CallInv, Works
<1>3. Torn \in Disc /\ AllKeep(Torn.grub)
  BY NoLine DEF Disc, Torn
<1> QED
  BY <1>1, <1>2, <1>3, TouchMoves

LEMMA OpenInv ==
  ASSUME IInv, NEW c \in Call, Open(c)
  PROVE  IInv'
<1> DEFINE p == Written(job[c])
           i == Product(c)
<1>1. /\ GoTo(c, "open", "commit") /\ disc' = [disc EXCEPT ![p] = Torn] /\ Touch(c, p)
      /\ job[c].op = "repack" => Readable(job[c].src)
      /\ image' = [image EXCEPT ![c] = i] /\ grub' = [grub EXCEPT ![c] = <<>>]
      /\ out' = [out EXCEPT ![c] = p]
      /\ UNCHANGED <<backend, job, reply>>
  BY DEF Open
<1>2. CallTypes /\ disc \in [Path -> Disc] /\ CallInv(c)
  BY TypesOfCalls DEF IInv
<1>3. job[c] \in Jobs /\ p \in Path /\ DiscMoves(c)
  BY OpenMoves
<1>4. i \in Image /\ AllKeep(i.grub)
  <2>1. CASE job[c].op = "make"
    BY <2>1, NoLine DEF Product, Made, Image, Grub
  <2>2. CASE job[c].op = "repack"
    <3>1. disc[job[c].src] \in Image
      BY <1>1, <1>2, <1>3, <2>2, JobFacts DEF Readable, Disc
    <3>2. i = [from |-> disc[job[c].src].from, grub |-> grub[c]]
      BY <2>2 DEF Product
    <3>3. grub[c] \in Seq(Line) /\ disc[job[c].src].from \in {"installer", "made"}
      BY <1>2, <3>1 DEF CallTypes, Grub, Image
    <3> HIDE DEF i
    <3> QED
      BY <1>2, <3>2, <3>3 DEF Image, CallInv
  <2> QED
    BY <1>3, <2>1, <2>2, JobFacts
<1> HIDE DEF i, p
<1>5. pc'[c] = "commit"
  BY <1>1, <1>2 DEF GoTo, CallTypes
<1>6. HasRead(c)' /\ HasFound(c)'
  BY <1>5 DEF HasRead, HasFound
<1>7. out' \in [Call -> Path \cup {None}] /\ mixed' \subseteq Call
  BY <1>1, <1>2, <1>3 DEF CallTypes, Open
<1> QED
  BY <1>1, <1>3, <1>4, <1>6, <1>7, NoLine, GoesOn

\* Two commands that wrote into one file leave it torn, one leaves its image.
LEMMA CompleteMoves ==
  ASSUME IInv, NEW c \in Call, Complete(c)
  PROVE  DiscMoves(c)
<1>1. CallTypes /\ CallInv(c)
  BY TypesOfCalls DEF IInv
<1>2. CASE out[c] = None
  BY <1>2, NothingMoves DEF Complete
<1>3. CASE out[c] # None
  <2> DEFINE x == IF c \in mixed THEN Torn ELSE image[c]
  <2>1. out[c] \in Path /\ Touch(c, out[c]) /\ disc' = [disc EXCEPT ![out[c]] = x]
    BY <1>1, <1>3 DEF CallTypes, Complete
  <2>2. x \in Disc /\ (x # None => AllKeep(x.grub))
    BY <1>1, NoLine DEF CallTypes, CallInv, Disc, Torn
  <2> HIDE DEF x
  <2> QED
    BY <2>1, <2>2, TouchMoves
<1> QED
  BY <1>2, <1>3

LEMMA StepInv ==
  ASSUME IInv, NEW c \in Call, Step(c)
  PROVE  IInv'
<1>1. CASE Refuse(c) \/ NothingToPatch(c) \/ WriteFails(c)
  <2>1. DiscMoves(c)
    BY <1>1, NothingMoves DEF Refuse, NothingToPatch, WriteFails
  <2> QED
    BY <1>1, <2>1, ReturnInv DEF Refuse, NothingToPatch, WriteFails
<1>2. CASE Commit(c)
  BY <1>2, CompleteMoves, ReturnInv DEF Commit
<1>3. CASE Pack(c)
  <2>1. /\ GoTo(c, "start", "remove") /\ job[c].op = "make"
        /\ UNCHANGED <<host, job, grub, out, image, reply, mixed, disturbed>>
    BY <1>3 DEF Pack
  <2>2. CallTypes /\ CallInv(c)
    BY TypesOfCalls DEF IInv
  <2>3. pc'[c] = "remove" /\ job'[c] = job[c] /\ job[c] \in Jobs
    BY <2>1, <2>2 DEF GoTo, CallTypes, CallInv, Works
  <2>4. HasRead(c)' /\ HasFound(c)'
    BY <2>1, <2>3 DEF HasRead, HasFound
  <2>5. DiscMoves(c) /\ out' \in [Call -> Path \cup {None}] /\ backend' = backend
    BY <2>1, <2>2, NothingMoves DEF host, CallTypes
  <2> QED
    BY <2>1, <2>4, <2>5, GoesQuietly
<1> QED
  BY <1>1, <1>2, <1>3, ExtractInv, RewriteInv, RemoveDestInv, OpenInv DEF Step

LEMMA EndsInv ==
  ASSUME IInv, NEW c \in Call, TakeReply(c) \/ Kill(c) \/ OrphanEnds(c)
  PROVE  IInv'
<1>1. CASE TakeReply(c)
  BY <1>1, NothingMoves, OverInv DEF TakeReply
<1>2. CASE Kill(c)
  <2>1. CASE Over(c) /\ disturbed' = disturbed \ {c} /\ disc' = disc
    BY <2>1, NothingMoves, OverInv
  <2>2. CASE /\ GoTo(c, "commit", "orphan")
             /\ UNCHANGED <<host, job, grub, out, image, reply, mixed, disturbed>>
    <3>1. CallTypes
      BY TypesOfCalls
    <3>2. pc'[c] = "orphan"
      BY <2>2, <3>1 DEF GoTo, CallTypes
    <3>3. HasRead(c)' /\ HasFound(c)'
      BY <3>2 DEF HasRead, HasFound
    <3>4. DiscMoves(c) /\ out' \in [Call -> Path \cup {None}] /\ backend' = backend
      BY <2>2, <3>1, NothingMoves DEF host, CallTypes
    <3> QED
      BY <2>2, <3>3, <3>4, GoesQuietly
  <2> QED
    BY <1>2, <2>1, <2>2 DEF Kill
<1>3. CASE OrphanEnds(c)
  <2>1. Over(c) /\ DiscMoves(c)
    BY <1>3, CompleteMoves, NothingMoves DEF OrphanEnds
  <2> QED
    BY <2>1, OverInv
<1> QED
  BY <1>1, <1>2, <1>3

LEMMA InitInv == Init => IInv
<1> SUFFICES ASSUME Init PROVE IInv
  OBVIOUS
<1>1. Original \in Image /\ AllKeep(Original.grub)
  <2> DEFINE Read(i) == [words |-> Installer[i], got |-> {}]
             lines == [i \in DOMAIN Installer |-> Read(i)]
  <2>1. /\ Installer \in Seq(Seq(Word)) /\ DOMAIN Installer = 1 .. Len(Installer)
        /\ Len(Installer) \in Nat
        /\ \A i \in 1 .. Len(Installer) : Installer[i] \in Seq(Word)
    BY InstallerAssumption
  <2>2. lines = [i \in 1 .. Len(Installer) |-> Read(i)]
    BY <2>1
  <2>3. \A i \in 1 .. Len(Installer) : Read(i) \in Line /\ Read(i).got = {}
    BY <2>1 DEF Line
  <2> HIDE DEF lines, Read
  <2>4. lines \in Seq(Line)
    BY <2>1, <2>2, <2>3
  <2>5. AllKeep(lines)
    BY <2>2, <2>3 DEF AllKeep, Keeps
  <2> QED
    BY <2>4, <2>5 DEF Original, Image, lines, Read
<1>2. TypeOK
  BY <1>1, NoLine DEF Init, TypeOK, Grub
<1>3. DiscsKeep
  BY <1>1 DEF Init, DiscsKeep
<1>4. \A c \in Call : CallInv(c)
  BY NoLine DEF Init, CallInv, Works, HasRead, HasFound
<1> QED
  BY <1>2, <1>3, <1>4 DEF IInv

LEMMA NextInv == IInv /\ [Next]_vars => IInv'
<1> SUFFICES ASSUME IInv, [Next]_vars PROVE IInv'
  OBVIOUS
<1>1. CASE UNCHANGED vars
  BY <1>1 DEF vars, IInv, TypeOK, DiscsKeep, CallInv, Works, HasRead, HasFound
<1>2. CASE Next
  BY <1>2, BeginInv, StepInv, EndsInv DEF Next
<1> QED
  BY <1>1, <1>2

LEMMA Invariance == Spec => []IInv
  BY InitInv, NextInv, PTL DEF Spec
-----------------------------------------------------------------------------
(* What a call is about to write.                                          *)

\* The name of a file being written.
OutInv(c) == /\ out[c] # None => /\ Writing(c) /\ out[c] = Written(job[c])
                                 /\ disc[out[c]] # None
             /\ Writing(c) => image[c] \in Image
             /\ c \in mixed => Writing(c)

\* The lines of the source, patched.
Will(c) == Patched(disc[job[c].src].grub, job[c].arg)

\* Unless it was disturbed, a call is on its way to the image that it is to make.
Aim(c) == c \notin disturbed =>
  /\ pc[c] = "remove" /\ job[c].op = "repack" => grub[c] = Will(c)
  /\ pc[c] = "open" =>
       /\ disc[job[c].dest] = None
       /\ job[c].op = "repack" /\ job[c].src # job[c].dest => grub[c] = Will(c)
  /\ pc[c] = "commit" =>
       /\ out[c] = Written(job[c]) /\ c \notin mixed
       /\ IF job[c].op = "make" THEN image[c] = Made
          ELSE /\ job[c].src # job[c].dest
               /\ Readable(job[c].src)
               /\ image[c] = [from |-> disc[job[c].src].from, grub |-> Will(c)]

Aims == \A c \in Call : OutInv(c) /\ Aim(c)

\* What a step of c does to the others: who loses a file is disturbed.
OthersMove(c) == \A e \in Call \ {c} :
  /\ pc'[e] = pc[e] /\ job'[e] = job[e] /\ grub'[e] = grub[e] /\ image'[e] = image[e]
  /\ out'[e] \in {out[e], None}
  /\ out'[e] # None => disc'[out[e]] # None
  /\ e \in mixed' => e \in mixed \/ Writing(e)
  /\ e \notin disturbed' => out'[e] = out[e] /\ (e \in mixed' => e \in mixed)

LEMMA OthersAim ==
  ASSUME IInv, Aims, NEW c \in Call, DiscMoves(c), OthersMove(c), backend' = backend,
         NEW e \in Call \ {c}
  PROVE  OutInv(e)' /\ Aim(e)'
<1>1. /\ pc'[e] = pc[e] /\ job'[e] = job[e] /\ grub'[e] = grub[e] /\ image'[e] = image[e]
      /\ out'[e] \in {out[e], None}
      /\ out'[e] # None => disc'[out[e]] # None
      /\ e \in mixed' => e \in mixed \/ Writing(e)
      /\ e \notin disturbed' => out'[e] = out[e] /\ (e \in mixed' => e \in mixed)
  BY DEF OthersMove
<1>2. OutInv(e) /\ Aim(e)
  BY DEF Aims
<1>3. Written(job[e])' = Written(job[e]) /\ Writing(e)' = Writing(e)
  BY <1>1 DEF Written, Writing
<1>4. OutInv(e)'
  BY <1>1, <1>2, <1>3 DEF OutInv
<1>5. ASSUME e \notin disturbed', pc[e] \notin {"idle", "done"}
      PROVE  /\ e \notin disturbed
             /\ disc'[job[e].dest] = disc[job[e].dest]
             /\ job[e].op = "repack" => disc'[job[e].src] = disc[job[e].src]
  BY <1>5 DEF DiscMoves, Files
<1>6. pc[e] \notin {"idle", "done"} => job[e].op \in {"repack", "make"}
  BY JobFacts DEF IInv, CallInv, Works
<1>7. ASSUME e \notin disturbed' PROVE
        /\ pc'[e] = "remove" /\ job'[e].op = "repack" => grub'[e] = Will(e)'
        /\ pc'[e] = "open" =>
             /\ disc'[job'[e].dest] = None
             /\ job'[e].op = "repack" /\ job'[e].src # job'[e].dest => grub'[e] = Will(e)'
  BY <1>1, <1>2, <1>5, <1>7 DEF Aim, Will
<1>8. ASSUME e \notin disturbed', pc'[e] = "commit" PROVE
        /\ out'[e] = Written(job[e])' /\ e \notin mixed'
        /\ IF job'[e].op = "make" THEN image'[e] = Made
           ELSE /\ job'[e].src # job'[e].dest
                /\ Readable(job[e].src)'
                /\ image'[e] = [from |-> disc'[job'[e].src].from, grub |-> Will(e)']
  <2>1. pc[e] = "commit" /\ e \notin disturbed
    BY <1>1, <1>5, <1>8
  <2>2. out'[e] = Written(job[e])' /\ e \notin mixed'
    BY <1>1, <1>2, <1>3, <1>8, <2>1 DEF Aim
  <2>3. CASE job[e].op = "make"
    BY <1>1, <1>2, <2>1, <2>2, <2>3 DEF Aim
  <2>4. CASE job[e].op = "repack"
    <3>1. disc'[job'[e].src] = disc[job[e].src] /\ Will(e)' = Will(e)
      BY <1>1, <1>5, <1>8, <2>1, <2>4 DEF Will
    <3> QED
      BY <1>1, <1>2, <2>1, <2>2, <2>4, <3>1 DEF Aim, Readable
  <2> QED
    BY <1>6, <2>1, <2>3, <2>4
<1> QED
  BY <1>4, <1>7, <1>8 DEF Aim

\* A step of c does nothing to the locals of the others.
Alone(c) == \A e \in Call \ {c} :
  /\ pc'[e] = pc[e] /\ job'[e] = job[e] /\ grub'[e] = grub[e] /\ image'[e] = image[e]
  /\ out'[e] = out[e] /\ (e \in mixed' => e \in mixed)

LEMMA AimsTogether ==
  ASSUME IInv, Aims, NEW c \in Call, DiscMoves(c), OthersMove(c), backend' = backend,
         OutInv(c)', Aim(c)'
  PROVE  Aims'
  BY OthersAim DEF Aims

LEMMA QuietAims ==
  ASSUME IInv, Aims, NEW c \in Call, DiscMoves(c), Alone(c), backend' = backend, disc' = disc,
         OutInv(c)', Aim(c)'
  PROVE  Aims'
<1>1. OthersMove(c)
  BY DEF Alone, OthersMove, Aims, OutInv
<1> QED
  BY <1>1, AimsTogether

LEMMA BeginAims ==
  ASSUME IInv, Aims, NEW c \in Call, NEW j \in Jobs, Begin(c, j)
  PROVE  Aims'
<1>1. /\ pc[c] = "idle" /\ pc' = [pc EXCEPT ![c] = "start"] /\ job' = [job EXCEPT ![c] = j]
      /\ UNCHANGED <<host, grub, out, image, reply, mixed, disturbed>>
  BY DEF Begin, GoTo
<1>2. CallTypes /\ OutInv(c)
  BY TypesOfCalls DEF Aims
<1>3. DiscMoves(c) /\ disc' = disc /\ backend' = backend
  BY <1>1, NothingMoves DEF host
<1>4. Alone(c) /\ pc'[c] = "start" /\ out'[c] = out[c]
  BY <1>1, <1>2 DEF Alone, CallTypes
<1>5. out[c] = None /\ c \notin mixed
  BY <1>1, <1>2 DEF OutInv, Writing
<1>6. OutInv(c)' /\ Aim(c)'
  BY <1>1, <1>4, <1>5 DEF OutInv, Aim, Writing
<1> QED
  BY <1>3, <1>4, <1>6, QuietAims

\* A call that is answered or over writes nothing any more.
LEMMA GoneAims ==
  ASSUME IInv, Aims, NEW c \in Call, DiscMoves(c), Locals(c), NEW at \in {"idle", "done"},
         pc' = [pc EXCEPT ![c] = at], job' \in {job, [job EXCEPT ![c] = None]},
         backend' = backend, disc' = disc \/ Complete(c), Writing(c) \/ disc' = disc
  PROVE  Aims'
<1>1. /\ grub' = [grub EXCEPT ![c] = <<>>] /\ out' = [out EXCEPT ![c] = None]
      /\ image' = [image EXCEPT ![c] = None] /\ mixed' = mixed \ {c}
  BY DEF Locals
<1>2. CallTypes /\ disc \in [Path -> Disc] /\ \A e \in Call : OutInv(e)
  BY TypesOfCalls DEF Aims
<1>3. Alone(c) /\ pc'[c] = at /\ out'[c] = None /\ c \notin mixed'
  BY <1>1, <1>2 DEF Alone, CallTypes
<1>4. OutInv(c)' /\ Aim(c)'
  BY <1>3 DEF OutInv, Aim, Writing
<1>5. ASSUME NEW p \in Path, disc[p] # None PROVE disc'[p] # None
  <2>1. CASE disc' = disc
    BY <1>5, <2>1
  <2>2. CASE disc' # disc
    <3>1. /\ out[c] \in Path /\ image[c] \in Image
          /\ disc' = [disc EXCEPT ![out[c]] = IF c \in mixed THEN Torn ELSE image[c]]
      BY <1>2, <2>2 DEF Complete, CallTypes, OutInv
    <3> QED
      BY <1>2, <1>5, <3>1, NoneAssumption
  <2> QED
    BY <2>1, <2>2
<1>6. \A e \in Call : out[e] # None => out[e] \in Path /\ disc[out[e]] # None
  BY <1>2 DEF OutInv, CallTypes
<1>7. OthersMove(c)
  BY <1>3, <1>5, <1>6 DEF Alone, OthersMove
<1> QED
  BY <1>4, <1>7, AimsTogether

\* A call goes on before it writes anything, and leaves the images alone.
LEMMA GoesOnAims ==
  ASSUME IInv, Aims, NEW c \in Call, NEW from \in {"start", "check"}, NEW to \in {"check", "remove"},
         GoTo(c, from, to), NEW g, grub' = [grub EXCEPT ![c] = g],
         to = "remove" /\ job[c].op = "repack" /\ c \notin disturbed => g = Will(c),
         UNCHANGED <<host, job, out, image, reply, mixed, disturbed>>
  PROVE  Aims'
<1>1. CallTypes /\ OutInv(c)
  BY TypesOfCalls DEF Aims
<1>2. DiscMoves(c) /\ disc' = disc /\ backend' = backend
  BY NothingMoves DEF host
<1>3. Alone(c) /\ pc[c] = from /\ pc'[c] = to /\ grub'[c] = g
  BY <1>1 DEF Alone, CallTypes, GoTo
<1>4. out[c] = None /\ c \notin mixed
  BY <1>1, <1>3 DEF OutInv, Writing
<1>5. OutInv(c)' /\ Aim(c)'
  BY <1>2, <1>3, <1>4 DEF OutInv, Aim, Writing, Will
<1> QED
  BY <1>2, <1>3, <1>5, QuietAims

LEMMA RemoveDestAims ==
  ASSUME IInv, Aims, NEW c \in Call, RemoveDest(c)
  PROVE  Aims'
<1> DEFINE p == job[c].dest
<1>1. /\ pc[c] = "remove" /\ pc' = [pc EXCEPT ![c] = "open"] /\ disc' = [disc EXCEPT ![p] = None]
      /\ out' = [d \in Call |-> IF out[d] = p THEN None ELSE out[d]]
      /\ IF disc[p] = None THEN disturbed' = disturbed ELSE Touch(c, p)
      /\ UNCHANGED <<backend, job, grub, image, reply, mixed>>
  BY DEF RemoveDest, GoTo
<1>2. CallTypes /\ disc \in [Path -> Disc] /\ \A e \in Call : OutInv(e)
  BY TypesOfCalls DEF Aims
<1>3. DiscMoves(c) /\ job[c] \in Jobs /\ p \in Path
  BY RemoveDestMoves
<1>4. pc'[c] = "open" /\ out'[c] = None /\ c \notin mixed
  BY <1>1, <1>2 DEF CallTypes, OutInv, Writing
<1>5. OutInv(c)'
  BY <1>1, <1>4 DEF OutInv, Writing
<1>6. Aim(c)'
  <2> SUFFICES ASSUME c \notin disturbed'
               PROVE  /\ disc'[p] = None
                      /\ job[c].op = "repack" /\ job[c].src # p => grub[c] = Will(c)'
    BY <1>1, <1>4 DEF Aim
  <2>1. disc'[p] = None
    BY <1>1, <1>2, <1>3
  <2>2. c \notin disturbed
    BY <1>1 DEF Touch
  <2>3. ASSUME job[c].op = "repack", job[c].src # p PROVE grub[c] = Will(c)'
    <3>1. disc'[job[c].src] = disc[job[c].src] /\ grub[c] = Will(c)
      BY <1>1, <1>2, <1>3, <2>2, <2>3, JobFacts DEF Aims, Aim
    <3> QED
      BY <1>1, <3>1 DEF Will
  <2> QED
    BY <2>1, <2>3
<1>7. ASSUME NEW e \in Call \ {c}
      PROVE  /\ pc'[e] = pc[e] /\ job'[e] = job[e] /\ grub'[e] = grub[e] /\ image'[e] = image[e]
             /\ out'[e] \in {out[e], None}
             /\ out'[e] # None => disc'[out[e]] # None
             /\ e \in mixed' => e \in mixed
             /\ e \notin disturbed' => out'[e] = out[e]
  <2>1. /\ pc'[e] = pc[e] /\ job'[e] = job[e] /\ grub'[e] = grub[e] /\ image'[e] = image[e]
        /\ out'[e] = IF out[e] = p THEN None ELSE out[e]
        /\ e \in mixed' => e \in mixed
    BY <1>1, <1>2 DEF CallTypes
  <2>2. out'[e] # None => disc'[out[e]] # None
    BY <1>1, <1>2, <1>3, <2>1 DEF OutInv, CallTypes
  <2>3. ASSUME out[e] = p PROVE e \in disturbed'
    <3>1. Writing(e) /\ out[e] = Written(job[e]) /\ disc[p] # None
      BY <1>2, <1>3, <2>3, NoneAssumption DEF OutInv
    <3> QED
      BY <1>1, <2>3, <3>1 DEF Touch, Files, Writing
  <2> QED
    BY <2>1, <2>2, <2>3
<1>8. OthersMove(c)
  BY <1>7 DEF OthersMove
<1> QED
  BY <1>1, <1>3, <1>5, <1>6, <1>8, AimsTogether

LEMMA OpenAims ==
  ASSUME IInv, Aims, NEW c \in Call, Open(c)
  PROVE  Aims'
<1> DEFINE p == Written(job[c])
           j == job[c]
           writers == {d \in Call : Writing(d) /\ out[d] = p}
<1>1. /\ pc[c] = "open" /\ pc' = [pc EXCEPT ![c] = "commit"]
      /\ j.op = "repack" => Readable(j.src)
      /\ j.op = "repack" \/ backend = "hdiutil" => disc[p] = None
      /\ disc' = [disc EXCEPT ![p] = Torn]
      /\ image' = [image EXCEPT ![c] = Product(c)]
      /\ out' = [out EXCEPT ![c] = p] /\ grub' = [grub EXCEPT ![c] = <<>>]
      /\ mixed' = IF writers = {} THEN mixed ELSE mixed \cup writers \cup {c}
      /\ Touch(c, p)
      /\ UNCHANGED <<backend, job, reply>>
  BY DEF Open, GoTo
<1>2. CallTypes /\ disc \in [Path -> Disc] /\ \A e \in Call : OutInv(e)
  BY TypesOfCalls DEF Aims
<1>3. /\ DiscMoves(c) /\ j \in Jobs /\ p \in Path /\ j.op \in {"repack", "make"} /\ j.dest \in Path
      /\ j.op = "repack" => j.src \in Path /\ p = j.dest
  BY OpenMoves, JobFacts DEF Written
<1>4. /\ pc'[c] = "commit" /\ out'[c] = p /\ image'[c] = Product(c) /\ disc'[p] = Torn
      /\ Torn # None
  BY <1>1, <1>2, <1>3, NoneAssumption DEF CallTypes
<1>5. Writing(c)' /\ p = p'
  BY <1>1, <1>4 DEF Writing, Written
<1>6. Product(c) \in Image
  <2>1. CASE j.op = "make"
    BY <2>1, NoLine DEF Product, Made, Image, Grub
  <2>2. CASE j.op = "repack"
    <3>1. disc[j.src] \in Image /\ grub[c] \in Seq(Line)
      BY <1>1, <1>2, <1>3, <2>2 DEF Readable, Disc, CallTypes, Grub
    <3>2. disc[j.src].from \in {"installer", "made"}
      BY <3>1 DEF Image
    <3> QED
      BY <2>2, <3>1, <3>2 DEF Image, Product
  <2> QED
    BY <1>3, <2>1, <2>2
<1>7. OutInv(c)'
  BY <1>1, <1>4, <1>5, <1>6 DEF OutInv
<1>8. Aim(c)'
  <2> SUFFICES ASSUME c \notin disturbed'
               PROVE  /\ c \notin mixed'
                      /\ IF j.op = "make" THEN Product(c) = Made
                         ELSE /\ j.src # j.dest
                              /\ disc'[j.src] \notin {None, Torn}
                              /\ Product(c) = [from |-> disc'[j.src].from, grub |-> Will(c)']
    BY <1>1, <1>4, <1>5 DEF Aim, Readable
  <2>1. /\ c \notin disturbed /\ disc[j.dest] = None
        /\ j.op = "repack" /\ j.src # j.dest => grub[c] = Will(c)
    BY <1>1 DEF Touch, Aims, Aim
  <2>2. disc[p] = None
    BY <1>1, <1>3, <2>1 DEF Written
  <2>3. writers = {}
    BY <1>2, <1>3, <2>2, NoneAssumption DEF OutInv
  <2>4. c \notin mixed'
    BY <1>1, <1>2, <2>3 DEF OutInv, Writing
  <2>5. CASE j.op = "make"
    BY <2>4, <2>5 DEF Product
  <2>6. CASE j.op = "repack"
    <3>1. Readable(j.src) /\ j.src # j.dest
      BY <1>1, <2>1, <2>6 DEF Readable
    <3>2. disc'[j.src] = disc[j.src]
      BY <1>1, <1>2, <1>3, <2>6, <3>1
    <3>3. Will(c)' = Will(c)
      BY <1>1, <3>2 DEF Will
    <3> QED
      BY <2>1, <2>4, <2>6, <3>1, <3>2, <3>3 DEF Product, Readable
  <2> QED
    BY <1>3, <2>5, <2>6
<1>9. ASSUME NEW e \in Call \ {c}
      PROVE  /\ pc'[e] = pc[e] /\ job'[e] = job[e] /\ grub'[e] = grub[e] /\ image'[e] = image[e]
             /\ out'[e] \in {out[e], None}
             /\ out'[e] # None => disc'[out[e]] # None
             /\ e \in mixed' => e \in mixed \/ Writing(e)
             /\ e \notin disturbed' => out'[e] = out[e] /\ (e \in mixed' => e \in mixed)
  <2>1. /\ pc'[e] = pc[e] /\ job'[e] = job[e] /\ grub'[e] = grub[e] /\ image'[e] = image[e]
        /\ out'[e] = out[e]
        /\ e \in mixed' => e \in mixed \/ e \in writers
    BY <1>1, <1>2 DEF CallTypes
  <2>2. out'[e] # None => disc'[out[e]] # None
    BY <1>1, <1>2, <1>4, <2>1 DEF OutInv, CallTypes
  <2>3. ASSUME e \in writers PROVE e \in disturbed'
    <3>1. Writing(e) /\ out[e] = p /\ out[e] = Written(job[e])
      BY <1>2, <1>3, <2>3, NoneAssumption DEF OutInv
    <3> QED
      BY <1>1, <3>1 DEF Touch, Files, Writing
  <2> QED
    BY <2>1, <2>2, <2>3
<1>10. OthersMove(c)
  BY <1>9 DEF OthersMove
<1> QED
  BY <1>1, <1>3, <1>7, <1>8, <1>10, AimsTogether

LEMMA StepAims ==
  ASSUME IInv, Aims, NEW c \in Call, Step(c)
  PROVE  Aims'
<1>1. ASSUME NEW from, NEW answer, Return(c, from, answer), disc' = disc, disturbed' = disturbed
      PROVE  Aims'
  <2>1. DiscMoves(c)
    BY <1>1, NothingMoves
  <2>2. Locals(c) /\ pc' = [pc EXCEPT ![c] = "done"] /\ job' = job /\ backend' = backend
    BY <1>1 DEF Return, GoTo
  <2> QED
    BY <1>1, <2>1, <2>2, GoneAims
<1>2. CASE Refuse(c) \/ NothingToPatch(c) \/ WriteFails(c)
  BY <1>1, <1>2 DEF Refuse, NothingToPatch, WriteFails
<1>3. CASE Commit(c)
  <2>1. /\ Locals(c) /\ pc' = [pc EXCEPT ![c] = "done"] /\ job' = job /\ backend' = backend
        /\ Complete(c) /\ Writing(c)
    BY <1>3 DEF Commit, Return, GoTo, Writing
  <2> QED
    BY <2>1, CompleteMoves, GoneAims
<1>4. CASE Extract(c)
  BY <1>4, GoesOnAims DEF Extract
<1>5. CASE Rewrite(c)
  <2>1. c \notin disturbed => Patched(grub[c], job[c].arg) = Will(c)
    BY <1>5 DEF Rewrite, GoTo, IInv, CallInv, HasRead, Will
  <2> QED
    BY <1>5, <2>1, GoesOnAims DEF Rewrite
<1>6. CASE Pack(c)
  <2>1. grub' = [grub EXCEPT ![c] = grub[c]]
    BY <1>6, TypesOfCalls DEF Pack, CallTypes
  <2> QED
    BY <1>6, <2>1, GoesOnAims DEF Pack
<1> QED
  BY <1>2, <1>3, <1>4, <1>5, <1>6, RemoveDestAims, OpenAims DEF Step

LEMMA EndsAims ==
  ASSUME IInv, Aims, NEW c \in Call, TakeReply(c) \/ Kill(c) \/ OrphanEnds(c)
  PROVE  Aims'
<1>1. ASSUME Over(c), disturbed' \in {disturbed, disturbed \ {c}}, disc' = disc PROVE Aims'
  <2>1. /\ Locals(c) /\ pc' = [pc EXCEPT ![c] = "idle"] /\ job' = [job EXCEPT ![c] = None]
        /\ backend' = backend
    BY <1>1 DEF Over
  <2>2. DiscMoves(c)
    BY <1>1, NothingMoves
  <2> QED
    BY <1>1, <2>1, <2>2, GoneAims
<1>2. CASE OrphanEnds(c) /\ Complete(c)
  <2>1. /\ Locals(c) /\ pc' = [pc EXCEPT ![c] = "idle"] /\ job' = [job EXCEPT ![c] = None]
        /\ backend' = backend /\ Writing(c)
    BY <1>2 DEF OrphanEnds, Over, Writing
  <2> QED
    BY <1>2, <2>1, CompleteMoves, GoneAims
<1>3. CASE /\ GoTo(c, "commit", "orphan")
           /\ UNCHANGED <<host, job, grub, out, image, reply, mixed, disturbed>>
  <2>1. CallTypes /\ OutInv(c)
    BY TypesOfCalls DEF Aims
  <2>2. DiscMoves(c) /\ disc' = disc /\ backend' = backend
    BY <1>3, NothingMoves DEF host
  <2>3. Alone(c) /\ pc[c] = "commit" /\ pc'[c] = "orphan"
    BY <1>3, <2>1 DEF Alone, CallTypes, GoTo
  <2>4. OutInv(c)' /\ Aim(c)'
    BY <1>3, <2>1, <2>2, <2>3 DEF OutInv, Aim, Writing, Written
  <2> QED
    BY <2>2, <2>3, <2>4, QuietAims
<1> QED
  BY <1>1, <1>2, <1>3 DEF TakeReply, Kill, OrphanEnds

LEMMA InitAims == Init => Aims
  BY DEF Init, Aims, OutInv, Aim, Writing

LEMMA NextAims == IInv /\ Aims /\ [Next]_vars => Aims'
<1> SUFFICES ASSUME IInv, Aims, [Next]_vars PROVE Aims'
  OBVIOUS
<1>1. CASE UNCHANGED vars
  BY <1>1 DEF vars, host, Aims, OutInv, Aim, Writing, Written, Will, Readable
<1>2. CASE Next
  BY <1>2, BeginAims, StepAims, EndsAims DEF Next
<1> QED
  BY <1>1, <1>2

LEMMA AimsInvariance == Spec => [](IInv /\ Aims)
  BY InitInv, NextInv, InitAims, NextAims, PTL DEF Spec
-----------------------------------------------------------------------------
\* Images, lines and calls are always of their types.
THEOREM ISOTypeOK == Spec => []TypeOK
<1>1. IInv => TypeOK
  BY DEF IInv
<1> QED
  BY <1>1, Invariance, PTL

\* Only Rewrite goes from the check to the removal.
LEMMA Rewritten ==
  ASSUME IInv, [Next]_vars, NEW c \in Call, pc[c] = "check", pc'[c] = "remove"
  PROVE  Rewrite(c)
<1>1. pc' # pc /\ CallTypes
  BY TypesOfCalls
<1>2. PICK d \in Call : (\E j \in Jobs : Begin(d, j)) \/ Step(d) \/ TakeReply(d) \/ Kill(d)
                       \/ OrphanEnds(d)
  BY <1>1 DEF Next, vars
<1>3. ASSUME NEW from, NEW to, GoTo(d, from, to), from # "check" \/ to # "remove" PROVE FALSE
  BY <1>1, <1>3 DEF GoTo, CallTypes
<1>4. ~(\E j \in Jobs : Begin(d, j))
  BY <1>3 DEF Begin
<1>5. ~(TakeReply(d) \/ Kill(d) \/ OrphanEnds(d))
  <2>1. ~Over(d)
    BY <1>1 DEF Over, CallTypes
  <2> QED
    BY <1>3, <2>1 DEF TakeReply, Kill, OrphanEnds
<1>6. \A from, answer : ~Return(d, from, answer)
  BY <1>3 DEF Return
<1>7. Rewrite(d)
  BY <1>2, <1>3, <1>4, <1>5, <1>6
     DEF Step, Refuse, Extract, NothingToPatch, Pack, RemoveDest, Open, Commit, WriteFails
<1>8. d = c
  BY <1>1, <1>7 DEF Rewrite, GoTo, CallTypes
<1> QED
  BY <1>7, <1>8

\* Repacks are idempotent (repackiso.go:64): no line is given the same arguments twice,
\* however images are repacked from each other and with whatever other arguments.
THEOREM ArgsAddedOnce == Spec => AddedOnce
<1> DEFINE A == \A c \in Call :
                  pc[c] = "check" /\ pc'[c] = "remove" /\ Unparted(job[c].arg) =>
                    \A i \in DOMAIN grub[c] : grub'[c][i] # grub[c][i] =>
                                               job[c].arg \notin grub[c][i].got
<1>1. ASSUME IInv, [Next]_vars PROVE A
  <2> SUFFICES ASSUME NEW c \in Call, pc[c] = "check", pc'[c] = "remove", Unparted(job[c].arg),
                      NEW i \in DOMAIN grub[c], grub'[c][i] # grub[c][i]
               PROVE  job[c].arg \notin grub[c][i].got
    OBVIOUS
  <2>1. Rewrite(c)
    BY <1>1, Rewritten
  <2>2. grub[c] \in Grub /\ AllKeep(grub[c]) /\ job[c].arg \in Arg
    BY <1>1, TypesOfCalls, JobFacts DEF IInv, CallInv, HasRead, CallTypes
  <2>3. grub'[c] = Patched(grub[c], job[c].arg)
    BY <1>1, <2>1, TypesOfCalls DEF Rewrite, CallTypes
  <2>4. grub'[c][i] = PatchedLine(grub[c][i], job[c].arg)
    BY <2>3 DEF Patched
  <2>5. grub[c][i] \in Line /\ Keeps(grub[c][i])
    BY <2>2 DEF Grub, AllKeep
  <2> QED
    BY <2>2, <2>4, <2>5, NotAgain
<1>2. IInv /\ [Next]_vars => [A]_vars
  BY <1>1
<1>3. Spec => [][A]_vars
  BY <1>2, Invariance, PTL DEF Spec
<1> QED
  BY <1>3 DEF AddedOnce

\* The destination is removed (repackiso.go:79) only if the source has a line that
\* lacks the arguments, unless another call changed it meanwhile.
THEOREM DestinationKept == Spec => KeptIfNothingToAdd
<1>1. IInv => \A c \in Call \ disturbed :
        pc[c] = "remove" /\ pc'[c] = "open" /\ job[c].op = "repack" =>
          LET lines == disc[job[c].src].grub
          IN  \E i \in DOMAIN lines : Kernel(lines[i]) /\ ~HasArg(lines[i], job[c].arg)
  BY DEF IInv, CallInv, HasFound, Lacks
<1> QED
  BY <1>1, Invariance, PTL DEF KeptIfNothingToAdd

\* Only a command that completes its file is reported as a success.
LEMMA Reported ==
  ASSUME IInv, Aims, [Next]_vars, NEW c \in Call, reply'[c] = "ok", reply[c] = None
  PROVE  Commit(c)
<1>1. CallTypes /\ None \notin {"ok", "failed"}
  BY TypesOfCalls, NoneAssumption
<1>2. reply' # reply
  BY <1>1
<1>3. PICK d \in Call : (\E j \in Jobs : Begin(d, j)) \/ Step(d) \/ TakeReply(d) \/ Kill(d)
                       \/ OrphanEnds(d)
  BY <1>2 DEF Next, vars
<1>4. ~(\E j \in Jobs : Begin(d, j))
  BY <1>2 DEF Begin
<1>5. ~(TakeReply(d) \/ Kill(d) \/ OrphanEnds(d))
  <2>1. ASSUME Over(d) PROVE FALSE
    BY <1>1, <2>1 DEF Over, CallTypes
  <2> QED
    BY <1>2, <2>1 DEF TakeReply, Kill, OrphanEnds
<1>6. ~(Refuse(d) \/ NothingToPatch(d) \/ WriteFails(d))
  <2>1. ASSUME NEW from, Return(d, from, "failed") PROVE FALSE
    BY <1>1, <2>1 DEF Return, CallTypes
  <2> QED
    BY <2>1 DEF Refuse, NothingToPatch, WriteFails
<1>7. Commit(d)
  BY <1>2, <1>3, <1>4, <1>5, <1>6 DEF Step, Extract, Rewrite, Pack, RemoveDest, Open
<1>8. d = c
  BY <1>1, <1>7 DEF Commit, Return, CallTypes
<1> QED
  BY <1>7, <1>8

\* What a call that nobody disturbed reports (repackiso.go:92-93, vmware/ops.go:634, 650)
\* is at the path that it names: the source with the arguments, or what was packed.
THEOREM RepliesAreTrue == Spec => ReplyIsTrue
<1> DEFINE A == \A c \in Call :
                  reply'[c] = "ok" /\ reply[c] = None /\ c \notin disturbed =>
                    LET j == job[c] IN
                    IF j.op = "make" THEN disc'[Written(j)] = Made
                    ELSE /\ disc'[j.dest].from = disc[j.src].from
                         /\ Adds(disc'[j.dest].grub, disc[j.src].grub, j.arg)
<1>1. ASSUME IInv, Aims, [Next]_vars PROVE A
  <2> SUFFICES ASSUME NEW c \in Call, reply'[c] = "ok", reply[c] = None, c \notin disturbed
               PROVE  IF job[c].op = "make" THEN disc'[Written(job[c])] = Made
                      ELSE /\ disc'[job[c].dest].from = disc[job[c].src].from
                           /\ Adds(disc'[job[c].dest].grub, disc[job[c].src].grub, job[c].arg)
    OBVIOUS
  <2>1. pc[c] = "commit" /\ Complete(c)
    BY <1>1, Reported DEF Commit, Return, GoTo
  <2>2. /\ out[c] = Written(job[c]) /\ c \notin mixed
        /\ IF job[c].op = "make" THEN image[c] = Made
           ELSE /\ job[c].src # job[c].dest
                /\ Readable(job[c].src)
                /\ image[c] = [from |-> disc[job[c].src].from, grub |-> Will(c)]
    BY <1>1, <2>1 DEF Aims, Aim
  <2>3. disc \in [Path -> Disc] /\ job[c] \in Jobs /\ Written(job[c]) \in Path
    BY <1>1, <2>1, TypesOfCalls, JobFacts DEF IInv, CallInv, Works
  <2>4. disc'[Written(job[c])] = image[c]
    BY <2>1, <2>2, <2>3, NoneAssumption DEF Complete
  <2>5. CASE job[c].op = "make"
    BY <2>2, <2>4, <2>5
  <2>6. CASE job[c].op = "repack"
    <3>1. disc[job[c].src] \in Image /\ job[c].arg \in Arg /\ Written(job[c]) = job[c].dest
      BY <2>2, <2>3, <2>6, JobFacts DEF Readable, Disc, Written
    <3>2. disc[job[c].src].grub \in Grub
      BY <3>1 DEF Image, Grub
    <3>3. Adds(Will(c), disc[job[c].src].grub, job[c].arg)
      BY <3>1, <3>2, GrubAdded DEF Will
    <3> QED
      BY <2>2, <2>4, <2>6, <3>1, <3>3
  <2> QED
    BY <2>3, <2>5, <2>6, JobFacts
<1>2. IInv /\ Aims /\ [Next]_vars => [A]_vars
  BY <1>1
<1>3. Spec => [][A]_vars
  BY <1>2, AimsInvariance, PTL DEF Spec
<1> QED
  BY <1>3 DEF ReplyIsTrue
=============================================================================
