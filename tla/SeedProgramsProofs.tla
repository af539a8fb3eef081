------------------------- MODULE SeedProgramsProofs -------------------------
(***************************************************************************)
(* Proofs about the seeds, for machine words of any width, bodies of any   *)
(* length and any limit on calls that the machine's assumption allows.     *)
(*                                                                         *)
(* Three things can be said of a text before it runs, each with an         *)
(* invariant of the run:                                                   *)
(*   Certified  every line has a level; lines follow, jumps land and calls *)
(*              go one level deeper, and no line can fault (CertifiedInv); *)
(*   Traced     the registers are known line by line, up to an exit or to  *)
(*              a line that gets stuck (TracedInv);                        *)
(*   Trapped    a set of lines and dead slots cannot be left (TrappedInv). *)
(* The seeds that are to run are certified, but for the cases of PQR,      *)
(* which are traced; those that are to fail are trapped or get stuck, but  *)
(* for one (CallsBack) with an invariant of its own.                       *)
(***************************************************************************)
EXTENDS SeedPrograms, WellFoundedInduction, TLAPS

-----------------------------------------------------------------------------
(* Where the lines of a text begin.                                        *)

(* A non-empty set of numbers has a least element.                         *)
LEMMA Least ==
  ASSUME NEW S \in SUBSET Nat, S # {}
  PROVE  \E n \in S : \A m \in S : n <= m
<1>1. IsWellFoundedOn(OpToRel(<, Nat), Nat)
  BY NatLessThanWellFounded
<1>2. PICK n \in S : \A m \in S : ~ (<<m, n>> \in OpToRel(<, Nat))
  BY <1>1, WFMin
<1>3. ASSUME NEW m \in S, m < n PROVE FALSE
  <2>1. <<m, n>> \in {ss \in Nat \X Nat : ss[1] < ss[2]}
    BY <1>3
  <2>2. <<m, n>> \in OpToRel(<, Nat)
    BY <2>1 DEF OpToRel
  <2>3. QED
    BY <1>2, <2>2
<1>4. QED
  BY <1>3

(* There is a function of the recursion of FlattenSeq.                     *)
LEMMA FlattensExists ==
  ASSUME NEW ss
  PROVE  \A n \in Nat : \E f : f = [i \in 1 .. n |-> IF i = 1 THEN ss[i] ELSE f[i - 1] \o ss[i]]
<1> DEFINE G(f, i) == IF i = 1 THEN ss[i] ELSE f[i - 1] \o ss[i]
<1> DEFINE P(n) == \E f : f = [i \in 1 .. n |-> G(f, i)]
<1> DEFINE S == {n \in Nat : ~ P(n)}
<1>1. SUFFICES ASSUME S # {} PROVE FALSE
  OBVIOUS
<1>2. PICK n \in S : \A m \in S : n <= m
  BY <1>1, Least
<1>3. P(0)
  <2>1. [i \in 1 .. 0 |-> G(<<>>, i)] = [i \in 1 .. 0 |-> G([i_1 \in 1 .. 0 |-> G(<<>>, i_1)], i)]
    OBVIOUS
  <2>2. QED
    BY <2>1
<1>4. n # 0 /\ n \in Nat
  BY <1>3
<1>5. P(n - 1)
  <2>1. n - 1 \in Nat /\ ~ (n <= n - 1)
    BY <1>4
  <2>2. n - 1 \notin S
    BY <1>2, <2>1
  <2> HIDE DEF P
  <2>3. QED
    BY <2>1, <2>2
<1>6. PICK g : g = [i \in 1 .. n - 1 |-> G(g, i)]
  BY <1>5
<1>7. DEFINE f == [i \in 1 .. n |-> IF i = n THEN G(g, n) ELSE g[i]]
<1>8. f = [i \in 1 .. n |-> G(f, i)]
  <2>1. ASSUME NEW i \in 1 .. n PROVE f[i] = G(f, i)
    <3>1. CASE i = n /\ n = 1
      BY <3>1
    <3>2. CASE i = n /\ n # 1
      <4>1. f[n - 1] = g[n - 1]
        BY <1>4, <3>2
      <4>2. QED
        BY <3>2, <4>1
    <3>3. CASE i # n /\ i = 1
      <4>1. i \in 1 .. n - 1
        BY <1>4, <3>3
      <4>2. g[i] = G(g, i)
        BY <1>6, <4>1
      <4>3. QED
        BY <3>3, <4>2
    <3>4. CASE i # n /\ i # 1
      <4>1. i \in 1 .. n - 1 /\ i - 1 \in 1 .. n /\ i - 1 # n
        BY <1>4, <3>4
      <4>2. g[i] = G(g, i)
        BY <1>6, <4>1
      <4>3. f[i - 1] = g[i - 1] /\ f[i] = g[i]
        BY <4>1, <3>4
      <4>4. QED
        BY <3>4, <4>2, <4>3
    <3>5. QED
      BY <3>1, <3>2, <3>3, <3>4
  <2>2. QED
    BY <2>1
<1>9. P(n)
  BY <1>8
<1>10. QED
  BY <1>9

(* The prefixes of FlattenSeq.                                             *)
LEMMA Flattened ==
  ASSUME NEW X, NEW ss \in Seq(Seq(X)), Len(ss) # 0
  PROVE  \E f : /\ FlattenSeq(ss) = f[Len(ss)]
                /\ f[1] = ss[1]
                /\ \A i \in 2 .. Len(ss) : f[i] = f[i - 1] \o ss[i]
                /\ \A i \in 1 .. Len(ss) : f[i] \in Seq(X)
<1> DEFINE n == Len(ss)
<1> DEFINE R(f) == f = [i \in 1 .. n |-> IF i = 1 THEN ss[i] ELSE f[i - 1] \o ss[i]]
<1> DEFINE f == CHOOSE f : R(f)
<1>0. n \in Nat /\ n >= 1 /\ \A i \in 1 .. n : ss[i] \in Seq(X)
  OBVIOUS
<1>1. \E g : R(g)
  BY <1>0, FlattensExists
<1>2. R(f)
  <2> HIDE DEF R
  <2>1. QED
    BY <1>1
<1>3. FlattenSeq(ss) = f[n]
  BY DEF FlattenSeq
<1> HIDE DEF f, n
<1>4. f[1] = ss[1] /\ \A i \in 2 .. n : f[i] = f[i - 1] \o ss[i]
  <2>1. 1 \in 1 .. n
    BY <1>0
  <2>2. ASSUME NEW i \in 2 .. n PROVE i \in 1 .. n /\ i # 1
    BY <1>0
  <2>3. \A i \in 1 .. n : f[i] = IF i = 1 THEN ss[i] ELSE f[i - 1] \o ss[i]
    BY <1>2
  <2>4. QED
    BY <2>1, <2>2, <2>3
<1> HIDE DEF R
<1> DEFINE S == {i \in Nat : i \in 1 .. n /\ f[i] \notin Seq(X)}
<1>5. S = {}
  <2>1. SUFFICES ASSUME S # {} PROVE FALSE
    OBVIOUS
  <2>2. PICK i \in S : \A m \in S : i <= m
    BY <2>1, Least
  <2>3. i # 1
    BY <1>0, <1>4
  <2>4. i - 1 \in Nat /\ i - 1 \in 1 .. n /\ ~ (i <= i - 1) /\ i \in 2 .. n
    BY <1>0, <2>3
  <2>5. i - 1 \notin S
    BY <2>2, <2>4
  <2>6. f[i - 1] \in Seq(X)
    BY <2>4, <2>5
  <2>7. f[i] = f[i - 1] \o ss[i] /\ ss[i] \in Seq(X)
    BY <1>0, <1>4, <2>4
  <2>8. f[i] \in Seq(X)
    BY <2>6, <2>7
  <2>9. QED
    BY <2>8
<1>6. \A i \in 1 .. n : f[i] \in Seq(X)
  BY <1>0, <1>5
<1>7. QED
  BY <1>3, <1>4, <1>6 DEF n

(* st says where the sequences of ss begin when they stand one after the   *)
(* other, counted from 0.                                                  *)
Sums(ss, st) ==
  /\ st \in [1 .. Len(ss) + 1 -> Nat]
  /\ st[1] = 0
  /\ \A l \in 1 .. Len(ss) : st[l + 1] = st[l] + Len(ss[l])

(* There are such sums for every sequence of sequences.                    *)
LEMMA SumsExist ==
  ASSUME NEW X, NEW ss \in Seq(Seq(X))
  PROVE  \E st : Sums(ss, st)
<1>1. CASE Len(ss) = 0
  <2> DEFINE st == [i \in 1 .. Len(ss) + 1 |-> 0]
  <2>1. Sums(ss, st)
    BY <1>1 DEF Sums
  <2>2. QED
    BY <2>1
<1>0. \A i \in 1 .. Len(ss) : ss[i] \in Seq(X)
  OBVIOUS
<1>2. CASE Len(ss) # 0
  <2>1. PICK f : /\ f[1] = ss[1]
                 /\ \A i \in 2 .. Len(ss) : f[i] = f[i - 1] \o ss[i]
                 /\ \A i \in 1 .. Len(ss) : f[i] \in Seq(X)
    BY <1>2, Flattened
  <2> DEFINE st == [l \in 1 .. Len(ss) + 1 |-> IF l = 1 THEN 0 ELSE Len(f[l - 1])]
  <2>2. st \in [1 .. Len(ss) + 1 -> Nat] /\ st[1] = 0
    <3>1. ASSUME NEW l \in 1 .. Len(ss) + 1, l # 1 PROVE Len(f[l - 1]) \in Nat
      <4>1. l - 1 \in 1 .. Len(ss)
        BY <3>1
      <4>2. QED
        BY <2>1, <4>1
    <3>2. QED
      BY <3>1
  <2>3. ASSUME NEW l \in 1 .. Len(ss) PROVE st[l + 1] = st[l] + Len(ss[l])
    <3>1. l \in Nat /\ l + 1 \in 1 .. Len(ss) + 1 /\ l + 1 # 1 /\ (l + 1) - 1 = l
      OBVIOUS
    <3>2. st[l + 1] = Len(f[l])
      BY <3>1
    <3>3. CASE l = 1
      BY <2>1, <3>2, <3>3
    <3>4. CASE l # 1
      <4>1. l \in 2 .. Len(ss) /\ l - 1 \in 1 .. Len(ss)
        BY <3>4
      <4>2. f[l] = f[l - 1] \o ss[l] /\ f[l - 1] \in Seq(X) /\ ss[l] \in Seq(X)
        BY <1>0, <2>1, <4>1
      <4>3. Len(f[l]) = Len(f[l - 1]) + Len(ss[l])
        BY <4>2
      <4>4. st[l] = Len(f[l - 1])
        BY <3>4
      <4>5. QED
        BY <3>2, <4>3, <4>4
    <3>5. QED
      BY <3>3, <3>4
  <2>4. QED
    BY <2>2, <2>3 DEF Sums
<1>3. QED
  BY <1>1, <1>2

(* Sums do not fall.                                                       *)
LEMMA SumsGrow ==
  ASSUME NEW X, NEW ss \in Seq(Seq(X)), NEW st, Sums(ss, st)
  PROVE  \A l \in 1 .. Len(ss) + 1 : \A m \in l .. Len(ss) + 1 : st[l] <= st[m]
<1>1. SUFFICES ASSUME NEW l \in 1 .. Len(ss) + 1
               PROVE  \A m \in l .. Len(ss) + 1 : st[l] <= st[m]
  OBVIOUS
<1> DEFINE S == {m \in Nat : m \in l .. Len(ss) + 1 /\ ~ (st[l] <= st[m])}
<1>0. Len(ss) \in Nat /\ \A i \in 1 .. Len(ss) + 1 : st[i] \in Nat
  BY DEF Sums
<1>2. S = {}
  <2>1. SUFFICES ASSUME S # {} PROVE FALSE
    OBVIOUS
  <2>2. PICK m \in S : \A k \in S : m <= k
    BY <2>1, Least
  <2>3. m # l
    BY <1>0
  <2>4. m - 1 \in Nat /\ m - 1 \in l .. Len(ss) + 1 /\ ~ (m <= m - 1) /\ m - 1 \in 1 .. Len(ss)
        /\ (m - 1) + 1 = m
    BY <1>0, <2>3
  <2>5. m - 1 \notin S
    BY <2>2, <2>4
  <2>6. st[l] <= st[m - 1]
    BY <2>4, <2>5
  <2>7. st[m] = st[m - 1] + Len(ss[m - 1]) /\ Len(ss[m - 1]) \in Nat
    BY <2>4, SMTT(30) DEF Sums
  <2>8. st[l] <= st[m]
    <3>1. st[l] \in Nat /\ st[m - 1] \in Nat /\ st[m] \in Nat
      BY <1>0, <2>4
    <3>2. QED
      BY <2>6, <2>7, <3>1
  <2>9. QED
    BY <2>8
<1>3. QED
  BY <1>0, <1>2

(* Every place below the sum of the lengths is in one of the sequences.    *)
LEMMA SumsCover ==
  ASSUME NEW X, NEW ss \in Seq(Seq(X)), NEW st, Sums(ss, st),
         NEW q \in Nat, q < st[Len(ss) + 1]
  PROVE  \E l \in 1 .. Len(ss) : st[l] <= q /\ q < st[l + 1]
<1>0. Len(ss) \in Nat /\ \A i \in 1 .. Len(ss) + 1 : st[i] \in Nat
  BY DEF Sums
<1> DEFINE S == {m \in Nat : m \in 1 .. Len(ss) + 1 /\ q < st[m]}
<1>1. Len(ss) + 1 \in S
  BY <1>0
<1>2. PICK m \in S : \A k \in S : m <= k
  BY <1>1, Least
<1>3. m # 1
  BY DEF Sums
<1>4. m - 1 \in Nat /\ m - 1 \in 1 .. Len(ss) + 1 /\ ~ (m <= m - 1) /\ m - 1 \in 1 .. Len(ss)
      /\ (m - 1) + 1 = m
  BY <1>0, <1>3
<1>5. m - 1 \notin S
  BY <1>2, <1>4
<1>6. st[m - 1] <= q /\ q < st[m]
  <2>1. st[m - 1] \in Nat /\ st[m] \in Nat /\ ~ (q < st[m - 1])
    BY <1>0, <1>4, <1>5
  <2>2. QED
    BY <2>1
<1>7. QED
  BY <1>4, <1>6

(* The sequences ss in a row, each after st elements.                      *)
InRow(X, ss, st, whole) ==
  /\ whole \in Seq(X) /\ Len(whole) = st[Len(ss) + 1]
  /\ \A l \in 1 .. Len(ss) : \A k \in 1 .. Len(ss[l]) : whole[st[l] + k] = ss[l][k]

(* Where FlattenSeq puts the elements of its sequences.                    *)
LEMMA FlattenLayout ==
  ASSUME NEW X, NEW ss \in Seq(Seq(X)), NEW st, Sums(ss, st)
  PROVE  InRow(X, ss, st, FlattenSeq(ss))
<1> SUFFICES /\ FlattenSeq(ss) \in Seq(X)
             /\ Len(FlattenSeq(ss)) = st[Len(ss) + 1]
             /\ \A l \in 1 .. Len(ss) : \A k \in 1 .. Len(ss[l]) :
                  FlattenSeq(ss)[st[l] + k] = ss[l][k]
  BY DEF InRow
<1>0. Len(ss) \in Nat /\ \A i \in 1 .. Len(ss) : ss[i] \in Seq(X)
  OBVIOUS
<1>s. \A i \in 1 .. Len(ss) + 1 : st[i] \in Nat
  BY DEF Sums
<1>1. CASE Len(ss) = 0
  <2>1. FlattenSeq(ss) = ss /\ ss = <<>>
    BY <1>1 DEF FlattenSeq
  <2>2. QED
    BY <1>1, <2>1 DEF Sums
<1>2. CASE Len(ss) # 0
  <2> DEFINE n == Len(ss)
  <2>1. PICK f : /\ FlattenSeq(ss) = f[n]
                 /\ f[1] = ss[1]
                 /\ \A i \in 2 .. n : f[i] = f[i - 1] \o ss[i]
                 /\ \A i \in 1 .. n : f[i] \in Seq(X)
    BY <1>2, Flattened
  <2> DEFINE Q(i) == /\ Len(f[i]) = st[i + 1]
                     /\ \A l \in 1 .. i : \A k \in 1 .. Len(ss[l]) : f[i][st[l] + k] = ss[l][k]
  <2> DEFINE S == {i \in Nat : i \in 1 .. n /\ ~ Q(i)}
  <2>2. Q(1)
    <3>1. 1 \in 1 .. n /\ st[1 + 1] = st[1] + Len(ss[1]) /\ st[1] = 0 /\ ss[1] \in Seq(X)
      BY <1>0, <1>2 DEF Sums
    <3>2. QED
      BY <2>1, <3>1
  <2>3. ASSUME NEW i \in 2 .. n, Q(i - 1) PROVE Q(i)
    <3>1. /\ i \in Nat /\ i - 1 \in 1 .. n /\ (i - 1) + 1 = i /\ i \in 1 .. n
      BY <1>0
    <3> DEFINE a == f[i - 1]
               b == ss[i]
    <3>2. f[i] = a \o b /\ a \in Seq(X) /\ b \in Seq(X) /\ Len(a) = st[i]
      <4>1. Len(f[i - 1]) = st[i]
        BY <2>3, <3>1
      <4>2. QED
        BY <1>0, <2>1, <3>1, <4>1
    <3>3. st[i + 1] = st[i] + Len(b)
      BY <3>1 DEF Sums
    <3>p. \A l \in 1 .. i - 1 : \A k \in 1 .. Len(ss[l]) : a[st[l] + k] = ss[l][k]
      BY <2>3
    <3> HIDE DEF a, b
    <3>c. /\ Len(f[i]) = Len(a) + Len(b)
          /\ \A k \in 1 .. Len(a) : f[i][k] = a[k]
          /\ \A k \in 1 .. Len(b) : f[i][Len(a) + k] = b[k]
      <4>1. /\ Len(a \o b) = Len(a) + Len(b)
            /\ \A k \in 1 .. Len(a) : (a \o b)[k] = a[k]
            /\ \A k \in 1 .. Len(b) : (a \o b)[Len(a) + k] = b[k]
        <5>1. a \in Seq(X) /\ b \in Seq(X)
          BY <3>2
        <5>2. QED
          BY <5>1, SMTT(30)
      <4>2. QED
        BY <3>2, <4>1
    <3>4. Len(f[i]) = st[i + 1]
      BY <3>2, <3>3, <3>c
    <3>5. ASSUME NEW l \in 1 .. i, NEW k \in 1 .. Len(ss[l]) PROVE f[i][st[l] + k] = ss[l][k]
      <4>0. l \in 1 .. Len(ss) /\ ss[l] \in Seq(X) /\ k \in Nat /\ st[l] \in Nat
        BY <1>0, <1>s, <3>1
      <4>1. CASE l = i
        BY <3>2, <3>c, <4>1 DEF b
      <4>2. CASE l # i
        <5>1. l \in 1 .. i - 1 /\ i \in (l + 1) .. Len(ss) + 1 /\ i \in 1 .. Len(ss) + 1
              /\ l + 1 \in 1 .. Len(ss) + 1
          BY <1>0, <3>1, <4>0, <4>2
        <5>2. st[l + 1] <= st[i]
          BY <5>1, SumsGrow
        <5>3. st[l + 1] = st[l] + Len(ss[l]) /\ Len(ss[l]) \in Nat /\ k <= Len(ss[l]) /\ k >= 1
          BY <4>0 DEF Sums
        <5>4. st[i] \in Nat /\ st[l + 1] \in Nat
          BY <1>s, <5>1
        <5>5. st[l] + k \in 1 .. st[i]
          BY <4>0, <5>2, <5>3, <5>4, SMTT(30)
        <5>6. f[i][st[l] + k] = a[st[l] + k]
          BY <3>2, <3>c, <5>5
        <5>7. QED
          BY <3>p, <5>1, <5>6
      <4>3. QED
        BY <4>1, <4>2
    <3>6. QED
      BY <3>4, <3>5
  <2> HIDE DEF Q
  <2>4. S = {}
    <3>1. SUFFICES ASSUME S # {} PROVE FALSE
      OBVIOUS
    <3>2. PICK i \in S : \A m \in S : i <= m
      BY <3>1, Least
    <3>3. i # 1
      BY <2>2
    <3>4. i - 1 \in Nat /\ i - 1 \in 1 .. n /\ ~ (i <= i - 1) /\ i \in 2 .. n
      BY <1>0, <3>3
    <3>5. i - 1 \notin S
      BY <3>2, <3>4
    <3>6. QED
      BY <2>3, <3>4, <3>5
  <2>5. Q(n) /\ n \in 1 .. n
    <3>1. n \in Nat /\ n \in 1 .. n
      BY <1>0, <1>2
    <3>2. n \notin S
      BY <2>4
    <3>3. QED
      BY <3>1, <3>2
  <2>6. QED
    BY <2>1, <2>5 DEF Q
<1>3. QED
  BY <1>1, <1>2

-----------------------------------------------------------------------------
(* The slots of a text.                                                    *)

OpNames ==
  {"", "other", "exit", "jeq", "ja", "call", "callx", "lddw", "syscall", "mem", "mov",
   "second half of lddw"} \cup Ops

Lines ==
  [kind : {"label", "ins"}, name : Name, op : OpNames, w : {32, 64}, off : Int, size : Nat,
   dst : Int, src : Int, imm : Int]

Width(line) ==
  IF line.kind = "label" THEN 0
  ELSE CASE line.op = "other" -> line.size
         [] line.op = "lddw"  -> 2
         [] OTHER             -> 1

(* Line l of the text begins at slot st[l].                                *)
Starts(text, st) ==
  /\ st \in [1 .. Len(text) + 1 -> Nat]
  /\ st[1] = 0
  /\ \A l \in 1 .. Len(text) : st[l + 1] = st[l] + Width(text[l])

(* The names that texts use.                                               *)
LEMMA NoNameIsName == NoName \in Name /\ \A k \in Nat : ProgramLabel(k) \in Name
<1>1. NoName \in Name
  BY Zenon DEF NoName, Name
<1>2. ASSUME NEW k \in Nat PROVE ProgramLabel(k) \in Name
  BY DEF ProgramLabel, Name
<1>3. QED
  BY <1>1, <1>2

LEMMA NamesDiffer ==
  /\ \A k : ProgramLabel(k) # NoName
  /\ \A j, k : ProgramLabel(j) = ProgramLabel(k) => j = k
<1>1. ASSUME NEW k PROVE ProgramLabel(k) # NoName
  <2>1. ProgramLabel(k).stem = "label_" /\ NoName.stem = ""
    BY DEF ProgramLabel, NoName
  <2>2. QED
    BY <2>1
<1>2. ASSUME NEW j, NEW k, ProgramLabel(j) = ProgramLabel(k) PROVE j = k
  <2>1. ProgramLabel(j).n = j /\ ProgramLabel(k).n = k
    BY DEF ProgramLabel
  <2>2. QED
    BY <1>2, <2>1
<1>3. QED
  BY <1>1, <1>2

(* The fields of each kind of line.                                        *)
LEMMA LineFields ==
  ASSUME NEW kind, kind \in {"label", "ins"}, NEW name \in Name, NEW op \in OpNames,
         NEW line, line = Line(kind, name, op)
  PROVE  /\ line \in Lines /\ line.kind = kind /\ line.name = name /\ line.op = op
         /\ line.size = 0 /\ line.off = 0 /\ line.dst = Other /\ line.src = Other
<1>1. line =
        [kind |-> kind, name |-> name, op |-> op, w |-> 64, off |-> 0, size |-> 0,
         dst |-> Other, src |-> Other, imm |-> 0]
  BY Zenon DEF Line
<1>2. Other \in Int
  BY DEF Other
<1>3. QED
  BY <1>1, <1>2 DEF Lines

LEMMA InsFields ==
  ASSUME NEW op \in OpNames
  PROVE  /\ Ins(op) \in Lines /\ Ins(op).kind = "ins" /\ Ins(op).name = NoName /\ Ins(op).op = op
         /\ Ins(op).size = 0 /\ Ins(op).off = 0
         /\ Ins(op).dst = Other /\ Ins(op).src = Other
  BY NoNameIsName, LineFields DEF Ins

LEMMA OFields ==
  ASSUME NEW n \in Nat
  PROVE  /\ O(n) \in Lines /\ O(n).kind = "ins" /\ O(n).op = "other" /\ O(n).size = n
<1> DEFINE r == Ins("other")
<1>1. O(n) = [r EXCEPT !.size = n]
  BY DEF O
<1>2. r \in Lines /\ r.kind = "ins" /\ r.op = "other"
  BY InsFields DEF OpNames
<1> HIDE DEF r
<1>3. [r EXCEPT !.size = n] \in Lines
  BY <1>2 DEF Lines
<1> DEFINE q == [r EXCEPT !.size = n]
<1>4. q.kind = "ins" /\ q.op = "other" /\ q.size = n
  BY <1>2 DEF Lines
<1>5. QED
  BY <1>1, <1>3, <1>4

LEMMA JumpFields ==
  ASSUME NEW off \in Int
  PROVE  /\ Jump(off) \in Lines /\ Jump(off).kind = "ins" /\ Jump(off).op = "jeq"
         /\ Jump(off).off = off
<1> DEFINE r == Ins("jeq")
<1>1. Jump(off) = [r EXCEPT !.off = off]
  BY DEF Jump
<1>2. r \in Lines /\ r.kind = "ins" /\ r.op = "jeq"
  BY InsFields DEF OpNames
<1> HIDE DEF r
<1>3. [r EXCEPT !.off = off] \in Lines
  BY <1>2 DEF Lines
<1> DEFINE q == [r EXCEPT !.off = off]
<1>4. q.kind = "ins" /\ q.op = "jeq" /\ q.off = off
  BY <1>2 DEF Lines
<1>5. QED
  BY <1>1, <1>3, <1>4

LEMMA JaFields ==
  ASSUME NEW off \in Int
  PROVE  /\ Ja(off) \in Lines /\ Ja(off).kind = "ins" /\ Ja(off).op = "ja"
         /\ Ja(off).off = off
<1> DEFINE r == Ins("ja")
<1>1. Ja(off) = [r EXCEPT !.off = off]
  BY DEF Ja
<1>2. r \in Lines /\ r.kind = "ins" /\ r.op = "ja"
  BY InsFields DEF OpNames
<1> HIDE DEF r
<1>3. [r EXCEPT !.off = off] \in Lines
  BY <1>2 DEF Lines
<1> DEFINE q == [r EXCEPT !.off = off]
<1>4. q.kind = "ins" /\ q.op = "ja" /\ q.off = off
  BY <1>2 DEF Lines
<1>5. QED
  BY <1>1, <1>3, <1>4

LEMMA CallByFields ==
  ASSUME NEW off \in Int
  PROVE  /\ CallBy(off) \in Lines /\ CallBy(off).kind = "ins" /\ CallBy(off).op = "call"
         /\ CallBy(off).off = off /\ CallBy(off).name = NoName
<1> DEFINE r == Ins("call")
<1>1. CallBy(off) = [r EXCEPT !.off = off]
  BY DEF CallBy
<1>2. r \in Lines /\ r.kind = "ins" /\ r.op = "call" /\ r.name = NoName
  BY InsFields DEF OpNames
<1> HIDE DEF r
<1>3. [r EXCEPT !.off = off] \in Lines
  BY <1>2 DEF Lines
<1> DEFINE q == [r EXCEPT !.off = off]
<1>4. q.kind = "ins" /\ q.op = "call" /\ q.off = off /\ q.name = NoName
  BY <1>2 DEF Lines
<1>5. QED
  BY <1>1, <1>3, <1>4

LEMMA LddwFields ==
  /\ Lddw \in Lines /\ Lddw.kind = "ins" /\ Lddw.op = "lddw" /\ Lddw.src = Imm
  /\ Lddw.dst = Other
<1> DEFINE r == Ins("lddw")
<1>1. Lddw = [r EXCEPT !.src = Imm]
  BY DEF Lddw
<1>2. r \in Lines /\ r.kind = "ins" /\ r.op = "lddw" /\ r.dst = Other
  BY InsFields DEF OpNames
<1> HIDE DEF r
<1>3. [r EXCEPT !.src = Imm] \in Lines
  BY <1>2 DEF Lines, Imm
<1> DEFINE q == [r EXCEPT !.src = Imm]
<1>4. q.kind = "ins" /\ q.op = "lddw" /\ q.src = Imm /\ q.dst = Other
  BY <1>2 DEF Lines
<1>5. QED
  BY <1>1, <1>3, <1>4

LEMMA CallxFields ==
  ASSUME NEW slot \in Int
  PROVE  /\ Callx(slot) \in Lines /\ Callx(slot).kind = "ins" /\ Callx(slot).op = "callx"
         /\ Callx(slot).imm = slot
<1> DEFINE r == Ins("callx")
<1>1. Callx(slot) = [r EXCEPT !.imm = slot]
  BY DEF Callx
<1>2. r \in Lines /\ r.kind = "ins" /\ r.op = "callx"
  BY InsFields DEF OpNames
<1> HIDE DEF r
<1>3. [r EXCEPT !.imm = slot] \in Lines
  BY <1>2 DEF Lines
<1> DEFINE q == [r EXCEPT !.imm = slot]
<1>4. q.kind = "ins" /\ q.op = "callx" /\ q.imm = slot
  BY <1>2 DEF Lines
<1>5. QED
  BY <1>1, <1>3, <1>4

LEMMA MemFields ==
  ASSUME NEW off \in Int, NEW size \in Nat
  PROVE  /\ Mem(off, size) \in Lines /\ Mem(off, size).kind = "ins"
         /\ Mem(off, size).op = "mem" /\ Mem(off, size).off = off
         /\ Mem(off, size).size = size /\ Mem(off, size).src = Other
         /\ Mem(off, size).dst = Other
<1> DEFINE r == Ins("mem")
<1>1. Mem(off, size) = [r EXCEPT !.off = off, !.size = size]
  BY DEF Mem
<1>2. r \in Lines /\ r.kind = "ins" /\ r.op = "mem" /\ r.src = Other /\ r.dst = Other
  BY InsFields DEF OpNames
<1> HIDE DEF r
<1>3. [r EXCEPT !.off = off, !.size = size] \in Lines
  BY <1>2 DEF Lines
<1> DEFINE q == [r EXCEPT !.off = off, !.size = size]
<1>4. q.kind = "ins" /\ q.op = "mem" /\ q.off = off /\ q.size = size /\ q.src = Other /\ q.dst = Other
  BY <1>2 DEF Lines
<1>5. QED
  BY <1>1, <1>3, <1>4

LEMMA MemR1Fields ==
  ASSUME NEW off \in Int, NEW size \in Nat, NEW dst \in Int
  PROVE  /\ MemR1(off, size, dst) \in Lines /\ MemR1(off, size, dst).kind = "ins"
         /\ MemR1(off, size, dst).op = "mem" /\ MemR1(off, size, dst).off = off
         /\ MemR1(off, size, dst).size = size /\ MemR1(off, size, dst).src = 1
         /\ MemR1(off, size, dst).dst = dst
<1> DEFINE r == Mem(off, size)
<1>1. MemR1(off, size, dst) = [r EXCEPT !.src = 1, !.dst = dst]
  BY DEF MemR1
<1>2. r \in Lines /\ r.kind = "ins" /\ r.op = "mem" /\ r.off = off /\ r.size = size
  BY MemFields
<1> HIDE DEF r
<1>r. r \in Lines
  BY <1>2
<1>3. [r EXCEPT !.src = 1, !.dst = dst] \in Lines
  <2> DEFINE s == 1
  <2>1. s \in Int
    OBVIOUS
  <2> HIDE DEF s
  <2>2. [r EXCEPT !.src = s, !.dst = dst] \in Lines
    BY <1>r, <2>1 DEF Lines
  <2>3. QED
    BY <2>2 DEF s
<1> DEFINE q == [r EXCEPT !.src = 1, !.dst = dst]
<1>4. q.kind = "ins" /\ q.op = "mem" /\ q.off = off /\ q.size = size /\ q.src = 1 /\ q.dst = dst
  BY <1>2 DEF Lines
<1>5. QED
  BY <1>1, <1>3, <1>4

LEMMA AluRegFields ==
  ASSUME NEW op \in OpNames, NEW w \in {32, 64}, NEW dst \in Int, NEW src \in Int
  PROVE  /\ AluReg(op, w, dst, src) \in Lines /\ AluReg(op, w, dst, src).kind = "ins"
         /\ AluReg(op, w, dst, src).op = op /\ AluReg(op, w, dst, src).w = w
         /\ AluReg(op, w, dst, src).dst = dst /\ AluReg(op, w, dst, src).src = src
<1> DEFINE r == Ins(op)
<1>1. AluReg(op, w, dst, src) = [r EXCEPT !.w = w, !.dst = dst, !.src = src]
  BY DEF AluReg
<1>2. r \in Lines /\ r.kind = "ins" /\ r.op = op
  BY InsFields DEF OpNames
<1> HIDE DEF r
<1>3. [r EXCEPT !.w = w, !.dst = dst, !.src = src] \in Lines
  BY <1>2 DEF Lines
<1> DEFINE q == [r EXCEPT !.w = w, !.dst = dst, !.src = src]
<1>4. q.kind = "ins" /\ q.op = op /\ q.w = w /\ q.dst = dst /\ q.src = src
  BY <1>2 DEF Lines
<1>5. QED
  BY <1>1, <1>3, <1>4

LEMMA AluImmFields ==
  ASSUME NEW op \in OpNames, NEW w \in {32, 64}, NEW dst \in Int, NEW v \in Int
  PROVE  /\ AluImm(op, w, dst, v) \in Lines /\ AluImm(op, w, dst, v).kind = "ins"
         /\ AluImm(op, w, dst, v).op = op /\ AluImm(op, w, dst, v).w = w
         /\ AluImm(op, w, dst, v).dst = dst /\ AluImm(op, w, dst, v).src = Imm
         /\ AluImm(op, w, dst, v).imm = v
<1> DEFINE r == Ins(op)
<1>1. AluImm(op, w, dst, v) = [r EXCEPT !.w = w, !.dst = dst, !.src = Imm, !.imm = v]
  BY DEF AluImm
<1>2. r \in Lines /\ r.kind = "ins" /\ r.op = op
  BY InsFields DEF OpNames
<1> HIDE DEF r
<1>r. r \in Lines /\ Imm \in Int
  BY <1>2 DEF Imm
<1>3. [r EXCEPT !.w = w, !.dst = dst, !.src = Imm, !.imm = v] \in Lines
  BY <1>r DEF Lines
<1> DEFINE q == [r EXCEPT !.w = w, !.dst = dst, !.src = Imm, !.imm = v]
<1>4. q.kind = "ins" /\ q.op = op /\ q.w = w /\ q.dst = dst /\ q.src = Imm /\ q.imm = v
  BY <1>2 DEF Lines
<1>5. QED
  BY <1>1, <1>3, <1>4

LEMMA PlainFields ==
  /\ Exit \in Lines /\ Exit.kind = "ins" /\ Exit.op = "exit"
  /\ Syscall \in Lines /\ Syscall.kind = "ins" /\ Syscall.op = "syscall"
  /\ Half \in Lines /\ Half.kind = "ins" /\ Half.op = "second half of lddw"
  BY InsFields DEF OpNames, Exit, Syscall, Half

LEMMA NameFields ==
  ASSUME NEW name \in Name
  PROVE  /\ Label(name) \in Lines /\ Label(name).kind = "label" /\ Label(name).name = name
         /\ Call(name) \in Lines /\ Call(name).kind = "ins" /\ Call(name).op = "call"
         /\ Call(name).name = name
<1>1. Label(name) = Line("label", name, "") /\ Call(name) = Line("ins", name, "call")
  BY DEF Label, Call
<1>2. "" \in OpNames /\ "call" \in OpNames
  BY DEF OpNames
<1>3. Label(name) \in Lines /\ Label(name).kind = "label" /\ Label(name).name = name
  <2> DEFINE kind == "label"
             op == ""
             line == Label(name)
  <2>1. kind \in {"label", "ins"} /\ op \in OpNames /\ line = Line(kind, name, op)
    BY <1>1, <1>2
  <2> HIDE DEF kind, op, line
  <2>2. line \in Lines /\ line.kind = kind /\ line.name = name
    BY <2>1, LineFields
  <2>3. QED
    BY <2>2 DEF kind, line
<1>4. /\ Call(name) \in Lines /\ Call(name).kind = "ins" /\ Call(name).op = "call"
      /\ Call(name).name = name
  <2> DEFINE kind == "ins"
             op == "call"
             line == Call(name)
  <2>1. kind \in {"label", "ins"} /\ op \in OpNames /\ line = Line(kind, name, op)
    BY <1>1, <1>2
  <2> HIDE DEF kind, op, line
  <2>2. line \in Lines /\ line.kind = kind /\ line.name = name /\ line.op = op
    BY <2>1, LineFields
  <2>3. QED
    BY <2>2 DEF kind, op, line
<1>5. QED
  BY <1>3, <1>4

(* The slots of a line, and how many they are.                             *)
LEMMA PartOfLine ==
  ASSUME NEW line \in Lines
  PROVE  /\ Part(line) \in Seq(Lines) /\ Len(Part(line)) = Width(line) /\ Width(line) \in Nat
         /\ line.kind = "ins" /\ line.op = "other" =>
              Width(line) = line.size /\ \A k \in 1 .. line.size : Part(line)[k] = O(1)
         /\ line.kind = "ins" /\ line.op = "lddw" =>
              Width(line) = 2 /\ Part(line)[1] = line /\ Part(line)[2] = Half
         /\ line.kind = "ins" /\ line.op \notin {"other", "lddw"} =>
              Width(line) = 1 /\ Part(line)[1] = line
<1>0. line.kind \in {"label", "ins"} /\ line.size \in Nat
  BY DEF Lines
<1>1. CASE line.kind = "label"
  <2>1. Part(line) = <<>> /\ Width(line) = 0
    BY <1>1 DEF Part, Width
  <2>2. QED
    BY <1>1, <2>1
<1>2. CASE line.kind = "ins" /\ line.op = "other"
  <2>1. Part(line) = [k \in 1 .. line.size |-> O(1)] /\ Width(line) = line.size
    BY <1>2 DEF Part, Width
  <2>2. QED
    BY <1>0, <1>2, <2>1, OFields
<1>3. CASE line.kind = "ins" /\ line.op = "lddw"
  <2>1. Part(line) = <<line, Half>> /\ Width(line) = 2
    BY <1>3 DEF Part, Width
  <2>2. Half \in Lines
    BY PlainFields
  <2>3. Part(line) \in Seq(Lines) /\ Len(Part(line)) = 2 /\ Part(line)[1] = line /\ Part(line)[2] = Half
    BY <2>1, <2>2
  <2>4. QED
    BY <1>3, <2>1, <2>3
<1>4. CASE line.kind = "ins" /\ line.op \notin {"other", "lddw"}
  <2>1. Part(line) = <<line>> /\ Width(line) = 1
    BY <1>4 DEF Part, Width
  <2>2. QED
    BY <1>4, <2>1
<1>5. QED
  BY <1>0, <1>1, <1>2, <1>3, <1>4

Parts(text) == [l \in DOMAIN text |-> Part(text[l])]

LEMMA PartsOfText ==
  ASSUME NEW text \in Seq(Lines)
  PROVE  /\ Parts(text) \in Seq(Seq(Lines)) /\ Len(Parts(text)) = Len(text)
         /\ \A l \in 1 .. Len(text) : Parts(text)[l] = Part(text[l])
         /\ \A st : Sums(Parts(text), st) <=> Starts(text, st)
<1>1. \A l \in 1 .. Len(text) : text[l] \in Lines
  OBVIOUS
<1>2. \A l \in 1 .. Len(text) : Part(text[l]) \in Seq(Lines) /\ Len(Part(text[l])) = Width(text[l])
  BY <1>1, PartOfLine
<1>3. /\ Parts(text) \in Seq(Seq(Lines)) /\ Len(Parts(text)) = Len(text)
      /\ \A l \in 1 .. Len(text) : Parts(text)[l] = Part(text[l])
  BY <1>2 DEF Parts
<1>4. \A st : Sums(Parts(text), st) <=> Starts(text, st)
  BY <1>2, <1>3 DEF Sums, Starts
<1>5. QED
  BY <1>3, <1>4

(* Every text has begins of its lines, and they grow.                      *)
LEMMA StartsExist ==
  ASSUME NEW text \in Seq(Lines)
  PROVE  \E st : Starts(text, st)
  BY PartsOfText, SumsExist

LEMMA StartsGrow ==
  ASSUME NEW text \in Seq(Lines), NEW st, Starts(text, st)
  PROVE  \A l \in 1 .. Len(text) + 1 : \A m \in l .. Len(text) + 1 : st[l] <= st[m]
  BY PartsOfText, SumsGrow

(* What the slots of a line hold.                                          *)
LEMMA TextLayout ==
  ASSUME NEW text \in Seq(Lines), NEW st, Starts(text, st)
  PROVE  /\ Slots(text) \in Seq(Lines)
         /\ Len(Slots(text)) = st[Len(text) + 1]
         /\ \A l \in 1 .. Len(text) : text[l].kind = "ins" =>
              /\ st[l] + Width(text[l]) <= Len(Slots(text))
              /\ text[l].op = "other" =>
                   \A q \in st[l] .. st[l + 1] - 1 : Slots(text)[q + 1] = O(1)
              /\ text[l].op = "lddw" =>
                   Slots(text)[st[l] + 1] = text[l] /\ Slots(text)[st[l] + 2] = Half
              /\ text[l].op \notin {"other", "lddw"} => Slots(text)[st[l] + 1] = text[l]
<1>1. Slots(text) = FlattenSeq(Parts(text))
  BY DEF Slots, Parts
<1>2. /\ Slots(text) \in Seq(Lines) /\ Len(Slots(text)) = st[Len(text) + 1]
      /\ \A l \in 1 .. Len(text) : \A k \in 1 .. Len(Part(text[l])) :
           Slots(text)[st[l] + k] = Part(text[l])[k]
  <2>1. InRow(Lines, Parts(text), st, Slots(text))
    BY <1>1, PartsOfText, FlattenLayout
  <2>2. QED
    BY <2>1, PartsOfText, SMTT(30) DEF InRow
<1>3. ASSUME NEW l \in 1 .. Len(text), text[l].kind = "ins"
      PROVE  /\ st[l] + Width(text[l]) <= Len(Slots(text))
             /\ text[l].op = "other" =>
                  \A q \in st[l] .. st[l + 1] - 1 : Slots(text)[q + 1] = O(1)
             /\ text[l].op = "lddw" =>
                  Slots(text)[st[l] + 1] = text[l] /\ Slots(text)[st[l] + 2] = Half
             /\ text[l].op \notin {"other", "lddw"} => Slots(text)[st[l] + 1] = text[l]
  <2>1. text[l] \in Lines /\ l + 1 \in 1 .. Len(text) + 1 /\ Len(text) + 1 \in l + 1 .. Len(text) + 1
    OBVIOUS
  <2>2. st[l] \in Nat /\ st[l + 1] = st[l] + Width(text[l])
    BY SMTT(30) DEF Starts
  <2>3. st[l + 1] <= st[Len(text) + 1]
    BY <2>1, StartsGrow
  <2>4. \A k \in 1 .. Width(text[l]) : Slots(text)[st[l] + k] = Part(text[l])[k]
    BY <1>2, <2>1, PartOfLine
  <2>5. ASSUME text[l].op = "other", NEW q \in st[l] .. st[l + 1] - 1
        PROVE  Slots(text)[q + 1] = O(1)
    <3>1. Width(text[l]) = text[l].size /\ \A k \in 1 .. text[l].size : Part(text[l])[k] = O(1)
      BY <1>3, <2>1, <2>5, PartOfLine
    <3>2. text[l].size \in Nat
      BY <2>1 DEF Lines
    <3>3. (q + 1) - st[l] \in 1 .. text[l].size /\ q + 1 = st[l] + ((q + 1) - st[l])
      BY <2>2, <3>1, <3>2
    <3>4. QED
      BY <2>4, <3>1, <3>3
  <2>6. ASSUME text[l].op = "lddw"
        PROVE  Slots(text)[st[l] + 1] = text[l] /\ Slots(text)[st[l] + 2] = Half
    <3>1. Width(text[l]) = 2 /\ Part(text[l])[1] = text[l] /\ Part(text[l])[2] = Half
      BY <1>3, <2>1, <2>6, PartOfLine
    <3>2. QED
      BY <2>4, <3>1
  <2>7. ASSUME text[l].op \notin {"other", "lddw"} PROVE Slots(text)[st[l] + 1] = text[l]
    BY <1>3, <2>1, <2>4, <2>7, PartOfLine, SMTT(30)
  <2>8. QED
    BY <1>2, <2>2, <2>3, <2>5, <2>6, <2>7
<1>4. QED
  BY <1>2, <1>3

(* The labels of a text, by the begins of its lines.                       *)
LEMMA HeadsOfText ==
  ASSUME NEW text \in Seq(Lines), NEW st, Starts(text, st)
  PROVE  Heads(text) = {[name |-> text[l].name, slot |-> st[l]] :
                          l \in {l \in DOMAIN text : text[l].kind = "label"}}
<1>1. ASSUME NEW l \in DOMAIN text PROVE Len(Slots(SubSeq(text, 1, l - 1))) = st[l]
  <2> DEFINE t == SubSeq(text, 1, l - 1)
             su == [m \in 1 .. l |-> st[m]]
  <2>1. l \in 1 .. Len(text) /\ l - 1 \in 0 .. Len(text)
    OBVIOUS
  <2>2. t \in Seq(Lines) /\ Len(t) = l - 1 /\ \A m \in 1 .. l - 1 : t[m] = text[m]
    BY <2>1
  <2> HIDE DEF t
  <2>3. Starts(t, su)
    <3>1. l - 1 + 1 = l /\ 1 \in 1 .. l /\ \A m \in 1 .. l : m \in 1 .. Len(text) + 1
      BY <2>1
    <3>2. su \in [1 .. Len(t) + 1 -> Nat] /\ su[1] = 0
      BY <2>2, <3>1 DEF Starts
    <3>3. ASSUME NEW m \in 1 .. Len(t) PROVE su[m + 1] = su[m] + Width(t[m])
      <4>1. m \in 1 .. Len(text) /\ m \in 1 .. l - 1 /\ m + 1 \in 1 .. l /\ m \in 1 .. l
        BY <2>1, <2>2
      <4>2. st[m + 1] = st[m] + Width(text[m])
        BY <4>1 DEF Starts
      <4>3. t[m] = text[m]
        BY <2>2, <4>1
      <4>4. QED
        BY <4>1, <4>2, <4>3
    <3>4. QED
      BY <3>2, <3>3 DEF Starts
  <2> HIDE DEF su
  <2>4. Len(Slots(t)) = su[Len(t) + 1]
    BY <2>2, <2>3, TextLayout
  <2>5. QED
    BY <2>1, <2>2, <2>4 DEF t, su
<1>2. QED
  BY <1>1 DEF Heads

-----------------------------------------------------------------------------
(* What makes a seed fit to run, said of its text.  A level bounds the     *)
(* calls that lead to a line.                                              *)

IsIns(text, m) == m \in 1 .. Len(text) /\ text[m].kind = "ins"

(* The first line of a function.                                           *)
IsHead(text, m) ==
  IsIns(text, m) /\ m - 1 \in 1 .. Len(text) /\ text[m - 1].kind = "label"

(* An operation that neither stops on any value of its destination nor has *)
(* a source that is not known.                                             *)
Harmless(line) ==
  /\ line.op \in Divisions =>
       /\ line.src = Imm
       /\ LET v == Immediate(line.op, line.w, line.imm)
          IN  Known(v) /\ Unsigned(line.w, v) # 0 /\ Signed(line.w, v) # -1
  /\ line.op \in Shifts /\ line.src = Imm => line.imm \in 0 .. Bits(line.w) - 1

LabelsAreHeads(text) ==
  /\ \A l \in 1 .. Len(text) : text[l].kind = "label" =>
       IsHead(text, l + 1) /\ (text[l].name = Entrypoint => l = 1)
  /\ \A l, m \in 1 .. Len(text) :
       text[l].kind = "label" /\ text[m].kind = "label" /\ text[l].name = text[m].name => l = m

(* Where the instruction of a line may go: on to the next line, to the     *)
(* line a jump leads to, both on the same level, or to the head of a       *)
(* function of a higher one.                                               *)
StaysInFunction(text, st, lev, l) ==
  /\ text[l].op \notin {"exit", "ja"} => IsIns(text, l + 1) /\ lev[l + 1] = lev[l]
  /\ text[l].op \in {"jeq", "ja"} =>
       \E m : /\ IsIns(text, m) /\ ~ IsHead(text, m) /\ lev[m] = lev[l]
              /\ st[m] = st[l] + 1 + text[l].off

CallsUpwards(text, st, lev, l) ==
  /\ text[l].op = "callx" =>
       /\ text[l].name = NoName
       /\ \E m : IsHead(text, m) /\ st[m] = text[l].imm /\ lev[m] > lev[l]
  /\ text[l].op = "call" =>
       /\ text[l].name # NoName
       /\ \E m : IsHead(text, m) /\ text[m - 1].name = text[l].name /\ lev[m] > lev[l]

NeverFaults(p, line) ==
  /\ line.op \notin Lacking(p.version) \cup {Half.op, "syscall"}
  /\ line.op = "other" => line.size >= 1
  /\ line.op = "mem" =>
       /\ line.off >= 0 /\ line.off + line.size <= p.mem
       /\ line.src = 1 => p.says = "memory"
  /\ Harmless(line)

Certified(p, st, lev) ==
  /\ p.text \in Seq(Lines) /\ Len(p.text) >= 1 /\ p.text[Len(p.text)].kind = "ins"
  /\ Starts(p.text, st)
  /\ lev \in [1 .. Len(p.text) -> 0 .. 6]
  /\ LabelsAreHeads(p.text)
  /\ \A l \in 1 .. Len(p.text) : p.text[l].kind = "ins" =>
       /\ NeverFaults(p, p.text[l])
       /\ StaysInFunction(p.text, st, lev, l)
       /\ CallsUpwards(p.text, st, lev, l)

-----------------------------------------------------------------------------
(* Slots and lines of a certified text.                                    *)

(* An instruction of a certified text takes a slot at least.               *)
LEMMA InsTakeSlots ==
  ASSUME NEW p, NEW st, NEW lev, Certified(p, st, lev), NEW m, IsIns(p.text, m)
  PROVE  /\ m \in 1 .. Len(p.text) /\ p.text[m] \in Lines /\ Width(p.text[m]) \in Nat
         /\ st[m] \in Nat /\ st[m + 1] \in Nat /\ st[m + 1] = st[m] + Width(p.text[m])
         /\ st[m] < st[m + 1]
         /\ p.text[m].op \notin {"other", "lddw"} => st[m + 1] = st[m] + 1
         /\ p.text[m].op = "lddw" => st[m + 1] = st[m] + 2
<1>1. m \in 1 .. Len(p.text) /\ p.text[m].kind = "ins" /\ p.text[m] \in Lines
  BY DEF Certified, IsIns
<1>2. st[m] \in Nat /\ st[m + 1] \in Nat /\ st[m + 1] = st[m] + Width(p.text[m])
  <2>1. Starts(p.text, st) /\ Len(p.text) \in Nat
    BY DEF Certified
  <2>2. m \in 1 .. Len(p.text) + 1 /\ m + 1 \in 1 .. Len(p.text) + 1
    BY <1>1, <2>1
  <2>3. QED
    BY <1>1, <2>1, <2>2 DEF Starts
<1>3. p.text[m].op = "other" => p.text[m].size >= 1
  BY <1>1 DEF Certified, NeverFaults
<1>4. /\ Width(p.text[m]) \in Nat
      /\ p.text[m].op = "other" => Width(p.text[m]) = p.text[m].size
      /\ p.text[m].op = "lddw" => Width(p.text[m]) = 2
      /\ p.text[m].op \notin {"other", "lddw"} => Width(p.text[m]) = 1
  BY <1>1, PartOfLine
<1>5. Width(p.text[m]) >= 1
  BY <1>3, <1>4
<1>6. QED
  BY <1>1, <1>2, <1>4, <1>5

(* A later line begins later, so that a slot is in one line only.          *)
LEMMA LinesInOrder ==
  ASSUME NEW p, NEW st, NEW lev, Certified(p, st, lev),
         NEW l \in 1 .. Len(p.text) + 1, NEW m \in 1 .. Len(p.text) + 1, l <= m
  PROVE  st[l] \in Nat /\ st[m] \in Nat /\ st[l] <= st[m]
<1>1. p.text \in Seq(Lines) /\ Starts(p.text, st)
  BY DEF Certified
<1>2. m \in l .. Len(p.text) + 1
  BY <1>1
<1>3. st[l] <= st[m]
  BY <1>1, <1>2, StartsGrow
<1>4. QED
  BY <1>1, <1>3 DEF Starts

(* Only one line has a slot.                                               *)
LEMMA OneLineForASlot ==
  ASSUME NEW p, NEW st, NEW lev, Certified(p, st, lev),
         NEW l, NEW m, IsIns(p.text, l), IsIns(p.text, m),
         NEW q \in Nat, st[l] <= q, q < st[l + 1], st[m] = q
  PROVE  l = m
<1>1. l \in 1 .. Len(p.text) /\ m \in 1 .. Len(p.text) /\ Len(p.text) \in Nat
  BY DEF IsIns, Certified
<1>2. st[l] \in Nat /\ st[l + 1] \in Nat /\ st[m] \in Nat /\ st[m + 1] \in Nat /\ st[m] < st[m + 1]
  BY InsTakeSlots
<1>3. CASE l < m
  <2>1. l + 1 <= m /\ l + 1 \in 1 .. Len(p.text) + 1 /\ m \in 1 .. Len(p.text) + 1
    BY <1>1, <1>3
  <2>2. st[l + 1] <= st[m]
    BY <2>1, LinesInOrder
  <2>3. QED
    BY <1>2, <2>2
<1>4. CASE m < l
  <2>1. m + 1 <= l /\ m + 1 \in 1 .. Len(p.text) + 1 /\ l \in 1 .. Len(p.text) + 1
    BY <1>1, <1>4
  <2>2. st[m + 1] <= st[l]
    BY <2>1, LinesInOrder
  <2>3. QED
    BY <1>2, <2>2
<1>5. QED
  BY <1>1, <1>3, <1>4

(* The slots that labels stand for are those where heads begin.            *)
LEMMA SlotsOfHeads ==
  ASSUME NEW st, NEW lev, Certified(prog, st, lev),
         NEW l, IsIns(prog.text, l), NEW q \in Nat, st[l] <= q, q < st[l + 1]
  PROVE  q \in HeadSlots <=> q = st[l] /\ IsHead(prog.text, l)
<1> DEFINE text == prog.text
<1>1. text \in Seq(Lines) /\ Starts(text, st) /\ DOMAIN text = 1 .. Len(text) /\ Len(text) \in Nat
  BY DEF Certified
<1>2. HeadSlots = {st[k] : k \in {k \in 1 .. Len(text) : text[k].kind = "label"}}
  <2> DEFINE S == {k \in 1 .. Len(text) : text[k].kind = "label"}
             H(k) == [name |-> text[k].name, slot |-> st[k]]
  <2>1. Heads(text) = {H(k) : k \in S}
    BY <1>1, HeadsOfText
  <2>2. \A k \in S : H(k).slot = st[k]
    OBVIOUS
  <2> HIDE DEF H, S
  <2>3. HeadSlots = {st[k] : k \in S}
    BY <2>1, <2>2 DEF HeadSlots
  <2>4. QED
    BY <2>3 DEF S
<1>3. ASSUME NEW k \in 1 .. Len(text), text[k].kind = "label"
      PROVE  IsHead(text, k + 1) /\ st[k + 1] = st[k] /\ st[k] \in Nat
  <2>1. IsHead(text, k + 1)
    BY <1>3 DEF Certified, LabelsAreHeads
  <2>2. Width(text[k]) = 0
    BY <1>3 DEF Width
  <2>3. QED
    BY <1>1, <2>1, <2>2 DEF Starts
<1>4. ASSUME q \in HeadSlots PROVE q = st[l] /\ IsHead(text, l)
  <2>1. PICK k \in 1 .. Len(text) : text[k].kind = "label" /\ q = st[k]
    BY <1>2, <1>4
  <2>2. IsHead(text, k + 1) /\ IsIns(text, k + 1) /\ st[k + 1] = q
    BY <1>3, <2>1 DEF IsHead
  <2> DEFINE m == k + 1
  <2> HIDE DEF m
  <2>3. IsIns(prog.text, m) /\ st[m] = q
    BY <2>2 DEF m
  <2>4. l = m
    BY <2>3, OneLineForASlot
  <2>5. QED
    BY <2>2, <2>4 DEF m
<1>5. ASSUME q = st[l], IsHead(text, l) PROVE q \in HeadSlots
  <2>1. l - 1 \in 1 .. Len(text) /\ text[l - 1].kind = "label" /\ (l - 1) + 1 = l
    BY <1>1, <1>5 DEF IsHead, IsIns
  <2>2. st[l] = st[l - 1]
    BY <1>3, <2>1
  <2>3. QED
    BY <1>2, <1>5, <2>1, <2>2
<1>6. QED
  BY <1>4, <1>5

(* SlotOf is the begin of the line that follows the label.                 *)
LEMMA SlotOfLabel ==
  ASSUME NEW st, NEW lev, Certified(prog, st, lev),
         NEW k \in 1 .. Len(prog.text), prog.text[k].kind = "label"
  PROVE  /\ SlotOf(prog.text[k].name) = st[k]
         /\ \E h \in Heads(prog.text) : h.name = prog.text[k].name
         /\ st[k + 1] = st[k]
<1> DEFINE text == prog.text
<1>1. text \in Seq(Lines) /\ Starts(text, st) /\ DOMAIN text = 1 .. Len(text) /\ LabelsAreHeads(text)
  BY DEF Certified
<1>2. Heads(text) = {[name |-> text[l].name, slot |-> st[l]] :
                       l \in {l \in 1 .. Len(text) : text[l].kind = "label"}}
  BY <1>1, HeadsOfText
<1> DEFINE g == [name |-> text[k].name, slot |-> st[k]]
<1>3. g \in Heads(text) /\ g.name = text[k].name /\ g.slot = st[k]
  BY <1>2
<1>4. ASSUME NEW h \in Heads(text), h.name = text[k].name PROVE h.slot = st[k]
  <2>1. PICK l \in 1 .. Len(text) : text[l].kind = "label" /\ h = [name |-> text[l].name, slot |-> st[l]]
    BY <1>2, <1>4
  <2>2. l = k
    BY <1>1, <1>4, <2>1 DEF LabelsAreHeads
  <2>3. QED
    BY <2>1, <2>2
<1> DEFINE h == CHOOSE h \in Heads(text) : h.name = text[k].name
<1>5. h \in Heads(text) /\ h.name = text[k].name
  BY <1>3
<1>6. SlotOf(text[k].name) = h.slot
  BY DEF SlotOf
<1>7. h.slot = st[k]
  <2> HIDE DEF h
  <2>1. QED
    BY <1>4, <1>5
<1>8. st[k + 1] = st[k]
  <2>1. Width(text[k]) = 0
    BY DEF Width
  <2>2. QED
    BY <1>1, <2>1 DEF Starts
<1>9. QED
  BY <1>3, <1>6, <1>7, <1>8

-----------------------------------------------------------------------------
(* A run of a certified seed.                                              *)

InLine(st, l, q) ==
  q \in Nat /\ st[l] <= q /\ q < st[l + 1] /\ (prog.text[l].op = "lddw" => q = st[l])

(* A frame holds a line to go on with, and so much of the stack is in use  *)
(* as its level allows.                                                    *)
ReturnsTo(st, lev, f) ==
  /\ f \in Seq(Nat)
  /\ \A i \in 1 .. Len(f) :
       \E m : IsIns(prog.text, m) /\ ~ IsHead(prog.text, m) /\ f[i] = st[m] /\ i - 1 <= lev[m]

Announced(why) == why \in Faults => prog.says = "memory" /\ regs[1] # Input

OnCourse(st, lev) ==
  /\ code = Slots(prog.text)
  /\ \E l : IsIns(prog.text, l) /\ InLine(st, l, pc) /\ Len(frames) <= lev[l]
  /\ ReturnsTo(st, lev, frames)
  /\ Announced(status)

(* What the machine finds at a slot of a certified text.                   *)
LEMMA AtLine ==
  ASSUME NEW st, NEW lev, Certified(prog, st, lev), code = Slots(prog.text),
         NEW l, IsIns(prog.text, l), InLine(st, l, pc)
  PROVE  /\ InText /\ Here.op = prog.text[l].op
         /\ Here.op # "other" => Here = prog.text[l] /\ pc = st[l]
<1> DEFINE text == prog.text
<1>1. /\ l \in 1 .. Len(text) /\ text[l] \in Lines /\ st[l] \in Nat /\ st[l + 1] \in Nat
      /\ text[l].op \notin {"other", "lddw"} => st[l + 1] = st[l] + 1
      /\ st[l + 1] = st[l] + Width(text[l])
  BY InsTakeSlots
<1>2. /\ code \in Seq(Lines) /\ st[l] + Width(text[l]) <= Len(code)
      /\ text[l].op = "other" => \A q \in st[l] .. st[l + 1] - 1 : code[q + 1] = O(1)
      /\ text[l].op = "lddw" => code[st[l] + 1] = text[l]
      /\ text[l].op \notin {"other", "lddw"} => code[st[l] + 1] = text[l]
  <2>1. text \in Seq(Lines) /\ Starts(text, st) /\ text[l].kind = "ins"
    BY DEF Certified, IsIns
  <2>2. QED
    BY <1>1, <2>1, TextLayout
<1>3. pc \in Nat /\ st[l] <= pc /\ pc < st[l + 1] /\ (text[l].op = "lddw" => pc = st[l])
  BY DEF InLine
<1>4. Len(code) \in Nat
  BY <1>2
<1>5. InText
  BY <1>1, <1>2, <1>3, <1>4 DEF InText
<1>6. CASE text[l].op = "other"
  <2>1. pc \in st[l] .. st[l + 1] - 1
    BY <1>1, <1>3
  <2>2. Here = O(1)
    BY <1>2, <1>6, <2>1 DEF Here
  <2>3. Here.op = "other"
    BY <2>2, OFields
  <2>4. QED
    BY <1>5, <1>6, <2>3
<1>7. CASE text[l].op # "other"
  <2>1. pc = st[l]
    BY <1>1, <1>3, <1>7
  <2>2. Here = text[l]
    BY <1>2, <1>7, <2>1 DEF Here
  <2>3. QED
    BY <1>5, <2>1, <2>2
<1>8. QED
  BY <1>6, <1>7

(* A step either stops with what the seed announces, or it leads to a      *)
(* line, to the head of a function just when it calls.                     *)
Stops == UNCHANGED <<prog, code, pc, frames, regs>> /\ Announced(status')

Leads(st, lev) ==
  /\ UNCHANGED <<prog, code, status>> /\ status = "running"
  /\ \E m : /\ IsIns(prog.text, m) /\ InLine(st, m, pc') /\ Len(frames') <= lev[m]
            /\ (pc' = st[m] /\ IsHead(prog.text, m)) <=> Here.op \in {"call", "callx"}
  /\ ReturnsTo(st, lev, frames')

StepIn(st, lev) == Stops \/ Leads(st, lev)

(* The beginning of a line.                                                *)
LEMMA LineBegins ==
  ASSUME NEW st, NEW lev, Certified(prog, st, lev), NEW m, IsIns(prog.text, m)
  PROVE  InLine(st, m, st[m]) /\ lev[m] \in 0 .. 6
<1>1. st[m] \in Nat /\ st[m] < st[m + 1] /\ m \in 1 .. Len(prog.text)
  BY InsTakeSlots
<1>2. QED
  BY <1>1, SMTT(30) DEF InLine, Certified

LEMMA GoesOn ==
  ASSUME NEW st, NEW lev, Certified(prog, st, lev), OnCourse(st, lev),
         NEW l, IsIns(prog.text, l), Len(frames) <= lev[l],
         NEW m, IsIns(prog.text, m), ~ IsHead(prog.text, m), lev[m] = lev[l],
         pc' = st[m], UNCHANGED <<prog, code, frames, status>>, status = "running",
         Here.op \notin {"call", "callx"}
  PROVE  Leads(st, lev)
<1>1. InLine(st, m, pc') /\ Len(frames') <= lev[m]
  BY LineBegins
<1>2. ReturnsTo(st, lev, frames')
  BY DEF OnCourse
<1>3. QED
  BY <1>1, <1>2 DEF Leads

(* The line after one that falls through is no head.                       *)
LEMMA FallsThrough ==
  ASSUME NEW st, NEW lev, Certified(prog, st, lev),
         NEW l, IsIns(prog.text, l), prog.text[l].op \notin {"exit", "ja"}
  PROVE  IsIns(prog.text, l + 1) /\ ~ IsHead(prog.text, l + 1) /\ lev[l + 1] = lev[l]
<1>1. IsIns(prog.text, l + 1) /\ lev[l + 1] = lev[l]
  BY DEF Certified, IsIns, StaysInFunction
<1>2. (l + 1) - 1 = l /\ prog.text[l].kind = "ins"
  BY DEF IsIns
<1>3. QED
  BY <1>1, <1>2 DEF IsHead

(* The actions, one by one, keep a certified seed on course.               *)
LEMMA DataStepIn ==
  ASSUME NEW st, NEW lev, Certified(prog, st, lev), OnCourse(st, lev),
         NEW l, IsIns(prog.text, l), InLine(st, l, pc), Len(frames) <= lev[l],
         DataStep
  PROVE  StepIn(st, lev)
<1>1. Here.op = "other" /\ pc' = pc + 1 /\ UNCHANGED <<prog, code, frames, status>>
      /\ status = "running"
  BY DEF DataStep, On, Goto
<1>2. prog.text[l].op = "other"
  BY <1>1, AtLine DEF OnCourse
<1>3. st[l] \in Nat /\ st[l + 1] \in Nat /\ pc \in Nat /\ st[l] <= pc /\ pc < st[l + 1]
  BY InsTakeSlots DEF InLine
<1>4. CASE pc + 1 = st[l + 1]
  <2>1. IsIns(prog.text, l + 1) /\ ~ IsHead(prog.text, l + 1) /\ lev[l + 1] = lev[l]
    BY <1>2, FallsThrough
  <2>2. Leads(st, lev)
    BY <1>1, <1>4, <2>1, GoesOn
  <2>3. QED
    BY <2>2 DEF StepIn
<1>5. CASE pc + 1 # st[l + 1]
  <2>1. InLine(st, l, pc') /\ pc' # st[l]
    BY <1>1, <1>2, <1>3, <1>5 DEF InLine
  <2>2. ReturnsTo(st, lev, frames') /\ Len(frames') <= lev[l]
    BY <1>1 DEF OnCourse
  <2>3. Leads(st, lev)
    BY <1>1, <2>1, <2>2 DEF Leads
  <2>4. QED
    BY <2>3 DEF StepIn
<1>6. QED
  BY <1>4, <1>5

LEMMA BranchIn ==
  ASSUME NEW st, NEW lev, Certified(prog, st, lev), OnCourse(st, lev),
         NEW l, IsIns(prog.text, l), InLine(st, l, pc), Len(frames) <= lev[l],
         Branch
  PROVE  StepIn(st, lev)
<1>1. /\ Here.op \in {"jeq", "ja"} /\ UNCHANGED <<prog, code, frames, status>> /\ status = "running"
      /\ pc' = pc + 1 + Here.off \/ (Here.op = "jeq" /\ pc' = pc + 1)
  BY DEF Branch, On, Goto
<1>2. Here = prog.text[l] /\ pc = st[l]
  BY <1>1, AtLine DEF OnCourse
<1>3. CASE pc' = pc + 1 + Here.off
  <2>1. PICK m : IsIns(prog.text, m) /\ ~ IsHead(prog.text, m) /\ lev[m] = lev[l]
                 /\ st[m] = st[l] + 1 + prog.text[l].off
    BY <1>1, <1>2 DEF Certified, IsIns, StaysInFunction
  <2>2. Leads(st, lev)
    BY <1>1, <1>2, <1>3, <2>1, GoesOn
  <2>3. QED
    BY <2>2 DEF StepIn
<1>4. CASE Here.op = "jeq" /\ pc' = pc + 1
  <2>1. IsIns(prog.text, l + 1) /\ ~ IsHead(prog.text, l + 1) /\ lev[l + 1] = lev[l]
    BY <1>2, <1>4, FallsThrough
  <2>2. st[l + 1] = st[l] + 1
    BY <1>2, <1>4, InsTakeSlots
  <2>3. Leads(st, lev)
    BY <1>1, <1>2, <1>4, <2>1, <2>2, GoesOn
  <2>4. QED
    BY <2>3 DEF StepIn
<1>5. QED
  BY <1>1, <1>3, <1>4

LEMMA FrontOfFrames ==
  ASSUME NEW f \in Seq(Nat), f # <<>>
  PROVE  /\ Front(f) \in Seq(Nat) /\ Len(f) \in Nat /\ Len(f) >= 1 /\ Len(Front(f)) = Len(f) - 1
         /\ \A i \in 1 .. Len(f) - 1 : Front(f)[i] = f[i]
         /\ Last(f) = f[Len(f)]
<1>1. Len(f) \in Nat /\ Len(f) >= 1
  OBVIOUS
<1>2. Front(f) = SubSeq(f, 1, Len(f) - 1) /\ Last(f) = f[Len(f)]
  BY DEF Front, Last
<1> DEFINE n == Len(f)
<1> HIDE DEF n
<1>3. n \in Nat /\ n >= 1 /\ Front(f) = SubSeq(f, 1, n - 1) /\ n = Len(f)
  BY <1>1, <1>2 DEF n
<1>4. \A i \in 1 .. n - 1 : f[i] \in Nat
  BY <1>3
<1>5. SubSeq(f, 1, n - 1) = [i \in 1 .. n - 1 |-> f[i]]
  BY <1>3
<1>6. Front(f) \in Seq(Nat) /\ Len(Front(f)) = n - 1 /\ \A i \in 1 .. n - 1 : Front(f)[i] = f[i]
  BY <1>3, <1>4, <1>5
<1>7. QED
  BY <1>1, <1>2, <1>3, <1>6

LEMMA ReturnIn ==
  ASSUME NEW st, NEW lev, Certified(prog, st, lev), OnCourse(st, lev),
         NEW l, IsIns(prog.text, l), InLine(st, l, pc), Len(frames) <= lev[l],
         Return
  PROVE  StepIn(st, lev)
<1>1. Here.op = "exit" /\ status = "running"
  BY DEF Return, On
<1>2. CASE frames = <<>>
  <2>1. status' = "exited" /\ UNCHANGED <<prog, code, pc, frames, regs>>
    BY <1>2 DEF Return, Stop
  <2>2. "exited" \notin Faults
    BY DEF Faults
  <2>3. QED
    BY <2>1, <2>2 DEF StepIn, Stops, Announced
<1>3. CASE frames # <<>>
  <2>1. /\ pc' = Last(frames) /\ frames' = Front(frames) /\ UNCHANGED <<prog, code, status>>
    BY <1>3 DEF Return, Goto
  <2> DEFINE n == Len(frames)
  <2>2. frames \in Seq(Nat) /\ n \in Nat /\ n >= 1 /\ pc' = frames[n]
    BY <1>3, <2>1, FrontOfFrames DEF OnCourse, ReturnsTo
  <2>3. PICK m : IsIns(prog.text, m) /\ ~ IsHead(prog.text, m) /\ frames[n] = st[m]
                 /\ n - 1 <= lev[m]
    BY <2>2 DEF OnCourse, ReturnsTo
  <2>4. frames' \in Seq(Nat) /\ Len(frames') = n - 1 /\ \A i \in 1 .. n - 1 : frames'[i] = frames[i]
    BY <1>3, <2>1, <2>2, FrontOfFrames
  <2>5. InLine(st, m, pc') /\ Len(frames') <= lev[m]
    BY <2>2, <2>3, <2>4, LineBegins
  <2>6. ReturnsTo(st, lev, frames')
    <3>1. ASSUME NEW i \in 1 .. Len(frames')
          PROVE  \E k : IsIns(prog.text, k) /\ ~ IsHead(prog.text, k) /\ frames'[i] = st[k]
                       /\ i - 1 <= lev[k]
      <4>1. i \in 1 .. n /\ i \in 1 .. n - 1 /\ frames'[i] = frames[i]
        <5>1. i \in 1 .. n - 1 /\ n \in Nat
          BY <2>2, <2>4
        <5>2. i \in 1 .. n
          BY <5>1
        <5>3. frames'[i] = frames[i]
          BY <2>4, <5>1
        <5>4. QED
          BY <5>1, <5>2, <5>3
      <4>2. QED
        BY <4>1 DEF OnCourse, ReturnsTo
    <3>2. QED
      BY <2>4, <3>1 DEF ReturnsTo
  <2>7. Leads(st, lev)
    BY <1>1, <2>1, <2>3, <2>5, <2>6 DEF Leads
  <2>8. QED
    BY <2>7 DEF StepIn
<1>4. QED
  BY <1>2, <1>3

LEMMA DoCallIn ==
  ASSUME NEW st, NEW lev, Certified(prog, st, lev), OnCourse(st, lev),
         NEW l, IsIns(prog.text, l), InLine(st, l, pc), Len(frames) <= lev[l],
         DoCall
  PROVE  StepIn(st, lev)
<1>1. Here.op \in {"call", "callx"} /\ status = "running"
  BY DEF DoCall, On
<1>2. Here = prog.text[l] /\ pc = st[l] /\ st[l] \in Nat /\ st[l + 1] = st[l] + 1
  <2>1. Here = prog.text[l] /\ pc = st[l]
    BY <1>1, AtLine DEF OnCourse
  <2>2. prog.text[l].op \notin {"other", "lddw"}
    BY <1>1, <2>1
  <2>3. st[l] \in Nat /\ st[l + 1] = st[l] + 1
    BY <2>2, InsTakeSlots
  <2>4. QED
    BY <2>1, <2>3
<1>3. l \in 1 .. Len(prog.text) /\ prog.text[l].kind = "ins"
  BY DEF IsIns
<1>4. PICK m : IsHead(prog.text, m) /\ lev[m] > lev[l] /\ Callee = st[m]
  <2>1. CASE Here.op = "callx"
    <3>1. PICK m : IsHead(prog.text, m) /\ st[m] = prog.text[l].imm /\ lev[m] > lev[l]
      BY <1>2, <1>3, <2>1 DEF Certified, CallsUpwards
    <3>2. Here.name = NoName
      BY <1>2, <1>3, <2>1 DEF Certified, CallsUpwards
    <3>3. Callee = Here.imm
      BY <2>1, <3>2 DEF Callee
    <3>4. QED
      BY <1>2, <3>1, <3>3
  <2>2. CASE Here.op = "call"
    <3>1. PICK m : IsHead(prog.text, m) /\ prog.text[m - 1].name = prog.text[l].name
                   /\ lev[m] > lev[l]
      BY <1>2, <1>3, <2>2 DEF Certified, CallsUpwards
    <3>2. Here.name # NoName
      BY <1>2, <1>3, <2>2 DEF Certified, CallsUpwards
    <3>3. Callee = SlotOf(Here.name)
      BY <2>2, <3>2 DEF Callee
    <3>4. m \in Nat /\ m - 1 \in 1 .. Len(prog.text) /\ prog.text[m - 1].kind = "label"
          /\ (m - 1) + 1 = m
      BY <3>1 DEF IsHead, IsIns
    <3>5. SlotOf(prog.text[m - 1].name) = st[m]
      BY <3>4, SlotOfLabel
    <3>6. QED
      BY <1>2, <3>1, <3>3, <3>5
  <2>3. QED
    BY <1>1, <2>1, <2>2
<1>5. IsIns(prog.text, m) /\ InLine(st, m, st[m]) /\ lev[m] \in 0 .. 6 /\ lev[l] \in 0 .. 6
  BY <1>4, LineBegins DEF IsHead
<1>6. frames \in Seq(Nat) /\ Len(frames) \in Nat /\ Len(frames) + 1 <= lev[m]
  <2>1. frames \in Seq(Nat) /\ Len(frames) \in Nat
    BY DEF OnCourse, ReturnsTo
  <2>2. lev[l] \in Nat /\ lev[m] \in Nat
    BY <1>5
  <2>3. \A i, j, k \in Nat : i <= j /\ k > j => i + 1 <= k
    OBVIOUS
  <2>4. Len(frames) + 1 <= lev[m]
    BY <1>4, <2>1, <2>2, <2>3, Zenon
  <2>5. QED
    BY <2>1, <2>4
<1>7. ~ TooDeep(Len(frames))
  BY <1>5, <1>6, MachineAssumption DEF TooDeep
<1>8. pc' = st[m] /\ UNCHANGED <<prog, code, status>> /\ frames' = Append(frames, pc + 1)
  BY <1>4, <1>7 DEF DoCall, Goto
<1>9. ReturnsTo(st, lev, frames')
  <2>1. /\ frames' \in Seq(Nat) /\ Len(frames') = Len(frames) + 1
        /\ frames'[Len(frames) + 1] = st[l + 1]
        /\ \A i \in 1 .. Len(frames) : frames'[i] = frames[i]
    BY <1>2, <1>6, <1>8
  <2>2. IsIns(prog.text, l + 1) /\ ~ IsHead(prog.text, l + 1) /\ lev[l + 1] = lev[l]
    BY <1>1, <1>2, FallsThrough
  <2>3. ASSUME NEW i \in 1 .. Len(frames')
        PROVE  \E k : IsIns(prog.text, k) /\ ~ IsHead(prog.text, k) /\ frames'[i] = st[k]
                       /\ i - 1 <= lev[k]
    <3>1. CASE i = Len(frames) + 1
      BY <1>6, <2>1, <2>2, <3>1
    <3>2. CASE i # Len(frames) + 1
      <4>1. i \in 1 .. Len(frames) /\ frames'[i] = frames[i]
        BY <1>6, <2>1, <3>2
      <4>2. QED
        BY <4>1 DEF OnCourse, ReturnsTo
    <3>3. QED
      BY <3>1, <3>2
  <2>4. QED
    BY <2>1, <2>3 DEF ReturnsTo
<1>10. Len(frames') <= lev[m]
  BY <1>6, <1>8
<1>11. Leads(st, lev)
  BY <1>1, <1>4, <1>5, <1>8, <1>9, <1>10 DEF Leads
<1>12. QED
  BY <1>11 DEF StepIn

(* A step of an instruction that only goes on to the next line.            *)
LEMMA NextLineIn ==
  ASSUME NEW st, NEW lev, Certified(prog, st, lev), OnCourse(st, lev),
         NEW l, IsIns(prog.text, l), InLine(st, l, pc), Len(frames) <= lev[l],
         Here.op \notin {"other", "exit", "ja", "call", "callx"}, status = "running",
         Goto(pc + IF Here.op = "lddw" THEN 2 ELSE 1), UNCHANGED frames
  PROVE  StepIn(st, lev)
<1>1. Here = prog.text[l] /\ pc = st[l]
  BY AtLine DEF OnCourse
<1>2. pc' = st[l + 1] /\ UNCHANGED <<prog, code, frames, status>>
  BY <1>1, InsTakeSlots DEF Goto
<1>3. IsIns(prog.text, l + 1) /\ ~ IsHead(prog.text, l + 1) /\ lev[l + 1] = lev[l]
  BY <1>1, FallsThrough
<1>4. Leads(st, lev)
  BY <1>2, <1>3, GoesOn
<1>5. QED
  BY <1>4 DEF StepIn

LEMMA AccessIn ==
  ASSUME NEW st, NEW lev, Certified(prog, st, lev), OnCourse(st, lev),
         NEW l, IsIns(prog.text, l), InLine(st, l, pc), Len(frames) <= lev[l],
         Access
  PROVE  StepIn(st, lev)
<1>1. Here.op = "mem" /\ status = "running"
  BY DEF Access, On
<1>2. Here = prog.text[l]
  BY <1>1, AtLine DEF OnCourse
<1>3. /\ Here.off >= 0 /\ Here.off + Here.size <= prog.mem
      /\ Here.src = 1 => prog.says = "memory"
  BY <1>1, <1>2 DEF Certified, IsIns, NeverFaults
<1>4. CASE ~ (Here.src = 1 => regs[1] = Input) /\ Stop("access")
  BY <1>3, <1>4 DEF Stop, StepIn, Stops, Announced
<1>5. CASE Goto(pc + 1) /\ UNCHANGED frames
  BY <1>1, <1>5, NextLineIn
<1>6. QED
  BY <1>3, <1>4, <1>5 DEF Access

LEMMA MoveStepIn ==
  ASSUME NEW st, NEW lev, Certified(prog, st, lev), OnCourse(st, lev),
         NEW l, IsIns(prog.text, l), InLine(st, l, pc), Len(frames) <= lev[l],
         MoveStep
  PROVE  StepIn(st, lev)
<1>1. Here.op \in {"mov", "lddw"} /\ status = "running"
      /\ Goto(pc + IF Here.op = "lddw" THEN 2 ELSE 1) /\ UNCHANGED frames
  BY DEF MoveStep, On, Moves
<1>2. QED
  BY <1>1, NextLineIn

LEMMA AluStepIn ==
  ASSUME NEW st, NEW lev, Certified(prog, st, lev), OnCourse(st, lev),
         NEW l, IsIns(prog.text, l), InLine(st, l, pc), Len(frames) <= lev[l],
         AluStep
  PROVE  StepIn(st, lev)
<1>1. Here.op \in Ops /\ status = "running"
  BY DEF AluStep, On
<1>2. Here.op \notin {"other", "exit", "ja", "call", "callx", "lddw"}
  BY <1>1 DEF Ops, OldOps, PqrOps, Shifts
<1>3. Harmless(Here)
  BY <1>2, AtLine DEF OnCourse, Certified, IsIns, NeverFaults
<1>4. PICK a \in Possible(Value(Here.dst)), b \in Possible(Operand) :
        IF DividesByZero(Here.op, Here.w, b) THEN Stop("by zero")
        ELSE IF Overflows(Here.op, Here.w, a, b) THEN Stop("overflow")
        ELSE IF Here.op \in Shifts /\ Here.src = Imm /\ Here.imm \notin 0 .. Bits(Here.w) - 1
          THEN Stop("shift")
        ELSE Compute(a, b)
  BY DEF AluStep
<1>5. Here.op \in Divisions =>
        b = Immediate(Here.op, Here.w, Here.imm) /\ Unsigned(Here.w, b) # 0 /\ Signed(Here.w, b) # -1
  BY <1>3 DEF Harmless, Operand, Possible
<1>6. ~ DividesByZero(Here.op, Here.w, b) /\ ~ Overflows(Here.op, Here.w, a, b)
  BY <1>5 DEF DividesByZero, Overflows, Divisions
<1>7. Here.op \in Shifts /\ Here.src = Imm => Here.imm \in 0 .. Bits(Here.w) - 1
  BY <1>3 DEF Harmless
<1>8. Compute(a, b)
  BY <1>4, <1>6, <1>7
<1>9. Goto(pc + 1) /\ UNCHANGED frames
  BY <1>8 DEF Compute
<1>10. QED
  BY <1>1, <1>2, <1>9, NextLineIn

(* Every step of a certified seed.                                         *)
LEMMA NextIn ==
  ASSUME NEW st, NEW lev, Certified(prog, st, lev), OnCourse(st, lev), Next
  PROVE  StepIn(st, lev)
<1>1. PICK l : IsIns(prog.text, l) /\ InLine(st, l, pc) /\ Len(frames) <= lev[l]
  BY DEF OnCourse
<1>2. InText /\ Supported /\ Here.op # "syscall"
  <2>1. InText /\ Here.op = prog.text[l].op
    BY <1>1, AtLine DEF OnCourse
  <2>2. QED
    BY <1>1, <2>1 DEF Certified, IsIns, NeverFaults, Supported
<1>3. ~ LeaveText /\ ~ Unsupported /\ ~ Unresolved
  BY <1>2 DEF LeaveText, Unsupported, Unresolved, On
<1>4. CASE DataStep
  BY <1>1, <1>4, DataStepIn
<1>5. CASE Branch
  BY <1>1, <1>5, BranchIn
<1>6. CASE Return
  BY <1>1, <1>6, ReturnIn
<1>7. CASE DoCall
  BY <1>1, <1>7, DoCallIn
<1>8. CASE Access
  BY <1>1, <1>8, AccessIn
<1>9. CASE MoveStep
  BY <1>1, <1>9, MoveStepIn
<1>10. CASE AluStep
  BY <1>1, <1>10, AluStepIn
<1>11. QED
  BY <1>3, <1>4, <1>5, <1>6, <1>7, <1>8, <1>9, <1>10 DEF Next

Certifiable(p) == \E st, lev : Certified(p, st, lev)

(* The inductive invariant of the seeds that have a certificate.           *)
CertifiedInv == \A st, lev : Certified(prog, st, lev) => OnCourse(st, lev)

(* CertifiedInv is inductive.                                              *)
LEMMA CertifiedStarts ==
  ASSUME Init
  PROVE  CertifiedInv
<1>1. SUFFICES ASSUME NEW st, NEW lev, Certified(prog, st, lev) PROVE OnCourse(st, lev)
  BY DEF CertifiedInv
<1> DEFINE text == prog.text
<1>2. /\ text \in Seq(Lines) /\ Len(text) \in Nat /\ Len(text) >= 1
      /\ DOMAIN text = 1 .. Len(text) /\ \A l \in 1 .. Len(text) : text[l] \in Lines
      /\ Starts(text, st) /\ LabelsAreHeads(text)
  BY <1>1 DEF Certified
<1>3. st[1] = 0
  BY <1>2 DEF Starts
<1>4. PICK m : IsIns(text, m) /\ st[m] = 0
  <2>1. 1 \in 1 .. Len(text) /\ text[1].kind \in {"label", "ins"}
    BY <1>2 DEF Lines
  <2>2. CASE text[1].kind = "ins"
    BY <1>3, <2>1, <2>2 DEF IsIns
  <2>3. CASE text[1].kind = "label"
    <3>1. IsHead(text, 1 + 1)
      BY <1>2, <2>1, <2>3 DEF LabelsAreHeads
    <3>2. st[1 + 1] = st[1]
      BY <1>1, <2>1, <2>3, SlotOfLabel
    <3>3. QED
      BY <1>3, <3>1, <3>2 DEF IsHead
  <2>4. QED
    BY <2>1, <2>2, <2>3
<1>5. pc = 0
  <2>1. CASE \E h \in Heads(prog.text) : h.name = Entrypoint
    <3>1. pc = SlotOf(Entrypoint)
      BY <2>1 DEF Init
    <3>2. PICK h \in Heads(text) : h.name = Entrypoint
      BY <2>1
    <3>3. PICK k \in 1 .. Len(text) : text[k].kind = "label" /\ h = [name |-> text[k].name, slot |-> st[k]]
      BY <1>2, <3>2, HeadsOfText
    <3>4. text[k].name = Entrypoint
      BY <3>2, <3>3
    <3>5. k = 1
      BY <1>2, <3>3, <3>4 DEF LabelsAreHeads
    <3>6. SlotOf(text[k].name) = st[k]
      BY <1>1, <3>3, SlotOfLabel
    <3>7. QED
      BY <1>3, <3>1, <3>4, <3>5, <3>6
  <2>2. CASE ~ \E h \in Heads(prog.text) : h.name = Entrypoint
    BY <2>2 DEF Init
  <2>3. QED
    BY <2>1, <2>2
<1>6. InLine(st, m, pc) /\ lev[m] \in 0 .. 6
  BY <1>1, <1>4, <1>5, LineBegins
<1>7. frames = <<>> /\ status = "running" /\ code = Slots(text)
  BY DEF Init
<1>8. "running" \notin Faults
  BY DEF Faults
<1>9. Len(frames) = 0 /\ ReturnsTo(st, lev, frames)
  BY <1>7 DEF ReturnsTo
<1>10. QED
  BY <1>4, <1>6, <1>7, <1>8, <1>9 DEF OnCourse, Announced

LEMMA CertifiedKept ==
  ASSUME CertifiedInv, [Next]_vars
  PROVE  CertifiedInv'
<1>1. prog' = prog
  BY DEF vars, Next, LeaveText, Unsupported, Unresolved, DataStep, Branch, Return, DoCall,
         Access, MoveStep, AluStep, Compute, Goto, Stop
<1>2. SUFFICES ASSUME NEW st, NEW lev, Certified(prog, st, lev) PROVE OnCourse(st, lev)'
  BY <1>1 DEF CertifiedInv
<1>3. OnCourse(st, lev)
  BY <1>2 DEF CertifiedInv
<1>4. CASE Next
  <2>1. CASE Stops
    BY <1>3, <2>1 DEF Stops, OnCourse, Announced, InLine, ReturnsTo
  <2>2. CASE Leads(st, lev)
    <3>1. status' \notin Faults
      BY <2>2 DEF Leads, Faults
    <3>2. code' = Slots(prog'.text)
      BY <1>3, <2>2 DEF Leads, OnCourse
    <3>3. PICK m : IsIns(prog.text, m) /\ InLine(st, m, pc') /\ Len(frames') <= lev[m]
      BY <2>2 DEF Leads
    <3>4. InLine(st, m, pc)'
      BY <1>1, <3>3 DEF InLine
    <3>5. ReturnsTo(st, lev, frames)'
      BY <1>1, <2>2 DEF Leads, ReturnsTo
    <3>6. QED
      BY <1>1, <3>1, <3>2, <3>3, <3>4, <3>5 DEF OnCourse, Announced
  <2>3. QED
    BY <1>2, <1>3, <1>4, <2>1, <2>2, NextIn DEF StepIn
<1>5. CASE UNCHANGED vars
  BY <1>3, <1>5 DEF vars, OnCourse, Announced, InLine, ReturnsTo
<1>6. QED
  BY <1>4, <1>5

(* A certified seed enters its functions by calls.                         *)
LEMMA CertifiedEnters ==
  ASSUME CertifiedInv, Certifiable(prog), Next, pc' # pc
  PROVE  pc' \in HeadSlots <=> Here.op \in {"call", "callx"}
<1>1. PICK st, lev : Certified(prog, st, lev)
  BY DEF Certifiable
<1>2. OnCourse(st, lev)
  BY <1>1 DEF CertifiedInv
<1>3. Leads(st, lev)
  BY <1>1, <1>2, NextIn DEF StepIn, Stops
<1>4. PICK m : /\ IsIns(prog.text, m) /\ InLine(st, m, pc')
               /\ (pc' = st[m] /\ IsHead(prog.text, m)) <=> Here.op \in {"call", "callx"}
  BY <1>3 DEF Leads
<1>5. pc' \in Nat /\ st[m] <= pc' /\ pc' < st[m + 1]
  BY <1>4 DEF InLine
<1>6. QED
  BY <1>1, <1>4, <1>5, SlotsOfHeads

-----------------------------------------------------------------------------
(* Numbers of the two widths.                                              *)

(* Half a width, the widths and their halves.                              *)
LEMMA Powers ==
  /\ 2 ^ (W - 1) \in Nat /\ 2 ^ (W - 1) >= 16
  /\ 2 ^ W \in Nat /\ 2 ^ W = 2 * 2 ^ (W - 1)
  /\ 2 ^ (2 * W - 1) \in Nat /\ 2 ^ (2 * W - 1) = 2 ^ W * 2 ^ (W - 1)
  /\ 2 ^ (2 * W) \in Nat /\ 2 ^ (2 * W) = 2 * 2 ^ (2 * W - 1) /\ 2 ^ (2 * W) = 2 ^ W * 2 ^ W
  /\ 2 ^ (2 * W - 1) > 2 ^ W
<1> DEFINE h == 2 ^ (W - 1)
           k == 2 ^ W
           hh == 2 ^ (2 * W - 1)
           kk == 2 ^ (2 * W)
<1>1. /\ h \in Nat /\ k \in Nat /\ hh \in Nat /\ kk \in Nat /\ h >= 16 /\ k = 2 * h
      /\ kk = k * k /\ kk = 2 * hh
  BY PowersOfTwo
<1> HIDE DEF h, k, hh, kk
<1>2. kk = 2 * (k * h)
  BY <1>1
<1>3. k * h \in Nat /\ hh = k * h
  <2>1. k * h \in Nat
    BY <1>1
  <2>2. QED
    BY <1>1, <1>2, <2>1
<1>4. k * h >= k * 16
  BY <1>1
<1>5. hh > k
  BY <1>1, <1>3, <1>4
<1>6. QED
  BY <1>1, <1>3, <1>5 DEF h, k, hh, kk

LEMMA Widths ==
  /\ \A v : Unsigned(32, v) = v % 2 ^ W /\ Unsigned(64, v) = v % 2 ^ (2 * W)
  /\ \A v : Signed(32, v) = IF v % 2 ^ W < 2 ^ (W - 1) THEN v % 2 ^ W ELSE (v % 2 ^ W) - 2 ^ W
  /\ \A v : Signed(64, v) = IF v % 2 ^ (2 * W) < 2 ^ (2 * W - 1) THEN v % 2 ^ (2 * W)
                                                              ELSE (v % 2 ^ (2 * W)) - 2 ^ (2 * W)
<1>1. Bits(32) = W /\ Bits(64) = 2 * W
  BY DEF Bits
<1>2. QED
  BY <1>1 DEF Unsigned, Signed

(* A small number means the same everywhere.                               *)
LEMMA SmallNumbers ==
  ASSUME NEW v \in 0 .. 2 ^ (W - 1) - 1, NEW w \in {32, 64}, NEW op
  PROVE  Immediate(op, w, v) = v /\ Known(v) /\ Unsigned(w, v) = v /\ Signed(w, v) = v
<1> DEFINE h == 2 ^ (W - 1)
           k == 2 ^ W
           hh == 2 ^ (2 * W - 1)
           kk == 2 ^ (2 * W)
<1>1. /\ h \in Nat /\ k \in Nat /\ hh \in Nat /\ kk \in Nat /\ h >= 16 /\ k = 2 * h
      /\ kk = 2 * hh /\ hh > k
  BY Powers
<1>2. v \in Nat /\ v < h
  BY <1>1
<1> HIDE DEF h, k, hh, kk
<1>3. v % k = v /\ v % kk = v
  BY <1>1, <1>2
<1>4. Unsigned(32, v) = v /\ Unsigned(64, v) = v
  BY <1>3, Widths DEF k, kk
<1>5. Signed(32, v) = v /\ Signed(64, v) = v
  BY <1>1, <1>2, <1>3, Widths DEF h, hh, k, kk
<1>6. Known(v)
  BY <1>1, <1>2 DEF Known, U64Max, kk
<1>7. QED
  BY <1>4, <1>5, <1>6 DEF Immediate

-----------------------------------------------------------------------------
(* Lines that can stand in a certified seed wherever they like.            *)

Fine(p) ==
  {line \in Lines :
     line.kind = "ins" /\ line.op \notin {"jeq", "ja", "call", "callx"} /\ NeverFaults(p, line)}

(* Lines that are fine in a body without jumps and calls.                  *)
LEMMA FineData ==
  ASSUME NEW p, NEW n \in Nat, n >= 1
  PROVE  O(n) \in Fine(p)
<1>1. O(n) \in Lines /\ O(n).kind = "ins" /\ O(n).op = "other" /\ O(n).size = n
  BY OFields
<1>2. QED
  BY <1>1, PlainFields DEF Fine, NeverFaults, Harmless, Lacking, OldOps, PqrOps, Divisions,
     SignedDivisions, Shifts

LEMMA FineExit ==
  ASSUME NEW p
  PROVE  Exit \in Fine(p)
  BY PlainFields DEF Fine, NeverFaults, Harmless, Lacking, OldOps, PqrOps, Divisions,
     SignedDivisions, Shifts

LEMMA FineLddw ==
  ASSUME NEW p, p.version # "V2"
  PROVE  Lddw \in Fine(p)
<1>1. Lddw \in Lines /\ Lddw.kind = "ins" /\ Lddw.op = "lddw"
  BY LddwFields
<1>2. QED
  BY <1>1, PlainFields DEF Fine, NeverFaults, Harmless, Lacking, OldOps, PqrOps, Divisions,
     SignedDivisions, Shifts

LEMMA FineMem ==
  ASSUME NEW p, NEW off \in Nat, NEW size \in Nat, off + size <= p.mem
  PROVE  Mem(off, size) \in Fine(p)
<1> DEFINE line == Mem(off, size)
<1>1. /\ line \in Lines /\ line.kind = "ins" /\ line.op = "mem" /\ line.off = off
      /\ line.size = size /\ line.src # 1
  BY MemFields DEF Other
<1>a. line.off >= 0 /\ line.off + line.size <= p.mem
  BY <1>1
<1> HIDE DEF line
<1>b. /\ line.op \notin Lacking(p.version) \cup {Half.op, "syscall", "other", "jeq", "ja", "call", "callx"}
      /\ line.op \notin Divisions /\ line.op \notin Shifts
  BY <1>1, PlainFields DEF Lacking, OldOps, PqrOps, Divisions, SignedDivisions, Shifts
<1>2. line \in Fine(p)
  BY <1>1, <1>a, <1>b DEF Fine, NeverFaults, Harmless
<1>3. QED
  BY <1>2 DEF line

LEMMA FineMemR1 ==
  ASSUME NEW p, NEW off \in Nat, NEW size \in Nat, NEW dst \in Int, off + size <= p.mem,
         p.says = "memory"
  PROVE  MemR1(off, size, dst) \in Fine(p)
<1> DEFINE line == MemR1(off, size, dst)
<1>1. /\ line \in Lines /\ line.kind = "ins" /\ line.op = "mem" /\ line.off = off
      /\ line.size = size
  BY MemR1Fields
<1>a. line.off >= 0 /\ line.off + line.size <= p.mem
  BY <1>1
<1> HIDE DEF line
<1>b. /\ line.op \notin Lacking(p.version) \cup {Half.op, "syscall", "other", "jeq", "ja", "call", "callx"}
      /\ line.op \notin Divisions /\ line.op \notin Shifts
  BY <1>1, PlainFields DEF Lacking, OldOps, PqrOps, Divisions, SignedDivisions, Shifts
<1>2. line \in Fine(p)
  BY <1>1, <1>a, <1>b DEF Fine, NeverFaults, Harmless
<1>3. QED
  BY <1>2 DEF line

(* A multiplication of registers.                                          *)
Muls == {"mul", "lmul"}

LEMMA FineAluReg ==
  ASSUME NEW p, NEW op \in Muls, op \notin Lacking(p.version), NEW w \in {32, 64},
         NEW dst \in Int, NEW src \in Int, src # Imm
  PROVE  AluReg(op, w, dst, src) \in Fine(p)
<1> DEFINE line == AluReg(op, w, dst, src)
<1>0. op \in OpNames
  BY DEF Muls, OpNames, Ops, OldOps, PqrOps
<1>1. line \in Lines /\ line.kind = "ins" /\ line.op = op /\ line.src = src
  BY <1>0, AluRegFields
<1> HIDE DEF line
<1>2. op \notin {Half.op, "syscall", "other", "mem", "jeq", "ja", "call", "callx"}
      /\ op \notin Divisions /\ op \notin Shifts
  BY PlainFields DEF Muls, Divisions, SignedDivisions, Shifts
<1>3. line \in Fine(p)
  BY <1>1, <1>2 DEF Fine, NeverFaults, Harmless
<1>4. QED
  BY <1>3 DEF line

(* A shift by an immediate in its range, another operation by one that is  *)
(* small and not 0.                                                        *)
LEMMA FineAluImm ==
  ASSUME NEW p, NEW op \in Ops, op \notin Lacking(p.version), NEW w \in {32, 64},
         NEW dst \in Int, NEW v \in Int,
         op \in Shifts => v \in 0 .. Bits(w) - 1,
         op \in Divisions => v \in 1 .. 2 ^ (W - 1) - 1
  PROVE  AluImm(op, w, dst, v) \in Fine(p)
<1> DEFINE line == AluImm(op, w, dst, v)
<1>0. op \in OpNames
  BY DEF OpNames
<1>1. /\ line \in Lines /\ line.kind = "ins" /\ line.op = op /\ line.w = w /\ line.src = Imm
      /\ line.imm = v
  BY <1>0, AluImmFields
<1> HIDE DEF line
<1>2. op \notin {Half.op, "syscall", "other", "mem", "jeq", "ja", "call", "callx"}
  BY PlainFields DEF Ops, OldOps, PqrOps, Shifts
<1>3. ASSUME op \in Divisions
      PROVE  LET u == Immediate(op, w, v) IN Known(u) /\ Unsigned(w, u) # 0 /\ Signed(w, u) # -1
  <2>1. v \in 0 .. 2 ^ (W - 1) - 1 /\ v >= 1
    BY <1>3, Powers
  <2>2. QED
    BY <2>1, SmallNumbers
<1>4. Harmless(line)
  BY <1>1, <1>3 DEF Harmless
<1>5. line \in Fine(p)
  BY <1>1, <1>2, <1>4 DEF Fine, NeverFaults
<1>6. QED
  BY <1>5 DEF line

(* A text of fine lines that ends with an exit.                            *)
LEMMA StraightSeeds ==
  ASSUME NEW p, p.text \in Seq(Fine(p)), Len(p.text) >= 1, p.text[Len(p.text)] = Exit
  PROVE  Certifiable(p)
<1> DEFINE text == p.text
           lev == [l \in 1 .. Len(text) |-> 0]
<1>1. Len(text) \in Nat /\ Len(text) >= 1 /\ \A l \in 1 .. Len(text) : text[l] \in Fine(p)
  OBVIOUS
<1>2. text \in Seq(Lines) /\ \A l \in 1 .. Len(text) : text[l].kind = "ins"
  BY <1>1 DEF Fine
<1>3. PICK st : Starts(text, st)
  BY <1>2, StartsExist
<1>4. LabelsAreHeads(text)
  BY <1>2 DEF LabelsAreHeads
<1>5. ASSUME NEW l \in 1 .. Len(text)
      PROVE  /\ NeverFaults(p, text[l])
             /\ StaysInFunction(text, st, lev, l)
             /\ CallsUpwards(text, st, lev, l)
  <2>1. text[l].op \notin {"jeq", "ja", "call", "callx"} /\ NeverFaults(p, text[l])
    BY <1>1 DEF Fine
  <2>2. CASE l = Len(text)
    BY <2>1, <2>2, PlainFields DEF StaysInFunction, CallsUpwards
  <2>3. CASE l # Len(text)
    <3>1. l + 1 \in 1 .. Len(text)
      BY <1>1, <2>3
    <3>2. QED
      BY <1>2, <2>1, <3>1 DEF StaysInFunction, CallsUpwards, IsIns
  <2>4. QED
    BY <2>2, <2>3
<1>6. lev \in [1 .. Len(text) -> 0 .. 6] /\ text[Len(text)].kind = "ins"
  BY <1>1, <1>2
<1>7. Certified(p, st, lev)
  BY <1>1, <1>2, <1>3, <1>4, <1>5, <1>6 DEF Certified
<1>8. QED
  BY <1>7 DEF Certifiable

(* The fields of a seed.                                                   *)
LEMMA SeedFields ==
  ASSUME NEW version, NEW says, NEW mem, NEW shape
  PROVE  /\ Seed(version, says, mem, shape).version = version
         /\ Seed(version, says, mem, shape).says = says
         /\ Seed(version, says, mem, shape).mem = mem
         /\ Seed(version, says, mem, shape).text = shape
         /\ Seed(version, says, mem, shape).case = NoCase
  BY DEF Seed

LEMMA RunsFields ==
  ASSUME NEW shape
  PROVE  /\ Runs(shape).version = "V0" /\ Runs(shape).says = "runs" /\ Runs(shape).mem = 0
         /\ Runs(shape).text = shape
  BY SeedFields DEF Runs

(* Texts of some fine lines and an exit are certified.                     *)
LEMMA ShortSeeds ==
  ASSUME NEW p, NEW a \in Fine(p), NEW b \in Fine(p), NEW c \in Fine(p), NEW d \in Fine(p),
         \/ p.text = <<a, Exit>>
         \/ p.text = <<a, b, Exit>>
         \/ p.text = <<a, b, c, Exit>>
         \/ p.text = <<a, b, c, d, Exit>>
  PROVE  Certifiable(p)
<1> DEFINE S == Fine(p)
           e == Exit
<1>1. e \in S
  BY FineExit
<1> HIDE DEF S, e
<1>2. a \in S /\ b \in S /\ c \in S /\ d \in S
  BY DEF S
<1>3. CASE p.text = <<a, e>>
  <2>1. p.text \in Seq(S) /\ Len(p.text) >= 1 /\ p.text[Len(p.text)] = e
    BY <1>1, <1>2, <1>3
  <2>2. QED
    BY <2>1, StraightSeeds DEF S, e
<1>4. CASE p.text = <<a, b, e>>
  <2>1. p.text \in Seq(S) /\ Len(p.text) >= 1 /\ p.text[Len(p.text)] = e
    BY <1>1, <1>2, <1>4
  <2>2. QED
    BY <2>1, StraightSeeds DEF S, e
<1>5. CASE p.text = <<a, b, c, e>>
  <2>1. p.text \in Seq(S) /\ Len(p.text) >= 1 /\ p.text[Len(p.text)] = e
    BY <1>1, <1>2, <1>5
  <2>2. QED
    BY <2>1, StraightSeeds DEF S, e
<1>6. CASE p.text = <<a, b, c, d, e>>
  <2>1. p.text \in Seq(S) /\ Len(p.text) >= 1 /\ p.text[Len(p.text)] = e
    BY <1>1, <1>2, <1>6
  <2>2. QED
    BY <2>1, StraightSeeds DEF S, e
<1>7. QED
  BY <1>3, <1>4, <1>5, <1>6 DEF e

LEMMA LongSeeds ==
  ASSUME NEW p, NEW body \in Seq(Fine(p)), p.text = body \o <<Exit>>
  PROVE  Certifiable(p)
<1> DEFINE S == Fine(p)
           e == Exit
<1>1. e \in S
  BY FineExit
<1> HIDE DEF S, e
<1>2. body \in Seq(S) /\ p.text = body \o <<e>>
  BY DEF S, e
<1>3. p.text \in Seq(S) /\ Len(p.text) >= 1 /\ p.text[Len(p.text)] = e
  BY <1>1, <1>2
<1>4. QED
  BY <1>3, StraightSeeds DEF S, e

LEMMA PlainRuns ==
  ASSUME NEW n \in Nat, n >= 1
  PROVE  Certifiable(Runs(<<O(n), Exit>>))
<1> DEFINE p == Runs(<<O(n), Exit>>)
<1>1. p.text = <<O(n), Exit>> /\ O(n) \in Fine(p)
  BY FineData, RunsFields
<1> HIDE DEF p
<1>2. Certifiable(p)
  BY <1>1, ShortSeeds
<1>3. QED
  BY <1>2 DEF p

LEMMA LddwRuns ==
  /\ \A n, m \in Nat \ {0} : Certifiable(Runs(<<O(n), Lddw, O(m), Exit>>))
  /\ \A n \in Nat \ {0} : Certifiable(Runs(<<O(n), Lddw, Exit>>))
<1>1. ASSUME NEW n \in Nat \ {0}, NEW m \in Nat \ {0}, NEW p, p.version = "V0",
             p.text \in {<<O(n), Lddw, O(m), Exit>>, <<O(n), Lddw, Exit>>}
      PROVE  Certifiable(p)
  <2>1. O(n) \in Fine(p) /\ O(m) \in Fine(p) /\ Lddw \in Fine(p)
    BY <1>1, FineData, FineLddw
  <2>2. QED
    BY <1>1, <2>1, ShortSeeds
<1>2. ASSUME NEW n \in Nat \ {0}, NEW m \in Nat \ {0}
      PROVE  /\ Certifiable(Runs(<<O(n), Lddw, O(m), Exit>>))
             /\ Certifiable(Runs(<<O(n), Lddw, Exit>>))
  BY <1>1, RunsFields
<1>3. QED
  BY <1>2

Fit(p) == p.says \in {"runs", "loops", "memory"} => Certifiable(p)

LEMMA FlattenIn ==
  ASSUME NEW X, NEW ss \in Seq(Seq(X))
  PROVE  FlattenSeq(ss) \in Seq(X)
<1>1. PICK st : Sums(ss, st)
  BY SumsExist
<1>2. QED
  BY <1>1, FlattenLayout DEF InRow

LEMMA LongerSeeds ==
  ASSUME NEW p, NEW body \in Seq(Fine(p)), NEW tail \in Seq(Fine(p)), Len(tail) >= 1,
         tail[Len(tail)] = Exit, p.text = body \o tail
  PROVE  Certifiable(p)
<1> DEFINE S == Fine(p)
           e == Exit
<1> HIDE DEF S, e
<1>1. /\ body \in Seq(S) /\ tail \in Seq(S) /\ p.text = body \o tail /\ Len(tail) >= 1
      /\ tail[Len(tail)] = e
  BY DEF S, e
<1>2. /\ p.text \in Seq(S) /\ Len(p.text) = Len(body) + Len(tail)
      /\ p.text[Len(body) + Len(tail)] = tail[Len(tail)]
  BY <1>1
<1>3. Len(p.text) >= 1 /\ p.text[Len(p.text)] = e
  BY <1>1, <1>2
<1>4. QED
  BY <1>2, <1>3, StraightSeeds DEF S, e

(* The sets of the corpus, one by one.                                     *)
LEMMA PlainCorpus ==
  \A p \in GenMov \cup GenBounce \cup GenAddSub \cup GenLogic \cup GenShifts : Fit(p)
<1>1. SUFFICES ASSUME NEW p \in GenMov \cup GenBounce \cup GenAddSub \cup GenLogic \cup GenShifts
               PROVE  Certifiable(p)
  BY DEF Fit
<1>2. CASE \E n \in {2, 3, 4, 5, 6, 7, 21, 23} : p = Runs(<<O(n), Exit>>)
  BY <1>2, PlainRuns
<1>3. CASE p = Runs(<<O(2), Lddw, O(1), Exit>>)
  BY <1>3, LddwRuns
<1>4. QED
  BY <1>2, <1>3 DEF GenMov, GenBounce, GenAddSub, GenLogic, GenShifts

(* Accesses of the whole memory, or of a part of it.                       *)
LEMMA MemoryCorpus ==
  \A p \in GenLmul128 \cup GenByteswap \cup GenMemory \cup GenLdxStxVariants : Fit(p)
<1>1. ASSUME NEW p \in GenLmul128 PROVE Certifiable(p)
  <2>1. p.text = <<O(36), Mem(8, 8), O(4), Mem(0, 8), Exit>> /\ p.mem = 16
    BY SeedFields DEF GenLmul128
  <2>2. O(36) \in Fine(p) /\ Mem(8, 8) \in Fine(p) /\ O(4) \in Fine(p) /\ Mem(0, 8) \in Fine(p)
    BY <2>1, FineData, FineMem
  <2>3. QED
    BY <2>1, <2>2, ShortSeeds
<1>2. ASSUME NEW p \in GenByteswap PROVE Certifiable(p)
  <2>1. PICK size \in {2, 4, 8} : p.text = <<O(1), Mem(0, size), O(1), Exit>> /\ p.mem = size
    BY SeedFields DEF GenByteswap
  <2>2. O(1) \in Fine(p) /\ Mem(0, size) \in Fine(p)
    BY <2>1, FineData, FineMem
  <2>3. QED
    BY <2>1, <2>2, ShortSeeds
<1>3. ASSUME NEW p \in GenMemory PROVE Certifiable(p)
  <2>1. PICK version \in {"V0", "V4"}, size \in Sizes :
          \/ p = Seed(version, "runs", size + 4, <<O(1), Mem(2, size), Exit>>)
          \/ p = Seed(version, "runs", 12, <<O(1), Mem(2, size), Mem(2, 8), Exit>>)
          \/ p = Seed(version, "runs", size + 4,
                      <<O(IF size = 8 THEN 4 ELSE 2), Mem(2, size), Mem(2, size), Exit>>)
    BY SMTT(30) DEF GenMemory
  <2>2. size \in Nat /\ size <= 8
    BY DEF Sizes
  <2>3. CASE p = Seed(version, "runs", size + 4, <<O(1), Mem(2, size), Exit>>)
    <3>1. p.text = <<O(1), Mem(2, size), Exit>> /\ p.mem = size + 4
      BY <2>3, SeedFields
    <3>2. O(1) \in Fine(p) /\ Mem(2, size) \in Fine(p)
      BY <2>2, <3>1, FineData, FineMem
    <3>3. QED
      BY <3>1, <3>2, ShortSeeds
  <2>4. CASE p = Seed(version, "runs", 12, <<O(1), Mem(2, size), Mem(2, 8), Exit>>)
    <3>1. p.text = <<O(1), Mem(2, size), Mem(2, 8), Exit>> /\ p.mem = 12
      BY <2>4, SeedFields
    <3>2. O(1) \in Fine(p) /\ Mem(2, size) \in Fine(p) /\ Mem(2, 8) \in Fine(p)
      BY <2>2, <3>1, FineData, FineMem
    <3>3. QED
      BY <3>1, <3>2, ShortSeeds
  <2>5. CASE p = Seed(version, "runs", size + 4,
                      <<O(IF size = 8 THEN 4 ELSE 2), Mem(2, size), Mem(2, size), Exit>>)
    <3> DEFINE n == IF size = 8 THEN 4 ELSE 2
    <3>0. n \in Nat /\ n >= 1
      OBVIOUS
    <3> HIDE DEF n
    <3>1. p.text = <<O(n), Mem(2, size), Mem(2, size), Exit>> /\ p.mem = size + 4
      BY <2>5, SeedFields DEF n
    <3>2. O(n) \in Fine(p) /\ Mem(2, size) \in Fine(p)
      BY <2>2, <3>0, <3>1, FineData, FineMem
    <3>3. QED
      BY <3>1, <3>2, ShortSeeds
  <2>6. QED
    BY <2>1, <2>3, <2>4, <2>5
<1>4. ASSUME NEW p \in GenLdxStxVariants, p.says # "fails" PROVE Certifiable(p)
  <2>1. p.text = <<O(2), Mem(0, 2), Mem(0, 2), Exit>> /\ p.mem = 2
    BY <1>4, SeedFields DEF GenLdxStxVariants, Fails
  <2>2. O(2) \in Fine(p) /\ Mem(0, 2) \in Fine(p)
    BY <2>1, FineData, FineMem
  <2>3. QED
    BY <2>1, <2>2, ShortSeeds
<1>5. QED
  BY <1>1, <1>2, <1>3, <1>4 DEF Fit

LEMMA HorCorpus == \A p \in GenHor64 : Fit(p)
<1>1. SUFFICES ASSUME NEW p \in GenHor64 PROVE Certifiable(p)
  BY DEF Fit
<1> DEFINE op == "hor"
<1>2. p.text = <<O(1), AluImm(op, 64, 0, 1), AluImm(op, 64, 0, 1), Exit>> /\ p.version = "V2"
  BY SeedFields DEF GenHor64
<1>3. op \in Ops /\ op \notin Lacking(p.version) /\ op \notin Shifts /\ op \notin Divisions
  BY <1>2 DEF Ops, Lacking, OldOps, Shifts, Divisions, SignedDivisions
<1> HIDE DEF op
<1>4. O(1) \in Fine(p) /\ AluImm(op, 64, 0, 1) \in Fine(p)
  BY <1>3, FineData, FineAluImm
<1>5. QED
  BY <1>2, <1>4, ShortSeeds

(* Accesses one after the other.                                           *)
LEMMA FineSweeps ==
  ASSUME NEW p, NEW n \in Nat, NEW size \in {1, 2, 4, 8}, p.mem \in Nat, n * size <= p.mem
  PROVE  /\ \A k \in 1 .. n : Mem((k - 1) * size, size) \in Fine(p)
         /\ Sweep(n, size) \in Seq(Fine(p))
         /\ \A after \in Nat \ {0} : SweepWith(n, size, after) \in Seq(Fine(p))
<1>1. ASSUME NEW k \in 1 .. n PROVE Mem((k - 1) * size, size) \in Fine(p)
  <2> DEFINE off == (k - 1) * size
  <2>1. off \in Nat /\ size \in Nat /\ off + size <= n * size /\ n * size \in Nat
    OBVIOUS
  <2>a. off + size <= p.mem
    BY <2>1
  <2> HIDE DEF off
  <2>2. Mem(off, size) \in Fine(p)
    BY <2>1, <2>a, FineMem
  <2>3. QED
    BY <2>2 DEF off
<1>2. Sweep(n, size) \in Seq(Fine(p))
  <2> DEFINE M(k) == Mem((k - 1) * size, size)
  <2>1. \A k \in 1 .. n : M(k) \in Fine(p)
    BY <1>1
  <2>2. Sweep(n, size) = [k \in 1 .. n |-> M(k)]
    BY DEF Sweep
  <2> HIDE DEF M
  <2>3. QED
    BY <2>1, <2>2
<1>3. ASSUME NEW after \in Nat \ {0} PROVE SweepWith(n, size, after) \in Seq(Fine(p))
  <2> DEFINE M(k) == Mem((k - 1) * size, size)
             ss == [k \in 1 .. n |-> <<M(k), O(after)>>]
  <2>1. \A k \in 1 .. n : M(k) \in Fine(p)
    BY <1>1
  <2>2. SweepWith(n, size, after) = FlattenSeq(ss)
    BY DEF SweepWith
  <2>3. O(after) \in Fine(p)
    BY FineData
  <2> HIDE DEF M
  <2>4. \A k \in 1 .. n : <<M(k), O(after)>> \in Seq(Fine(p))
    BY <2>1, <2>3
  <2>5. ss \in Seq(Seq(Fine(p)))
    BY <2>4
  <2>6. QED
    BY <2>2, <2>5, FlattenIn
<1>4. QED
  BY <1>1, <1>2, <1>3

(* A head of data, a body and a tail.                                      *)
Framed(n, body, tail) == <<O(n)>> \o body \o tail

LEMMA FramedSeeds ==
  ASSUME NEW p, NEW n \in Nat \ {0}, NEW body \in Seq(Fine(p)), NEW a \in Fine(p), NEW b \in Fine(p),
         NEW tail, tail = <<Exit>> \/ tail = <<a, Exit>> \/ tail = <<a, b, Exit>>,
         p.text = Framed(n, body, tail)
  PROVE  Certifiable(p)
<1> DEFINE S == Fine(p)
           e == Exit
           o == O(n)
           pre == <<o>> \o body
<1>1. e \in S /\ o \in S
  BY FineExit, FineData
<1> HIDE DEF S, e, o
<1>2. body \in Seq(S) /\ a \in S /\ b \in S
  BY DEF S
<1>3. pre \in Seq(S)
  BY <1>1, <1>2
<1>4. tail \in Seq(S) /\ Len(tail) >= 1 /\ tail[Len(tail)] = e
  <2>1. CASE tail = <<e>>
    BY <1>1, <2>1
  <2>2. CASE tail = <<a, e>>
    BY <1>1, <1>2, <2>2
  <2>3. CASE tail = <<a, b, e>>
    BY <1>1, <1>2, <2>3
  <2>4. QED
    BY <2>1, <2>2, <2>3 DEF e
<1>5. p.text = pre \o tail
  BY DEF Framed, o
<1> HIDE DEF pre
<1>6. QED
  BY <1>3, <1>4, <1>5, LongerSeeds DEF S, e

LEMMA LoadsCorpus == \A p \in GenLdxAll : Fit(p)
<1>1. SUFFICES ASSUME NEW p \in GenLdxAll PROVE Certifiable(p)
  BY DEF Fit
<1>2. PICK n \in {<<1, 1>>, <<2, 2>>, <<2, 1>>, <<4, 1>>} :
        p = Seed("V0", "runs", 10 * n[1], Framed(2, SweepWith(10, n[1], n[2]), <<O(9), Exit>>))
  BY DEF GenLdxAll, Framed
<1> DEFINE size == n[1]
           after == n[2]
<1>3. size \in {1, 2, 4, 8} /\ after \in Nat \ {0}
  OBVIOUS
<1>4. p.text = Framed(2, SweepWith(10, size, after), <<O(9), Exit>>) /\ p.mem = 10 * size
  BY <1>2, SeedFields DEF size, after
<1> HIDE DEF size, after
<1>5. p.mem \in Nat /\ 10 * size <= p.mem
  BY <1>3, <1>4
<1>6. SweepWith(10, size, after) \in Seq(Fine(p))
  <2> DEFINE ten == 10
  <2>1. ten \in Nat /\ ten * size <= p.mem
    BY <1>5
  <2> HIDE DEF ten
  <2>2. SweepWith(ten, size, after) \in Seq(Fine(p))
    BY <1>3, <1>5, <2>1, FineSweeps
  <2>3. QED
    BY <2>2 DEF ten
<1>8. O(9) \in Fine(p)
  BY FineData
<1>7. QED
  BY <1>4, <1>6, <1>8, FramedSeeds

LEMMA StoresCorpus == \A p \in GenStxAll : Fit(p)
<1>1. SUFFICES ASSUME NEW p \in GenStxAll PROVE Certifiable(p)
  BY DEF Fit
<1>2. CASE p = Seed("V0", "runs", 8, Framed(9, Sweep(8, 1), <<Mem(0, 8), O(1), Exit>>))
  <2>1. p.text = Framed(9, Sweep(8, 1), <<Mem(0, 8), O(1), Exit>>) /\ p.mem = 8
    BY <1>2, SeedFields
  <2>2. Sweep(8, 1) \in Seq(Fine(p)) /\ Mem(0, 8) \in Fine(p) /\ O(1) \in Fine(p)
    BY <2>1, FineSweeps, FineMem, FineData
  <2>3. QED
    BY <2>1, <2>2, FramedSeeds
<1>3. CASE p = Seed("V0", "runs", 2, Framed(4, Sweep(2, 1), <<Mem(0, 2), O(1), Exit>>))
  <2>1. p.text = Framed(4, Sweep(2, 1), <<Mem(0, 2), O(1), Exit>>) /\ p.mem = 2
    BY <1>3, SeedFields
  <2>2. Sweep(2, 1) \in Seq(Fine(p)) /\ Mem(0, 2) \in Fine(p) /\ O(1) \in Fine(p)
    BY <2>1, FineSweeps, FineMem, FineData
  <2>3. QED
    BY <2>1, <2>2, FramedSeeds
<1>4. CASE p = Seed("V0", "runs", 10,
                 Framed(2, FlattenSeq([k \in 1 .. 9 |-> <<Mem(k - 1, 1), Mem(k, 1)>>]),
                        <<Mem(9, 1), Exit>>))
  <2> DEFINE M(k) == Mem(k, 1)
             ss == [k \in 1 .. 9 |-> <<M(k - 1), M(k)>>]
  <2>1. p.text = Framed(2, FlattenSeq(ss), <<M(9), Exit>>) /\ p.mem = 10
    BY <1>4, SeedFields
  <2>2. \A k \in 0 .. 9 : M(k) \in Fine(p)
    BY <2>1, FineMem
  <2> HIDE DEF M
  <2>3. \A k \in 1 .. 9 : <<M(k - 1), M(k)>> \in Seq(Fine(p))
    BY <2>2
  <2>4. ss \in Seq(Seq(Fine(p)))
    BY <2>3
  <2> HIDE DEF ss
  <2>5. FlattenSeq(ss) \in Seq(Fine(p)) /\ M(9) \in Fine(p)
    BY <2>2, <2>4, FlattenIn
  <2>6. QED
    BY <2>1, <2>5, FramedSeeds
<1>5. QED
  BY <1>2, <1>3, <1>4 DEF GenStxAll, Framed

-----------------------------------------------------------------------------
(* The templates without jumps and calls.                                  *)

(* The templates whose bodies are sequences of fine lines.                 *)
LEMMA BodiesIn ==
  ASSUME NEW n \in Nat, NEW S, NEW T, S \subseteq T
  PROVE  UpTo(n, S) \subseteq Seq(T)
<1>1. SUFFICES ASSUME NEW body \in UpTo(n, S) PROVE body \in Seq(T)
  OBVIOUS
<1>2. PICK k \in 1 .. n : body \in [1 .. k -> S]
  BY DEF UpTo
<1>3. k \in Nat /\ body = [i \in 1 .. k |-> body[i]] /\ \A i \in 1 .. k : body[i] \in T
  BY <1>2
<1>4. QED
  BY <1>3

LEMMA SmallDivisors ==
  \A v \in Divisors : v \in Int /\ v \in 1 .. 2 ^ (W - 1) - 1
  BY StressAssumption, Powers

LEMMA PlainIsFine == \A p : Plain \in Fine(p)
  BY FineData DEF Plain

LEMMA FineRegs ==
  ASSUME NEW p, NEW op \in Muls, op \notin Lacking(p.version)
  PROVE  AluReg(op, 64, Other, Other) \in Fine(p)
  BY FineAluReg DEF Other, Imm

LEMMA PressureFit ==
  ASSUME NEW version \in StressVersions
  PROVE  \A p \in RegisterPressure(version) : Fit(p)
<1> DEFINE ops == {Plain}
                  \cup {AluImm(op, 64, Other, s) : op \in {"lsh", "rsh", "arsh"},
                                                    s \in {0, Bits(64) - 1}}
                  \cup OldMul(version)
<1>1. SUFFICES ASSUME NEW p \in RegisterPressure(version) PROVE Certifiable(p)
  BY DEF Fit
<1>2. PICK body \in UpTo(MaxOps, ops) :
        p = Seed(version, "runs", 0, Framed(10, body, <<Exit>>))
  BY DEF RegisterPressure, Framed
<1>3. p.version = version /\ p.text = Framed(10, body, <<Exit>>)
  BY <1>2, SeedFields
<1>4. ops \subseteq Fine(p)
  <2>1. ASSUME NEW op \in Shifts, NEW s \in {0, Bits(64) - 1}
        PROVE  AluImm(op, 64, Other, s) \in Fine(p)
    <3>1. op \in Ops /\ op \notin Lacking(p.version) /\ op \notin Divisions
      BY DEF Ops, Shifts, Lacking, OldOps, PqrOps, Divisions, SignedDivisions
    <3>2. s \in Int /\ s \in 0 .. Bits(64) - 1
      BY WidthAssumption DEF Bits
    <3>3. QED
      BY <3>1, <3>2, FineAluImm DEF Other
  <2>2. ASSUME NEW line \in OldMul(version) PROVE line \in Fine(p)
    <3> DEFINE op == "mul"
    <3>1. line = AluReg(op, 64, Other, Other) /\ version # "V2"
      BY <2>2 DEF OldMul, UsesPqr
    <3>2. op \in Muls /\ op \notin Lacking(p.version)
      BY <1>3, <3>1 DEF Muls, Lacking, OldOps, PqrOps
    <3> HIDE DEF op
    <3>3. QED
      BY <3>1, <3>2, FineRegs
  <2>3. QED
    BY <2>1, <2>2, PlainIsFine DEF Shifts
<1> HIDE DEF ops
<1>5. body \in Seq(Fine(p))
  BY <1>4, BodiesIn, StressAssumption
<1>6. QED
  BY <1>3, <1>5, PlainIsFine, FramedSeeds

LEMMA MeteringFit ==
  ASSUME NEW version \in StressVersions
  PROVE  \A p \in MeteringStress(version) : Fit(p)
<1> DEFINE named == IF UsesPqr(version) THEN {"lmul", "udiv", "urem"} ELSE {"mul", "div", "mod"}
           ops == {Plain}
                  \cup {AluReg(op, 64, Other, Other) : op \in {o \in named : ~ ByImmediate(o)}}
                  \cup {AluImm(op, 64, Other, v) :
                          op \in {o \in named : ByImmediate(o)}, v \in Divisors}
<1>1. SUFFICES ASSUME NEW p \in MeteringStress(version) PROVE Certifiable(p)
  BY DEF Fit
<1>2. PICK body \in UpTo(MaxOps, ops) :
        p = Seed(version, "runs", 0, Framed(6, body, <<Exit>>))
  <2>1. MeteringStress(version) =
          {Seed(version, "runs", 0, <<O(6)>> \o body \o <<Exit>>) : body \in UpTo(MaxOps, ops)}
    BY DEF MeteringStress
  <2> HIDE DEF ops
  <2>2. QED
    BY <2>1 DEF Framed
<1>3. p.version = version /\ p.text = Framed(6, body, <<Exit>>)
  BY <1>2, SeedFields
<1>4. ops \subseteq Fine(p)
  <2>1. \A op \in named : op \notin Lacking(p.version)
    BY <1>3 DEF UsesPqr, Lacking, OldOps, PqrOps
  <2>2. ASSUME NEW op \in named, ~ ByImmediate(op) PROVE AluReg(op, 64, Other, Other) \in Fine(p)
    <3>1. op \in Muls
      BY <2>2 DEF ByImmediate, Muls
    <3>2. QED
      BY <2>1, <3>1, FineRegs
  <2>3. ASSUME NEW op \in named, ByImmediate(op), NEW v \in Divisors
        PROVE  AluImm(op, 64, Other, v) \in Fine(p)
    <3>1. op \in Ops /\ op \notin Shifts
      BY <2>3 DEF ByImmediate, Ops, OldOps, PqrOps, Shifts
    <3>2. v \in Int /\ v \in 1 .. 2 ^ (W - 1) - 1
      BY SmallDivisors
    <3> HIDE DEF named
    <3>3. QED
      BY <2>1, <3>1, <3>2, FineAluImm DEF Other
  <2>4. QED
    BY <2>2, <2>3, PlainIsFine
<1> HIDE DEF ops, named
<1>5. body \in Seq(Fine(p))
  BY <1>4, BodiesIn, StressAssumption
<1>6. QED
  BY <1>3, <1>5, PlainIsFine, FramedSeeds

LEMMA ElementOf ==
  ASSUME NEW T, NEW s \in Seq(T)
  PROVE  \A i \in 1 .. Len(s) : s[i] \in T
  OBVIOUS

LEMMA ShiftsFine ==
  ASSUME NEW p, NEW w \in {32, 64}, NEW amounts \in Seq(0 .. Bits(w) - 1)
  PROVE  ShiftAll(w, amounts) \in Seq(Fine(p))
<1> DEFINE op(k) == <<"lsh", "rsh", "arsh">>[k]
           L(a, k) == AluImm(op(k), w, Other, amounts[a])
           ss == [a \in DOMAIN amounts |-> [k \in 1 .. 3 |-> L(a, k)]]
           S == 0 .. Bits(w) - 1
<1>1. ShiftAll(w, amounts) = FlattenSeq(ss)
  BY DEF ShiftAll
<1>s. S \subseteq Int
  OBVIOUS
<1> HIDE DEF S
<1>t. amounts \in Seq(S) /\ DOMAIN amounts = 1 .. Len(amounts)
  BY DEF S
<1>2. ASSUME NEW a \in 1 .. Len(amounts), NEW k \in 1 .. 3 PROVE L(a, k) \in Fine(p)
  <2>1. op(k) \in Shifts
    BY DEF Shifts
  <2> HIDE DEF op
  <2>2. op(k) \in Ops /\ op(k) \notin Lacking(p.version) /\ op(k) \notin Divisions
    BY <2>1 DEF Ops, Shifts, Lacking, OldOps, PqrOps, Divisions, SignedDivisions
  <2>3. amounts[a] \in Int /\ amounts[a] \in S
    <3>1. amounts[a] \in S
      BY <1>t, ElementOf
    <3>2. QED
      BY <1>s, <3>1
  <2>4. QED
    BY <2>2, <2>3, FineAluImm DEF Other, S
<1> HIDE DEF L
<1>3. \A a \in 1 .. Len(amounts) : [k \in 1 .. 3 |-> L(a, k)] \in Seq(Fine(p))
  BY <1>2
<1>4. ss \in Seq(Seq(Fine(p)))
  <2> DEFINE M(a) == [k \in 1 .. 3 |-> L(a, k)]
  <2>1. \A a \in 1 .. Len(amounts) : M(a) \in Seq(Fine(p))
    BY <1>3
  <2>2. ss = [a \in 1 .. Len(amounts) |-> M(a)] /\ Len(amounts) \in Nat
    BY <1>t
  <2> HIDE DEF M, ss
  <2>3. QED
    BY <2>1, <2>2
<1>5. QED
  BY <1>1, <1>4, FlattenIn

LEMMA OnceEachFine ==
  ASSUME NEW p, NEW ops \in Seq((Ops \ Shifts) \ Lacking(p.version)), NEW v \in Divisors
  PROVE  OnceEach(ops, v) \in Seq(Fine(p))
<1> DEFINE L(k, w) == AluImm(ops[k], w, Other, v)
<1>1. ASSUME NEW k \in 1 .. Len(ops), NEW w \in {32, 64} PROVE L(k, w) \in Fine(p)
  <2>1. ops[k] \in Ops /\ ops[k] \notin Shifts /\ ops[k] \notin Lacking(p.version)
    OBVIOUS
  <2>2. v \in Int /\ v \in 1 .. 2 ^ (W - 1) - 1
    BY SmallDivisors
  <2>3. QED
    BY <2>1, <2>2, FineAluImm DEF Other
<1> DEFINE a == [k \in DOMAIN ops |-> L(k, 64)]
           b == [k \in DOMAIN ops |-> L(k, 32)]
<1>2. OnceEach(ops, v) = a \o b
  BY DEF OnceEach
<1> HIDE DEF L
<1>3. a \in Seq(Fine(p))
  BY <1>1, SMTT(30)
<1>4. b \in Seq(Fine(p))
  BY <1>1, SMTT(30)
<1> HIDE DEF a, b
<1>5. QED
  BY <1>2, <1>3, <1>4

(* The templates of arithmetic edges and of memory accesses.               *)
LEMMA EdgesFit ==
  ASSUME NEW version \in StressVersions
  PROVE  \A p \in ArithmeticEdge(version) : Fit(p)
<1> DEFINE wide == <<0, 1, Bits(32) - 1, Bits(32), Bits(64) - 1>>
           narrow == <<0, 1, Bits(32) - 1>>
           ops == IF UsesPqr(version) THEN <<"lmul", "udiv", "urem", "sdiv", "srem">>
                                      ELSE <<"mul", "div", "mod">>
           a == ShiftAll(64, wide)
           b == ShiftAll(32, narrow)
           pre(v) == <<O(10)>> \o a \o b \o OnceEach(ops, v)
           tail == <<Exit>>
<1>1. SUFFICES ASSUME NEW p \in ArithmeticEdge(version) PROVE Certifiable(p)
  BY DEF Fit
<1>2. ArithmeticEdge(version) = {Seed(version, "runs", 0, pre(v) \o tail) : v \in Divisors}
  BY DEF ArithmeticEdge
<1>3. wide \in Seq(0 .. Bits(64) - 1) /\ narrow \in Seq(0 .. Bits(32) - 1)
  BY WidthAssumption DEF Bits
<1> HIDE DEF wide, narrow
<1>4. a \in Seq(Fine(p)) /\ b \in Seq(Fine(p))
  BY <1>3, ShiftsFine
<1>5. tail \in Seq(Fine(p)) /\ Len(tail) >= 1 /\ tail[Len(tail)] = Exit
  BY FineExit
<1> HIDE DEF a, b, tail, pre
<1>6. PICK v \in Divisors : p = Seed(version, "runs", 0, pre(v) \o tail)
  BY <1>2
<1> DEFINE text == pre(v) \o tail
<1>7. p = Seed(version, "runs", 0, text)
  BY <1>6
<1> HIDE DEF text
<1>8. p.version = version /\ p.text = text
  BY <1>7, SeedFields
<1> DEFINE S == (Ops \ Shifts) \ Lacking(p.version)
<1>9. ops \in Seq(S)
  <2>1. CASE UsesPqr(version)
    <3>1. ops = <<"lmul", "udiv", "urem", "sdiv", "srem">>
      BY <2>1
    <3>2. Lacking(p.version) = OldOps \cup {"lddw"}
      BY <1>8, <2>1 DEF UsesPqr, Lacking
    <3>3. "lmul" \in S /\ "udiv" \in S /\ "urem" \in S /\ "sdiv" \in S /\ "srem" \in S
      BY <3>2 DEF Ops, OldOps, PqrOps, Shifts
    <3> HIDE DEF S
    <3>4. QED
      BY <3>1, <3>3
  <2>2. CASE ~ UsesPqr(version)
    <3>1. ops = <<"mul", "div", "mod">>
      BY <2>2
    <3>2. Lacking(p.version) = PqrOps \cup {"hor"}
      BY <1>8, <2>2 DEF UsesPqr, Lacking
    <3>3. "mul" \in S /\ "div" \in S /\ "mod" \in S
      BY <3>2 DEF Ops, OldOps, PqrOps, Shifts
    <3> HIDE DEF S
    <3>4. QED
      BY <3>1, <3>3
  <2>3. QED
    BY <2>1, <2>2
<1>s. ops \in Seq((Ops \ Shifts) \ Lacking(p.version))
  BY <1>9
<1> HIDE DEF ops
<1> DEFINE c == OnceEach(ops, v)
<1>10. c \in Seq(Fine(p))
  BY <1>s, OnceEachFine
<1> HIDE DEF c
<1>11. <<O(10)>> \in Seq(Fine(p))
  BY FineData
<1>12. pre(v) \in Seq(Fine(p))
  BY <1>4, <1>10, <1>11 DEF pre, c
<1>13. p.text = pre(v) \o tail
  BY <1>8 DEF text
<1>14. QED
  BY <1>5, <1>12, <1>13, LongerSeeds

LEMMA PatternsFit ==
  ASSUME NEW version
  PROVE  \A p \in MemoryPatterns(version) : Fit(p)
<1>1. SUFFICES ASSUME NEW p \in MemoryPatterns(version) PROVE Certifiable(p)
  BY DEF Fit
<1> DEFINE accesses(mem_size) ==
             UNION {{MemR1(off, size, dst) : off \in Offsets(mem_size, size),
                                             dst \in {Other, 1}} : size \in {1, 2, 4, 8}}
<1> HIDE DEF accesses
<1>2. PICK mem_size \in MemSizes : \E body \in UpTo(MaxOps, accesses(mem_size)) :
        p = Seed(version, "memory", mem_size, body \o <<O(1), Exit>>)
  <2>1. MemoryPatterns(version) =
          UNION {{Seed(version, "memory", mem_size, body \o <<O(1), Exit>>) :
                    body \in UpTo(MaxOps, accesses(mem_size))} : mem_size \in MemSizes}
    BY DEF MemoryPatterns, accesses
  <2>2. QED
    BY <2>1
<1>b. PICK body \in UpTo(MaxOps, accesses(mem_size)) :
        p = Seed(version, "memory", mem_size, body \o <<O(1), Exit>>)
  BY <1>2
<1> DEFINE text == body \o <<O(1), Exit>>
<1>3. p = Seed(version, "memory", mem_size, text)
  BY <1>b
<1> HIDE DEF text
<1>4. p.says = "memory" /\ p.mem = mem_size /\ p.text = text /\ mem_size \in Nat
  BY <1>3, SeedFields, StressAssumption
<1>5. ASSUME NEW size \in {1, 2, 4, 8}, NEW off \in Offsets(mem_size, size), NEW dst \in {Other, 1}
      PROVE  MemR1(off, size, dst) \in Fine(p)
  <2>1. PICK n \in 0 .. mem_size - size - 1 : off = (n \div size) * size
    BY DEF Offsets
  <2>2. off \in Nat /\ off <= n
    BY <1>4, <2>1
  <2>3. off + size <= p.mem /\ size \in Nat /\ dst \in Int
    BY <1>4, <2>1, <2>2 DEF Other
  <2>4. QED
    BY <1>4, <2>2, <2>3, FineMemR1
<1>6. accesses(mem_size) \subseteq Fine(p)
  BY <1>5 DEF accesses
<1>7. body \in Seq(Fine(p))
  BY <1>6, BodiesIn, StressAssumption
<1>8. \E tail : /\ tail \in Seq(Fine(p)) /\ Len(tail) >= 1 /\ tail[Len(tail)] = Exit
                /\ p.text = body \o tail
  <2> DEFINE tail == <<O(1), Exit>>
  <2>1. O(1) \in Fine(p) /\ Exit \in Fine(p)
    BY FineData, FineExit
  <2>2. tail \in Seq(Fine(p)) /\ Len(tail) >= 1 /\ tail[Len(tail)] = Exit
    BY <2>1
  <2>3. p.text = body \o tail
    BY <1>4 DEF text
  <2> HIDE DEF tail
  <2>4. QED
    BY <2>2, <2>3
<1>9. QED
  BY <1>7, <1>8, LongerSeeds

(* What the notation of the seeds stands for, as far as a certificate is   *)
(* concerned.                                                              *)
Shape(line, op, w) ==
  line \in Lines /\ line.kind = "ins" /\ line.op = op /\ Width(line) = w

LEMMA DataShape ==
  ASSUME NEW n \in Nat
  PROVE  Shape(O(n), "other", n)
<1>1. O(n) \in Lines /\ O(n).kind = "ins" /\ O(n).op = "other" /\ O(n).size = n
  BY OFields
<1>2. QED
  BY <1>1, PartOfLine DEF Shape

LEMMA ExitShape == Shape(Exit, "exit", 1)
<1>1. Exit \in Lines /\ Exit.kind = "ins" /\ Exit.op = "exit"
  BY PlainFields
<1>2. QED
  BY <1>1, PartOfLine DEF Shape

LEMMA LddwShape == Shape(Lddw, "lddw", 2)
<1>1. Lddw \in Lines /\ Lddw.kind = "ins" /\ Lddw.op = "lddw"
  BY LddwFields
<1>2. QED
  BY <1>1, PartOfLine DEF Shape

LEMMA JumpShape ==
  ASSUME NEW off \in Int
  PROVE  Shape(Jump(off), "jeq", 1) /\ Jump(off).off = off
<1>1. Jump(off) \in Lines /\ Jump(off).kind = "ins" /\ Jump(off).op = "jeq" /\ Jump(off).off = off
  BY JumpFields
<1>2. QED
  BY <1>1, PartOfLine DEF Shape

LEMMA JaShape ==
  ASSUME NEW off \in Int
  PROVE  Shape(Ja(off), "ja", 1) /\ Ja(off).off = off
<1>1. Ja(off) \in Lines /\ Ja(off).kind = "ins" /\ Ja(off).op = "ja" /\ Ja(off).off = off
  BY JaFields
<1>2. QED
  BY <1>1, PartOfLine DEF Shape

LEMMA MemShape ==
  ASSUME NEW off \in Nat, NEW size \in Nat
  PROVE  Shape(Mem(off, size), "mem", 1)
<1>1. Mem(off, size) \in Lines /\ Mem(off, size).kind = "ins" /\ Mem(off, size).op = "mem"
  BY MemFields
<1>2. QED
  BY <1>1, PartOfLine DEF Shape

(* Their operations never stop a seed.                                     *)
LEMMA DataNeverFaults ==
  ASSUME NEW p, NEW n \in Nat \ {0}
  PROVE  NeverFaults(p, O(n))
  BY FineData DEF Fine

LEMMA ExitNeverFaults ==
  ASSUME NEW p
  PROVE  NeverFaults(p, Exit)
  BY FineExit DEF Fine

LEMMA LddwNeverFaults ==
  ASSUME NEW p, p.version # "V2"
  PROVE  NeverFaults(p, Lddw)
  BY FineLddw DEF Fine

LEMMA MemNeverFaults ==
  ASSUME NEW p, NEW off \in Nat, NEW size \in Nat, off + size <= p.mem
  PROVE  NeverFaults(p, Mem(off, size))
  BY FineMem DEF Fine

LEMMA JumpNeverFaults ==
  ASSUME NEW p, NEW off \in Int
  PROVE  NeverFaults(p, Jump(off))
<1>1. Jump(off).op = "jeq"
  BY JumpFields
<1>2. QED
  BY <1>1, PlainFields DEF NeverFaults, Harmless, Lacking, OldOps, PqrOps, Divisions,
     SignedDivisions, Shifts

LEMMA JaNeverFaults ==
  ASSUME NEW p, NEW off \in Int
  PROVE  NeverFaults(p, Ja(off))
<1>1. Ja(off).op = "ja"
  BY JaFields
<1>2. QED
  BY <1>1, PlainFields DEF NeverFaults, Harmless, Lacking, OldOps, PqrOps, Divisions,
     SignedDivisions, Shifts

(* A text without labels and calls; the jump of line l goes to line to[l]. *)
Sound(p, line) == line \in Lines /\ line.kind = "ins" /\ NeverFaults(p, line)

Lands(text, st, to, l) ==
  /\ text[l].op \notin {"call", "callx"}
  /\ text[l].op \notin {"exit", "ja"} => l + 1 \in 1 .. Len(text)
  /\ text[l].op \in {"jeq", "ja"} =>
       to[l] \in 1 .. Len(text) /\ st[to[l]] = st[l] + 1 + text[l].off

Unlabelled(p, st, to, n) ==
  /\ n \in Nat /\ n >= 1 /\ p.text \in Seq(Lines) /\ Len(p.text) = n
  /\ st \in [1 .. n + 1 -> Nat] /\ st[1] = 0
  /\ \A l \in 1 .. n : Sound(p, p.text[l])
  /\ \A l \in 1 .. n : st[l + 1] = st[l] + Width(p.text[l])
  /\ \A l \in 1 .. n : Lands(p.text, st, to, l)

(* A text without labels whose jumps land on lines is certified.           *)
LEMMA UnlabelledFits ==
  ASSUME NEW p, NEW st, NEW to, NEW n, Unlabelled(p, st, to, n)
  PROVE  Certifiable(p)
<1> DEFINE text == p.text
           lev == [l \in 1 .. Len(text) |-> 0]
<1>1. lev \in [1 .. Len(text) -> 0 .. 6] /\ \A l \in 1 .. Len(text) : lev[l] = 0
  OBVIOUS
<1>2. /\ text \in Seq(Lines) /\ Len(text) \in Nat /\ Len(text) >= 1
      /\ \A l \in 1 .. Len(text) : Sound(p, text[l]) /\ Lands(text, st, to, l)
      /\ Starts(text, st)
  BY DEF Unlabelled, Starts
<1> HIDE DEF lev
<1>3. \A l \in 1 .. Len(text) : IsIns(text, l) /\ ~ IsHead(text, l) /\ text[l].kind # "label"
  BY <1>2 DEF Sound, IsIns, IsHead
<1>4. \A l \in 1 .. Len(text) : StaysInFunction(text, st, lev, l) /\ CallsUpwards(text, st, lev, l)
  BY <1>1, <1>2, <1>3 DEF Lands, StaysInFunction, CallsUpwards
<1>5. LabelsAreHeads(text) /\ text[Len(text)].kind = "ins"
  BY <1>2, <1>3 DEF LabelsAreHeads, Sound
<1>6. Certified(p, st, lev)
  BY <1>1, <1>2, <1>4, <1>5 DEF Certified, Sound
<1>7. QED
  BY <1>6 DEF Certifiable

(* The programs with jumps, with the lines their jumps go to.              *)
LEMMA LoopFits ==
  ASSUME NEW p, p.text = LmulLoop
  PROVE  Certifiable(p)
<1> DEFINE text == p.text
           st == <<0, 5, 6, 7, 9, 10, 11>>
           to == <<0, 6, 0, 0, 4, 0>>
<1>1. text = <<O(5), Jump(4), O(1), O(2), Jump(-3), Exit>>
  BY DEF LmulLoop
<1>2. Len(text) = 6 /\ text[1] = O(5) /\ text[2] = Jump(4) /\ text[3] = O(1) /\ text[4] = O(2)
      /\ text[5] = Jump(-3) /\ text[6] = Exit
  BY <1>1
<1>3. Shape(text[1], "other", 5) /\ Shape(text[2], "jeq", 1) /\ Shape(text[3], "other", 1)
      /\ Shape(text[4], "other", 2) /\ Shape(text[5], "jeq", 1) /\ Shape(text[6], "exit", 1)
  BY <1>2, DataShape, ExitShape, JumpShape
<1>4. st \in [1 .. 7 -> Nat] /\ st[1] = 0 /\ st[2] = 5 /\ st[3] = 6 /\ st[4] = 7 /\ st[5] = 9 /\ st[6] = 10
      /\ st[7] = 11
      /\ to[2] = 6 /\ to[5] = 4
  OBVIOUS
<1> HIDE DEF text, st, to
<1>5. \A l \in 1 .. 6 : l = 1 \/ l = 2 \/ l = 3 \/ l = 4 \/ l = 5 \/ l = 6
  OBVIOUS
<1>6. \A l \in 1 .. 6 : NeverFaults(p, text[l])
  BY <1>2, <1>5, DataNeverFaults, ExitNeverFaults, JumpNeverFaults
<1>7. \A l \in 1 .. 6 : Sound(p, text[l]) /\ st[l + 1] = st[l] + Width(text[l])
  BY <1>3, <1>4, <1>5, <1>6 DEF Shape, Sound
<1>8. text[2].off = 4 /\ text[5].off = -3
  BY <1>2, JumpShape
<1>9. \A l \in 1 .. 6 : Lands(text, st, to, l)
  BY <1>2, <1>3, <1>4, <1>5, <1>8 DEF Shape, Lands
<1>10. text \in Seq(Lines)
  BY <1>1, <1>2, <1>5, <1>7 DEF Sound
<1>11. Unlabelled(p, st, to, 6)
  BY <1>2, <1>4, <1>7, <1>9, <1>10 DEF Unlabelled, text
<1>12. QED
  BY <1>11, UnlabelledFits

LEMMA PrimeFits ==
  ASSUME NEW p, p.text = Prime
  PROVE  Certifiable(p)
<1> DEFINE text == p.text
           st == <<0, 4, 5, 6, 8, 9, 15, 16, 17>>
           to == <<0, 6, 8, 0, 8, 0, 4, 0>>
<1>1. text = <<O(4), Jump(4), Ja(10), O(2), Jump(7), O(6), Jump(-10), Exit>>
  BY DEF Prime
<1>2. Len(text) = 8 /\ text[1] = O(4) /\ text[2] = Jump(4) /\ text[3] = Ja(10) /\ text[4] = O(2)
      /\ text[5] = Jump(7) /\ text[6] = O(6) /\ text[7] = Jump(-10) /\ text[8] = Exit
  BY <1>1
<1>3. Shape(text[1], "other", 4) /\ Shape(text[2], "jeq", 1) /\ Shape(text[3], "ja", 1)
      /\ Shape(text[4], "other", 2) /\ Shape(text[5], "jeq", 1)
      /\ Shape(text[6], "other", 6) /\ Shape(text[7], "jeq", 1) /\ Shape(text[8], "exit", 1)
  BY <1>2, DataShape, ExitShape, JumpShape, JaShape
<1>4. st \in [1 .. 9 -> Nat] /\ st[1] = 0 /\ st[2] = 4 /\ st[3] = 5 /\ st[4] = 6 /\ st[5] = 8 /\ st[6] = 9
      /\ st[7] = 15 /\ st[8] = 16 /\ st[9] = 17
      /\ to[2] = 6 /\ to[3] = 8 /\ to[5] = 8 /\ to[7] = 4
  OBVIOUS
<1> HIDE DEF text, st, to
<1>5. \A l \in 1 .. 8 : l = 1 \/ l = 2 \/ l = 3 \/ l = 4 \/ l = 5 \/ l = 6 \/ l = 7 \/ l = 8
  OBVIOUS
<1>6. \A l \in 1 .. 8 : NeverFaults(p, text[l])
  BY <1>2, <1>5, DataNeverFaults, ExitNeverFaults, JumpNeverFaults, JaNeverFaults
<1>7. \A l \in 1 .. 8 : Sound(p, text[l]) /\ st[l + 1] = st[l] + Width(text[l])
  BY <1>3, <1>4, <1>5, <1>6 DEF Shape, Sound
<1>8. text[2].off = 4 /\ text[3].off = 10 /\ text[5].off = 7 /\ text[7].off = -10
  BY <1>2, JumpShape, JaShape
<1>9. \A l \in 1 .. 8 : Lands(text, st, to, l)
  BY <1>2, <1>3, <1>4, <1>5, <1>8 DEF Shape, Lands
<1>10. text \in Seq(Lines)
  BY <1>1, <1>2, <1>5, <1>7 DEF Sound
<1>11. Unlabelled(p, st, to, 8)
  BY <1>2, <1>4, <1>7, <1>9, <1>10 DEF Unlabelled, text
<1>12. QED
  BY <1>11, UnlabelledFits

LEMMA SubnetFits ==
  ASSUME NEW p, p.text = Subnet, p.mem = 74
  PROVE  Certifiable(p)
<1> DEFINE text == p.text
           st == <<0, 2, 3, 4, 5, 6, 7, 8, 12, 13, 14, 15>>
           to == <<0, 0, 6, 0, 0, 0, 10, 0, 11, 0, 0>>
<1>1. text = <<O(2), Mem(12, 2), Jump(2), O(1), Mem(16, 2), O(1), Jump(5), O(4), Jump(1), O(1),
             Exit>>
  BY DEF Subnet
<1>2. Len(text) = 11 /\ text[1] = O(2) /\ text[2] = Mem(12, 2) /\ text[3] = Jump(2) /\ text[4] = O(1)
      /\ text[5] = Mem(16, 2) /\ text[6] = O(1) /\ text[7] = Jump(5) /\ text[8] = O(4)
      /\ text[9] = Jump(1) /\ text[10] = O(1) /\ text[11] = Exit
  BY <1>1
<1>3. Shape(text[1], "other", 2) /\ Shape(text[2], "mem", 1) /\ Shape(text[3], "jeq", 1)
      /\ Shape(text[4], "other", 1) /\ Shape(text[5], "mem", 1)
      /\ Shape(text[6], "other", 1) /\ Shape(text[7], "jeq", 1)
      /\ Shape(text[8], "other", 4) /\ Shape(text[9], "jeq", 1)
      /\ Shape(text[10], "other", 1) /\ Shape(text[11], "exit", 1)
  BY <1>2, DataShape, ExitShape, JumpShape, MemShape
<1>4. st \in [1 .. 12 -> Nat] /\ st[1] = 0 /\ st[2] = 2 /\ st[3] = 3 /\ st[4] = 4 /\ st[5] = 5 /\ st[6] = 6
      /\ st[7] = 7 /\ st[8] = 8 /\ st[9] = 12 /\ st[10] = 13 /\ st[11] = 14 /\ st[12] = 15
      /\ to[3] = 6 /\ to[7] = 10 /\ to[9] = 11
  OBVIOUS
<1> HIDE DEF text, st, to
<1>5. \A l \in 1 .. 11 : l = 1 \/ l = 2 \/ l = 3 \/ l = 4 \/ l = 5 \/ l = 6 \/ l = 7 \/ l = 8 \/ l = 9
        \/ l = 10 \/ l = 11
  OBVIOUS
<1>6. \A l \in 1 .. 11 : NeverFaults(p, text[l])
  BY <1>2, <1>5, DataNeverFaults, ExitNeverFaults, JumpNeverFaults, MemNeverFaults
<1>7. \A l \in 1 .. 11 : Sound(p, text[l]) /\ st[l + 1] = st[l] + Width(text[l])
  BY <1>3, <1>4, <1>5, <1>6 DEF Shape, Sound
<1>8. text[3].off = 2 /\ text[7].off = 5 /\ text[9].off = 1
  BY <1>2, JumpShape
<1>9. \A l \in 1 .. 11 : Lands(text, st, to, l)
  BY <1>2, <1>3, <1>4, <1>5, <1>8 DEF Shape, Lands
<1>10. text \in Seq(Lines)
  BY <1>1, <1>2, <1>5, <1>7 DEF Sound
<1>11. Unlabelled(p, st, to, 11)
  BY <1>2, <1>4, <1>7, <1>9, <1>10 DEF Unlabelled, text
<1>12. QED
  BY <1>11, UnlabelledFits

LEMMA PortFits ==
  ASSUME NEW p, p.text = TcpPort80, p.mem = 100
  PROVE  Certifiable(p)
<1> DEFINE text == p.text
           st == <<0, 1, 2, 3, 6, 7, 8, 9, 10, 15, 16, 17, 18, 19, 20>>
           to == <<0, 0, 0, 0, 14, 0, 14, 0, 0, 13, 0, 14, 0, 0>>
<1>1. text = <<O(1), Mem(12, 1), Mem(13, 1), O(3), Jump(12), Mem(23, 1), Jump(10), Mem(14, 1),
             O(5), Jump(2), O(1), Jump(1), O(1), Exit>>
  BY DEF TcpPort80
<1>2. Len(text) = 14 /\ text[1] = O(1) /\ text[2] = Mem(12, 1) /\ text[3] = Mem(13, 1) /\ text[4] = O(3)
      /\ text[5] = Jump(12) /\ text[6] = Mem(23, 1) /\ text[7] = Jump(10)
      /\ text[8] = Mem(14, 1) /\ text[9] = O(5) /\ text[10] = Jump(2) /\ text[11] = O(1)
      /\ text[12] = Jump(1) /\ text[13] = O(1) /\ text[14] = Exit
  BY <1>1
<1>3. Shape(text[1], "other", 1) /\ Shape(text[2], "mem", 1) /\ Shape(text[3], "mem", 1)
      /\ Shape(text[4], "other", 3) /\ Shape(text[5], "jeq", 1) /\ Shape(text[6], "mem", 1)
      /\ Shape(text[7], "jeq", 1) /\ Shape(text[8], "mem", 1) /\ Shape(text[9], "other", 5)
      /\ Shape(text[10], "jeq", 1) /\ Shape(text[11], "other", 1)
      /\ Shape(text[12], "jeq", 1) /\ Shape(text[13], "other", 1)
      /\ Shape(text[14], "exit", 1)
  BY <1>2, DataShape, ExitShape, JumpShape, MemShape
<1>4. st \in [1 .. 15 -> Nat] /\ st[1] = 0 /\ st[2] = 1 /\ st[3] = 2 /\ st[4] = 3 /\ st[5] = 6 /\ st[6] = 7
      /\ st[7] = 8 /\ st[8] = 9 /\ st[9] = 10 /\ st[10] = 15 /\ st[11] = 16 /\ st[12] = 17
      /\ st[13] = 18 /\ st[14] = 19 /\ st[15] = 20
      /\ to[5] = 14 /\ to[7] = 14 /\ to[10] = 13 /\ to[12] = 14
  OBVIOUS
<1> HIDE DEF text, st, to
<1>5. \A l \in 1 .. 14 : l = 1 \/ l = 2 \/ l = 3 \/ l = 4 \/ l = 5 \/ l = 6 \/ l = 7 \/ l = 8 \/ l = 9
        \/ l = 10 \/ l = 11 \/ l = 12 \/ l = 13 \/ l = 14
  OBVIOUS
<1>6. \A l \in 1 .. 14 : NeverFaults(p, text[l])
  BY <1>2, <1>5, DataNeverFaults, ExitNeverFaults, JumpNeverFaults, MemNeverFaults
<1>7. \A l \in 1 .. 14 : Sound(p, text[l]) /\ st[l + 1] = st[l] + Width(text[l])
  BY <1>3, <1>4, <1>5, <1>6 DEF Shape, Sound
<1>8. text[5].off = 12 /\ text[7].off = 10 /\ text[10].off = 2 /\ text[12].off = 1
  BY <1>2, JumpShape
<1>9. \A l \in 1 .. 14 : Lands(text, st, to, l)
  BY <1>2, <1>3, <1>4, <1>5, <1>8 DEF Shape, Lands
<1>10. text \in Seq(Lines)
  BY <1>1, <1>2, <1>5, <1>7 DEF Sound
<1>11. Unlabelled(p, st, to, 14)
  BY <1>2, <1>4, <1>7, <1>9, <1>10 DEF Unlabelled, text
<1>12. QED
  BY <1>11, UnlabelledFits

LEMMA SackFits ==
  ASSUME NEW p, p.text = TcpSack, p.mem \in {66, 78}
  PROVE  Certifiable(p)
<1> DEFINE text == p.text
           st == <<0, 1, 2, 3, 6, 7, 8, 9, 10, 23, 24, 30, 31, 32, 33, 34, 35, 37, 41, 42,
                   43, 44, 45>>
           to == <<0, 0, 0, 0, 22, 0, 22, 0, 0, 22, 0, 17, 22, 0, 21, 18, 0, 0, 11, 22, 0, 0>>
<1>1. text = <<O(1), Mem(12, 1), Mem(13, 1), O(3), Jump(37), Mem(23, 1), Jump(35), Mem(14, 1),
             O(13), Jump(20), O(6), Jump(4), Jump(12), O(1), Jump(9), Ja(2), O(2), O(4),
             Jump(-18), Ja(1), O(1), Exit>>
  BY DEF TcpSack
<1>2. Len(text) = 22 /\ text[1] = O(1) /\ text[2] = Mem(12, 1) /\ text[3] = Mem(13, 1) /\ text[4] = O(3)
      /\ text[5] = Jump(37) /\ text[6] = Mem(23, 1) /\ text[7] = Jump(35)
      /\ text[8] = Mem(14, 1) /\ text[9] = O(13) /\ text[10] = Jump(20) /\ text[11] = O(6)
      /\ text[12] = Jump(4) /\ text[13] = Jump(12) /\ text[14] = O(1) /\ text[15] = Jump(9)
      /\ text[16] = Ja(2) /\ text[17] = O(2) /\ text[18] = O(4) /\ text[19] = Jump(-18)
      /\ text[20] = Ja(1) /\ text[21] = O(1) /\ text[22] = Exit
  BY <1>1
<1>3. Shape(text[1], "other", 1) /\ Shape(text[2], "mem", 1) /\ Shape(text[3], "mem", 1)
      /\ Shape(text[4], "other", 3) /\ Shape(text[5], "jeq", 1) /\ Shape(text[6], "mem", 1)
      /\ Shape(text[7], "jeq", 1) /\ Shape(text[8], "mem", 1) /\ Shape(text[9], "other", 13)
      /\ Shape(text[10], "jeq", 1) /\ Shape(text[11], "other", 6)
      /\ Shape(text[12], "jeq", 1) /\ Shape(text[13], "jeq", 1)
      /\ Shape(text[14], "other", 1) /\ Shape(text[15], "jeq", 1)
      /\ Shape(text[16], "ja", 1) /\ Shape(text[17], "other", 2)
      /\ Shape(text[18], "other", 4) /\ Shape(text[19], "jeq", 1)
      /\ Shape(text[20], "ja", 1) /\ Shape(text[21], "other", 1)
      /\ Shape(text[22], "exit", 1)
  BY <1>2, DataShape, ExitShape, JumpShape, JaShape, MemShape
<1>4. st \in [1 .. 23 -> Nat] /\ st[1] = 0 /\ st[2] = 1 /\ st[3] = 2 /\ st[4] = 3 /\ st[5] = 6 /\ st[6] = 7
      /\ st[7] = 8 /\ st[8] = 9 /\ st[9] = 10 /\ st[10] = 23 /\ st[11] = 24 /\ st[12] = 30
      /\ st[13] = 31 /\ st[14] = 32 /\ st[15] = 33 /\ st[16] = 34 /\ st[17] = 35
      /\ st[18] = 37 /\ st[19] = 41 /\ st[20] = 42 /\ st[21] = 43 /\ st[22] = 44
      /\ st[23] = 45
      /\ to[5] = 22 /\ to[7] = 22 /\ to[10] = 22 /\ to[12] = 17 /\ to[13] = 22 /\ to[15] = 21
      /\ to[16] = 18 /\ to[19] = 11 /\ to[20] = 22
  OBVIOUS
<1> HIDE DEF text, st, to
<1>5. \A l \in 1 .. 22 : l = 1 \/ l = 2 \/ l = 3 \/ l = 4 \/ l = 5 \/ l = 6 \/ l = 7 \/ l = 8 \/ l = 9
        \/ l = 10 \/ l = 11 \/ l = 12 \/ l = 13 \/ l = 14 \/ l = 15 \/ l = 16 \/ l = 17
        \/ l = 18 \/ l = 19 \/ l = 20 \/ l = 21 \/ l = 22
  OBVIOUS
<1>6. \A l \in 1 .. 22 : NeverFaults(p, text[l])
  BY <1>2, <1>5, DataNeverFaults, ExitNeverFaults, JumpNeverFaults, JaNeverFaults,
     MemNeverFaults
<1>7. \A l \in 1 .. 22 : Sound(p, text[l]) /\ st[l + 1] = st[l] + Width(text[l])
  BY <1>3, <1>4, <1>5, <1>6 DEF Shape, Sound
<1>8. text[5].off = 37 /\ text[7].off = 35 /\ text[10].off = 20 /\ text[12].off = 4
      /\ text[13].off = 12 /\ text[15].off = 9 /\ text[16].off = 2 /\ text[19].off = -18
      /\ text[20].off = 1
  BY <1>2, JumpShape, JaShape
<1>9. \A l \in 1 .. 22 : Lands(text, st, to, l)
  BY <1>2, <1>3, <1>4, <1>5, <1>8 DEF Shape, Lands
<1>10. text \in Seq(Lines)
  BY <1>1, <1>2, <1>5, <1>7 DEF Sound
<1>11. Unlabelled(p, st, to, 22)
  BY <1>2, <1>4, <1>7, <1>9, <1>10 DEF Unlabelled, text
<1>12. QED
  BY <1>11, UnlabelledFits

LEMMA SkipFits ==
  ASSUME NEW p, p.text = <<O(2), Ja(1), O(1), Exit>>
  PROVE  Certifiable(p)
<1> DEFINE text == p.text
           st == <<0, 2, 3, 4, 5>>
           to == <<0, 4, 0, 0>>
<1>1. text = <<O(2), Ja(1), O(1), Exit>>
   OBVIOUS
<1>2. Len(text) = 4 /\ text[1] = O(2) /\ text[2] = Ja(1) /\ text[3] = O(1) /\ text[4] = Exit
  BY <1>1
<1>3. Shape(text[1], "other", 2) /\ Shape(text[2], "ja", 1) /\ Shape(text[3], "other", 1)
      /\ Shape(text[4], "exit", 1)
  BY <1>2, DataShape, ExitShape, JaShape
<1>4. st \in [1 .. 5 -> Nat] /\ st[1] = 0 /\ st[2] = 2 /\ st[3] = 3 /\ st[4] = 4 /\ st[5] = 5
      /\ to[2] = 4
  OBVIOUS
<1> HIDE DEF text, st, to
<1>5. \A l \in 1 .. 4 : l = 1 \/ l = 2 \/ l = 3 \/ l = 4
  OBVIOUS
<1>6. \A l \in 1 .. 4 : NeverFaults(p, text[l])
  BY <1>2, <1>5, DataNeverFaults, ExitNeverFaults, JaNeverFaults
<1>7. \A l \in 1 .. 4 : Sound(p, text[l]) /\ st[l + 1] = st[l] + Width(text[l])
  BY <1>3, <1>4, <1>5, <1>6 DEF Shape, Sound
<1>8. text[2].off = 1
  BY <1>2, JaShape
<1>9. \A l \in 1 .. 4 : Lands(text, st, to, l)
  BY <1>2, <1>3, <1>4, <1>5, <1>8 DEF Shape, Lands
<1>10. text \in Seq(Lines)
  BY <1>1, <1>2, <1>5, <1>7 DEF Sound
<1>11. Unlabelled(p, st, to, 4)
  BY <1>2, <1>4, <1>7, <1>9, <1>10 DEF Unlabelled, text
<1>12. QED
  BY <1>11, UnlabelledFits

LEMMA EarlyExitFits ==
  ASSUME NEW p, p.text = <<O(2), Exit, O(1), Exit>>
  PROVE  Certifiable(p)
<1> DEFINE text == p.text
           st == <<0, 2, 3, 4, 5>>
           to == <<0, 0, 0, 0>>
<1>1. text = <<O(2), Exit, O(1), Exit>>
   OBVIOUS
<1>2. Len(text) = 4 /\ text[1] = O(2) /\ text[2] = Exit /\ text[3] = O(1) /\ text[4] = Exit
  BY <1>1
<1>3. Shape(text[1], "other", 2) /\ Shape(text[2], "exit", 1) /\ Shape(text[3], "other", 1)
      /\ Shape(text[4], "exit", 1)
  BY <1>2, DataShape, ExitShape
<1>4. st \in [1 .. 5 -> Nat] /\ st[1] = 0 /\ st[2] = 2 /\ st[3] = 3 /\ st[4] = 4 /\ st[5] = 5
  OBVIOUS
<1> HIDE DEF text, st, to
<1>5. \A l \in 1 .. 4 : l = 1 \/ l = 2 \/ l = 3 \/ l = 4
  OBVIOUS
<1>6. \A l \in 1 .. 4 : NeverFaults(p, text[l])
  BY <1>2, <1>5, DataNeverFaults, ExitNeverFaults
<1>7. \A l \in 1 .. 4 : Sound(p, text[l]) /\ st[l + 1] = st[l] + Width(text[l])
  BY <1>3, <1>4, <1>5, <1>6 DEF Shape, Sound
<1>8. \A l \in 1 .. 4 : Lands(text, st, to, l)
  BY <1>2, <1>3, <1>4, <1>5 DEF Shape, Lands
<1>9. text \in Seq(Lines)
  BY <1>1, <1>2, <1>5, <1>7 DEF Sound
<1>10. Unlabelled(p, st, to, 4)
  BY <1>2, <1>4, <1>7, <1>8, <1>9 DEF Unlabelled, text
<1>11. QED
  BY <1>10, UnlabelledFits

LEMMA OverLddwFits ==
  ASSUME NEW p, p.version = "V0", p.text = <<O(4), Lddw, Ja(2), Lddw, Lddw, O(2), Exit>>
  PROVE  Certifiable(p)
<1> DEFINE text == p.text
           st == <<0, 4, 6, 7, 9, 11, 13, 14>>
           to == <<0, 0, 5, 0, 0, 0, 0>>
<1>1. text = <<O(4), Lddw, Ja(2), Lddw, Lddw, O(2), Exit>>
   OBVIOUS
<1>2. Len(text) = 7 /\ text[1] = O(4) /\ text[2] = Lddw /\ text[3] = Ja(2) /\ text[4] = Lddw
      /\ text[5] = Lddw /\ text[6] = O(2) /\ text[7] = Exit
  BY <1>1
<1>3. Shape(text[1], "other", 4) /\ Shape(text[2], "lddw", 2) /\ Shape(text[3], "ja", 1)
      /\ Shape(text[4], "lddw", 2) /\ Shape(text[5], "lddw", 2)
      /\ Shape(text[6], "other", 2) /\ Shape(text[7], "exit", 1)
  BY <1>2, DataShape, ExitShape, JaShape, LddwShape
<1>4. st \in [1 .. 8 -> Nat] /\ st[1] = 0 /\ st[2] = 4 /\ st[3] = 6 /\ st[4] = 7 /\ st[5] = 9 /\ st[6] = 11
      /\ st[7] = 13 /\ st[8] = 14
      /\ to[3] = 5
  OBVIOUS
<1> HIDE DEF text, st, to
<1>5. \A l \in 1 .. 7 : l = 1 \/ l = 2 \/ l = 3 \/ l = 4 \/ l = 5 \/ l = 6 \/ l = 7
  OBVIOUS
<1>6. \A l \in 1 .. 7 : NeverFaults(p, text[l])
  BY <1>2, <1>5, DataNeverFaults, ExitNeverFaults, JaNeverFaults, LddwNeverFaults
<1>7. \A l \in 1 .. 7 : Sound(p, text[l]) /\ st[l + 1] = st[l] + Width(text[l])
  BY <1>3, <1>4, <1>5, <1>6 DEF Shape, Sound
<1>8. text[3].off = 2
  BY <1>2, JaShape
<1>9. \A l \in 1 .. 7 : Lands(text, st, to, l)
  BY <1>2, <1>3, <1>4, <1>5, <1>8 DEF Shape, Lands
<1>10. text \in Seq(Lines)
  BY <1>1, <1>2, <1>5, <1>7 DEF Sound
<1>11. Unlabelled(p, st, to, 7)
  BY <1>2, <1>4, <1>7, <1>9, <1>10 DEF Unlabelled, text
<1>12. QED
  BY <1>11, UnlabelledFits

LEMMA TheNames ==
  /\ Foo \in Name /\ Bar \in Name /\ Baz \in Name /\ Entrypoint \in Name
  /\ Foo # NoName /\ Bar # NoName /\ Baz # NoName
  /\ Foo # Bar /\ Foo # Baz /\ Bar # Baz
  /\ Foo # Entrypoint /\ Bar # Entrypoint /\ Baz # Entrypoint
  BY NoNameIsName, NamesDiffer DEF Foo, Bar, Baz, Entrypoint

(* A label, and a call to a label, of a name.                              *)
Marks(line, name) ==
  line \in Lines /\ line.kind = "label" /\ line.name = name /\ Width(line) = 0

LEMMA LabelShape ==
  ASSUME NEW name \in Name
  PROVE  Marks(Label(name), name)
  BY NameFields DEF Marks, Width

LEMMA CallShape ==
  ASSUME NEW name \in Name
  PROVE  Shape(Call(name), "call", 1) /\ Call(name).name = name
<1>1. /\ Call(name) \in Lines /\ Call(name).kind = "ins" /\ Call(name).op = "call"
      /\ Call(name).name = name
  BY NameFields
<1>2. QED
  BY <1>1, PartOfLine DEF Shape

LEMMA CallNeverFaults ==
  ASSUME NEW p, NEW name \in Name
  PROVE  NeverFaults(p, Call(name))
<1>1. Call(name).op = "call"
  BY NameFields
<1>2. QED
  BY <1>1, PlainFields DEF NeverFaults, Harmless, Lacking, OldOps, PqrOps, Divisions,
     SignedDivisions, Shifts

LEMMA CallxShape ==
  ASSUME NEW slot \in Int
  PROVE  Shape(Callx(slot), "callx", 1) /\ Callx(slot).name = NoName /\ Callx(slot).imm = slot
<1>1. Callx(slot) \in Lines /\ Callx(slot).kind = "ins" /\ Callx(slot).op = "callx"
  BY CallxFields
<1>2. Callx(slot).name = NoName /\ Callx(slot).imm = slot
  BY DEF Callx, Ins, Line
<1>3. QED
  BY <1>1, <1>2, PartOfLine DEF Shape

LEMMA CallxNeverFaults ==
  ASSUME NEW p, NEW slot \in Int
  PROVE  NeverFaults(p, Callx(slot))
<1>1. Callx(slot).op = "callx"
  BY CallxFields
<1>2. QED
  BY <1>1, PlainFields DEF NeverFaults, Harmless, Lacking, OldOps, PqrOps, Divisions,
     SignedDivisions, Shifts

(* A text of functions without jumps, whose calls from line l go to the    *)
(* head to[l].                                                             *)
Enters(text, st, lev, l, m) ==
  /\ IsHead(text, m) /\ lev[m] > lev[l]
  /\ text[l].op = "callx" => text[l].name = NoName /\ st[m] = text[l].imm
  /\ text[l].op = "call" => text[l].name # NoName /\ text[m - 1].name = text[l].name

FallsOn(text, lev, l) ==
  /\ text[l].op \notin {"jeq", "ja"}
  /\ text[l].op # "exit" => IsIns(text, l + 1) /\ lev[l + 1] = lev[l]

Labelled(p, st, lev, to, n) ==
  /\ n \in Nat /\ n >= 1 /\ p.text \in Seq(Lines) /\ Len(p.text) = n /\ p.text[n].kind = "ins"
  /\ st \in [1 .. n + 1 -> Nat] /\ st[1] = 0
  /\ \A l \in 1 .. n : st[l + 1] = st[l] + Width(p.text[l])
  /\ lev \in [1 .. n -> 0 .. 6]
  /\ LabelsAreHeads(p.text)
  /\ \A l \in 1 .. n : p.text[l].kind = "ins" =>
       /\ NeverFaults(p, p.text[l]) /\ FallsOn(p.text, lev, l)
       /\ p.text[l].op \in {"call", "callx"} => Enters(p.text, st, lev, l, to[l])

(* A text with labels whose calls go one level deeper is certified.        *)
LEMMA LabelledFits ==
  ASSUME NEW p, NEW st, NEW lev, NEW to, NEW n, Labelled(p, st, lev, to, n)
  PROVE  Certifiable(p)
<1> DEFINE text == p.text
<1>1. \A l \in 1 .. n : text[l].kind = "ins" => StaysInFunction(text, st, lev, l)
  BY DEF Labelled, StaysInFunction, FallsOn
<1>2. \A l \in 1 .. n : text[l].kind = "ins" => CallsUpwards(text, st, lev, l)
  BY DEF Labelled, CallsUpwards, Enters
<1>3. Certified(p, st, lev)
  BY <1>1, <1>2 DEF Labelled, Certified, Starts
<1>4. QED
  BY <1>3 DEF Certifiable

(* The programs with calls.                                                *)
LEMMA OneCallFits ==
  ASSUME NEW p, 
         p.text = <<Label(Entrypoint), O(1), Call(Foo), O(1), Exit, Label(Foo), O(2), Exit>>
  PROVE  Certifiable(p)
<1> DEFINE text == p.text
           st == <<0, 0, 1, 2, 3, 4, 4, 6, 7>>
           lev == <<0, 0, 0, 0, 0, 1, 1, 1>>
           to == <<0, 0, 7, 0, 0, 0, 0, 0>>
<1>1. text = <<Label(Entrypoint), O(1), Call(Foo), O(1), Exit, Label(Foo), O(2), Exit>>
  OBVIOUS
<1>2. Len(text) = 8 /\ text[1] = Label(Entrypoint) /\ text[2] = O(1) /\ text[3] = Call(Foo) /\ text[4] = O(1)
      /\ text[5] = Exit /\ text[6] = Label(Foo) /\ text[7] = O(2) /\ text[8] = Exit
  BY <1>1
<1>3. Marks(text[1], Entrypoint) /\ Shape(text[2], "other", 1) /\ Shape(text[3], "call", 1)
      /\ Shape(text[4], "other", 1) /\ Shape(text[5], "exit", 1) /\ Marks(text[6], Foo)
      /\ Shape(text[7], "other", 2) /\ Shape(text[8], "exit", 1)
  BY <1>2, TheNames, DataShape, ExitShape, LabelShape, CallShape
<1>4. st \in [1 .. 9 -> Nat] /\ st[1] = 0 /\ st[2] = 0 /\ st[3] = 1 /\ st[4] = 2 /\ st[5] = 3 /\ st[6] = 4
      /\ st[7] = 4 /\ st[8] = 6 /\ st[9] = 7
  OBVIOUS
<1>5. lev \in [1 .. 8 -> 0 .. 6] /\ lev[1] = 0 /\ lev[2] = 0 /\ lev[3] = 0 /\ lev[4] = 0 /\ lev[5] = 0 /\ lev[6] = 1
      /\ lev[7] = 1 /\ lev[8] = 1
      /\ to[3] = 7
  OBVIOUS
<1> HIDE DEF text, st, lev, to
<1>6. \A l \in 1 .. 8 : l = 1 \/ l = 2 \/ l = 3 \/ l = 4 \/ l = 5 \/ l = 6 \/ l = 7 \/ l = 8
  OBVIOUS
<1>7. text[1].kind = "label" /\ text[2].kind = "ins" /\ text[3].kind = "ins"
      /\ text[4].kind = "ins" /\ text[5].kind = "ins" /\ text[6].kind = "label"
      /\ text[7].kind = "ins" /\ text[8].kind = "ins"
  BY <1>3 DEF Shape, Marks
<1>8. \A l \in 1 .. 8 : text[l] \in Lines /\ st[l + 1] = st[l] + Width(text[l])
  BY <1>3, <1>4, <1>6 DEF Shape, Marks
<1>9. \A l \in 1 .. 8 : text[l].kind = "ins" => NeverFaults(p, text[l])
  BY <1>2, <1>6, <1>7, TheNames, DataNeverFaults, ExitNeverFaults, CallNeverFaults
<1>10. \A l \in 1 .. 8 : text[l].kind = "ins" => FallsOn(text, lev, l)
  BY <1>2, <1>3, <1>5, <1>6, <1>7 DEF FallsOn, Shape, IsIns
<1>11. Enters(text, st, lev, 3, 7)
  BY <1>2, <1>3, <1>4, <1>5, <1>7, TheNames, CallShape
     DEF Enters, Shape, Marks, IsHead, IsIns
<1>12. \A l \in 1 .. 8 : text[l].kind = "ins" /\ text[l].op \in {"call", "callx"} =>
         Enters(text, st, lev, l, to[l])
  BY <1>3, <1>5, <1>6, <1>7, <1>11 DEF Shape
<1>13. LabelsAreHeads(text)
  BY <1>2, <1>3, <1>6, <1>7, TheNames DEF LabelsAreHeads, Marks, IsHead, IsIns
<1>14. text \in Seq(Lines)
  BY <1>1, <1>2, <1>6, <1>8
<1>15. Labelled(p, st, lev, to, 8)
  BY <1>2, <1>4, <1>5, <1>7, <1>8, <1>9, <1>10, <1>12, <1>13, <1>14 DEF Labelled, text
<1>16. QED
  BY <1>15, LabelledFits

LEMMA TwoCallsFit ==
  ASSUME NEW p, 
         p.text = <<O(1), Call(Foo), Call(Foo), Exit, Label(Foo), O(1), Exit>>
  PROVE  Certifiable(p)
<1> DEFINE text == p.text
           st == <<0, 1, 2, 3, 4, 4, 5, 6>>
           lev == <<0, 0, 0, 0, 1, 1, 1>>
           to == <<0, 6, 6, 0, 0, 0, 0>>
<1>1. text = <<O(1), Call(Foo), Call(Foo), Exit, Label(Foo), O(1), Exit>>
  OBVIOUS
<1>2. Len(text) = 7 /\ text[1] = O(1) /\ text[2] = Call(Foo) /\ text[3] = Call(Foo) /\ text[4] = Exit
      /\ text[5] = Label(Foo) /\ text[6] = O(1) /\ text[7] = Exit
  BY <1>1
<1>3. Shape(text[1], "other", 1) /\ Shape(text[2], "call", 1) /\ Shape(text[3], "call", 1)
      /\ Shape(text[4], "exit", 1) /\ Marks(text[5], Foo) /\ Shape(text[6], "other", 1)
      /\ Shape(text[7], "exit", 1)
  BY <1>2, TheNames, DataShape, ExitShape, LabelShape, CallShape
<1>4. st \in [1 .. 8 -> Nat] /\ st[1] = 0 /\ st[2] = 1 /\ st[3] = 2 /\ st[4] = 3 /\ st[5] = 4 /\ st[6] = 4
      /\ st[7] = 5 /\ st[8] = 6
  OBVIOUS
<1>5. lev \in [1 .. 7 -> 0 .. 6] /\ lev[1] = 0 /\ lev[2] = 0 /\ lev[3] = 0 /\ lev[4] = 0 /\ lev[5] = 1 /\ lev[6] = 1
      /\ lev[7] = 1
      /\ to[2] = 6 /\ to[3] = 6
  OBVIOUS
<1> HIDE DEF text, st, lev, to
<1>6. \A l \in 1 .. 7 : l = 1 \/ l = 2 \/ l = 3 \/ l = 4 \/ l = 5 \/ l = 6 \/ l = 7
  OBVIOUS
<1>7. text[1].kind = "ins" /\ text[2].kind = "ins" /\ text[3].kind = "ins"
      /\ text[4].kind = "ins" /\ text[5].kind = "label" /\ text[6].kind = "ins"
      /\ text[7].kind = "ins"
  BY <1>3 DEF Shape, Marks
<1>8. \A l \in 1 .. 7 : text[l] \in Lines /\ st[l + 1] = st[l] + Width(text[l])
  BY <1>3, <1>4, <1>6 DEF Shape, Marks
<1>9. \A l \in 1 .. 7 : text[l].kind = "ins" => NeverFaults(p, text[l])
  BY <1>2, <1>6, <1>7, TheNames, DataNeverFaults, ExitNeverFaults, CallNeverFaults
<1>10. \A l \in 1 .. 7 : text[l].kind = "ins" => FallsOn(text, lev, l)
  BY <1>2, <1>3, <1>5, <1>6, <1>7 DEF FallsOn, Shape, IsIns
<1>11. Enters(text, st, lev, 2, 6) /\ Enters(text, st, lev, 3, 6)
  BY <1>2, <1>3, <1>4, <1>5, <1>7, TheNames, CallShape
     DEF Enters, Shape, Marks, IsHead, IsIns
<1>12. \A l \in 1 .. 7 : text[l].kind = "ins" /\ text[l].op \in {"call", "callx"} =>
         Enters(text, st, lev, l, to[l])
  BY <1>3, <1>5, <1>6, <1>7, <1>11 DEF Shape
<1>13. LabelsAreHeads(text)
  BY <1>2, <1>3, <1>6, <1>7, TheNames DEF LabelsAreHeads, Marks, IsHead, IsIns
<1>14. text \in Seq(Lines)
  BY <1>1, <1>2, <1>6, <1>8
<1>15. Labelled(p, st, lev, to, 7)
  BY <1>2, <1>4, <1>5, <1>7, <1>8, <1>9, <1>10, <1>12, <1>13, <1>14 DEF Labelled, text
<1>16. QED
  BY <1>15, LabelledFits

LEMMA NestedCallsFit ==
  ASSUME NEW p, 
         p.text = <<Label(Entrypoint), O(1), Call(Foo), Exit, Label(Foo), O(1), Call(Bar),
                    Exit, Label(Bar), O(1), Exit>>
  PROVE  Certifiable(p)
<1> DEFINE text == p.text
           st == <<0, 0, 1, 2, 3, 3, 4, 5, 6, 6, 7, 8>>
           lev == <<0, 0, 0, 0, 1, 1, 1, 1, 2, 2, 2>>
           to == <<0, 0, 6, 0, 0, 0, 10, 0, 0, 0, 0>>
<1>1. text = <<Label(Entrypoint), O(1), Call(Foo), Exit, Label(Foo), O(1), Call(Bar), Exit,
             Label(Bar), O(1), Exit>>
  OBVIOUS
<1>2. Len(text) = 11 /\ text[1] = Label(Entrypoint) /\ text[2] = O(1) /\ text[3] = Call(Foo) /\ text[4] = Exit
      /\ text[5] = Label(Foo) /\ text[6] = O(1) /\ text[7] = Call(Bar) /\ text[8] = Exit
      /\ text[9] = Label(Bar) /\ text[10] = O(1) /\ text[11] = Exit
  BY <1>1
<1>3. Marks(text[1], Entrypoint) /\ Shape(text[2], "other", 1) /\ Shape(text[3], "call", 1)
      /\ Shape(text[4], "exit", 1) /\ Marks(text[5], Foo) /\ Shape(text[6], "other", 1)
      /\ Shape(text[7], "call", 1) /\ Shape(text[8], "exit", 1) /\ Marks(text[9], Bar)
      /\ Shape(text[10], "other", 1) /\ Shape(text[11], "exit", 1)
  BY <1>2, TheNames, DataShape, ExitShape, LabelShape, CallShape
<1>4. st \in [1 .. 12 -> Nat] /\ st[1] = 0 /\ st[2] = 0 /\ st[3] = 1 /\ st[4] = 2 /\ st[5] = 3 /\ st[6] = 3
      /\ st[7] = 4 /\ st[8] = 5 /\ st[9] = 6 /\ st[10] = 6 /\ st[11] = 7 /\ st[12] = 8
  OBVIOUS
<1>5. lev \in [1 .. 11 -> 0 .. 6] /\ lev[1] = 0 /\ lev[2] = 0 /\ lev[3] = 0 /\ lev[4] = 0 /\ lev[5] = 1 /\ lev[6] = 1
      /\ lev[7] = 1 /\ lev[8] = 1 /\ lev[9] = 2 /\ lev[10] = 2 /\ lev[11] = 2
      /\ to[3] = 6 /\ to[7] = 10
  OBVIOUS
<1> HIDE DEF text, st, lev, to
<1>6. \A l \in 1 .. 11 : l = 1 \/ l = 2 \/ l = 3 \/ l = 4 \/ l = 5 \/ l = 6 \/ l = 7 \/ l = 8 \/ l = 9
        \/ l = 10 \/ l = 11
  OBVIOUS
<1>7. text[1].kind = "label" /\ text[2].kind = "ins" /\ text[3].kind = "ins"
      /\ text[4].kind = "ins" /\ text[5].kind = "label" /\ text[6].kind = "ins"
      /\ text[7].kind = "ins" /\ text[8].kind = "ins" /\ text[9].kind = "label"
      /\ text[10].kind = "ins" /\ text[11].kind = "ins"
  BY <1>3 DEF Shape, Marks
<1>8. \A l \in 1 .. 11 : text[l] \in Lines /\ st[l + 1] = st[l] + Width(text[l])
  BY <1>3, <1>4, <1>6 DEF Shape, Marks
<1>9. \A l \in 1 .. 11 : text[l].kind = "ins" => NeverFaults(p, text[l])
  BY <1>2, <1>6, <1>7, TheNames, DataNeverFaults, ExitNeverFaults, CallNeverFaults
<1>10. \A l \in 1 .. 11 : text[l].kind = "ins" => FallsOn(text, lev, l)
  BY <1>2, <1>3, <1>5, <1>6, <1>7 DEF FallsOn, Shape, IsIns
<1>11. Enters(text, st, lev, 3, 6) /\ Enters(text, st, lev, 7, 10)
  BY <1>2, <1>3, <1>4, <1>5, <1>7, TheNames, CallShape
     DEF Enters, Shape, Marks, IsHead, IsIns
<1>12. \A l \in 1 .. 11 : text[l].kind = "ins" /\ text[l].op \in {"call", "callx"} =>
         Enters(text, st, lev, l, to[l])
  BY <1>3, <1>5, <1>6, <1>7, <1>11 DEF Shape
<1>13. LabelsAreHeads(text)
  BY <1>2, <1>3, <1>6, <1>7, TheNames DEF LabelsAreHeads, Marks, IsHead, IsIns
<1>14. text \in Seq(Lines)
  BY <1>1, <1>2, <1>6, <1>8
<1>15. Labelled(p, st, lev, to, 11)
  BY <1>2, <1>4, <1>5, <1>7, <1>8, <1>9, <1>10, <1>12, <1>13, <1>14 DEF Labelled, text
<1>16. QED
  BY <1>15, LabelledFits

LEMMA LongCallFits ==
  ASSUME NEW p, 
         p.text = <<O(5), Call(Foo), O(4), Exit, Label(Foo), O(5), Exit>>
  PROVE  Certifiable(p)
<1> DEFINE text == p.text
           st == <<0, 5, 6, 10, 11, 11, 16, 17>>
           lev == <<0, 0, 0, 0, 1, 1, 1>>
           to == <<0, 6, 0, 0, 0, 0, 0>>
<1>1. text = <<O(5), Call(Foo), O(4), Exit, Label(Foo), O(5), Exit>>
  OBVIOUS
<1>2. Len(text) = 7 /\ text[1] = O(5) /\ text[2] = Call(Foo) /\ text[3] = O(4) /\ text[4] = Exit
      /\ text[5] = Label(Foo) /\ text[6] = O(5) /\ text[7] = Exit
  BY <1>1
<1>3. Shape(text[1], "other", 5) /\ Shape(text[2], "call", 1) /\ Shape(text[3], "other", 4)
      /\ Shape(text[4], "exit", 1) /\ Marks(text[5], Foo) /\ Shape(text[6], "other", 5)
      /\ Shape(text[7], "exit", 1)
  BY <1>2, TheNames, DataShape, ExitShape, LabelShape, CallShape
<1>4. st \in [1 .. 8 -> Nat] /\ st[1] = 0 /\ st[2] = 5 /\ st[3] = 6 /\ st[4] = 10 /\ st[5] = 11 /\ st[6] = 11
      /\ st[7] = 16 /\ st[8] = 17
  OBVIOUS
<1>5. lev \in [1 .. 7 -> 0 .. 6] /\ lev[1] = 0 /\ lev[2] = 0 /\ lev[3] = 0 /\ lev[4] = 0 /\ lev[5] = 1 /\ lev[6] = 1
      /\ lev[7] = 1
      /\ to[2] = 6
  OBVIOUS
<1> HIDE DEF text, st, lev, to
<1>6. \A l \in 1 .. 7 : l = 1 \/ l = 2 \/ l = 3 \/ l = 4 \/ l = 5 \/ l = 6 \/ l = 7
  OBVIOUS
<1>7. text[1].kind = "ins" /\ text[2].kind = "ins" /\ text[3].kind = "ins"
      /\ text[4].kind = "ins" /\ text[5].kind = "label" /\ text[6].kind = "ins"
      /\ text[7].kind = "ins"
  BY <1>3 DEF Shape, Marks
<1>8. \A l \in 1 .. 7 : text[l] \in Lines /\ st[l + 1] = st[l] + Width(text[l])
  BY <1>3, <1>4, <1>6 DEF Shape, Marks
<1>9. \A l \in 1 .. 7 : text[l].kind = "ins" => NeverFaults(p, text[l])
  BY <1>2, <1>6, <1>7, TheNames, DataNeverFaults, ExitNeverFaults, CallNeverFaults
<1>10. \A l \in 1 .. 7 : text[l].kind = "ins" => FallsOn(text, lev, l)
  BY <1>2, <1>3, <1>5, <1>6, <1>7 DEF FallsOn, Shape, IsIns
<1>11. Enters(text, st, lev, 2, 6)
  BY <1>2, <1>3, <1>4, <1>5, <1>7, TheNames, CallShape
     DEF Enters, Shape, Marks, IsHead, IsIns
<1>12. \A l \in 1 .. 7 : text[l].kind = "ins" /\ text[l].op \in {"call", "callx"} =>
         Enters(text, st, lev, l, to[l])
  BY <1>3, <1>5, <1>6, <1>7, <1>11 DEF Shape
<1>13. LabelsAreHeads(text)
  BY <1>2, <1>3, <1>6, <1>7, TheNames DEF LabelsAreHeads, Marks, IsHead, IsIns
<1>14. text \in Seq(Lines)
  BY <1>1, <1>2, <1>6, <1>8
<1>15. Labelled(p, st, lev, to, 7)
  BY <1>2, <1>4, <1>5, <1>7, <1>8, <1>9, <1>10, <1>12, <1>13, <1>14 DEF Labelled, text
<1>16. QED
  BY <1>15, LabelledFits

LEMMA FarJumpFits ==
  ASSUME NEW p, 
         p.text = <<O(1), Call(Baz), Exit, Label(Foo), O(1), Exit, Label(Bar), O(1), Exit,
                    Label(Baz), O(4), Callx(3), Exit>>
  PROVE  Certifiable(p)
<1> DEFINE text == p.text
           st == <<0, 1, 2, 3, 3, 4, 5, 5, 6, 7, 7, 11, 12, 13>>
           lev == <<0, 0, 0, 2, 2, 2, 1, 1, 1, 1, 1, 1, 1>>
           to == <<0, 11, 0, 0, 0, 0, 0, 0, 0, 0, 0, 5, 0>>
<1>1. text = <<O(1), Call(Baz), Exit, Label(Foo), O(1), Exit, Label(Bar), O(1), Exit,
             Label(Baz), O(4), Callx(3), Exit>>
  OBVIOUS
<1>2. Len(text) = 13 /\ text[1] = O(1) /\ text[2] = Call(Baz) /\ text[3] = Exit /\ text[4] = Label(Foo)
      /\ text[5] = O(1) /\ text[6] = Exit /\ text[7] = Label(Bar) /\ text[8] = O(1)
      /\ text[9] = Exit /\ text[10] = Label(Baz) /\ text[11] = O(4) /\ text[12] = Callx(3)
      /\ text[13] = Exit
  BY <1>1
<1>3. Shape(text[1], "other", 1) /\ Shape(text[2], "call", 1) /\ Shape(text[3], "exit", 1)
      /\ Marks(text[4], Foo) /\ Shape(text[5], "other", 1) /\ Shape(text[6], "exit", 1)
      /\ Marks(text[7], Bar) /\ Shape(text[8], "other", 1) /\ Shape(text[9], "exit", 1)
      /\ Marks(text[10], Baz) /\ Shape(text[11], "other", 4) /\ Shape(text[12], "callx", 1)
      /\ Shape(text[13], "exit", 1)
  BY <1>2, TheNames, DataShape, ExitShape, LabelShape, CallShape, CallxShape
<1>4. st \in [1 .. 14 -> Nat] /\ st[1] = 0 /\ st[2] = 1 /\ st[3] = 2 /\ st[4] = 3 /\ st[5] = 3 /\ st[6] = 4
      /\ st[7] = 5 /\ st[8] = 5 /\ st[9] = 6 /\ st[10] = 7 /\ st[11] = 7 /\ st[12] = 11
      /\ st[13] = 12 /\ st[14] = 13
  OBVIOUS
<1>5. lev \in [1 .. 13 -> 0 .. 6] /\ lev[1] = 0 /\ lev[2] = 0 /\ lev[3] = 0 /\ lev[4] = 2 /\ lev[5] = 2 /\ lev[6] = 2
      /\ lev[7] = 1 /\ lev[8] = 1 /\ lev[9] = 1 /\ lev[10] = 1 /\ lev[11] = 1 /\ lev[12] = 1
      /\ lev[13] = 1
      /\ to[2] = 11 /\ to[12] = 5
  OBVIOUS
<1> HIDE DEF text, st, lev, to
<1>6. \A l \in 1 .. 13 : l = 1 \/ l = 2 \/ l = 3 \/ l = 4 \/ l = 5 \/ l = 6 \/ l = 7 \/ l = 8 \/ l = 9
        \/ l = 10 \/ l = 11 \/ l = 12 \/ l = 13
  OBVIOUS
<1>7. text[1].kind = "ins" /\ text[2].kind = "ins" /\ text[3].kind = "ins"
      /\ text[4].kind = "label" /\ text[5].kind = "ins" /\ text[6].kind = "ins"
      /\ text[7].kind = "label" /\ text[8].kind = "ins" /\ text[9].kind = "ins"
      /\ text[10].kind = "label" /\ text[11].kind = "ins" /\ text[12].kind = "ins"
      /\ text[13].kind = "ins"
  BY <1>3 DEF Shape, Marks
<1>8. \A l \in 1 .. 13 : text[l] \in Lines /\ st[l + 1] = st[l] + Width(text[l])
  BY <1>3, <1>4, <1>6 DEF Shape, Marks
<1>9. \A l \in 1 .. 13 : text[l].kind = "ins" => NeverFaults(p, text[l])
  BY <1>2, <1>6, <1>7, TheNames, DataNeverFaults, ExitNeverFaults, CallNeverFaults, CallxNeverFaults
<1>10. \A l \in 1 .. 13 : text[l].kind = "ins" => FallsOn(text, lev, l)
  BY <1>2, <1>3, <1>5, <1>6, <1>7 DEF FallsOn, Shape, IsIns
<1>11. Enters(text, st, lev, 2, 11) /\ Enters(text, st, lev, 12, 5)
  BY <1>2, <1>3, <1>4, <1>5, <1>7, TheNames, CallShape, CallxShape
     DEF Enters, Shape, Marks, IsHead, IsIns
<1>12. \A l \in 1 .. 13 : text[l].kind = "ins" /\ text[l].op \in {"call", "callx"} =>
         Enters(text, st, lev, l, to[l])
  BY <1>3, <1>5, <1>6, <1>7, <1>11 DEF Shape
<1>13. LabelsAreHeads(text)
  <2>1. \A l \in 1 .. 13 : text[l].kind = "label" => l = 4 \/ l = 7 \/ l = 10
    BY <1>6, <1>7
  <2>2. text[4].name = Foo /\ text[7].name = Bar /\ text[10].name = Baz
    BY <1>3 DEF Marks
  <2>3. Len(text) = 13
    BY <1>2
  <2>4. IsHead(text, 4 + 1) /\ IsHead(text, 7 + 1) /\ IsHead(text, 10 + 1)
    BY <1>7, <2>3 DEF IsHead, IsIns
  <2>5. \A l \in 1 .. 13 : text[l].kind = "label" =>
          IsHead(text, l + 1) /\ (text[l].name = Entrypoint => l = 1)
    BY <2>1, <2>2, <2>4, TheNames
  <2>6. \A l, m \in 1 .. 13 :
          text[l].kind = "label" /\ text[m].kind = "label" /\ text[l].name = text[m].name => l = m
    BY <2>1, <2>2, TheNames
  <2>7. QED
    BY <2>3, <2>5, <2>6, Zenon DEF LabelsAreHeads
<1>14. text \in Seq(Lines)
  BY <1>1, <1>2, <1>6, <1>8
<1>15. Labelled(p, st, lev, to, 13)
  BY <1>2, <1>4, <1>5, <1>7, <1>8, <1>9, <1>10, <1>12, <1>13, <1>14 DEF Labelled, text
<1>16. QED
  BY <1>15, LabelledFits

LEMMA CallxFits ==
  ASSUME NEW p, NEW body \in {1, 2}, p.text = CallxFoo(5, 7, body)
  PROVE  Certifiable(p)
<1> DEFINE text == p.text
           st == <<0, 5, 6, 7, 7, 7 + body, 8 + body>>
           lev == <<0, 0, 0, 1, 1, 1>>
           to == <<0, 5, 0, 0, 0, 0>>
<1>1. text = <<O(5), Callx(7), Exit, Label(Foo), O(body), Exit>>
  BY DEF CallxFoo
<1>2. Len(text) = 6 /\ text[1] = O(5) /\ text[2] = Callx(7) /\ text[3] = Exit /\ text[4] = Label(Foo)
      /\ text[5] = O(body) /\ text[6] = Exit
  BY <1>1
<1>3. Shape(text[1], "other", 5) /\ Shape(text[2], "callx", 1) /\ Shape(text[3], "exit", 1)
      /\ Marks(text[4], Foo) /\ Shape(text[5], "other", body) /\ Shape(text[6], "exit", 1)
  BY <1>2, TheNames, DataShape, ExitShape, LabelShape, CallxShape
<1>4. st \in [1 .. 7 -> Nat] /\ st[1] = 0 /\ st[2] = 5 /\ st[3] = 6 /\ st[4] = 7 /\ st[5] = 7 /\ st[6] = 7 + body
      /\ st[7] = 8 + body
  OBVIOUS
<1>5. lev \in [1 .. 6 -> 0 .. 6] /\ lev[1] = 0 /\ lev[2] = 0 /\ lev[3] = 0 /\ lev[4] = 1 /\ lev[5] = 1 /\ lev[6] = 1
      /\ to[2] = 5
  OBVIOUS
<1> HIDE DEF text, st, lev, to
<1>6. \A l \in 1 .. 6 : l = 1 \/ l = 2 \/ l = 3 \/ l = 4 \/ l = 5 \/ l = 6
  OBVIOUS
<1>7. text[1].kind = "ins" /\ text[2].kind = "ins" /\ text[3].kind = "ins"
      /\ text[4].kind = "label" /\ text[5].kind = "ins" /\ text[6].kind = "ins"
  BY <1>3 DEF Shape, Marks
<1>8. \A l \in 1 .. 6 : text[l] \in Lines /\ st[l + 1] = st[l] + Width(text[l])
  BY <1>3, <1>4, <1>6 DEF Shape, Marks
<1>9. \A l \in 1 .. 6 : text[l].kind = "ins" => NeverFaults(p, text[l])
  BY <1>2, <1>6, <1>7, TheNames, DataNeverFaults, ExitNeverFaults, CallxNeverFaults
<1>10. \A l \in 1 .. 6 : text[l].kind = "ins" => FallsOn(text, lev, l)
  BY <1>2, <1>3, <1>5, <1>6, <1>7 DEF FallsOn, Shape, IsIns
<1>11. Enters(text, st, lev, 2, 5)
  BY <1>2, <1>3, <1>4, <1>5, <1>7, TheNames, CallxShape
     DEF Enters, Shape, Marks, IsHead, IsIns
<1>12. \A l \in 1 .. 6 : text[l].kind = "ins" /\ text[l].op \in {"call", "callx"} =>
         Enters(text, st, lev, l, to[l])
  BY <1>3, <1>5, <1>6, <1>7, <1>11 DEF Shape
<1>13. LabelsAreHeads(text)
  BY <1>2, <1>3, <1>6, <1>7, TheNames DEF LabelsAreHeads, Marks, IsHead, IsIns
<1>14. text \in Seq(Lines)
  BY <1>1, <1>2, <1>6, <1>8
<1>15. Labelled(p, st, lev, to, 6)
  BY <1>2, <1>4, <1>5, <1>7, <1>8, <1>9, <1>10, <1>12, <1>13, <1>14, SMTT(30) DEF Labelled, text
<1>16. QED
  BY <1>15, LabelledFits

(* A line of a body: it goes on to the next one.                           *)
BodyLine(p, line) == line \in Fine(p) /\ line.op # "exit"

(* Functions of as many lines each, the last one perhaps shorter.          *)
Even(ss, n, size, last) ==
  /\ n \in Nat \ {0} /\ Len(ss) = n /\ size \in {4, 5} /\ last \in 1 .. size
  /\ Len(ss[n]) = last
  /\ \A k \in 1 .. n - 1 : Len(ss[k]) = size

(* Parts of the same length begin at the multiples of that length.         *)
LEMMA EqualParts ==
  ASSUME NEW X, NEW ss \in Seq(Seq(X)), NEW n, NEW size, NEW last, Even(ss, n, size, last)
  PROVE  /\ FlattenSeq(ss) \in Seq(X) /\ Len(FlattenSeq(ss)) = size * (n - 1) + last
         /\ \A k \in 1 .. n : \A j \in 1 .. Len(ss[k]) :
              FlattenSeq(ss)[size * (k - 1) + j] = ss[k][j]
<1> DEFINE st == [k \in 1 .. n + 1 |-> IF k = n + 1 THEN size * (n - 1) + last ELSE size * (k - 1)]
<1>1. ss \in Seq(Seq(X)) /\ Len(ss) = n
  BY DEF Even
<1>d. n \in Nat \ {0} /\ size \in {4, 5} /\ last \in 1 .. size
  BY DEF Even
<1>p. Len(ss[n]) = last /\ \A k \in 1 .. n - 1 : Len(ss[k]) = size
  BY DEF Even
<1>2. /\ \A k \in 1 .. n : st[k] = size * (k - 1)
      /\ st[n + 1] = size * (n - 1) + last
      /\ st \in [1 .. n + 1 -> Nat]
  <2>1. CASE size = 4
    BY <1>d, <2>1
  <2>2. CASE size = 5
    BY <1>d, <2>2
  <2>3. QED
    BY <1>d, <2>1, <2>2
<1> HIDE DEF st
<1>3. \A k \in 1 .. n : st[k + 1] = st[k] + Len(ss[k])
  <2>1. SUFFICES ASSUME NEW k \in 1 .. n PROVE st[k + 1] = st[k] + Len(ss[k])
    OBVIOUS
  <2>2. CASE k = n
    BY <1>2, <1>d, <1>p, <2>2
  <2>3. CASE k < n
    <3>1. k \in 1 .. n - 1 /\ k + 1 \in 1 .. n
      BY <1>d, <2>3
    <3>2. st[k + 1] = size * k /\ st[k] = size * (k - 1) /\ Len(ss[k]) = size
      BY <1>2, <1>p, <1>d, <3>1
    <3>3. QED
      BY <1>d, <3>1, <3>2
  <2>4. QED
    BY <1>d, <2>2, <2>3
<1>4. Sums(ss, st)
  <2>1. Len(ss) = n
    BY <1>1
  <2>2. st[1] = 0
    BY <1>2, <1>d
  <2>3. st \in [1 .. Len(ss) + 1 -> Nat] /\ \A k \in 1 .. Len(ss) : st[k + 1] = st[k] + Len(ss[k])
    BY <1>2, <1>3, <2>1
  <2>4. QED
    BY <2>2, <2>3 DEF Sums
<1> DEFINE whole == FlattenSeq(ss)
<1>5. /\ whole \in Seq(X) /\ Len(whole) = st[n + 1]
      /\ \A k \in 1 .. n : \A j \in 1 .. Len(ss[k]) : whole[st[k] + j] = ss[k][j]
  <2>1. InRow(X, ss, st, whole)
    BY <1>4, FlattenLayout
  <2> HIDE DEF whole, st
  <2>2. QED
    BY <1>1, <2>1 DEF InRow
<1> HIDE DEF whole
<1>6. \A k \in 1 .. n : \A j \in 1 .. Len(ss[k]) : whole[size * (k - 1) + j] = ss[k][j]
  BY <1>2, <1>5
<1>7. QED
  BY <1>2, <1>5, <1>6 DEF whole

-----------------------------------------------------------------------------
(* Functions that are called one after the other.                          *)

BackpatchText(text, n, body, last) ==
  /\ n \in 3 .. 8 /\ text \in Seq(Lines) /\ Len(text) = 5 * n + 2
  /\ \A l \in 1 .. n : text[l] = Call(Function(l - 1))
  /\ text[n + 1] = O(1) /\ text[n + 2] = Exit
  /\ \A k \in 1 .. n : /\ text[n + 4 * k - 1] = Label(Function(k - 1))
                       /\ text[n + 4 * k] = O(body)
                       /\ text[n + 4 * k + 1] = last
                       /\ text[n + 4 * k + 2] = Exit

(* The template of many functions, whatever their number and length.       *)
LEMMA BackpatchFits ==
  ASSUME NEW p, NEW n, NEW body \in Nat \ {0}, NEW last, BodyLine(p, last),
         BackpatchText(p.text, n, body, last)
  PROVE  Certifiable(p)
<1> DEFINE text == p.text
           m == 5 * n + 2
           lev == [l \in 1 .. m |-> IF l <= n + 2 THEN 0 ELSE 1]
           to == [l \in 1 .. m |-> n + 4 * l]
<1>1. n \in 3 .. 8 /\ text \in Seq(Lines) /\ Len(text) = m /\ m \in Nat
  BY DEF BackpatchText
<1>2. \A k \in 0 .. n : Function(k) \in Name /\ Function(k) # NoName /\ Function(k) = ProgramLabel(k)
  BY NoNameIsName, NamesDiffer DEF Function
<1>3. \A l \in 1 .. n : /\ Shape(text[l], "call", 1) /\ text[l].name = Function(l - 1)
                        /\ NeverFaults(p, text[l])
  BY <1>1, <1>2, CallShape, CallNeverFaults, SMTT(30) DEF BackpatchText
<1>4. /\ Shape(text[n + 1], "other", 1) /\ NeverFaults(p, text[n + 1])
      /\ Shape(text[n + 2], "exit", 1) /\ NeverFaults(p, text[n + 2])
  BY <1>1, DataShape, DataNeverFaults, ExitShape, ExitNeverFaults DEF BackpatchText
<1>5. \A k \in 1 .. n : Marks(text[n + 4 * k - 1], Function(k - 1))
  BY <1>1, <1>2, LabelShape DEF BackpatchText
<1>6. \A k \in 1 .. n : /\ Shape(text[n + 4 * k], "other", body) /\ NeverFaults(p, text[n + 4 * k])
                        /\ Shape(text[n + 4 * k + 2], "exit", 1) /\ NeverFaults(p, text[n + 4 * k + 2])
  BY <1>1, DataShape, DataNeverFaults, ExitShape, ExitNeverFaults DEF BackpatchText
<1>7. \A k \in 1 .. n : text[n + 4 * k + 1] \in Fine(p) /\ text[n + 4 * k + 1].op # "exit"
  BY <1>1 DEF BackpatchText, BodyLine
<1>8. ASSUME NEW l \in 1 .. m, l > n + 2
      PROVE  \E k \in 1 .. n : \/ l = n + 4 * k - 1 \/ l = n + 4 * k
                                \/ l = n + 4 * k + 1 \/ l = n + 4 * k + 2
  <2> DEFINE k == (l - n + 1) \div 4
  <2>1. k \in 1 .. n
    BY <1>1, <1>8
  <2>2. l \in n + 4 * k - 1 .. n + 4 * k + 2
    BY <1>1, <1>8
  <2> HIDE DEF k
  <2>3. l = n + 4 * k - 1 \/ l = n + 4 * k \/ l = n + 4 * k + 1 \/ l = n + 4 * k + 2
    BY <1>1, <2>1, <2>2
  <2>4. QED
    BY <2>1, <2>3
<1>9. \A l \in 1 .. m : \/ l \in 1 .. n \/ l = n + 1 \/ l = n + 2
                        \/ \E k \in 1 .. n : \/ l = n + 4 * k - 1 \/ l = n + 4 * k
                                             \/ l = n + 4 * k + 1 \/ l = n + 4 * k + 2
  <2>1. \A l \in 1 .. m : l <= n + 2 => l \in 1 .. n \/ l = n + 1 \/ l = n + 2
    BY <1>1
  <2>2. \A l \in 1 .. m : l <= n + 2 \/ l > n + 2
    BY <1>1
  <2>3. QED
    BY <1>8, <2>1, <2>2
<1>10. lev \in [1 .. m -> 0 .. 6] /\ \A l \in 1 .. m : lev[l] = IF l <= n + 2 THEN 0 ELSE 1
  OBVIOUS
<1>11. \A l \in 1 .. m : to[l] = n + 4 * l
  OBVIOUS
<1>12. PICK st : Starts(text, st)
  BY <1>1, StartsExist
<1> HIDE DEF text, lev, to
<1>13. \A l \in 1 .. m : text[l].kind = "label" => \E k \in 1 .. n : l = n + 4 * k - 1
  BY <1>3, <1>4, <1>6, <1>7, <1>9 DEF Shape, Fine
<1>14. LabelsAreHeads(text)
  <2>1. ASSUME NEW l \in 1 .. m, text[l].kind = "label"
        PROVE  IsHead(text, l + 1) /\ text[l].name # Entrypoint
    <3>1. PICK k \in 1 .. n : l = n + 4 * k - 1
      BY <1>13, <2>1
    <3>2. text[l + 1].kind = "ins" /\ l + 1 \in 1 .. m
      BY <1>1, <1>6, <3>1 DEF Shape
    <3>3. text[l].name = ProgramLabel(k - 1) /\ k - 1 # 9
      BY <1>1, <1>2, <1>5, <3>1, SMTT(30) DEF Marks
    <3>4. QED
      BY <1>1, <2>1, <3>2, <3>3, NamesDiffer DEF IsHead, IsIns, Entrypoint
  <2>2. ASSUME NEW l \in 1 .. m, NEW h \in 1 .. m, text[l].kind = "label", text[h].kind = "label",
               text[l].name = text[h].name
        PROVE  l = h
    <3>1. PICK k \in 1 .. n : l = n + 4 * k - 1
      BY <1>13, <2>2
    <3>2. PICK j \in 1 .. n : h = n + 4 * j - 1
      BY <1>13, <2>2
    <3>3. text[l].name = ProgramLabel(k - 1) /\ text[h].name = ProgramLabel(j - 1)
      BY <1>1, <1>2, <1>5, <3>1, <3>2, SMTT(30) DEF Marks
    <3>4. k - 1 = j - 1
      BY <2>2, <3>3, NamesDiffer
    <3>5. QED
      BY <1>1, <3>1, <3>2, <3>4
  <2>3. QED
    BY <1>1, <2>1, <2>2 DEF LabelsAreHeads
<1>15. \A l \in 1 .. m : text[l].kind = "ins" => NeverFaults(p, text[l])
  <2>1. \A k \in 1 .. n : text[n + 4 * k - 1].kind = "label" /\ NeverFaults(p, text[n + 4 * k + 1])
    BY <1>5, <1>7 DEF Marks, Fine
  <2>2. QED
    BY <1>3, <1>4, <1>6, <1>9, <2>1
<1>16. \A l \in 1 .. m : text[l].kind = "ins" => FallsOn(text, lev, l)
  <2>1. SUFFICES ASSUME NEW l \in 1 .. m, text[l].kind = "ins" PROVE FallsOn(text, lev, l)
    OBVIOUS
  <2>2. CASE l \in 1 .. n
    <3>1. text[l].op = "call" /\ text[l + 1].kind = "ins" /\ l + 1 \in 1 .. n + 1
      BY <1>1, <1>3, <1>4, <2>2 DEF Shape
    <3>2. QED
      BY <1>1, <1>10, <2>2, <3>1 DEF FallsOn, IsIns
  <2>3. CASE l = n + 1
    BY <1>1, <1>4, <1>10, <2>3 DEF FallsOn, IsIns, Shape
  <2>4. CASE l = n + 2
    BY <1>1, <1>4, <2>4 DEF FallsOn, Shape
  <2>5. ASSUME NEW k \in 1 .. n, l = n + 4 * k PROVE FallsOn(text, lev, l)
    <3>1. text[l].op = "other" /\ text[l + 1].kind = "ins" /\ l + 1 \in 1 .. m /\ l > n + 2
      BY <1>1, <1>6, <1>7, <2>5 DEF Shape, Fine
    <3>2. QED
      BY <1>1, <1>10, <3>1 DEF FallsOn, IsIns
  <2>6. ASSUME NEW k \in 1 .. n, l = n + 4 * k + 1 PROVE FallsOn(text, lev, l)
    <3>1. text[l].op \notin {"jeq", "ja"} /\ l + 1 \in 1 .. m /\ l > n + 2
      BY <1>1, <1>7, <2>6 DEF Fine
    <3>2. text[l + 1].kind = "ins"
      <4>1. l + 1 = n + 4 * k + 2
        BY <1>1, <2>6
      <4>2. QED
        BY <1>6, <4>1 DEF Shape
    <3>3. QED
      BY <1>1, <1>10, <3>1, <3>2, SMTT(30) DEF FallsOn, IsIns
  <2>7. ASSUME NEW k \in 1 .. n, l = n + 4 * k + 2 PROVE FallsOn(text, lev, l)
    BY <1>6, <2>7 DEF FallsOn, Shape
  <2>8. \A k \in 1 .. n : l # n + 4 * k - 1
    BY <1>5, <2>1 DEF Marks
  <2>9. QED
    BY <1>9, <2>2, <2>3, <2>4, <2>5, <2>6, <2>7, <2>8
<1>17. \A l \in 1 .. n : Enters(text, st, lev, l, to[l])
  <2>1. SUFFICES ASSUME NEW l \in 1 .. n PROVE Enters(text, st, lev, l, to[l])
    OBVIOUS
  <2>2. l \in 1 .. m /\ to[l] = n + 4 * l /\ n + 4 * l \in 1 .. m /\ n + 4 * l - 1 \in 1 .. m
    BY <1>1, <1>11
  <2>3. text[n + 4 * l].kind = "ins" /\ text[n + 4 * l - 1].kind = "label"
        /\ text[n + 4 * l - 1].name = Function(l - 1)
    BY <1>5, <1>6 DEF Shape, Marks
  <2>4. lev[n + 4 * l] = 1 /\ lev[l] = 0
    BY <1>1, <1>10, <2>2
  <2>5. text[l].op = "call" /\ text[l].name = Function(l - 1) /\ Function(l - 1) # NoName
    BY <1>1, <1>2, <1>3 DEF Shape
  <2>6. QED
    BY <1>1, <2>2, <2>3, <2>4, <2>5 DEF Enters, IsHead, IsIns
<1>18. \A l \in 1 .. m : text[l].kind = "ins" /\ text[l].op \in {"call", "callx"} => l \in 1 .. n
  <2>1. \A k \in 1 .. n : text[n + 4 * k - 1].kind = "label"
                       /\ text[n + 4 * k + 1].op \notin {"call", "callx"}
    BY <1>5, <1>7 DEF Marks, Fine
  <2>2. QED
    BY <1>4, <1>6, <1>9, <2>1 DEF Shape
<1>19. text[m].kind = "ins"
  <2>1. m = n + 4 * n + 2 /\ n \in 1 .. n
    BY <1>1
  <2>2. QED
    BY <1>6, <2>1 DEF Shape
<1>m. m \in Nat /\ m >= 1 /\ 1 .. n \subseteq 1 .. m
  BY <1>1
<1> HIDE DEF m
<1>20. Labelled(p, st, lev, to, m)
  BY <1>1, <1>m, <1>10, <1>12, <1>14, <1>15, <1>16, <1>17, <1>18, <1>19 DEF Labelled, Starts, text
<1>21. QED
  BY <1>20, LabelledFits

(* Functions that call each other, one deeper than the other.              *)
DeepText(text, n, body, last) ==
  /\ n \in 3 .. 6 /\ text \in Seq(Lines) /\ Len(text) = 5 * n + 3
  /\ text[1] = O(4) /\ text[2] = Call(Function(0)) /\ text[3] = O(1) /\ text[4] = Exit
  /\ \A k \in 1 .. n : /\ text[5 * k] = Label(Function(k - 1))
                       /\ text[5 * k + 1] = O(body)
                       /\ text[5 * k + 2] = last
  /\ \A k \in 1 .. n - 1 : text[5 * k + 3] = Call(Function(k)) /\ text[5 * k + 4] = Exit
  /\ text[5 * n + 3] = Exit

(* The template of nested functions, whatever their depth and length.      *)
LEMMA DeepFits ==
  ASSUME NEW p, NEW n, NEW body \in Nat \ {0}, NEW last, BodyLine(p, last),
         DeepText(p.text, n, body, last)
  PROVE  Certifiable(p)
<1> DEFINE text == p.text
           m == 5 * n + 3
           lev == [l \in 1 .. m |-> l \div 5]
           to == [l \in 1 .. m |-> IF l = 2 THEN 6 ELSE l + 3]
<1>1. n \in 3 .. 6 /\ text \in Seq(Lines) /\ Len(text) = m /\ m \in Nat
  BY DEF DeepText
<1>2. \A k \in 0 .. n : Function(k) \in Name /\ Function(k) # NoName /\ Function(k) = ProgramLabel(k)
  BY NoNameIsName, NamesDiffer DEF Function
<1>3. /\ Shape(text[1], "other", 4) /\ Shape(text[2], "call", 1) /\ Shape(text[3], "other", 1)
      /\ Shape(text[4], "exit", 1) /\ text[2].name = Function(0)
      /\ NeverFaults(p, text[1]) /\ NeverFaults(p, text[2]) /\ NeverFaults(p, text[3])
      /\ NeverFaults(p, text[4])
  <2>1. text[1] = O(4) /\ text[2] = Call(Function(0)) /\ text[3] = O(1) /\ text[4] = Exit
    BY DEF DeepText
  <2>2. Function(0) \in Name
    BY <1>1, <1>2
  <2>3. QED
    BY <2>1, <2>2, CallShape, CallNeverFaults, DataShape, DataNeverFaults, ExitShape, ExitNeverFaults
<1>4. \A k \in 1 .. n : Marks(text[5 * k], Function(k - 1))
  BY <1>1, <1>2, LabelShape DEF DeepText
<1>5. \A k \in 1 .. n : Shape(text[5 * k + 1], "other", body) /\ NeverFaults(p, text[5 * k + 1])
  BY <1>1, DataShape, DataNeverFaults DEF DeepText
<1>6. \A k \in 1 .. n : text[5 * k + 2] \in Fine(p) /\ text[5 * k + 2].op # "exit"
  BY <1>1 DEF DeepText, BodyLine
<1>7. \A k \in 1 .. n - 1 :
        /\ Shape(text[5 * k + 3], "call", 1) /\ text[5 * k + 3].name = Function(k)
        /\ NeverFaults(p, text[5 * k + 3])
        /\ Shape(text[5 * k + 4], "exit", 1) /\ NeverFaults(p, text[5 * k + 4])
  <2>1. SUFFICES ASSUME NEW k \in 1 .. n - 1
                 PROVE  /\ Shape(text[5 * k + 3], "call", 1) /\ text[5 * k + 3].name = Function(k)
                        /\ NeverFaults(p, text[5 * k + 3])
                        /\ Shape(text[5 * k + 4], "exit", 1) /\ NeverFaults(p, text[5 * k + 4])
    OBVIOUS
  <2>2. text[5 * k + 3] = Call(Function(k)) /\ text[5 * k + 4] = Exit
    BY DEF DeepText
  <2>3. Function(k) \in Name
    BY <1>1, <1>2
  <2>4. QED
    BY <2>2, <2>3, CallShape, CallNeverFaults, ExitShape, ExitNeverFaults
<1>8. Shape(text[m], "exit", 1) /\ NeverFaults(p, text[m])
  BY ExitShape, ExitNeverFaults DEF DeepText
<1>9. ASSUME NEW l \in 1 .. m
      PROVE  \/ l = 1 \/ l = 2 \/ l = 3 \/ l = 4 \/ l = m
             \/ \E k \in 1 .. n : l = 5 * k \/ l = 5 * k + 1 \/ l = 5 * k + 2
             \/ \E k \in 1 .. n - 1 : l = 5 * k + 3 \/ l = 5 * k + 4
  <2> DEFINE k == l \div 5
  <2>1. k \in 0 .. n /\ l \in 5 * k .. 5 * k + 4
    BY <1>1
  <2> HIDE DEF k
  <2>2. l = 5 * k \/ l = 5 * k + 1 \/ l = 5 * k + 2 \/ l = 5 * k + 3 \/ l = 5 * k + 4
    BY <1>1, <2>1
  <2>3. CASE k = 0
    <3>1. l = 1 \/ l = 2 \/ l = 3 \/ l = 4
      BY <1>1, <2>2, <2>3
    <3>2. QED
      BY <3>1
  <2>4. CASE k \in 1 .. n - 1
    <3>1. k \in 1 .. n
      BY <1>1, <2>4
    <3>2. CASE l = 5 * k \/ l = 5 * k + 1 \/ l = 5 * k + 2
      BY <3>1, <3>2
    <3>3. CASE l = 5 * k + 3 \/ l = 5 * k + 4
      BY <2>4, <3>3
    <3>4. QED
      BY <2>2, <3>2, <3>3
  <2>5. CASE k = n
    BY <1>1, <2>2, <2>5
  <2>6. QED
    BY <1>1, <2>1, <2>3, <2>4, <2>5
<1>10. lev \in [1 .. m -> 0 .. 6] /\ \A l \in 1 .. m : lev[l] = l \div 5
  BY <1>1
<1>11. /\ lev[1] = 0 /\ lev[2] = 0 /\ lev[3] = 0 /\ lev[4] = 0
       /\ \A k \in 1 .. n : /\ lev[5 * k] = k /\ lev[5 * k + 1] = k /\ lev[5 * k + 2] = k
                            /\ lev[5 * k + 3] = k
       /\ \A k \in 1 .. n - 1 : lev[5 * k + 4] = k
  BY <1>1
<1>12. to[2] = 6 /\ \A k \in 1 .. n - 1 : to[5 * k + 3] = 5 * (k + 1) + 1
  BY <1>1
<1>13. PICK st : Starts(text, st)
  BY <1>1, StartsExist
<1> HIDE DEF text, lev, to
<1>14. \A l \in 1 .. m : text[l].kind = "label" => \E k \in 1 .. n : l = 5 * k
  BY <1>3, <1>5, <1>6, <1>7, <1>8, <1>9 DEF Shape, Fine
<1>15. LabelsAreHeads(text)
  <2>1. ASSUME NEW l \in 1 .. m, text[l].kind = "label"
        PROVE  IsHead(text, l + 1) /\ text[l].name # Entrypoint
    <3>1. PICK k \in 1 .. n : l = 5 * k
      BY <1>14, <2>1
    <3>2. text[l + 1].kind = "ins" /\ l + 1 \in 1 .. m
      BY <1>1, <1>5, <3>1 DEF Shape
    <3>3. text[l].name = ProgramLabel(k - 1) /\ k - 1 # 9
      BY <1>1, <1>2, <1>4, <3>1 DEF Marks
    <3>4. QED
      BY <1>1, <2>1, <3>2, <3>3, NamesDiffer DEF IsHead, IsIns, Entrypoint
  <2>2. ASSUME NEW l \in 1 .. m, NEW h \in 1 .. m, text[l].kind = "label", text[h].kind = "label",
               text[l].name = text[h].name
        PROVE  l = h
    <3>1. PICK k \in 1 .. n : l = 5 * k
      BY <1>14, <2>2
    <3>2. PICK j \in 1 .. n : h = 5 * j
      BY <1>14, <2>2
    <3>3. text[l].name = ProgramLabel(k - 1) /\ text[h].name = ProgramLabel(j - 1)
      BY <1>1, <1>2, <1>4, <3>1, <3>2, SMTT(30) DEF Marks
    <3>4. k - 1 = j - 1
      BY <2>2, <3>3, NamesDiffer
    <3>5. QED
      BY <1>1, <3>1, <3>2, <3>4
  <2>3. QED
    BY <1>1, <2>1, <2>2 DEF LabelsAreHeads
<1>16. \A k \in 1 .. n : text[5 * k].kind = "label"
  BY <1>4 DEF Marks
<1>17. \A l \in 1 .. m : text[l].kind = "ins" => NeverFaults(p, text[l])
  <2>1. \A k \in 1 .. n : NeverFaults(p, text[5 * k + 2])
    BY <1>6 DEF Fine
  <2>2. QED
    BY <1>3, <1>5, <1>7, <1>8, <1>9, <1>16, <2>1
<1>18. \A l \in 1 .. m : text[l].kind = "ins" => FallsOn(text, lev, l)
  <2>1. SUFFICES ASSUME NEW l \in 1 .. m, text[l].kind = "ins" PROVE FallsOn(text, lev, l)
    OBVIOUS
  <2>2. CASE l \in {1, 2, 3, 4}
    BY <1>1, <1>3, <1>11, <2>2, SMTT(30) DEF FallsOn, IsIns, Shape
  <2>3. CASE l = m
    BY <1>8, <2>3 DEF FallsOn, Shape
  <2>4. ASSUME NEW k \in 1 .. n, l = 5 * k + 1 PROVE FallsOn(text, lev, l)
    <3>1. text[l].op = "other" /\ l + 1 = 5 * k + 2 /\ l + 1 \in 1 .. m
      BY <1>1, <1>5, <2>4 DEF Shape
    <3>2. text[l + 1].kind = "ins" /\ lev[l + 1] = lev[l]
      BY <1>6, <1>11, <2>4, <3>1 DEF Fine
    <3>3. QED
      BY <1>1, <3>1, <3>2 DEF FallsOn, IsIns
  <2>5. ASSUME NEW k \in 1 .. n, l = 5 * k + 2 PROVE FallsOn(text, lev, l)
    <3>1. text[l].op \notin {"jeq", "ja"} /\ l + 1 = 5 * k + 3 /\ l + 1 \in 1 .. m
      BY <1>1, <1>6, <2>5 DEF Fine
    <3>2. text[5 * k + 3].kind = "ins"
      <4>1. k \in 1 .. n - 1 \/ 5 * k + 3 = m
        BY <1>1
      <4>2. QED
        BY <1>7, <1>8, <4>1 DEF Shape
    <3>3. lev[l + 1] = lev[l]
      BY <1>11, <2>5, <3>1
    <3>4. QED
      BY <1>1, <3>1, <3>2, <3>3 DEF FallsOn, IsIns
  <2>6. ASSUME NEW k \in 1 .. n - 1, l = 5 * k + 3 PROVE FallsOn(text, lev, l)
    <3>1. text[l].op = "call" /\ text[5 * k + 4].kind = "ins"
      BY <1>7, <2>6 DEF Shape
    <3>2. k \in 1 .. n /\ l + 1 = 5 * k + 4 /\ l + 1 \in 1 .. m
      BY <1>1, <2>6
    <3>3. lev[5 * k + 3] = k /\ lev[5 * k + 4] = k
      BY <1>11, <3>2
    <3>4. lev[l + 1] = lev[l]
      BY <2>6, <3>2, <3>3
    <3>5. QED
      BY <1>1, <3>1, <3>2, <3>4 DEF FallsOn, IsIns
  <2>7. ASSUME NEW k \in 1 .. n - 1, l = 5 * k + 4 PROVE FallsOn(text, lev, l)
    BY <1>7, <2>7 DEF FallsOn, Shape
  <2>8. \A k \in 1 .. n : l # 5 * k
    BY <1>16, <2>1
  <2>9. QED
    BY <1>9, <2>2, <2>3, <2>4, <2>5, <2>6, <2>7, <2>8
<1>19. \A k \in 1 .. n : /\ IsHead(text, 5 * k + 1) /\ text[5 * k].name = Function(k - 1)
                         /\ (5 * k + 1) - 1 = 5 * k
  BY <1>1, <1>4, <1>5 DEF Shape, Marks, IsHead, IsIns
<1>20. Enters(text, st, lev, 2, 6)
  <2>1. 1 \in 1 .. n /\ 5 * 1 + 1 = 6 /\ 5 * 1 = 5 /\ 1 - 1 = 0
    BY <1>1
  <2>2. IsHead(text, 6) /\ text[5].name = Function(0) /\ lev[6] = 1
    BY <1>11, <1>19, <2>1
  <2>3. Function(0) # NoName
    BY <1>1, <1>2
  <2>4. QED
    BY <1>3, <1>11, <2>2, <2>3 DEF Enters, Shape
<1>21. \A k \in 1 .. n - 1 : Enters(text, st, lev, 5 * k + 3, 5 * (k + 1) + 1)
  <2>1. SUFFICES ASSUME NEW k \in 1 .. n - 1
                 PROVE  Enters(text, st, lev, 5 * k + 3, 5 * (k + 1) + 1)
    OBVIOUS
  <2> DEFINE j == k + 1
  <2>2. j \in 1 .. n /\ j - 1 = k /\ k \in 1 .. n
    BY <1>1
  <2>3. lev[5 * k + 3] = k /\ Function(k) # NoName
    BY <1>1, <1>2, <1>11, <2>2, SMTT(30)
  <2> HIDE DEF j
  <2>4. /\ IsHead(text, 5 * j + 1) /\ text[(5 * j + 1) - 1].name = Function(k) /\ lev[5 * j + 1] = j
    BY <1>11, <1>19, <2>2
  <2>5. j > k
    BY <1>1, <2>2
  <2>6. text[5 * k + 3].op = "call" /\ text[5 * k + 3].name = Function(k)
    BY <1>7 DEF Shape
  <2>7. Enters(text, st, lev, 5 * k + 3, 5 * j + 1)
    BY <2>3, <2>4, <2>5, <2>6 DEF Enters
  <2>8. QED
    BY <2>7 DEF j
<1>22. \A l \in 1 .. m : text[l].kind = "ins" /\ text[l].op \in {"call", "callx"} =>
         Enters(text, st, lev, l, to[l])
  <2>1. \A k \in 1 .. n : text[5 * k + 2].op \notin {"call", "callx"}
    BY <1>6 DEF Fine
  <2>2. \A l \in 1 .. m : text[l].kind = "ins" /\ text[l].op \in {"call", "callx"} =>
          l = 2 \/ \E k \in 1 .. n - 1 : l = 5 * k + 3
    BY <1>3, <1>5, <1>7, <1>8, <1>9, <1>16, <2>1 DEF Shape
  <2>3. QED
    BY <1>12, <1>20, <1>21, <2>2
<1>23. m >= 1 /\ text[m].kind = "ins"
  BY <1>1, <1>8 DEF Shape
<1> HIDE DEF m
<1>24. Labelled(p, st, lev, to, m)
  BY <1>1, <1>10, <1>13, <1>15, <1>17, <1>18, <1>22, <1>23 DEF Labelled, Starts, text
<1>25. QED
  BY <1>24, LabelledFits

LEMMA LastIsBodyLine ==
  ASSUME NEW version, NEW last \in {Plain} \cup MulImm(version), NEW p, p.version = version
  PROVE  BodyLine(p, last)
<1>1. CASE last = Plain
  <2>1. Plain.op = "other"
    BY OFields DEF Plain
  <2>2. QED
    BY <1>1, <2>1, PlainIsFine DEF BodyLine
<1>2. CASE last \in MulImm(version)
  <2> DEFINE op == "mul"
  <2>1. last = AluImm(op, 64, Other, 1) /\ version # "V2"
    BY <1>2 DEF MulImm, UsesPqr
  <2>2. op \in Ops /\ op \notin Lacking(p.version) /\ op \notin Shifts /\ op \notin Divisions
    BY <2>1 DEF Ops, Shifts, Lacking, OldOps, PqrOps, Divisions, SignedDivisions
  <2>3. op \in OpNames /\ op # "exit"
    BY DEF OpNames, Ops, OldOps
  <2> HIDE DEF op
  <2>4. last \in Fine(p)
    BY <2>1, <2>2, FineAluImm DEF Other
  <2>5. last.op = op
    BY <2>1, <2>3, AluImmFields DEF Other
  <2>6. QED
    BY <2>3, <2>4, <2>5 DEF BodyLine
<1>3. QED
  BY <1>1, <1>2

Joined(a, b) == a \o b

LEMMA TwoParts ==
  ASSUME NEW a \in Seq(Lines), NEW b \in Seq(Lines)
  PROVE  /\ Joined(a, b) \in Seq(Lines) /\ Len(Joined(a, b)) = Len(a) + Len(b)
         /\ \A l \in 1 .. Len(a) : Joined(a, b)[l] = a[l]
         /\ \A l \in 1 .. Len(b) : Joined(a, b)[Len(a) + l] = b[l]
  BY DEF Joined

LEMMA ThreeParts ==
  ASSUME NEW a \in Seq(Lines), NEW b \in Seq(Lines), NEW c \in Seq(Lines)
  PROVE  /\ Joined(Joined(a, b), c) \in Seq(Lines)
         /\ Len(Joined(Joined(a, b), c)) = Len(a) + Len(b) + Len(c)
         /\ \A l \in 1 .. Len(a) : Joined(Joined(a, b), c)[l] = a[l]
         /\ \A l \in 1 .. Len(b) : Joined(Joined(a, b), c)[Len(a) + l] = b[l]
         /\ \A l \in 1 .. Len(c) : Joined(Joined(a, b), c)[Len(a) + Len(b) + l] = c[l]
<1> DEFINE ab == Joined(a, b)
           s == Joined(ab, c)
<1>1. Len(a) \in Nat /\ Len(b) \in Nat /\ Len(c) \in Nat
  OBVIOUS
<1>2. /\ ab \in Seq(Lines) /\ Len(ab) = Len(a) + Len(b)
      /\ \A l \in 1 .. Len(a) : ab[l] = a[l]
      /\ \A l \in 1 .. Len(b) : ab[Len(a) + l] = b[l]
  BY TwoParts
<1> HIDE DEF ab
<1>3. /\ s \in Seq(Lines) /\ Len(s) = Len(ab) + Len(c)
      /\ \A l \in 1 .. Len(ab) : s[l] = ab[l]
      /\ \A l \in 1 .. Len(c) : s[Len(ab) + l] = c[l]
  BY <1>2, TwoParts
<1> HIDE DEF s
<1>4. \A l \in 1 .. Len(a) : s[l] = a[l]
  <2>1. \A l \in 1 .. Len(a) : l \in 1 .. Len(ab)
    BY <1>1, <1>2
  <2>2. QED
    BY <1>2, <1>3, <2>1
<1>5. \A l \in 1 .. Len(b) : s[Len(a) + l] = b[l]
  <2>1. \A l \in 1 .. Len(b) : Len(a) + l \in 1 .. Len(ab)
    BY <1>1, <1>2
  <2>2. QED
    BY <1>2, <1>3, <2>1
<1>6. s \in Seq(Lines) /\ Len(s) = Len(a) + Len(b) + Len(c)
  BY <1>2, <1>3
<1>7. \A l \in 1 .. Len(c) : s[Len(a) + Len(b) + l] = c[l]
  BY <1>2, <1>3
<1>8. QED
  BY <1>4, <1>5, <1>6, <1>7 DEF s, ab

(* The texts of the two templates are laid out as above.                   *)
LEMMA BackpatchesFit ==
  ASSUME NEW version \in StressVersions
  PROVE  \A p \in JumpBackpatch(version) : Fit(p)
<1> DEFINE head(n) == [k \in 1 .. n |-> Call(Function(k - 1))]
           ss(n, insns, last) ==
             [k \in 1 .. n |-> <<Label(Function(k - 1)), O(insns - 1), last, Exit>>]
           rest(n, insns, last) == FlattenSeq(ss(n, insns, last))
           whole(n, insns, last) == head(n) \o <<O(1), Exit>> \o rest(n, insns, last)
<1>1. SUFFICES ASSUME NEW p \in JumpBackpatch(version) PROVE Certifiable(p)
  BY DEF Fit
<1>2. JumpBackpatch(version) =
        {Seed(version, "runs", 0, whole(n, insns, last)) :
           n \in 3 .. 8, insns \in 3 .. 10, last \in {Plain} \cup MulImm(version)}
  BY DEF JumpBackpatch
<1> HIDE DEF whole
<1>3. PICK n \in 3 .. 8, insns \in 3 .. 10, last \in {Plain} \cup MulImm(version) :
        p = Seed(version, "runs", 0, whole(n, insns, last))
  BY <1>1, <1>2
<1>4. p.version = version /\ p.text = whole(n, insns, last)
  BY <1>3, SeedFields
<1>5. BodyLine(p, last)
  BY <1>4, LastIsBodyLine
<1> DEFINE body == insns - 1
<1>6. body \in Nat \ {0}
  OBVIOUS
<1>7. BackpatchText(p.text, n, body, last)
  <2> DEFINE h == head(n)
             s == ss(n, insns, last)
             r == rest(n, insns, last)
             e == <<O(1), Exit>>
  <2>1. \A k \in 1 .. n : Function(k - 1) \in Name
    BY NoNameIsName DEF Function
  <2>2. last \in Lines
    BY <1>5 DEF BodyLine, Fine
  <2>3. h \in Seq(Lines) /\ Len(h) = n /\ \A k \in 1 .. n : h[k] = Call(Function(k - 1))
    <3>1. \A k \in 1 .. n : Call(Function(k - 1)) \in Lines
      BY <2>1, NameFields
    <3>2. QED
      BY <3>1
  <2>4. e \in Seq(Lines) /\ Len(e) = 2 /\ e[1] = O(1) /\ e[2] = Exit
    BY DataShape, ExitShape DEF Shape
  <2>5. \A k \in 1 .. n : <<Label(Function(k - 1)), O(body), last, Exit>> \in Seq(Lines)
    BY <1>6, <2>1, <2>2, LabelShape, DataShape, ExitShape DEF Shape, Marks
  <2>6. s \in Seq(Seq(Lines)) /\ Len(s) = n
    BY <2>5
  <2>7. \A k \in 1 .. n : /\ s[k] = <<Label(Function(k - 1)), O(body), last, Exit>>
    OBVIOUS
  <2>8. \A k \in 1 .. n : /\ Len(s[k]) = 4 /\ s[k][1] = Label(Function(k - 1)) /\ s[k][2] = O(body)
                          /\ s[k][3] = last /\ s[k][4] = Exit
    BY <2>7
  <2>f. r = FlattenSeq(s)
    OBVIOUS
  <2> HIDE DEF h, s, e, body, r
  <2>9. n \in 1 .. n /\ n - 1 \in Nat /\ 1 .. n - 1 \subseteq 1 .. n /\ 4 \in 1 .. 4
    OBVIOUS
  <2>10. Even(s, n, 4, 4)
    <3>1. Len(s[n]) = 4 /\ \A k \in 1 .. n - 1 : Len(s[k]) = 4
      BY <2>8, <2>9
    <3>2. n \in Nat \ {0} /\ Len(s) = n
      BY <2>6
    <3>3. QED
      BY <2>9, <3>1, <3>2 DEF Even
  <2>11. /\ r \in Seq(Lines) /\ Len(r) = 4 * (n - 1) + 4
         /\ \A k \in 1 .. n : \A j \in 1 .. Len(s[k]) : r[4 * (k - 1) + j] = s[k][j]
    <3> DEFINE four == 4
               count == n
    <3>1. Even(s, count, four, four)
      BY <2>10
    <3>2. four = 4 /\ count = n
      OBVIOUS
    <3> HIDE DEF four, count
    <3>3. /\ r \in Seq(Lines) /\ Len(r) = four * (count - 1) + four
          /\ \A k \in 1 .. count : \A j \in 1 .. Len(s[k]) : r[four * (k - 1) + j] = s[k][j]
      BY <2>6, <2>f, <3>1, EqualParts, SMTT(30)
    <3>4. QED
      BY <3>2, <3>3
  <2>12. \A k \in 1 .. n : /\ r[4 * k - 3] = Label(Function(k - 1)) /\ r[4 * k - 2] = O(body)
                           /\ r[4 * k - 1] = last /\ r[4 * k] = Exit
    <3>1. \A k \in 1 .. n : \A j \in 1 .. 4 : r[4 * (k - 1) + j] = s[k][j]
      BY <2>8, <2>11
    <3>2. \A k \in 1 .. n : /\ 4 * (k - 1) + 1 = 4 * k - 3 /\ 4 * (k - 1) + 2 = 4 * k - 2
                            /\ 4 * (k - 1) + 3 = 4 * k - 1 /\ 4 * (k - 1) + 4 = 4 * k
      OBVIOUS
    <3>3. \A k \in 1 .. n : /\ r[4 * (k - 1) + 1] = s[k][1] /\ r[4 * (k - 1) + 2] = s[k][2]
                            /\ r[4 * (k - 1) + 3] = s[k][3] /\ r[4 * (k - 1) + 4] = s[k][4]
      BY <3>1
    <3>4. QED
      BY <2>8, <3>2, <3>3
  <2> DEFINE t == Joined(Joined(h, e), r)
  <2>13. p.text = t
    BY <1>4 DEF whole, h, e, r, Joined
  <2>14. /\ t \in Seq(Lines) /\ Len(t) = n + 2 + Len(r)
         /\ \A l \in 1 .. n : t[l] = h[l]
         /\ t[n + 1] = e[1] /\ t[n + 2] = e[2]
         /\ \A l \in 1 .. Len(r) : t[n + 2 + l] = r[l]
    <3>1. /\ t \in Seq(Lines) /\ Len(t) = Len(h) + Len(e) + Len(r)
          /\ \A l \in 1 .. Len(h) : t[l] = h[l]
          /\ \A l \in 1 .. Len(e) : t[Len(h) + l] = e[l]
          /\ \A l \in 1 .. Len(r) : t[Len(h) + Len(e) + l] = r[l]
      <4>1. h \in Seq(Lines) /\ e \in Seq(Lines) /\ r \in Seq(Lines)
        BY <2>3, <2>4, <2>11
      <4>2. QED
        BY <4>1, ThreeParts, ZenonT(40)
    <3> HIDE DEF t
    <3>2. Len(h) = n /\ Len(e) = 2 /\ 1 \in 1 .. Len(e) /\ 2 \in 1 .. Len(e)
      BY <2>3, <2>4
    <3>3. t[Len(h) + 1] = e[1] /\ t[Len(h) + 2] = e[2]
      BY <3>1, <3>2
    <3>4. QED
      BY <3>1, <3>2, <3>3
  <2> HIDE DEF t
  <2>15. \A k \in 1 .. n : /\ 4 * k - 3 \in 1 .. Len(r) /\ 4 * k - 2 \in 1 .. Len(r)
                           /\ 4 * k - 1 \in 1 .. Len(r) /\ 4 * k \in 1 .. Len(r)
                           /\ n + 2 + (4 * k - 3) = n + 4 * k - 1 /\ n + 2 + (4 * k - 2) = n + 4 * k
                           /\ n + 2 + (4 * k - 1) = n + 4 * k + 1 /\ n + 2 + 4 * k = n + 4 * k + 2
    BY <2>11
  <2>16. \A k \in 1 .. n : /\ t[n + 4 * k - 1] = r[4 * k - 3] /\ t[n + 4 * k] = r[4 * k - 2]
                           /\ t[n + 4 * k + 1] = r[4 * k - 1] /\ t[n + 4 * k + 2] = r[4 * k]
    <3>1. \A k \in 1 .. n :
            /\ t[n + 2 + (4 * k - 3)] = r[4 * k - 3] /\ t[n + 2 + (4 * k - 2)] = r[4 * k - 2]
            /\ t[n + 2 + (4 * k - 1)] = r[4 * k - 1] /\ t[n + 2 + 4 * k] = r[4 * k]
      BY <2>14, <2>15
    <3>2. QED
      BY <2>15, <3>1
  <2>17. Len(t) = 5 * n + 2
    BY <2>11, <2>14
  <2>18. BackpatchText(t, n, body, last)
    BY <2>3, <2>4, <2>12, <2>14, <2>16, <2>17, ZenonT(40) DEF BackpatchText
  <2>19. QED
    BY <2>13, <2>18
<1>8. QED
  BY <1>5, <1>6, <1>7, BackpatchFits

LEMMA LongFunction ==
  ASSUME NEW a \in Lines, NEW b \in Lines, NEW c \in Lines, NEW d \in Lines, NEW e \in Lines
  PROVE  LET t == <<a, b, c>> \o <<d>> \o <<e>>
         IN  /\ t \in Seq(Lines) /\ Len(t) = 5
             /\ t[1] = a /\ t[2] = b /\ t[3] = c /\ t[4] = d /\ t[5] = e
<1> DEFINE x == <<a, b, c>>
           y == <<d>>
           z == <<e>>
           s == Joined(Joined(x, y), z)
<1>1. /\ x \in Seq(Lines) /\ Len(x) = 3 /\ x[1] = a /\ x[2] = b /\ x[3] = c
      /\ y \in Seq(Lines) /\ Len(y) = 1 /\ y[1] = d
      /\ z \in Seq(Lines) /\ Len(z) = 1 /\ z[1] = e
  OBVIOUS
<1> HIDE DEF x, y, z
<1>3. /\ s \in Seq(Lines) /\ Len(s) = Len(x) + Len(y) + Len(z)
      /\ \A l \in 1 .. Len(x) : s[l] = x[l]
      /\ \A l \in 1 .. Len(y) : s[Len(x) + l] = y[l]
      /\ \A l \in 1 .. Len(z) : s[Len(x) + Len(y) + l] = z[l]
  <2>1. x \in Seq(Lines) /\ y \in Seq(Lines) /\ z \in Seq(Lines)
    BY <1>1
  <2>2. QED
    BY <2>1, ThreeParts, ZenonT(40)
<1> HIDE DEF s
<1>4. /\ 1 \in 1 .. Len(x) /\ 2 \in 1 .. Len(x) /\ 3 \in 1 .. Len(x)
      /\ 1 \in 1 .. Len(y) /\ 1 \in 1 .. Len(z)
      /\ Len(x) + 1 = 4 /\ Len(x) + Len(y) + 1 = 5 /\ Len(x) + Len(y) + Len(z) = 5
  BY <1>1
<1>5. s[1] = x[1] /\ s[2] = x[2] /\ s[3] = x[3] /\ s[Len(x) + 1] = y[1]
      /\ s[Len(x) + Len(y) + 1] = z[1]
  BY <1>3, <1>4
<1>6. /\ s \in Seq(Lines) /\ Len(s) = 5
      /\ s[1] = a /\ s[2] = b /\ s[3] = c /\ s[4] = d /\ s[5] = e
  BY <1>1, <1>3, <1>4, <1>5
<1>7. QED
  BY <1>6, Zenon DEF s, x, y, z, Joined

LEMMA LastFunction ==
  ASSUME NEW a \in Lines, NEW b \in Lines, NEW c \in Lines, NEW e \in Lines
  PROVE  LET t == <<a, b, c>> \o <<>> \o <<e>>
         IN  /\ t \in Seq(Lines) /\ Len(t) = 4
             /\ t[1] = a /\ t[2] = b /\ t[3] = c /\ t[4] = e
<1> DEFINE x == <<a, b, c>>
           y == <<>>
           z == <<e>>
           s == Joined(Joined(x, y), z)
<1>1. /\ x \in Seq(Lines) /\ Len(x) = 3 /\ x[1] = a /\ x[2] = b /\ x[3] = c
      /\ y \in Seq(Lines) /\ Len(y) = 0
      /\ z \in Seq(Lines) /\ Len(z) = 1 /\ z[1] = e
  OBVIOUS
<1> HIDE DEF x, y, z
<1>3. /\ s \in Seq(Lines) /\ Len(s) = Len(x) + Len(y) + Len(z)
      /\ \A l \in 1 .. Len(x) : s[l] = x[l]
      /\ \A l \in 1 .. Len(z) : s[Len(x) + Len(y) + l] = z[l]
  <2>1. x \in Seq(Lines) /\ y \in Seq(Lines) /\ z \in Seq(Lines)
    BY <1>1
  <2>2. QED
    BY <2>1, ThreeParts, ZenonT(40)
<1> HIDE DEF s
<1>4. /\ 1 \in 1 .. Len(x) /\ 2 \in 1 .. Len(x) /\ 3 \in 1 .. Len(x) /\ 1 \in 1 .. Len(z)
      /\ Len(x) + Len(y) + 1 = 4 /\ Len(x) + Len(y) + Len(z) = 4
  BY <1>1
<1>5. s[1] = x[1] /\ s[2] = x[2] /\ s[3] = x[3] /\ s[Len(x) + Len(y) + 1] = z[1]
  BY <1>3, <1>4
<1>6. /\ s \in Seq(Lines) /\ Len(s) = 4
      /\ s[1] = a /\ s[2] = b /\ s[3] = c /\ s[4] = e
  BY <1>1, <1>3, <1>4, <1>5
<1>7. QED
  BY <1>6, Zenon DEF s, x, y, z, Joined

LEMMA DeepCallsFit ==
  ASSUME NEW version \in StressVersions
  PROVE  \A p \in DeepCalls(version) : Fit(p)
<1> DEFINE head == <<O(4), Call(Function(0)), O(1), Exit>>
           ss(n, work, last) ==
             [k \in 1 .. n |-> DeepFunction(k, n, work, last)]
           whole(n, work, last) == head \o FlattenSeq(ss(n, work, last))
<1>1. SUFFICES ASSUME NEW p \in DeepCalls(version) PROVE Certifiable(p)
  BY DEF Fit
<1>2. DeepCalls(version) =
        {Seed(version, "runs", 0, whole(n, work, last)) :
           n \in 3 .. 6, work \in 2 .. 5, last \in {Plain} \cup MulImm(version)}
  BY DEF DeepCalls
<1> HIDE DEF whole
<1>3. PICK n \in 3 .. 6, work \in 2 .. 5, last \in {Plain} \cup MulImm(version) :
        p = Seed(version, "runs", 0, whole(n, work, last))
  BY <1>1, <1>2
<1>4. p.version = version /\ p.text = whole(n, work, last)
  BY <1>3, SeedFields
<1>5. BodyLine(p, last)
  BY <1>4, LastIsBodyLine
<1> DEFINE body == work - 1
<1>6. body \in Nat \ {0}
  OBVIOUS
<1>7. DeepText(p.text, n, body, last)
  <2> DEFINE h == head
             s == ss(n, work, last)
             r == FlattenSeq(s)
  <2>1. \A k \in 0 .. n : Function(k) \in Name
    BY NoNameIsName DEF Function
  <2>2. last \in Lines
    BY <1>5 DEF BodyLine, Fine
  <2>3. /\ h \in Seq(Lines) /\ Len(h) = 4 /\ h[1] = O(4) /\ h[2] = Call(Function(0)) /\ h[3] = O(1)
        /\ h[4] = Exit
    <3>1. O(4) \in Lines /\ O(1) \in Lines /\ Exit \in Lines
      BY DataShape, ExitShape DEF Shape
    <3>2. Call(Function(0)) \in Lines
      BY <2>1, NameFields
    <3>3. QED
      BY <3>1, <3>2
  <2>6. \A k \in 1 .. n : /\ Label(Function(k - 1)) \in Lines /\ O(body) \in Lines
                          /\ Exit \in Lines
    BY <1>6, <2>1, LabelShape, DataShape, ExitShape DEF Shape, Marks
  <2>7. \A k \in 1 .. n - 1 : Call(Function(k)) \in Lines
    BY <2>1, NameFields
  <2>4. \A k \in 1 .. n :
          s[k] = <<Label(Function(k - 1)), O(body), last>> \o CallDeeper(k, n) \o <<Exit>>
    <3>1. \A k \in 1 .. n : s[k] = DeepFunction(k, n, work, last)
      OBVIOUS
    <3> HIDE DEF s
    <3>2. QED
      BY <3>1, Zenon DEF DeepFunction
  <2>d. DOMAIN s = 1 .. n /\ s = [k \in 1 .. n |-> s[k]]
    OBVIOUS
  <2> HIDE DEF h, s, body
  <2>8. \A k \in 1 .. n - 1 :
          /\ s[k] \in Seq(Lines) /\ Len(s[k]) = 5
          /\ s[k][1] = Label(Function(k - 1)) /\ s[k][2] = O(body) /\ s[k][3] = last
          /\ s[k][4] = Call(Function(k)) /\ s[k][5] = Exit
    <3>1. SUFFICES ASSUME NEW k \in 1 .. n - 1
                   PROVE  /\ s[k] \in Seq(Lines) /\ Len(s[k]) = 5
                          /\ s[k][1] = Label(Function(k - 1)) /\ s[k][2] = O(body)
                          /\ s[k][3] = last /\ s[k][4] = Call(Function(k)) /\ s[k][5] = Exit
      OBVIOUS
    <3>2. CallDeeper(k, n) = <<Call(Function(k))>> /\ k \in 1 .. n
      BY DEF CallDeeper
    <3>3. s[k] = <<Label(Function(k - 1)), O(body), last>> \o <<Call(Function(k))>> \o <<Exit>>
      BY <2>4, <3>2, Zenon
    <3>4. QED
      BY <2>2, <2>6, <2>7, <3>2, <3>3, LongFunction
  <2>9. /\ s[n] \in Seq(Lines) /\ Len(s[n]) = 4
        /\ s[n][1] = Label(Function(n - 1)) /\ s[n][2] = O(body) /\ s[n][3] = last
        /\ s[n][4] = Exit
    <3>1. CallDeeper(n, n) = <<>> /\ n \in 1 .. n
      BY DEF CallDeeper
    <3>2. s[n] = <<Label(Function(n - 1)), O(body), last>> \o <<>> \o <<Exit>>
      BY <2>4, <3>1, Zenon
    <3>3. QED
      BY <2>2, <2>6, <3>1, <3>2, LastFunction
  <2>10. s \in Seq(Seq(Lines)) /\ Len(s) = n
    <3>1. \A k \in 1 .. n : s[k] \in Seq(Lines)
      <4>1. \A k \in 1 .. n : k \in 1 .. n - 1 \/ k = n
        OBVIOUS
      <4>2. QED
        BY <2>8, <2>9, <4>1
    <3>2. QED
      BY <2>d, <3>1
  <2>11. Even(s, n, 5, 4)
    BY <2>8, <2>9, <2>10 DEF Even
  <2> HIDE DEF r
  <2>12. /\ r \in Seq(Lines) /\ Len(r) = 5 * (n - 1) + 4
         /\ \A k \in 1 .. n : \A j \in 1 .. Len(s[k]) : r[5 * (k - 1) + j] = s[k][j]
    <3> DEFINE four == 4
               five == 5
               count == n
    <3>1. Even(s, count, five, four)
      BY <2>11
    <3>2. four = 4 /\ five = 5 /\ count = n
      OBVIOUS
    <3> HIDE DEF four, five, count
    <3>3. r = FlattenSeq(s)
      BY DEF r
    <3>4. /\ r \in Seq(Lines) /\ Len(r) = five * (count - 1) + four
          /\ \A k \in 1 .. count : \A j \in 1 .. Len(s[k]) : r[five * (k - 1) + j] = s[k][j]
      BY <2>10, <3>1, <3>3, EqualParts, SMTT(30)
    <3>5. QED
      BY <3>2, <3>4
  <2>13. \A k \in 1 .. n : /\ r[5 * k - 4] = Label(Function(k - 1)) /\ r[5 * k - 3] = O(body)
                           /\ r[5 * k - 2] = last
    <3>1. SUFFICES ASSUME NEW k \in 1 .. n
                   PROVE  /\ r[5 * k - 4] = Label(Function(k - 1)) /\ r[5 * k - 3] = O(body)
                          /\ r[5 * k - 2] = last
      OBVIOUS
    <3>2. k \in 1 .. n - 1 \/ k = n
      OBVIOUS
    <3>3. /\ 1 \in 1 .. Len(s[k]) /\ 2 \in 1 .. Len(s[k]) /\ 3 \in 1 .. Len(s[k])
          /\ s[k][1] = Label(Function(k - 1)) /\ s[k][2] = O(body) /\ s[k][3] = last
      <4>1. CASE k \in 1 .. n - 1
        BY <2>8, <4>1
      <4>2. CASE k = n
        BY <2>9, <4>2
      <4>3. QED
        BY <3>2, <4>1, <4>2
    <3>4. /\ 5 * (k - 1) + 1 = 5 * k - 4 /\ 5 * (k - 1) + 2 = 5 * k - 3
          /\ 5 * (k - 1) + 3 = 5 * k - 2
      OBVIOUS
    <3>5. /\ r[5 * (k - 1) + 1] = s[k][1] /\ r[5 * (k - 1) + 2] = s[k][2]
          /\ r[5 * (k - 1) + 3] = s[k][3]
      BY <2>12, <3>3
    <3>6. QED
      BY <3>3, <3>4, <3>5
  <2>14. \A k \in 1 .. n - 1 : r[5 * k - 1] = Call(Function(k)) /\ r[5 * k] = Exit
    <3>1. SUFFICES ASSUME NEW k \in 1 .. n - 1
                   PROVE  r[5 * k - 1] = Call(Function(k)) /\ r[5 * k] = Exit
      OBVIOUS
    <3>2. 4 \in 1 .. Len(s[k]) /\ 5 \in 1 .. Len(s[k])
      BY <2>8
    <3>3. k \in 1 .. n /\ 5 * (k - 1) + 4 = 5 * k - 1 /\ 5 * (k - 1) + 5 = 5 * k
      OBVIOUS
    <3>4. r[5 * (k - 1) + 4] = s[k][4] /\ r[5 * (k - 1) + 5] = s[k][5]
      BY <2>12, <3>2, <3>3
    <3>5. QED
      BY <2>8, <3>3, <3>4
  <2>15. r[5 * n - 1] = Exit
    <3>1. 4 \in 1 .. Len(s[n]) /\ n \in 1 .. n /\ 5 * (n - 1) + 4 = 5 * n - 1
      BY <2>9
    <3>2. r[5 * (n - 1) + 4] = s[n][4]
      BY <2>12, <3>1
    <3>3. QED
      BY <2>9, <3>1, <3>2
  <2> DEFINE t == Joined(h, r)
  <2>16. p.text = t
    BY <1>4 DEF whole, h, r, s, Joined
  <2>17. /\ t \in Seq(Lines) /\ Len(t) = Len(h) + Len(r)
         /\ \A l \in 1 .. Len(h) : t[l] = h[l]
         /\ \A l \in 1 .. Len(r) : t[Len(h) + l] = r[l]
    <3>1. h \in Seq(Lines) /\ r \in Seq(Lines)
      BY <2>3, <2>12
    <3>2. QED
      BY <3>1, TwoParts
  <2> HIDE DEF t
  <2>18. /\ Len(t) = 5 * n + 3
             /\ t[1] = h[1] /\ t[2] = h[2] /\ t[3] = h[3] /\ t[4] = h[4]
         /\ \A l \in 1 .. Len(r) : t[4 + l] = r[l]
    <3>1. Len(h) = 4 /\ Len(r) = 5 * n - 1
      BY <2>3, <2>12
    <3>2. QED
      BY <2>17, <3>1, SMTT(30)
  <2>19. \A k \in 1 .. n : /\ t[5 * k] = r[5 * k - 4] /\ t[5 * k + 1] = r[5 * k - 3]
                           /\ t[5 * k + 2] = r[5 * k - 2] /\ t[5 * k + 3] = r[5 * k - 1]
    <3>1. \A k \in 1 .. n : /\ 5 * k - 4 \in 1 .. Len(r) /\ 5 * k - 3 \in 1 .. Len(r)
                            /\ 5 * k - 2 \in 1 .. Len(r) /\ 5 * k - 1 \in 1 .. Len(r)
                            /\ 4 + (5 * k - 4) = 5 * k /\ 4 + (5 * k - 3) = 5 * k + 1
                            /\ 4 + (5 * k - 2) = 5 * k + 2 /\ 4 + (5 * k - 1) = 5 * k + 3
      BY <2>12
    <3>2. \A k \in 1 .. n :
            /\ t[4 + (5 * k - 4)] = r[5 * k - 4] /\ t[4 + (5 * k - 3)] = r[5 * k - 3]
            /\ t[4 + (5 * k - 2)] = r[5 * k - 2] /\ t[4 + (5 * k - 1)] = r[5 * k - 1]
      BY <2>18, <3>1
    <3>3. QED
      BY <3>1, <3>2
  <2>20. \A k \in 1 .. n - 1 : t[5 * k + 4] = r[5 * k]
    <3>1. \A k \in 1 .. n - 1 : 5 * k \in 1 .. Len(r) /\ 4 + 5 * k = 5 * k + 4
      BY <2>12
    <3>2. \A k \in 1 .. n - 1 : t[4 + 5 * k] = r[5 * k]
      BY <2>18, <3>1
    <3>3. QED
      BY <3>1, <3>2
  <2>21. /\ \A k \in 1 .. n - 1 : t[5 * k + 3] = Call(Function(k)) /\ t[5 * k + 4] = Exit
         /\ t[5 * n + 3] = Exit
    <3>1. 1 .. n - 1 \subseteq 1 .. n /\ n \in 1 .. n
      OBVIOUS
    <3>2. QED
      BY <2>14, <2>15, <2>19, <2>20, <3>1
  <2>22. DeepText(t, n, body, last)
    BY <2>3, <2>13, <2>17, <2>18, <2>19, <2>21 DEF DeepText
  <2>23. QED
    BY <2>16, <2>22
<1>8. QED
  BY <1>5, <1>6, <1>7, DeepFits

-----------------------------------------------------------------------------
(* All seeds but the cases of PQR.                                         *)

(* A seed that fails, or that nothing is said of, need not be certified.   *)
LEMMA OthersFit ==
  ASSUME NEW version, NEW mem, NEW shape
  PROVE  /\ Fit(Seed(version, "fails", mem, shape)) /\ Fit(Seed(version, "nothing", mem, shape))
         /\ Fit(Fails(shape)) /\ Fit(Unclaimed(shape))
  BY SeedFields DEF Fit, Fails, Unclaimed

LEMMA ExitsFit == \A p \in GenExitsJumps : Fit(p)
<1>1. SUFFICES ASSUME NEW p \in GenExitsJumps PROVE Certifiable(p)
  BY DEF Fit
<1>2. \/ p.text = <<O(1), Exit>> \/ p.text = <<O(2), Exit>>
      \/ p.text = <<O(2), Exit, O(1), Exit>> \/ p.text = <<O(2), Ja(1), O(1), Exit>>
  BY SeedFields, RunsFields DEF GenExitsJumps
<1>3. O(1) \in Fine(p) /\ O(2) \in Fine(p)
  BY FineData
<1>4. CASE p.text = <<O(1), Exit>>
  BY <1>3, <1>4, ShortSeeds
<1>5. CASE p.text = <<O(2), Exit>>
  BY <1>3, <1>5, ShortSeeds
<1>6. QED
  BY <1>2, <1>4, <1>5, EarlyExitFits, SkipFits

LEMMA StackCallsFit == \A p \in GenStackCalls : Fit(p)
<1>1. SUFFICES ASSUME NEW p \in GenStackCalls PROVE Fit(p)
  OBVIOUS
<1> DEFINE Both  == {"V0", "V4"}
           One   == <<Label(Entrypoint), O(1), Call(Foo), O(1), Exit, Label(Foo), O(2), Exit>>
           Two   == <<O(1), Call(Foo), Call(Foo), Exit, Label(Foo), O(1), Exit>>
           Three == <<Label(Entrypoint), O(1), Call(Foo), Exit, Label(Foo), O(1), Call(Bar), Exit,
                      Label(Bar), O(1), Exit>>
           Long  == <<O(5), Call(Foo), O(4), Exit, Label(Foo), O(5), Exit>>
           X     == CallxFoo(5, 7, 2)
<1>2. \/ \E version \in Both, text \in {One, Two, Three} :
           p = Seed(version, "runs", 0, text)
      \/ p = Runs(<<O(9), Exit>>) \/ p = Runs(Long) \/ p = Runs(X)
      \/ p = Fails(<<O(2), Callx(Nowhere), Exit>>)
      \/ p = Fails(<<O(1), Lddw, Callx(Nowhere), Exit>>)
  <2> DEFINE Made(version) == {Seed(version, "runs", 0, One), Seed(version, "runs", 0, Two),
                              Seed(version, "runs", 0, Three)}
             Rest == {Runs(<<O(9), Exit>>), Runs(Long), Runs(X), Fails(<<O(2), Callx(Nowhere), Exit>>),
                      Fails(<<O(1), Lddw, Callx(Nowhere), Exit>>)}
  <2>1. GenStackCalls = (UNION {Made(version) : version \in Both}) \cup Rest
    BY DEF GenStackCalls
  <2>2. \A version : Made(version) = {Seed(version, "runs", 0, text) : text \in {One, Two, Three}}
    <3> HIDE DEF One, Two, Three
    <3>1. QED
      OBVIOUS
  <2>3. p \in Rest \/ \E version \in Both : p \in Made(version)
    <3> HIDE DEF Made, Rest, Both
    <3>1. QED
      BY <1>1, <2>1
  <2>4. CASE p \in Rest
    <3> HIDE DEF Long, X
    <3>1. QED
      BY <2>4
  <2>5. CASE \E version \in Both : p \in Made(version)
    <3> HIDE DEF Made, One, Two, Three, Both
    <3>1. QED
      BY <2>2, <2>5
  <2>6. QED
    BY <2>3, <2>4, <2>5
<1>3. \A q : q.text \in {One, Two, Three, Long, X} => Certifiable(q)
  BY OneCallFits, TwoCallsFit, NestedCallsFit, LongCallFits, CallxFits
<1> HIDE DEF One, Two, Three, Long, X, Both
<1>4. CASE \E version \in Both, text \in {One, Two, Three} : p = Seed(version, "runs", 0, text)
  <2>1. p.text \in {One, Two, Three}
    BY <1>4, SeedFields
  <2>2. QED
    BY <1>3, <2>1 DEF Fit
<1>5. CASE p = Runs(Long) \/ p = Runs(X)
  <2>1. p.text \in {Long, X}
    BY <1>5, RunsFields
  <2>2. QED
    BY <1>3, <2>1 DEF Fit
<1>6. CASE p = Runs(<<O(9), Exit>>)
  BY <1>6, PlainRuns DEF Fit
<1>7. QED
  BY <1>2, <1>4, <1>5, <1>6, OthersFit

LEMMA ProgramsFit == \A p \in GenFarJumps \cup GenPrograms : Fit(p)
<1>1. ASSUME NEW p \in GenFarJumps PROVE Certifiable(p)
  <2>1. p.text = <<O(1), Call(Baz), Exit, Label(Foo), O(1), Exit, Label(Bar), O(1), Exit,
                   Label(Baz), O(4), Callx(3), Exit>>
    BY RunsFields DEF GenFarJumps
  <2>2. QED
    BY <2>1, FarJumpFits
<1>2. ASSUME NEW p \in GenPrograms PROVE Certifiable(p)
  <2>1. \/ p = Seed("V0", "loops", 0, LmulLoop) \/ p = Seed("V0", "loops", 0, Prime)
        \/ p = Seed("V0", "runs", 74, Subnet) \/ p = Seed("V0", "runs", 100, TcpPort80)
        \/ p = Seed("V0", "loops", 78, TcpSack) \/ p = Seed("V0", "loops", 66, TcpSack)
    BY DEF GenPrograms
  <2>2. CASE p = Seed("V0", "loops", 0, LmulLoop)
    BY <2>2, SeedFields, LoopFits
  <2>3. CASE p = Seed("V0", "loops", 0, Prime)
    BY <2>3, SeedFields, PrimeFits
  <2>4. CASE p = Seed("V0", "runs", 74, Subnet)
    BY <2>4, SeedFields, SubnetFits
  <2>5. CASE p = Seed("V0", "runs", 100, TcpPort80)
    BY <2>5, SeedFields, PortFits
  <2>6. CASE p = Seed("V0", "loops", 78, TcpSack) \/ p = Seed("V0", "loops", 66, TcpSack)
    <3>1. p.text = TcpSack /\ p.mem \in {66, 78}
      BY <2>6, SeedFields
    <3>2. QED
      BY <3>1, SackFits
  <2>7. QED
    BY <2>1, <2>2, <2>3, <2>4, <2>5, <2>6
<1>3. QED
  BY <1>1, <1>2 DEF Fit

LEMMA PlainV0Fit == \A p \in V0Plain : Fit(p)
<1>1. SUFFICES ASSUME NEW p \in V0Plain PROVE Certifiable(p)
  BY DEF Fit
<1>2. \/ \E n \in {3, 4, 5, 9} : p = Runs(<<O(n), Exit>>)
      \/ \E n, m \in {1, 2} : p = Runs(<<O(n), Lddw, O(m), Exit>>)
      \/ p = Runs(<<O(1), Lddw, Exit>>)
      \/ p = Runs(<<O(4), Lddw, Ja(2), Lddw, Lddw, O(2), Exit>>)
      \/ p = Runs(CallxFoo(5, 7, 1))
  BY DEF V0Plain
<1>3. CASE p = Runs(<<O(4), Lddw, Ja(2), Lddw, Lddw, O(2), Exit>>)
  BY <1>3, RunsFields, OverLddwFits
<1>4. CASE p = Runs(CallxFoo(5, 7, 1))
  <2>1. p.text = CallxFoo(5, 7, 1)
    BY <1>4, RunsFields
  <2>2. QED
    BY <2>1, CallxFits
<1>5. CASE \E n \in {3, 4, 5, 9} : p = Runs(<<O(n), Exit>>)
  BY <1>5, PlainRuns
<1>6. CASE \E n, m \in {1, 2} : p = Runs(<<O(n), Lddw, O(m), Exit>>)
  BY <1>6, LddwRuns
<1>7. CASE p = Runs(<<O(1), Lddw, Exit>>)
  BY <1>7, LddwRuns
<1>8. QED
  BY <1>2, <1>3, <1>4, <1>5, <1>6, <1>7

LEMMA SpecificFit ==
  \A p \in GenV0Specific \cup GenInstructionMeter \cup GenCallxOther : Fit(p)
<1>1. ASSUME NEW p \in GenV0Specific PROVE Fit(p)
  BY <1>1, PlainV0Fit, MemoryCorpus, OthersFit, SMTT(30) DEF GenV0Specific, V0LddwCallx, V0ByZero
<1>2. ASSUME NEW p \in GenInstructionMeter \cup GenCallxOther PROVE Fit(p)
  BY <1>2, OthersFit DEF GenInstructionMeter, GenCallxOther
<1>3. QED
  BY <1>1, <1>2

LEMMA DemosFit == \A p \in Demos : Fit(p)
<1>1. SUFFICES ASSUME NEW p \in Demos PROVE Fit(p)
  OBVIOUS
<1>2. \/ p.text = <<O(2), Ja(1), O(1), Exit>> \/ p.text = LmulLoop \/ p.text = Prime
      \/ p.text = Subnet /\ p.mem = 74
      \/ p.says = "nothing"
  BY SeedFields, RunsFields DEF Demos
<1>3. QED
  BY <1>2, SkipFits, LoopFits, PrimeFits, SubnetFits DEF Fit

LEMMA FailingPqrFit == \A p \in GenDivzero \cup GenDivoverflow : Fit(p)
  BY OthersFit DEF GenDivzero, GenDivoverflow

(* Every seed that is to run is certified, but for the cases of PQR.       *)
LEMMA AllButCasesFit ==
  ASSUME NEW p \in AllPrograms, p \notin GenV0Pqr \cup GenV2Pqr
  PROVE  Fit(p)
<1>1. CASE p \in GeneralCorpus
  BY <1>1, PlainCorpus, MemoryCorpus, HorCorpus, LoadsCorpus, StoresCorpus, ExitsFit,
     StackCallsFit, ProgramsFit, SpecificFit
     DEF GeneralCorpus
<1>2. ASSUME NEW version \in StressVersions, p \in StressPrograms(version) PROVE Fit(p)
  BY <1>2, PressureFit, MeteringFit, BackpatchesFit, DeepCallsFit, EdgesFit DEF StressPrograms
<1>3. CASE p \in PqrPrograms
  BY <1>3, FailingPqrFit DEF PqrPrograms
<1>4. QED
  BY <1>1, <1>2, <1>3, DemosFit, PatternsFit DEF AllPrograms

-----------------------------------------------------------------------------
(* Seeds without jumps whose registers are followed line by line, up to a  *)
(* last line at which they exit or are stuck.                              *)

FirstRegs == [r \in 0 .. 1 |-> IF r = 1 THEN Input ELSE 0]

OperandOf(line, r) == IF line.src = Imm THEN Immediate(line.op, line.w, line.imm) ELSE r[line.src]

(* An operation on known values.                                           *)
Computes(line, r) ==
  /\ line.op \in Ops /\ line.dst \in 0 .. 1 /\ line.src \in {Imm, 0, 1}
  /\ Known(r[line.dst]) /\ Known(OperandOf(line, r))

Stuck(line, r) ==
  /\ Computes(line, r)
  /\ \/ DividesByZero(line.op, line.w, OperandOf(line, r))
     \/ Overflows(line.op, line.w, r[line.dst], OperandOf(line, r))

Passes(line, r, s) ==
  \/ line.op = "other" /\ line.size = 1 /\ s = r
  \/ /\ line.op \in Moves /\ line.src = Imm /\ line.dst \in 0 .. 1
     /\ s = [r EXCEPT ![line.dst] = Unsigned(line.w, OperandOf(line, r))]
  \/ /\ Computes(line, r) /\ ~ Stuck(line, r)
     /\ line.op \in Shifts /\ line.src = Imm => line.imm \in 0 .. Bits(line.w) - 1
     /\ s = [r EXCEPT ![line.dst] =
               Result(line.op, line.w, r[line.dst], OperandOf(line, r))]

Traced(p, st, val, n) ==
  /\ p.text \in Seq(Lines) /\ Starts(p.text, st) /\ n \in 1 .. Len(p.text)
  /\ \A l \in 1 .. Len(p.text) : p.text[l].kind = "ins"
  /\ val[1] = FirstRegs /\ \A l \in 1 .. n : DOMAIN val[l] = 0 .. 1
  /\ \A l \in 1 .. n : p.text[l].op \notin Lacking(p.version) \cup {Half.op}
  /\ \A l \in 1 .. n - 1 : Passes(p.text[l], val[l], val[l + 1])
  /\ p.text[n].op = "exit" \/ Stuck(p.text[n], val[n])

OnTrace(st, val, n) ==
  /\ code = Slots(prog.text) /\ frames = <<>>
  /\ \E l \in 1 .. n :
       /\ pc = st[l] /\ regs = val[l]
       /\ \/ status = "running"
          \/ l = n /\ prog.text[n].op = "exit" /\ status = "exited"
          \/ l = n /\ Stuck(prog.text[n], val[n]) /\ status \in {"by zero", "overflow"}

TracedInv == \A st, val, n : Traced(prog, st, val, n) => OnTrace(st, val, n)

(* TracedInv is inductive.                                                 *)
LEMMA TracedStarts ==
  ASSUME Init
  PROVE  TracedInv
<1>1. SUFFICES ASSUME NEW st, NEW val, NEW n, Traced(prog, st, val, n) PROVE OnTrace(st, val, n)
  BY DEF TracedInv
<1>2. /\ prog.text \in Seq(Lines) /\ Starts(prog.text, st) /\ n \in 1 .. Len(prog.text)
      /\ \A l \in 1 .. Len(prog.text) : prog.text[l].kind = "ins"
  BY <1>1 DEF Traced
<1>3. Heads(prog.text) = {}
  <2>1. {l \in DOMAIN prog.text : prog.text[l].kind = "label"} = {}
    BY <1>2
  <2>2. QED
    BY <1>2, <2>1, HeadsOfText
<1>4. pc = 0 /\ code = Slots(prog.text) /\ frames = <<>> /\ status = "running" /\ regs = FirstRegs
  BY <1>3 DEF Init, FirstRegs
<1>5. 1 \in 1 .. n /\ st[1] = 0 /\ val[1] = FirstRegs
  BY <1>1, <1>2 DEF Traced, Starts
<1>6. QED
  BY <1>4, <1>5 DEF OnTrace

(* What a line of a trace finds.                                           *)
LEMMA AtTrace ==
  ASSUME NEW st, NEW val, NEW n, Traced(prog, st, val, n), code = Slots(prog.text),
         NEW l \in 1 .. n, pc = st[l]
  PROVE  /\ InText /\ Here.op = prog.text[l].op /\ Supported
         /\ Here.op # "other" => Here = prog.text[l]
         /\ Here.op = "other" => st[l + 1] = pc + 1
         /\ Here.op = "lddw" => st[l + 1] = pc + 2
         /\ Here.op \notin {"other", "lddw"} => st[l + 1] = pc + 1
<1> DEFINE text == prog.text
<1>1. /\ text \in Seq(Lines) /\ Starts(text, st) /\ l \in 1 .. Len(text) /\ text[l] \in Lines
      /\ text[l].kind = "ins" /\ Len(text) \in Nat
      /\ text[l].op \notin Lacking(prog.version) \cup {Half.op}
  BY DEF Traced
<1>2. /\ st[l] \in Nat /\ st[l + 1] = st[l] + Width(text[l])
  BY <1>1 DEF Starts
<1>3. /\ Width(text[l]) \in Nat
      /\ text[l].op = "other" => Width(text[l]) = text[l].size
      /\ text[l].op = "lddw" => Width(text[l]) = 2
      /\ text[l].op \notin {"other", "lddw"} => Width(text[l]) = 1
  BY <1>1, PartOfLine
<1>4. text[l].op = "other" => text[l].size = 1
  <2>1. ASSUME text[l].op = "other" PROVE text[l].size = 1
    <3>0. n \in Nat /\ text[n].op # "other"
      BY DEF Traced, Stuck, Computes, Ops, OldOps, PqrOps, Shifts
    <3>1. l \in 1 .. n - 1
      BY <2>1, <3>0
    <3>2. Passes(text[l], val[l], val[l + 1])
      BY <3>1 DEF Traced
    <3>3. QED
      BY <2>1, <3>2
         DEF Passes, Moves, Computes, Ops, OldOps, PqrOps, Shifts
  <2>2. QED
    BY <2>1
<1>5. /\ code \in Seq(Lines) /\ st[l] + Width(text[l]) <= Len(code) /\ Len(code) \in Nat
      /\ text[l].op = "other" => \A q \in st[l] .. st[l + 1] - 1 : code[q + 1] = O(1)
      /\ text[l].op # "other" => code[st[l] + 1] = text[l]
  BY <1>1, TextLayout
<1>6. InText
  BY <1>2, <1>3, <1>4, <1>5 DEF InText
<1>7. Here.op = text[l].op /\ (Here.op # "other" => Here = text[l])
  <2>1. CASE text[l].op = "other"
    <3>1. pc \in st[l] .. st[l + 1] - 1
      BY <1>2, <1>3, <1>4, <2>1
    <3>2. Here = O(1)
      BY <1>5, <2>1, <3>1 DEF Here
    <3>3. QED
      BY <2>1, <3>2, OFields
  <2>2. CASE text[l].op # "other"
    BY <1>5, <2>2 DEF Here
  <2>3. QED
    BY <2>1, <2>2
<1>8. QED
  BY <1>1, <1>2, <1>3, <1>4, <1>6, <1>7 DEF Supported

(* A line that passes leads to the next one, with the registers foretold.  *)
LEMMA TracePasses ==
  ASSUME NEW st, NEW val, NEW n, Traced(prog, st, val, n), OnTrace(st, val, n),
         NEW l \in 1 .. n - 1, pc = st[l], regs = val[l], Next
  PROVE  pc' = st[l + 1] /\ regs' = val[l + 1] /\ UNCHANGED <<prog, code, frames, status>>
<1> DEFINE line == prog.text[l]
<1>0. n \in Nat
  BY DEF Traced
<1>a. l \in 1 .. n
  BY <1>0
<1>1. l \in 1 .. n /\ code = Slots(prog.text)
  BY <1>a DEF OnTrace
<1>2. /\ InText /\ Here.op = line.op /\ Supported
      /\ Here.op # "other" => Here = line
      /\ Here.op = "other" => st[l + 1] = pc + 1
      /\ Here.op = "lddw" => st[l + 1] = pc + 2
      /\ Here.op \notin {"other", "lddw"} => st[l + 1] = pc + 1
  BY <1>1, AtTrace
<1>3. Passes(line, val[l], val[l + 1])
  BY DEF Traced
<1>4. DOMAIN regs = 0 .. 1
  BY <1>1 DEF Traced
<1> HIDE DEF line
<1>5. CASE line.op = "other"
  <2>1. DataStep
    BY <1>2, <1>5 DEF Next, LeaveText, Unsupported, Unresolved, Branch, Return, DoCall, Access,
       MoveStep, AluStep, On, Moves, Ops, OldOps, PqrOps, Shifts
  <2>2. val[l + 1] = val[l]
    BY <1>3, <1>5 DEF Passes, Moves, Computes, Ops, OldOps, PqrOps, Shifts
  <2>3. QED
    BY <1>2, <1>5, <2>1, <2>2 DEF DataStep, Goto
<1>6. CASE line.op \in Moves
  <2>1. MoveStep
    BY <1>2, <1>6 DEF Next, LeaveText, Unsupported, Unresolved, DataStep, Branch, Return, DoCall,
       Access, AluStep, On, Moves, Ops, OldOps, PqrOps, Shifts
  <2>2. /\ line.src = Imm /\ line.dst \in 0 .. 1
        /\ val[l + 1] = [val[l] EXCEPT ![line.dst] = Unsigned(line.w, OperandOf(line, val[l]))]
    BY <1>3, <1>6 DEF Passes, Moves, Computes, Ops, OldOps, PqrOps, Shifts
  <2>3. Here = line /\ Operand = OperandOf(line, val[l])
    BY <1>2, <1>6, <2>2 DEF Operand, OperandOf, Moves
  <2>4. regs' = val[l + 1]
    BY <1>4, <2>1, <2>2, <2>3 DEF MoveStep
  <2>5. pc' = st[l + 1]
    BY <1>2, <1>6, <2>1, <2>3 DEF MoveStep, Goto, Moves
  <2>6. QED
    BY <2>1, <2>4, <2>5 DEF MoveStep, Goto
<1>7. CASE Computes(line, val[l])
  <2>0. line.op \in Ops
    BY <1>7 DEF Computes
  <2>1. AluStep
    BY <1>2, <2>0 DEF Next, LeaveText, Unsupported, Unresolved, DataStep, Branch, Return, DoCall,
       Access, MoveStep, On, Moves, Ops, OldOps, PqrOps, Shifts
  <2>2. /\ ~ Stuck(line, val[l])
        /\ line.op \in Shifts /\ line.src = Imm => line.imm \in 0 .. Bits(line.w) - 1
        /\ val[l + 1] = [val[l] EXCEPT ![line.dst] =
              Result(line.op, line.w, val[l][line.dst], OperandOf(line, val[l]))]
    BY <1>3, <2>0 DEF Passes, Moves, Ops, OldOps, PqrOps, Shifts
  <2>3. Here = line /\ line.op \notin {"other", "lddw"}
    BY <1>2, <2>0 DEF Ops, OldOps, PqrOps, Shifts
  <2>4. /\ Value(line.dst) = val[l][line.dst] /\ Operand = OperandOf(line, val[l])
        /\ Known(Value(line.dst)) /\ Known(Operand) /\ line.dst \in DOMAIN regs
    BY <1>4, <1>7, <2>3 DEF Computes, Value, Operand, OperandOf
  <2>5. Possible(Value(Here.dst)) = {val[l][line.dst]} /\ Possible(Operand) = {OperandOf(line, val[l])}
    BY <2>3, <2>4 DEF Possible
  <2>6. Compute(val[l][line.dst], OperandOf(line, val[l]))
    <3>1. /\ ~ DividesByZero(line.op, line.w, OperandOf(line, val[l]))
          /\ ~ Overflows(line.op, line.w, val[l][line.dst], OperandOf(line, val[l]))
      BY <1>7, <2>2 DEF Stuck
    <3>2. QED
      BY <2>1, <2>2, <2>3, <2>5, <3>1 DEF AluStep
  <2>7. regs' = val[l + 1] /\ pc' = st[l + 1] /\ UNCHANGED <<prog, code, frames, status>>
    BY <1>2, <2>2, <2>3, <2>4, <2>6 DEF Compute, Goto
  <2>8. QED
    BY <2>7
<1>8. QED
  BY <1>3, <1>5, <1>6, <1>7 DEF Passes

(* The last line stops.                                                    *)
LEMMA TraceEnds ==
  ASSUME NEW st, NEW val, NEW n, Traced(prog, st, val, n), OnTrace(st, val, n),
         pc = st[n], regs = val[n], status = "running", Next
  PROVE  /\ UNCHANGED <<prog, code, pc, frames, regs>>
         /\ \/ prog.text[n].op = "exit" /\ status' = "exited"
            \/ Stuck(prog.text[n], val[n]) /\ status' \in {"by zero", "overflow"}
<1> DEFINE line == prog.text[n]
<1>1. n \in 1 .. n /\ n \in Nat /\ code = Slots(prog.text) /\ frames = <<>>
  BY DEF OnTrace, Traced
<1>2. /\ InText /\ Here.op = line.op /\ Supported
      /\ Here.op # "other" => Here = line
  BY <1>1, AtTrace
<1>3. line.op = "exit" \/ Stuck(line, val[n])
  BY DEF Traced
<1>4. DOMAIN regs = 0 .. 1
  BY <1>1 DEF Traced
<1> HIDE DEF line
<1>5. CASE line.op = "exit"
  <2>1. Return
    BY <1>2, <1>5 DEF Next, LeaveText, Unsupported, Unresolved, DataStep, Branch, DoCall, Access,
       MoveStep, AluStep, On, Moves, Ops, OldOps, PqrOps, Shifts
  <2>2. QED
    BY <1>1, <1>5, <2>1 DEF Return, Stop, line
<1>6. CASE Stuck(line, val[n])
  <2>0. line.op \in Ops /\ Computes(line, val[n])
    BY <1>6 DEF Stuck, Computes
  <2>1. AluStep
    BY <1>2, <2>0 DEF Next, LeaveText, Unsupported, Unresolved, DataStep, Branch, Return, DoCall,
       Access, MoveStep, On, Moves, Ops, OldOps, PqrOps, Shifts
  <2>3. Here = line
    BY <1>2, <2>0 DEF Ops, OldOps, PqrOps, Shifts
  <2>4. /\ Value(line.dst) = val[n][line.dst] /\ Operand = OperandOf(line, val[n])
        /\ Known(Value(line.dst)) /\ Known(Operand) /\ line.dst \in DOMAIN regs
    BY <1>4, <2>0, <2>3 DEF Computes, Value, Operand, OperandOf
  <2>5. Possible(Value(Here.dst)) = {val[n][line.dst]} /\ Possible(Operand) = {OperandOf(line, val[n])}
    BY <2>3, <2>4 DEF Possible
  <2>6. Stop("by zero") \/ Stop("overflow")
    BY <1>6, <2>1, <2>3, <2>5 DEF AluStep, Stuck
  <2>7. QED
    BY <1>6, <2>6 DEF Stop, line
<1>7. QED
  BY <1>3, <1>5, <1>6

LEMMA RunningOnly ==
  ASSUME Next
  PROVE  status = "running"
  BY DEF Next, LeaveText, Unsupported, Unresolved, DataStep, Branch, Return, DoCall, Access,
     MoveStep, AluStep, On

LEMMA TracedKept ==
  ASSUME TracedInv, [Next]_vars
  PROVE  TracedInv'
<1>1. prog' = prog
  BY DEF vars, Next, LeaveText, Unsupported, Unresolved, DataStep, Branch, Return, DoCall,
         Access, MoveStep, AluStep, Compute, Goto, Stop
<1>2. SUFFICES ASSUME NEW st, NEW val, NEW n, Traced(prog, st, val, n) PROVE OnTrace(st, val, n)'
  BY <1>1 DEF TracedInv
<1>3. OnTrace(st, val, n)
  BY <1>2 DEF TracedInv
<1>4. CASE Next
  <2>1. status = "running" /\ n \in Nat
    BY <1>2, <1>4, RunningOnly DEF Traced
  <2>2. PICK l \in 1 .. n : pc = st[l] /\ regs = val[l]
    BY <1>3 DEF OnTrace
  <2>3. CASE l \in 1 .. n - 1
    <3>1. pc' = st[l + 1] /\ regs' = val[l + 1] /\ UNCHANGED <<prog, code, frames, status>>
      BY <1>2, <1>3, <1>4, <2>2, <2>3, TracePasses
    <3>2. l + 1 \in 1 .. n
      BY <2>1, <2>3
    <3>3. QED
      BY <1>3, <2>1, <3>1, <3>2 DEF OnTrace
  <2>4. CASE l = n
    <3>1. /\ UNCHANGED <<prog, code, pc, frames, regs>>
          /\ \/ prog.text[n].op = "exit" /\ status' = "exited"
             \/ Stuck(prog.text[n], val[n]) /\ status' \in {"by zero", "overflow"}
      BY <1>2, <1>3, <1>4, <2>1, <2>2, <2>4, TraceEnds
    <3>2. QED
      BY <1>3, <2>2, <2>4, <3>1 DEF OnTrace
  <2>5. QED
    BY <2>1, <2>2, <2>3, <2>4
<1>5. CASE UNCHANGED vars
  BY <1>3, <1>5 DEF vars, OnTrace
<1>6. QED
  BY <1>4, <1>5

-----------------------------------------------------------------------------
(* The values of the cases.                                                *)

(* Quotient and remainder by a positive number are what they are.          *)
LEMMA DivMod ==
  ASSUME NEW k \in Nat \ {0}, NEW q \in Int, NEW r \in 0 .. k - 1
  PROVE  (k * q + r) % k = r /\ (k * q + r) \div k = q
<1> DEFINE a == k * q + r
           e == a \div k
           f == a % k
<1>1. a \in Int /\ e \in Int /\ f \in 0 .. k - 1 /\ a = k * e + f
  OBVIOUS
<1>2. a = k * q + r /\ r \in 0 .. k - 1
  OBVIOUS
<1> HIDE DEF a, e, f
<1>3. k * (q - e) = f - r /\ f - r < k /\ r - f < k
  BY <1>1, <1>2
<1>4. CASE q > e
  <2>1. q - e >= 1 /\ k * (q - e) >= k * 1
    BY <1>1, <1>4
  <2>2. QED
    BY <1>1, <1>3, <2>1
<1>5. CASE q < e
  <2>1. e - q >= 1 /\ k * (e - q) >= k * 1 /\ k * (e - q) = r - f
    BY <1>1, <1>3, <1>5
  <2>2. QED
    BY <1>1, <1>3, <2>1
<1>6. CASE q = e
  BY <1>1, <1>2, <1>6 DEF a, e, f
<1>7. QED
  BY <1>1, <1>4, <1>5, <1>6

(* A number of the wide width from its halves.                             *)
LEMMA Halves ==
  ASSUME NEW v \in 0 .. U64Max
  PROVE  /\ v % 2 ^ W \in 0 .. 2 ^ W - 1 /\ High(v) \in 0 .. 2 ^ W - 1
         /\ (v % 2 ^ W) + High(v) * 2 ^ W = v
<1> DEFINE k == 2 ^ W
           kk == 2 ^ (2 * W)
<1>1. k \in Nat /\ k >= 16 /\ kk = k * k /\ v \in 0 .. kk - 1 /\ High(v) = v \div k
  BY Powers DEF U64Max, High
<1> HIDE DEF k, kk
<1> DEFINE q == v \div k
           r == v % k
<1>2. q \in Int /\ r \in 0 .. k - 1 /\ v = k * q + r
  BY <1>1
<1> HIDE DEF q, r
<1>3. q < k
  <2>1. SUFFICES ASSUME q >= k PROVE FALSE
    BY <1>1, <1>2
  <2>2. k * q >= k * k
    BY <1>1, <1>2, <2>1
  <2>3. QED
    BY <1>1, <1>2, <2>2
<1>4. q >= 0
  <2>1. SUFFICES ASSUME q <= -1 PROVE FALSE
    BY <1>1, <1>2
  <2>2. k * q <= k * (-1)
    BY <1>1, <1>2, <2>1
  <2>3. QED
    BY <1>1, <1>2, <2>2
<1>5. QED
  BY <1>1, <1>2, <1>3, <1>4, SMTT(30) DEF q, r, k

(* The values of the cases as numbers of either width.                     *)
LEMMA Remainders ==
  /\ \A v \in {4, 13} : Unsigned(32, v) = v /\ Unsigned(64, v) = v
  /\ Unsigned(32, -1) = U32Max /\ Unsigned(64, -1) = U64Max
  /\ Unsigned(32, U32Max) = U32Max /\ Unsigned(64, U32Max) = U32Max
  /\ Unsigned(32, U64Max) = U32Max /\ Unsigned(64, U64Max) = U64Max
  /\ U32Max \in 0 .. U64Max /\ U64Max \in 0 .. U64Max
  /\ \A v \in {4, 13} :
       /\ Minus(32, v) = 2 ^ W - v /\ Minus(64, v) = 2 ^ (2 * W) - v
       /\ Minus(32, v) \in 0 .. U64Max /\ Minus(64, v) \in 0 .. U64Max
       /\ Unsigned(32, Minus(32, v)) = Minus(32, v) /\ Unsigned(64, Minus(32, v)) = Minus(32, v)
       /\ Unsigned(32, Minus(64, v)) = Minus(32, v) /\ Unsigned(64, Minus(64, v)) = Minus(64, v)
       /\ Signed(32, v) = v /\ Signed(64, v) = v
       /\ Signed(32, Minus(32, v)) = -v /\ Signed(32, Minus(64, v)) = -v
       /\ Signed(64, Minus(64, v)) = -v
  /\ Signed(32, U32Max) = -1 /\ Signed(32, U64Max) = -1 /\ Signed(64, U64Max) = -1
<1> DEFINE h == 2 ^ (W - 1)
           k == 2 ^ W
           hh == 2 ^ (2 * W - 1)
           kk == 2 ^ (2 * W)
<1>1. /\ h \in Nat /\ k \in Nat /\ hh \in Nat /\ kk \in Nat /\ h >= 16 /\ k = 2 * h
      /\ kk = 2 * hh /\ hh > k /\ kk = k * k
  BY Powers
<1>2. /\ \A v : Unsigned(32, v) = v % k /\ Unsigned(64, v) = v % kk
      /\ \A v : Signed(32, v) = IF v % k < h THEN v % k ELSE (v % k) - k
      /\ \A v : Signed(64, v) = IF v % kk < hh THEN v % kk ELSE (v % kk) - kk
      /\ U32Max = k - 1 /\ U64Max = kk - 1
      /\ \A v : Minus(32, v) = (-v) % k /\ Minus(64, v) = (-v) % kk
  BY Widths DEF U32Max, U64Max, Minus
<1> HIDE DEF h, k, hh, kk
<1>3. ASSUME NEW v \in 0 .. 13
      PROVE  v % k = v /\ v % kk = v
  BY <1>1
<1>4. ASSUME NEW v \in 1 .. 13
      PROVE  /\ (-v) % k = k - v /\ (-v) % kk = kk - v /\ (k - v) % k = k - v
             /\ (k - v) % kk = k - v /\ (kk - v) % kk = kk - v /\ (kk - v) % k = k - v
  <2>1. /\ (-v) % k = k - v /\ (-v) % kk = kk - v /\ (k - v) % k = k - v
        /\ (k - v) % kk = k - v /\ (kk - v) % kk = kk - v
    BY <1>1
  <2>2. kk - v = k * (k - 1) + (k - v)
    BY <1>1
  <2>3. k \in Nat \ {0} /\ k - 1 \in Int /\ k - v \in 0 .. k - 1
    BY <1>1
  <2>4. (k * (k - 1) + (k - v)) % k = k - v
    BY <2>3, DivMod
  <2>5. QED
    BY <2>1, <2>2, <2>4
<1>5. /\ (-1) % k = k - 1 /\ (-1) % kk = kk - 1 /\ (k - 1) % k = k - 1
      /\ (k - 1) % kk = k - 1 /\ (kk - 1) % kk = kk - 1 /\ (kk - 1) % k = k - 1
  <2> DEFINE v == 1
  <2>1. v \in 1 .. 13
    OBVIOUS
  <2> HIDE DEF v
  <2>2. /\ (-v) % k = k - v /\ (-v) % kk = kk - v /\ (k - v) % k = k - v
        /\ (k - v) % kk = k - v /\ (kk - v) % kk = kk - v /\ (kk - v) % k = k - v
    BY <2>1, <1>4
  <2>3. QED
    BY <2>2 DEF v
<1>6. /\ Unsigned(32, -1) = U32Max /\ Unsigned(64, -1) = U64Max
      /\ Unsigned(32, U32Max) = U32Max /\ Unsigned(64, U32Max) = U32Max
      /\ Unsigned(32, U64Max) = U32Max /\ Unsigned(64, U64Max) = U64Max
      /\ U32Max \in 0 .. U64Max /\ U64Max \in 0 .. U64Max
  <2>1. U32Max = k - 1 /\ U64Max = kk - 1 /\ k - 1 \in 0 .. kk - 1 /\ kk - 1 \in 0 .. kk - 1
    BY <1>1, <1>2
  <2>2. QED
    BY <1>2, <1>5, <2>1
<1>7. Signed(32, U32Max) = -1 /\ Signed(32, U64Max) = -1 /\ Signed(64, U64Max) = -1
  BY <1>1, <1>2, <1>5, SMTT(30)
<1>8. ASSUME NEW v \in {4, 13}
      PROVE  /\ Unsigned(32, v) = v /\ Unsigned(64, v) = v
             /\ Signed(32, v) = v /\ Signed(64, v) = v
             /\ Minus(32, v) = k - v /\ Minus(64, v) = kk - v
             /\ Minus(32, v) \in 0 .. U64Max /\ Minus(64, v) \in 0 .. U64Max
             /\ Unsigned(32, Minus(32, v)) = Minus(32, v) /\ Unsigned(64, Minus(32, v)) = Minus(32, v)
             /\ Unsigned(32, Minus(64, v)) = Minus(32, v) /\ Unsigned(64, Minus(64, v)) = Minus(64, v)
             /\ Signed(32, Minus(32, v)) = -v /\ Signed(32, Minus(64, v)) = -v
             /\ Signed(64, Minus(64, v)) = -v
  <2>1. v \in 0 .. 13 /\ v \in 1 .. 13
    OBVIOUS
  <2>2. v % k = v /\ v % kk = v
    BY <2>1, <1>3
  <2>3. /\ (-v) % k = k - v /\ (-v) % kk = kk - v /\ (k - v) % k = k - v
        /\ (k - v) % kk = k - v /\ (kk - v) % kk = kk - v /\ (kk - v) % k = k - v
    BY <2>1, <1>4
  <2>4. Unsigned(32, v) = v /\ Unsigned(64, v) = v /\ Minus(32, v) = k - v /\ Minus(64, v) = kk - v
    BY <1>2, <2>2, <2>3
  <2>5. Signed(32, v) = v /\ Signed(64, v) = v
    BY <1>1, <1>2, <2>1, <2>2
  <2>6. /\ Unsigned(32, k - v) = k - v /\ Unsigned(64, k - v) = k - v
        /\ Unsigned(32, kk - v) = k - v /\ Unsigned(64, kk - v) = kk - v
    BY <1>2, <2>3
  <2>7. /\ Signed(32, k - v) = -v /\ Signed(32, kk - v) = -v /\ Signed(64, kk - v) = -v
    BY <1>1, <1>2, <2>1, <2>3
  <2>8. k - v \in 0 .. U64Max /\ kk - v \in 0 .. U64Max
    BY <1>1, <1>2, <2>1
  <2>9. QED
    BY <2>4, <2>5, <2>6, <2>7, <2>8
<1>9. QED
  BY <1>6, <1>7, <1>8 DEF k, kk

(* What is tried in a version.                                             *)
Tries(version, m, w, d, s) ==
  /\ w \in {32, 64} /\ m \notin Lacking(version)
  /\ \/ /\ m \in {"div", "mod", "udiv", "urem", "uhmul"}
        /\ d \in {13, U64Max} /\ s \in {4, U32Max}
        /\ ~ (m = "div" /\ w = 64 /\ d = U64Max /\ s = U32Max)
     \/ /\ m \in {"mul", "lmul", "sdiv", "srem", "shmul"}
        /\ d \in {13, Minus(64, 13)} /\ s \in {4, Minus(w, 4)}

LEMMA ResultOfOperand ==
  ASSUME NEW op, NEW w, NEW a, NEW b, NEW c, Unsigned(w, b) = Unsigned(w, c)
  PROVE  Result(op, w, a, b) = Result(op, w, a, c)
<1>1. Signed(w, b) = Signed(w, c)
  BY DEF Signed
<1>2. QED
  BY <1>1 DEF Result

(* An immediate stands for its operand.                                    *)
LEMMA ImmediateOfOperand ==
  ASSUME NEW version, NEW m, NEW w, NEW d, NEW s, Tries(version, m, w, d, s),
         NEW b, b = Immediate(m, w, Signed(32, s))
  PROVE  /\ b \in 0 .. U64Max
         /\ ~ (m \in {"div", "mod"} /\ w = 64 /\ s = U32Max) => Unsigned(w, b) = Unsigned(w, s)
         /\ m \in {"div", "mod"} /\ w = 64 /\ s = U32Max => b = U64Max
<1>1. CASE s = 4
  <2>1. b = 4
    BY <1>1, Remainders DEF Immediate
  <2>2. b \in 0 .. U64Max
    BY <2>1, Remainders, Powers DEF U64Max
  <2>3. s # U32Max
    BY <1>1, Powers DEF U32Max
  <2>4. QED
    BY <1>1, <2>1, <2>2, <2>3
<1>2. CASE s = U32Max
  <2>1. Signed(32, s) = -1
    BY <1>2, Remainders
  <2>2. b = IF m \in {"uhmul", "udiv", "urem"} /\ w = 64 THEN U32Max ELSE U64Max
    BY <2>1, Remainders DEF Immediate
  <2>3. b \in 0 .. U64Max
    BY <2>2, Remainders
  <2>4. ASSUME w = 32 PROVE Unsigned(w, b) = Unsigned(w, s)
    BY <1>2, <2>2, <2>4, Remainders
  <2>5. ASSUME m \in {"uhmul", "udiv", "urem"}, w = 64 PROVE b = s
    BY <1>2, <2>2, <2>5
  <2>6. m \in {"div", "mod", "uhmul", "udiv", "urem"} /\ w \in {32, 64}
    <3>1. U32Max # Minus(32, 4) /\ U32Max # Minus(64, 4) /\ U32Max # 4
      BY Remainders, Powers DEF U32Max
    <3>2. QED
      BY <1>2, <3>1 DEF Tries
  <2>7. m \in {"div", "mod"} => b = U64Max
    BY <2>2
  <2>8. QED
    BY <1>2, <2>3, <2>4, <2>5, <2>6, <2>7
<1>3. CASE s = Minus(w, 4) /\ m \in {"mul", "lmul", "sdiv", "srem", "shmul"}
  <2>1. w \in {32, 64}
    BY DEF Tries
  <2>2. Signed(32, s) = -4
    BY <1>3, <2>1, Remainders
  <2>3. b = Minus(64, 4)
    BY <1>3, <2>2 DEF Immediate, Minus
  <2>4. b \in 0 .. U64Max
    BY <2>3, Remainders
  <2>5. Unsigned(w, b) = Unsigned(w, s)
    BY <1>3, <2>1, <2>3, Remainders
  <2>6. QED
    BY <1>3, <2>4, <2>5
<1>4. \/ s = 4 \/ s = U32Max
      \/ s = Minus(w, 4) /\ m \in {"mul", "lmul", "sdiv", "srem", "shmul"}
  BY DEF Tries
<1>5. QED
  BY <1>1, <1>2, <1>3, <1>4

(* Both operands of a case give the same result, and neither stops it.     *)
LEMMA OperandsAgree ==
  ASSUME NEW version, NEW m, NEW w, NEW d, NEW s, Tries(version, m, w, d, s),
         NEW b \in {s, Immediate(m, w, Signed(32, s))}
  PROVE  /\ Known(d) /\ Known(b)
         /\ ~ DividesByZero(m, w, b) /\ ~ Overflows(m, w, d, b)
         /\ Result(m, w, d, b) = Result(m, w, d, s)
<1> DEFINE i == Immediate(m, w, Signed(32, s))
<1>1. /\ i \in 0 .. U64Max
      /\ ~ (m \in {"div", "mod"} /\ w = 64 /\ s = U32Max) => Unsigned(w, i) = Unsigned(w, s)
      /\ m \in {"div", "mod"} /\ w = 64 /\ s = U32Max => i = U64Max
  BY ImmediateOfOperand
<1>2. w \in {32, 64} /\ b \in {s, i}
  BY DEF Tries
<1> HIDE DEF i
<1>3. /\ U64Max \in Int /\ U64Max >= 31
      /\ U32Max \in Int /\ U32Max >= 31
  <2> DEFINE k == 2 ^ W
             kk == 2 ^ (2 * W)
  <2>1. k \in Nat /\ k >= 32 /\ kk \in Nat /\ kk = k * k /\ U32Max = k - 1 /\ U64Max = kk - 1
    BY Powers DEF U32Max, U64Max
  <2> HIDE DEF k, kk
  <2>2. kk >= k * 32
    BY <2>1
  <2>3. QED
    BY <2>1, <2>2
<1>4. Known(d) /\ Known(b)
  <2>1. d \in 0 .. U64Max
    BY <1>3, Remainders DEF Tries
  <2>2. s \in 0 .. U64Max
    BY <1>2, <1>3, Remainders DEF Tries
  <2>3. QED
    BY <1>1, <1>2, <2>1, <2>2 DEF Known
<1>5. Unsigned(w, s) # 0 /\ Unsigned(w, U64Max) # 0
  <2>1. Minus(32, 4) # 0 /\ Minus(64, 4) # 0
    BY Remainders, Powers
  <2>2. Unsigned(w, U64Max) # 0 /\ Unsigned(w, U32Max) # 0 /\ Unsigned(w, 4) # 0
    BY <1>2, <1>3, Remainders
  <2>3. Unsigned(w, Minus(w, 4)) # 0
    BY <1>2, <2>1, Remainders
  <2>4. s \in {4, U32Max, Minus(w, 4)}
    BY DEF Tries
  <2>5. QED
    BY <2>2, <2>3, <2>4
<1>6. Unsigned(w, b) # 0
  BY <1>1, <1>2, <1>5
<1>7. ~ DividesByZero(m, w, b)
  BY <1>6 DEF DividesByZero
<1>8. ~ Overflows(m, w, d, b)
  <2>1. SUFFICES ASSUME m \in SignedDivisions PROVE Signed(w, d) # -(2 ^ (Bits(w) - 1))
    BY DEF Overflows
  <2>2. d \in {13, Minus(64, 13)}
    BY <2>1 DEF Tries, SignedDivisions
  <2>3. Signed(w, d) \in {13, -13}
    BY <1>2, <2>2, Remainders
  <2>4. 2 ^ (Bits(w) - 1) \in {2 ^ (W - 1), 2 ^ (2 * W - 1)}
    BY <1>2 DEF Bits
  <2>5. 2 ^ (Bits(w) - 1) \in Nat /\ 2 ^ (Bits(w) - 1) >= 16
    BY <2>4, Powers
  <2>6. QED
    BY <2>3, <2>5
<1>9. Result(m, w, d, b) = Result(m, w, d, s)
  <2>1. CASE Unsigned(w, b) = Unsigned(w, s)
    BY <2>1, ResultOfOperand
  <2>2. CASE m \in {"div", "mod"} /\ w = 64 /\ s = U32Max /\ b = U64Max
    <3>1. d = 13 \/ (d = U64Max /\ m = "mod")
      BY <2>2 DEF Tries
    <3>2. Unsigned(64, b) = U64Max /\ Unsigned(64, s) = U32Max
      BY <2>2, Remainders
    <3>3. CASE m = "div"
      <4>1. Unsigned(64, d) = 13
        BY <3>1, <3>3, Remainders
      <4>2. 13 \div U64Max = 0 /\ 13 \div U32Max = 0
        BY <1>3
      <4>3. \A c : Result(m, 64, d, c) = Unsigned(64, d) \div Unsigned(64, c)
        BY <3>3 DEF Result
      <4>4. QED
        BY <2>2, <3>2, <4>1, <4>2, <4>3
    <3>4. CASE m = "mod"
      <4>1. \A c : Result(m, 64, d, c) = Unsigned(64, d) % Unsigned(64, c)
        BY <3>4 DEF Result
      <4>2. 13 % U64Max = 13 /\ 13 % U32Max = 13
        BY <1>3
      <4>3. U64Max % U64Max = 0
        BY <1>3
      <4>4. U64Max % U32Max = 0
        <5> DEFINE k == 2 ^ W
                   kk == 2 ^ (2 * W)
                   j == k - 1
        <5>1. k \in Nat /\ k >= 32 /\ kk = k * k /\ U32Max = j /\ U64Max = kk - 1
          BY Powers DEF U32Max, U64Max
        <5>2. j \in Nat \ {0} /\ k + 1 \in Int /\ 0 \in 0 .. j - 1
          BY <5>1
        <5>3. kk - 1 = j * (k + 1) + 0
          <6> HIDE DEF k, kk
          <6>1. QED
            BY <5>1
        <5> HIDE DEF k, kk, j
        <5>4. (j * (k + 1) + 0) % j = 0
          BY <5>2, DivMod
        <5>5. QED
          BY <5>1, <5>3, <5>4
      <4>5. Unsigned(64, 13) = 13 /\ Unsigned(64, U64Max) = U64Max
        BY Remainders
      <4>6. CASE d = 13
        BY <2>2, <3>2, <4>1, <4>2, <4>5, <4>6
      <4>7. CASE d = U64Max
        BY <2>2, <3>2, <4>1, <4>3, <4>4, <4>5, <4>7
      <4>8. QED
        BY <3>1, <4>6, <4>7
    <3>5. QED
      BY <2>2, <3>3, <3>4
  <2>3. QED
    BY <1>1, <1>2, <2>1, <2>2
<1>10. QED
  BY <1>4, <1>7, <1>8, <1>9

-----------------------------------------------------------------------------
(* The traces of the cases.                                                *)

Regs(a, b) == [r \in 0 .. 1 |-> IF r = 0 THEN a ELSE b]

(* Both registers at once.                                                 *)
LEMMA RegsAre ==
  /\ FirstRegs = Regs(0, Input)
  /\ \A a, b : Regs(a, b)[0] = a /\ Regs(a, b)[1] = b /\ DOMAIN Regs(a, b) = 0 .. 1
  /\ \A a, b, c : [Regs(a, b) EXCEPT ![0] = c] = Regs(c, b)
  /\ \A a, b, c : [Regs(a, b) EXCEPT ![1] = c] = Regs(a, c)
<1>1. \A r \in 0 .. 1 : r = 0 \/ r = 1
  OBVIOUS
<1>2. FirstRegs = Regs(0, Input)
  BY <1>1 DEF FirstRegs, Regs
<1>3. ASSUME NEW a, NEW b
      PROVE  Regs(a, b)[0] = a /\ Regs(a, b)[1] = b /\ DOMAIN Regs(a, b) = 0 .. 1
  BY DEF Regs
<1>4. ASSUME NEW a, NEW b, NEW c PROVE [Regs(a, b) EXCEPT ![0] = c] = Regs(c, b)
  BY <1>1 DEF Regs
<1>5. ASSUME NEW a, NEW b, NEW c PROVE [Regs(a, b) EXCEPT ![1] = c] = Regs(a, c)
  <2> DEFINE f == [Regs(a, b) EXCEPT ![1] = c]
             g == Regs(a, c)
  <2>1. f = [r \in 0 .. 1 |-> IF r = 1 THEN c ELSE Regs(a, b)[r]]
    BY <1>3
  <2>2. g = [r \in 0 .. 1 |-> IF r = 0 THEN a ELSE c]
    BY DEF Regs
  <2>3. \A r \in 0 .. 1 : f[r] = g[r]
    <3>1. f[0] = g[0] /\ f[1] = g[1]
      BY <1>3
    <3>2. QED
      BY <1>1, <3>1
  <2> HIDE DEF f, g
  <2>4. f = [r \in 0 .. 1 |-> f[r]] /\ g = [r \in 0 .. 1 |-> g[r]]
    BY <2>1, <2>2
  <2>5. QED
    BY <2>3, <2>4 DEF f, g
<1>6. QED
  BY <1>2, <1>3, <1>4, <1>5

(* A line that loads an immediate.                                         *)
Loads(line, op, w, dst, v) ==
  /\ line \in Lines /\ line.kind = "ins" /\ line.op = op /\ line.w = w /\ line.dst = dst
  /\ line.src = Imm /\ line.imm = v

(* A line that loads a value passes and leaves the value.                  *)
LEMMA LoadPasses ==
  ASSUME NEW line, NEW op \in Moves, NEW w, NEW dst \in 0 .. 1, NEW v, Loads(line, op, w, dst, v),
         NEW a, NEW b
  PROVE  LET c == Unsigned(w, Immediate(op, w, v))
         IN  /\ dst = 0 => Passes(line, Regs(a, b), Regs(c, b))
             /\ dst = 1 => Passes(line, Regs(a, b), Regs(a, c))
<1> DEFINE c == Unsigned(w, Immediate(op, w, v))
<1>1. OperandOf(line, Regs(a, b)) = Immediate(op, w, v)
  BY DEF Loads, OperandOf
<1>2. line.op \in Moves /\ line.src = Imm /\ line.dst \in 0 .. 1 /\ line.dst = dst
  BY DEF Loads
<1>3. Unsigned(line.w, OperandOf(line, Regs(a, b))) = c
  BY <1>1 DEF Loads
<1> HIDE DEF c
<1>4. dst = 0 => [Regs(a, b) EXCEPT ![line.dst] = c] = Regs(c, b)
  BY <1>2, RegsAre
<1>5. dst = 1 => [Regs(a, b) EXCEPT ![line.dst] = c] = Regs(a, c)
  BY <1>2, RegsAre
<1>6. QED
  BY <1>2, <1>3, <1>4, <1>5 DEF Passes, c

(* The upper half put over the lower one.                                  *)
LEMMA HorPasses ==
  ASSUME NEW line, NEW dst \in 0 .. 1, NEW v \in 0 .. U64Max, Loads(line, "hor", 64, dst, High(v)),
         NEW a, NEW b
  PROVE  /\ dst = 0 => Passes(line, Regs(v % 2 ^ W, b), Regs(v, b))
         /\ dst = 1 => Passes(line, Regs(a, v % 2 ^ W), Regs(a, v))
<1> DEFINE r == IF dst = 0 THEN Regs(v % 2 ^ W, b) ELSE Regs(a, v % 2 ^ W)
           t == IF dst = 0 THEN Regs(v, b) ELSE Regs(a, v)
           x == v % 2 ^ W
           y == High(v)
<1>1. /\ x \in 0 .. U64Max /\ y \in 0 .. U64Max /\ x + y * 2 ^ W = v /\ y % 2 ^ (2 * W) = y
      /\ v % 2 ^ (2 * W) = v
  <2> DEFINE k == 2 ^ W
             kk == 2 ^ (2 * W)
  <2>1. k \in Nat /\ k >= 16 /\ kk \in Nat /\ kk = k * k /\ U64Max = kk - 1
    BY Powers DEF U64Max
  <2>2. x \in 0 .. k - 1 /\ y \in 0 .. k - 1 /\ x + y * k = v
    BY Halves
  <2> HIDE DEF k, kk, x, y
  <2>3. k <= kk
    BY <2>1
  <2>4. x \in 0 .. kk - 1 /\ y \in 0 .. kk - 1 /\ v \in 0 .. kk - 1
    BY <2>1, <2>2, <2>3
  <2>5. y % kk = y /\ v % kk = v
    BY <2>1, <2>4
  <2>6. QED
    BY <2>1, <2>2, <2>4, <2>5 DEF k, kk
<1>2. r[dst] = x /\ [r EXCEPT ![dst] = v] = t
  <2> HIDE DEF x
  <2>1. CASE dst = 0
    BY <2>1, RegsAre DEF x
  <2>2. CASE dst = 1
    BY <2>2, RegsAre DEF x
  <2>3. QED
    BY <2>1, <2>2
<1> HIDE DEF r, t, x, y
<1>3. Unsigned(64, y) = y
  BY <1>1, Widths
<1>4. OperandOf(line, r) = y
  <2>1. Immediate("hor", 64, y) = Unsigned(64, y)
    BY DEF Immediate
  <2>2. QED
    BY <1>3, <2>1 DEF OperandOf, Loads, y
<1>5. Result("hor", 64, x, y) = v
  <2>1. Result("hor", 64, x, y) = (x + Unsigned(64, y) * 2 ^ W) % 2 ^ Bits(64)
    BY DEF Result
  <2>2. Bits(64) = 2 * W
    BY DEF Bits
  <2>3. QED
    BY <1>1, <1>3, <2>1, <2>2
<1>6. Computes(line, r) /\ ~ Stuck(line, r) /\ line.op \notin Shifts
  <2>1. line.op = "hor" /\ line.dst = dst /\ line.src = Imm
    BY DEF Loads
  <2>2. Computes(line, r)
    BY <1>1, <1>2, <1>4, <2>1 DEF Computes, Ops, Known
  <2>3. ~ Stuck(line, r)
    BY <2>1 DEF Stuck, DividesByZero, Overflows, Divisions, SignedDivisions
  <2>4. QED
    BY <2>1, <2>2, <2>3 DEF Shifts
<1>7. Passes(line, r, t)
  <2>1. Result(line.op, line.w, r[line.dst], OperandOf(line, r)) = v /\ line.dst = dst
    BY <1>2, <1>4, <1>5 DEF Loads
  <2>2. QED
    BY <1>2, <1>6, <2>1 DEF Passes
<1>8. QED
  BY <1>7 DEF r, t

(* The operation under test.                                               *)
TriesLine(line, m, w, s) ==
  /\ line \in Lines /\ line.kind = "ins" /\ line.op = m /\ line.w = w /\ line.dst = 0
  /\ line.src \in {Imm, 1} /\ (line.src = Imm => line.imm = Signed(32, s))

(* The line under test passes and leaves the result.                       *)
LEMMA TestPasses ==
  ASSUME NEW version, NEW m, NEW w, NEW d, NEW s, Tries(version, m, w, d, s),
         NEW line, TriesLine(line, m, w, s)
  PROVE  Passes(line, Regs(d, s), Regs(Result(m, w, d, s), s))
<1> DEFINE r == Regs(d, s)
           b == OperandOf(line, r)
<1>1. r[0] = d /\ r[1] = s /\ \A c : [r EXCEPT ![0] = c] = Regs(c, s)
  BY RegsAre
<1> HIDE DEF r
<1>2. b \in {s, Immediate(m, w, Signed(32, s))}
  BY <1>1 DEF TriesLine, OperandOf
<1> HIDE DEF b
<1>3. /\ Known(d) /\ Known(b)
      /\ ~ DividesByZero(m, w, b) /\ ~ Overflows(m, w, d, b)
      /\ Result(m, w, d, b) = Result(m, w, d, s)
  BY <1>2, OperandsAgree
<1>4. m \in Ops /\ m \notin Shifts
  BY DEF Tries, Ops, OldOps, PqrOps, Shifts
<1>5. line.op = m /\ line.w = w /\ line.dst = 0 /\ line.src \in {Imm, 0, 1} /\ line.dst \in 0 .. 1
  BY DEF TriesLine
<1>6. Computes(line, r) /\ ~ Stuck(line, r)
  BY <1>1, <1>3, <1>4, <1>5 DEF Computes, Stuck, b
<1>7. Passes(line, r, Regs(Result(m, w, d, s), s))
  BY <1>1, <1>3, <1>4, <1>5, <1>6 DEF Passes, b
<1>8. QED
  BY <1>7 DEF r

(* A seed that computes a value in r0 and exits.                           *)
Computed(p, v) ==
  \E st, val, n : Traced(p, st, val, n) /\ p.text[n].op = "exit" /\ val[n][0] = v

LEMMA ImmLoads ==
  ASSUME NEW op \in OpNames, NEW w \in {32, 64}, NEW dst \in 0 .. 1, NEW v \in Int
  PROVE  Loads(AluImm(op, w, dst, v), op, w, dst, v)
<1>1. dst \in Int
  OBVIOUS
<1>2. QED
  BY <1>1, AluImmFields DEF Loads

LEMMA TestLines ==
  ASSUME NEW version, NEW m, NEW w, NEW d, NEW s, Tries(version, m, w, d, s),
         NEW line \in {AluImm(m, w, 0, Signed(32, s)), AluReg(m, w, 0, 1)}
  PROVE  TriesLine(line, m, w, s)
<1> DEFINE zero == 0
           one == 1
<1>1. m \in OpNames /\ w \in {32, 64} /\ zero \in Int /\ one \in Int
  <2>1. /\ m \in {"div", "mod", "udiv", "urem", "uhmul", "mul", "lmul", "sdiv", "srem", "shmul"}
        /\ w \in {32, 64}
    BY DEF Tries
  <2>2. m \in OpNames
    BY <2>1 DEF OpNames, Ops, OldOps, PqrOps
  <2>3. QED
    BY <2>1, <2>2
<1>2. Signed(32, s) \in Int
  <2>1. s \in 0 .. U64Max
    BY Remainders, Powers DEF Tries, U64Max
  <2>2. s \in Int
    BY <2>1
  <2>3. QED
    BY <2>2, Widths, Powers
<1>3. CASE line = AluImm(m, w, 0, Signed(32, s))
  <2> HIDE DEF zero
  <2>1. /\ AluImm(m, w, zero, Signed(32, s)) \in Lines /\ AluImm(m, w, zero, Signed(32, s)).kind = "ins"
        /\ AluImm(m, w, zero, Signed(32, s)).op = m /\ AluImm(m, w, zero, Signed(32, s)).w = w
        /\ AluImm(m, w, zero, Signed(32, s)).dst = zero /\ AluImm(m, w, zero, Signed(32, s)).src = Imm
        /\ AluImm(m, w, zero, Signed(32, s)).imm = Signed(32, s)
    BY <1>1, <1>2, AluImmFields
  <2>2. QED
    BY <1>3, <2>1 DEF TriesLine, zero
<1>4. CASE line = AluReg(m, w, 0, 1)
  <2> HIDE DEF zero, one
  <2>1. /\ AluReg(m, w, zero, one) \in Lines /\ AluReg(m, w, zero, one).kind = "ins"
        /\ AluReg(m, w, zero, one).op = m /\ AluReg(m, w, zero, one).w = w
        /\ AluReg(m, w, zero, one).dst = zero /\ AluReg(m, w, zero, one).src = one
    BY <1>1, AluRegFields
  <2>2. QED
    BY <1>4, <2>1 DEF TriesLine, zero, one, Imm
<1>5. QED
  BY <1>3, <1>4

(* By lddw, in the versions that have it.                                  *)
LEMMA TracedV0 ==
  ASSUME NEW p, p.version = "V0",
         NEW m, NEW w, NEW d \in 0 .. U64Max, NEW s \in 0 .. U64Max, Tries("V0", m, w, d, s),
         NEW line, TriesLine(line, m, w, s),
         NEW a, Loads(a, "lddw", 64, 0, Signed(64, d)),
         NEW b, Loads(b, "lddw", 64, 1, Signed(64, s)),
         p.text = <<a, b, line, Exit>>
  PROVE  Computed(p, Result(m, w, d, s))
<1> DEFINE R == Result(m, w, d, s)
           val == <<Regs(0, Input), Regs(d, Input), Regs(d, s), Regs(R, s)>>
           four == 4
<1> HIDE DEF R
<1>1. /\ p.text \in Seq(Lines) /\ Len(p.text) = 4 /\ p.text[1] = a /\ p.text[2] = b
      /\ p.text[3] = line /\ p.text[4] = Exit
  <2> DEFINE last == Exit
             X == Lines
  <2>1. a \in X /\ b \in X /\ line \in X /\ last \in X /\ p.text = <<a, b, line, last>>
    BY PlainFields DEF Loads, TriesLine
  <2> HIDE DEF last, X
  <2>2. /\ p.text \in Seq(X) /\ Len(p.text) = 4 /\ p.text[1] = a /\ p.text[2] = b
        /\ p.text[3] = line /\ p.text[4] = last
    BY <2>1
  <2>3. QED
    BY <2>2 DEF last, X
<1>2. PICK st : Starts(p.text, st)
  BY <1>1, StartsExist
<1>3. \A l \in 1 .. 4 : p.text[l].kind = "ins" /\ p.text[l].op \notin Lacking("V0") \cup {Half.op}
  <2>1. m \notin Lacking("V0") /\ m # Half.op
    BY PlainFields DEF Tries
  <2>2. /\ a.op = "lddw" /\ b.op = "lddw" /\ line.op = m /\ a.kind = "ins" /\ b.kind = "ins"
        /\ line.kind = "ins"
    BY DEF Loads, TriesLine
  <2>3. "lddw" \notin Lacking("V0") \cup {Half.op} /\ "exit" \notin Lacking("V0") \cup {Half.op}
    BY PlainFields DEF Lacking, PqrOps
  <2> DEFINE Good(l) == p.text[l].kind = "ins" /\ p.text[l].op \notin Lacking("V0") \cup {Half.op}
  <2>4. Good(1) /\ Good(2) /\ Good(3) /\ Good(4)
    <3> DEFINE bad == Lacking("V0") \cup {Half.op}
    <3>1. m \notin bad /\ "lddw" \notin bad /\ "exit" \notin bad
      BY <2>1, <2>3
    <3> HIDE DEF bad
    <3>2. /\ p.text[1].op \notin bad /\ p.text[2].op \notin bad /\ p.text[3].op \notin bad
          /\ p.text[4].op \notin bad
      BY <1>1, <2>2, <3>1, PlainFields
    <3>3. /\ p.text[1].kind = "ins" /\ p.text[2].kind = "ins" /\ p.text[3].kind = "ins"
          /\ p.text[4].kind = "ins"
      BY <1>1, <2>2, PlainFields
    <3>4. QED
      BY <3>2, <3>3 DEF bad
  <2> HIDE DEF Good
  <2>5. \A l \in 1 .. 4 : Good(l)
    BY <2>4
  <2>6. QED
    BY <2>5 DEF Good
<1>4. \A v \in 0 .. U64Max : Unsigned(64, Immediate("lddw", 64, Signed(64, v))) = v
  <2>1. SUFFICES ASSUME NEW v \in 0 .. U64Max
                 PROVE  Unsigned(64, Immediate("lddw", 64, Signed(64, v))) = v
    OBVIOUS
  <2>2. Immediate("lddw", 64, Signed(64, v)) = Unsigned(64, Signed(64, v))
    BY DEF Immediate
  <2> DEFINE hh == 2 ^ (2 * W - 1)
             kk == 2 ^ (2 * W)
  <2>3. /\ hh \in Nat /\ kk \in Nat /\ kk = 2 * hh /\ hh > 0 /\ U64Max = kk - 1
        /\ \A x : Unsigned(64, x) = x % kk
        /\ Signed(64, v) = IF v % kk < hh THEN v % kk ELSE (v % kk) - kk
    BY Powers, Widths DEF U64Max
  <2> HIDE DEF hh, kk
  <2>4. v % kk = v
    BY <2>3
  <2>5. Signed(64, v) % kk = v
    BY <2>3, <2>4
  <2>6. QED
    BY <2>2, <2>3, <2>4, <2>5
<1>5. Passes(a, Regs(0, Input), Regs(d, Input)) /\ Passes(b, Regs(d, Input), Regs(d, s))
  <2>1. "lddw" \in Moves
    BY DEF Moves
  <2>2. QED
    BY <1>4, <2>1, LoadPasses
<1>6. Passes(line, Regs(d, s), Regs(R, s))
  BY TestPasses DEF R
<1>7. val[4][0] = R /\ val[1] = FirstRegs /\ \A l \in 1 .. 4 : DOMAIN val[l] = 0 .. 1
  BY RegsAre
<1>8. \A l \in 1 .. 4 - 1 : Passes(p.text[l], val[l], val[l + 1])
  <2>1. Passes(p.text[1], val[1], val[2]) /\ Passes(p.text[2], val[2], val[3])
        /\ Passes(p.text[3], val[3], val[4])
    BY <1>1, <1>5, <1>6
  <2> HIDE DEF val
  <2>2. QED
    BY <2>1
<1> HIDE DEF val
<1>9. Traced(p, st, val, 4)
  <2>1. p.text[4].op = "exit"
    BY <1>1, PlainFields
  <2> DEFINE n == 4
  <2>2. n \in 1 .. Len(p.text) /\ n = Len(p.text)
    BY <1>1
  <2>3. /\ \A l \in 1 .. n : p.text[l].kind = "ins" /\ p.text[l].op \notin Lacking(p.version) \cup {Half.op}
        /\ \A l \in 1 .. n : DOMAIN val[l] = 0 .. 1
        /\ \A l \in 1 .. n - 1 : Passes(p.text[l], val[l], val[l + 1])
        /\ val[1] = FirstRegs /\ p.text[n].op = "exit"
    BY <1>3, <1>7, <1>8, <2>1
  <2> HIDE DEF n
  <2>4. Traced(p, st, val, n)
    BY <1>1, <1>2, <2>2, <2>3 DEF Traced
  <2>5. QED
    BY <2>4 DEF n
<1>10. QED
  BY <1>1, <1>7, <1>9, PlainFields DEF Computed, R

(* By mov32 and hor64, in the one that has not.                            *)
LEMMA TracedV2 ==
  ASSUME NEW p, p.version = "V2",
         NEW m, NEW w, NEW d \in 0 .. U64Max, NEW s \in 0 .. U64Max, Tries("V2", m, w, d, s),
         NEW line, TriesLine(line, m, w, s),
         NEW a, Loads(a, "mov", 32, 0, Unsigned(32, d)), NEW e, Loads(e, "hor", 64, 0, High(d)),
         NEW b, Loads(b, "mov", 32, 1, Unsigned(32, s)), NEW f, Loads(f, "hor", 64, 1, High(s)),
         p.text = <<O(1), a, e, b, f, line, Exit>>
  PROVE  Computed(p, Result(m, w, d, s))
<1> DEFINE R == Result(m, w, d, s)
           x == d % 2 ^ W
           y == s % 2 ^ W
           val == <<Regs(0, Input), Regs(0, Input), Regs(x, Input), Regs(d, Input), Regs(d, y),
                    Regs(d, s), Regs(R, s)>>
<1> HIDE DEF R
<1>1. /\ p.text \in Seq(Lines) /\ Len(p.text) = 7 /\ p.text[1] = O(1) /\ p.text[2] = a
      /\ p.text[3] = e /\ p.text[4] = b /\ p.text[5] = f /\ p.text[6] = line /\ p.text[7] = Exit
  <2> DEFINE first == O(1)
             last == Exit
             X == Lines
  <2>1. /\ first \in X /\ a \in X /\ e \in X /\ b \in X /\ f \in X /\ line \in X /\ last \in X
        /\ p.text = <<first, a, e, b, f, line, last>>
    BY PlainFields, OFields DEF Loads, TriesLine
  <2> HIDE DEF first, last, X
  <2>2. /\ p.text \in Seq(X) /\ Len(p.text) = 7 /\ p.text[1] = first /\ p.text[2] = a
        /\ p.text[3] = e /\ p.text[4] = b /\ p.text[5] = f /\ p.text[6] = line
        /\ p.text[7] = last
    BY <2>1
  <2>3. QED
    BY <2>2 DEF first, last, X
<1>2. PICK st : Starts(p.text, st)
  BY <1>1, StartsExist
<1>0. O(1).kind = "ins" /\ O(1).op = "other" /\ O(1).size = 1
  BY OFields
<1>3. \A l \in 1 .. 7 : p.text[l].kind = "ins" /\ p.text[l].op \notin Lacking("V2") \cup {Half.op}
  <2>1. m \notin Lacking("V2") /\ m # Half.op
    BY PlainFields DEF Tries
  <2>2. /\ a.op = "mov" /\ b.op = "mov" /\ e.op = "hor" /\ f.op = "hor" /\ line.op = m
        /\ a.kind = "ins" /\ b.kind = "ins" /\ e.kind = "ins" /\ f.kind = "ins" /\ line.kind = "ins"
    BY DEF Loads, TriesLine
  <2>3. {"mov", "hor", "exit", "other"} \cap (Lacking("V2") \cup {Half.op}) = {}
    BY PlainFields DEF Lacking, OldOps
  <2> DEFINE Good(l) == p.text[l].kind = "ins" /\ p.text[l].op \notin Lacking("V2") \cup {Half.op}
  <2>4. Good(1) /\ Good(2) /\ Good(3) /\ Good(4) /\ Good(5) /\ Good(6) /\ Good(7)
    <3> DEFINE bad == Lacking("V2") \cup {Half.op}
    <3>1. /\ m \notin bad /\ "mov" \notin bad /\ "hor" \notin bad /\ "exit" \notin bad
          /\ "other" \notin bad
      BY <2>1, <2>3
    <3> HIDE DEF bad
    <3>2. /\ p.text[1].op \notin bad /\ p.text[2].op \notin bad /\ p.text[3].op \notin bad
          /\ p.text[4].op \notin bad /\ p.text[5].op \notin bad /\ p.text[6].op \notin bad
          /\ p.text[7].op \notin bad
      BY <1>0, <1>1, <2>2, <3>1, PlainFields, ZenonT(40)
    <3>3. /\ p.text[1].kind = "ins" /\ p.text[2].kind = "ins" /\ p.text[3].kind = "ins"
          /\ p.text[4].kind = "ins" /\ p.text[5].kind = "ins" /\ p.text[6].kind = "ins"
          /\ p.text[7].kind = "ins"
      BY <1>0, <1>1, <2>2, PlainFields
    <3>4. QED
      BY <3>2, <3>3 DEF bad
  <2> HIDE DEF Good
  <2>5. \A l \in 1 .. 7 : Good(l)
    BY <2>4
  <2>6. QED
    BY <2>5 DEF Good
<1>4. \A v \in 0 .. U64Max : Unsigned(32, Immediate("mov", 32, Unsigned(32, v))) = v % 2 ^ W
  <2>1. SUFFICES ASSUME NEW v \in 0 .. U64Max
                 PROVE  Unsigned(32, Immediate("mov", 32, Unsigned(32, v))) = v % 2 ^ W
    OBVIOUS
  <2>2. Immediate("mov", 32, Unsigned(32, v)) = Unsigned(64, Unsigned(32, v))
    BY DEF Immediate
  <2> DEFINE k == 2 ^ W
             kk == 2 ^ (2 * W)
             u == v % k
  <2>3. /\ k \in Nat /\ k >= 16 /\ kk \in Nat /\ kk = k * k
        /\ \A z : Unsigned(64, z) = z % kk /\ Unsigned(32, z) = z % k
    BY Powers, Widths
  <2> HIDE DEF k, kk, u
  <2>4. u \in 0 .. k - 1 /\ k <= kk
    BY <2>3 DEF u
  <2>5. u % kk = u /\ u % k = u
    BY <2>3, <2>4
  <2>6. QED
    BY <2>2, <2>3, <2>5 DEF u, k
<1> HIDE DEF x, y
<1>5. Passes(a, Regs(0, Input), Regs(x, Input)) /\ Passes(b, Regs(d, Input), Regs(d, y))
  <2>1. "mov" \in Moves
    BY DEF Moves
  <2>2. Unsigned(32, Immediate("mov", 32, Unsigned(32, d))) = x
    BY <1>4 DEF x
  <2>3. Unsigned(32, Immediate("mov", 32, Unsigned(32, s))) = y
    BY <1>4 DEF y
  <2>4. Passes(a, Regs(0, Input), Regs(Unsigned(32, Immediate("mov", 32, Unsigned(32, d))), Input))
    <3> DEFINE v == Unsigned(32, d)
               dst == 0
               r0 == 0
               r1 == Input
    <3>1. dst \in 0 .. 1 /\ dst = 0 /\ Loads(a, "mov", 32, dst, v)
      OBVIOUS
    <3> HIDE DEF v, dst, r0, r1
    <3>2. Passes(a, Regs(r0, r1), Regs(Unsigned(32, Immediate("mov", 32, v)), r1))
      BY <2>1, <3>1, LoadPasses
    <3>3. QED
      BY <3>2 DEF v, r0, r1
  <2>5. Passes(b, Regs(d, Input), Regs(d, Unsigned(32, Immediate("mov", 32, Unsigned(32, s)))))
    BY <2>1, LoadPasses
  <2>6. QED
    BY <2>2, <2>3, <2>4, <2>5
<1>6. Passes(e, Regs(x, Input), Regs(d, Input)) /\ Passes(f, Regs(d, y), Regs(d, s))
  <2>1. Passes(e, Regs(d % 2 ^ W, Input), Regs(d, Input))
    BY HorPasses
  <2>2. Passes(f, Regs(d, s % 2 ^ W), Regs(d, s))
    BY HorPasses
  <2>3. QED
    BY <2>1, <2>2 DEF x, y
<1>7. Passes(line, Regs(d, s), Regs(R, s))
  BY TestPasses DEF R
<1>8. Passes(p.text[1], Regs(0, Input), Regs(0, Input))
  BY <1>0, <1>1 DEF Passes
<1>9. val[7][0] = R /\ val[1] = FirstRegs /\ \A l \in 1 .. 7 : DOMAIN val[l] = 0 .. 1
  BY RegsAre
<1>10. \A l \in 1 .. 7 - 1 : Passes(p.text[l], val[l], val[l + 1])
  <2>1. /\ Passes(p.text[1], val[1], val[2]) /\ Passes(p.text[2], val[2], val[3])
        /\ Passes(p.text[3], val[3], val[4]) /\ Passes(p.text[4], val[4], val[5])
        /\ Passes(p.text[5], val[5], val[6]) /\ Passes(p.text[6], val[6], val[7])
    BY <1>1, <1>5, <1>6, <1>7, <1>8
  <2> HIDE DEF val
  <2>2. QED
    BY <2>1
<1> HIDE DEF val
<1>11. Traced(p, st, val, 7)
  <2>1. p.text[7].op = "exit"
    BY <1>1, PlainFields
  <2> DEFINE n == 7
  <2>2. n \in 1 .. Len(p.text) /\ n = Len(p.text)
    BY <1>1
  <2>3. /\ \A l \in 1 .. n : p.text[l].kind = "ins" /\ p.text[l].op \notin Lacking(p.version) \cup {Half.op}
        /\ \A l \in 1 .. n : DOMAIN val[l] = 0 .. 1
        /\ \A l \in 1 .. n - 1 : Passes(p.text[l], val[l], val[l + 1])
        /\ val[1] = FirstRegs /\ p.text[n].op = "exit"
    BY <1>3, <1>9, <1>10, <2>1
  <2> HIDE DEF n
  <2>4. Traced(p, st, val, n)
    BY <1>1, <1>2, <2>2, <2>3 DEF Traced
  <2>5. QED
    BY <2>4 DEF n
<1>12. QED
  BY <1>1, <1>9, <1>11, PlainFields DEF Computed, R

(* The cases are tuples of what is tried.                                  *)
CaseOf(case, m, w, d, s) == case[1] = m /\ case[2] = w /\ case[3] = d /\ case[4] = s

LEMMA Concat ==
  ASSUME NEW X, NEW a \in Seq(X), NEW b \in Seq(X)
  PROVE  /\ a \o b \in Seq(X) /\ Len(a \o b) = Len(a) + Len(b)
         /\ \A l \in 1 .. Len(a) : (a \o b)[l] = a[l]
         /\ \A l \in 1 .. Len(b) : (a \o b)[Len(a) + l] = b[l]
  OBVIOUS

LEMMA TupleOfFour ==
  ASSUME NEW m, NEW w, NEW d, NEW s
  PROVE  <<m, w>> \o <<d, s>> = <<m, w, d, s>>
<1> DEFINE X == {m, w, d, s}
           a == <<m, w>>
           b == <<d, s>>
           c == a \o b
           e == <<m, w, d, s>>
<1>1. m \in X /\ w \in X /\ d \in X /\ s \in X
  OBVIOUS
<1>2. e = [i \in 1 .. 4 |-> e[i]]
  <2> HIDE DEF X
  <2>1. e \in Seq(X) /\ Len(e) = 4
    BY <1>1
  <2> HIDE DEF e
  <2>2. QED
    BY <2>1
<1>3. c = [i \in 1 .. 4 |-> c[i]] /\ c[1] = m /\ c[2] = w /\ c[3] = d /\ c[4] = s
  <2> HIDE DEF X
  <2>1. a \in Seq(X) /\ b \in Seq(X) /\ Len(a) = 2 /\ Len(b) = 2 /\ a[1] = m /\ a[2] = w /\ b[1] = d /\ b[2] = s
    BY <1>1
  <2> HIDE DEF a, b
  <2>a. a \in Seq(X) /\ b \in Seq(X)
    BY <2>1
  <2>2. Len(c) = Len(a) + Len(b) /\ c \in Seq(X)
    BY <2>a, Concat
  <2>3. \A i \in 1 .. Len(a) : c[i] = a[i]
    BY <2>a, Concat
  <2>4. \A i \in 1 .. Len(b) : c[Len(a) + i] = b[i]
    BY <2>a, Concat
  <2>5. c \in Seq(X) /\ Len(c) = 4 /\ c[1] = a[1] /\ c[2] = a[2] /\ c[2 + 1] = b[1] /\ c[2 + 2] = b[2]
    <3> HIDE DEF c
    <3>1. QED
      BY <2>1, <2>2, <2>3, <2>4
  <2> HIDE DEF c
  <2>6. QED
    BY <2>1, <2>2, <2>5
<1>4. e[1] = m /\ e[2] = w /\ e[3] = d /\ e[4] = s
  OBVIOUS
<1> HIDE DEF c, e
<1>5. \A i \in 1 .. 4 : c[i] = e[i]
  BY <1>3, <1>4
<1>6. c = e
  BY <1>2, <1>3, <1>5
<1>7. QED
  BY <1>6 DEF c, e

WithValues(op, d, s) == op \o <<d, s>>

LEMMA CaseTuples ==
  ASSUME NEW m, NEW w, NEW d, NEW s
  PROVE  /\ WithValues(<<m, w>>, d, s) = <<m, w, d, s>>
         /\ CaseOf(<<m, w, d, s>>, m, w, d, s)
<1>1. WithValues(<<m, w>>, d, s) = <<m, w, d, s>>
  BY TupleOfFour, Zenon DEF WithValues
<1>2. QED
  BY <1>1 DEF CaseOf

LEMMA CasesAre ==
  ASSUME NEW ops, NEW D, NEW S
  PROVE  \A case \in Cases(ops, D, S) : \E op \in ops, d \in D, s \in S : case = WithValues(op, d, s)
<1>1. Cases(ops, D, S) = {WithValues(op, d, s) : op \in ops, d \in D, s \in S}
  BY DEF Cases, WithValues
<1>2. QED
  BY <1>1

(* ops are pairs of M and V.                                               *)
Pairs(ops, M, V) == \A op \in ops : \E m \in M, w \in V : op = <<m, w>>

LEMMA CasesIn ==
  ASSUME NEW ops, NEW M, NEW V, NEW D, NEW S, Pairs(ops, M, V)
  PROVE  \A case \in Cases(ops, D, S) :
           \E m \in M, w \in V, d \in D, s \in S : case = <<m, w, d, s>>
<1>1. SUFFICES ASSUME NEW op \in ops, NEW d \in D, NEW s \in S
               PROVE  \E m \in M, w \in V : WithValues(op, d, s) = <<m, w, d, s>>
  BY CasesAre
<1>2. PICK m \in M, w \in V : op = <<m, w>>
  BY <1>1 DEF Pairs
<1>3. WithValues(op, d, s) = <<m, w, d, s>>
  <2>1. WithValues(<<m, w>>, d, s) = <<m, w, d, s>>
    BY CaseTuples, Zenon
  <2>2. QED
    BY <1>2, <2>1, Zenon
<1>4. QED
  BY <1>3

IsTried(version, case) ==
  /\ case # NoCase
  /\ \E m, w, d, s : Tries(version, m, w, d, s) /\ CaseOf(case, m, w, d, s)

LEMMA TriedIs ==
  ASSUME NEW version, NEW m, NEW w, NEW d, NEW s, Tries(version, m, w, d, s)
  PROVE  IsTried(version, <<m, w, d, s>>)
<1>1. <<m, w, d, s>> # NoCase
  BY DEF NoCase
<1>2. QED
  BY <1>1, CaseTuples DEF IsTried

(* The sets of cases contain nothing else than what is tried.              *)
LEMMA V0Tried == \A case \in V0Cases : IsTried("V0", case)
<1>1. SUFFICES ASSUME NEW case \in V0Cases PROVE IsTried("V0", case)
  OBVIOUS
<1>2. \A m \in OldOps : m \notin Lacking("V0")
  BY DEF OldOps, Lacking, PqrOps
<1>3. CASE case \in V0Products
  <2>1. SUFFICES ASSUME NEW w \in {32, 64}, NEW d \in {13, Minus(64, 13)}, NEW s \in {4, Minus(w, 4)},
                        case = <<"mul", w, d, s>>
                 PROVE  IsTried("V0", case)
    <3>1. ASSUME case \in Cases({<<"mul", 32>>, <<"mul", 64>>}, {13}, {4})
          PROVE  \E w \in {32, 64} : case = <<"mul", w, 13, 4>>
      <4>1. {<<"mul", 32>>, <<"mul", 64>>} = {"mul"} \X {32, 64}
        OBVIOUS
      <4>2. case \in Cases({"mul"} \X {32, 64}, {13}, {4})
        BY <3>1, <4>1
      <4>3. PICK m \in {"mul"}, w \in {32, 64}, d \in {13}, s \in {4} : case = <<m, w, d, s>>
        <5> DEFINE M == {"mul"}  V == {32, 64}  D == {13}  S == {4}
                   ops == M \X V
        <5>1. case \in Cases(ops, D, S) /\ Pairs(ops, M, V)
          BY <4>2 DEF Pairs
        <5> HIDE DEF M, V, D, S, ops
        <5>2. \E m \in M, w \in V, d \in D, s \in S : case = <<m, w, d, s>>
          BY <5>1, CasesIn
        <5>3. QED
          BY <5>2 DEF M, V, D, S
      <4>4. QED
        BY <4>3
    <3>2. ASSUME case \in Cases({<<"mul", 64>>}, {Minus(64, 13)}, {4, Minus(64, 4)})
          PROVE  \E s \in {4, Minus(64, 4)} : case = <<"mul", 64, Minus(64, 13), s>>
      <4> DEFINE M == {"mul"}  V == {64}  D == {Minus(64, 13)}  S == {4, Minus(64, 4)}
                 ops == {<<"mul", 64>>}
      <4>1. case \in Cases(ops, D, S) /\ Pairs(ops, M, V)
        BY <3>2 DEF Pairs
      <4> HIDE DEF M, V, D, S, ops
      <4>2. \E m \in M, w \in V, d \in D, s \in S : case = <<m, w, d, s>>
        BY <4>1, CasesIn
      <4>3. QED
        BY <4>2 DEF M, V, D, S
    <3>3. QED
      BY <1>3, <3>1, <3>2 DEF V0Products
  <2>2. Tries("V0", "mul", w, d, s)
    BY <1>2 DEF Tries, OldOps
  <2>3. QED
    BY <2>1, <2>2, TriedIs
<1>4. CASE case \in Cases({"div", "mod"} \X {32, 64}, {13, U64Max}, {4, U32Max})
             \ {<<"div", 64, U64Max, U32Max>>}
  <2>1. PICK m \in {"div", "mod"}, w \in {32, 64}, d \in {13, U64Max}, s \in {4, U32Max} :
          case = <<m, w, d, s>>
    <3> DEFINE M == {"div", "mod"}  V == {32, 64}  D == {13, U64Max}  S == {4, U32Max}
               ops == M \X V
    <3>1. case \in Cases(ops, D, S) /\ Pairs(ops, M, V)
      BY <1>4 DEF Pairs
    <3> HIDE DEF M, V, D, S, ops
    <3>2. \E m \in M, w \in V, d \in D, s \in S : case = <<m, w, d, s>>
      BY <3>1, CasesIn
    <3>3. QED
      BY <3>2 DEF M, V, D, S
  <2>2. ~ (m = "div" /\ w = 64 /\ d = U64Max /\ s = U32Max)
    BY <1>4, <2>1
  <2>3. Tries("V0", m, w, d, s)
    BY <1>2, <2>2 DEF Tries, OldOps
  <2>4. QED
    BY <2>1, <2>3, TriedIs
<1>5. QED
  BY <1>3, <1>4 DEF V0Cases

LEMMA V2Tried == \A case \in V2Cases : IsTried("V2", case)
<1>1. SUFFICES ASSUME NEW case \in V2Cases PROVE IsTried("V2", case)
  OBVIOUS
<1>2. \A m \in PqrOps : m \notin Lacking("V2")
  BY DEF OldOps, Lacking, PqrOps
<1> DEFINE A == ({"udiv", "urem"} \X {32, 64}) \cup {<<"uhmul", 64>>}
           B == ({"lmul", "sdiv", "srem"} \X {32, 64}) \cup {<<"shmul", 64>>}
<1>3. \/ case \in Cases(A, {13, U64Max}, {4, U32Max})
      \/ \E op \in B : case \in Cases({op}, {13, Minus(64, 13)}, {4, Minus(op[2], 4)})
  BY SMTT(30), ZenonT(40) DEF V2Cases
<1>4. CASE case \in Cases(A, {13, U64Max}, {4, U32Max})
  <2>1. PICK op \in A, d \in {13, U64Max}, s \in {4, U32Max} : case = WithValues(op, d, s)
    <3> DEFINE D == {13, U64Max}  S == {4, U32Max}
    <3>1. case \in Cases(A, D, S)
      BY <1>4
    <3> HIDE DEF A, D, S
    <3>2. \E op \in A, d \in D, s \in S : case = WithValues(op, d, s)
      BY <3>1, CasesAre
    <3>3. QED
      BY <3>2 DEF D, S
  <2>2. PICK m, w : /\ op = <<m, w>> /\ m \in {"udiv", "urem", "uhmul"} /\ w \in {32, 64}
                    /\ (m = "uhmul" => w = 64)
    BY DEF A
  <2>3. case = <<m, w, d, s>>
    <3>1. WithValues(<<m, w>>, d, s) = <<m, w, d, s>>
      BY CaseTuples, Zenon
    <3>2. QED
      BY <2>1, <2>2, <3>1, Zenon
  <2>4. Tries("V2", m, w, d, s)
    BY <1>2, <2>2 DEF Tries, PqrOps
  <2>5. QED
    BY <2>3, <2>4, TriedIs
<1>5. CASE \E op \in B : case \in Cases({op}, {13, Minus(64, 13)}, {4, Minus(op[2], 4)})
  <2>1. PICK op \in B : case \in Cases({op}, {13, Minus(64, 13)}, {4, Minus(op[2], 4)})
    BY <1>5
  <2>2. PICK m, w : op = <<m, w>> /\ m \in {"lmul", "sdiv", "srem", "shmul"} /\ w \in {32, 64}
    BY DEF B
  <2>3. case \in Cases({<<m, w>>}, {13, Minus(64, 13)}, {4, Minus(w, 4)})
    BY <2>1, <2>2
  <2>4. PICK d \in {13, Minus(64, 13)}, s \in {4, Minus(w, 4)} : case = <<m, w, d, s>>
    <3> DEFINE M == {m}  V == {w}  D == {13, Minus(64, 13)}  S == {4, Minus(w, 4)}
               ops == {<<m, w>>}
    <3>1. /\ case \in Cases(ops, D, S)
          /\ Pairs(ops, M, V)
      BY <2>3 DEF Pairs
    <3> HIDE DEF M, V, D, S, ops
    <3>2. \E x \in M, y \in V, d \in D, s \in S : case = <<x, y, d, s>>
      BY <3>1, CasesIn
    <3>3. QED
      BY <3>2 DEF M, V, D, S
  <2>5. Tries("V2", m, w, d, s)
    BY <1>2, <2>2 DEF Tries, PqrOps
  <2>6. QED
    BY <2>4, <2>5, TriedIs
<1>6. QED
  BY <1>3, <1>4, <1>5

(* Both programs of a case compute what the case is about.                 *)
LEMMA TriedValues ==
  ASSUME NEW version, NEW m, NEW w, NEW d, NEW s, Tries(version, m, w, d, s)
  PROVE  d \in 0 .. U64Max /\ s \in 0 .. U64Max
<1>1. 13 \in 0 .. U64Max /\ 4 \in 0 .. U64Max
  BY Powers DEF U64Max
<1>2. Minus(64, 13) \in 0 .. U64Max /\ Minus(32, 4) \in 0 .. U64Max /\ Minus(64, 4) \in 0 .. U64Max
  BY Remainders
<1>3. U32Max \in 0 .. U64Max /\ U64Max \in 0 .. U64Max
  BY Remainders
<1>4. d \in {13, U64Max, Minus(64, 13)} /\ s \in {4, U32Max, Minus(32, 4), Minus(64, 4)}
  BY DEF Tries
<1>5. QED
  BY <1>1, <1>2, <1>3, <1>4

TriesCase(p, case, version, load) ==
  /\ p.version = version /\ p.says = "runs" /\ p.case = case
  /\ \E line \in Variants(case) : p.text = load \o <<line, Exit>>

LEMMA TryingFields ==
  ASSUME NEW case, NEW version, NEW load, NEW p \in Trying(case, version, load)
  PROVE  TriesCase(p, case, version, load)
<1>1. PICK line \in Variants(case) :
        p = [Seed(version, "runs", 0, load \o <<line, Exit>>) EXCEPT !.case = case]
  BY DEF Trying
<1> DEFINE text == load \o <<line, Exit>>
<1>2. p = [Seed(version, "runs", 0, text) EXCEPT !.case = case]
  BY <1>1
<1> HIDE DEF text
<1>3. p.version = version /\ p.says = "runs" /\ p.case = case /\ p.text = text
  BY <1>2 DEF Seed
<1>4. QED
  BY <1>3, Zenon DEF text, TriesCase

SaysCase(p) ==
  /\ p.says = "runs" /\ p.case # NoCase
  /\ Computed(p, Result(p.case[1], p.case[2], p.case[3], p.case[4]))

LEMMA LoadArguments ==
  ASSUME NEW v \in 0 .. U64Max
  PROVE  Signed(64, v) \in Int /\ Unsigned(32, v) \in Int /\ High(v) \in Int
<1>1. Signed(64, v) \in Int /\ Unsigned(32, v) \in Int
  <2>1. v \in Int
    OBVIOUS
  <2>2. QED
    BY <2>1, Widths, Powers
<1>2. High(v) \in Int
  BY Halves, Powers
<1>3. QED
  BY <1>1, <1>2

LEMMA CaseIs ==
  ASSUME NEW case, NEW m, NEW w, NEW d, NEW s, CaseOf(case, m, w, d, s)
  PROVE  /\ Variants(case) = {AluImm(m, w, 0, Signed(32, s)), AluReg(m, w, 0, 1)}
         /\ LoadV0(case) = <<AluImm("lddw", 64, 0, Signed(64, d)), AluImm("lddw", 64, 1, Signed(64, s))>>
         /\ LoadV2(case) = <<O(1), AluImm("mov", 32, 0, Unsigned(32, d)), AluImm("hor", 64, 0, High(d)),
                             AluImm("mov", 32, 1, Unsigned(32, s)), AluImm("hor", 64, 1, High(s))>>
<1>1. case[1] = m /\ case[2] = w /\ case[3] = d /\ case[4] = s
  BY DEF CaseOf
<1>2. QED
  BY <1>1, Zenon DEF Variants, LoadV0, LoadV2

(* The programs of a case of V0, and of one of V2.                         *)
LEMMA V0Computes ==
  ASSUME NEW case, IsTried("V0", case), NEW p \in Trying(case, "V0", LoadV0(case))
  PROVE  SaysCase(p)
<1>1. PICK m, w, d, s : Tries("V0", m, w, d, s) /\ CaseOf(case, m, w, d, s)
  BY DEF IsTried
<1>0. case # NoCase
  BY DEF IsTried
<1>2. d \in 0 .. U64Max /\ s \in 0 .. U64Max
  BY <1>1, TriedValues
<1>3. /\ p.version = "V0" /\ p.says = "runs" /\ p.case = case
      /\ \E line \in Variants(case) : p.text = LoadV0(case) \o <<line, Exit>>
  <2> DEFINE load == LoadV0(case)
             version == "V0"
  <2>1. p \in Trying(case, version, load)
    OBVIOUS
  <2> HIDE DEF load, version
  <2>2. TriesCase(p, case, version, load)
    BY <2>1, TryingFields
  <2>3. QED
    BY <2>2, Zenon DEF load, version, TriesCase
<1>4. PICK line \in Variants(case) : p.text = LoadV0(case) \o <<line, Exit>>
  BY <1>3
<1> DEFINE a == AluImm("lddw", 64, 0, Signed(64, d))
           b == AluImm("lddw", 64, 1, Signed(64, s))
           last == Exit
<1>5. line \in {AluImm(m, w, 0, Signed(32, s)), AluReg(m, w, 0, 1)} /\ LoadV0(case) = <<a, b>>
  BY <1>1, CaseIs
<1>6. TriesLine(line, m, w, s)
  BY <1>1, <1>5, TestLines
<1>7. Loads(a, "lddw", 64, 0, Signed(64, d)) /\ Loads(b, "lddw", 64, 1, Signed(64, s))
  <2>1. "lddw" \in OpNames
    BY DEF OpNames, Ops, Moves
  <2>2. Signed(64, d) \in Int /\ Signed(64, s) \in Int
    BY <1>2, LoadArguments
  <2>3. QED
    BY <2>1, <2>2, ImmLoads
<1>8. p.text = <<a, b, line, last>>
  <2> HIDE DEF a, b, last
  <2>1. <<a, b>> \o <<line, last>> = <<a, b, line, last>>
    BY TupleOfFour
  <2>2. p.text = <<a, b>> \o <<line, last>>
    BY <1>4, <1>5, Zenon DEF last
  <2>3. QED
    BY <2>1, <2>2, Zenon
<1>9. Computed(p, Result(m, w, d, s))
  BY <1>1, <1>2, <1>3, <1>6, <1>7, <1>8, TracedV0
<1>10. QED
  BY <1>0, <1>1, <1>3, <1>9 DEF SaysCase, CaseOf

(* Five lines and two in one.                                              *)
Framed7(x, y) == x \o y

LEMMA FiveAndTwo ==
  ASSUME NEW X, NEW a \in X, NEW b \in X, NEW c \in X, NEW d \in X, NEW e \in X, NEW f \in X,
         NEW g \in X
  PROVE  <<a, b, c, d, e>> \o <<f, g>> = <<a, b, c, d, e, f, g>>
<1> DEFINE x == <<a, b, c, d, e>>
           y == <<f, g>>
           z == Framed7(x, y)
           t == <<a, b, c, d, e, f, g>>
<1>1. x \in Seq(X) /\ y \in Seq(X) /\ Len(x) = 5 /\ Len(y) = 2
  OBVIOUS
<1>2. /\ x[1] = a /\ x[2] = b /\ x[3] = c /\ x[4] = d /\ x[5] = e /\ y[1] = f /\ y[2] = g
  OBVIOUS
<1> HIDE DEF x, y
<1>3. /\ z \in Seq(X) /\ Len(z) = Len(x) + Len(y)
      /\ \A l \in 1 .. Len(x) : z[l] = x[l]
      /\ \A l \in 1 .. Len(y) : z[Len(x) + l] = y[l]
  <2>1. x \in Seq(X) /\ y \in Seq(X)
    BY <1>1
  <2>2. QED
    BY <2>1, Concat DEF Framed7
<1> HIDE DEF z
<1>4. /\ Len(z) = 7 /\ z[1] = a /\ z[2] = b /\ z[3] = c /\ z[4] = d /\ z[5] = e
      /\ z[5 + 1] = f /\ z[5 + 2] = g
  BY <1>1, <1>2, <1>3
<1>5. t \in Seq(X) /\ Len(t) = 7 /\ t[1] = a /\ t[2] = b /\ t[3] = c /\ t[4] = d /\ t[5] = e
      /\ t[6] = f /\ t[7] = g
  OBVIOUS
<1> HIDE DEF t
<1>6. \A i \in 1 .. 7 : z[i] = t[i]
  BY <1>4, <1>5
<1>7. z = [i \in 1 .. 7 |-> z[i]] /\ t = [i \in 1 .. 7 |-> t[i]]
  <2>1. z \in Seq(X) /\ Len(z) = 7
    BY <1>3, <1>4
  <2>2. z = [i \in 1 .. 7 |-> z[i]]
    BY <2>1
  <2>3. QED
    BY <1>5, <2>2
<1>8. z = t
  BY <1>6, <1>7
<1>9. QED
  BY <1>8 DEF z, t, x, y, Framed7

LEMMA V2Computes ==
  ASSUME NEW case, IsTried("V2", case), NEW p \in Trying(case, "V2", LoadV2(case))
  PROVE  SaysCase(p)
<1>1. PICK m, w, d, s : Tries("V2", m, w, d, s) /\ CaseOf(case, m, w, d, s)
  BY DEF IsTried
<1>0. case # NoCase
  BY DEF IsTried
<1>2. d \in 0 .. U64Max /\ s \in 0 .. U64Max
  BY <1>1, TriedValues
<1>3. /\ p.version = "V2" /\ p.says = "runs" /\ p.case = case
      /\ \E line \in Variants(case) : p.text = LoadV2(case) \o <<line, Exit>>
  <2> DEFINE load == LoadV2(case)
             version == "V2"
  <2>1. p \in Trying(case, version, load)
    OBVIOUS
  <2> HIDE DEF load, version
  <2>2. TriesCase(p, case, version, load)
    BY <2>1, TryingFields
  <2>3. QED
    BY <2>2, Zenon DEF load, version, TriesCase
<1>4. PICK line \in Variants(case) : p.text = LoadV2(case) \o <<line, Exit>>
  BY <1>3
<1> DEFINE first == O(1)
           a == AluImm("mov", 32, 0, Unsigned(32, d))
           e == AluImm("hor", 64, 0, High(d))
           b == AluImm("mov", 32, 1, Unsigned(32, s))
           f == AluImm("hor", 64, 1, High(s))
           last == Exit
<1>5. line \in {AluImm(m, w, 0, Signed(32, s)), AluReg(m, w, 0, 1)} /\ LoadV2(case) = <<first, a, e, b, f>>
  BY <1>1, CaseIs
<1>6. TriesLine(line, m, w, s)
  BY <1>1, <1>5, TestLines
<1>7. /\ Loads(a, "mov", 32, 0, Unsigned(32, d)) /\ Loads(e, "hor", 64, 0, High(d))
      /\ Loads(b, "mov", 32, 1, Unsigned(32, s)) /\ Loads(f, "hor", 64, 1, High(s))
  <2>1. "mov" \in OpNames /\ "hor" \in OpNames
    BY DEF OpNames, Ops
  <2>2. Unsigned(32, d) \in Int /\ High(d) \in Int /\ Unsigned(32, s) \in Int /\ High(s) \in Int
    BY <1>2, LoadArguments
  <2>3. QED
    BY <2>1, <2>2, ImmLoads
<1>8. p.text = <<first, a, e, b, f, line, last>>
  <2>1. /\ first \in Lines /\ a \in Lines /\ e \in Lines /\ b \in Lines /\ f \in Lines
        /\ line \in Lines /\ last \in Lines
    BY <1>6, <1>7, PlainFields, OFields, ZenonT(40) DEF Loads, TriesLine
  <2> HIDE DEF first, a, e, b, f, last
  <2>2. <<first, a, e, b, f>> \o <<line, last>> = <<first, a, e, b, f, line, last>>
    <3> DEFINE X == Lines
    <3>1. /\ first \in X /\ a \in X /\ e \in X /\ b \in X /\ f \in X
          /\ line \in X /\ last \in X
      BY <2>1
    <3> HIDE DEF X
    <3>2. QED
      BY <3>1, FiveAndTwo
  <2>3. p.text = <<first, a, e, b, f>> \o <<line, last>>
    BY <1>4, <1>5, Zenon DEF last
  <2>4. QED
    BY <2>2, <2>3, Zenon
<1>9. Computed(p, Result(m, w, d, s))
  BY <1>1, <1>2, <1>3, <1>6, <1>7, <1>8, TracedV2
<1>10. QED
  BY <1>0, <1>1, <1>3, <1>9 DEF SaysCase, CaseOf

LEMMA CasesSay == \A p \in GenV0Pqr \cup GenV2Pqr : SaysCase(p)
<1>1. ASSUME NEW p \in GenV0Pqr PROVE SaysCase(p)
  <2>1. PICK case \in V0Cases : p \in Trying(case, "V0", LoadV0(case))
    BY DEF GenV0Pqr
  <2>2. IsTried("V0", case)
    BY V0Tried
  <2>3. QED
    BY <2>1, <2>2, V0Computes
<1>2. ASSUME NEW p \in GenV2Pqr PROVE SaysCase(p)
  <2>1. PICK case \in V2Cases : p \in Trying(case, "V2", LoadV2(case))
    BY DEF GenV2Pqr
  <2>2. IsTried("V2", case)
    BY V2Tried
  <2>3. QED
    BY <2>1, <2>2, V2Computes
<1>3. QED
  BY <1>1, <1>2

(* The other seeds try no case.                                            *)
Claims == {"runs", "loops", "fails", "memory", "nothing"}

IsSeed(p) == \E version, says, mem, shape : says \in Claims /\ p = Seed(version, says, mem, shape)

Blameless(p) == IsSeed(p) /\ p.says # "fails"

(* What seeds say of themselves.                                           *)
LEMMA SeedsAre ==
  \A version, mem, shape :
    /\ Blameless(Seed(version, "runs", mem, shape)) /\ Blameless(Seed(version, "loops", mem, shape))
    /\ Blameless(Seed(version, "memory", mem, shape))
    /\ Blameless(Seed(version, "nothing", mem, shape)) /\ IsSeed(Seed(version, "fails", mem, shape))
<1>1. SUFFICES ASSUME NEW version, NEW mem, NEW shape
      PROVE  /\ Blameless(Seed(version, "runs", mem, shape)) /\ Blameless(Seed(version, "loops", mem, shape))
             /\ Blameless(Seed(version, "memory", mem, shape))
             /\ Blameless(Seed(version, "nothing", mem, shape)) /\ IsSeed(Seed(version, "fails", mem, shape))
  OBVIOUS
<1>2. \A says \in Claims : IsSeed(Seed(version, says, mem, shape))
  BY DEF IsSeed
<1>3. \A says : Seed(version, says, mem, shape).says = says
  BY SeedFields
<1>4. QED
  BY <1>2, <1>3 DEF Claims, Blameless

LEMMA SeedsTryNothing == \A p : IsSeed(p) => p.case = NoCase /\ p.says \in Claims
  BY SeedFields DEF IsSeed

LEMMA StressSeeds ==
  \A version, p : p \in StressPrograms(version) \cup MemoryPatterns(version) => Blameless(p)
<1>1. SUFFICES ASSUME NEW version, NEW p, p \in StressPrograms(version) \cup MemoryPatterns(version)
               PROVE  Blameless(p)
  OBVIOUS
<1>2. ASSUME p \in RegisterPressure(version) PROVE Blameless(p)
  <2> DEFINE ops == {Plain}
                    \cup {AluImm(op, 64, Other, s) : op \in {"lsh", "rsh", "arsh"},
                                                      s \in {0, Bits(64) - 1}}
                    \cup OldMul(version)
             whole(body) == <<O(10)>> \o body \o <<Exit>>
  <2>1. RegisterPressure(version) = {Seed(version, "runs", 0, whole(body)) : body \in UpTo(MaxOps, ops)}
    BY DEF RegisterPressure
  <2> HIDE DEF ops, whole
  <2>2. QED
    BY <1>2, <2>1, SeedsAre
<1>3. ASSUME p \in MeteringStress(version) PROVE Blameless(p)
  <2> DEFINE named == IF UsesPqr(version) THEN {"lmul", "udiv", "urem"} ELSE {"mul", "div", "mod"}
             ops == {Plain}
                    \cup {AluReg(op, 64, Other, Other) : op \in {o \in named : ~ ByImmediate(o)}}
                    \cup {AluImm(op, 64, Other, v) :
                            op \in {o \in named : ByImmediate(o)}, v \in Divisors}
             whole(body) == <<O(6)>> \o body \o <<Exit>>
  <2>1. MeteringStress(version) = {Seed(version, "runs", 0, whole(body)) : body \in UpTo(MaxOps, ops)}
    BY DEF MeteringStress
  <2> HIDE DEF ops, whole
  <2>2. QED
    BY <1>3, <2>1, SeedsAre
<1>4. ASSUME p \in JumpBackpatch(version) PROVE Blameless(p)
  <2> DEFINE whole(n, insns, last) ==
               [k \in 1 .. n |-> Call(Function(k - 1))] \o <<O(1), Exit>>
               \o FlattenSeq([k \in 1 .. n |->
                    <<Label(Function(k - 1)), O(insns - 1), last, Exit>>])
  <2>1. JumpBackpatch(version) =
          {Seed(version, "runs", 0, whole(n, insns, last)) :
             n \in 3 .. 8, insns \in 3 .. 10, last \in {Plain} \cup MulImm(version)}
    BY DEF JumpBackpatch
  <2> HIDE DEF whole
  <2>2. QED
    BY <1>4, <2>1, SeedsAre
<1>5. ASSUME p \in DeepCalls(version) PROVE Blameless(p)
  <2> DEFINE whole(n, work, last) ==
               <<O(4), Call(Function(0)), O(1), Exit>>
               \o FlattenSeq([k \in 1 .. n |-> DeepFunction(k, n, work, last)])
  <2>1. DeepCalls(version) =
          {Seed(version, "runs", 0, whole(n, work, last)) :
             n \in 3 .. 6, work \in 2 .. 5, last \in {Plain} \cup MulImm(version)}
    BY DEF DeepCalls
  <2> HIDE DEF whole
  <2>2. QED
    BY <1>5, <2>1, SeedsAre
<1>6. ASSUME p \in ArithmeticEdge(version) PROVE Blameless(p)
  <2> DEFINE whole(v) ==
               <<O(10)>>
               \o ShiftAll(64, <<0, 1, Bits(32) - 1, Bits(32), Bits(64) - 1>>)
               \o ShiftAll(32, <<0, 1, Bits(32) - 1>>)
               \o OnceEach(IF UsesPqr(version) THEN <<"lmul", "udiv", "urem", "sdiv", "srem">>
                                               ELSE <<"mul", "div", "mod">>, v)
               \o <<Exit>>
  <2>1. ArithmeticEdge(version) = {Seed(version, "runs", 0, whole(v)) : v \in Divisors}
    BY DEF ArithmeticEdge
  <2> HIDE DEF whole
  <2>2. QED
    BY <1>6, <2>1, SeedsAre
<1>7. ASSUME p \in MemoryPatterns(version) PROVE Blameless(p)
  <2> DEFINE accesses(mem_size) ==
               UNION {{MemR1(off, size, dst) : off \in Offsets(mem_size, size),
                                               dst \in {Other, 1}} : size \in {1, 2, 4, 8}}
             whole(body) == body \o <<O(1), Exit>>
  <2>1. MemoryPatterns(version) =
          UNION {{Seed(version, "memory", mem_size, whole(body)) :
                    body \in UpTo(MaxOps, accesses(mem_size))} : mem_size \in MemSizes}
    BY DEF MemoryPatterns
  <2> HIDE DEF accesses, whole
  <2>2. QED
    BY <1>7, <2>1, SeedsAre
<1>8. QED
  BY <1>1, <1>2, <1>3, <1>4, <1>5, <1>6, <1>7 DEF StressPrograms

(* The corpus, but for the sets with seeds that fail.                      *)
LEMMA CorpusSeeds ==
  \A p \in (GeneralCorpus
            \ (GenLdxStxVariants \cup GenStackCalls \cup GenInstructionMeter \cup GenCallxOther
                \cup GenV0Specific))
           \cup Demos :
    Blameless(p)
<1>a. \A shape : Blameless(Runs(shape)) /\ Blameless(Unclaimed(shape))
  BY SeedsAre DEF Runs, Unclaimed
<1>1. \A p \in GenMov \cup GenBounce \cup GenAddSub \cup GenLogic \cup GenShifts \cup GenFarJumps : Blameless(p)
  BY <1>a DEF GenMov, GenBounce, GenAddSub, GenLogic, GenShifts, GenFarJumps
<1>2. \A p \in GenLmul128 \cup GenByteswap \cup GenHor64 : Blameless(p)
  <2>1. \A p \in GenLmul128 : Blameless(p)
    BY SeedsAre, Zenon DEF GenLmul128
  <2>2. \A p \in GenByteswap : Blameless(p)
    BY SeedsAre DEF GenByteswap
  <2>3. \A p \in GenHor64 : Blameless(p)
    BY SeedsAre, Zenon DEF GenHor64
  <2>4. QED
    BY <2>1, <2>2, <2>3
<1>b. \A p \in GenMemory : Blameless(p)
  <2> DEFINE x(size) == <<O(1), Mem(2, size), Exit>>
             y(size) == <<O(1), Mem(2, size), Mem(2, 8), Exit>>
             z(size) == <<O(IF size = 8 THEN 4 ELSE 2), Mem(2, size), Mem(2, size), Exit>>
  <2>1. GenMemory = UNION {{Seed(version, "runs", size + 4, x(size)), Seed(version, "runs", 12, y(size)),
                            Seed(version, "runs", size + 4, z(size))} :
                           version \in {"V0", "V4"}, size \in Sizes}
    BY DEF GenMemory
  <2> HIDE DEF x, y, z
  <2>2. QED
    BY <2>1, SeedsAre
<1>3. \A p \in GenLdxAll \cup GenStxAll \cup GenPrograms : Blameless(p)
  BY SeedsAre DEF GenLdxAll, GenStxAll, GenPrograms
<1>4. \A p \in GenExitsJumps : Blameless(p)
  BY <1>a, SeedsAre DEF GenExitsJumps
<1>5. \A p \in GenFarJumps : Blameless(p)
  BY <1>a DEF GenFarJumps
<1>8. \A p \in Demos : Blameless(p)
  BY <1>a, SeedsAre DEF Demos
<1>9. QED
  BY <1>1, <1>2, <1>b, <1>3, <1>4, <1>5, <1>8 DEF GeneralCorpus

LEMMA MixedSeeds ==
  \A p \in GenLdxStxVariants \cup GenStackCalls \cup GenInstructionMeter \cup GenCallxOther
           \cup GenV0Specific :
    IsSeed(p)
<1>a. \A shape : IsSeed(Runs(shape)) /\ IsSeed(Fails(shape)) /\ IsSeed(Unclaimed(shape))
  BY SeedsAre DEF Runs, Fails, Unclaimed, Blameless
<1>b. \A version, mem, shape : /\ IsSeed(Seed(version, "runs", mem, shape))
                              /\ IsSeed(Seed(version, "fails", mem, shape))
                              /\ IsSeed(Seed(version, "nothing", mem, shape))
  BY SeedsAre DEF Blameless
<1>1. \A p \in GenLdxStxVariants : IsSeed(p)
  BY <1>b DEF GenLdxStxVariants
<1>2. \A p \in GenStackCalls : IsSeed(p)
  BY <1>a, <1>b DEF GenStackCalls
<1>3. \A p \in GenInstructionMeter \cup GenCallxOther : IsSeed(p)
  BY <1>a DEF GenInstructionMeter, GenCallxOther
<1>4. \A p \in GenByteswap : IsSeed(p)
  BY <1>b DEF GenByteswap
<1>5. \A p \in GenV0Specific : IsSeed(p)
  BY <1>a, <1>b, <1>4 DEF GenV0Specific, V0Plain, V0LddwCallx, V0ByZero
<1>6. QED
  BY <1>1, <1>2, <1>3, <1>5

LEMMA OtherCases ==
  ASSUME NEW p \in AllPrograms, p \notin GenV0Pqr \cup GenV2Pqr
  PROVE  p.case = NoCase /\ p.says \in Claims
<1>1. \A q \in GenDivzero \cup GenDivoverflow : IsSeed(q)
  BY SeedsAre DEF GenDivzero, GenDivoverflow
<1>2. IsSeed(p)
  BY <1>1, StressSeeds, CorpusSeeds, MixedSeeds DEF AllPrograms, PqrPrograms, Blameless
<1>3. QED
  BY <1>2, SeedsTryNothing

-----------------------------------------------------------------------------
(* The theorems.                                                           *)

(* The inductive invariant: the seed is one of those written, and whatever *)
(* its certificate or its trace says of the way through its text holds.    *)
SeedInv == prog \in AllPrograms /\ CertifiedInv /\ TracedInv

(* SeedInv is inductive.                                                   *)
LEMMA SeedInvStarts == Init => SeedInv
  BY CertifiedStarts, TracedStarts DEF SeedInv, Init

LEMMA ProgIsKept == [Next]_vars => UNCHANGED prog
  BY DEF Next, vars, LeaveText, Unsupported, Unresolved, DataStep, Branch, Return, DoCall, Access,
     MoveStep, AluStep, Compute, Stop, Goto

LEMMA SeedInvKept == SeedInv /\ [Next]_vars => SeedInv'
<1>1. SUFFICES ASSUME SeedInv, [Next]_vars PROVE SeedInv'
  OBVIOUS
<1>2. CertifiedInv /\ TracedInv /\ prog \in AllPrograms
  BY <1>1 DEF SeedInv
<1>3. CertifiedInv'
  BY <1>1, <1>2, CertifiedKept
<1>4. TracedInv'
  BY <1>1, <1>2, TracedKept
<1>5. prog' = prog
  BY <1>1, ProgIsKept
<1>6. QED
  BY <1>2, <1>3, <1>4, <1>5 DEF SeedInv

LEMMA SeedInvHolds == Spec => []SeedInv
  BY SeedInvStarts, SeedInvKept, PTL DEF Spec

(* Where a program of a case is.                                           *)
LEMMA OnCase ==
  ASSUME SeedInv, prog \in GenV0Pqr \cup GenV2Pqr
  PROVE  /\ \E st, val, n : Traced(prog, st, val, n) /\ OnTrace(st, val, n) /\ prog.text[n].op = "exit"
         /\ status \notin Faults
         /\ status = "exited" =>
              regs[0] = Result(prog.case[1], prog.case[2], prog.case[3], prog.case[4])
<1> DEFINE R == Result(prog.case[1], prog.case[2], prog.case[3], prog.case[4])
<1>1. Computed(prog, R)
  BY CasesSay DEF SaysCase
<1> HIDE DEF R
<1>2. PICK st, val, n : Traced(prog, st, val, n) /\ prog.text[n].op = "exit" /\ val[n][0] = R
  BY <1>1 DEF Computed
<1>3. OnTrace(st, val, n)
  BY <1>2 DEF SeedInv, TracedInv
<1>4. PICK l \in 1 .. n :
        /\ pc = st[l] /\ regs = val[l]
        /\ \/ status = "running"
           \/ l = n /\ prog.text[n].op = "exit" /\ status = "exited"
           \/ l = n /\ Stuck(prog.text[n], val[n]) /\ status \in {"by zero", "overflow"}
  BY <1>3 DEF OnTrace
<1>5. ~ Stuck(prog.text[n], val[n])
  BY <1>2 DEF Stuck, Computes, Ops, OldOps, PqrOps, Shifts
<1>6. status = "running" \/ (l = n /\ status = "exited")
  BY <1>4, <1>5
<1>7. status \notin Faults
  BY <1>6 DEF Faults
<1>8. status = "exited" => regs[0] = R
  BY <1>2, <1>4, <1>6
<1>9. QED
  BY <1>2, <1>3, <1>7, <1>8 DEF R

(* Nothing stops a seed but what its name announces, in any text that the  *)
(* templates may write: jumps land in the text, accesses in the memory and *)
(* operations have their divisors and their versions                       *)
(* (gen_corpus.rs:679-1034, gen_jit_stress.rs, gen_pqr.rs:42-63).          *)
THEOREM SeedsStopAsNamed == Spec => []FaultsOnlyAsNamed
<1>1. SeedInv => FaultsOnlyAsNamed
  <2>1. SUFFICES ASSUME SeedInv PROVE FaultsOnlyAsNamed
    OBVIOUS
  <2>2. CASE prog \in GenV0Pqr \cup GenV2Pqr
    BY <2>1, <2>2, OnCase DEF FaultsOnlyAsNamed
  <2>3. CASE prog \notin GenV0Pqr \cup GenV2Pqr
    <3>1. prog \in AllPrograms /\ CertifiedInv
      BY <2>1 DEF SeedInv
    <3>2. Fit(prog) /\ prog.says \in Claims
      BY <2>3, <3>1, AllButCasesFit, OtherCases
    <3>3. CASE prog.says \in {"runs", "loops", "memory"}
      <4>1. PICK st, lev : Certified(prog, st, lev)
        BY <3>2, <3>3 DEF Fit, Certifiable
      <4>2. Announced(status)
        BY <3>1, <4>1 DEF CertifiedInv, OnCourse
      <4>3. QED
        BY <4>2 DEF Announced, FaultsOnlyAsNamed
    <3>4. QED
      BY <3>2, <3>3 DEF Claims, FaultsOnlyAsNamed
  <2>4. QED
    BY <2>2, <2>3
<1>2. QED
  BY <1>1, SeedInvHolds, PTL

(* Both programs of every case compute what the operation gives on the     *)
(* case's two values, for every width of the values (gen_pqr.rs:11-66,     *)
(* 70-149).                                                                *)
THEOREM CasesComputeTheirResult == Spec => []CasesCompute
<1>1. SeedInv => CasesCompute
  <2>1. SUFFICES ASSUME SeedInv, prog.case # NoCase PROVE CasesCompute
    BY DEF CasesCompute
  <2>2. prog \in GenV0Pqr \cup GenV2Pqr
    BY <2>1, OtherCases DEF SeedInv
  <2>3. QED
    BY <2>1, <2>2, OnCase DEF CasesCompute
<1>2. QED
  BY <1>1, SeedInvHolds, PTL

(* A function is entered at its head and by a call, and a call leads to a  *)
(* head, however many functions a template writes and however long they    *)
(* are (gen_corpus.rs:784-795, 923-941, 1369-1379; gen_jit_stress.rs:130-  *)
(* 201).                                                                   *)
THEOREM CallsEnterHeads == Spec => FunctionsEnteredAtHead
<1>1. ASSUME SeedInv, Next, prog.says \in {"runs", "loops"}, pc' # pc
      PROVE  pc' \in HeadSlots <=> Here.op \in {"call", "callx"}
  <2>1. CASE prog \in GenV0Pqr \cup GenV2Pqr
    <3>1. PICK st, val, n : /\ Traced(prog, st, val, n) /\ OnTrace(st, val, n)
                            /\ prog.text[n].op = "exit"
      BY <1>1, <2>1, OnCase
    <3>2. HeadSlots = {}
      <4>1. prog.text \in Seq(Lines) /\ Starts(prog.text, st) /\ \A l \in 1 .. Len(prog.text) : prog.text[l].kind = "ins"
        BY <3>1 DEF Traced
      <4>2. {l \in DOMAIN prog.text : prog.text[l].kind = "label"} = {}
        BY <4>1
      <4>3. Heads(prog.text) = {}
        <5>1. prog.text \in Seq(Lines) /\ Starts(prog.text, st)
          BY <4>1
        <5>2. QED
          BY <4>2, <5>1, HeadsOfText
      <4>4. QED
        BY <4>3 DEF HeadSlots
    <3>3. PICK l \in 1 .. n : pc = st[l]
      BY <3>1 DEF OnTrace
    <3>4. Here.op = prog.text[l].op
      BY <3>1, <3>3, AtTrace DEF OnTrace
    <3>5. prog.text[l].op \notin {"call", "callx"}
      <4>1. n \in Nat
        BY <3>1 DEF Traced
      <4>2. l = n \/ l \in 1 .. n - 1
        BY <4>1
      <4>3. CASE l = n
        BY <3>1, <4>3
      <4>4. CASE l \in 1 .. n - 1
        <5>1. Passes(prog.text[l], val[l], val[l + 1])
          BY <3>1, <4>4 DEF Traced
        <5>2. QED
          BY <5>1 DEF Passes, Moves, Computes, Ops, OldOps, PqrOps, Shifts
      <4>5. QED
        BY <4>2, <4>3, <4>4
    <3>6. QED
      BY <3>2, <3>4, <3>5
  <2>2. CASE prog \notin GenV0Pqr \cup GenV2Pqr
    <3>1. prog \in AllPrograms /\ CertifiedInv
      BY <1>1 DEF SeedInv
    <3>2. Certifiable(prog)
      BY <1>1, <2>2, <3>1, AllButCasesFit DEF Fit
    <3>3. QED
      BY <1>1, <3>1, <3>2, CertifiedEnters
  <2>3. QED
    BY <2>1, <2>2
<1> DEFINE AtHeads == prog.says \in {"runs", "loops"} /\ pc' # pc =>
                       (pc' \in HeadSlots <=> Here.op \in {"call", "callx"})
<1>2. SeedInv /\ [Next]_vars => [AtHeads]_vars
  <2>1. ASSUME SeedInv, Next PROVE AtHeads
    BY <1>1, <2>1
  <2>2. QED
    BY <2>1
<1>3. QED
  BY <1>2, SeedInvHolds, PTL DEF Spec, FunctionsEnteredAtHead, AtHeads

-----------------------------------------------------------------------------
(* Seeds that fail: either they get stuck on a trace, or they are caught   *)
(* among lines that do not exit and slots that cannot be run.              *)

Within(p, st, l, q) ==
  q \in Nat /\ st[l] <= q /\ q < st[l + 1] /\ (p.text[l].op = "lddw" => q = st[l])

Caught(p, st, M, D, q) == q \in D \/ \E m \in M : Within(p, st, m, q)

(* A slot outside of the text, or the second half of an lddw.              *)
IsDead(p, st, q) ==
  \/ q \in Int /\ q \notin 0 .. st[Len(p.text) + 1] - 1
  \/ \E l \in 1 .. Len(p.text) :
       p.text[l].kind = "ins" /\ p.text[l].op = "lddw" /\ q = st[l] + 1

StaysCaught(p, st, M, D, l) ==
  LET line == p.text[l]
  IN  \/ line.op \in {"other", "lddw"} /\ Caught(p, st, M, D, st[l + 1])
      \/ line.op = "ja" /\ Caught(p, st, M, D, st[l] + 1 + line.off)
      \/ line.op = "callx" /\ line.name = NoName /\ Caught(p, st, M, D, line.imm)
      \/ /\ line.op = "call" /\ line.name # NoName
         /\ \E h \in Heads(p.text) : h.name = line.name
         /\ \A h \in Heads(p.text) : h.name = line.name => Caught(p, st, M, D, h.slot)
      \/ /\ line.op = "mem" /\ line.src = Other
         /\ ~ (line.off >= 0 /\ line.off + line.size <= p.mem)
      \/ line.op = "syscall"

Trapped(p, st, M, D) ==
  /\ p.text \in Seq(Lines) /\ Starts(p.text, st) /\ M \subseteq 1 .. Len(p.text)
  /\ \A h \in Heads(p.text) : h.name = Entrypoint => h.slot = 0
  /\ Caught(p, st, M, D, 0)
  /\ \A q \in D : IsDead(p, st, q)
  /\ \A l \in M : p.text[l].kind = "ins" /\ StaysCaught(p, st, M, D, l)

TrappedInv ==
  \A st, M, D : Trapped(prog, st, M, D) =>
    code = Slots(prog.text) /\ Caught(prog, st, M, D, pc) /\ status # "exited"

(* TrappedInv is inductive.                                                *)
LEMMA TrappedStarts ==
  ASSUME Init
  PROVE  TrappedInv
<1>1. SUFFICES ASSUME NEW st, NEW M, NEW D, Trapped(prog, st, M, D)
               PROVE  code = Slots(prog.text) /\ Caught(prog, st, M, D, pc) /\ status # "exited"
  BY DEF TrappedInv
<1>2. pc = 0
  <2>1. CASE \E h \in Heads(prog.text) : h.name = Entrypoint
    <3>1. pc = SlotOf(Entrypoint)
      BY <2>1 DEF Init
    <3>2. SlotOf(Entrypoint) = 0
      <4> DEFINE h == CHOOSE h \in Heads(prog.text) : h.name = Entrypoint
      <4>1. h \in Heads(prog.text) /\ h.name = Entrypoint
        BY <2>1
      <4>2. h.slot = 0
        BY <1>1, <4>1 DEF Trapped
      <4>3. QED
        BY <4>2 DEF SlotOf
    <3>3. QED
      BY <3>1, <3>2
  <2>2. CASE ~ \E h \in Heads(prog.text) : h.name = Entrypoint
    BY <2>2 DEF Init
  <2>3. QED
    BY <2>1, <2>2
<1>3. QED
  BY <1>1, <1>2 DEF Trapped, Init

(* What the slot of a line holds.                                          *)
LEMMA AtSlot ==
  ASSUME prog.text \in Seq(Lines), NEW st, Starts(prog.text, st), code = Slots(prog.text),
         NEW l \in 1 .. Len(prog.text), prog.text[l].kind = "ins", Within(prog, st, l, pc)
  PROVE  /\ InText /\ Here.op = prog.text[l].op /\ pc \in Nat
         /\ Here.op # "other" => Here = prog.text[l] /\ pc = st[l]
         /\ Here.op = "lddw" => st[l + 1] = pc + 2
         /\ Here.op = "other" => pc + 1 = st[l + 1] \/ Within(prog, st, l, pc + 1)
<1> DEFINE text == prog.text
<1>1. /\ l \in 1 .. Len(text) /\ text[l] \in Lines /\ st[l] \in Nat /\ st[l + 1] \in Nat
      /\ st[l + 1] = st[l] + Width(text[l]) /\ Width(text[l]) \in Nat
  <2>1. text[l] \in Lines /\ Width(text[l]) \in Nat
    BY PartOfLine
  <2>2. QED
    BY <2>1 DEF Starts
<1>a. text[l].op = "lddw" => st[l + 1] = st[l] + 2
  BY <1>1, PartOfLine
<1>b. text[l].op \notin {"other", "lddw"} => st[l + 1] = st[l] + 1
  BY <1>1, PartOfLine
<1>2. /\ code \in Seq(Lines) /\ st[l] + Width(text[l]) <= Len(code)
      /\ text[l].op = "other" => \A q \in st[l] .. st[l + 1] - 1 : code[q + 1] = O(1)
      /\ text[l].op = "lddw" => code[st[l] + 1] = text[l]
      /\ text[l].op \notin {"other", "lddw"} => code[st[l] + 1] = text[l]
  <2>1. text \in Seq(Lines) /\ Starts(text, st) /\ text[l].kind = "ins"
    OBVIOUS
  <2>2. QED
    BY <1>1, <2>1, TextLayout
<1>3. pc \in Nat /\ st[l] <= pc /\ pc < st[l + 1] /\ (text[l].op = "lddw" => pc = st[l])
  BY DEF Within
<1>4. Len(code) \in Nat
  BY <1>2
<1>5. InText
  BY <1>1, <1>2, <1>3, <1>4 DEF InText
<1>6. CASE text[l].op = "other"
  <2>1. pc \in st[l] .. st[l + 1] - 1
    BY <1>1, <1>3
  <2>2. Here = O(1)
    BY <1>2, <1>6, <2>1 DEF Here
  <2>3. Here.op = "other"
    BY <2>2, OFields
  <2>4. pc + 1 = st[l + 1] \/ Within(prog, st, l, pc + 1)
    BY <1>1, <1>3, <1>6 DEF Within
  <2>5. QED
    BY <1>3, <1>5, <1>6, <2>3, <2>4
<1>7. CASE text[l].op # "other"
  <2>1. pc = st[l]
    BY <1>1, <1>3, <1>7, <1>b
  <2>2. Here = text[l]
    BY <1>2, <1>7, <2>1 DEF Here
  <2>3. QED
    BY <1>3, <1>5, <1>7, <1>a, <2>1, <2>2
<1>8. QED
  BY <1>6, <1>7

(* A slot that cannot be run stops the machine.                            *)
LEMMA DeadStops ==
  ASSUME prog.text \in Seq(Lines), NEW st, Starts(prog.text, st), code = Slots(prog.text),
         IsDead(prog, st, pc), Next
  PROVE  pc' = pc /\ status' # "exited"
<1>1. Len(code) = st[Len(prog.text) + 1] /\ code \in Seq(Lines) /\ Len(code) \in Nat
  <2>1. Len(code) = st[Len(prog.text) + 1] /\ code \in Seq(Lines)
    BY TextLayout
  <2>2. QED
    BY <2>1
<1>2. CASE pc \in Int /\ pc \notin 0 .. st[Len(prog.text) + 1] - 1
  <2>1. ~ InText
    BY <1>1, <1>2 DEF InText
  <2>2. LeaveText
    BY <2>1 DEF Next, Unsupported, Unresolved, DataStep, Branch, Return, DoCall, Access, MoveStep,
       AluStep, On
  <2>3. QED
    BY <2>2 DEF LeaveText, Stop
<1>3. CASE \E l \in 1 .. Len(prog.text) :
             prog.text[l].kind = "ins" /\ prog.text[l].op = "lddw" /\ pc = st[l] + 1
  <2>1. PICK l \in 1 .. Len(prog.text) :
          prog.text[l].kind = "ins" /\ prog.text[l].op = "lddw" /\ pc = st[l] + 1
    BY <1>3
  <2>2. st[l] \in Nat /\ code[st[l] + 2] = Half
    <3>a. \A m \in 1 .. Len(prog.text) : prog.text[m].kind = "ins" /\ prog.text[m].op = "lddw" =>
            Slots(prog.text)[st[m] + 2] = Half
      BY TextLayout
    <3>1. code[st[l] + 2] = Half
      BY <2>1, <3>a
    <3>2. Len(prog.text) \in Nat
      OBVIOUS
    <3>3. st[l] \in Nat
      BY <2>1, <3>2, SMTT(30) DEF Starts
    <3>4. QED
      BY <3>1, <3>3
  <2>3. Here = Half
    <3>1. pc + 1 = st[l] + 2
      BY <2>1, <2>2
    <3>2. QED
      BY <2>2, <3>1 DEF Here
  <2>4. ~ Supported
    BY <2>3 DEF Supported
  <2>5. LeaveText \/ Unsupported
    BY <2>4 DEF Next, Unresolved, DataStep, Branch, Return, DoCall, Access, MoveStep, AluStep, On
  <2>6. QED
    BY <2>5 DEF LeaveText, Unsupported, Stop
<1>4. QED
  BY <1>2, <1>3 DEF IsDead

LEMMA TrappedStep ==
  ASSUME NEW st, NEW M, NEW D, Trapped(prog, st, M, D), code = Slots(prog.text),
         Caught(prog, st, M, D, pc), Next
  PROVE  Caught(prog, st, M, D, pc') /\ status' # "exited"
<1> DEFINE text == prog.text
<1>1. text \in Seq(Lines) /\ Starts(text, st)
  BY DEF Trapped
<1>2. CASE pc \in D
  <2>1. IsDead(prog, st, pc)
    BY <1>2 DEF Trapped
  <2>2. pc' = pc /\ status' # "exited"
    BY <1>1, <2>1, DeadStops
  <2>3. QED
    BY <1>2, <2>2 DEF Caught
<1>3. ASSUME NEW l \in M, Within(prog, st, l, pc)
      PROVE  Caught(prog, st, M, D, pc') /\ status' # "exited"
  <2>1. l \in 1 .. Len(text) /\ text[l].kind = "ins" /\ StaysCaught(prog, st, M, D, l)
    BY <1>3 DEF Trapped
  <2>2. /\ InText /\ Here.op = text[l].op /\ pc \in Nat
        /\ Here.op # "other" => Here = text[l] /\ pc = st[l]
        /\ Here.op = "lddw" => st[l + 1] = pc + 2
        /\ Here.op = "other" => pc + 1 = st[l + 1] \/ Within(prog, st, l, pc + 1)
    BY <1>1, <1>3, <2>1, AtSlot
  <2>3. Caught(prog, st, M, D, pc) /\ status = "running"
    BY RunningOnly
  <2> DEFINE op == text[l].op
  <2>4. \/ op \in {"other", "lddw"} /\ Caught(prog, st, M, D, st[l + 1])
        \/ op = "ja" /\ Caught(prog, st, M, D, st[l] + 1 + text[l].off)
        \/ op = "callx" /\ text[l].name = NoName /\ Caught(prog, st, M, D, text[l].imm)
        \/ /\ op = "call" /\ text[l].name # NoName
           /\ \E h \in Heads(text) : h.name = text[l].name
           /\ \A h \in Heads(text) : h.name = text[l].name => Caught(prog, st, M, D, h.slot)
        \/ /\ op = "mem" /\ text[l].src = Other
           /\ ~ (text[l].off >= 0 /\ text[l].off + text[l].size <= prog.mem)
        \/ op = "syscall"
    BY <2>1 DEF StaysCaught
  <2> HIDE DEF text
  <2>5. CASE pc' = pc /\ status' # "exited"
    BY <2>3, <2>5
  <2>6. CASE Unsupported
    BY <2>5, <2>6 DEF Unsupported, Stop
  <2>7. CASE ~ Unsupported
    <3>1. CASE op = "other"
      <4>1. DataStep
        BY <2>2, <2>7, <3>1 DEF Next, LeaveText, Unresolved, Branch, Return, DoCall, Access, MoveStep,
           AluStep, On, Moves, Ops, OldOps, PqrOps, Shifts
      <4>2. pc' = pc + 1 /\ status' = "running"
        BY <2>3, <4>1 DEF DataStep, Goto
      <4>3. Caught(prog, st, M, D, pc + 1)
        BY <1>3, <2>2, <2>4, <3>1 DEF Caught
      <4>4. QED
        BY <4>2, <4>3
    <3>2. CASE op = "lddw"
      <4>1. MoveStep
        BY <2>2, <2>7, <3>2 DEF Next, LeaveText, Unresolved, DataStep, Branch, Return, DoCall, Access,
           AluStep, On, Moves, Ops, OldOps, PqrOps, Shifts
      <4>2. pc' = pc + 2 /\ status' = "running"
        BY <2>2, <2>3, <3>2, <4>1 DEF MoveStep, Goto
      <4>3. QED
        BY <2>2, <2>4, <3>2, <4>2
    <3>3. CASE op = "ja"
      <4>1. Branch
        BY <2>2, <2>7, <3>3 DEF Next, LeaveText, Unresolved, DataStep, Return, DoCall, Access,
           MoveStep, AluStep, On, Moves, Ops, OldOps, PqrOps, Shifts
      <4>2. pc' = st[l] + 1 + text[l].off /\ status' = "running"
        BY <2>2, <2>3, <3>3, <4>1 DEF Branch, Goto
      <4>3. QED
        BY <2>4, <3>3, <4>2
    <3>4. CASE op \in {"call", "callx"}
      <4>1. DoCall
        BY <2>2, <2>7, <3>4 DEF Next, LeaveText, Unresolved, DataStep, Branch, Return, Access,
           MoveStep, AluStep, On, Moves, Ops, OldOps, PqrOps, Shifts
      <4>2. CASE TooDeep(Len(frames))
        BY <2>5, <4>1, <4>2 DEF DoCall, Stop
      <4>3. CASE ~ TooDeep(Len(frames))
        <5>1. pc' = Callee /\ status' = "running"
          BY <2>3, <4>1, <4>3 DEF DoCall, Goto
        <5>2. Caught(prog, st, M, D, Callee)
          <6>1. CASE op = "callx"
            <7>1. Here.op = "callx" /\ Here = text[l] /\ Here.name = NoName
              BY <2>2, <2>4, <6>1
            <7>2. Callee = Here.imm
              BY <7>1 DEF Callee
            <7>3. QED
              BY <2>4, <6>1, <7>1, <7>2
          <6>2. CASE op = "call"
            <7> DEFINE name == text[l].name
                       h == CHOOSE h \in Heads(text) : h.name = name
            <7>1. Callee = SlotOf(name)
              BY <2>2, <2>4, <6>2 DEF Callee
            <7>2. h \in Heads(text) /\ h.name = name
              BY <2>4, <6>2
            <7>3. Caught(prog, st, M, D, h.slot)
              BY <2>4, <6>2, <7>2
            <7>4. QED
              BY <7>1, <7>3 DEF SlotOf, text
          <6>3. QED
            BY <3>4, <6>1, <6>2
        <5>3. QED
          BY <5>1, <5>2
      <4>4. QED
        BY <4>2, <4>3
    <3>5. CASE op = "mem"
      <4>1. Access
        BY <2>2, <2>7, <3>5 DEF Next, LeaveText, Unresolved, DataStep, Branch, Return, DoCall,
           MoveStep, AluStep, On, Moves, Ops, OldOps, PqrOps, Shifts
      <4>2. Here.src # 1 /\ ~ (Here.off >= 0 /\ Here.off + Here.size <= prog.mem)
        BY <2>2, <2>4, <3>5 DEF Other
      <4>3. Stop("access")
        BY <4>1, <4>2 DEF Access
      <4>4. QED
        BY <2>5, <4>3 DEF Stop
    <3>6. CASE op = "syscall"
      <4>1. Unresolved
        BY <2>2, <2>7, <3>6 DEF Next, LeaveText, DataStep, Branch, Return, DoCall, Access,
           MoveStep, AluStep, On, Moves, Ops, OldOps, PqrOps, Shifts
      <4>2. QED
        BY <2>5, <4>1 DEF Unresolved, Stop
    <3>7. QED
      BY <2>4, <3>1, <3>2, <3>3, <3>4, <3>5, <3>6
  <2>8. QED
    BY <2>6, <2>7
<1>4. QED
  BY <1>2, <1>3 DEF Caught

LEMMA TrappedKept ==
  ASSUME TrappedInv, [Next]_vars
  PROVE  TrappedInv'
<1>1. prog' = prog /\ code' = code
  BY DEF vars, Next, LeaveText, Unsupported, Unresolved, DataStep, Branch, Return, DoCall,
         Access, MoveStep, AluStep, Compute, Goto, Stop
<1>2. SUFFICES ASSUME NEW st, NEW M, NEW D, Trapped(prog, st, M, D)
               PROVE  code' = Slots(prog.text) /\ Caught(prog, st, M, D, pc') /\ status' # "exited"
  BY <1>1 DEF TrappedInv
<1>3. code = Slots(prog.text) /\ Caught(prog, st, M, D, pc) /\ status # "exited"
  BY <1>2 DEF TrappedInv
<1>4. CASE Next
  BY <1>1, <1>2, <1>3, <1>4, TrappedStep
<1>5. CASE UNCHANGED vars
  BY <1>3, <1>5 DEF vars
<1>6. QED
  BY <1>4, <1>5

(* Lines one after the other that end in a line that leads nowhere.        *)
EndsBadly(p, st, k, D) ==
  LET line == p.text[k]
  IN  \/ line.op = "mem" /\ line.src = Other /\ ~ (line.off >= 0 /\ line.off + line.size <= p.mem)
      \/ line.op = "syscall"
      \/ line.op = "callx" /\ line.name = NoName /\ line.imm \in D
      \/ line.op = "ja" /\ \E m \in 1 .. k : st[k] + 1 + line.off = st[m]
      \/ line.op \in {"other", "lddw"} /\ st[k + 1] \in D

Straight(p, st, k, D) ==
  /\ p.text \in Seq(Lines) /\ Starts(p.text, st) /\ k \in 1 .. Len(p.text)
  /\ \A l \in 1 .. Len(p.text) : p.text[l].kind = "ins"
  /\ \A l \in 1 .. k : st[l] < st[l + 1]
  /\ \A l \in 1 .. k - 1 : p.text[l].op \in {"other", "lddw"}
  /\ \A q \in D : IsDead(p, st, q)
  /\ EndsBadly(p, st, k, D)

(* Such a text traps the machine in its first k lines.                     *)
LEMMA StraightTraps ==
  ASSUME NEW p, NEW st, NEW k, NEW D, Straight(p, st, k, D)
  PROVE  Trapped(p, st, 1 .. k, D)
<1> DEFINE text == p.text
           M == 1 .. k
<1>1. text \in Seq(Lines) /\ Starts(text, st) /\ k \in 1 .. Len(text) /\ k \in Nat /\ Len(text) \in Nat
  BY DEF Straight
<1>2. M \subseteq 1 .. Len(text)
  BY <1>1
<1>3. Heads(text) = {}
  <2>1. {l \in DOMAIN text : text[l].kind = "label"} = {}
    BY <1>1 DEF Straight
  <2>2. QED
    BY <1>1, <2>1, HeadsOfText
<1>4. ASSUME NEW m \in M PROVE Caught(p, st, M, D, st[m])
  <2>1. st[m] \in Nat /\ st[m] < st[m + 1]
    <3>1. st[m] < st[m + 1]
      BY DEF Straight
    <3>2. m \in 1 .. Len(text) + 1
      BY <1>1
    <3>3. QED
      BY <1>1, <3>1, <3>2 DEF Starts
  <2>2. Within(p, st, m, st[m])
    BY <2>1 DEF Within
  <2>3. QED
    BY <2>2 DEF Caught
<1>5. Caught(p, st, M, D, 0)
  <2>1. 1 \in M /\ st[1] = 0
    BY <1>1 DEF Starts
  <2>2. QED
    BY <1>4, <2>1
<1>6. ASSUME NEW l \in M PROVE text[l].kind = "ins" /\ StaysCaught(p, st, M, D, l)
  <2>1. text[l].kind = "ins"
    BY <1>2 DEF Straight
  <2>2. CASE l < k
    <3>1. l \in 1 .. k - 1 /\ l + 1 \in M
      BY <1>1, <2>2
    <3>2. text[l].op \in {"other", "lddw"} /\ Caught(p, st, M, D, st[l + 1])
      BY <1>4, <3>1 DEF Straight
    <3>3. QED
      BY <2>1, <3>2 DEF StaysCaught
  <2>3. CASE l = k
    <3>1. EndsBadly(p, st, l, D)
      BY <2>3 DEF Straight
    <3>2. CASE text[l].op = "ja"
      <4>1. PICK m \in 1 .. k : st[l] + 1 + text[l].off = st[m]
        BY <2>3, <3>1, <3>2 DEF EndsBadly
      <4>2. Caught(p, st, M, D, st[l] + 1 + text[l].off)
        BY <1>4, <4>1
      <4>3. QED
        BY <2>1, <3>2, <4>2 DEF StaysCaught
    <3>3. CASE text[l].op # "ja"
      BY <2>1, <3>1, <3>3 DEF EndsBadly, StaysCaught, Caught
    <3>4. QED
      BY <3>2, <3>3
  <2>4. QED
    BY <1>1, <2>2, <2>3
<1> HIDE DEF M
<1>7. \A q \in D : IsDead(p, st, q)
  BY DEF Straight
<1>8. Trapped(p, st, M, D)
  BY <1>1, <1>2, <1>3, <1>5, <1>6, <1>7 DEF Trapped
<1>9. QED
  BY <1>8 DEF M

IsTrapped(p) == \E st, M, D : Trapped(p, st, M, D)

LEMMA StraightFails ==
  ASSUME NEW p, NEW st, NEW k, NEW D, Straight(p, st, k, D)
  PROVE  IsTrapped(p)
  BY StraightTraps DEF IsTrapped

(* Some data and a line that leads nowhere, whatever follows it.           *)
LEMMA SecondLineFails ==
  ASSUME NEW p, p.text \in Seq(Lines), Len(p.text) >= 2,
         \A l \in 1 .. Len(p.text) : p.text[l].kind = "ins",
         NEW n \in Nat \ {0}, Shape(p.text[1], "other", n),
         \/ /\ Shape(p.text[2], "mem", 1) /\ p.text[2].src = Other
            /\ ~ (p.text[2].off >= 0 /\ p.text[2].off + p.text[2].size <= p.mem)
         \/ Shape(p.text[2], "syscall", 1)
         \/ Shape(p.text[2], "callx", 1) /\ p.text[2].name = NoName /\ p.text[2].imm = Nowhere
  PROVE  IsTrapped(p)
<1> DEFINE D == {Nowhere}
           k == 2
<1>1. PICK st : Starts(p.text, st)
  BY StartsExist
<1>2. st[1] = 0 /\ st[2] = n /\ st[3] = n + 1
  <2>1. Len(p.text) \in Nat /\ 1 \in 1 .. Len(p.text) /\ 2 \in 1 .. Len(p.text)
    OBVIOUS
  <2>2. st[1] = 0 /\ st[1 + 1] = st[1] + Width(p.text[1]) /\ st[2 + 1] = st[2] + Width(p.text[2])
    BY <1>1, <2>1 DEF Starts
  <2>3. Width(p.text[1]) = n /\ Width(p.text[2]) = 1
    BY DEF Shape
  <2>4. QED
    BY <2>2, <2>3
<1>3. \A q \in D : IsDead(p, st, q)
  <2>1. Nowhere \in Int /\ Nowhere < 0
    BY DEF Nowhere
  <2>2. Nowhere \notin 0 .. st[Len(p.text) + 1] - 1
    BY <2>1
  <2>3. QED
    BY <2>1, <2>2 DEF IsDead
<1>4. EndsBadly(p, st, k, D)
  BY DEF EndsBadly, Shape
<1>5. \A l \in 1 .. k : st[l] < st[l + 1]
  <2>1. \A l \in 1 .. k : l = 1 \/ l = 2
    OBVIOUS
  <2>2. QED
    BY <1>2, <2>1
<1>6. \A l \in 1 .. k - 1 : p.text[l].op \in {"other", "lddw"}
  <2>1. \A l \in 1 .. k - 1 : l = 1
    OBVIOUS
  <2>2. QED
    BY <2>1 DEF Shape
<1>7. k \in 1 .. Len(p.text)
  OBVIOUS
<1> HIDE DEF D, k
<1>8. Straight(p, st, k, D)
  BY <1>1, <1>3, <1>4, <1>5, <1>6, <1>7 DEF Straight
<1>9. QED
  BY <1>8, StraightFails

(* The second line of these is a call to Nowhere, an access outside of the *)
(* memory or a name that is not registered.                                *)
LEMMA NowhereFails ==
  ASSUME NEW p, NEW n \in Nat \ {0},
         p.text \in {<<O(n), Callx(Nowhere), Exit>>, <<O(n), Callx(Nowhere), O(1), Exit>>}
  PROVE  IsTrapped(p)
<1> DEFINE slot == Nowhere
           x == Callx(slot)
           a == O(n)
           b == O(1)
           e == Exit
           text == p.text
           X == Lines
<1>1. slot \in Int
  BY DEF Nowhere
<1> HIDE DEF slot
<1>2. Shape(x, "callx", 1) /\ x.name = NoName /\ x.imm = slot
  BY <1>1, CallxShape
<1>3. Shape(a, "other", n) /\ Shape(b, "other", 1) /\ Shape(e, "exit", 1)
  BY DataShape, ExitShape
<1>4. a \in X /\ b \in X /\ x \in X /\ e \in X
  BY <1>2, <1>3 DEF Shape
<1>5. text = <<a, x, e>> \/ text = <<a, x, b, e>>
  BY DEF slot
<1> HIDE DEF x, a, b, e, X, text
<1>6. /\ text \in Seq(X) /\ Len(text) >= 2 /\ text[1] = a /\ text[2] = x
      /\ \A l \in 1 .. Len(text) : text[l] \in {a, x, b, e}
  <2>1. CASE text = <<a, x, e>>
    BY <1>4, <2>1
  <2>2. CASE text = <<a, x, b, e>>
    BY <1>4, <2>2
  <2>3. QED
    BY <1>5, <2>1, <2>2
<1>7. \A l \in 1 .. Len(text) : text[l].kind = "ins"
  BY <1>2, <1>3, <1>6 DEF Shape
<1>8. QED
  BY <1>2, <1>3, <1>6, <1>7, SecondLineFails DEF X, slot, text

(* An access outside of the memory, and a call of no function.             *)
LEMMA OutOfMemoryFails ==
  ASSUME NEW p, NEW off \in Int, NEW size \in Nat, p.text = <<O(1), Mem(off, size), Exit>>,
         ~ (off >= 0 /\ off + size <= p.mem)
  PROVE  IsTrapped(p)
<1> DEFINE n == 1
           x == Mem(off, size)
           a == O(n)
           e == Exit
           text == p.text
           X == Lines
<1>1. n \in Nat \ {0}
  OBVIOUS
<1>2. Shape(x, "mem", 1) /\ x.src = Other /\ x.off = off /\ x.size = size
  <2>1. x \in Lines /\ x.kind = "ins" /\ x.op = "mem" /\ x.src = Other /\ x.off = off /\ x.size = size
    BY MemFields
  <2> HIDE DEF x
  <2>2. QED
    BY <2>1, PartOfLine DEF Shape
<1>3. Shape(a, "other", n) /\ Shape(e, "exit", 1)
  BY DataShape, ExitShape
<1>4. a \in X /\ x \in X /\ e \in X
  BY <1>2, <1>3 DEF Shape
<1>5. text = <<a, x, e>>
  OBVIOUS
<1> HIDE DEF x, a, e, X, text, n
<1>6. /\ text \in Seq(X) /\ Len(text) >= 2 /\ text[1] = a /\ text[2] = x
      /\ \A l \in 1 .. Len(text) : text[l] \in {a, x, e}
  BY <1>4, <1>5
<1>7. \A l \in 1 .. Len(text) : text[l].kind = "ins"
  BY <1>2, <1>3, <1>6 DEF Shape
<1>8. QED
  BY <1>1, <1>2, <1>3, <1>6, <1>7, SecondLineFails DEF X, text

LEMMA UnregisteredFails ==
  ASSUME NEW p, p.text = <<O(6), Syscall, O(1), Exit>>
  PROVE  IsTrapped(p)
<1> DEFINE n == 6
           x == Syscall
           a == O(n)
           b == O(1)
           e == Exit
           text == p.text
           X == Lines
<1>1. n \in Nat \ {0}
  OBVIOUS
<1>2. Shape(x, "syscall", 1)
  <2>1. x \in Lines /\ x.kind = "ins" /\ x.op = "syscall"
    BY PlainFields
  <2> HIDE DEF x
  <2>2. QED
    BY <2>1, PartOfLine DEF Shape
<1>3. Shape(a, "other", n) /\ Shape(b, "other", 1) /\ Shape(e, "exit", 1)
  BY DataShape, ExitShape
<1>4. a \in X /\ b \in X /\ x \in X /\ e \in X
  BY <1>2, <1>3 DEF Shape
<1>5. text = <<a, x, b, e>>
  OBVIOUS
<1> HIDE DEF x, a, b, e, X, text, n
<1>6. /\ text \in Seq(X) /\ Len(text) >= 2 /\ text[1] = a /\ text[2] = x
      /\ \A l \in 1 .. Len(text) : text[l] \in {a, x, b, e}
  BY <1>4, <1>5
<1>7. \A l \in 1 .. Len(text) : text[l].kind = "ins"
  BY <1>2, <1>3, <1>6 DEF Shape
<1>8. QED
  BY <1>1, <1>2, <1>3, <1>6, <1>7, SecondLineFails DEF X, text

(* The others one by one.                                                  *)
LEMMA LoopFails ==
  ASSUME NEW p, p.text = <<O(1), Ja(-1), Exit>>
  PROVE  IsTrapped(p)
<1> DEFINE text == p.text
           st == <<0, 1, 2, 3>>
           D == {}
           k == 2
<1>1. text = <<O(1), Ja(-1), Exit>>
  OBVIOUS
<1>2. Len(text) = 3 /\ text[1] = O(1) /\ text[2] = Ja(-1) /\ text[3] = Exit
  BY <1>1
<1>3. /\ Shape(text[1], "other", 1) /\ Shape(text[2], "ja", 1) /\ Shape(text[3], "exit", 1)
      /\ text[2].off = -1
  BY <1>2, DataShape, ExitShape, JaShape
<1>4. st \in [1 .. 4 -> Nat] /\ st[1] = 0 /\ st[2] = 1 /\ st[3] = 2 /\ st[4] = 3
  OBVIOUS
<1> HIDE DEF text, st
<1>5. \A l \in 1 .. 3 : l = 1 \/ l = 2 \/ l = 3
  OBVIOUS
<1>6. \A l \in 1 .. 3 : text[l] \in Lines /\ text[l].kind = "ins" /\ st[l + 1] = st[l] + Width(text[l])
  BY <1>3, <1>4, <1>5 DEF Shape
<1>7. text \in Seq(Lines)
  BY <1>1, <1>2, <1>5, <1>6
<1>8. Starts(text, st)
  BY <1>2, <1>4, <1>6 DEF Starts
<1>9. EndsBadly(p, st, k, D)
  <2>1. text[2].op = "ja" /\ 2 \in 1 .. k /\ st[2] + 1 + text[2].off = st[2]
    BY <1>3, <1>4 DEF Shape
  <2>2. QED
    BY <2>1 DEF EndsBadly, text
<1>10. \A l \in 1 .. k : st[l] < st[l + 1]
  <2>1. \A l \in 1 .. k : l = 1 \/ l = 2
    OBVIOUS
  <2>2. QED
    BY <1>4, <2>1
<1>11. \A l \in 1 .. k - 1 : text[l].op \in {"other", "lddw"}
  <2>1. \A l \in 1 .. k - 1 : l = 1
    OBVIOUS
  <2>2. QED
    BY <1>3, <2>1 DEF Shape
<1>12. k \in 1 .. Len(text)
  BY <1>2
<1>13. \A q \in D : IsDead(p, st, q)
  OBVIOUS
<1>14. Straight(p, st, k, D)
  BY <1>2, <1>6, <1>7, <1>8, <1>9, <1>10, <1>11, <1>12, <1>13 DEF Straight, text
<1>15. QED
  BY <1>14, StraightFails

(* Loops and texts without an exit.                                        *)
LEMMA LongLoopFails ==
  ASSUME NEW p, p.text = <<O(1), O(7), Ja(-8), Exit>>
  PROVE  IsTrapped(p)
<1> DEFINE text == p.text
           st == <<0, 1, 8, 9, 10>>
           D == {}
           k == 3
<1>1. text = <<O(1), O(7), Ja(-8), Exit>>
  OBVIOUS
<1>2. /\ Len(text) = 4 /\ text[1] = O(1) /\ text[2] = O(7) /\ text[3] = Ja(-8)
      /\ text[4] = Exit
  BY <1>1
<1>3. /\ Shape(text[1], "other", 1) /\ Shape(text[2], "other", 7) /\ Shape(text[3], "ja", 1)
      /\ Shape(text[4], "exit", 1) /\ text[3].off = -8
  BY <1>2, DataShape, ExitShape, JaShape
<1>4. /\ st \in [1 .. 5 -> Nat] /\ st[1] = 0 /\ st[2] = 1 /\ st[3] = 8 /\ st[4] = 9
      /\ st[5] = 10
  OBVIOUS
<1> HIDE DEF text, st
<1>5. \A l \in 1 .. 4 : l = 1 \/ l = 2 \/ l = 3 \/ l = 4
  OBVIOUS
<1>6. \A l \in 1 .. 4 : text[l] \in Lines /\ text[l].kind = "ins" /\ st[l + 1] = st[l] + Width(text[l])
  BY <1>3, <1>4, <1>5 DEF Shape
<1>7. text \in Seq(Lines)
  BY <1>1, <1>2, <1>5, <1>6
<1>8. Starts(text, st)
  BY <1>2, <1>4, <1>6 DEF Starts
<1>9. EndsBadly(p, st, k, D)
  <2>1. text[3].op = "ja" /\ 2 \in 1 .. k /\ st[3] + 1 + text[3].off = st[2]
    BY <1>3, <1>4 DEF Shape
  <2>2. QED
    BY <2>1 DEF EndsBadly, text
<1>10. \A l \in 1 .. k : st[l] < st[l + 1]
  <2>1. \A l \in 1 .. k : l = 1 \/ l = 2 \/ l = 3
    OBVIOUS
  <2>2. QED
    BY <1>4, <2>1
<1>11. \A l \in 1 .. k - 1 : text[l].op \in {"other", "lddw"}
  <2>1. \A l \in 1 .. k - 1 : l = 1 \/ l = 2
    OBVIOUS
  <2>2. QED
    BY <1>3, <2>1 DEF Shape
<1>12. k \in 1 .. Len(text)
  BY <1>2
<1>13. \A q \in D : IsDead(p, st, q)
  OBVIOUS
<1>14. Straight(p, st, k, D)
  BY <1>2, <1>6, <1>7, <1>8, <1>9, <1>10, <1>11, <1>12, <1>13 DEF Straight, text
<1>15. QED
  BY <1>14, StraightFails

LEMMA NoExitFails ==
  ASSUME NEW p, p.text = <<O(2)>>
  PROVE  IsTrapped(p)
<1> DEFINE text == p.text
           st == <<0, 2>>
           D == {2}
           k == 1
<1>1. text = <<O(2)>>
  OBVIOUS
<1>2. Len(text) = 1 /\ text[1] = O(2)
  BY <1>1
<1>3. Shape(text[1], "other", 2)
  BY <1>2, DataShape
<1>4. st \in [1 .. 2 -> Nat] /\ st[1] = 0 /\ st[2] = 2
  OBVIOUS
<1> HIDE DEF text, st
<1>5. \A l \in 1 .. 1 : l = 1
  OBVIOUS
<1>6. \A l \in 1 .. 1 : text[l] \in Lines /\ text[l].kind = "ins" /\ st[l + 1] = st[l] + Width(text[l])
  BY <1>3, <1>4, <1>5 DEF Shape
<1>7. text \in Seq(Lines)
  BY <1>1, <1>2, <1>5, <1>6
<1>8. Starts(text, st)
  BY <1>2, <1>4, <1>6 DEF Starts
<1>9. EndsBadly(p, st, k, D)
  <2>1. text[1].op \in {"other", "lddw"} /\ st[1 + 1] \in D
    BY <1>3, <1>4 DEF Shape
  <2>2. QED
    BY <2>1 DEF EndsBadly, text
<1>10. \A l \in 1 .. k : st[l] < st[l + 1]
  <2>1. \A l \in 1 .. k : l = 1
    OBVIOUS
  <2>2. QED
    BY <1>4, <2>1
<1>11. \A l \in 1 .. k - 1 : text[l].op \in {"other", "lddw"}
  OBVIOUS
<1>12. k \in 1 .. Len(text)
  BY <1>2
<1>13. \A q \in D : IsDead(p, st, q)
  <2>1. \A q \in D : q \in Int /\ q \notin 0 .. st[Len(text) + 1] - 1
    BY <1>2, <1>4 DEF Nowhere
  <2>2. QED
    BY <2>1 DEF IsDead, text
<1>14. Straight(p, st, k, D)
  BY <1>2, <1>6, <1>7, <1>8, <1>9, <1>10, <1>11, <1>12, <1>13 DEF Straight, text
<1>15. QED
  BY <1>14, StraightFails

LEMMA NoExitAfterLddwFails ==
  ASSUME NEW p, p.text = <<O(1), Lddw>>
  PROVE  IsTrapped(p)
<1> DEFINE text == p.text
           st == <<0, 1, 3>>
           D == {3}
           k == 2
<1>1. text = <<O(1), Lddw>>
  OBVIOUS
<1>2. Len(text) = 2 /\ text[1] = O(1) /\ text[2] = Lddw
  BY <1>1
<1>3. Shape(text[1], "other", 1) /\ Shape(text[2], "lddw", 2)
  BY <1>2, DataShape, LddwShape
<1>4. st \in [1 .. 3 -> Nat] /\ st[1] = 0 /\ st[2] = 1 /\ st[3] = 3
  OBVIOUS
<1> HIDE DEF text, st
<1>5. \A l \in 1 .. 2 : l = 1 \/ l = 2
  OBVIOUS
<1>6. \A l \in 1 .. 2 : text[l] \in Lines /\ text[l].kind = "ins" /\ st[l + 1] = st[l] + Width(text[l])
  BY <1>3, <1>4, <1>5 DEF Shape
<1>7. text \in Seq(Lines)
  BY <1>1, <1>2, <1>5, <1>6
<1>8. Starts(text, st)
  BY <1>2, <1>4, <1>6 DEF Starts
<1>9. EndsBadly(p, st, k, D)
  <2>1. text[2].op \in {"other", "lddw"} /\ st[2 + 1] \in D
    BY <1>3, <1>4 DEF Shape
  <2>2. QED
    BY <2>1 DEF EndsBadly, text
<1>10. \A l \in 1 .. k : st[l] < st[l + 1]
  <2>1. \A l \in 1 .. k : l = 1 \/ l = 2
    OBVIOUS
  <2>2. QED
    BY <1>4, <2>1
<1>11. \A l \in 1 .. k - 1 : text[l].op \in {"other", "lddw"}
  <2>1. \A l \in 1 .. k - 1 : l = 1
    OBVIOUS
  <2>2. QED
    BY <1>3, <2>1 DEF Shape
<1>12. k \in 1 .. Len(text)
  BY <1>2
<1>13. \A q \in D : IsDead(p, st, q)
  <2>1. \A q \in D : q \in Int /\ q \notin 0 .. st[Len(text) + 1] - 1
    BY <1>2, <1>4 DEF Nowhere
  <2>2. QED
    BY <2>1 DEF IsDead, text
<1>14. Straight(p, st, k, D)
  BY <1>2, <1>6, <1>7, <1>8, <1>9, <1>10, <1>11, <1>12, <1>13 DEF Straight, text
<1>15. QED
  BY <1>14, StraightFails

(* Calls to nowhere and into an lddw.                                      *)
LEMMA NowhereAfterLddwFails ==
  ASSUME NEW p, p.text = <<O(1), Lddw, Callx(Nowhere), Exit>>
  PROVE  IsTrapped(p)
<1> DEFINE text == p.text
           st == <<0, 1, 3, 4, 5>>
           D == {Nowhere}
           k == 3
<1>1. text = <<O(1), Lddw, Callx(Nowhere), Exit>>
  OBVIOUS
<1>2. /\ Len(text) = 4 /\ text[1] = O(1) /\ text[2] = Lddw /\ text[3] = Callx(Nowhere)
      /\ text[4] = Exit
  BY <1>1
<1>0. Nowhere \in Int
  BY DEF Nowhere
<1>3. /\ Shape(text[1], "other", 1) /\ Shape(text[2], "lddw", 2)
      /\ Shape(text[3], "callx", 1) /\ Shape(text[4], "exit", 1) /\ text[3].name = NoName /\ text[3].imm = Nowhere
  BY <1>0, <1>2, CallxShape, DataShape, ExitShape, LddwShape
<1>4. /\ st \in [1 .. 5 -> Nat] /\ st[1] = 0 /\ st[2] = 1 /\ st[3] = 3 /\ st[4] = 4
      /\ st[5] = 5
  OBVIOUS
<1> HIDE DEF text, st
<1>5. \A l \in 1 .. 4 : l = 1 \/ l = 2 \/ l = 3 \/ l = 4
  OBVIOUS
<1>6. \A l \in 1 .. 4 : text[l] \in Lines /\ text[l].kind = "ins" /\ st[l + 1] = st[l] + Width(text[l])
  BY <1>3, <1>4, <1>5 DEF Shape
<1>7. text \in Seq(Lines)
  BY <1>1, <1>2, <1>5, <1>6
<1>8. Starts(text, st)
  BY <1>2, <1>4, <1>6 DEF Starts
<1>9. EndsBadly(p, st, k, D)
  <2>1. text[3].op = "callx" /\ text[3].name = NoName /\ text[3].imm \in D
    BY <1>3, <1>4 DEF Shape
  <2>2. QED
    BY <2>1 DEF EndsBadly, text
<1>10. \A l \in 1 .. k : st[l] < st[l + 1]
  <2>1. \A l \in 1 .. k : l = 1 \/ l = 2 \/ l = 3
    OBVIOUS
  <2>2. QED
    BY <1>4, <2>1
<1>11. \A l \in 1 .. k - 1 : text[l].op \in {"other", "lddw"}
  <2>1. \A l \in 1 .. k - 1 : l = 1 \/ l = 2
    OBVIOUS
  <2>2. QED
    BY <1>3, <2>1 DEF Shape
<1>12. k \in 1 .. Len(text)
  BY <1>2
<1>13. \A q \in D : IsDead(p, st, q)
  <2>1. \A q \in D : q \in Int /\ q \notin 0 .. st[Len(text) + 1] - 1
    BY <1>2, <1>4 DEF Nowhere
  <2>2. QED
    BY <2>1 DEF IsDead, text
<1>14. Straight(p, st, k, D)
  BY <1>2, <1>6, <1>7, <1>8, <1>9, <1>10, <1>11, <1>12, <1>13 DEF Straight, text
<1>15. QED
  BY <1>14, StraightFails

LEMMA HalfOfLddwFails ==
  ASSUME NEW p, p.text = <<O(4), Callx(8), O(2), Lddw, Exit>>
  PROVE  IsTrapped(p)
<1> DEFINE text == p.text
           st == <<0, 4, 5, 7, 9, 10>>
           D == {8}
           k == 2
<1>1. text = <<O(4), Callx(8), O(2), Lddw, Exit>>
  OBVIOUS
<1>2. /\ Len(text) = 5 /\ text[1] = O(4) /\ text[2] = Callx(8) /\ text[3] = O(2)
      /\ text[4] = Lddw /\ text[5] = Exit
  BY <1>1
<1>3. /\ Shape(text[1], "other", 4) /\ Shape(text[2], "callx", 1)
      /\ Shape(text[3], "other", 2) /\ Shape(text[4], "lddw", 2) /\ Shape(text[5], "exit", 1)
      /\ text[2].name = NoName /\ text[2].imm = 8
  BY <1>2, CallxShape, DataShape, ExitShape, LddwShape
<1>4. /\ st \in [1 .. 6 -> Nat] /\ st[1] = 0 /\ st[2] = 4 /\ st[3] = 5 /\ st[4] = 7
      /\ st[5] = 9 /\ st[6] = 10
  OBVIOUS
<1> HIDE DEF text, st
<1>5. \A l \in 1 .. 5 : l = 1 \/ l = 2 \/ l = 3 \/ l = 4 \/ l = 5
  OBVIOUS
<1>6. \A l \in 1 .. 5 : text[l] \in Lines /\ text[l].kind = "ins" /\ st[l + 1] = st[l] + Width(text[l])
  BY <1>3, <1>4, <1>5 DEF Shape
<1>7. text \in Seq(Lines)
  BY <1>1, <1>2, <1>5, <1>6
<1>8. Starts(text, st)
  BY <1>2, <1>4, <1>6 DEF Starts
<1>9. EndsBadly(p, st, k, D)
  <2>1. text[2].op = "callx" /\ text[2].name = NoName /\ text[2].imm \in D
    BY <1>3, <1>4 DEF Shape
  <2>2. QED
    BY <2>1 DEF EndsBadly, text
<1>10. \A l \in 1 .. k : st[l] < st[l + 1]
  <2>1. \A l \in 1 .. k : l = 1 \/ l = 2
    OBVIOUS
  <2>2. QED
    BY <1>4, <2>1
<1>11. \A l \in 1 .. k - 1 : text[l].op \in {"other", "lddw"}
  <2>1. \A l \in 1 .. k - 1 : l = 1
    OBVIOUS
  <2>2. QED
    BY <1>3, <2>1 DEF Shape
<1>12. k \in 1 .. Len(text)
  BY <1>2
<1>13. \A q \in D : IsDead(p, st, q)
  <2>1. 4 \in 1 .. Len(text) /\ text[4].kind = "ins" /\ text[4].op = "lddw" /\ 8 = st[4] + 1
    BY <1>2, <1>3, <1>4 DEF Shape
  <2>2. QED
    BY <2>1 DEF IsDead, text
<1>14. Straight(p, st, k, D)
  BY <1>2, <1>6, <1>7, <1>8, <1>9, <1>10, <1>11, <1>12, <1>13 DEF Straight, text
<1>15. QED
  BY <1>14, StraightFails

LEMMA HalfOfLaterLddwFails ==
  ASSUME NEW p, p.text = <<O(1), Lddw, Callx(8), O(2), Exit, Lddw, Exit>>
  PROVE  IsTrapped(p)
<1> DEFINE text == p.text
           st == <<0, 1, 3, 4, 6, 7, 9, 10>>
           D == {8}
           k == 3
<1>1. text = <<O(1), Lddw, Callx(8), O(2), Exit, Lddw, Exit>>
  OBVIOUS
<1>2. /\ Len(text) = 7 /\ text[1] = O(1) /\ text[2] = Lddw /\ text[3] = Callx(8)
      /\ text[4] = O(2) /\ text[5] = Exit /\ text[6] = Lddw /\ text[7] = Exit
  BY <1>1
<1>3. /\ Shape(text[1], "other", 1) /\ Shape(text[2], "lddw", 2)
      /\ Shape(text[3], "callx", 1) /\ Shape(text[4], "other", 2)
      /\ Shape(text[5], "exit", 1) /\ Shape(text[6], "lddw", 2) /\ Shape(text[7], "exit", 1)
      /\ text[3].name = NoName /\ text[3].imm = 8
  BY <1>2, CallxShape, DataShape, ExitShape, LddwShape
<1>4. /\ st \in [1 .. 8 -> Nat] /\ st[1] = 0 /\ st[2] = 1 /\ st[3] = 3 /\ st[4] = 4
      /\ st[5] = 6 /\ st[6] = 7 /\ st[7] = 9 /\ st[8] = 10
  OBVIOUS
<1> HIDE DEF text, st
<1>5. \A l \in 1 .. 7 : l = 1 \/ l = 2 \/ l = 3 \/ l = 4 \/ l = 5 \/ l = 6 \/ l = 7
  OBVIOUS
<1>6. \A l \in 1 .. 7 : text[l] \in Lines /\ text[l].kind = "ins" /\ st[l + 1] = st[l] + Width(text[l])
  BY <1>3, <1>4, <1>5 DEF Shape
<1>7. text \in Seq(Lines)
  BY <1>1, <1>2, <1>5, <1>6
<1>8. Starts(text, st)
  BY <1>2, <1>4, <1>6 DEF Starts
<1>9. EndsBadly(p, st, k, D)
  <2>1. text[3].op = "callx" /\ text[3].name = NoName /\ text[3].imm \in D
    BY <1>3, <1>4 DEF Shape
  <2>2. QED
    BY <2>1 DEF EndsBadly, text
<1>10. \A l \in 1 .. k : st[l] < st[l + 1]
  <2>1. \A l \in 1 .. k : l = 1 \/ l = 2 \/ l = 3
    OBVIOUS
  <2>2. QED
    BY <1>4, <2>1
<1>11. \A l \in 1 .. k - 1 : text[l].op \in {"other", "lddw"}
  <2>1. \A l \in 1 .. k - 1 : l = 1 \/ l = 2
    OBVIOUS
  <2>2. QED
    BY <1>3, <2>1 DEF Shape
<1>12. k \in 1 .. Len(text)
  BY <1>2
<1>13. \A q \in D : IsDead(p, st, q)
  <2>1. 6 \in 1 .. Len(text) /\ text[6].kind = "ins" /\ text[6].op = "lddw" /\ 8 = st[6] + 1
    BY <1>2, <1>3, <1>4 DEF Shape
  <2>2. QED
    BY <2>1 DEF IsDead, text
<1>14. Straight(p, st, k, D)
  BY <1>2, <1>6, <1>7, <1>8, <1>9, <1>10, <1>11, <1>12, <1>13 DEF Straight, text
<1>15. QED
  BY <1>14, StraightFails

(* A function that calls itself, by its name or by its address.            *)
LEMMA OneHead ==
  ASSUME NEW text \in Seq(Lines), NEW st, Starts(text, st), NEW k \in 1 .. Len(text),
         text[k].kind = "label", \A l \in 1 .. Len(text) : l # k => text[l].kind = "ins"
  PROVE  Heads(text) = {[name |-> text[k].name, slot |-> st[k]]}
<1>1. {l \in DOMAIN text : text[l].kind = "label"} = {k}
  OBVIOUS
<1>2. QED
  BY <1>1, HeadsOfText

LEMMA LineCaught ==
  ASSUME NEW p, NEW st, NEW M, NEW D, NEW m \in M, st[m] \in Nat, st[m] < st[m + 1]
  PROVE  Caught(p, st, M, D, st[m])
<1>1. Within(p, st, m, st[m])
  BY DEF Within
<1>2. QED
  BY <1>1 DEF Caught

(* Functions that call themselves, by name or by address.                  *)
LEMMA EntrypointAgainFails ==
  ASSUME NEW p, p.text = <<Label(Entrypoint), O(2), Call(Entrypoint), Exit>>
  PROVE  IsTrapped(p)
<1> DEFINE text == p.text
           st == <<0, 0, 2, 3, 4>>
           M == {2, 3}
           D == {}
<1>1. text = <<Label(Entrypoint), O(2), Call(Entrypoint), Exit>>
  OBVIOUS
<1>2. Len(text) = 4 /\ text[1] = Label(Entrypoint) /\ text[2] = O(2) /\ text[3] = Call(Entrypoint)
      /\ text[4] = Exit
  BY <1>1
<1>a. Entrypoint \in Name /\ Entrypoint # NoName
  BY NoNameIsName, NamesDiffer DEF Entrypoint
<1>3. Marks(text[1], Entrypoint) /\ Shape(text[2], "other", 2) /\ Shape(text[3], "call", 1)
      /\ text[3].name = Entrypoint /\ Shape(text[4], "exit", 1)
  BY <1>2, <1>a, DataShape, ExitShape, LabelShape, CallShape
<1>4. st \in [1 .. 5 -> Nat] /\ st[1] = 0 /\ st[2] = 0 /\ st[3] = 2 /\ st[4] = 3 /\ st[5] = 4
  OBVIOUS
<1> HIDE DEF text, st
<1>5. \A l \in 1 .. 4 : l = 1 \/ l = 2 \/ l = 3 \/ l = 4
  OBVIOUS
<1>6. \A l \in 1 .. 4 : text[l] \in Lines /\ st[l + 1] = st[l] + Width(text[l])
  BY <1>3, <1>4, <1>5 DEF Shape, Marks
<1>7. text \in Seq(Lines)
  BY <1>1, <1>2, <1>5, <1>6
<1>8. Starts(text, st)
  BY <1>2, <1>4, <1>6 DEF Starts
<1>9. Heads(text) = {[name |-> Entrypoint, slot |-> 0]}
  <2> DEFINE k == 1
  <2>1. k \in 1 .. Len(text) /\ text[k].kind = "label" /\ text[k].name = Entrypoint /\ st[k] = 0
    BY <1>2, <1>3, <1>4 DEF Marks
  <2>2. \A l \in 1 .. Len(text) : l # k => text[l].kind = "ins"
    BY <1>2, <1>3, <1>5 DEF Shape
  <2> HIDE DEF k
  <2>3. Heads(text) = {[name |-> text[k].name, slot |-> st[k]]}
    BY <1>7, <1>8, <2>1, <2>2, OneHead
  <2>4. QED
    BY <2>1, <2>3
<1>10. Caught(p, st, M, D, st[2]) /\ Caught(p, st, M, D, st[3])
  <2>1. Caught(p, st, M, D, st[2])
    BY <1>4 DEF Caught, Within
  <2>2. Caught(p, st, M, D, st[3])
    <3>1. Within(p, st, 3, st[3])
      BY <1>4 DEF Within
    <3>2. QED
      BY <3>1 DEF Caught
  <2>3. QED
    BY <2>1, <2>2
<1>11. text[2].kind = "ins" /\ StaysCaught(p, st, M, D, 2)
  BY <1>3, <1>10 DEF StaysCaught, Shape, text
<1>12. text[3].kind = "ins" /\ StaysCaught(p, st, M, D, 3)
  <2>1. \E h \in Heads(text) : h.name = Entrypoint
    BY <1>9
  <2>2. \A h \in Heads(text) : h.slot = st[2]
    BY <1>4, <1>9
  <2>3. \A h \in Heads(text) : Caught(p, st, M, D, h.slot)
    BY <1>10, <2>2
  <2>4. text[3].kind = "ins" /\ text[3].op = "call" /\ text[3].name = Entrypoint
    BY <1>3 DEF Shape
  <2> HIDE DEF M, D
  <2>5. QED
    BY <1>a, <2>1, <2>3, <2>4 DEF StaysCaught, text
<1>13. \A l \in M : text[l].kind = "ins" /\ StaysCaught(p, st, M, D, l)
  BY <1>11, <1>12
<1>14. M \subseteq 1 .. Len(text)
  BY <1>2
<1>15. Caught(p, st, M, D, 0)
  BY <1>4, <1>10
<1>16. Trapped(p, st, M, D)
  BY <1>7, <1>8, <1>9, <1>13, <1>14, <1>15 DEF Trapped, text
<1>17. QED
  BY <1>16 DEF IsTrapped

LEMMA AddressAgainFails ==
  ASSUME NEW p, p.text = <<O(4), Call(Foo), Exit, Label(Foo), O(1), Callx(6), Exit>>
  PROVE  IsTrapped(p)
<1> DEFINE text == p.text
           st == <<0, 4, 5, 6, 6, 7, 8, 9>>
           M == {1, 2, 5, 6}
           D == {}
<1>1. text = <<O(4), Call(Foo), Exit, Label(Foo), O(1), Callx(6), Exit>>
  OBVIOUS
<1>2. Len(text) = 7 /\ text[1] = O(4) /\ text[2] = Call(Foo) /\ text[3] = Exit /\ text[4] = Label(Foo)
      /\ text[5] = O(1) /\ text[6] = Callx(6) /\ text[7] = Exit
  BY <1>1
<1>3. /\ Shape(text[1], "other", 4) /\ Shape(text[2], "call", 1) /\ text[2].name = Foo
      /\ Shape(text[3], "exit", 1) /\ Marks(text[4], Foo) /\ Shape(text[5], "other", 1)
      /\ Shape(text[6], "callx", 1) /\ text[6].name = NoName /\ text[6].imm = 6
      /\ Shape(text[7], "exit", 1)
  BY <1>2, TheNames, DataShape, ExitShape, LabelShape, CallShape, CallxShape
<1>4. st \in [1 .. 8 -> Nat] /\ st[1] = 0 /\ st[2] = 4 /\ st[3] = 5 /\ st[4] = 6 /\ st[5] = 6 /\ st[6] = 7
      /\ st[7] = 8 /\ st[8] = 9
  OBVIOUS
<1> HIDE DEF text, st
<1>5. \A l \in 1 .. 7 : l = 1 \/ l = 2 \/ l = 3 \/ l = 4 \/ l = 5 \/ l = 6 \/ l = 7
  OBVIOUS
<1>6. \A l \in 1 .. 7 : text[l] \in Lines /\ st[l + 1] = st[l] + Width(text[l])
  BY <1>3, <1>4, <1>5 DEF Shape, Marks
<1>7. text \in Seq(Lines)
  BY <1>1, <1>2, <1>5, <1>6
<1>8. Starts(text, st)
  BY <1>2, <1>4, <1>6 DEF Starts
<1>9. Heads(text) = {[name |-> Foo, slot |-> 6]}
  <2> DEFINE k == 4
  <2>1. k \in 1 .. Len(text) /\ text[k].kind = "label" /\ text[k].name = Foo /\ st[k] = 6
    BY <1>2, <1>3, <1>4 DEF Marks
  <2>2. \A l \in 1 .. Len(text) : l # k => text[l].kind = "ins"
    BY <1>2, <1>3, <1>5 DEF Shape
  <2> HIDE DEF k
  <2>3. Heads(text) = {[name |-> text[k].name, slot |-> st[k]]}
    BY <1>7, <1>8, <2>1, <2>2, OneHead
  <2>4. QED
    BY <2>1, <2>3
<1>10. \A m \in M : Caught(p, st, M, D, st[m])
  <2>1. \A m \in M : Within(p, st, m, st[m])
    BY <1>4 DEF Within
  <2>2. QED
    BY <2>1 DEF Caught
<1>c. /\ Caught(p, st, M, D, st[1]) /\ Caught(p, st, M, D, st[1 + 1])
      /\ Caught(p, st, M, D, st[5]) /\ Caught(p, st, M, D, st[5 + 1])
  <2>1. 1 \in M /\ 2 \in M /\ 5 \in M /\ 6 \in M /\ 1 + 1 = 2 /\ 5 + 1 = 6
    OBVIOUS
  <2> HIDE DEF M
  <2>2. QED
    BY <1>10, <2>1
<1> HIDE DEF M
<1>11. text[1].kind = "ins" /\ StaysCaught(p, st, M, D, 1)
  BY <1>3, <1>c DEF StaysCaught, Shape, text
<1>12. text[2].kind = "ins" /\ StaysCaught(p, st, M, D, 2)
  <2>1. \E h \in Heads(text) : h.name = Foo
    BY <1>9
  <2>2. \A h \in Heads(text) : h.slot = st[5]
    BY <1>4, <1>9
  <2>3. \A h \in Heads(text) : Caught(p, st, M, D, h.slot)
    BY <1>c, <2>2
  <2>4. text[2].kind = "ins" /\ text[2].op = "call" /\ text[2].name = Foo
    BY <1>3 DEF Shape
  <2> HIDE DEF D
  <2>5. QED
    BY <2>1, <2>3, <2>4, TheNames DEF StaysCaught, text
<1>13. text[5].kind = "ins" /\ StaysCaught(p, st, M, D, 5)
  BY <1>3, <1>c DEF StaysCaught, Shape, text
<1>14. text[6].kind = "ins" /\ StaysCaught(p, st, M, D, 6)
  BY <1>3, <1>4, <1>c DEF StaysCaught, Shape, text
<1>15. \A l \in M : text[l].kind = "ins" /\ StaysCaught(p, st, M, D, l)
  BY <1>11, <1>12, <1>13, <1>14 DEF M
<1>16. M \subseteq 1 .. Len(text)
  BY <1>2 DEF M
<1>17. Caught(p, st, M, D, 0)
  BY <1>4, <1>c
<1>18. Trapped(p, st, M, D)
  <2>1. Foo # Entrypoint
    BY TheNames
  <2>2. QED
    BY <1>7, <1>8, <1>9, <1>15, <1>16, <1>17, <2>1 DEF Trapped, text
<1>19. QED
  BY <1>18 DEF IsTrapped

(* The seed whose entrypoint calls what lies before it: the callee comes   *)
(* back, and the entrypoint has nothing to go on with.                     *)
CallsBack == <<Label(Foo), Exit, Label(Entrypoint), CallBy(-2)>>

CallsBackInv ==
  prog.text = CallsBack =>
    /\ code = Slots(prog.text) /\ status # "exited"
    /\ \/ pc = 1 /\ frames = <<>>
       \/ pc = 0 /\ frames = <<2>>
       \/ pc = 2 /\ frames = <<>>

(* The text of that seed, and its invariant.                               *)
LEMMA CallsBackSlots ==
  /\ Len(Slots(CallsBack)) = 2
  /\ Slots(CallsBack)[0 + 1] = Exit /\ Slots(CallsBack)[1 + 1] = CallBy(-2)
  /\ CallBy(-2).op = "call" /\ CallBy(-2).name = NoName /\ CallBy(-2).off = -2
  /\ \E h \in Heads(CallsBack) : h.name = Entrypoint
  /\ \A h \in Heads(CallsBack) : h.name = Entrypoint => h.slot = 1
<1> DEFINE text == CallsBack
           st == <<0, 0, 1, 1, 2>>
           x == CallBy(-2)
<1>1. text = <<Label(Foo), Exit, Label(Entrypoint), CallBy(-2)>>
  BY DEF CallsBack
<1>2. Len(text) = 4 /\ text[1] = Label(Foo) /\ text[2] = Exit /\ text[3] = Label(Entrypoint)
      /\ text[4] = x
  BY <1>1
<1>3. x \in Lines /\ x.kind = "ins" /\ x.op = "call" /\ x.off = -2 /\ x.name = NoName
  BY CallByFields
<1>4. Marks(text[1], Foo) /\ Shape(text[2], "exit", 1) /\ Marks(text[3], Entrypoint)
  BY <1>2, TheNames, ExitShape, LabelShape
<1>5. Shape(text[4], "call", 1)
  <2> HIDE DEF x, text
  <2>1. QED
    BY <1>2, <1>3, PartOfLine DEF Shape
<1>6. st \in [1 .. 5 -> Nat] /\ st[1] = 0 /\ st[2] = 0 /\ st[3] = 1 /\ st[4] = 1 /\ st[5] = 2
  OBVIOUS
<1> HIDE DEF text, st, x
<1>7. \A l \in 1 .. 4 : l = 1 \/ l = 2 \/ l = 3 \/ l = 4
  OBVIOUS
<1>8. \A l \in 1 .. 4 : text[l] \in Lines /\ st[l + 1] = st[l] + Width(text[l])
  BY <1>4, <1>5, <1>6, <1>7 DEF Shape, Marks
<1>9. text \in Seq(Lines)
  <2>1. text = <<text[1], text[2], text[3], text[4]>>
    BY <1>1, <1>2 DEF x
  <2>2. text[1] \in Lines /\ text[2] \in Lines /\ text[3] \in Lines /\ text[4] \in Lines
    BY <1>8
  <2> DEFINE X == Lines
             a == text[1]
             b == text[2]
             c == text[3]
             d == text[4]
  <2>3. a \in X /\ b \in X /\ c \in X /\ d \in X /\ text = <<a, b, c, d>>
    BY <2>1, <2>2
  <2> HIDE DEF X, a, b, c, d
  <2>4. text \in Seq(X)
    BY <2>3
  <2>5. QED
    BY <2>4 DEF X
<1>10. Starts(text, st)
  BY <1>2, <1>6, <1>8 DEF Starts
<1>11. /\ Len(Slots(text)) = st[4 + 1]
       /\ Slots(text)[st[2] + 1] = text[2] /\ Slots(text)[st[4] + 1] = text[4]
  <2>1. /\ Len(Slots(text)) = st[Len(text) + 1]
        /\ \A l \in 1 .. Len(text) : text[l].kind = "ins" /\ text[l].op \notin {"other", "lddw"} =>
             Slots(text)[st[l] + 1] = text[l]
    BY <1>9, <1>10, TextLayout
  <2>2. /\ 2 \in 1 .. Len(text) /\ text[2].kind = "ins" /\ text[2].op \notin {"other", "lddw"}
        /\ 4 \in 1 .. Len(text) /\ text[4].kind = "ins" /\ text[4].op \notin {"other", "lddw"}
    BY <1>2, <1>4, <1>5 DEF Shape
  <2>3. QED
    BY <1>2, <2>1, <2>2
<1>12. Heads(text) = {[name |-> text[l].name, slot |-> st[l]] :
                        l \in {l \in DOMAIN text : text[l].kind = "label"}}
  BY <1>9, <1>10, HeadsOfText
<1>13. DOMAIN text = 1 .. 4
  BY <1>2, <1>9
<1>14. \A h \in Heads(text) : h.name = Entrypoint => h.slot = 1
  <2>1. SUFFICES ASSUME NEW h \in Heads(text), h.name = Entrypoint PROVE h.slot = 1
    OBVIOUS
  <2>2. PICK l \in 1 .. 4 : text[l].kind = "label" /\ h = [name |-> text[l].name, slot |-> st[l]]
    BY <1>12, <1>13
  <2>3. h.name = text[l].name /\ h.slot = st[l]
    BY <2>2
  <2>4. l = 3
    BY <1>4, <1>5, <1>7, <2>1, <2>2, <2>3, TheNames DEF Marks, Shape
  <2>5. QED
    BY <1>6, <2>3, <2>4
<1>15. \E h \in Heads(text) : h.name = Entrypoint
  <2> DEFINE h == [name |-> text[3].name, slot |-> st[3]]
  <2>1. 3 \in {l \in DOMAIN text : text[l].kind = "label"}
    BY <1>4, <1>13 DEF Marks
  <2>2. h \in Heads(text)
    BY <1>12, <2>1
  <2>3. h.name = Entrypoint
    BY <1>4 DEF Marks
  <2>4. QED
    BY <2>2, <2>3
<1>16. /\ Len(Slots(text)) = 2
       /\ Slots(text)[0 + 1] = Exit /\ Slots(text)[1 + 1] = x
  BY <1>2, <1>6, <1>11
<1>17. QED
  BY <1>3, <1>14, <1>15, <1>16 DEF text, x

LEMMA CallsBackStarts ==
  ASSUME Init
  PROVE  CallsBackInv
<1>1. SUFFICES ASSUME prog.text = CallsBack
               PROVE  code = Slots(prog.text) /\ status # "exited" /\ pc = 1 /\ frames = <<>>
  BY DEF CallsBackInv
<1>2. /\ \E h \in Heads(prog.text) : h.name = Entrypoint
      /\ \A h \in Heads(prog.text) : h.name = Entrypoint => h.slot = 1
  BY <1>1, CallsBackSlots
<1>3. SlotOf(Entrypoint) = 1
  <2> DEFINE h == CHOOSE h \in Heads(prog.text) : h.name = Entrypoint
  <2>1. h \in Heads(prog.text) /\ h.name = Entrypoint
    BY <1>2
  <2>2. h.slot = 1
    BY <1>2, <2>1
  <2>3. QED
    BY <2>2 DEF SlotOf
<1>4. QED
  BY <1>2, <1>3 DEF Init

LEMMA CallsBackKept ==
  ASSUME CallsBackInv, [Next]_vars
  PROVE  CallsBackInv'
<1>1. prog' = prog /\ code' = code
  BY DEF vars, Next, LeaveText, Unsupported, Unresolved, DataStep, Branch, Return, DoCall,
         Access, MoveStep, AluStep, Compute, Goto, Stop
<1>2. SUFFICES ASSUME prog.text = CallsBack
               PROVE  /\ code' = Slots(prog.text) /\ status' # "exited"
                      /\ \/ pc' = 1 /\ frames' = <<>>
                         \/ pc' = 0 /\ frames' = <<2>>
                         \/ pc' = 2 /\ frames' = <<>>
  BY <1>1 DEF CallsBackInv
<1>3. /\ code = Slots(prog.text) /\ status # "exited"
      /\ \/ pc = 1 /\ frames = <<>>
         \/ pc = 0 /\ frames = <<2>>
         \/ pc = 2 /\ frames = <<>>
  BY <1>2 DEF CallsBackInv
<1>4. CASE UNCHANGED vars
  BY <1>3, <1>4 DEF vars
<1>5. CASE Next
  <2>1. status = "running"
    BY <1>5, RunningOnly
  <2>2. ASSUME UNCHANGED <<pc, frames>>, status' # "exited"
        PROVE  /\ code' = Slots(prog.text) /\ status' # "exited"
               /\ \/ pc' = 1 /\ frames' = <<>>
                  \/ pc' = 0 /\ frames' = <<2>>
                  \/ pc' = 2 /\ frames' = <<>>
    BY <1>1, <1>3, <2>2
  <2>3. CASE Unsupported \/ LeaveText
    BY <2>2, <2>3 DEF Unsupported, LeaveText, Stop
  <2>4. CASE pc = 1 /\ frames = <<>> /\ ~ (Unsupported \/ LeaveText)
    <3>1. Here = CallBy(-2)
      BY <1>2, <1>3, <2>4, CallsBackSlots DEF Here
    <3>2. Here.op = "call" /\ Here.name = NoName /\ Here.off = -2
      BY <3>1, CallsBackSlots
    <3>3. DoCall
      BY <1>5, <2>4, <3>2 DEF Next, Unresolved, DataStep, Branch, Return, Access, MoveStep, AluStep,
         On, Moves, Ops, OldOps, PqrOps, Shifts
    <3>4. Callee = pc + 1 + Here.off
      BY <3>2 DEF Callee
    <3>5. Callee = 0
      BY <2>4, <3>2, <3>4
    <3>6. CASE TooDeep(Len(frames))
      BY <2>2, <3>3, <3>6 DEF DoCall, Stop
    <3>7. CASE ~ TooDeep(Len(frames))
      <4>1. pc' = 0 /\ frames' = Append(frames, pc + 1) /\ status' = "running"
        BY <2>1, <3>3, <3>5, <3>7 DEF DoCall, Goto
      <4>2. frames' = <<2>>
        BY <2>4, <4>1
      <4>3. QED
        BY <1>1, <1>3, <4>1, <4>2
    <3>8. QED
      BY <3>6, <3>7
  <2>5. CASE pc = 0 /\ frames = <<2>> /\ ~ (Unsupported \/ LeaveText)
    <3>1. Here = Exit
      BY <1>2, <1>3, <2>5, CallsBackSlots DEF Here
    <3>2. Here.op = "exit"
      BY <3>1, PlainFields
    <3>3. Return
      BY <1>5, <2>5, <3>2 DEF Next, Unresolved, DataStep, Branch, DoCall, Access, MoveStep, AluStep,
         On, Moves, Ops, OldOps, PqrOps, Shifts
    <3>4. frames # <<>> /\ Last(frames) = 2 /\ Front(frames) = <<>>
      BY <2>5 DEF Last, Front
    <3>5. pc' = 2 /\ frames' = <<>> /\ status' = "running"
      BY <2>1, <3>3, <3>4 DEF Return, Goto
    <3>6. QED
      BY <1>1, <1>3, <3>5
  <2>6. CASE pc = 2 /\ frames = <<>>
    <3>1. ~ InText
      BY <1>2, <1>3, <2>6, CallsBackSlots DEF InText
    <3>2. LeaveText
      BY <1>5, <3>1 DEF Next, Unsupported, Unresolved, DataStep, Branch, Return, DoCall, Access,
         MoveStep, AluStep, On
    <3>3. QED
      BY <2>3, <3>2
  <2>7. QED
    BY <1>3, <2>3, <2>4, <2>5, <2>6
<1>6. QED
  BY <1>4, <1>5

(* Seeds that get stuck: by a divisor of 0, or by a quotient that is too   *)
(* great.                                                                  *)
IsStuck(p) == \E st, val, n : Traced(p, st, val, n) /\ Stuck(p.text[n], val[n])

Path(p, val, n) ==
  /\ p.text \in Seq(Lines) /\ n \in 1 .. Len(p.text)
  /\ \A l \in 1 .. Len(p.text) : p.text[l].kind = "ins"
  /\ val[1] = FirstRegs /\ \A l \in 1 .. n : DOMAIN val[l] = 0 .. 1
  /\ \A l \in 1 .. n : p.text[l].op \notin Lacking(p.version) \cup {Half.op}
  /\ \A l \in 1 .. n - 1 : Passes(p.text[l], val[l], val[l + 1])
  /\ Stuck(p.text[n], val[n])

(* A path of the registers is a trace.                                     *)
LEMMA PathsAreTraces ==
  ASSUME NEW p, NEW val, NEW n, Path(p, val, n)
  PROVE  IsStuck(p)
<1>1. PICK st : Starts(p.text, st)
  BY StartsExist DEF Path
<1>2. Traced(p, st, val, n)
  BY <1>1 DEF Path, Traced
<1>3. QED
  BY <1>2 DEF Path, IsStuck

(* What small numbers are when they are loaded.                            *)
LEMMA SmallLoads ==
  /\ Unsigned(32, Immediate("mov", 32, 0)) = 0 /\ Unsigned(32, Immediate("mov", 32, 1)) = 1
  /\ Unsigned(64, Immediate("mov", 64, 0)) = 0 /\ Unsigned(64, Immediate("mov", 64, 1)) = 1
  /\ Unsigned(64, Immediate("mov", 64, -1)) = U64Max
  /\ \A w \in {32, 64} : Unsigned(w, 0) = 0
  /\ 0 \in 0 .. U64Max /\ 1 \in 0 .. U64Max
<1> DEFINE k == 2 ^ W
           kk == 2 ^ (2 * W)
<1>1. /\ k \in Nat /\ k >= 16 /\ kk \in Nat /\ kk >= 16 /\ U64Max = kk - 1
      /\ \A z : Unsigned(64, z) = z % kk /\ Unsigned(32, z) = z % k
  BY Powers, Widths DEF U64Max
<1>2. \A w, v : Immediate("mov", w, v) = Unsigned(64, v)
  BY DEF Immediate
<1> HIDE DEF k, kk
<1>3. 0 % k = 0 /\ 1 % k = 1 /\ 0 % kk = 0 /\ 1 % kk = 1
  BY <1>1
<1>4. Unsigned(64, Unsigned(64, -1)) = U64Max
  BY Remainders
<1>5. Unsigned(64, 0) = 0 /\ Unsigned(64, 1) = 1 /\ Unsigned(32, 0) = 0 /\ Unsigned(32, 1) = 1
  BY <1>1, <1>3
<1>6. \A w \in {32, 64} : Unsigned(w, 0) = 0
  BY <1>5
<1>7. QED
  BY <1>1, <1>2, <1>4, <1>5, <1>6

(* A line that moves a number into r0 or r1.                               *)
LEMMA MovPasses ==
  ASSUME NEW w \in {32, 64}, NEW v \in Int, NEW a, NEW b
  PROVE  LET c == Unsigned(w, Immediate("mov", w, v))
         IN  /\ Passes(AluImm("mov", w, 0, v), Regs(a, b), Regs(c, b))
             /\ Passes(AluImm("mov", w, 1, v), Regs(a, b), Regs(a, c))
<1> DEFINE c == Unsigned(w, Immediate("mov", w, v))
           x == AluImm("mov", w, 0, v)
           y == AluImm("mov", w, 1, v)
<1>1. "mov" \in OpNames /\ "mov" \in Moves
  BY DEF OpNames, Moves
<1>2. Loads(x, "mov", w, 0, v) /\ Loads(y, "mov", w, 1, v)
  BY <1>1, ImmLoads
<1>3. Passes(x, Regs(a, b), Regs(c, b))
  <2> DEFINE op == "mov"
             dst == 0
  <2>1. op \in Moves /\ dst \in 0 .. 1 /\ dst = 0 /\ Loads(x, op, w, dst, v)
    BY <1>1, <1>2
  <2> HIDE DEF op, dst, x
  <2>2. Passes(x, Regs(a, b), Regs(Unsigned(w, Immediate(op, w, v)), b))
    BY <2>1, LoadPasses
  <2>3. QED
    BY <2>2 DEF op
<1>4. Passes(y, Regs(a, b), Regs(a, c))
  <2> DEFINE op == "mov"
             dst == 1
  <2>1. op \in Moves /\ dst \in 0 .. 1 /\ dst = 1 /\ Loads(y, op, w, dst, v)
    BY <1>1, <1>2
  <2> HIDE DEF op, dst, y
  <2>2. Passes(y, Regs(a, b), Regs(a, Unsigned(w, Immediate(op, w, v))))
    BY <2>1, LoadPasses
  <2>3. QED
    BY <2>2 DEF op
<1>5. QED
  BY <1>3, <1>4

LEMMA MovIs ==
  ASSUME NEW w \in {32, 64}, NEW v \in Int, NEW dst \in 0 .. 1
  PROVE  /\ AluImm("mov", w, dst, v) \in Lines /\ AluImm("mov", w, dst, v).kind = "ins"
         /\ AluImm("mov", w, dst, v).op = "mov"
<1>1. "mov" \in OpNames
  BY DEF OpNames
<1>2. QED
  BY <1>1, ImmLoads DEF Loads

(* A division by a register that holds 0.                                  *)
Divides(line, op, w, dst, src) ==
  /\ line \in Lines /\ line.kind = "ins" /\ line.op = op /\ line.w = w /\ line.dst = dst
  /\ line.src = src

LEMMA DivLines ==
  ASSUME NEW op \in Divisions, NEW w \in {32, 64}, NEW dst \in 0 .. 1, NEW src \in 0 .. 1
  PROVE  Divides(AluReg(op, w, dst, src), op, w, dst, src)
<1>1. op \in OpNames
  BY DEF Divisions, SignedDivisions, OpNames, Ops, OldOps, PqrOps
<1>2. dst \in Int /\ src \in Int
  OBVIOUS
<1>3. QED
  BY <1>1, <1>2, AluRegFields DEF Divides

LEMMA DivStuck ==
  ASSUME NEW op \in Divisions, NEW w \in {32, 64}, NEW dst \in 0 .. 1, NEW src \in 0 .. 1,
         NEW line, Divides(line, op, w, dst, src), NEW a \in 0 .. U64Max, NEW b,
         src = 0 => a = 0, src = 1 => b = 0, dst = 1 => b = 0
  PROVE  Stuck(line, Regs(a, b))
<1> DEFINE r == Regs(a, b)
<1>1. r[0] = a /\ r[1] = b
  BY RegsAre
<1> HIDE DEF r
<1>2. src \in {0, 1} /\ dst \in {0, 1} /\ src # Imm
  BY DEF Imm
<1>3. 0 \in 0 .. U64Max /\ Unsigned(w, 0) = 0
  BY SmallLoads
<1>4. r[src] = 0 /\ r[dst] \in 0 .. U64Max
  BY <1>1, <1>2, <1>3
<1>5. /\ line.op = op /\ line.w = w /\ line.dst = dst /\ line.src = src
      /\ line.src # Imm /\ line.src \in {Imm, 0, 1} /\ line.dst \in 0 .. 1
  BY <1>2 DEF Divides
<1>6. OperandOf(line, r) = 0
  BY <1>4, <1>5 DEF OperandOf
<1>7. op \in Ops
  BY DEF Divisions, SignedDivisions, Ops, OldOps, PqrOps
<1>8. Computes(line, r)
  BY <1>3, <1>4, <1>5, <1>6, <1>7 DEF Computes, Known
<1>9. DividesByZero(line.op, line.w, OperandOf(line, r))
  BY <1>3, <1>5, <1>6 DEF DividesByZero
<1>10. QED
  BY <1>8, <1>9 DEF Stuck, r

(* Two moves and a division, in V0.                                        *)
LEMMA TwoMovesFail ==
  ASSUME NEW p, p.version = "V0", NEW a, NEW b, NEW c,
         NEW op \in {"div", "mod"}, NEW w \in {32, 64}, NEW dst \in 0 .. 1, NEW src \in 0 .. 1,
         dst # src, Divides(c, op, w, dst, src),
         a \in Lines /\ a.kind = "ins" /\ a.op = "mov", b \in Lines /\ b.kind = "ins" /\ b.op = "mov",
         NEW r2, NEW x \in 0 .. 1, Passes(a, Regs(0, Input), r2), Passes(b, r2, Regs(x, 0)),
         DOMAIN r2 = 0 .. 1, src = 0 => x = 0,
         p.text \in {<<O(1), a, b, c, Exit>>, <<O(1), a, b, c, O(1), Exit>>}
  PROVE  IsStuck(p)
<1> DEFINE val == <<Regs(0, Input), Regs(0, Input), r2, Regs(x, 0)>>
           first == O(1)
           last == Exit
           n == 4
           X == Lines
           text == p.text
<1>1. /\ first \in X /\ a \in X /\ b \in X /\ c \in X /\ last \in X
      /\ first.kind = "ins" /\ first.op = "other" /\ first.size = 1 /\ last.kind = "ins"
      /\ a.kind = "ins" /\ b.kind = "ins" /\ c.kind = "ins" /\ c.op = op
  BY OFields, PlainFields DEF Divides
<1>2. text = <<first, a, b, c, last>> \/ text = <<first, a, b, c, first, last>>
  OBVIOUS
<1> HIDE DEF first, last, X, text
<1>3. /\ text \in Seq(X) /\ Len(text) >= 4
      /\ text[1] = first /\ text[2] = a /\ text[3] = b /\ text[4] = c
      /\ \A l \in 1 .. Len(text) : text[l] \in {first, a, b, c, last}
  <2>1. CASE text = <<first, a, b, c, last>>
    BY <1>1, <2>1
  <2>2. CASE text = <<first, a, b, c, first, last>>
    BY <1>1, <2>2
  <2>3. QED
    BY <1>2, <2>1, <2>2
<1>4. \A l \in 1 .. Len(text) : text[l].kind = "ins"
  BY <1>1, <1>3
<1>5. \A l \in 1 .. n : l = 1 \/ l = 2 \/ l = 3 \/ l = 4
  OBVIOUS
<1>6. \A l \in 1 .. n : text[l].op \notin Lacking(p.version) \cup {Half.op}
  <2> DEFINE bad == Lacking(p.version) \cup {Half.op}
  <2>1. op \notin bad /\ "mov" \notin bad /\ "other" \notin bad
    BY PlainFields DEF Lacking, PqrOps
  <2> HIDE DEF bad
  <2>2. text[1].op \notin bad /\ text[2].op \notin bad /\ text[3].op \notin bad /\ text[4].op \notin bad
    BY <1>1, <1>3, <2>1
  <2>3. QED
    BY <1>5, <2>2 DEF bad
<1>7. /\ val[1] = Regs(0, Input) /\ val[2] = Regs(0, Input) /\ val[3] = r2 /\ val[4] = Regs(x, 0)
      /\ \A l \in 1 .. n : DOMAIN val[l] = 0 .. 1
  BY RegsAre
<1> HIDE DEF val
<1>8. \A l \in 1 .. n - 1 : Passes(text[l], val[l], val[l + 1])
  <2>1. Passes(first, Regs(0, Input), Regs(0, Input))
    BY <1>1 DEF Passes
  <2>2. Passes(text[1], val[1], val[2]) /\ Passes(text[2], val[2], val[3]) /\ Passes(text[3], val[3], val[4])
    BY <1>3, <1>7, <2>1
  <2>3. \A l \in 1 .. n - 1 : l = 1 \/ l = 2 \/ l = 3
    OBVIOUS
  <2>4. QED
    BY <2>2, <2>3
<1>9. Stuck(text[n], val[n])
  <2>1. op \in Divisions /\ x \in 0 .. U64Max
    BY SmallLoads DEF Divisions
  <2>2. src \in 0 .. 1 /\ (src = 1 => 0 = 0) /\ (dst = 1 => 0 = 0) /\ (src = 0 => x = 0)
    OBVIOUS
  <2> DEFINE zero == 0
  <2>3. (src = 1 => zero = 0) /\ (dst = 1 => zero = 0)
    OBVIOUS
  <2> HIDE DEF zero
  <2>4. Stuck(c, Regs(x, zero))
    BY <2>1, <2>2, <2>3, DivStuck
  <2>5. QED
    BY <1>3, <1>7, <2>4 DEF zero
<1>10. n \in 1 .. Len(text) /\ val[1] = FirstRegs
  BY <1>3, <1>7, RegsAre
<1> HIDE DEF n
<1>11. Path(p, val, n)
  BY <1>3, <1>4, <1>6, <1>7, <1>8, <1>9, <1>10 DEF Path, X, text
<1>12. QED
  BY <1>11, PathsAreTraces

(* The seeds that divide by 0.                                             *)
LEMMA ByZeroFails == \A p \in V0ByZero : IsStuck(p)
<1>1. SUFFICES ASSUME NEW p \in V0ByZero PROVE IsStuck(p)
  OBVIOUS
<1>2. PICK op \in {"div", "mod"}, w \in {32, 64} :
        p = Fails(<<O(1), AluImm("mov", 32, 0, 1), AluImm("mov", 32, 1, 0), AluReg(op, w, 0, 1), Exit>>)
  BY DEF V0ByZero
<1> DEFINE a == AluImm("mov", 32, 0, 1)
           b == AluImm("mov", 32, 1, 0)
           c == AluReg(op, w, 0, 1)
           x == 1
           y == 0
           r2 == Regs(1, Input)
           half == 32
<1>3. p.version = "V0" /\ p.text = <<O(1), a, b, c, Exit>>
  <2> DEFINE text == <<O(1), a, b, c, Exit>>
  <2>1. p = Fails(text)
    BY <1>2
  <2> HIDE DEF text
  <2>2. p.version = "V0" /\ p.text = text
    BY <2>1, SeedFields DEF Fails
  <2>3. QED
    BY <2>2 DEF text
<1>4. op \in Divisions /\ x \in 0 .. 1 /\ y \in 0 .. 1 /\ half \in {32, 64} /\ x \in Int /\ y \in Int
  BY DEF Divisions
<1>5. a = AluImm("mov", half, y, x) /\ b = AluImm("mov", half, x, y) /\ c = AluReg(op, w, y, x)
  OBVIOUS
<1>6. Passes(a, Regs(0, Input), r2) /\ Passes(b, r2, Regs(x, 0))
  <2>1. /\ Unsigned(half, Immediate("mov", half, x)) = 1 /\ Unsigned(half, Immediate("mov", half, y)) = 0
    BY SmallLoads
  <2> DEFINE A == Regs(0, Input)
  <2>2. A = Regs(0, Input) /\ r2 = Regs(1, Input)
    OBVIOUS
  <2> HIDE DEF half, x, y, a, b, c
  <2>3. \A s, t : /\ Passes(AluImm("mov", half, 0, x), Regs(s, t), Regs(Unsigned(half, Immediate("mov", half, x)), t))
                  /\ Passes(AluImm("mov", half, 1, y), Regs(s, t), Regs(s, Unsigned(half, Immediate("mov", half, y))))
    BY <1>4, MovPasses
  <2>4. \A s, t : /\ Passes(AluImm("mov", half, 0, x), Regs(s, t), Regs(1, t))
                  /\ Passes(AluImm("mov", half, 1, y), Regs(s, t), Regs(s, 0))
    BY <2>1, <2>3
  <2>5. x = 1 /\ y = 0
    BY DEF x, y
  <2>6. a = AluImm("mov", half, 0, x) /\ b = AluImm("mov", half, 1, y)
    BY <1>5, <2>5
  <2>7. QED
    BY <2>4, <2>5, <2>6
<1>7. DOMAIN r2 = 0 .. 1
  BY RegsAre
<1>8. x # y /\ (x = 0 => x = 0)
  OBVIOUS
<1> HIDE DEF half, x, y, a, b, c, r2
<1>9. Divides(c, op, w, y, x)
  BY <1>4, <1>5, DivLines
<1>10. /\ a \in Lines /\ a.kind = "ins" /\ a.op = "mov"
       /\ b \in Lines /\ b.kind = "ins" /\ b.op = "mov"
  BY <1>4, <1>5, MovIs
<1>11. x = 0 => x = 0
  OBVIOUS
<1>12. p.text \in {<<O(1), a, b, c, Exit>>, <<O(1), a, b, c, O(1), Exit>>}
  BY <1>3
<1>13. QED
  BY <1>3, <1>4, <1>6, <1>7, <1>8, <1>9, <1>10, <1>11, <1>12, TwoMovesFail

LEMMA MeteredDivisionFails ==
  ASSUME NEW p, p.version = "V0",
         p.text = <<O(1), AluImm("mov", 64, 1, 0), AluImm("mov", 64, 0, 0), AluReg("div", 64, 1, 0),
                    O(1), Exit>>
  PROVE  IsStuck(p)
<1> DEFINE a == AluImm("mov", 64, 1, 0)
           b == AluImm("mov", 64, 0, 0)
           c == AluReg("div", 64, 1, 0)
           op == "div"
           x == 1
           y == 0
           r2 == Regs(0, 0)
           full == 64
<1>3. p.text = <<O(1), a, b, c, O(1), Exit>>
  OBVIOUS
<1>4. /\ op \in Divisions /\ op \in {"div", "mod"} /\ x \in 0 .. 1 /\ y \in 0 .. 1
      /\ full \in {32, 64} /\ x \in Int /\ y \in Int
  BY DEF Divisions
<1>5. a = AluImm("mov", full, x, y) /\ b = AluImm("mov", full, y, y) /\ c = AluReg(op, full, x, y)
  OBVIOUS
<1>6. Passes(a, Regs(0, Input), r2) /\ Passes(b, r2, Regs(y, 0))
  <2>1. Unsigned(full, Immediate("mov", full, y)) = 0
    BY SmallLoads
  <2>2. r2 = Regs(0, 0)
    OBVIOUS
  <2> HIDE DEF full, x, y, a, b, c
  <2>3. \A s, t : /\ Passes(AluImm("mov", full, 0, y), Regs(s, t), Regs(Unsigned(full, Immediate("mov", full, y)), t))
                  /\ Passes(AluImm("mov", full, 1, y), Regs(s, t), Regs(s, Unsigned(full, Immediate("mov", full, y))))
    BY <1>4, MovPasses
  <2>4. \A s, t : /\ Passes(AluImm("mov", full, 0, y), Regs(s, t), Regs(0, t))
                  /\ Passes(AluImm("mov", full, 1, y), Regs(s, t), Regs(s, 0))
    BY <2>1, <2>3
  <2>5. x = 1 /\ y = 0
    BY DEF x, y
  <2>6. a = AluImm("mov", full, 1, y) /\ b = AluImm("mov", full, 0, y)
    BY <1>5, <2>5
  <2>7. QED
    BY <2>4, <2>5, <2>6
<1>7. DOMAIN r2 = 0 .. 1
  BY RegsAre
<1>8. x # y
  OBVIOUS
<1>11. y = 0 => y = 0
  OBVIOUS
<1> HIDE DEF full, op, x, y, a, b, c, r2
<1>9. Divides(c, op, full, x, y)
  BY <1>4, <1>5, DivLines
<1>10. /\ a \in Lines /\ a.kind = "ins" /\ a.op = "mov"
       /\ b \in Lines /\ b.kind = "ins" /\ b.op = "mov"
  BY <1>4, <1>5, MovIs
<1>12. p.text \in {<<O(1), a, b, c, Exit>>, <<O(1), a, b, c, O(1), Exit>>}
  BY <1>3
<1>13. QED
  BY <1>4, <1>6, <1>7, <1>8, <1>9, <1>10, <1>11, <1>12, TwoMovesFail, SMTT(30)

LEMMA DivzeroFails == \A p \in GenDivzero : IsStuck(p)
<1>1. SUFFICES ASSUME NEW p \in GenDivzero PROVE IsStuck(p)
  OBVIOUS
<1>2. PICK op \in {"udiv", "urem", "sdiv", "srem"}, w \in {32, 64} :
        p = Seed("V2", "fails", 0, <<O(1), AluImm("mov", 32, 0, 0), AluReg(op, w, 0, 0), Exit>>)
  BY DEF GenDivzero
<1> DEFINE first == O(1)
           a == AluImm("mov", 32, 0, 0)
           c == AluReg(op, w, 0, 0)
           last == Exit
           R == Regs(0, Input)
           val == <<R, R, R>>
           n == 3
           y == 0
           half == 32
           text == p.text
<1>3. p.version = "V2" /\ text = <<first, a, c, last>>
  <2> DEFINE shape == <<first, a, c, last>>
  <2>1. p = Seed("V2", "fails", 0, shape)
    BY <1>2
  <2> HIDE DEF shape
  <2>2. p.version = "V2" /\ p.text = shape
    BY <2>1, SeedFields
  <2>3. QED
    BY <2>2 DEF shape
<1>4. /\ op \in Divisions /\ y \in 0 .. 1 /\ y \in Int /\ half \in {32, 64}
      /\ a = AluImm("mov", half, y, y) /\ c = AluReg(op, w, y, y) /\ y = 0
      /\ a = AluImm("mov", half, 0, y)
      /\ R = Regs(0, Input) /\ val[1] = R /\ val[2] = R /\ val[3] = R
  BY DEF Divisions, SignedDivisions
<1>5. Unsigned(half, Immediate("mov", half, y)) = 0 /\ y \in 0 .. U64Max
  BY SmallLoads
<1>6. DOMAIN R = 0 .. 1 /\ R = FirstRegs
  BY RegsAre
<1> HIDE DEF half, y, a, c, val, R
<1>7. Divides(c, op, w, y, y)
  BY <1>4, DivLines
<1>8. a \in Lines /\ a.kind = "ins" /\ a.op = "mov"
  BY <1>4, MovIs
<1>9. Passes(a, R, R)
  <2>1. \A s, t : Passes(AluImm("mov", half, 0, y), Regs(s, t), Regs(Unsigned(half, Immediate("mov", half, y)), t))
    BY <1>4, MovPasses
  <2>2. QED
    BY <1>4, <1>5, <2>1
<1>10. Stuck(c, R)
  <2> DEFINE b == Input
  <2>1. (y = 0 => y = 0) /\ (y = 1 => b = 0)
    BY <1>4
  <2> HIDE DEF b
  <2>2. Stuck(c, Regs(y, b))
    BY <1>4, <1>5, <1>7, <2>1, DivStuck
  <2>3. QED
    BY <1>4, <2>2 DEF b
<1>11. /\ first \in Lines /\ first.kind = "ins" /\ first.op = "other" /\ first.size = 1
       /\ c \in Lines /\ c.kind = "ins" /\ c.op = op /\ last \in Lines /\ last.kind = "ins"
  BY <1>7, OFields, PlainFields DEF Divides
<1> HIDE DEF first, last, text
<1>12. /\ text \in Seq(Lines) /\ Len(text) = 4
       /\ text[1] = first /\ text[2] = a /\ text[3] = c /\ text[4] = last
  <2> DEFINE X == Lines
  <2>1. first \in X /\ a \in X /\ c \in X /\ last \in X
    BY <1>8, <1>11
  <2> HIDE DEF X
  <2>2. text \in Seq(X) /\ Len(text) = 4
    BY <1>3, <2>1
  <2>3. text[1] = first /\ text[2] = a /\ text[3] = c /\ text[4] = last
    BY <1>3
  <2>4. QED
    BY <2>2, <2>3 DEF X
<1>13. \A l \in 1 .. Len(text) : l = 1 \/ l = 2 \/ l = 3 \/ l = 4
  BY <1>12
<1>14. \A l \in 1 .. Len(text) : text[l].kind = "ins"
  BY <1>8, <1>11, <1>12, <1>13
<1>15. \A l \in 1 .. n : l = 1 \/ l = 2 \/ l = 3
  OBVIOUS
<1>16. \A l \in 1 .. n : text[l].op \notin Lacking(p.version) \cup {Half.op}
  <2> DEFINE bad == Lacking(p.version) \cup {Half.op}
  <2>1. op \notin bad /\ "mov" \notin bad /\ "other" \notin bad
    BY <1>3, PlainFields DEF Lacking, OldOps
  <2> HIDE DEF bad
  <2>2. QED
    BY <1>8, <1>11, <1>12, <1>15, <2>1 DEF bad
<1>17. \A l \in 1 .. n : val[l] = R
  BY <1>4, <1>15
<1>18. \A l \in 1 .. n - 1 : Passes(text[l], val[l], val[l + 1])
  <2>1. Passes(first, R, R)
    BY <1>11 DEF Passes
  <2>2. Passes(text[1], val[1], val[2]) /\ Passes(text[2], val[2], val[3])
    BY <1>4, <1>9, <1>12, <2>1
  <2>3. \A l \in 1 .. n - 1 : l = 1 \/ l = 2
    OBVIOUS
  <2>4. QED
    BY <2>2, <2>3
<1>19. Stuck(text[n], val[n]) /\ n \in 1 .. Len(text)
  BY <1>4, <1>10, <1>12
<1> HIDE DEF n
<1>20. Path(p, val, n)
  BY <1>4, <1>6, <1>12, <1>14, <1>16, <1>17, <1>18, <1>19 DEF Path, text
<1>21. QED
  BY <1>20, PathsAreTraces

(* The smallest number of a width, shifted into r0, divided by -1.         *)
LEMMA SmallestShift ==
  ASSUME NEW w \in {32, 64}
  PROVE  /\ Smallest(w) \in 0 .. Bits(64) - 1 /\ Smallest(w) \in Int
         /\ Immediate("lsh", 64, Smallest(w)) = Smallest(w) /\ Smallest(w) \in 0 .. U64Max
         /\ 2 ^ Smallest(w) \in 0 .. U64Max
         /\ Result("lsh", 64, 1, Smallest(w)) = 2 ^ Smallest(w)
         /\ Signed(w, 2 ^ Smallest(w)) = -(2 ^ (Bits(w) - 1)) /\ Signed(w, U64Max) = -1
<1> DEFINE h == 2 ^ (W - 1)
           k == 2 ^ W
           hh == 2 ^ (2 * W - 1)
           kk == 2 ^ (2 * W)
           s == Smallest(w)
           q == 2 ^ s
<1>1. /\ h \in Nat /\ k \in Nat /\ hh \in Nat /\ kk \in Nat /\ h >= 16 /\ k = 2 * h /\ hh > k
      /\ kk = 2 * hh /\ U64Max = kk - 1 /\ U32Max = k - 1
      /\ \A v : Unsigned(32, v) = v % k /\ Unsigned(64, v) = v % kk
      /\ \A v : Signed(32, v) = IF v % k < h THEN v % k ELSE (v % k) - k
      /\ \A v : Signed(64, v) = IF v % kk < hh THEN v % kk ELSE (v % kk) - kk
  BY Powers, Widths DEF U64Max, U32Max
<1>2. W \in Nat /\ W >= 5 /\ 2 * W <= k
  BY WidthAssumption, PowersOfTwo
<1>3. Bits(32) = W /\ Bits(64) = 2 * W
  BY DEF Bits
<1>4. (w = 32 => s = W - 1) /\ (w = 64 => s = 2 * W - 1)
  BY <1>3 DEF Smallest
<1>5. w = 32 \/ w = 64
  OBVIOUS
<1>6. s \in Nat /\ s <= 2 * W - 1
  BY <1>2, <1>4, <1>5
<1>7. (w = 32 => q = h) /\ (w = 64 => q = hh)
  BY <1>4
<1>8. Unsigned(32, U64Max) = U32Max /\ Unsigned(64, U64Max) = U64Max
  BY Remainders
<1>9. (w = 32 => 2 ^ (Bits(w) - 1) = h) /\ (w = 64 => 2 ^ (Bits(w) - 1) = hh)
  BY <1>3
<1> HIDE DEF h, k, hh, kk, s, q
<1>10. \A v : v \in 0 .. kk - 1 => v % kk = v
  BY <1>1
<1>11. \A v : v \in 0 .. k - 1 => v % k = v
  BY <1>1
<1>12. q \in Nat /\ q \in 0 .. kk - 1 /\ s \in 0 .. kk - 1
  BY <1>1, <1>2, <1>5, <1>6, <1>7
<1>13. s \in 0 .. 2 * W - 1
  BY <1>2, <1>6
<1>14. Immediate("lsh", 64, s) = s
  BY <1>1, <1>10, <1>12 DEF Immediate
<1>15. Result("lsh", 64, 1, s) = q
  <2> DEFINE one == 1
  <2>1. one \in 0 .. kk - 1
    BY <1>1
  <2>2. Unsigned(64, one) = one /\ Unsigned(64, s) = s
    BY <1>1, <1>10, <1>12, <2>1
  <2>3. 2 ^ Bits(64) = kk
    BY <1>3 DEF kk
  <2>4. Result("lsh", 64, one, s) = (Unsigned(64, one) * 2 ^ Unsigned(64, s)) % 2 ^ Bits(64)
    BY Zenon DEF Result
  <2>5. Result("lsh", 64, one, s) = (one * q) % kk
    BY <2>2, <2>3, <2>4, Zenon DEF q
  <2>6. one * q = q
    BY <1>12
  <2>7. QED
    BY <1>10, <1>12, <2>5, <2>6
<1>16. Signed(w, q) = -(2 ^ (Bits(w) - 1))
  <2>1. CASE w = 32
    <3>1. h % k = h
      BY <1>1, <1>11
    <3>2. Signed(w, q) = h - k
      BY <1>1, <1>7, <2>1, <3>1
    <3>3. 2 ^ (Bits(w) - 1) = h
      BY <1>9, <2>1
    <3>4. QED
      BY <1>1, <3>2, <3>3
  <2>2. CASE w = 64
    <3>1. hh % kk = hh
      BY <1>1, <1>10
    <3>2. Signed(w, q) = hh - kk
      BY <1>1, <1>7, <2>2, <3>1
    <3>3. 2 ^ (Bits(w) - 1) = hh
      BY <1>9, <2>2
    <3>4. QED
      BY <1>1, <3>2, <3>3
  <2>3. QED
    BY <1>5, <2>1, <2>2
<1>17. Signed(w, U64Max) = -1
  <2>1. U64Max % k = k - 1 /\ U64Max % kk = kk - 1
    BY <1>1, <1>8
  <2> DEFINE top == U64Max
  <2>2. (w = 32 => Signed(w, top) = k - 1 - k) /\ (w = 64 => Signed(w, top) = kk - 1 - kk)
    BY <1>1, <2>1
  <2>3. QED
    BY <1>1, <1>5, <2>2
<1>18. QED
  BY <1>1, <1>3, <1>6, <1>12, <1>13, <1>14, <1>15, <1>16, <1>17 DEF s, q

(* The line that makes the smallest number passes.                         *)
LEMMA ShiftPasses ==
  ASSUME NEW w \in {32, 64}, NEW b
  PROVE  LET line == AluImm("lsh", 64, 0, Smallest(w))
         IN  /\ line \in Lines /\ line.kind = "ins" /\ line.op = "lsh"
             /\ Passes(line, Regs(1, b), Regs(2 ^ Smallest(w), b))
<1> DEFINE k == Smallest(w)
           line == AluImm("lsh", 64, 0, k)
           r == Regs(1, b)
           zero == 0
           full == 64
           op == "lsh"
           one == 1
           q == 2 ^ k
<1>1. /\ k \in 0 .. Bits(64) - 1 /\ k \in Int /\ Immediate(op, full, k) = k /\ k \in 0 .. U64Max
      /\ Result(op, full, one, k) = q
  BY SmallestShift
<1>2. op \in OpNames /\ full \in {32, 64} /\ zero \in 0 .. 1 /\ op \in Ops /\ op \in Shifts
  BY DEF OpNames, Ops, Shifts
<1>3. line = AluImm(op, full, zero, k) /\ zero = 0 /\ full = 64 /\ op = "lsh"
  OBVIOUS
<1>4. r[0] = one /\ DOMAIN r = 0 .. 1 /\ [r EXCEPT ![0] = q] = Regs(q, b) /\ one \in 0 .. U64Max
  BY RegsAre, SmallLoads
<1> HIDE DEF k, line, r, q, one
<1>5. Loads(line, op, full, zero, k)
  <2> HIDE DEF op, full, zero
  <2>1. QED
    BY <1>1, <1>2, <1>3, ImmLoads
<1>6. /\ line \in Lines /\ line.kind = "ins" /\ line.op = "lsh" /\ line.w = 64 /\ line.dst = 0
      /\ line.src = Imm /\ line.imm = k
  BY <1>3, <1>5 DEF Loads
<1>7. OperandOf(line, r) = k
  BY <1>1, <1>6 DEF OperandOf
<1>8. Computes(line, r)
  BY <1>1, <1>2, <1>4, <1>6, <1>7 DEF Computes, Known
<1>9. ~ Stuck(line, r)
  BY <1>6 DEF Stuck, DividesByZero, Overflows, Divisions, SignedDivisions
<1>10. Regs(q, b) = [r EXCEPT ![line.dst] = Result(line.op, line.w, r[line.dst], OperandOf(line, r))]
  BY <1>1, <1>4, <1>6, <1>7
<1>11. line.imm \in 0 .. Bits(line.w) - 1
  BY <1>1, <1>6
<1>12. Passes(line, r, Regs(q, b))
  BY <1>2, <1>6, <1>8, <1>9, <1>10, <1>11 DEF Passes
<1>13. QED
  BY <1>6, <1>12 DEF k, line, r, q, one

(* The line of the division, by -1 as an immediate or in r1.               *)
LEMMA OverflowStuck ==
  ASSUME NEW op \in {"sdiv", "srem"}, NEW w \in {32, 64},
         NEW c \in {AluImm(op, w, 0, -1), AluReg(op, w, 0, 1)}
  PROVE  /\ c \in Lines /\ c.kind = "ins" /\ c.op = op
         /\ Stuck(c, Regs(2 ^ Smallest(w), U64Max))
<1> DEFINE q == 2 ^ Smallest(w)
           r == Regs(q, U64Max)
           zero == 0
           one == 1
           neg == -1
           top == U64Max
<1>1. /\ q \in 0 .. U64Max /\ Signed(w, q) = -(2 ^ (Bits(w) - 1)) /\ Signed(w, top) = -1
  BY SmallestShift
<1>2. /\ zero \in 0 .. 1 /\ neg \in Int /\ op \in OpNames /\ op \in Ops /\ op \in SignedDivisions
      /\ zero \in Int /\ one \in Int
  <2>1. op \in OpNames /\ op \in Ops /\ op \in SignedDivisions
    BY DEF OpNames, Ops, PqrOps, SignedDivisions
  <2>2. QED
    BY <2>1
<1>3. Unsigned(64, -1) = U64Max /\ U64Max \in 0 .. U64Max
  BY Remainders
<1>4. r[0] = q /\ r[1] = top
  BY RegsAre
<1>5. c = AluImm(op, w, zero, neg) \/ c = AluReg(op, w, zero, one)
  OBVIOUS
<1>6. zero = 0 /\ one = 1 /\ neg = -1
  OBVIOUS
<1> HIDE DEF q, r, zero, one, neg, top
<1>7. /\ c \in Lines /\ c.kind = "ins" /\ c.op = op /\ c.w = w /\ c.dst = 0
      /\ (c.src = Imm /\ c.imm = -1) \/ c.src = 1
  <2>1. CASE c = AluImm(op, w, zero, neg)
    <3>1. Loads(c, op, w, zero, neg)
      BY <1>2, <2>1, ImmLoads
    <3>2. QED
      BY <1>6, <3>1 DEF Loads
  <2>2. CASE c = AluReg(op, w, zero, one)
    BY <1>2, <1>6, <2>2, AluRegFields
  <2>3. QED
    BY <1>5, <2>1, <2>2
<1>8. OperandOf(c, r) = top
  <2>1. CASE c.src = Imm /\ c.imm = -1
    <3>1. Immediate(op, w, -1) = Unsigned(64, -1)
      BY DEF Immediate
    <3>2. QED
      BY <1>3, <1>7, <2>1, <3>1 DEF OperandOf, top
  <2>2. CASE c.src = 1
    BY <1>4, <2>2 DEF OperandOf, Imm
  <2>3. QED
    BY <1>7, <2>1, <2>2
<1>9. top \in 0 .. U64Max
  BY <1>3 DEF top
<1>10. Computes(c, r)
  BY <1>1, <1>2, <1>4, <1>7, <1>8, <1>9 DEF Computes, Known
<1>11. Overflows(c.op, c.w, r[c.dst], OperandOf(c, r))
  BY <1>1, <1>2, <1>4, <1>7, <1>8 DEF Overflows
<1>12. QED
  BY <1>7, <1>10, <1>11 DEF Stuck, r, q

(* The seeds whose division overflows.                                     *)
LEMMA OverflowFails == \A p \in GenDivoverflow : IsStuck(p)
<1>1. SUFFICES ASSUME NEW p \in GenDivoverflow PROVE IsStuck(p)
  OBVIOUS
<1>a. PICK op \in {"sdiv", "srem"}, w \in {32, 64} :
        \E c \in {AluImm(op, w, 0, -1), AluReg(op, w, 0, 1)} :
          p = Seed("V2", "fails", 0,
                   <<O(1), AluImm("mov", 64, 0, 1), AluImm("lsh", 64, 0, Smallest(w)),
                     AluImm("mov", 64, 1, -1), c, Exit>>)
  BY DEF GenDivoverflow
<1>2. PICK c \in {AluImm(op, w, 0, -1), AluReg(op, w, 0, 1)} :
        p = Seed("V2", "fails", 0,
                 <<O(1), AluImm("mov", 64, 0, 1), AluImm("lsh", 64, 0, Smallest(w)),
                   AluImm("mov", 64, 1, -1), c, Exit>>)
  BY <1>a
<1> DEFINE first == O(1)
           a == AluImm("mov", 64, 0, 1)
           s == AluImm("lsh", 64, 0, Smallest(w))
           b == AluImm("mov", 64, 1, -1)
           last == Exit
           q == 2 ^ Smallest(w)
           R0 == Regs(0, Input)
           R1 == Regs(1, Input)
           R2 == Regs(q, Input)
           R3 == Regs(q, U64Max)
           val == <<R0, R0, R1, R2, R3>>
           n == 5
           one == 1
           neg == -1
           zero == 0
           full == 64
           text == p.text
<1>3. p.version = "V2" /\ text = <<first, a, s, b, c, last>>
  <2> DEFINE shape == <<first, a, s, b, c, last>>
  <2>1. p = Seed("V2", "fails", 0, shape)
    BY <1>2
  <2> HIDE DEF shape
  <2>2. p.version = "V2" /\ p.text = shape
    BY <2>1, SeedFields
  <2>3. QED
    BY <2>2 DEF shape
<1>4. /\ zero \in 0 .. 1 /\ one \in 0 .. 1 /\ one \in Int /\ neg \in Int /\ full \in {32, 64}
      /\ a = AluImm("mov", full, zero, one) /\ b = AluImm("mov", full, one, neg)
      /\ a = AluImm("mov", full, 0, one) /\ b = AluImm("mov", full, 1, neg)
      /\ val[1] = R0 /\ val[2] = R0 /\ val[3] = R1 /\ val[4] = R2 /\ val[5] = R3
  OBVIOUS
<1>5. Unsigned(full, Immediate("mov", full, one)) = 1 /\ Unsigned(full, Immediate("mov", full, neg)) = U64Max
  BY SmallLoads
<1>6. /\ DOMAIN R0 = 0 .. 1 /\ DOMAIN R1 = 0 .. 1 /\ DOMAIN R2 = 0 .. 1 /\ DOMAIN R3 = 0 .. 1
      /\ R0 = FirstRegs
  BY RegsAre
<1>7. c \in Lines /\ c.kind = "ins" /\ c.op = op /\ Stuck(c, R3)
  BY OverflowStuck
<1>8. s \in Lines /\ s.kind = "ins" /\ s.op = "lsh" /\ Passes(s, R1, R2)
  BY ShiftPasses
<1>9. Passes(a, R0, R1) /\ Passes(b, R2, R3)
  <2> HIDE DEF full, one, neg, a, b, q
  <2>1. \A x, y : /\ Passes(AluImm("mov", full, 0, one), Regs(x, y), Regs(Unsigned(full, Immediate("mov", full, one)), y))
                  /\ Passes(AluImm("mov", full, 1, neg), Regs(x, y), Regs(x, Unsigned(full, Immediate("mov", full, neg))))
    BY <1>4, MovPasses
  <2>2. \A x, y : Passes(a, Regs(x, y), Regs(1, y)) /\ Passes(b, Regs(x, y), Regs(x, U64Max))
    BY <1>4, <1>5, <2>1
  <2>3. QED
    BY <2>2
<1> HIDE DEF full, one, neg, zero, a, s, b, val, R0, R1, R2, R3
<1>10. a \in Lines /\ a.kind = "ins" /\ a.op = "mov" /\ b \in Lines /\ b.kind = "ins" /\ b.op = "mov"
  BY <1>4, MovIs
<1>11. /\ first \in Lines /\ first.kind = "ins" /\ first.op = "other" /\ first.size = 1
       /\ last \in Lines /\ last.kind = "ins"
  BY OFields, PlainFields
<1> HIDE DEF first, last, text
<1>12. /\ text \in Seq(Lines) /\ Len(text) = 6
       /\ text[1] = first /\ text[2] = a /\ text[3] = s /\ text[4] = b /\ text[5] = c /\ text[6] = last
  <2> DEFINE X == Lines
  <2>1. first \in X /\ a \in X /\ s \in X /\ b \in X /\ c \in X /\ last \in X
    BY <1>7, <1>8, <1>10, <1>11
  <2> HIDE DEF X
  <2>2. text \in Seq(X) /\ Len(text) = 6
    BY <1>3, <2>1
  <2>3. text[1] = first /\ text[2] = a /\ text[3] = s /\ text[4] = b /\ text[5] = c /\ text[6] = last
    BY <1>3
  <2>4. QED
    BY <2>2, <2>3 DEF X
<1>13. \A l \in 1 .. Len(text) : l = 1 \/ l = 2 \/ l = 3 \/ l = 4 \/ l = 5 \/ l = 6
  BY <1>12
<1>14. \A l \in 1 .. Len(text) : text[l].kind = "ins"
  BY <1>7, <1>8, <1>10, <1>11, <1>12, <1>13
<1>15. \A l \in 1 .. n : l = 1 \/ l = 2 \/ l = 3 \/ l = 4 \/ l = 5
  OBVIOUS
<1>16. \A l \in 1 .. n : text[l].op \notin Lacking(p.version) \cup {Half.op}
  <2> DEFINE bad == Lacking(p.version) \cup {Half.op}
  <2>1. op \notin bad /\ "mov" \notin bad /\ "other" \notin bad /\ "lsh" \notin bad
    BY <1>3, PlainFields DEF Lacking, OldOps
  <2> HIDE DEF bad
  <2>2. QED
    BY <1>7, <1>8, <1>10, <1>11, <1>12, <1>15, <2>1 DEF bad
<1>17. \A l \in 1 .. n : DOMAIN val[l] = 0 .. 1
  BY <1>4, <1>6, <1>15
<1>18. \A l \in 1 .. n - 1 : Passes(text[l], val[l], val[l + 1])
  <2>1. Passes(first, R0, R0)
    BY <1>11 DEF Passes
  <2>2. /\ Passes(text[1], val[1], val[2]) /\ Passes(text[2], val[2], val[3])
        /\ Passes(text[3], val[3], val[4]) /\ Passes(text[4], val[4], val[5])
    BY <1>4, <1>8, <1>9, <1>12, <2>1
  <2>3. \A l \in 1 .. n - 1 : l = 1 \/ l = 2 \/ l = 3 \/ l = 4
    OBVIOUS
  <2>4. QED
    BY <2>2, <2>3
<1>19. Stuck(text[n], val[n]) /\ n \in 1 .. Len(text)
  BY <1>4, <1>7, <1>12
<1> HIDE DEF n
<1>20. Path(p, val, n)
  BY <1>4, <1>6, <1>12, <1>14, <1>16, <1>17, <1>18, <1>19 DEF Path, text
<1>21. QED
  BY <1>20, PathsAreTraces

(* A seed that is named for its failure is known by one of three reasons.  *)
Failing(p) == p.says = "fails" => IsTrapped(p) \/ IsStuck(p) \/ p.text = CallsBack

(* The sets of seeds, one by one.                                          *)
LEMMA BlamelessFailing == \A p : Blameless(p) => Failing(p)
  BY DEF Blameless, Failing

LEMMA FailsFields ==
  ASSUME NEW shape
  PROVE  /\ Fails(shape).version = "V0" /\ Fails(shape).says = "fails" /\ Fails(shape).mem = 0
         /\ Fails(shape).text = shape
  BY SeedFields DEF Fails

LEMMA BlamelessKinds ==
  /\ \A shape : Failing(Runs(shape)) /\ Failing(Unclaimed(shape))
  /\ \A version, mem, shape : /\ Failing(Seed(version, "runs", mem, shape))
                              /\ Failing(Seed(version, "nothing", mem, shape))
  BY SeedsAre, BlamelessFailing DEF Runs, Unclaimed

LEMMA VariantsFailing == \A p \in GenLdxStxVariants : Failing(p)
<1> DEFINE wrong == <<O(1), Mem(6, 8), Exit>>
<1>1. SUFFICES ASSUME NEW p, NEW mem \in {12, 0}, p = Seed("V0", "fails", mem, wrong)
               PROVE  Failing(p)
  BY BlamelessKinds DEF GenLdxStxVariants
<1> HIDE DEF wrong
<1>2. p.text = wrong /\ p.mem = mem
  BY <1>1, SeedFields
<1> DEFINE off == 6
           size == 8
<1>3. off \in Int /\ size \in Nat /\ ~ (off >= 0 /\ off + size <= p.mem) /\ p.text = <<O(1), Mem(off, size), Exit>>
  BY <1>2 DEF wrong
<1> HIDE DEF off, size
<1>4. IsTrapped(p)
  BY <1>3, OutOfMemoryFails
<1>5. QED
  BY <1>4 DEF Failing

LEMMA CallsFailing == \A p \in GenStackCalls : Failing(p)
<1> DEFINE x == <<O(2), Callx(Nowhere), Exit>>
           y == <<O(1), Lddw, Callx(Nowhere), Exit>>
<1>1. SUFFICES ASSUME NEW p, p = Fails(x) \/ p = Fails(y) PROVE Failing(p)
  <2>1. \A p \in GenStackCalls : Failing(p) \/ p = Fails(x) \/ p = Fails(y)
    BY BlamelessKinds DEF GenStackCalls
  <2>2. QED
    BY <2>1
<1> HIDE DEF x, y
<1>2. CASE p = Fails(x)
  <2> DEFINE n == 2
  <2>1. p.text = x
    BY <1>2, FailsFields
  <2>2. n \in Nat \ {0} /\ p.text \in {<<O(n), Callx(Nowhere), Exit>>, <<O(n), Callx(Nowhere), O(1), Exit>>}
    BY <2>1 DEF x
  <2> HIDE DEF n
  <2>3. IsTrapped(p)
    BY <2>2, NowhereFails
  <2>4. QED
    BY <2>3 DEF Failing
<1>3. CASE p = Fails(y)
  <2>1. p.text = y
    BY <1>3, FailsFields
  <2>2. IsTrapped(p)
    BY <2>1, NowhereAfterLddwFails DEF y
  <2>3. QED
    BY <2>2 DEF Failing
<1>4. QED
  BY <1>1, <1>2, <1>3

LEMMA MeterFailing == \A p \in GenInstructionMeter : Failing(p)
<1> DEFINE a == <<O(1), Ja(-1), Exit>>
           b == <<Label(Entrypoint), O(2), Call(Entrypoint), Exit>>
           c == <<O(4), Call(Foo), Exit, Label(Foo), O(1), Callx(6), Exit>>
           d == <<O(1), O(7), Ja(-8), Exit>>
           e == <<O(1), AluImm("mov", 64, 1, 0), AluImm("mov", 64, 0, 0), AluReg("div", 64, 1, 0), O(1), Exit>>
           f == <<O(3), Callx(Nowhere), O(1), Exit>>
           n == 3
<1>1. SUFFICES ASSUME NEW p, NEW x \in {a, b, c, d, e, f}, p = Fails(x) PROVE Failing(p)
  <2>1. \A p \in GenInstructionMeter : Failing(p) \/ \E x \in {a, b, c, d, e, f} : p = Fails(x)
    BY BlamelessKinds DEF GenInstructionMeter
  <2>2. QED
    BY <2>1
<1> HIDE DEF a, b, c, d, e, f
<1>2. p.text = x /\ p.version = "V0"
  BY <1>1, FailsFields
<1>3. x = a => IsTrapped(p)
  BY <1>2, LoopFails DEF a
<1>4. x = b => IsTrapped(p)
  BY <1>2, EntrypointAgainFails DEF b
<1>5. x = c => IsTrapped(p)
  BY <1>2, AddressAgainFails DEF c
<1>6. x = d => IsTrapped(p)
  BY <1>2, LongLoopFails DEF d
<1>7. x = e => IsStuck(p)
  BY <1>2, MeteredDivisionFails DEF e
<1>8. x = f => IsTrapped(p)
  <2>1. ASSUME x = f PROVE IsTrapped(p)
    <3>1. n \in Nat \ {0} /\ p.text \in {<<O(n), Callx(Nowhere), Exit>>, <<O(n), Callx(Nowhere), O(1), Exit>>}
      BY <1>2, <2>1 DEF f
    <3> HIDE DEF n
    <3>2. QED
      BY <3>1, NowhereFails
  <2>2. QED
    BY <2>1
<1>9. QED
  BY <1>3, <1>4, <1>5, <1>6, <1>7, <1>8 DEF Failing

LEMMA CallxFailing == \A p \in GenCallxOther : Failing(p)
<1> DEFINE x == <<O(4), Callx(Nowhere), Exit>>
           n == 4
<1>1. SUFFICES ASSUME NEW p, p = Fails(x) \/ p = Fails(CallsBack) PROVE Failing(p)
  <2>1. \A p \in GenCallxOther : Failing(p) \/ p = Fails(x) \/ p = Fails(CallsBack)
    BY BlamelessKinds DEF GenCallxOther, CallsBack
  <2>2. QED
    BY <2>1
<1> HIDE DEF x
<1>2. CASE p = Fails(CallsBack)
  BY <1>2, FailsFields DEF Failing
<1>3. CASE p = Fails(x)
  <2>1. p.text = x
    BY <1>3, FailsFields
  <2>2. n \in Nat \ {0} /\ p.text \in {<<O(n), Callx(Nowhere), Exit>>, <<O(n), Callx(Nowhere), O(1), Exit>>}
    BY <2>1 DEF x
  <2> HIDE DEF n
  <2>3. IsTrapped(p)
    BY <2>2, NowhereFails
  <2>4. QED
    BY <2>3 DEF Failing
<1>4. QED
  BY <1>1, <1>2, <1>3

LEMMA SpecificFailing == \A p \in GenV0Specific : Failing(p)
<1> DEFINE a == <<O(4), Callx(8), O(2), Lddw, Exit>>
           b == <<O(1), Lddw, Callx(8), O(2), Exit, Lddw, Exit>>
           c == <<O(1), StackOutOfBounds, Exit>>
           d == <<O(2)>>
           e == <<O(1), Lddw>>
           f == <<O(6), Syscall, O(1), Exit>>
           off == -1
           size == 1
<1>1. SUFFICES ASSUME NEW p, p \in V0ByZero \/ \E x \in {a, b, c, d, e, f} : p = Fails(x) PROVE Failing(p)
  <2>1. \A p \in V0Plain : Failing(p)
    BY BlamelessKinds DEF V0Plain
  <2>2. \A p \in GenByteswap : Failing(p)
    BY BlamelessKinds DEF GenByteswap
  <2>3. \A p \in V0LddwCallx : Failing(p) \/ \E x \in {a, b, c, d, e, f} : p = Fails(x)
    BY BlamelessKinds DEF V0LddwCallx
  <2>4. \A p \in GenV0Specific : p \in V0ByZero \/ Failing(p) \/ \E x \in {a, b, c, d, e, f} : p = Fails(x)
    BY <2>1, <2>2, <2>3, BlamelessKinds DEF GenV0Specific
  <2>5. QED
    BY <2>4
<1>2. CASE p \in V0ByZero
  BY <1>2, ByZeroFails DEF Failing
<1>3. CASE \E x \in {a, b, c, d, e, f} : p = Fails(x)
  <2> HIDE DEF a, b, c, d, e, f
  <2>1. PICK x \in {a, b, c, d, e, f} : p = Fails(x)
    BY <1>3
  <2>2. p.text = x /\ p.mem = 0
    BY <2>1, FailsFields
  <2>3. x = a => IsTrapped(p)
    BY <2>2, HalfOfLddwFails DEF a
  <2>4. x = b => IsTrapped(p)
    BY <2>2, HalfOfLaterLddwFails DEF b
  <2>5. x = d => IsTrapped(p)
    BY <2>2, NoExitFails DEF d
  <2>6. x = e => IsTrapped(p)
    BY <2>2, NoExitAfterLddwFails DEF e
  <2>7. x = f => IsTrapped(p)
    BY <2>2, UnregisteredFails DEF f
  <2>8. x = c => IsTrapped(p)
    <3>1. ASSUME x = c PROVE IsTrapped(p)
      <4>1. off \in Int /\ size \in Nat /\ ~ (off >= 0 /\ off + size <= p.mem)
        OBVIOUS
      <4>2. p.text = <<O(1), Mem(off, size), Exit>>
        BY <2>2, <3>1 DEF c, StackOutOfBounds
      <4> HIDE DEF off, size
      <4>3. QED
        BY <4>1, <4>2, OutOfMemoryFails
    <3>2. QED
      BY <3>1
  <2>9. QED
    BY <2>3, <2>4, <2>5, <2>6, <2>7, <2>8 DEF Failing
<1>4. QED
  BY <1>1, <1>2, <1>3

(* Every seed.                                                             *)
LEMMA AllFailing ==
  ASSUME NEW p \in AllPrograms
  PROVE  Failing(p)
<1>1. CASE p \in GenV0Pqr \cup GenV2Pqr
  BY <1>1, CasesSay DEF SaysCase, Failing
<1>2. CASE p \in GenDivzero \cup GenDivoverflow
  BY <1>2, DivzeroFails, OverflowFails DEF Failing
<1>3. ASSUME NEW version, p \in StressPrograms(version) \cup MemoryPatterns(version) PROVE Failing(p)
  BY <1>3, StressSeeds, BlamelessFailing
<1>4. CASE p \in GeneralCorpus \cup Demos
  BY <1>4, CorpusSeeds, BlamelessFailing, VariantsFailing, CallsFailing, MeterFailing, CallxFailing,
     SpecificFailing
<1>5. QED
  BY <1>1, <1>2, <1>3, <1>4 DEF AllPrograms, PqrPrograms

-----------------------------------------------------------------------------
FailInv == prog \in AllPrograms /\ TrappedInv /\ TracedInv /\ CallsBackInv

(* FailInv is inductive.                                                   *)
LEMMA FailInvStarts == Init => FailInv
  BY TrappedStarts, TracedStarts, CallsBackStarts DEF FailInv, Init

LEMMA FailInvKept == FailInv /\ [Next]_vars => FailInv'
<1>1. SUFFICES ASSUME FailInv, [Next]_vars PROVE FailInv'
  OBVIOUS
<1>2. prog \in AllPrograms /\ TrappedInv /\ TracedInv /\ CallsBackInv
  BY <1>1 DEF FailInv
<1>3. TrappedInv' /\ TracedInv' /\ CallsBackInv'
  BY <1>1, <1>2, TrappedKept, TracedKept, CallsBackKept
<1>4. prog' = prog
  BY <1>1, ProgIsKept
<1>5. QED
  BY <1>2, <1>3, <1>4 DEF FailInv

(* A seed on a trace that gets stuck does not exit.                        *)
LEMMA StuckDoesNotExit ==
  ASSUME TracedInv, NEW st, NEW val, NEW n, Traced(prog, st, val, n), Stuck(prog.text[n], val[n])
  PROVE  status # "exited"
<1>1. OnTrace(st, val, n)
  BY DEF TracedInv
<1>2. prog.text[n].op # "exit"
  BY DEF Stuck, Computes, Ops, OldOps, PqrOps, Shifts
<1>3. QED
  BY <1>1, <1>2 DEF OnTrace

(* A program that is named for its failure never gets to a normal end, for *)
(* every width of the values and every depth of calls: it is caught among  *)
(* lines that cannot exit, its division gets stuck, or its callee comes    *)
(* back to nothing (gen_pqr.rs:153-203, gen_corpus.rs:435-446, 797-886,    *)
(* 1184-1190, 1205-1242, 1284-1303, 1457-1469, 1498-1510).                 *)
THEOREM FailuresNeverExit == Spec => []FailuresFail
<1>1. FailInv => FailuresFail
  <2>1. SUFFICES ASSUME FailInv, prog.says = "fails" PROVE status # "exited"
    BY DEF FailuresFail
  <2>2. prog \in AllPrograms /\ TrappedInv /\ TracedInv /\ CallsBackInv
    BY <2>1 DEF FailInv
  <2>3. IsTrapped(prog) \/ IsStuck(prog) \/ prog.text = CallsBack
    BY <2>1, <2>2, AllFailing DEF Failing
  <2>4. CASE IsTrapped(prog)
    BY <2>2, <2>4 DEF IsTrapped, TrappedInv
  <2>5. CASE IsStuck(prog)
    BY <2>2, <2>5, StuckDoesNotExit DEF IsStuck
  <2>6. CASE prog.text = CallsBack
    BY <2>2, <2>6 DEF CallsBackInv
  <2>7. QED
    BY <2>3, <2>4, <2>5, <2>6
<1>2. Spec => []FailInv
  BY FailInvStarts, FailInvKept, PTL DEF Spec
<1>3. QED
  BY <1>1, <1>2, PTL
=============================================================================
