------------------------------ MODULE CliProofs ------------------------------
(***************************************************************************)
(* Proofs about the command line of main(), for lines of any length over   *)
(* any words: the loop that skips ahead over values reads every line as it *)
(* is meant, and the documented lines do what they are for.                *)
(***************************************************************************)
EXTENDS Cli, Integers, FiniteSetTheorems, SequenceTheorems, TLAPS

Options ==
  [modes : SUBSET (Modes \cup {"--load"}), no_verify : BOOLEAN, input_files : Seq(STRING),
   output_path : STRING \cup {None}, seed : STRING \cup {None}, count : STRING \cup {None}]

TypeOK ==
  /\ args \in Seq(STRING)
  /\ i \in 1 .. Len(args) + 1
  /\ opts \in Options

(* What has been given in the words before the one at p.                   *)
OwnBefore(p)         == {k \in Own : k < p}
GivenBefore(flag, p) == {k \in OwnBefore(p) : args[k] = flag}
InputsBefore(p)      == {k \in InputPlaces : k < p}

ValueAt(places) ==
  IF places = {} THEN None ELSE args[1 + CHOOSE k \in places : \A j \in places : j <= k]

ValueBefore(flag, p) == ValueAt(GivenBefore(flag, p))

(* The options hold what the words before the one at p say.                *)
FlagsRead(o, p) ==
  /\ o.modes = {m \in Modes \cup {"--load"} : GivenBefore(m, p) # {}}
  /\ o.no_verify = (GivenBefore("--no-verify", p) # {})

ValuesRead(o, p) ==
  /\ o.output_path = ValueBefore("-o", p)
  /\ o.seed = ValueBefore("--seed", p)
  /\ o.count = ValueBefore("--count", p)

InputsRead(files, p) ==
  /\ Len(files) = Cardinality(InputsBefore(p))
  /\ \A k \in InputsBefore(p) : files[Cardinality({j \in InputPlaces : j <= k})] = args[k]

Complete(p) ==
  \A k \in OwnBefore(p) : args[k] \notin HelpFlags /\ (args[k] \in ValueFlags => k < Len(args))

(* The loop is never in the middle of a flag and its value.                *)
ReadUpTo(o, p) ==
  /\ p \in 1 .. Len(args) + 1
  /\ o \in Options
  /\ ~ IsValue(p)
  /\ FlagsRead(o, p)
  /\ ValuesRead(o, p)
  /\ InputsRead(o.input_files, p)
  /\ Complete(p)

LineInv == args \in Seq(STRING) /\ ReadUpTo(opts, i)

-----------------------------------------------------------------------------
(* Which words are values.                                                 *)

(* A non-empty set of numbers has a least element.                         *)
LEMMA Least ==
  ASSUME NEW S \in SUBSET Nat, S # {}
  PROVE  \E n \in S : \A m \in S : n <= m
<1>1. PICK n \in S : \A m \in S : ~ (<<m, n>> \in OpToRel(<, Nat))
  BY WFMin, NatLessThanWellFounded
<1>2. \A m \in S : ~ (m < n)
  BY <1>1 DEF OpToRel
<1>3. QED
  BY <1>2

(* A word is a value if the one before it is a value flag and not a value. *)
LEMMA ValueAfterFlag ==
  ASSUME args \in Seq(STRING), NEW k \in 1 .. Len(args)
  PROVE  IsValue(k + 1) <=> args[k] \in ValueFlags /\ ~ IsValue(k)
<1> USE DEF IsValue
<1>0. k \in Nat /\ 1 <= k
  OBVIOUS
<1>1. ASSUME IsValue(k + 1) PROVE args[k] \in ValueFlags
  <2>1. PICK n \in 1 .. k : \A m \in k + 1 - n .. k : args[m] \in ValueFlags
    BY <1>1
  <2>2. QED
    BY <1>0, <2>1
<1>2. ASSUME IsValue(k + 1), IsValue(k) PROVE FALSE
  <2>1. PICK n \in 1 .. k :
          /\ n % 2 = 1
          /\ \A m \in k + 1 - n .. k : args[m] \in ValueFlags
          /\ n < k => args[k - n] \notin ValueFlags
    <3>1. k + 1 - 1 = k /\ \A n \in 1 .. k : k + 1 - n - 1 = k - n
      BY <1>0
    <3>2. QED
      BY <1>2, <3>1
  <2>2. PICK l \in 1 .. k - 1 :
          /\ l % 2 = 1
          /\ \A m \in k - l .. k - 1 : args[m] \in ValueFlags
          /\ l < k - 1 => args[k - l - 1] \notin ValueFlags
    BY <1>2
  <2>3. l # n - 1
    BY <2>1, <2>2
  <2>4. CASE l < n - 1
    <3>1. k - l - 1 \in k + 1 - n .. k /\ l < k - 1
      BY <1>0, <2>1, <2>2, <2>4
    <3>2. QED
      BY <2>1, <2>2, <3>1
  <2>5. CASE n - 1 < l
    <3>1. k - n \in k - l .. k - 1 /\ n < k
      BY <1>0, <2>1, <2>2, <2>5
    <3>2. QED
      BY <2>1, <2>2, <3>1
  <2>6. QED
    BY <2>1, <2>2, <2>3, <2>4, <2>5
<1>3. ASSUME args[k] \in ValueFlags, ~ IsValue(k) PROVE IsValue(k + 1)
  <2> DEFINE starts == {s \in 1 .. k : \A m \in s .. k - 1 : args[m] \in ValueFlags}
  <2>1. PICK s \in starts : \A t \in starts : s <= t
    <3>1. k \in starts
      BY <1>0
    <3>2. \A t \in starts : t \in Nat
      BY <1>0
    <3> HIDE DEF starts
    <3>3. starts \in SUBSET Nat /\ starts # {}
      BY <3>1, <3>2
    <3>4. QED
      BY <3>3, Least
  <2>2. s \in 1 .. k /\ \A m \in s .. k - 1 : args[m] \in ValueFlags
    BY <2>1
  <2>3. ASSUME s > 1 PROVE args[s - 1] \notin ValueFlags
    <3> SUFFICES ASSUME args[s - 1] \in ValueFlags PROVE FALSE
      OBVIOUS
    <3>1. \A m \in s - 1 .. k - 1 : m = s - 1 \/ m \in s .. k - 1
      BY <1>0, <2>2
    <3>2. s - 1 \in 1 .. k
      BY <1>0, <2>2, <2>3
    <3>3. s - 1 \in starts
      BY <2>2, <3>1, <3>2
    <3>4. QED
      BY <2>1, <2>2, <3>3
  <2> HIDE DEF starts
  <2>4. (k - s) % 2 # 1
    <3> SUFFICES ASSUME (k - s) % 2 = 1 PROVE IsValue(k)
      BY <1>3
    <3>1. k - s \in 1 .. k - 1 /\ k - (k - s) = s /\ k - (k - s) - 1 = s - 1
      BY <1>0, <2>2
    <3>2. k - s < k - 1 => s > 1
      BY <1>0, <2>2
    <3>3. QED
      BY <2>2, <2>3, <3>1, <3>2
  <2>5. (k - s + 1) % 2 = 1
    BY <1>0, <2>2, <2>4
  <2>6. /\ k - s + 1 \in 1 .. k + 1 - 1 /\ k + 1 - (k - s + 1) = s /\ k + 1 - 1 = k
        /\ k + 1 - (k - s + 1) - 1 = s - 1
        /\ (k - s + 1 < k => s > 1)
    BY <1>0, <2>2
  <2>7. \A m \in s .. k : args[m] \in ValueFlags
    <3>1. \A m \in s .. k : m = k \/ m \in s .. k - 1
      BY <1>0, <2>2
    <3>2. QED
      BY <1>3, <2>2, <3>1
  <2> DEFINE n == k - s + 1
  <2>8. /\ n \in 1 .. k + 1 - 1 /\ n % 2 = 1 /\ k + 1 - n = s /\ k + 1 - 1 = k
        /\ k + 1 - n - 1 = s - 1 /\ (n < k => s > 1)
    BY <2>5, <2>6
  <2> HIDE DEF n
  <2>9. n < k + 1 - 1 => args[k + 1 - n - 1] \notin ValueFlags
    BY <2>3, <2>8
  <2>10. \A m \in k + 1 - n .. k + 1 - 1 : args[m] \in ValueFlags
    BY <2>7, <2>8
  <2>11. QED
    BY <2>8, <2>9, <2>10
<1>4. QED
  BY <1>1, <1>2, <1>3

LEMMA FirstIsOwn == ~ IsValue(1)
  BY DEF IsValue

-----------------------------------------------------------------------------
(* The loop goes on to the word at p, past the one at i, and takes the     *)
(* inputs new along.                                                       *)

Advances(p, new) ==
  /\ p \in 1 .. Len(args) + 1
  /\ ~ IsValue(p)
  /\ OwnBefore(p) = OwnBefore(i) \cup {i}
  /\ InputsBefore(p) = InputsBefore(i) \cup new

LEMMA OneWord ==
  ASSUME TypeOK, ~ IsValue(i), i <= Len(args), args[i] \notin ValueFlags
  PROVE  Advances(i + 1, IF args[i] \in Flags THEN {} ELSE {i})
<1>1. i \in 1 .. Len(args) /\ i \in DOMAIN args /\ args \in Seq(STRING) /\ i \in Nat
  BY DEF TypeOK
<1>2. ~ IsValue(i + 1)
  BY <1>1, ValueAfterFlag
<1>3. \A k \in DOMAIN args : k < i + 1 <=> k < i \/ k = i
  BY <1>1
<1>4. OwnBefore(i + 1) = OwnBefore(i) \cup {i}
  BY <1>1, <1>3 DEF OwnBefore, Own
<1>5. IsInput(i) <=> args[i] \notin Flags
  BY DEF IsInput
<1>6. InputsBefore(i + 1) = InputsBefore(i) \cup (IF args[i] \in Flags THEN {} ELSE {i})
  BY <1>1, <1>3, <1>5 DEF InputsBefore, InputPlaces
<1>7. i + 1 \in 1 .. Len(args) + 1
  BY <1>1
<1>8. QED
  BY <1>2, <1>4, <1>6, <1>7 DEF Advances

LEMMA ValueIsInput ==
  ASSUME NEW k \in Nat, IsValue(k)
  PROVE  IsInput(k) <=> args[k - 1] = "--load"
BY DEF IsInput

LEMMA TwoWords ==
  ASSUME TypeOK, ~ IsValue(i), i < Len(args), args[i] \in ValueFlags
  PROVE  Advances(i + 2, IF args[i] = "--load" THEN {i + 1} ELSE {})
<1>1. /\ i \in 1 .. Len(args) /\ i \in DOMAIN args /\ args \in Seq(STRING) /\ i \in Nat
      /\ i + 1 \in 1 .. Len(args) /\ i + 1 \in DOMAIN args /\ i + 2 = (i + 1) + 1
  BY DEF TypeOK
<1>2. IsValue(i + 1) /\ ~ IsValue(i + 2)
  BY <1>1, ValueAfterFlag
<1>3. \A k \in DOMAIN args : k < i + 2 <=> k < i \/ k = i \/ k = i + 1
  BY <1>1
<1>4. OwnBefore(i + 2) = OwnBefore(i) \cup {i}
  BY <1>1, <1>2, <1>3 DEF OwnBefore, Own
<1>5. ~ IsInput(i)
  BY DEF IsInput, Flags, ValueFlags
<1>6. IsInput(i + 1) <=> args[i] = "--load"
  <2>1. PICK k \in Nat : k = i + 1
    BY <1>1
  <2>2. IsValue(k) /\ k - 1 = i
    BY <1>1, <1>2, <2>1
  <2>3. QED
    BY <2>1, <2>2, ValueIsInput
<1>7. InputsBefore(i + 2) = InputsBefore(i) \cup (IF args[i] = "--load" THEN {i + 1} ELSE {})
  BY <1>1, <1>3, <1>5, <1>6 DEF InputsBefore, InputPlaces
<1>8. i + 2 \in 1 .. Len(args) + 1
  BY <1>1
<1>9. QED
  BY <1>2, <1>4, <1>7, <1>8 DEF Advances

LEMMA GivenAdvances ==
  ASSUME NEW p, NEW new, Advances(p, new)
  PROVE  /\ \A flag : args[i] # flag => GivenBefore(flag, p) = GivenBefore(flag, i)
         /\ GivenBefore(args[i], p) = GivenBefore(args[i], i) \cup {i}
<1>1. OwnBefore(p) = OwnBefore(i) \cup {i}
  BY DEF Advances
<1>2. QED
  BY <1>1 DEF GivenBefore

(* What a flag is in the options for, after one more of them.              *)
LEMMA FlagsAdvance ==
  ASSUME NEW p, NEW new, Advances(p, new), NEW o, NEW n, FlagsRead(o, i),
         n.modes = o.modes \cup ({args[i]} \cap (Modes \cup {"--load"})),
         n.no_verify = (o.no_verify \/ args[i] = "--no-verify")
  PROVE  FlagsRead(n, p)
<1>1. \A flag : GivenBefore(flag, p) # {} <=> GivenBefore(flag, i) # {} \/ args[i] = flag
  BY GivenAdvances
<1>2. n.modes = {m \in Modes \cup {"--load"} : GivenBefore(m, p) # {}}
  BY <1>1 DEF FlagsRead
<1>3. n.no_verify = (GivenBefore("--no-verify", p) # {})
  BY <1>1 DEF FlagsRead
<1>4. QED
  BY <1>2, <1>3 DEF FlagsRead

(* The last value of a flag.                                               *)
LEMMA ValueAdvances ==
  ASSUME TypeOK, NEW p, NEW new, Advances(p, new)
  PROVE  /\ \A flag : args[i] # flag => ValueBefore(flag, p) = ValueBefore(flag, i)
         /\ ValueBefore(args[i], p) = args[i + 1]
<1>1. ASSUME NEW flag, args[i] # flag PROVE ValueBefore(flag, p) = ValueBefore(flag, i)
  <2>1. GivenBefore(flag, p) = GivenBefore(flag, i)
    BY <1>1, GivenAdvances
  <2>2. QED
    BY <2>1 DEF ValueBefore
<1>2. ValueBefore(args[i], p) = args[i + 1]
  <2> DEFINE G == GivenBefore(args[i], p)
  <2>1. \A j \in GivenBefore(args[i], i) : j < i /\ j \in Nat
    BY DEF TypeOK, GivenBefore, OwnBefore, Own
  <2>2. G = GivenBefore(args[i], i) \cup {i} /\ i \in Nat
    BY GivenAdvances DEF TypeOK
  <2>3. i \in G /\ \A j \in G : j <= i /\ j \in Nat
    BY <2>1, <2>2
  <2>4. \A k \in G : (\A j \in G : j <= k) => k = i
    BY <2>2, <2>3
  <2>5. G # {} /\ (CHOOSE k \in G : \A j \in G : j <= k) = i
    <3> HIDE DEF G
    <3>1. QED
      BY <2>3, <2>4
  <2>6. 1 + i = i + 1
    BY <2>2
  <2>7. QED
    BY <2>5, <2>6 DEF ValueBefore, ValueAt
<1>3. QED
  BY <1>1, <1>2

LEMMA InputsFinite ==
  ASSUME TypeOK, NEW S \in SUBSET InputPlaces
  PROVE  IsFiniteSet(S) /\ Cardinality(S) \in Nat
<1>1. DOMAIN args = 1 .. Len(args) /\ Len(args) \in Nat /\ InputPlaces \subseteq DOMAIN args
  BY DEF TypeOK, InputPlaces
<1>2. IsFiniteSet(1 .. Len(args)) /\ S \in SUBSET (1 .. Len(args))
  BY <1>1, FS_Interval
<1>3. QED
  BY <1>2, FS_Subset, FS_CardinalityType

(* One more input comes after all those before it.                         *)
LEMMA InputAppended ==
  ASSUME TypeOK, NEW p, NEW q, Advances(p, {q}), q \in InputPlaces, i <= q, q < p,
         NEW files \in Seq(STRING), InputsRead(files, i)
  PROVE  InputsRead(Append(files, args[q]), p)
<1> DEFINE upto(k) == {j \in InputPlaces : j <= k}
           before == InputsBefore(i)
<1>1. /\ i \in Nat /\ q \in Nat /\ InputPlaces \in SUBSET Nat
      /\ args[q] \in STRING
  BY DEF TypeOK, InputPlaces
<1>2. /\ InputsBefore(p) = before \cup {q} /\ q \notin before
      /\ before \in SUBSET InputPlaces
  BY <1>1 DEF Advances, InputsBefore
<1>3. IsFiniteSet(before) /\ Cardinality(before) \in Nat /\ Cardinality(before) = Len(files)
  BY <1>2, InputsFinite DEF InputsRead
<1>4. Cardinality(before \cup {q}) = Len(files) + 1
  BY <1>2, <1>3, FS_AddElement
<1>5. upto(q) = before \cup {q}
  <2>1. \A j \in InputPlaces : j < i => j <= q
    BY <1>1
  <2>2. \A j \in InputPlaces : j <= q => j < p
    <3>1. p \in Nat
      BY DEF Advances, TypeOK
    <3>2. QED
      BY <1>1, <3>1
  <2>3. ASSUME NEW j \in upto(q) PROVE j \in before \cup {q}
    BY <1>2, <2>2, <2>3 DEF InputsBefore
  <2>4. ASSUME NEW j \in before PROVE j \in upto(q)
    BY <1>2, <2>1, <2>4 DEF InputsBefore
  <2>5. q \in upto(q)
    BY <1>1
  <2> HIDE DEF upto, before
  <2>6. QED
    BY <2>3, <2>4, <2>5
<1> DEFINE all == Append(files, args[q])
<1>6. /\ Len(all) = Len(files) + 1 /\ all[Len(files) + 1] = args[q]
      /\ \A n \in 1 .. Len(files) : all[n] = files[n]
  BY <1>1
<1>7. ASSUME NEW k \in before PROVE Cardinality(upto(k)) \in 1 .. Len(files)
  <2>1. k \in Nat /\ k \in upto(k) /\ k < i
    BY <1>1 DEF InputsBefore
  <2>2. upto(k) \in SUBSET before
    <3>1. \A j \in InputPlaces : j <= k => j < i
      BY <1>1, <2>1
    <3>2. QED
      BY <3>1 DEF InputsBefore
  <2> HIDE DEF upto, before
  <2>3. Cardinality(upto(k)) <= Cardinality(before) /\ IsFiniteSet(upto(k))
    BY <1>3, <2>2, FS_Subset
  <2>4. Cardinality(upto(k)) \in Nat /\ Cardinality(upto(k)) # 0
    BY <2>1, <2>3, FS_CardinalityType, FS_EmptySet
  <2>5. QED
    BY <1>3, <2>3, <2>4
<1>8. \A k \in before : files[Cardinality(upto(k))] = args[k]
  BY DEF InputsRead
<1> HIDE DEF upto, before, all
<1>9. \A k \in before \cup {q} : all[Cardinality(upto(k))] = args[k]
  BY <1>4, <1>5, <1>6, <1>7, <1>8
<1>10. QED
  BY <1>2, <1>4, <1>6, <1>9 DEF InputsRead, upto, all

LEMMA InputsStay ==
  ASSUME NEW p, Advances(p, {}), NEW files, InputsRead(files, i)
  PROVE  InputsRead(files, p)
<1>1. InputsBefore(p) = InputsBefore(i)
  BY DEF Advances
<1>2. QED
  BY <1>1 DEF InputsRead

LEMMA CompleteAdvances ==
  ASSUME NEW p, NEW new, Advances(p, new), Complete(i),
         args[i] \notin HelpFlags, args[i] \in ValueFlags => i < Len(args)
  PROVE  Complete(p)
BY DEF Advances, Complete

-----------------------------------------------------------------------------
(* The turns of the loop.                                                  *)

LEMMA ReadFacts ==
  ASSUME LineInv
  PROVE  /\ TypeOK /\ ~ IsValue(i) /\ Complete(i)
         /\ FlagsRead(opts, i) /\ ValuesRead(opts, i) /\ InputsRead(opts.input_files, i)
         /\ opts.modes \in SUBSET (Modes \cup {"--load"}) /\ opts.no_verify \in BOOLEAN
         /\ opts.input_files \in Seq(STRING)
         /\ opts.output_path \in STRING \cup {None}
         /\ opts.seed \in STRING \cup {None} /\ opts.count \in STRING \cup {None}
         /\ i \in Nat /\ Len(args) \in Nat
         /\ \A k \in 1 .. Len(args) : args[k] \in STRING
  BY DEF LineInv, ReadUpTo, TypeOK, Options

(* The line does not change under way.                                     *)
LEMMA SameLine ==
  ASSUME args' = args, args \in Seq(STRING), ReadUpTo(opts', i')
  PROVE  LineInv'
<1>1. ASSUME NEW k PROVE IsValue(k)' <=> IsValue(k)
  BY DEF IsValue
<1>2. Own' = Own /\ InputPlaces' = InputPlaces
  <2>1. ASSUME NEW k PROVE IsInput(k)' <=> IsInput(k)
    BY <1>1 DEF IsInput
  <2>2. QED
    BY <1>1, <2>1 DEF Own, InputPlaces
<1>3. ASSUME NEW flag, NEW p PROVE GivenBefore(flag, p)' = GivenBefore(flag, p)
  BY <1>2 DEF GivenBefore, OwnBefore
<1>4. ASSUME NEW S PROVE ValueAt(S)' = ValueAt(S)
  BY DEF ValueAt
<1>5. FlagsRead(opts, i)'
  BY <1>3 DEF ReadUpTo, FlagsRead
<1>6. ValuesRead(opts, i)'
  BY <1>3, <1>4 DEF ReadUpTo, ValuesRead, ValueBefore
<1>7. InputsRead(opts.input_files, i)'
  BY <1>2 DEF ReadUpTo, InputsRead, InputsBefore
<1>8. Complete(i)'
  BY <1>2 DEF ReadUpTo, Complete, OwnBefore
<1>9. ~ IsValue(i)'
  BY DEF ReadUpTo, IsValue
<1>10. QED
  BY <1>5, <1>6, <1>7, <1>8, <1>9 DEF LineInv, ReadUpTo

(* A word that is no value flag and no input.                              *)
LEMMA WordStep ==
  ASSUME LineInv, i <= Len(args), args[i] \in Flags, args[i] \notin ValueFlags \cup HelpFlags,
         args' = args, i' = i + 1,
         opts' = [opts EXCEPT !.modes = @ \cup ({args[i]} \cap (Modes \cup {"--load"})),
                              !.no_verify = @ \/ args[i] = "--no-verify"]
  PROVE  LineInv'
<1>1. Advances(i + 1, {})
  BY ReadFacts, OneWord
<1>2. /\ opts'.modes = opts.modes \cup ({args[i]} \cap (Modes \cup {"--load"}))
      /\ opts'.no_verify = (opts.no_verify \/ args[i] = "--no-verify")
      /\ opts'.input_files = opts.input_files /\ opts'.output_path = opts.output_path
      /\ opts'.seed = opts.seed /\ opts'.count = opts.count
      /\ opts' \in Options
  BY ReadFacts DEF TypeOK, Options
<1>3. FlagsRead(opts', i + 1)
  BY <1>1, <1>2, ReadFacts, FlagsAdvance
<1>4. ValuesRead(opts', i + 1)
  <2>1. args[i] # "-o" /\ args[i] # "--seed" /\ args[i] # "--count"
    BY DEF ValueFlags, PathFlags, NumberFlags
  <2>2. QED
    BY <1>1, <1>2, <2>1, ReadFacts, ValueAdvances DEF ValuesRead
<1>5. InputsRead(opts'.input_files, i + 1)
  BY <1>1, <1>2, ReadFacts, InputsStay
<1>6. Complete(i + 1)
  BY <1>1, ReadFacts, CompleteAdvances
<1>7. ReadUpTo(opts', i')
  BY <1>1, <1>2, <1>3, <1>4, <1>5, <1>6 DEF ReadUpTo, Advances
<1>8. QED
  BY <1>7, SameLine DEF LineInv

(* A flag and its value.                                                   *)
LEMMA ValueStep ==
  ASSUME LineInv, i < Len(args), args[i] \in {"-o", "--seed", "--count"},
         args' = args, i' = i + 2,
         opts' = [opts EXCEPT !.output_path = IF args[i] = "-o" THEN args[i + 1] ELSE @,
                              !.seed = IF args[i] = "--seed" THEN args[i + 1] ELSE @,
                              !.count = IF args[i] = "--count" THEN args[i + 1] ELSE @]
  PROVE  LineInv'
<1>1. Advances(i + 2, {})
  BY ReadFacts, TwoWords DEF ValueFlags, PathFlags, NumberFlags
<1>2. /\ opts'.modes = opts.modes /\ opts'.no_verify = opts.no_verify
      /\ opts'.input_files = opts.input_files
      /\ opts'.output_path = IF args[i] = "-o" THEN args[i + 1] ELSE opts.output_path
      /\ opts'.seed = IF args[i] = "--seed" THEN args[i + 1] ELSE opts.seed
      /\ opts'.count = IF args[i] = "--count" THEN args[i + 1] ELSE opts.count
      /\ opts' \in Options
  <2>1. args[i + 1] \in STRING
    BY ReadFacts
  <2>2. QED
    BY <2>1, ReadFacts DEF TypeOK, Options
<1>3. FlagsRead(opts', i + 2)
  <2>1. args[i] \notin Modes \cup {"--load"} /\ args[i] # "--no-verify"
    BY DEF Modes
  <2>2. opts'.modes = opts.modes \cup ({args[i]} \cap (Modes \cup {"--load"}))
    BY <1>2, <2>1
  <2>3. opts'.no_verify = (opts.no_verify \/ args[i] = "--no-verify")
    BY <1>2, <2>1, ReadFacts
  <2>4. FlagsRead(opts, i)
    BY ReadFacts
  <2> DEFINE new == opts'
  <2>5. /\ new.modes = opts.modes \cup ({args[i]} \cap (Modes \cup {"--load"}))
        /\ new.no_verify = (opts.no_verify \/ args[i] = "--no-verify")
    BY <2>2, <2>3
  <2> HIDE DEF new
  <2>6. FlagsRead(new, i + 2)
    BY <1>1, <2>4, <2>5, FlagsAdvance
  <2>7. QED
    BY <2>6 DEF new
<1>4. ValuesRead(opts', i + 2)
  BY <1>1, <1>2, ReadFacts, ValueAdvances DEF ValuesRead
<1>5. InputsRead(opts'.input_files, i + 2)
  BY <1>1, <1>2, ReadFacts, InputsStay
<1>6. Complete(i + 2)
  BY <1>1, ReadFacts, CompleteAdvances DEF HelpFlags
<1>7. ReadUpTo(opts', i')
  BY <1>1, <1>2, <1>3, <1>4, <1>5, <1>6 DEF ReadUpTo, Advances
<1>8. QED
  BY <1>7, SameLine DEF LineInv

(* A file to load, named after its flag.                                   *)
LEMMA LoadStep ==
  ASSUME LineInv, i < Len(args), args[i] = "--load", args' = args, i' = i + 2,
         opts' = [opts EXCEPT !.modes = @ \cup {"--load"},
                              !.input_files = Append(@, args[i + 1])]
  PROVE  LineInv'
<1>1. Advances(i + 2, {i + 1})
  BY ReadFacts, TwoWords DEF ValueFlags, PathFlags
<1>2. /\ opts'.modes = opts.modes \cup {"--load"} /\ opts'.no_verify = opts.no_verify
      /\ opts'.input_files = Append(opts.input_files, args[i + 1])
      /\ opts'.output_path = opts.output_path
      /\ opts'.seed = opts.seed /\ opts'.count = opts.count
      /\ opts' \in Options
  <2>1. args[i + 1] \in STRING
    BY ReadFacts
  <2>2. Append(opts.input_files, args[i + 1]) \in Seq(STRING)
    BY <2>1, ReadFacts
  <2>3. QED
    BY <2>1, <2>2, ReadFacts DEF TypeOK, Options
<1>3. FlagsRead(opts', i + 2)
  <2>1. opts'.modes = opts.modes \cup ({args[i]} \cap (Modes \cup {"--load"}))
    BY <1>2
  <2>2. opts'.no_verify = (opts.no_verify \/ args[i] = "--no-verify")
    BY <1>2, ReadFacts
  <2>3. QED
    BY <1>1, <2>1, <2>2, ReadFacts, FlagsAdvance
<1>4. ValuesRead(opts', i + 2)
  BY <1>1, <1>2, ReadFacts, ValueAdvances DEF ValuesRead
<1>5. InputsRead(opts'.input_files, i + 2)
  <2>1. i + 1 \in InputPlaces /\ i <= i + 1 /\ i + 1 < i + 2
    BY <1>1, ReadFacts DEF Advances, InputsBefore
  <2>2. QED
    BY <1>1, <1>2, <2>1, ReadFacts, InputAppended
<1>6. Complete(i + 2)
  BY <1>1, ReadFacts, CompleteAdvances DEF HelpFlags
<1>7. ReadUpTo(opts', i')
  BY <1>1, <1>2, <1>3, <1>4, <1>5, <1>6 DEF ReadUpTo, Advances
<1>8. QED
  BY <1>7, SameLine DEF LineInv

(* Any other word is an input.                                             *)
LEMMA InputStep ==
  ASSUME LineInv, i <= Len(args), args[i] \notin Flags, args' = args, i' = i + 1,
         opts' = [opts EXCEPT !.input_files = Append(@, args[i])]
  PROVE  LineInv'
<1>0. /\ args[i] \notin ValueFlags /\ args[i] \notin HelpFlags
      /\ args[i] \notin Modes \cup {"--load"} /\ args[i] # "--no-verify"
      /\ args[i] # "-o" /\ args[i] # "--seed" /\ args[i] # "--count"
  BY DEF Flags, ValueFlags, PathFlags, NumberFlags
<1>1. Advances(i + 1, {i})
  BY <1>0, ReadFacts, OneWord
<1>2. /\ opts'.modes = opts.modes /\ opts'.no_verify = opts.no_verify
      /\ opts'.input_files = Append(opts.input_files, args[i])
      /\ opts'.output_path = opts.output_path
      /\ opts'.seed = opts.seed /\ opts'.count = opts.count
      /\ opts' \in Options
  <2>1. args[i] \in STRING
    BY ReadFacts DEF TypeOK
  <2>2. Append(opts.input_files, args[i]) \in Seq(STRING)
    BY <2>1, ReadFacts
  <2>3. QED
    BY <2>1, <2>2, ReadFacts DEF TypeOK, Options
<1>3. FlagsRead(opts', i + 1)
  <2>1. opts'.modes = opts.modes \cup ({args[i]} \cap (Modes \cup {"--load"}))
    BY <1>0, <1>2
  <2>2. opts'.no_verify = (opts.no_verify \/ args[i] = "--no-verify")
    BY <1>0, <1>2, ReadFacts
  <2>3. QED
    BY <1>1, <2>1, <2>2, ReadFacts, FlagsAdvance
<1>4. ValuesRead(opts', i + 1)
  BY <1>0, <1>1, <1>2, ReadFacts, ValueAdvances DEF ValuesRead
<1>5. InputsRead(opts'.input_files, i + 1)
  <2>1. i \in InputPlaces /\ i <= i /\ i < i + 1
    BY <1>1, ReadFacts DEF Advances, InputsBefore
  <2>2. QED
    BY <1>1, <1>2, <2>1, ReadFacts, InputAppended
<1>6. Complete(i + 1)
  BY <1>0, <1>1, ReadFacts, CompleteAdvances
<1>7. ReadUpTo(opts', i')
  BY <1>1, <1>2, <1>3, <1>4, <1>5, <1>6 DEF ReadUpTo, Advances
<1>8. QED
  BY <1>7, SameLine DEF LineInv

(* Any step: a turn of the loop, or main() does what it was told.          *)
LEMMA LineStep ==
  ASSUME LineInv, [Next]_vars
  PROVE  LineInv'
<1>0. /\ opts \in Options /\ i \in Nat /\ Len(args) \in Nat
      /\ opts.modes \in SUBSET (Modes \cup {"--load"}) /\ opts.no_verify \in BOOLEAN
  BY ReadFacts DEF TypeOK
<1>1. ASSUME args' = args, i' = i, opts' = opts PROVE LineInv'
  BY <1>1, SameLine DEF LineInv
<1>2. CASE SetMode
  <2>1. /\ i <= Len(args) /\ args[i] \in Modes /\ args' = args /\ i' = i + 1
        /\ opts' = [opts EXCEPT !.modes = @ \cup {args[i]}]
    BY <1>2 DEF SetMode, At, Set
  <2>2. /\ args[i] \in Flags /\ args[i] \notin ValueFlags \cup HelpFlags
        /\ args[i] # "--no-verify"
        /\ {args[i]} \cap (Modes \cup {"--load"}) = {args[i]}
    BY <2>1 DEF Flags, Modes, ValueFlags, PathFlags, NumberFlags, HelpFlags
  <2>3. opts' = [opts EXCEPT !.modes = @ \cup ({args[i]} \cap (Modes \cup {"--load"})),
                             !.no_verify = @ \/ args[i] = "--no-verify"]
    BY <1>0, <2>1, <2>2 DEF Options
  <2>4. QED
    BY <2>1, <2>2, <2>3, WordStep
<1>3. CASE SetNoVerify
  <2>1. /\ i <= Len(args) /\ args[i] = "--no-verify" /\ args' = args /\ i' = i + 1
        /\ opts' = [opts EXCEPT !.no_verify = TRUE]
    BY <1>3 DEF SetNoVerify, At, Set
  <2>2. /\ args[i] \in Flags /\ args[i] \notin ValueFlags \cup HelpFlags
        /\ {args[i]} \cap (Modes \cup {"--load"}) = {}
    BY <2>1 DEF Flags, Modes, ValueFlags, PathFlags, NumberFlags, HelpFlags
  <2>3. opts' = [opts EXCEPT !.modes = @ \cup ({args[i]} \cap (Modes \cup {"--load"})),
                             !.no_verify = @ \/ args[i] = "--no-verify"]
    BY <1>0, <2>1, <2>2 DEF Options
  <2>4. QED
    BY <2>1, <2>2, <2>3, WordStep
<1>4. CASE SetLoad
  <2>1. /\ i < Len(args) /\ args[i] = "--load" /\ args' = args /\ i' = i + 2
        /\ opts' = [opts EXCEPT !.modes = @ \cup {"--load"},
                                !.input_files = Append(@, args[i + 1])]
    BY <1>4 DEF SetLoad, HasValue, At, Set
  <2>2. QED
    BY <2>1, LoadStep
<1>5. CASE SetOutput \/ SetSeed \/ SetCount
  <2>1. i < Len(args) /\ args[i] \in {"-o", "--seed", "--count"} /\ args' = args /\ i' = i + 2
    BY <1>5 DEF SetOutput, SetSeed, SetCount, HasValue, At, Set
  <2>2. opts' = [opts EXCEPT !.output_path = IF args[i] = "-o" THEN args[i + 1] ELSE @,
                             !.seed = IF args[i] = "--seed" THEN args[i + 1] ELSE @,
                             !.count = IF args[i] = "--count" THEN args[i + 1] ELSE @]
    <3>1. CASE SetOutput
      BY <1>0, <3>1 DEF SetOutput, HasValue, At, Set, Options
    <3>2. CASE SetSeed
      BY <1>0, <3>2 DEF SetSeed, HasValue, At, Set, Options
    <3>3. CASE SetCount
      BY <1>0, <3>3 DEF SetCount, HasValue, At, Set, Options
    <3>4. QED
      BY <1>5, <3>1, <3>2, <3>3
  <2>3. QED
    BY <2>1, <2>2, ValueStep
<1>6. CASE TakeInput
  <2>1. /\ i <= Len(args) /\ args[i] \notin Flags /\ args' = args /\ i' = i + 1
        /\ opts' = [opts EXCEPT !.input_files = Append(@, args[i])]
    BY <1>6 DEF TakeInput, Set
  <2>2. QED
    BY <2>1, InputStep
<1>7. CASE Help \/ MissingValue \/ NotANumber \/ RunDemos \/ Load \/ GenFixed \/ GenSeeds \/ NoInput
           \/ Triage \/ Exec \/ Mutate \/ TranslateJson \/ NothingToDo
  <2>1. args' = args /\ i' = i /\ opts' = opts
    BY <1>7 DEF Help, MissingValue, NotANumber, RunDemos, Load, GenFixed, GenSeeds, NoInput,
                Triage, Exec, Mutate, TranslateJson, NothingToDo, Finish
  <2>2. QED
    BY <1>1, <2>1
<1>8. CASE UNCHANGED vars
  BY <1>1, <1>8 DEF vars
<1>9. QED
  BY <1>2, <1>3, <1>4, <1>5, <1>6, <1>7, <1>8 DEF Next

LEMMA LineInit == Init => LineInv
<1> SUFFICES ASSUME Init PROVE LineInv
  OBVIOUS
<1>1. args \in Seq(STRING) /\ i = 1 /\ opts = NoOptions
  BY CliAssumption DEF Init
<1>2. NoOptions \in Options
  <2>1. <<>> \in Seq(STRING)
    OBVIOUS
  <2>2. None \in STRING \cup {None}
    OBVIOUS
  <2>3. {} \in SUBSET (Modes \cup {"--load"}) /\ FALSE \in BOOLEAN
    OBVIOUS
  <2>4. QED
    BY <2>1, <2>2, <2>3, Zenon DEF NoOptions, Options
<1>3. \A k \in DOMAIN args : ~ (k < 1)
  BY <1>1
<1>4. OwnBefore(1) = {} /\ InputsBefore(1) = {} /\ \A flag : GivenBefore(flag, 1) = {}
  BY <1>3 DEF OwnBefore, InputsBefore, GivenBefore, Own, InputPlaces
<1>5. FlagsRead(opts, 1)
  BY <1>1, <1>4 DEF FlagsRead, NoOptions
<1>6. ValuesRead(opts, 1)
  BY <1>1, <1>4 DEF ValuesRead, ValueBefore, ValueAt, NoOptions
<1>7. InputsRead(opts.input_files, 1)
  BY <1>1, <1>4, FS_EmptySet DEF InputsRead, NoOptions
<1>8. Complete(1) /\ 1 \in 1 .. Len(args) + 1
  BY <1>1, <1>4 DEF Complete
<1>9. QED
  BY <1>1, <1>2, <1>5, <1>6, <1>7, <1>8, FirstIsOwn DEF LineInv, ReadUpTo

LEMMA LineInvariance == Spec => []LineInv
<1>1. LineInv /\ [Next]_vars => LineInv'
  BY LineStep
<1>2. QED
  BY LineInit, <1>1, PTL DEF Spec

(* Whatever the line, the loop takes every word for what it is             *)
(* (main.rs:210-283).                                                      *)
THEOREM LinesAlwaysUnderstood == Spec => []LineUnderstood
<1>1. LineInv => LineUnderstood
  <2> SUFFICES ASSUME LineInv, i > Len(args) PROVE LineUnderstood
    BY DEF LineUnderstood
  <2>1. \A k \in DOMAIN args : k < i
    BY ReadFacts DEF TypeOK
  <2>2. OwnBefore(i) = Own /\ InputsBefore(i) = InputPlaces
    BY <2>1 DEF OwnBefore, InputsBefore, Own, InputPlaces
  <2>3. \A flag : GivenBefore(flag, i) = Given(flag)
    BY <2>2 DEF GivenBefore, Given
  <2>4. ASSUME NEW flag PROVE ValueBefore(flag, i) = LastValue(flag)
    <3>1. LastValue(flag) = ValueAt(Given(flag))
      BY DEF LastValue, ValueAt
    <3>2. QED
      BY <2>3, <3>1 DEF ValueBefore
  <2>5. FlagsRead(opts, i) /\ ValuesRead(opts, i) /\ InputsRead(opts.input_files, i) /\ Complete(i)
    BY ReadFacts
  <2>6. /\ opts.modes = {m \in Modes \cup {"--load"} : Given(m) # {}}
        /\ opts.no_verify = (Given("--no-verify") # {})
    BY <2>3, <2>5 DEF FlagsRead
  <2>7. /\ opts.output_path = LastValue("-o") /\ opts.seed = LastValue("--seed")
        /\ opts.count = LastValue("--count")
    BY <2>4, <2>5 DEF ValuesRead
  <2>8. /\ Len(opts.input_files) = Cardinality(InputPlaces)
        /\ \A k \in InputPlaces :
             opts.input_files[Cardinality({j \in InputPlaces : j <= k})] = args[k]
    BY <2>2, <2>5 DEF InputsRead
  <2>9. \A k \in Own : args[k] \notin HelpFlags /\ (args[k] \in ValueFlags => k < Len(args))
    BY <2>2, <2>5 DEF Complete
  <2>10. QED
    BY <2>6, <2>7, <2>8, <2>9 DEF LineUnderstood
<1>2. QED
  BY <1>1, LineInvariance, PTL

-----------------------------------------------------------------------------
(* The documented lines.  With a given line only one thing can happen next.*)

Opts(modes, files, out, seed, count) ==
  [modes |-> modes, no_verify |-> FALSE, input_files |-> files, output_path |-> out,
   seed |-> seed, count |-> count]

GenModes == {"--gen-smart", "--gen-jit-stress"}

GenCall(mode, f, s, n) == [Call(mode) EXCEPT !.out = f, !.seed = s, !.count = n]

GenLine(mode, f, s, n) ==
  args = <<mode, f, "--seed", s, "--count", n>> =>
    \/ /\ outcome = Undecided
       /\ \/ i = 1 /\ opts = Opts({}, <<>>, None, None, None)
          \/ i = 2 /\ opts = Opts({mode}, <<>>, None, None, None)
          \/ i = 3 /\ opts = Opts({mode}, <<f>>, None, None, None)
          \/ i = 5 /\ opts = Opts({mode}, <<f>>, None, s, None)
          \/ i = 7 /\ opts = Opts({mode}, <<f>>, None, s, n)
    \/ outcome = GenCall(mode, f, s, n)

TriageCall(f) == [Call("--triage") EXCEPT !.reads = <<Kind(f)>>]

TriageLine(f) ==
  args = <<"--triage", f>> =>
    \/ /\ outcome = Undecided
       /\ \/ i = 1 /\ opts = Opts({}, <<>>, None, None, None)
          \/ i = 2 /\ opts = Opts({"--triage"}, <<>>, None, None, None)
          \/ i = 3 /\ opts = Opts({"--triage"}, <<f>>, None, None, None)
    \/ outcome = TriageCall(f)

MutateCall(f, g) == [Call("--mutate") EXCEPT !.reads = <<Kind(f), Kind(g)>>, !.out = f]

MutateLine(f, g) ==
  args = <<"--mutate", f, g, "-o", f>> =>
    \/ /\ outcome = Undecided
       /\ \/ i = 1 /\ opts = Opts({}, <<>>, None, None, None)
          \/ i = 2 /\ opts = Opts({"--mutate"}, <<>>, None, None, None)
          \/ i = 3 /\ opts = Opts({"--mutate"}, <<f>>, None, None, None)
          \/ i = 4 /\ opts = Opts({"--mutate"}, <<f, g>>, None, None, None)
          \/ i = 6 /\ opts = Opts({"--mutate"}, <<f, g>>, f, None, None)
    \/ outcome = MutateCall(f, g)

JsonCall(f, g) == [Call("json") EXCEPT !.reads = <<<<f, "json">>>>, !.out = g]

JsonLine(f, g) ==
  args = <<f, "-o", g>> =>
    \/ /\ outcome = Undecided
       /\ \/ i = 1 /\ opts = Opts({}, <<>>, None, None, None)
          \/ i = 2 /\ opts = Opts({}, <<f>>, None, None, None)
          \/ i = 4 /\ opts = Opts({}, <<f>>, g, None, None)
    \/ outcome = JsonCall(f, g)

DocInv ==
  \A f, g \in STRING \ Flags, s, n \in Numbers :
    /\ \A mode \in GenModes : GenLine(mode, f, s, n)
    /\ TriageLine(f) /\ MutateLine(f, g) /\ JsonLine(f, g)

(* What a word makes the loop do.                                          *)
LEMMA NextAtWord ==
  ASSUME Next, i \in Nat \ {0}, Len(args) \in Nat, i <= Len(args), outcome = Undecided
  PROVE  /\ args' = args
         /\ args[i] \in Modes =>
              i' = i + 1 /\ outcome' = outcome /\ opts' = [opts EXCEPT !.modes = @ \cup {args[i]}]
         /\ args[i] \notin Flags =>
              i' = i + 1 /\ outcome' = outcome
              /\ opts' = [opts EXCEPT !.input_files = Append(@, args[i])]
         /\ args[i] = "-o" /\ i < Len(args) =>
              i' = i + 2 /\ outcome' = outcome /\ opts' = [opts EXCEPT !.output_path = args[i + 1]]
         /\ args[i] = "--seed" /\ i < Len(args) /\ args[i + 1] \in Numbers =>
              i' = i + 2 /\ outcome' = outcome /\ opts' = [opts EXCEPT !.seed = args[i + 1]]
         /\ args[i] = "--count" /\ i < Len(args) /\ args[i + 1] \in Numbers =>
              i' = i + 2 /\ outcome' = outcome /\ opts' = [opts EXCEPT !.count = args[i + 1]]
<1> USE DEF At, HasValue, Set, Finish, Flags, Modes, PathFlags, NumberFlags, HelpFlags
<1>1. CASE SetMode
  BY <1>1 DEF SetMode
<1>2. CASE SetNoVerify
  BY <1>2 DEF SetNoVerify
<1>3. CASE Help
  BY <1>3 DEF Help
<1>4. CASE MissingValue
  BY <1>4 DEF MissingValue
<1>5. CASE SetLoad
  BY <1>5 DEF SetLoad
<1>6. CASE SetOutput
  BY <1>6 DEF SetOutput
<1>7. CASE SetSeed
  BY <1>7 DEF SetSeed
<1>8. CASE SetCount
  BY <1>8 DEF SetCount
<1>9. CASE NotANumber
  BY <1>9 DEF NotANumber
<1>10. CASE TakeInput
  BY <1>10 DEF TakeInput
<1>11. ~ RunDemos
  <2>1. Len(<<>>) = 0
    OBVIOUS
  <2>2. QED
    BY <2>1 DEF RunDemos
<1>12. /\ ~ Load /\ ~ GenFixed /\ ~ GenSeeds /\ ~ NoInput /\ ~ Triage /\ ~ Exec /\ ~ Mutate
       /\ ~ TranslateJson /\ ~ NothingToDo
  BY DEF Load, GenFixed, GenSeeds, NoInput, Triage, Exec, Mutate, TranslateJson, NothingToDo,
         Chosen, NoMode
<1>13. QED
  BY <1>1, <1>2, <1>3, <1>4, <1>5, <1>6, <1>7, <1>8, <1>9, <1>10, <1>11, <1>12 DEF Next

(* Only an undecided main() does anything.                                 *)
LEMMA NextOnce == Next => outcome = Undecided /\ args' = args
  BY DEF Next, SetMode, SetNoVerify, Help, MissingValue, SetLoad, SetOutput, SetSeed, SetCount,
         NotANumber, TakeInput, RunDemos, Load, GenFixed, GenSeeds, NoInput, Triage, Exec, Mutate,
         TranslateJson, NothingToDo, At, HasValue, Chosen, NoMode, Set, Finish

(* What the options make main() do.                                        *)
LEMMA NextAtEnd ==
  ASSUME Next, i \in Nat, Len(args) \in Nat, i > Len(args), Len(args) > 0
  PROVE  /\ \A mode \in GenModes :
              opts.modes = {mode} =>
                outcome' = [Call(mode) EXCEPT !.out = OutputDir, !.seed = opts.seed,
                                              !.count = opts.count]
         /\ opts.modes = {"--triage"} /\ HasInput =>
              outcome' = [Call("--triage") EXCEPT !.reads = <<LoadAuto(FirstInput)>>,
                                                  !.verify = ~ opts.no_verify]
         /\ opts.modes = {"--mutate"} /\ HasInput =>
              outcome' = [Call("--mutate") EXCEPT
                            !.reads = [f \in DOMAIN opts.input_files |->
                                         LoadAuto(opts.input_files[f])],
                            !.out = opts.output_path, !.seed = opts.seed]
         /\ opts.modes = {} /\ HasInput =>
              outcome' = [Call("json") EXCEPT !.reads = <<<<FirstInput, "json">>>>,
                                              !.out = opts.output_path]
<1>1. /\ ~ SetMode /\ ~ SetNoVerify /\ ~ Help /\ ~ MissingValue /\ ~ SetLoad /\ ~ SetOutput
      /\ ~ SetSeed /\ ~ SetCount /\ ~ NotANumber /\ ~ TakeInput
  BY DEF SetMode, SetNoVerify, Help, MissingValue, SetLoad, SetOutput, SetSeed, SetCount,
         NotANumber, TakeInput, At, HasValue
<1>2. ~ RunDemos
  BY DEF RunDemos
<1>3. ASSUME NEW mode, Chosen(mode) PROVE mode \in opts.modes
  BY <1>3 DEF Chosen
<1>4. CASE Load
  BY <1>3, <1>4 DEF Load, GenModes
<1>5. CASE GenFixed
  BY <1>3, <1>5 DEF GenFixed, GenModes
<1>6. CASE GenSeeds
  <2>1. PICK mode \in GenModes :
          Chosen(mode) /\ Finish([Call(mode) EXCEPT !.out = OutputDir, !.seed = opts.seed,
                                                    !.count = opts.count])
    BY <1>6 DEF GenSeeds, GenModes
  <2>2. mode \in opts.modes
    BY <1>3, <2>1
  <2>3. outcome' = [Call(mode) EXCEPT !.out = OutputDir, !.seed = opts.seed, !.count = opts.count]
    BY <2>1 DEF Finish
  <2>4. QED
    BY <2>2, <2>3 DEF GenModes
<1>7. CASE NoInput
  BY <1>3, <1>7 DEF NoInput, GenModes
<1>8. CASE Triage
  <2>1. "--triage" \in opts.modes
    BY <1>3, <1>8 DEF Triage
  <2>2. QED
    BY <1>8, <2>1 DEF Triage, Finish, GenModes
<1>9. CASE Exec
  BY <1>3, <1>9 DEF Exec, GenModes
<1>10. CASE Mutate
  <2>1. "--mutate" \in opts.modes
    BY <1>3, <1>10 DEF Mutate
  <2>2. QED
    BY <1>10, <2>1 DEF Mutate, Finish, GenModes
<1>11. CASE TranslateJson
  BY <1>11 DEF TranslateJson, NoMode, Finish, GenModes
<1>12. CASE NothingToDo
  BY <1>12 DEF NothingToDo, NoMode, GenModes
<1>13. QED
  BY <1>1, <1>2, <1>4, <1>5, <1>6, <1>7, <1>8, <1>9, <1>10, <1>11, <1>12 DEF Next

(* The files given, one after the other.                                   *)
LEMMA Appended ==
  ASSUME NEW f, NEW g
  PROVE  Append(<<>>, f) = <<f>> /\ Append(<<f>>, g) = <<f, g>>
<1>1. Append(<<>>, f) = <<f>>
  <2>1. /\ <<>> \in Seq({f}) /\ <<f>> \in Seq({f})
        /\ Len(<<>>) = 0 /\ Len(<<f>>) = 1 /\ <<f>>[1] = f
    OBVIOUS
  <2>2. Append(<<>>, f) \in Seq({f}) /\ Len(Append(<<>>, f)) = 1 /\ Append(<<>>, f)[1] = f
    BY <2>1
  <2>3. QED
    BY <2>1, <2>2
<1>2. Append(<<f>>, g) = <<f, g>>
  <2> DEFINE S == {f, g}
             one == <<f>>
             two == <<f, g>>
             grown == Append(one, g)
  <2>1. /\ one \in Seq(S) /\ Len(one) = 1 /\ one[1] = f /\ g \in S
        /\ two \in Seq(S) /\ Len(two) = 2 /\ two[1] = f /\ two[2] = g
    OBVIOUS
  <2> HIDE DEF S, one, two
  <2>2. grown \in Seq(S) /\ Len(grown) = 2 /\ grown[1] = f /\ grown[2] = g
    <3>1. grown \in Seq(S) /\ Len(grown) = Len(one) + 1
      BY <2>1, AppendProperties, SMTT(30)
    <3>2. \A k \in 1 .. Len(one) : grown[k] = one[k]
      BY <2>1, AppendProperties, SMTT(30)
    <3>3. grown[Len(one) + 1] = g
      BY <2>1, AppendProperties
    <3> HIDE DEF grown
    <3>4. QED
      BY <2>1, <3>1, <3>2, <3>3
  <2> HIDE DEF grown
  <2>3. \A k \in 1 .. Len(grown) : grown[k] = two[k]
    BY <2>1, <2>2
  <2>4. grown = two
    BY <2>1, <2>2, <2>3, SeqEqual
  <2>5. QED
    BY <2>4 DEF grown, one, two
<1>3. QED
  BY <1>1, <1>2

LEMMA GenLineStep ==
  ASSUME NEW mode \in GenModes, NEW f \in STRING \ Flags, NEW s \in Numbers, NEW n \in Numbers,
         GenLine(mode, f, s, n), [Next]_vars
  PROVE  GenLine(mode, f, s, n)'
<1>1. CASE UNCHANGED vars
  BY <1>1 DEF vars, GenLine
<1>2. CASE Next
  <2>1. outcome = Undecided /\ args' = args
    BY <1>2, NextOnce
  <2>2. SUFFICES ASSUME args = <<mode, f, "--seed", s, "--count", n>>
                 PROVE  GenLine(mode, f, s, n)'
    BY <2>1 DEF GenLine
  <2>3. /\ Len(args) = 6 /\ args[1] = mode /\ args[2] = f /\ args[3] = "--seed" /\ args[4] = s
        /\ args[5] = "--count" /\ args[6] = n
    BY <2>2
  <2>4. mode \in Modes
    BY DEF GenModes, Modes
  <2>5. GenCall(mode, f, s, n) # Undecided
    BY DEF GenCall, Call, Undecided, GenModes
  <2>6. \/ i = 1 /\ opts = Opts({}, <<>>, None, None, None)
        \/ i = 2 /\ opts = Opts({mode}, <<>>, None, None, None)
        \/ i = 3 /\ opts = Opts({mode}, <<f>>, None, None, None)
        \/ i = 5 /\ opts = Opts({mode}, <<f>>, None, s, None)
        \/ i = 7 /\ opts = Opts({mode}, <<f>>, None, s, n)
    BY <2>1, <2>2, <2>5 DEF GenLine
  <2>7. CASE i = 1 /\ opts = Opts({}, <<>>, None, None, None)
    <3>1. /\ i' = 2 /\ outcome' = outcome
          /\ opts' = [opts EXCEPT !.modes = @ \cup {mode}]
      <4>1. i \in Nat \ {0} /\ Len(args) \in Nat /\ i <= Len(args) /\ i + 1 = 2
        BY <2>3, <2>7
      <4>2. args[i] = mode /\ args[i] \in Modes
        BY <2>3, <2>7, <2>4
      <4>3. i' = i + 1 /\ outcome' = outcome /\ opts' = [opts EXCEPT !.modes = @ \cup {args[i]}]
        BY <1>2, <2>1, <4>1, <4>2, NextAtWord
      <4>4. QED
        BY <4>1, <4>2, <4>3
    <3>2. opts' = Opts({mode}, <<>>, None, None, None)
      BY <2>7, <3>1 DEF Opts
    <3>3. QED
      BY <2>1, <3>1, <3>2 DEF GenLine
  <2>8. CASE i = 2 /\ opts = Opts({mode}, <<>>, None, None, None)
    <3>1. /\ i' = 3 /\ outcome' = outcome
          /\ opts' = [opts EXCEPT !.input_files = Append(@, f)]
      <4>1. i \in Nat \ {0} /\ Len(args) \in Nat /\ i <= Len(args) /\ i + 1 = 3
        BY <2>3, <2>8
      <4>2. args[i] = f /\ args[i] \notin Flags
        BY <2>3, <2>8
      <4>3. i' = i + 1 /\ outcome' = outcome /\ opts' = [opts EXCEPT !.input_files = Append(@, args[i])]
        BY <1>2, <2>1, <4>1, <4>2, NextAtWord
      <4>4. QED
        BY <4>1, <4>2, <4>3
    <3>2. opts' = Opts({mode}, <<f>>, None, None, None)
      BY <2>8, <3>1, Appended DEF Opts
    <3>3. QED
      BY <2>1, <3>1, <3>2 DEF GenLine
  <2>9. CASE i = 3 /\ opts = Opts({mode}, <<f>>, None, None, None)
    <3>1. i' = 5 /\ outcome' = outcome /\ opts' = [opts EXCEPT !.seed = s]
      <4>1. i \in Nat \ {0} /\ Len(args) \in Nat /\ i <= Len(args) /\ i + 2 = 5
        BY <2>3, <2>9
      <4>2. args[i] = "--seed" /\ args[i + 1] = s /\ args[i] = "--seed" /\ i < Len(args) /\ args[i + 1] \in Numbers
        BY <2>3, <2>9
      <4>3. i' = i + 2 /\ outcome' = outcome /\ opts' = [opts EXCEPT !.seed = args[i + 1]]
        BY <1>2, <2>1, <4>1, <4>2, NextAtWord
      <4>4. QED
        BY <4>1, <4>2, <4>3
    <3>2. opts' = Opts({mode}, <<f>>, None, s, None)
      BY <2>9, <3>1 DEF Opts
    <3>3. QED
      BY <2>1, <3>1, <3>2 DEF GenLine
  <2>10. CASE i = 5 /\ opts = Opts({mode}, <<f>>, None, s, None)
    <3>1. i' = 7 /\ outcome' = outcome /\ opts' = [opts EXCEPT !.count = n]
      <4>1. i \in Nat \ {0} /\ Len(args) \in Nat /\ i <= Len(args) /\ i + 2 = 7
        BY <2>3, <2>10
      <4>2. args[i] = "--count" /\ args[i + 1] = n /\ args[i] = "--count" /\ i < Len(args) /\ args[i + 1] \in Numbers
        BY <2>3, <2>10
      <4>3. i' = i + 2 /\ outcome' = outcome /\ opts' = [opts EXCEPT !.count = args[i + 1]]
        BY <1>2, <2>1, <4>1, <4>2, NextAtWord
      <4>4. QED
        BY <4>1, <4>2, <4>3
    <3>2. opts' = Opts({mode}, <<f>>, None, s, n)
      BY <2>10, <3>1 DEF Opts
    <3>3. QED
      BY <2>1, <3>1, <3>2 DEF GenLine
  <2>11. CASE i = 7 /\ opts = Opts({mode}, <<f>>, None, s, n)
    <3>1. opts.modes = {mode} /\ OutputDir = f /\ opts.seed = s /\ opts.count = n
      BY <2>11 DEF Opts, OutputDir, HasInput, FirstInput
    <3>2. outcome' = [Call(mode) EXCEPT !.out = OutputDir, !.seed = opts.seed, !.count = opts.count]
      <4>1. i \in Nat /\ Len(args) \in Nat /\ i > Len(args) /\ Len(args) > 0
        BY <2>3, <2>11
      <4>2. QED
        BY <1>2, <3>1, <4>1, NextAtEnd
    <3>3. outcome' = GenCall(mode, f, s, n)
      BY <3>1, <3>2 DEF GenCall
    <3>4. QED
      BY <3>3 DEF GenLine, GenCall, Call
  <2>12. QED
    BY <2>6, <2>7, <2>8, <2>9, <2>10, <2>11
<1>3. QED
  BY <1>1, <1>2

LEMMA TriageLineStep ==
  ASSUME NEW f \in STRING \ Flags, TriageLine(f), [Next]_vars
  PROVE  TriageLine(f)'
<1>1. CASE UNCHANGED vars
  BY <1>1 DEF vars, TriageLine
<1>2. CASE Next
  <2>1. outcome = Undecided /\ args' = args
    BY <1>2, NextOnce
  <2>2. SUFFICES ASSUME args = <<"--triage", f>> PROVE TriageLine(f)'
    BY <2>1 DEF TriageLine
  <2>3. Len(args) = 2 /\ args[1] = "--triage" /\ args[2] = f /\ "--triage" \in Modes
    BY <2>2 DEF Modes
  <2>4. TriageCall(f) # Undecided
    BY DEF TriageCall, Call, Undecided
  <2>5. \/ i = 1 /\ opts = Opts({}, <<>>, None, None, None)
        \/ i = 2 /\ opts = Opts({"--triage"}, <<>>, None, None, None)
        \/ i = 3 /\ opts = Opts({"--triage"}, <<f>>, None, None, None)
    BY <2>1, <2>2, <2>4 DEF TriageLine
  <2>6. CASE i = 1 /\ opts = Opts({}, <<>>, None, None, None)
    <3>1. i' = 2 /\ outcome' = outcome /\ opts' = [opts EXCEPT !.modes = @ \cup {"--triage"}]
      <4>1. i \in Nat \ {0} /\ Len(args) \in Nat /\ i <= Len(args) /\ i + 1 = 2
        BY <2>3, <2>6
      <4>2. args[i] = "--triage" /\ args[i] \in Modes
        BY <2>3, <2>6
      <4>3. i' = i + 1 /\ outcome' = outcome /\ opts' = [opts EXCEPT !.modes = @ \cup {args[i]}]
        BY <1>2, <2>1, <4>1, <4>2, NextAtWord
      <4>4. QED
        BY <4>1, <4>2, <4>3
    <3>2. opts' = Opts({"--triage"}, <<>>, None, None, None)
      BY <2>6, <3>1 DEF Opts
    <3>3. QED
      BY <2>1, <3>1, <3>2 DEF TriageLine
  <2>7. CASE i = 2 /\ opts = Opts({"--triage"}, <<>>, None, None, None)
    <3>1. i' = 3 /\ outcome' = outcome /\ opts' = [opts EXCEPT !.input_files = Append(@, f)]
      <4>1. i \in Nat \ {0} /\ Len(args) \in Nat /\ i <= Len(args) /\ i + 1 = 3
        BY <2>3, <2>7
      <4>2. args[i] = f /\ args[i] \notin Flags
        BY <2>3, <2>7
      <4>3. i' = i + 1 /\ outcome' = outcome /\ opts' = [opts EXCEPT !.input_files = Append(@, args[i])]
        BY <1>2, <2>1, <4>1, <4>2, NextAtWord
      <4>4. QED
        BY <4>1, <4>2, <4>3
    <3>2. opts' = Opts({"--triage"}, <<f>>, None, None, None)
      BY <2>7, <3>1, Appended DEF Opts
    <3>3. QED
      BY <2>1, <3>1, <3>2 DEF TriageLine
  <2>8. CASE i = 3 /\ opts = Opts({"--triage"}, <<f>>, None, None, None)
    <3>1. opts.modes = {"--triage"} /\ HasInput /\ FirstInput = f /\ opts.no_verify = FALSE
      BY <2>8 DEF Opts, HasInput, FirstInput
    <3>2. outcome' = [Call("--triage") EXCEPT !.reads = <<LoadAuto(FirstInput)>>,
                                              !.verify = ~ opts.no_verify]
      <4>1. i \in Nat /\ Len(args) \in Nat /\ i > Len(args) /\ Len(args) > 0
        BY <2>3, <2>8
      <4>2. QED
        BY <1>2, <3>1, <4>1, NextAtEnd
    <3>3. outcome' = TriageCall(f)
      <4> DEFINE read == <<Kind(f)>>
                 call == Call("--triage")
      <4>1. <<LoadAuto(FirstInput)>> = read /\ (~ opts.no_verify) = call.verify
        BY <3>1 DEF LoadAuto, Kind, Call
      <4>2. call = [call EXCEPT !.verify = call.verify]
        BY DEF Call
      <4> HIDE DEF read, call
      <4>3. outcome' = [call EXCEPT !.reads = read, !.verify = call.verify]
        BY <3>2, <4>1 DEF call
      <4>4. outcome' = [call EXCEPT !.reads = read]
        BY <4>2, <4>3 DEF call, Call
      <4>5. QED
        BY <4>4 DEF TriageCall, read, call
    <3>4. QED
      BY <3>3 DEF TriageLine, TriageCall, Kind, Call
  <2>9. QED
    BY <2>5, <2>6, <2>7, <2>8
<1>3. QED
  BY <1>1, <1>2

LEMMA JsonLineStep ==
  ASSUME NEW f \in STRING \ Flags, NEW g, JsonLine(f, g), [Next]_vars
  PROVE  JsonLine(f, g)'
<1>1. CASE UNCHANGED vars
  BY <1>1 DEF vars, JsonLine
<1>2. CASE Next
  <2>1. outcome = Undecided /\ args' = args
    BY <1>2, NextOnce
  <2>2. SUFFICES ASSUME args = <<f, "-o", g>> PROVE JsonLine(f, g)'
    BY <2>1 DEF JsonLine
  <2>3. Len(args) = 3 /\ args[1] = f /\ args[2] = "-o" /\ args[3] = g
    BY <2>2
  <2>4. JsonCall(f, g) # Undecided
    BY DEF JsonCall, Call, Undecided
  <2>5. \/ i = 1 /\ opts = Opts({}, <<>>, None, None, None)
        \/ i = 2 /\ opts = Opts({}, <<f>>, None, None, None)
        \/ i = 4 /\ opts = Opts({}, <<f>>, g, None, None)
    BY <2>1, <2>2, <2>4 DEF JsonLine
  <2>6. CASE i = 1 /\ opts = Opts({}, <<>>, None, None, None)
    <3>1. i' = 2 /\ outcome' = outcome /\ opts' = [opts EXCEPT !.input_files = Append(@, f)]
      <4>1. i \in Nat \ {0} /\ Len(args) \in Nat /\ i <= Len(args) /\ i + 1 = 2
        BY <2>3, <2>6
      <4>2. args[i] = f /\ args[i] \notin Flags
        BY <2>3, <2>6
      <4>3. i' = i + 1 /\ outcome' = outcome /\ opts' = [opts EXCEPT !.input_files = Append(@, args[i])]
        BY <1>2, <2>1, <4>1, <4>2, NextAtWord
      <4>4. QED
        BY <4>1, <4>2, <4>3
    <3>2. opts' = Opts({}, <<f>>, None, None, None)
      BY <2>6, <3>1, Appended DEF Opts
    <3>3. QED
      BY <2>1, <3>1, <3>2 DEF JsonLine
  <2>7. CASE i = 2 /\ opts = Opts({}, <<f>>, None, None, None)
    <3>1. i' = 4 /\ outcome' = outcome /\ opts' = [opts EXCEPT !.output_path = g]
      <4>1. i \in Nat \ {0} /\ Len(args) \in Nat /\ i <= Len(args) /\ i + 2 = 4
        BY <2>3, <2>7
      <4>2. args[i] = "-o" /\ args[i + 1] = g /\ args[i] = "-o" /\ i < Len(args)
        BY <2>3, <2>7
      <4>3. i' = i + 2 /\ outcome' = outcome /\ opts' = [opts EXCEPT !.output_path = args[i + 1]]
        BY <1>2, <2>1, <4>1, <4>2, NextAtWord
      <4>4. QED
        BY <4>1, <4>2, <4>3
    <3>2. opts' = Opts({}, <<f>>, g, None, None)
      BY <2>7, <3>1 DEF Opts
    <3>3. QED
      BY <2>1, <3>1, <3>2 DEF JsonLine
  <2>8. CASE i = 4 /\ opts = Opts({}, <<f>>, g, None, None)
    <3>1. opts.modes = {} /\ HasInput /\ FirstInput = f /\ opts.output_path = g
      BY <2>8 DEF Opts, HasInput, FirstInput
    <3>2. outcome' = [Call("json") EXCEPT !.reads = <<<<FirstInput, "json">>>>,
                                          !.out = opts.output_path]
      <4>1. i \in Nat /\ Len(args) \in Nat /\ i > Len(args) /\ Len(args) > 0
        BY <2>3, <2>8
      <4>2. QED
        BY <1>2, <3>1, <4>1, NextAtEnd
    <3>3. outcome' = JsonCall(f, g)
      BY <3>1, <3>2 DEF JsonCall
    <3>4. QED
      BY <3>3 DEF JsonLine, JsonCall, Call
  <2>9. QED
    BY <2>5, <2>6, <2>7, <2>8
<1>3. QED
  BY <1>1, <1>2

LEMMA MutateLineStep ==
  ASSUME NEW f \in STRING \ Flags, NEW g \in STRING \ Flags, MutateLine(f, g), [Next]_vars
  PROVE  MutateLine(f, g)'
<1>1. CASE UNCHANGED vars
  BY <1>1 DEF vars, MutateLine
<1>2. CASE Next
  <2>1. outcome = Undecided /\ args' = args
    BY <1>2, NextOnce
  <2>2. SUFFICES ASSUME args = <<"--mutate", f, g, "-o", f>> PROVE MutateLine(f, g)'
    BY <2>1 DEF MutateLine
  <2>3. /\ Len(args) = 5 /\ args[1] = "--mutate" /\ args[2] = f /\ args[3] = g /\ args[4] = "-o"
        /\ args[5] = f /\ "--mutate" \in Modes
    BY <2>2 DEF Modes
  <2>4. MutateCall(f, g) # Undecided
    BY DEF MutateCall, Call, Undecided
  <2>5. \/ i = 1 /\ opts = Opts({}, <<>>, None, None, None)
        \/ i = 2 /\ opts = Opts({"--mutate"}, <<>>, None, None, None)
        \/ i = 3 /\ opts = Opts({"--mutate"}, <<f>>, None, None, None)
        \/ i = 4 /\ opts = Opts({"--mutate"}, <<f, g>>, None, None, None)
        \/ i = 6 /\ opts = Opts({"--mutate"}, <<f, g>>, f, None, None)
    BY <2>1, <2>2, <2>4 DEF MutateLine
  <2>6. CASE i = 1 /\ opts = Opts({}, <<>>, None, None, None)
    <3>1. i' = 2 /\ outcome' = outcome /\ opts' = [opts EXCEPT !.modes = @ \cup {"--mutate"}]
      <4>1. i \in Nat \ {0} /\ Len(args) \in Nat /\ i <= Len(args) /\ i + 1 = 2
        BY <2>3, <2>6
      <4>2. args[i] = "--mutate" /\ args[i] \in Modes
        BY <2>3, <2>6
      <4>3. i' = i + 1 /\ outcome' = outcome /\ opts' = [opts EXCEPT !.modes = @ \cup {args[i]}]
        BY <1>2, <2>1, <4>1, <4>2, NextAtWord
      <4>4. QED
        BY <4>1, <4>2, <4>3
    <3>2. opts' = Opts({"--mutate"}, <<>>, None, None, None)
      BY <2>6, <3>1 DEF Opts
    <3>3. QED
      BY <2>1, <3>1, <3>2 DEF MutateLine
  <2>7. CASE i = 2 /\ opts = Opts({"--mutate"}, <<>>, None, None, None)
    <3>1. i' = 3 /\ outcome' = outcome /\ opts' = [opts EXCEPT !.input_files = Append(@, f)]
      <4>1. i \in Nat \ {0} /\ Len(args) \in Nat /\ i <= Len(args) /\ i + 1 = 3
        BY <2>3, <2>7
      <4>2. args[i] = f /\ args[i] \notin Flags
        BY <2>3, <2>7
      <4>3. i' = i + 1 /\ outcome' = outcome /\ opts' = [opts EXCEPT !.input_files = Append(@, args[i])]
        BY <1>2, <2>1, <4>1, <4>2, NextAtWord
      <4>4. QED
        BY <4>1, <4>2, <4>3
    <3>2. opts' = Opts({"--mutate"}, <<f>>, None, None, None)
      BY <2>7, <3>1, Appended DEF Opts
    <3>3. QED
      BY <2>1, <3>1, <3>2 DEF MutateLine
  <2>8. CASE i = 3 /\ opts = Opts({"--mutate"}, <<f>>, None, None, None)
    <3>1. i' = 4 /\ outcome' = outcome /\ opts' = [opts EXCEPT !.input_files = Append(@, g)]
      <4>1. i \in Nat \ {0} /\ Len(args) \in Nat /\ i <= Len(args) /\ i + 1 = 4
        BY <2>3, <2>8
      <4>2. args[i] = g /\ args[i] \notin Flags
        BY <2>3, <2>8
      <4>3. i' = i + 1 /\ outcome' = outcome /\ opts' = [opts EXCEPT !.input_files = Append(@, args[i])]
        BY <1>2, <2>1, <4>1, <4>2, NextAtWord
      <4>4. QED
        BY <4>1, <4>2, <4>3
    <3>2. Append(<<f>>, g) = <<f, g>>
      BY Appended
    <3>3. opts' = Opts({"--mutate"}, <<f, g>>, None, None, None)
      BY <2>8, <3>1, <3>2 DEF Opts
    <3>4. QED
      BY <2>1, <3>1, <3>3 DEF MutateLine
  <2>9. CASE i = 4 /\ opts = Opts({"--mutate"}, <<f, g>>, None, None, None)
    <3>1. i' = 6 /\ outcome' = outcome /\ opts' = [opts EXCEPT !.output_path = f]
      <4>1. i \in Nat \ {0} /\ Len(args) \in Nat /\ i <= Len(args) /\ i + 2 = 6
        BY <2>3, <2>9
      <4>2. args[i] = "-o" /\ args[i + 1] = f /\ args[i] = "-o" /\ i < Len(args)
        BY <2>3, <2>9
      <4>3. i' = i + 2 /\ outcome' = outcome /\ opts' = [opts EXCEPT !.output_path = args[i + 1]]
        BY <1>2, <2>1, <4>1, <4>2, NextAtWord
      <4>4. QED
        BY <4>1, <4>2, <4>3
    <3>2. opts' = Opts({"--mutate"}, <<f, g>>, f, None, None)
      BY <2>9, <3>1 DEF Opts
    <3>3. QED
      BY <2>1, <3>1, <3>2 DEF MutateLine
  <2>10. CASE i = 6 /\ opts = Opts({"--mutate"}, <<f, g>>, f, None, None)
    <3>1. /\ opts.modes = {"--mutate"} /\ opts.input_files = <<f, g>> /\ HasInput
          /\ opts.output_path = f /\ opts.seed = None
      BY <2>10 DEF Opts, HasInput
    <3>2. outcome' = [Call("--mutate") EXCEPT
                        !.reads = [k \in DOMAIN opts.input_files |-> LoadAuto(opts.input_files[k])],
                        !.out = opts.output_path, !.seed = opts.seed]
      <4>1. i \in Nat /\ Len(args) \in Nat /\ i > Len(args) /\ Len(args) > 0
        BY <2>3, <2>10
      <4>2. QED
        BY <1>2, <3>1, <4>1, NextAtEnd
    <3>3. [k \in DOMAIN opts.input_files |-> LoadAuto(opts.input_files[k])] = <<Kind(f), Kind(g)>>
      BY <3>1 DEF LoadAuto, Kind
    <3>4. outcome' = [Call("--mutate") EXCEPT !.reads = <<Kind(f), Kind(g)>>, !.out = f, !.seed = None]
      BY <3>1, <3>2, <3>3
    <3>5. outcome' = MutateCall(f, g)
      <4> DEFINE read == <<Kind(f), Kind(g)>>
      <4> HIDE DEF read
      <4>1. outcome' = [Call("--mutate") EXCEPT !.reads = read, !.out = f, !.seed = None]
        BY <3>4 DEF read
      <4> DEFINE call == Call("--mutate")
      <4>2. call = [call EXCEPT !.seed = call.seed] /\ call.seed = None
        BY DEF Call
      <4> HIDE DEF call
      <4>3. outcome' = [call EXCEPT !.reads = read, !.out = f, !.seed = call.seed]
        BY <4>1, <4>2 DEF call
      <4>4. outcome' = [call EXCEPT !.reads = read, !.out = f]
        BY <4>2, <4>3 DEF call, Call
      <4>5. QED
        BY <4>4 DEF MutateCall, read, call
    <3>6. QED
      BY <3>5 DEF MutateLine, MutateCall, Kind, Call
  <2>11. QED
    BY <2>5, <2>6, <2>7, <2>8, <2>9, <2>10
<1>3. QED
  BY <1>1, <1>2

(* The lines that the script and the README write do what they are for     *)
(* (main.rs:310-402).                                                      *)
THEOREM DocumentedLinesWork == Spec => []DocumentedLines
<1>1. Init => DocInv
  BY DEF Init, DocInv, GenLine, TriageLine, MutateLine, JsonLine, Opts, NoOptions
<1>2. DocInv /\ [Next]_vars => DocInv'
  BY GenLineStep, TriageLineStep, MutateLineStep, JsonLineStep DEF DocInv
<1>3. LineInv /\ DocInv => DocumentedLines
  <2> SUFFICES ASSUME LineInv, DocInv,
                      NEW f \in Range(args) \ Flags, NEW g \in Range(args) \ Flags,
                      NEW s \in Numbers, NEW n \in Numbers
               PROVE  /\ \A mode \in GenModes :
                           Understood(<<mode, f, "--seed", s, "--count", n>>, GenCall(mode, f, s, n))
                      /\ Understood(<<"--triage", f>>, TriageCall(f))
                      /\ Understood(<<"--mutate", f, g, "-o", f>>, MutateCall(f, g))
                      /\ Understood(<<f, "-o", g>>, JsonCall(f, g))
    BY DEF DocumentedLines, GenModes, GenCall, TriageCall, MutateCall, JsonCall
  <2>1. f \in STRING \ Flags /\ g \in STRING \ Flags
    BY DEF Range, LineInv
  <2>2. QED
    BY <2>1 DEF DocInv, Understood, GenLine, TriageLine, MutateLine, JsonLine
<1>4. QED
  BY <1>1, <1>2, <1>3, LineInvariance, PTL DEF Spec

=============================================================================
