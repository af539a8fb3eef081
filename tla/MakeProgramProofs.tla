-------------------------- MODULE MakeProgramProofs --------------------------
(***************************************************************************)
(* Proofs about MakeProgram, for every program, version and width of the   *)
(* integers.  The history starts, the slot where each instruction begins,  *)
(* ties the three loops of the code together: each of them is at the       *)
(* position that starts gives for its own k.                               *)
(***************************************************************************)
EXTENDS MakeProgram, TLAPS

(* A sequence with one element more.                                       *)
LEMMA ConcatOne ==
  ASSUME NEW S, NEW c \in Seq(S), NEW s \in S
  PROVE  /\ c \o <<s>> \in Seq(S)
         /\ Len(c \o <<s>>) = Len(c) + 1
         /\ \A p \in 1 .. Len(c) : (c \o <<s>>)[p] = c[p]
         /\ (c \o <<s>>)[Len(c) + 1] = s
<1>1. <<s>> \in Seq(S) /\ Len(<<s>>) = 1 /\ <<s>>[1] = s
  OBVIOUS
<1>2. QED
  BY <1>1

(* A sequence with two elements more.                                      *)
LEMMA ConcatTwo ==
  ASSUME NEW S, NEW c \in Seq(S), NEW s \in S, NEW t \in S
  PROVE  /\ c \o <<s, t>> \in Seq(S)
         /\ Len(c \o <<s, t>>) = Len(c) + 2
         /\ \A p \in 1 .. Len(c) : (c \o <<s, t>>)[p] = c[p]
         /\ (c \o <<s, t>>)[Len(c) + 1] = s
         /\ (c \o <<s, t>>)[Len(c) + 2] = t
<1>1. <<s, t>> \in Seq(S) /\ Len(<<s, t>>) = 2 /\ <<s, t>>[1] = s /\ <<s, t>>[2] = t
  OBVIOUS
<1>2. QED
  BY <1>1

(* The facts about the constants, for a program.                           *)
LEMMA ProgramFacts ==
  ASSUME NEW p \in Programs
  PROVE  /\ p \in Seq(FuzzedInstruction)
         /\ 4 * Len(p) <= I16Range
         /\ I16Range \in Nat \ {0} /\ I16Range % 2 = 0
         /\ UsizeRange \in Nat \ {0}
         /\ Versions \subseteq SUBSET Features
  BY MakeProgramAssumption

(* Every instruction has 0, 1 or 2 slots, and a size that does not change. *)
LEMMA SizeRange ==
  ASSUME NEW i PROVE Size(i) \in 0 .. 2
  BY DEF Size, Slots

(* What an instruction takes depends on the program and the version only.  *)
LEMMA SizeStable ==
  ASSUME UNCHANGED <<only_verified, prog, version>>
  PROVE  \A j : Size(prog[j])' = Size(prog[j])
  BY DEF Size, Slots, Skipped

(* rem_euclid gives a slot of the program.                                 *)
LEMMA ModRange ==
  ASSUME NEW a \in Int, NEW b \in Nat \ {0}
  PROVE  a % b \in 0 .. b - 1
  OBVIOUS

(* The target that rem_euclid computes is a slot of the program.           *)
LEMMA TargetRange ==
  ASSUME UsizeRange \in Nat \ {0}, len \in Nat \ {0}, NEW off \in Int
  PROVE  Target(off) \in 0 .. len - 1
<1>1. off % UsizeRange \in Nat
  BY ModRange
<1>2. QED
  BY <1>1, ModRange DEF Target

(* A number in the range of i16 is its own value as an i16.                *)
LEMMA SmallMod ==
  ASSUME NEW b \in Nat \ {0}, NEW a \in 0 .. b - 1
  PROVE  a % b = a
  OBVIOUS

(* The cast of fix_jump to i16 keeps an offset that fits.                  *)
LEMMA AsI16Small ==
  ASSUME I16Range \in Nat \ {0}, I16Range % 2 = 0,
         NEW n \in Int, - I16Range <= 2 * n, 2 * n < I16Range
  PROVE  AsI16(n) = n
<1>1. I16Range \div 2 \in Nat /\ 2 * (I16Range \div 2) = I16Range
  OBVIOUS
<1> DEFINE h == I16Range \div 2
<1> HIDE DEF h
<1>2. h \in Nat /\ 2 * h = I16Range
  BY <1>1 DEF h
<1>3. n + h \in 0 .. I16Range - 1
  BY <1>2
<1>4. (n + h) % I16Range = n + h
  BY <1>3, SmallMod
<1>5. AsI16(n) = ((n + h) % I16Range) - h
  BY DEF AsI16, h
<1>6. QED
  BY <1>2, <1>4, <1>5

-----------------------------------------------------------------------------
(* The inductive invariant.                                                *)

Types == TypeOK /\ prog \in Programs

StartsInv ==
  /\ Len(starts) = (IF pc = "measure" THEN k ELSE Len(prog) + 1)
  /\ len = starts[Len(starts)]
  /\ starts[1] = 0
  /\ \A j \in 1 .. Len(starts) - 1 : starts[j + 1] = starts[j] + Size(prog[j])
  /\ \A i, j \in 1 .. Len(starts) : i <= j => starts[i] <= starts[j]
  /\ \A j \in 1 .. Len(starts) : starts[j] <= 2 * (j - 1)

CountInv ==
  /\ pc = "measure" => pos = 0 /\ code = <<>>
  /\ pc \in {"emit", "walk"} => pos = starts[k] /\ Len(code) = pos
  /\ pc = "done" => pos = len /\ Len(code) = len + 1

(* A second half is behind the start of an instruction of two slots.       *)
HalfAt(p) == \E j \in 1 .. Len(prog) : Size(prog[j]) = 2 /\ p = starts[j] + 2

HalvesInv ==
  pc # "measure" => \A p \in 1 .. Len(code) : code[p].half => HalfAt(p)

(* A slot where an instruction starts.                                     *)
Start(s) == s \in 0 .. len - 1 /\ \E j \in 1 .. Len(prog) + 1 : s = starts[j]

LandInv ==
  only_verified => \A p \in 1 .. Len(code) : code[p].jump => Start(Landing(p))

WalkInv ==
  pc = "walk" =>
    /\ only_verified
    /\ k <= Len(prog)
    /\ Size(prog[k]) = 1
    /\ walk.target \in 1 .. len - 1
    /\ walk.remaining = walk.target - starts[walk.k]
    /\ walk.remaining > 0

Inv == Types /\ StartsInv /\ CountInv /\ HalvesInv /\ LandInv /\ WalkInv

(* The invariant holds when make_program is called.                        *)
LEMMA InitInv == Init => Inv
<1> SUFFICES ASSUME Init PROVE Inv
  OBVIOUS
<1>1. prog \in Seq(FuzzedInstruction) /\ Len(prog) \in Nat
  BY ProgramFacts DEF Init
<1>2. Types
  BY <1>1, ProgramFacts DEF Init, Types, TypeOK, NoWalk
<1>3. StartsInv
  BY DEF Init, StartsInv
<1>4. CountInv /\ HalvesInv /\ LandInv /\ WalkInv
  BY DEF Init, CountInv, HalvesInv, LandInv, WalkInv
<1>5. QED
  BY <1>2, <1>3, <1>4 DEF Inv

-----------------------------------------------------------------------------
(* What the invariant says of the numbers.                                 *)

(* The types of the numbers, from the invariant.                           *)
LEMMA Numbers ==
  ASSUME Inv
  PROVE  /\ Len(prog) \in Nat /\ 4 * Len(prog) <= I16Range
         /\ I16Range \in Nat \ {0} /\ I16Range % 2 = 0 /\ UsizeRange \in Nat \ {0}
         /\ k \in 1 .. Len(prog) + 1
         /\ len \in Nat /\ pos \in Nat
         /\ walk.target \in Nat /\ walk.remaining \in Nat
         /\ walk.k \in 1 .. Len(prog) + 1
         /\ starts \in Seq(Nat) /\ DOMAIN starts = 1 .. Len(starts)
         /\ Len(starts) \in Nat
         /\ \A j \in 1 .. Len(starts) : starts[j] \in Nat
         /\ code \in Seq(Slot) /\ Len(code) \in Nat
         /\ \A p \in 1 .. Len(code) : code[p] \in Slot /\ code[p].off \in Int
<1>1. prog \in Seq(FuzzedInstruction) /\ Len(prog) \in Nat /\ 4 * Len(prog) <= I16Range
  BY ProgramFacts DEF Inv, Types
<1>2. I16Range \in Nat \ {0} /\ I16Range % 2 = 0 /\ UsizeRange \in Nat \ {0}
  BY ProgramFacts DEF Inv, Types
<1>3. starts \in Seq(Nat) /\ code \in Seq(Slot)
  BY DEF Inv, Types, TypeOK
<1>4. /\ k \in 1 .. Len(prog) + 1 /\ len \in Nat /\ pos \in Nat
      /\ walk \in [target : Nat, remaining : Nat, k : 1 .. Len(prog) + 1]
  BY DEF Inv, Types, TypeOK
<1>5. \A p \in 1 .. Len(code) : code[p] \in Slot
  BY <1>3
<1>6. \A p \in 1 .. Len(code) : code[p].off \in Int
  BY <1>5 DEF Slot
<1>7. QED
  BY <1>1, <1>2, <1>3, <1>4, <1>5, <1>6, SMTT(30)

(* Once all is measured, the positions of the instructions.                *)
LEMMA Measured ==
  ASSUME Inv, pc # "measure"
  PROVE  /\ Len(starts) = Len(prog) + 1
         /\ len = starts[Len(prog) + 1]
         /\ \A j \in 1 .. Len(prog) + 1 : starts[j] \in Nat /\ starts[j] <= len
         /\ \A j \in 1 .. Len(prog) + 1 : starts[j] <= 2 * (j - 1)
         /\ \A j \in 1 .. Len(prog) : starts[j + 1] = starts[j] + Size(prog[j])
<1>1. Len(starts) = Len(prog) + 1 /\ Len(prog) \in Nat
  BY Numbers DEF Inv, StartsInv
<1>2. QED
  BY <1>1, Numbers DEF Inv, StartsInv

-----------------------------------------------------------------------------
(* calculate_length.                                                       *)

(* A turn of the loop of calculate_length.                                 *)
LEMMA MeasureInv == Inv /\ Measure => Inv'
<1> SUFFICES ASSUME Inv, Measure PROVE Inv'
  OBVIOUS
<1>a. Len(prog) \in Nat /\ k \in Nat /\ len \in Nat
  BY Numbers
<1>0. /\ Len(prog) \in Nat /\ k \in 1 .. Len(prog) + 1
      /\ len \in Nat /\ starts \in Seq(Nat)
      /\ walk \in [target : Nat, remaining : Nat, k : 1 .. Len(prog) + 1]
  BY Numbers DEF Inv, Types, TypeOK
<1>1. \A j : Size(prog[j])' = Size(prog[j])
  BY SizeStable DEF Measure
<1>2. Size(prog[k]) \in 0 .. 2
  BY SizeRange
<1>3. /\ pc = "measure" /\ pc' = "measure" /\ k' = k + 1 /\ k <= Len(prog)
      /\ prog' = prog /\ len' = len + Size(prog[k])
      /\ Len(starts) = k /\ len = starts[k]
  BY DEF Measure, Inv, StartsInv
<1>4. /\ Len(starts') = k + 1
      /\ starts' \in Seq(Nat)
      /\ starts'[k + 1] = len + Size(prog[k])
      /\ \A j \in 1 .. k : starts'[j] = starts[j]
  BY <1>0, <1>2, <1>3 DEF Measure
<1>5. Types'
  BY <1>0, <1>2, <1>3, <1>4 DEF Measure, Inv, Types, TypeOK
<1>6. StartsInv'
  <2>1. \A j \in 1 .. k - 1 : starts[j + 1] = starts[j] + Size(prog[j])
    BY <1>3 DEF Inv, StartsInv
  <2>2. \A j \in 1 .. k : starts'[j + 1] = starts'[j] + Size(prog[j])'
    BY <1>0, <1>1, <1>3, <1>4, <2>1, SMTT(30)
  <2>3. \A m, j \in 1 .. k : m <= j => starts[m] <= starts[j]
    BY <1>3 DEF Inv, StartsInv
  <2>4. \A m, j \in 1 .. k + 1 : m <= j => starts'[m] <= starts'[j]
    BY <1>0, <1>2, <1>3, <1>4, <2>3, SMTT(30)
  <2>5. starts[1] = 0 /\ \A j \in 1 .. k : starts[j] <= 2 * (j - 1)
    BY <1>3 DEF Inv, StartsInv
  <2>6. \A j \in 1 .. k + 1 : starts'[j] <= 2 * (j - 1)
    <3>1. starts[k] <= 2 * (k - 1)
      BY <1>0, <2>5
    <3>2. starts'[k + 1] <= 2 * k
      BY <1>0, <1>2, <1>3, <1>4, <3>1, SMTT(30)
    <3>3. \A j \in 1 .. k : starts'[j] <= 2 * (j - 1)
      BY <1>4, <2>5
    <3>4. ASSUME NEW j \in 1 .. k + 1, j \notin 1 .. k PROVE j = k + 1
      BY <1>a, <3>4
    <3>5. QED
      BY <1>a, <3>2, <3>3, <3>4
  <2>7. starts'[1] = 0
    BY <1>0, <1>4, <2>5
  <2>8. QED
    BY <1>0, <1>3, <1>4, <2>2, <2>4, <2>6, <2>7 DEF StartsInv
<1>7. CountInv' /\ HalvesInv' /\ LandInv' /\ WalkInv'
  <2>1. code' = <<>> /\ pos' = 0
    BY <1>3 DEF Measure, Inv, CountInv
  <2>2. QED
    BY <1>3, <2>1 DEF CountInv, HalvesInv, LandInv, WalkInv
<1>8. QED
  BY <1>5, <1>6, <1>7 DEF Inv

(* calculate_length returns.                                               *)
LEMMA EndMeasureInv == Inv /\ EndMeasure => Inv'
<1> SUFFICES ASSUME Inv, EndMeasure PROVE Inv'
  OBVIOUS
<1>1. \A j : Size(prog[j])' = Size(prog[j])
  BY SizeStable DEF EndMeasure
<1>0. Len(prog) \in Nat /\ k \in 1 .. Len(prog) + 1
  BY Numbers
<1>2. pc = "measure" /\ pc' = "emit" /\ k = Len(prog) + 1 /\ k' = 1
  BY <1>0 DEF EndMeasure
<1>3. UNCHANGED <<only_verified, prog, version, len, pos, code, walk, starts>>
  BY DEF EndMeasure
<1>4. Types'
  BY <1>0, <1>2, <1>3 DEF Inv, Types, TypeOK
<1>5. StartsInv'
  BY <1>1, <1>2, <1>3 DEF Inv, StartsInv
<1>6. pos = 0 /\ code = <<>> /\ starts[1] = 0
  BY <1>2 DEF Inv, CountInv, StartsInv
<1>7. CountInv' /\ HalvesInv' /\ LandInv' /\ WalkInv'
  BY <1>2, <1>3, <1>6 DEF CountInv, HalvesInv, LandInv, WalkInv
<1>8. QED
  BY <1>4, <1>5, <1>7 DEF Inv

-----------------------------------------------------------------------------
(* make_program.                                                           *)

(* The layout is fixed once it is measured.                                *)
LEMMA LayoutStable ==
  ASSUME Inv, pc # "measure", pc' # "measure",
         UNCHANGED <<only_verified, prog, version, len, starts>>
  PROVE  StartsInv' /\ (\A p : HalfAt(p) => HalfAt(p)') /\ (\A s : Start(s) => Start(s)')
<1>1. \A j : Size(prog[j])' = Size(prog[j])
  BY SizeStable
<1>2. StartsInv'
  BY <1>1 DEF Inv, StartsInv
<1>3. QED
  BY <1>1, <1>2 DEF HalfAt, Start

(* One slot is emitted, for an instruction of one slot; if it is a jump    *)
(* that was fitted it goes to the start of an instruction.                 *)
LEMMA EmitOneInv ==
  ASSUME Inv, pc \in {"emit", "walk"}, pc' = "emit", k <= Len(prog),
         Size(prog[k]) = 1, pos' = pos + 1,
         walk' \in [target : Nat, remaining : Nat, k : 1 .. Len(prog) + 1],
         NEW s \in Slot, Emit(<<s>>), ~ s.half,
         only_verified /\ s.jump => Start(pos + 1 + s.off)
  PROVE  Inv'
<1>0. /\ Len(prog) \in Nat /\ k \in 1 .. Len(prog) + 1
      /\ len \in Nat /\ pos \in Nat /\ pc # "measure"
      /\ code \in Seq(Slot)
  BY Numbers
<1>a. code \in Seq(Slot) /\ Len(code) = pos
  BY Numbers DEF Inv, CountInv
<1>1. UNCHANGED <<only_verified, prog, version, len, starts>> /\ k' = k + 1
  BY DEF Emit
<1>2. StartsInv' /\ (\A p : HalfAt(p) => HalfAt(p)') /\ (\A t : Start(t) => Start(t)')
  BY <1>0, <1>1, LayoutStable
<1>3. pos = starts[k] /\ Len(code) = pos
  BY DEF Inv, CountInv
<1>4. starts[k + 1] = pos + 1
  <2>1. k \in 1 .. Len(prog) /\ starts[k + 1] = starts[k] + Size(prog[k])
    BY <1>0, Measured
  <2>2. QED
    BY <1>3, <2>1
<1>5. /\ code' \in Seq(Slot)
      /\ Len(code') = pos + 1
      /\ \A p \in 1 .. pos : code'[p] = code[p]
      /\ code'[pos + 1] = s
  <2>1. code' = code \o <<s>>
    BY DEF Emit
  <2>2. QED
    BY <1>a, <2>1, ConcatOne
<1>6. Types'
  BY <1>0, <1>1, <1>5 DEF Inv, Types, TypeOK
<1>7. CountInv'
  BY <1>1, <1>4, <1>5 DEF CountInv
<1>8. HalvesInv'
  <2>1. \A p \in 1 .. pos : code[p].half => HalfAt(p)
    BY <1>3 DEF Inv, HalvesInv
  <2>2. \A p \in 1 .. pos + 1 : code'[p].half => p \in 1 .. pos /\ code[p].half
    BY <1>0, <1>5
  <2>3. QED
    BY <1>2, <1>5, <2>1, <2>2 DEF HalvesInv
<1>9. LandInv'
  <2>1. SUFFICES ASSUME only_verified, NEW p \in 1 .. pos + 1, code'[p].jump
                 PROVE  Start(Landing(p))'
    BY <1>1, <1>5 DEF LandInv
  <2>2. Landing(p)' = p + code'[p].off
    BY DEF Landing
  <2>3. CASE p \in 1 .. pos
    <3>1. Start(Landing(p))
      BY <1>3, <1>5, <2>1, <2>3 DEF Inv, LandInv
    <3>2. Landing(p)' = Landing(p)
      BY <1>5, <2>2, <2>3 DEF Landing
    <3>3. QED
      BY <1>1, <1>2, <3>1, <3>2, SizeStable DEF Start
  <2>4. CASE p = pos + 1
    BY <1>1, <1>2, <1>5, <2>1, <2>2, <2>4 DEF Start
  <2>5. QED
    BY <1>0, <2>3, <2>4
<1>10. WalkInv'
  BY DEF WalkInv
<1>11. QED
  BY <1>2, <1>6, <1>7, <1>8, <1>9, <1>10 DEF Inv

(* make_program leaves an instruction out: it was not counted either.      *)
LEMMA SkipInv == Inv /\ Skip => Inv'
<1> SUFFICES ASSUME Inv, Skip PROVE Inv'
  OBVIOUS
<1>a. Len(prog) \in Nat /\ k \in Nat
  BY Numbers
<1>b. code \in Seq(Slot)
  BY Numbers
<1>1. /\ pc = "emit" /\ pc' = "emit" /\ k <= Len(prog) /\ k' = k + 1
      /\ UNCHANGED <<only_verified, prog, version, len, starts, pos, walk>>
      /\ code' = code \o <<>>
  BY DEF Skip, Emit
<1>2. code' = code
  BY <1>b, <1>1
<1>3. StartsInv' /\ (\A p : HalfAt(p) => HalfAt(p)') /\ (\A t : Start(t) => Start(t)')
  BY <1>1, LayoutStable
<1>4. Types'
  BY <1>a, <1>1, <1>2 DEF Inv, Types, TypeOK
<1>5. starts[k + 1] = starts[k]
  <2>1. k \in 1 .. Len(prog)
    BY <1>1, Numbers
  <2>2. Size(prog[k]) = 0
    BY DEF Skip, Size
  <2>3. starts[k + 1] = starts[k] + Size(prog[k]) /\ starts[k] \in Nat
    BY <1>1, <2>1, Measured
  <2>4. QED
    BY <2>2, <2>3
<1>6. CountInv'
  BY <1>1, <1>2, <1>5 DEF Inv, CountInv
<1>7. HalvesInv'
  BY <1>1, <1>2, <1>3 DEF Inv, HalvesInv
<1>8. LandInv'
  <2>1. \A p : Landing(p)' = Landing(p)
    BY <1>2 DEF Landing
  <2>2. QED
    BY <1>1, <1>2, <1>3, <2>1, SizeStable DEF Inv, LandInv, Start
<1>9. WalkInv'
  BY <1>1 DEF WalkInv
<1>10. QED
  BY <1>3, <1>4, <1>6, <1>7, <1>8, <1>9 DEF Inv

(* An instruction that is not skipped has its slots.                       *)
LEMMA AtSize ==
  ASSUME NEW kinds, At(kinds)
  PROVE  pc = "emit" /\ k <= Len(prog) /\ Size(prog[k]) = Slots(prog[k])
  BY DEF At, Size

(* The type of the state of fix_jump.                                      *)
LEMMA WalkType == Inv => walk \in [target : Nat, remaining : Nat, k : 1 .. Len(prog) + 1]
  BY DEF Inv, Types, TypeOK

(* An instruction of one slot that is no jump.                             *)
LEMMA EmitPlainInv == Inv /\ EmitPlain => Inv'
<1> SUFFICES ASSUME Inv, EmitPlain PROVE Inv'
  OBVIOUS
<1>1. pc = "emit" /\ k <= Len(prog) /\ Size(prog[k]) = Slots(prog[k])
  BY AtSize DEF EmitPlain
<1>2. Slots(prog[k]) = 1
  BY DEF EmitPlain, At, Slots
<1>3. Plain \in Slot /\ ~ Plain.half /\ ~ Plain.jump
  BY DEF Plain, Slot
<1>4. Emit(<<Plain>>) /\ pos' = pos + 1 /\ pc' = "emit" /\ walk' = walk
  BY <1>1 DEF EmitPlain
<1>5. QED
  BY <1>1, <1>2, <1>3, <1>4, WalkType, EmitOneInv

(* A jump without only-verified.                                           *)
LEMMA EmitJumpAsIsInv == Inv /\ EmitJumpAsIs => Inv'
<1> SUFFICES ASSUME Inv, EmitJumpAsIs PROVE Inv'
  OBVIOUS
<1>1. pc = "emit" /\ k <= Len(prog) /\ Size(prog[k]) = Slots(prog[k])
  BY AtSize DEF EmitJumpAsIs
<1>2. Slots(prog[k]) = 1
  BY DEF EmitJumpAsIs, At, Slots, Jumps
<1>3. prog[k].off \in Int
  <2>1. prog \in Seq(FuzzedInstruction) /\ k \in 1 .. Len(prog)
    BY <1>1, Numbers DEF Inv, Types, TypeOK
  <2>2. prog[k] \in FuzzedInstruction
    BY <2>1
  <2>3. QED
    BY <2>2 DEF FuzzedInstruction
<1>4. JumpBy(prog[k].off) \in Slot /\ ~ JumpBy(prog[k].off).half
  BY <1>3 DEF JumpBy, Slot
<1>5. /\ Emit(<<JumpBy(prog[k].off)>>) /\ pos' = pos + 1 /\ pc' = "emit" /\ walk' = walk
      /\ ~ only_verified
  BY <1>1 DEF EmitJumpAsIs
<1>6. QED
  BY <1>1, <1>2, <1>4, <1>5, WalkType, EmitOneInv

(* An lddw takes two slots in both passes.                                 *)
LEMMA EmitLoadInv == Inv /\ EmitLoad => Inv'
<1> SUFFICES ASSUME Inv, EmitLoad PROVE Inv'
  OBVIOUS
<1>a. Len(prog) \in Nat /\ k \in 1 .. Len(prog) + 1 /\ pos \in Nat /\ len \in Nat
  BY Numbers
<1>b. code \in Seq(Slot) /\ Len(code) = pos /\ pos = starts[k]
  BY Numbers DEF Inv, CountInv, EmitLoad, At
<1>1. pc = "emit" /\ k <= Len(prog) /\ Size(prog[k]) = 2
  BY AtSize DEF EmitLoad, At, Slots
<1>2. /\ UNCHANGED <<only_verified, prog, version, len, starts, walk, pc>>
      /\ k' = k + 1 /\ pos' = pos + 2
      /\ code' = code \o <<Plain, Half>>
  BY DEF EmitLoad, Emit
<1>3. StartsInv' /\ (\A p : HalfAt(p) => HalfAt(p)') /\ (\A t : Start(t) => Start(t)')
  BY <1>1, <1>2, LayoutStable
<1>4. Plain \in Slot /\ Half \in Slot /\ ~ Plain.half /\ ~ Plain.jump /\ ~ Half.jump
  BY DEF Plain, Half, Slot
<1>5. /\ code' \in Seq(Slot)
      /\ Len(code') = pos + 2
      /\ \A p \in 1 .. pos : code'[p] = code[p]
      /\ code'[pos + 1] = Plain
      /\ code'[pos + 2] = Half
  <2>1. code' = code \o <<Plain, Half>>
    BY <1>2
  <2>2. code \in Seq(Slot) /\ Len(code) = pos /\ Plain \in Slot /\ Half \in Slot
    BY <1>b, <1>4
  <2>3. QED
    BY <2>1, <2>2, ConcatTwo
<1>6. Types'
  BY <1>a, <1>1, <1>2, <1>5 DEF Inv, Types, TypeOK
<1>7. CountInv'
  <2>1. k \in 1 .. Len(prog)
    BY <1>a, <1>1
  <2>2. starts[k + 1] = starts[k] + Size(prog[k])
    BY <1>1, <2>1, Measured
  <2>3. starts[k + 1] = pos + 2
    BY <1>a, <1>b, <1>1, <2>2
  <2>4. QED
    BY <1>1, <1>2, <1>5, <2>3 DEF CountInv
<1>8. HalfAt(pos + 2)
  <2>1. k \in 1 .. Len(prog) /\ pos + 2 = starts[k] + 2
    BY <1>a, <1>b, <1>1
  <2>2. QED
    BY <1>1, <2>1 DEF HalfAt
<1>9. HalvesInv'
  <2>1. \A p \in 1 .. pos : code[p].half => HalfAt(p)
    BY <1>b, <1>1 DEF Inv, HalvesInv
  <2>2. \A p \in 1 .. pos + 2 : code'[p].half => p = pos + 2 \/ (p \in 1 .. pos /\ code[p].half)
    <3>1. \A p \in 1 .. pos + 2 : p \in 1 .. pos \/ p = pos + 1 \/ p = pos + 2
      BY <1>a
    <3>2. ~ code'[pos + 1].half
      BY <1>4, <1>5
    <3>3. SUFFICES ASSUME NEW p \in 1 .. pos + 2, code'[p].half
                   PROVE  p = pos + 2 \/ (p \in 1 .. pos /\ code[p].half)
      OBVIOUS
    <3>4. CASE p \in 1 .. pos
      <4>1. code'[p] = code[p]
        BY <1>5, <3>4
      <4>2. QED
        BY <3>3, <3>4, <4>1
    <3>5. CASE p = pos + 1
      BY <3>2, <3>3, <3>5
    <3>6. CASE p = pos + 2
      BY <3>6
    <3>7. p \in 1 .. pos \/ p = pos + 1 \/ p = pos + 2
      BY <3>1, <3>3
    <3>8. QED
      BY <3>4, <3>5, <3>6, <3>7
  <2>3. QED
    BY <1>3, <1>5, <1>8, <2>1, <2>2 DEF HalvesInv
<1>10. LandInv'
  <2>1. SUFFICES ASSUME only_verified, NEW p \in 1 .. pos + 2, code'[p].jump
                 PROVE  Start(Landing(p))'
    BY <1>2, <1>5 DEF LandInv
  <2>2. p \in 1 .. pos /\ code'[p] = code[p]
    BY <1>a, <1>4, <1>5, <2>1
  <2>3. Landing(p)' = Landing(p)
    BY <2>2 DEF Landing
  <2>4. Start(Landing(p))
    BY <1>b, <2>1, <2>2 DEF Inv, LandInv
  <2>5. QED
    BY <1>2, <1>3, <2>3, <2>4 DEF Start
<1>11. WalkInv'
  BY <1>1, <1>2 DEF WalkInv
<1>12. QED
  BY <1>3, <1>6, <1>7, <1>9, <1>10, <1>11 DEF Inv

-----------------------------------------------------------------------------
(* fix_jump.                                                               *)

(* A jump that is fitted to a slot of the program fits into an i16.        *)
LEMMA EmitFixedInv ==
  ASSUME Inv, pc \in {"emit", "walk"}, k <= Len(prog), Size(prog[k]) = 1,
         NEW t \in Int, Start(t), EmitFixed(t - pos - 1)
  PROVE  Inv'
<1>a. /\ Len(prog) \in Nat /\ 4 * Len(prog) <= I16Range /\ k \in 1 .. Len(prog)
      /\ I16Range \in Nat \ {0} /\ I16Range % 2 = 0
      /\ len \in Nat /\ pos \in Nat
  BY Numbers
<1>1. pos = starts[k] /\ pos <= 2 * (k - 1) /\ len <= 2 * Len(prog)
  <2>1. pos = starts[k]
    BY DEF Inv, CountInv
  <2>2. starts[k] <= 2 * (k - 1)
    BY <1>a, Measured
  <2>3. Len(prog) + 1 \in 1 .. Len(prog) + 1 /\ 2 * (Len(prog) + 1 - 1) = 2 * Len(prog)
    BY <1>a
  <2>4. len <= 2 * (Len(prog) + 1 - 1)
    BY <2>3, Measured, SMTT(30)
  <2>5. QED
    BY <2>1, <2>2, <2>3, <2>4
<1>2. t \in 0 .. len - 1
  BY DEF Start
<1> DEFINE n == t - pos - 1
<1>3. n \in Int /\ - I16Range <= 2 * n /\ 2 * n < I16Range
  <2>1. I16Range \in Nat /\ Len(prog) \in Nat /\ k \in Nat /\ pos \in Nat /\ len \in Nat
    BY <1>a
  <2>2. t \in Nat /\ t <= len - 1 /\ len <= 2 * Len(prog)
    BY <1>1, <1>2, <2>1
  <2>3. pos <= 2 * Len(prog) - 2
    <3>1. k <= Len(prog)
      BY <1>a
    <3>2. QED
      BY <1>1, <2>1, <3>1
  <2>4. n \in Int /\ n >= 1 - 2 * Len(prog) /\ n <= 2 * Len(prog) - 2
    BY <2>1, <2>2, <2>3
  <2>5. 4 * Len(prog) <= I16Range
    BY <1>a
  <2> HIDE DEF n
  <2>6. QED
    BY <2>1, <2>4, <2>5
<1>4. AsI16(n) = n
  BY <1>a, <1>3, AsI16Small
<1>5. JumpBy(n) \in Slot /\ ~ JumpBy(n).half /\ JumpBy(n).off = n
  BY <1>3 DEF JumpBy, Slot
<1>6. /\ Emit(<<JumpBy(n)>>) /\ pos' = pos + 1 /\ pc' = "emit" /\ walk' = NoWalk
  BY <1>4 DEF EmitFixed
<1>7. NoWalk \in [target : Nat, remaining : Nat, k : 1 .. Len(prog) + 1]
  BY <1>a DEF NoWalk
<1>8. Start(pos + 1 + n)
  <2>1. pos + 1 + n = t
    BY <1>a
  <2>2. QED
    BY <2>1
<1>9. QED
  <2> HIDE DEF n
  <2>1. QED
    BY <1>5, <1>6, <1>7, <1>8, EmitOneInv

(* Where fix_jump is when it is called, and what it looks for.             *)
LEMMA FitFacts ==
  ASSUME Inv, only_verified, At(Jumps)
  PROVE  /\ k <= Len(prog) /\ Size(prog[k]) = 1
         /\ len \in Nat \ {0}
         /\ Target(prog[k].off) \in 0 .. len - 1
<1>1. pc = "emit" /\ k <= Len(prog) /\ Size(prog[k]) = Slots(prog[k])
  BY AtSize
<1>2. Size(prog[k]) = 1
  BY <1>1 DEF At, Slots, Jumps
<1>3. Len(prog) \in Nat /\ k \in 1 .. Len(prog) /\ len \in Nat /\ UsizeRange \in Nat \ {0}
  BY <1>1, Numbers
<1>4. starts[k + 1] = starts[k] + 1 /\ starts[k + 1] <= len /\ starts[k] \in Nat
  <2>1. k \in 1 .. Len(prog) + 1 /\ k + 1 \in 1 .. Len(prog) + 1
    BY <1>3
  <2>2. QED
    BY <1>1, <1>2, <1>3, <2>1, Measured
<1>5. len \in Nat \ {0}
  BY <1>3, <1>4
<1>6. prog[k].off \in Int
  <2>1. prog \in Seq(FuzzedInstruction)
    BY DEF Inv, Types, TypeOK
  <2>2. prog[k] \in FuzzedInstruction
    BY <1>3, <2>1
  <2>3. QED
    BY <2>2 DEF FuzzedInstruction
<1>7. QED
  BY <1>1, <1>2, <1>3, <1>5, <1>6, TargetRange

(* The early return of fix_jump for the target 0.                          *)
LEMMA EmitJumpToStartInv == Inv /\ EmitJumpToStart => Inv'
<1> SUFFICES ASSUME Inv, EmitJumpToStart PROVE Inv'
  OBVIOUS
<1>1. pc = "emit" /\ only_verified /\ At(Jumps)
  BY DEF EmitJumpToStart, At
<1>2. k <= Len(prog) /\ Size(prog[k]) = 1 /\ len \in Nat \ {0}
  BY <1>1, FitFacts
<1>3. Start(0)
  <2>1. starts[1] = 0 /\ 1 \in 1 .. Len(prog) + 1
    BY Numbers DEF Inv, StartsInv
  <2>2. QED
    BY <1>2, <2>1 DEF Start
<1>4. EmitFixed(0 - pos - 1)
  BY DEF EmitJumpToStart
<1>5. QED
  BY <1>1, <1>2, <1>3, <1>4, EmitFixedInv

(* fix_jump begins its loop in front of the target.                        *)
LEMMA BeginWalkInv == Inv /\ BeginWalk => Inv'
<1> SUFFICES ASSUME Inv, BeginWalk PROVE Inv'
  OBVIOUS
<1> DEFINE t == Target(prog[k].off)
<1>1. pc = "emit" /\ only_verified /\ At(Jumps) /\ t # 0
  BY DEF BeginWalk, At
<1>2. /\ k <= Len(prog) /\ Size(prog[k]) = 1
      /\ len \in Nat \ {0} /\ t \in 0 .. len - 1
  BY <1>1, FitFacts
<1>3. /\ UNCHANGED <<only_verified, prog, version, k, len, pos, code, starts>>
      /\ pc' = "walk" /\ walk' = [target |-> t, remaining |-> t, k |-> 1]
  BY DEF BeginWalk
<1> HIDE DEF t
<1>4. t \in 1 .. len - 1
  BY <1>1, <1>2
<1>5. StartsInv' /\ (\A p : HalfAt(p) => HalfAt(p)') /\ (\A s : Start(s) => Start(s)')
  BY <1>1, <1>3, LayoutStable
<1>6. walk' \in [target : Nat, remaining : Nat, k : 1 .. Len(prog) + 1]
  <2>1. Len(prog) \in Nat
    BY Numbers
  <2>2. QED
    BY <1>2, <1>3, <1>4, <2>1
<1>7. Types'
  BY <1>3, <1>6 DEF Inv, Types, TypeOK
<1>8. CountInv' /\ HalvesInv' /\ LandInv'
  <2>1. \A p : Landing(p)' = Landing(p)
    BY <1>3 DEF Landing
  <2>2. QED
    BY <1>1, <1>3, <1>5, <2>1 DEF Inv, CountInv, HalvesInv, LandInv, Start
<1>9. WalkInv'
  <2>1. Size(prog[k])' = 1
    BY <1>2, <1>3, SizeStable
  <2>2. starts[1] = 0
    BY DEF Inv, StartsInv
  <2>3. walk'.target = t /\ walk'.remaining = t /\ walk'.k = 1
    BY <1>3
  <2>4. walk'.remaining = walk'.target - starts'[walk'.k]
    BY <1>2, <1>3, <2>2, <2>3
  <2>5. QED
    BY <1>1, <1>2, <1>3, <1>4, <2>1, <2>3, <2>4 DEF WalkInv
<1>10. QED
  BY <1>5, <1>7, <1>8, <1>9 DEF Inv

(* The walk is inside the program.                                         *)
LEMMA WalkFacts ==
  ASSUME Inv, pc = "walk"
  PROVE  /\ walk.k \in 1 .. Len(prog)
         /\ walk.target \in 1 .. len - 1 /\ walk.remaining \in Nat \ {0}
         /\ walk.target = starts[walk.k] + walk.remaining
         /\ starts[walk.k + 1] = starts[walk.k] + Size(prog[walk.k])
         /\ starts[walk.k] \in Nat /\ len \in Nat
         /\ k <= Len(prog) /\ Size(prog[k]) = 1
<1>1. /\ walk.k \in 1 .. Len(prog) + 1 /\ Len(prog) \in Nat /\ len \in Nat
      /\ walk.remaining \in Nat /\ walk.target \in Nat
  BY Numbers
<1>2. /\ walk.remaining = walk.target - starts[walk.k] /\ walk.remaining > 0
      /\ walk.target \in 1 .. len - 1 /\ k <= Len(prog) /\ Size(prog[k]) = 1
  BY DEF Inv, WalkInv
<1>3. starts[walk.k] \in Nat /\ len = starts[Len(prog) + 1]
  BY <1>1, Measured
<1>4. walk.k # Len(prog) + 1
  BY <1>1, <1>2, <1>3
<1>5. walk.k \in 1 .. Len(prog)
  BY <1>1, <1>4
<1>6. starts[walk.k + 1] = starts[walk.k] + Size(prog[walk.k])
  BY <1>5, Measured
<1>7. QED
  BY <1>1, <1>2, <1>3, <1>5, <1>6

(* fix_jump passes an instruction that ends before the target.             *)
LEMMA WalkPastInv == Inv /\ WalkPast => Inv'
<1> SUFFICES ASSUME Inv, WalkPast PROVE Inv'
  OBVIOUS
<1>1. pc = "walk" /\ SizeInWalk < walk.remaining
  BY DEF WalkPast, Walking
<1>2. /\ UNCHANGED <<only_verified, prog, version, pc, k, len, pos, code, starts>>
      /\ walk' = [walk EXCEPT !.remaining = @ - SizeInWalk, !.k = @ + 1]
  BY DEF WalkPast
<1>3. StartsInv' /\ (\A p : HalfAt(p) => HalfAt(p)') /\ (\A s : Start(s) => Start(s)')
  BY <1>1, <1>2, LayoutStable
<1>4. /\ walk.k \in 1 .. Len(prog) /\ walk.remaining \in Nat \ {0}
      /\ walk.target = starts[walk.k] + walk.remaining
      /\ starts[walk.k + 1] = starts[walk.k] + SizeInWalk
      /\ starts[walk.k] \in Nat
  BY <1>1, WalkFacts DEF SizeInWalk
<1>5. SizeInWalk \in 0 .. 2 /\ Len(prog) \in Nat
  BY SizeRange, Numbers DEF SizeInWalk
<1>6. /\ walk'.target = walk.target
      /\ walk'.remaining = walk.remaining - SizeInWalk
      /\ walk'.k = walk.k + 1
      /\ walk' \in [target : Nat, remaining : Nat, k : 1 .. Len(prog) + 1]
  <2>1. walk \in [target : Nat, remaining : Nat, k : 1 .. Len(prog) + 1]
    BY WalkType
  <2>2. walk.remaining - SizeInWalk \in Nat
    BY <1>1, <1>4, <1>5
  <2>3. walk.k + 1 \in 1 .. Len(prog) + 1
    BY <1>4, <1>5
  <2>4. QED
    BY <1>2, <2>1, <2>2, <2>3
<1>7. Types'
  BY <1>2, <1>6 DEF Inv, Types, TypeOK
<1>8. CountInv' /\ HalvesInv' /\ LandInv'
  <2>1. \A p : Landing(p)' = Landing(p)
    BY <1>2 DEF Landing
  <2>2. QED
    BY <1>1, <1>2, <1>3, <2>1 DEF Inv, CountInv, HalvesInv, LandInv, Start
<1>9. WalkInv'
  <2>1. walk'.remaining = walk'.target - starts[walk'.k] /\ walk'.remaining > 0
    BY <1>1, <1>4, <1>5, <1>6, SMTT(30)
  <2>2. Size(prog[k])' = Size(prog[k])
    BY <1>2, SizeStable
  <2>3. only_verified /\ k <= Len(prog) /\ Size(prog[k]) = 1 /\ walk.target \in 1 .. len - 1
    BY <1>1 DEF Inv, WalkInv
  <2>4. QED
    BY <1>2, <1>6, <2>1, <2>2, <2>3 DEF WalkInv
<1>10. QED
  BY <1>3, <1>7, <1>8, <1>9 DEF Inv

(* fix_jump finds the target behind an instruction.                        *)
LEMMA WalkOntoInv == Inv /\ WalkOnto => Inv'
<1> SUFFICES ASSUME Inv, WalkOnto PROVE Inv'
  OBVIOUS
<1>1. /\ pc = "walk" /\ SizeInWalk = walk.remaining
      /\ EmitFixed(walk.target - pos - 1)
  BY DEF WalkOnto, Walking
<1>2. walk.target = starts[walk.k + 1] /\ walk.k + 1 \in 1 .. Len(prog) + 1
  <2>1. /\ walk.k \in 1 .. Len(prog)
        /\ walk.target = starts[walk.k] + walk.remaining
        /\ starts[walk.k + 1] = starts[walk.k] + SizeInWalk
    BY <1>1, WalkFacts DEF SizeInWalk
  <2>2. Len(prog) \in Nat
    BY Numbers
  <2>3. QED
    BY <1>1, <2>1, <2>2
<1>3. /\ walk.target \in 1 .. len - 1 /\ len \in Nat
      /\ k <= Len(prog) /\ Size(prog[k]) = 1
  BY <1>1, WalkFacts
<1>4. walk.target \in Int /\ Start(walk.target)
  BY <1>2, <1>3 DEF Start
<1>5. QED
  BY <1>1, <1>3, <1>4, EmitFixedInv

(* Only an lddw is bigger than what is left, and then 1 is left.           *)
LEMMA WalkInsideInv == Inv /\ WalkInside => Inv'
<1> SUFFICES ASSUME Inv, WalkInside PROVE Inv'
  OBVIOUS
<1>1. /\ pc = "walk" /\ SizeInWalk > walk.remaining
      /\ EmitFixed(walk.target - pos - 2)
  BY DEF WalkInside, Walking
<1>2. /\ walk.k \in 1 .. Len(prog) /\ walk.remaining \in Nat \ {0}
      /\ walk.target \in 1 .. len - 1 /\ len \in Nat
      /\ walk.target = starts[walk.k] + walk.remaining
      /\ starts[walk.k] \in Nat
      /\ k <= Len(prog) /\ Size(prog[k]) = 1
  BY <1>1, WalkFacts
<1>3. SizeInWalk \in 0 .. 2
  BY SizeRange DEF SizeInWalk
<1>4. walk.remaining = 1
  BY <1>1, <1>2, <1>3
<1>5. walk.target - 1 = starts[walk.k] /\ walk.target - 1 \in 0 .. len - 1
  BY <1>2, <1>4
<1>6. Start(walk.target - 1)
  <2>1. walk.k \in 1 .. Len(prog) + 1
    BY Numbers
  <2>2. QED
    BY <1>5, <2>1 DEF Start
<1>7. EmitFixed((walk.target - 1) - pos - 1)
  <2>1. (walk.target - 1) - pos - 1 = walk.target - pos - 2
    BY <1>2, Numbers
  <2>2. QED
    BY <1>1, <2>1
<1>8. QED
  BY <1>1, <1>2, <1>6, <1>7, EmitFixedInv

(* The closing exit is appended.                                           *)
LEMMA EndEmitInv == Inv /\ EndEmit => Inv'
<1> SUFFICES ASSUME Inv, EndEmit PROVE Inv'
  OBVIOUS
<1>a. Len(prog) \in Nat /\ k \in 1 .. Len(prog) + 1 /\ code \in Seq(Slot)
  BY Numbers
<1>1. /\ pc = "emit" /\ pc' = "done" /\ k > Len(prog)
      /\ UNCHANGED <<only_verified, prog, version, k, len, pos, walk, starts>>
      /\ code' = Append(code, Plain)
  BY DEF EndEmit
<1>2. StartsInv' /\ (\A p : HalfAt(p) => HalfAt(p)') /\ (\A t : Start(t) => Start(t)')
  BY <1>1, LayoutStable
<1>3. k = Len(prog) + 1
  BY <1>a, <1>1
<1>4. pos = len /\ Len(code) = len
  BY <1>1, <1>3, Measured DEF Inv, CountInv
<1>5. Plain \in Slot /\ ~ Plain.half /\ ~ Plain.jump
  BY DEF Plain, Slot
<1>6. /\ code' \in Seq(Slot)
      /\ Len(code') = Len(code) + 1 /\ Len(code) \in Nat
      /\ \A p \in 1 .. Len(code) : code'[p] = code[p]
      /\ code'[Len(code) + 1] = Plain
  BY <1>a, <1>1, <1>5
<1>7. \A p \in 1 .. Len(code) + 1 : p \in 1 .. Len(code) \/ p = Len(code) + 1
  BY <1>6
<1>8. Types'
  BY <1>1, <1>6 DEF Inv, Types, TypeOK
<1>9. CountInv'
  BY <1>1, <1>4, <1>6 DEF CountInv
<1>10. HalvesInv'
  <2>1. SUFFICES ASSUME NEW p \in 1 .. Len(code) + 1, code'[p].half
                 PROVE  HalfAt(p)'
    BY <1>6 DEF HalvesInv
  <2>2. CASE p \in 1 .. Len(code)
    <3>1. code'[p] = code[p]
      BY <1>6, <2>2
    <3>2. HalfAt(p)
      BY <1>1, <2>1, <2>2, <3>1 DEF Inv, HalvesInv
    <3>3. QED
      BY <1>2, <3>2
  <2>3. CASE p = Len(code) + 1
    BY <1>5, <1>6, <2>1, <2>3
  <2>4. QED
    BY <1>7, <2>1, <2>2, <2>3
<1>11. LandInv'
  <2>1. SUFFICES ASSUME only_verified, NEW p \in 1 .. Len(code) + 1, code'[p].jump
                 PROVE  Start(Landing(p))'
    BY <1>1, <1>6 DEF LandInv
  <2>2. CASE p \in 1 .. Len(code)
    <3>1. code'[p] = code[p]
      BY <1>6, <2>2
    <3>2. Landing(p)' = Landing(p)
      BY <3>1 DEF Landing
    <3>3. Start(Landing(p))
      BY <2>1, <2>2, <3>1 DEF Inv, LandInv
    <3>4. QED
      BY <1>1, <1>2, <3>2, <3>3 DEF Start
  <2>3. CASE p = Len(code) + 1
    BY <1>5, <1>6, <2>1, <2>3
  <2>4. QED
    BY <1>7, <2>1, <2>2, <2>3
<1>12. WalkInv'
  BY <1>1 DEF WalkInv
<1>13. QED
  BY <1>2, <1>8, <1>9, <1>10, <1>11, <1>12 DEF Inv

-----------------------------------------------------------------------------
(* The theorems.                                                           *)

(* A step that changes nothing keeps the invariant.                        *)
LEMMA StutterInv == Inv /\ UNCHANGED vars => Inv'
<1> SUFFICES ASSUME Inv, UNCHANGED vars PROVE Inv'
  OBVIOUS
<1>1. UNCHANGED <<only_verified, prog, version, pc, k, len, pos, code, walk, starts>>
  BY DEF vars
<1>2. \A j : Size(prog[j])' = Size(prog[j])
  BY <1>1, SizeStable
<1>3. Types' /\ StartsInv' /\ CountInv'
  BY <1>1, <1>2 DEF Inv, Types, TypeOK, StartsInv, CountInv
<1>4. HalvesInv'
  BY <1>1, <1>2 DEF Inv, HalvesInv, HalfAt
<1>5. LandInv'
  BY <1>1 DEF Inv, LandInv, Start, Landing
<1>6. WalkInv'
  BY <1>1, <1>2 DEF Inv, WalkInv
<1>7. QED
  BY <1>3, <1>4, <1>5, <1>6 DEF Inv

(* Every turn of the three loops keeps the invariant.                      *)
LEMMA NextInv == Inv /\ [Next]_vars => Inv'
<1> SUFFICES ASSUME Inv, [Next]_vars PROVE Inv'
  OBVIOUS
<1>1. CASE Measure
  BY <1>1, MeasureInv
<1>2. CASE EndMeasure
  BY <1>2, EndMeasureInv
<1>3. CASE Skip
  BY <1>3, SkipInv
<1>4. CASE EmitPlain
  BY <1>4, EmitPlainInv
<1>5. CASE EmitLoad
  BY <1>5, EmitLoadInv
<1>6. CASE EmitJumpAsIs
  BY <1>6, EmitJumpAsIsInv
<1>7. CASE EmitJumpToStart
  BY <1>7, EmitJumpToStartInv
<1>8. CASE BeginWalk
  BY <1>8, BeginWalkInv
<1>9. CASE WalkPast
  BY <1>9, WalkPastInv
<1>10. CASE WalkOnto
  BY <1>10, WalkOntoInv
<1>11. CASE WalkInside
  BY <1>11, WalkInsideInv
<1>12. CASE EndEmit
  BY <1>12, EndEmitInv
<1>13. CASE UNCHANGED vars
  BY <1>13, StutterInv
<1>14. QED
  BY <1>1, <1>2, <1>3, <1>4, <1>5, <1>6, <1>7, <1>8, <1>9, <1>10, <1>11, <1>12, <1>13
     DEF Next

(* The invariant holds of every state of every call of make_program.       *)
THEOREM Invariance == Spec => []Inv
<1>1. QED
  BY InitInv, NextInv, PTL DEF Spec

(* Whatever the program, the state of make_program has its types.          *)
THEOREM TypeCorrect == Spec => []TypeOK
<1>1. Inv => TypeOK
  BY DEF Inv, Types
<1>2. QED
  BY Invariance, <1>1, PTL

(* What calculate_length counted is what make_program emits, for every     *)
(* program and version (semantic_aware.rs:245-260, 335).                   *)
THEOREM LengthsAlwaysAgree == Spec => []LengthsAgree
<1>1. Inv => LengthsAgree
  BY DEF Inv, CountInv, LengthsAgree
<1>2. QED
  BY Invariance, <1>1, PTL

(* fix_jump never reaches "Incorrectly computed length." (line 230).       *)
THEOREM WalksEnd == Spec => []WalkEnds
<1>1. Inv => WalkEnds
  <2> SUFFICES ASSUME Inv, pc = "walk" PROVE walk.k <= Len(prog)
    BY DEF WalkEnds
  <2>1. walk.k \in 1 .. Len(prog)
    BY WalkFacts
  <2>2. Len(prog) \in Nat
    BY Numbers
  <2>3. QED
    BY <2>1, <2>2
<1>2. QED
  BY Invariance, <1>1, PTL

(* A slot where an instruction starts is not the second half of one.       *)
LEMMA StartIsNoHalf ==
  ASSUME Inv, pc # "measure", NEW s, Start(s) PROVE ~ HalfAt(s + 1)
<1> SUFFICES ASSUME HalfAt(s + 1) PROVE FALSE
  OBVIOUS
<1>1. PICK i \in 1 .. Len(prog) : Size(prog[i]) = 2 /\ s + 1 = starts[i] + 2
  BY DEF HalfAt
<1>2. PICK j \in 1 .. Len(prog) + 1 : s = starts[j]
  BY DEF Start
<1>3. s \in 0 .. len - 1 /\ len \in Nat
  BY Numbers DEF Start
<1>4. Len(prog) \in Nat
  BY Numbers
<1>5. Len(starts) = Len(prog) + 1
  BY Measured
<1>6. \A a, b \in 1 .. Len(prog) + 1 : a <= b => starts[a] <= starts[b]
  BY <1>5 DEF Inv, StartsInv
<1>7. starts[i + 1] = starts[i] + 2
  BY <1>1, Measured
<1>8. i + 1 \in 1 .. Len(prog) + 1 /\ i \in 1 .. Len(prog) + 1
  BY <1>4
<1>9. starts[i] \in Nat /\ starts[j] \in Nat
  BY <1>8, Measured
<1>10. CASE j <= i
  <2>1. starts[j] <= starts[i]
    BY <1>6, <1>8, <1>10
  <2>2. QED
    BY <1>1, <1>2, <1>9, <2>1
<1>11. CASE i + 1 <= j
  <2>1. starts[i + 1] <= starts[j]
    BY <1>6, <1>8, <1>11
  <2>2. QED
    BY <1>1, <1>2, <1>7, <1>9, <2>1
<1>12. QED
  BY <1>4, <1>10, <1>11

(* Built with only-verified, every jump of every program lands on an       *)
(* instruction of it (semantic_aware.rs:199-231).                          *)
THEOREM JumpsAlwaysLand == Spec => []JumpsLand
<1>1. Inv => JumpsLand
  <2> SUFFICES ASSUME Inv, pc = "done", only_verified,
                      NEW p \in DOMAIN code, code[p].jump
               PROVE  LandsOnInstruction(p)
    BY DEF JumpsLand
  <2>1. DOMAIN code = 1 .. Len(code) /\ len \in Nat
    BY Numbers
  <2>2. Start(Landing(p))
    BY <2>1 DEF Inv, LandInv
  <2>3. Landing(p) \in 0 .. len - 1
    BY <2>2 DEF Start
  <2>4. Landing(p) + 1 \in 1 .. len
    BY <2>1, <2>3
  <2>5. Len(code) = len + 1
    BY DEF Inv, CountInv
  <2>6. Landing(p) + 1 \in 1 .. Len(code)
    BY <2>1, <2>4, <2>5
  <2>7. ~ HalfAt(Landing(p) + 1)
    BY <2>2, StartIsNoHalf
  <2>8. ~ code[Landing(p) + 1].half
    BY <2>6, <2>7 DEF Inv, HalvesInv
  <2>9. QED
    BY <2>4, <2>8 DEF LandsOnInstruction
<1>2. QED
  BY Invariance, <1>1, PTL
=============================================================================
