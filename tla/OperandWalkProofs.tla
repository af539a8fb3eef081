-------------------------- MODULE OperandWalkProofs --------------------------
(* Proofs about OperandWalk, for every size of the constants.              *)
EXTENDS OperandWalk, TLAPS

(* What operand_mutate puts in the place of an operand is an operand.      *)
LEMMA MutationsType ==
  ASSUME NEW o \in Operand, NEW m \in Mutations(o)
  PROVE  m \in Operand
<1>1. \A v \in Int : \A f \in Forms : Written(f, v) \in Operand
  <2>1. NoName \in Name
    BY DEF NoName, Name
  <2>2. QED
    BY <2>1 DEF Written, Operand
<1>2. CASE IsRegister(o)
  <2>1. PICK n \in 0 .. LastRegister : m = Reg(n)
    BY <1>2 DEF Mutations
  <2>2. QED
    BY <1>1, <2>1, OperandsAssumption DEF Reg, Forms
<1>3. CASE ~ IsRegister(o) /\ IsOffset(o)
  <2>1. PICK d \in -Delta .. Delta : m = SignedOffset(SaturatingAdd(Parsed(o), d))
    BY <1>3 DEF Mutations
  <2>2. Parsed(o) \in Int
    BY OperandsAssumption DEF Parsed
  <2>3. SaturatingAdd(Parsed(o), d) \in Int
    BY <2>2, OperandsAssumption DEF SaturatingAdd
  <2>4. QED
    BY <1>1, <2>1, <2>3 DEF SignedOffset, Forms
<1>4. CASE ~ IsRegister(o) /\ ~ IsOffset(o)
  <2>1. \/ m \in EdgeImmediates
        \/ \E v \in -SmallImmediate .. SmallImmediate : m = Decimal(v)
    BY <1>4 DEF Mutations
  <2>2. QED
    BY <1>1, <2>1, OperandsAssumption DEF Decimal, Forms
<1>5. QED
  BY <1>2, <1>3, <1>4

(* operand_mutate leaves every operand well formed, and no register beyond *)
(* r10 appears however often it is applied (mutator.rs:141-142).           *)
THEOREM TypeCorrect == Spec => []TypeOK
<1>1. Init => TypeOK
  BY StartsAssumption DEF Init, TypeOK
<1>2. TypeOK /\ [Next]_operand => TypeOK'
  BY MutationsType, OperandsAssumption, StartsAssumption
  DEF TypeOK, Next, OperandMutate, Mutations, Reg, SignedOffset, Decimal, Written,
      IsRegister, IsOffset
<1>3. QED
  BY <1>1, <1>2, PTL DEF Spec

(* saturating_add stays within the 16 bits and no further from a than b.   *)
LEMMA SaturatingAddBound ==
  ASSUME NEW a \in Int, InI16(a), NEW b \in -Delta .. Delta
  PROVE  /\ InI16(SaturatingAdd(a, b))
         /\ SaturatingAdd(a, b) - a \in -Delta .. Delta
  BY OperandsAssumption DEF SaturatingAdd, InI16

(* An i16 offset drifts by at most Delta a mutation and never wraps.       *)
THEOREM DriftBounded == Spec => OffsetsDrift
<1>1. ASSUME TypeOK, Next, operand.form = "signed", InI16(operand.val)
      PROVE  /\ operand'.form = "signed"
             /\ InI16(operand'.val)
             /\ operand'.val - operand.val \in -Delta .. Delta
  <2>1. Parsed(operand) = operand.val /\ operand.val \in Int
    BY <1>1 DEF Parsed, InI16, TypeOK, Operand
  <2>2. PICK d \in -Delta .. Delta :
          operand' = SignedOffset(SaturatingAdd(operand.val, d))
    BY <1>1, <2>1 DEF Next, OperandMutate, Mutations, IsRegister, IsOffset
  <2>3. QED
    BY <1>1, <2>1, <2>2, SaturatingAddBound DEF SignedOffset, Written
<1>2. TypeOK /\ [Next]_operand =>
        [(operand.form = "signed" /\ InI16(operand.val)) =>
           /\ operand'.form = "signed"
           /\ InI16(operand'.val)
           /\ operand'.val - operand.val \in -Delta .. Delta]_operand
  BY <1>1
<1>3. QED
  BY <1>2, TypeCorrect, PTL DEF Spec, OffsetsDrift

(* A value too wide for a branch or memory offset was written by the       *)
(* program or comes from the table of edge values.                         *)
THEOREM WideFromOutside == Spec => []OnlyEdgesAreWide
<1>1. Init => OnlyEdgesAreWide
  BY DEF Init, OnlyEdgesAreWide
<1>2. ASSUME TypeOK, OperandMutate PROVE OnlyEdgesAreWide'
  <2>1. CASE IsRegister(operand)
    BY <1>2, <2>1 DEF OperandMutate, Mutations, Reg, Written, OnlyEdgesAreWide, IsRegister
  <2>2. CASE ~ IsRegister(operand) /\ IsOffset(operand)
    <3>1. Parsed(operand) \in Int /\ InI16(Parsed(operand))
      BY OperandsAssumption DEF Parsed, InI16
    <3>2. PICK d \in -Delta .. Delta :
            operand' = SignedOffset(SaturatingAdd(Parsed(operand), d))
      BY <1>2, <2>2 DEF OperandMutate, Mutations
    <3>3. QED
      BY <3>1, <3>2, SaturatingAddBound DEF SignedOffset, Written, OnlyEdgesAreWide
  <2>3. CASE ~ IsRegister(operand) /\ ~ IsOffset(operand)
    <3>1. \/ operand' \in EdgeImmediates
          \/ \E v \in -SmallImmediate .. SmallImmediate : operand' = Decimal(v)
      BY <1>2, <2>3 DEF OperandMutate, Mutations
    <3>2. QED
      BY <3>1, OperandsAssumption DEF Decimal, Written, OnlyEdgesAreWide, InI16
  <2>4. QED
    BY <2>1, <2>2, <2>3
<1>3. TypeOK /\ OnlyEdgesAreWide /\ [Next]_operand => OnlyEdgesAreWide'
  BY <1>2 DEF Next, OnlyEdgesAreWide
<1>4. QED
  BY <1>1, <1>3, TypeCorrect, PTL DEF Spec
=============================================================================
