----------------------------- MODULE OperandWalk -----------------------------
(***************************************************************************)
(* One operand under repeated operand_mutate of src/mutator.rs: mutate()   *)
(* applies up to five point mutations, its output may be mutated again, so *)
(* the same operand can be hit any number of times.                        *)
(***************************************************************************)
EXTENDS Operands

CONSTANT Starts              \* the operands a program may be written with

ASSUME StartsAssumption ==
  /\ Starts \subseteq Operand
  /\ \A o \in Starts \cup EdgeImmediates :
       o.form = "reg" => o.val \in 0 .. LastRegister + 1

VARIABLE operand

(* Registers: a program uses r0 .. r9 and, the next one, the frame pointer. *)
TypeOK ==
  /\ operand \in Operand
  /\ operand.form = "reg" => operand.val \in 0 .. LastRegister + 1

Init == operand \in Starts

OperandMutate == Mutable(operand) /\ operand' \in Mutations(operand)

Next == OperandMutate

Spec == Init /\ [][Next]_operand

-----------------------------------------------------------------------------
InI16(v) == v \in -MaxOffset - 1 .. MaxOffset

(* A jump or memory offset that the assembler accepts drifts: it stays an  *)
(* i16 with an explicit sign and moves by at most Delta, never round the   *)
(* ends of the range (saturating_add and the sign, mutator.rs:143-151).    *)
OffsetsDrift ==
  [][(operand.form = "signed" /\ InI16(operand.val)) =>
       /\ operand'.form = "signed"
       /\ InI16(operand'.val)
       /\ operand'.val - operand.val \in -Delta .. Delta]_operand

(* Mutation alone never takes a value out of the 16 bits that a branch or  *)
(* memory offset has, unless the program or the edge table put it there:   *)
(* the operand is then still that value, or an edge.                       *)
OnlyEdgesAreWide ==
  operand.form \in {"int", "hex", "signed"} /\ ~ InI16(operand.val) =>
    operand \in EdgeImmediates \cup Starts
=============================================================================
