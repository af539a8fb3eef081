------------------------------ MODULE Operands ------------------------------
(***************************************************************************)
(* The operands of an IrNode as operand_mutate of src/mutator.rs sees      *)
(* them.  An operand is a string; what the code tells apart is its form:   *)
(*   reg        r0, r10                                                    *)
(*   int, hex   an immediate without a sign: 7, 0xff                       *)
(*   signed     a decimal number with a sign: +5, -261                     *)
(*   signedhex  a sign and no decimal number: -0x10, or a lone +           *)
(*   mem        a text in brackets, or half of one: [r1+4]                 *)
(*   name       anything else: a label, a function, a syscall              *)
(* val is the number of a register, a signed or an int operand; of an      *)
(* immediate written in hex it is the 32-bit two's complement value.       *)
(***************************************************************************)
EXTENDS Integers, IrSeq

CONSTANTS
  LastRegister,      \* registers are drawn from r0 .. r9
  Delta,             \* an offset moves by at most 5
  MaxOffset,         \* the greatest i16
  EdgeImmediates,    \* EDGE_IMMEDIATES
  SmallImmediate     \* an immediate that is not an edge is within 256 of 0

Forms == {"reg", "int", "hex", "signed", "signedhex", "mem", "name"}

Operand == [form : Forms, val : Int, name : Name]

ASSUME OperandsAssumption ==
  /\ LastRegister \in Nat
  /\ Delta \in Nat
  /\ MaxOffset \in Nat
  /\ SmallImmediate \in 0 .. MaxOffset
  /\ EdgeImmediates \subseteq {o \in Operand : o.form \in {"int", "hex", "signed"}}

Written(form, val) == [form |-> form, val |-> val, name |-> NoName]
Reg(n)             == Written("reg", n)
Memory             == Written("mem", 0)
Symbol(name)       == [form |-> "name", val |-> 0, name |-> name]

(* format!("{}", v) and format!("+{}", v): only a negative number and an   *)
(* offset get a sign.                                                      *)
Decimal(v)      == Written(IF v < 0 THEN "signed" ELSE "int", v)
SignedOffset(v) == Written("signed", v)

-----------------------------------------------------------------------------
(* The classification.  A negative immediate has the form of an offset.    *)

IsRegister(o)      == o.form = "reg"
IsImmediate(o)     == o.form \in {"int", "hex"} \/ (o.form = "signed" /\ o.val < 0)
IsOffset(o)        == o.form \in {"signed", "signedhex"}
IsMemoryOperand(o) == o.form = "mem"

Mutable(o) ==
  /\ ~ IsMemoryOperand(o)
  /\ IsRegister(o) \/ IsImmediate(o) \/ IsOffset(o)

(* operand.parse::<i16>().unwrap_or(0)                                     *)
Parsed(o) ==
  IF o.form = "signed" /\ o.val \in -MaxOffset - 1 .. MaxOffset THEN o.val ELSE 0

(* Mutants: i16 arithmetic that wraps, and wider arithmetic.               *)
WrappingAdd(a, b) == ((a + b + MaxOffset + 1) % (2 * (MaxOffset + 1))) - (MaxOffset + 1)
WideAdd(a, b)     == a + b

SaturatingAdd(a, b) ==
  CASE a + b > MaxOffset      -> MaxOffset
    [] a + b < -MaxOffset - 1 -> -MaxOffset - 1
    [] OTHER                  -> a + b

(* Mutant: registers drawn from 0 .. 11.                                   *)
MutationsAllRegisters(o) ==
  CASE IsRegister(o) -> {Reg(n) : n \in 0 .. LastRegister + 2}
    [] IsOffset(o) /\ ~ IsRegister(o)
                     -> {SignedOffset(SaturatingAdd(Parsed(o), d)) : d \in -Delta .. Delta}
    [] OTHER         -> EdgeImmediates
                        \cup {Decimal(v) : v \in -SmallImmediate .. SmallImmediate}

(* What operand_mutate may replace a mutable operand by; the test for an   *)
(* offset comes before that for an immediate.                              *)
Mutations(o) ==
  CASE IsRegister(o) -> {Reg(n) : n \in 0 .. LastRegister}
    [] IsOffset(o) /\ ~ IsRegister(o)
                     -> {SignedOffset(SaturatingAdd(Parsed(o), d)) : d \in -Delta .. Delta}
    [] OTHER         -> EdgeImmediates
                        \cup {Decimal(v) : v \in -SmallImmediate .. SmallImmediate}
=============================================================================
