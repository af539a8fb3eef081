------------------------------ MODULE JitStress ------------------------------
(***************************************************************************)
(* What the six templates of src/gen_jit_stress.rs may put into a program. *)
(* The 20 to 200 random instructions of a template are at most MaxOps, and *)
(* of a random number only some values are drawn, for the length and the   *)
(* last operation of the functions of a program once for all of them; how  *)
(* many functions there are and how deep they call is as in the code.      *)
(***************************************************************************)
EXTENDS SeedCode

CONSTANTS
  MaxOps,       \* random instructions in a program
  Divisors,     \* of 1 ..= 255
  MemSizes      \* of 32 ..= 128

ASSUME StressAssumption ==
  /\ MaxOps \in Nat /\ MemSizes \subseteq Nat
  /\ Divisors \subseteq 1 .. 2 ^ (W - 1) - 1

UsesPqr(version) == version = "V2"

UpTo(n, S) == UNION {[1 .. k -> S] : k \in 1 .. n}

(* An add, sub, or, and or xor.                                            *)
Plain == O(1)

(* The multiplication of registers of the versions that have it.           *)
OldMul(version) == IF UsesPqr(version) THEN {} ELSE {AluReg("mul", 64, Other, Other)}

-----------------------------------------------------------------------------
RegisterPressure(version) ==
  LET ops == {Plain}
             \cup {AluImm(op, 64, Other, s) : op \in {"lsh", "rsh", "arsh"},
                                               s \in {0, Bits(64) - 1}}
             \cup OldMul(version)
  IN  {Seed(version, "runs", 0, <<O(10)>> \o body \o <<Exit>>) : body \in UpTo(MaxOps, ops)}

(* Mutant: remainders have been forgotten.                                 *)
ByImmediateNotRem(op) == op \in {"div", "mod", "udiv"}

(* op.contains("div") || op.contains("mod") || op.contains("rem")          *)
ByImmediate(op) == op \in {"div", "mod", "udiv", "urem"}

MeteringStress(version) ==
  LET named == IF UsesPqr(version) THEN {"lmul", "udiv", "urem"} ELSE {"mul", "div", "mod"}
      ops   == {Plain}
               \cup {AluReg(op, 64, Other, Other) : op \in {o \in named : ~ ByImmediate(o)}}
               \cup {AluImm(op, 64, Other, v) :
                       op \in {o \in named : ByImmediate(o)}, v \in Divisors}
  IN  {Seed(version, "runs", 0, <<O(6)>> \o body \o <<Exit>>) : body \in UpTo(MaxOps, ops)}

-----------------------------------------------------------------------------
Function(k) == ProgramLabel(k)

MulImm(version) == IF UsesPqr(version) THEN {} ELSE {AluImm("mul", 64, Other, 1)}

JumpBackpatch(version) ==
  {Seed(version, "runs", 0,
        [k \in 1 .. num_funcs |-> Call(Function(k - 1))] \o <<O(1), Exit>>
        \o FlattenSeq([k \in 1 .. num_funcs |->
             <<Label(Function(k - 1)), O(insns - 1), last, Exit>>])) :
     num_funcs \in 3 .. 8, insns \in 3 .. 10, last \in {Plain} \cup MulImm(version)}

(* Mutant: each function calls itself.                                     *)
CallDeeperItself(k, depth) == IF k < depth THEN <<Call(Function(k - 1))>> ELSE <<>>

CallDeeper(k, depth) == IF k < depth THEN <<Call(Function(k))>> ELSE <<>>

DeepFunction(k, depth, work, last) ==
  <<Label(Function(k - 1)), O(work - 1), last>> \o CallDeeper(k, depth) \o <<Exit>>

DeepCalls(version) ==
  {Seed(version, "runs", 0,
        <<O(4), Call(Function(0)), O(1), Exit>>
        \o FlattenSeq([k \in 1 .. depth |-> DeepFunction(k, depth, work, last)])) :
     depth \in 3 .. 6, work \in 2 .. 5, last \in {Plain} \cup MulImm(version)}

-----------------------------------------------------------------------------
(* The offsets drawn for an access of a size: multiples of it, of which    *)
(* the last that would fit is not drawn if it is a multiple itself.        *)
Offsets(mem_size, size) ==
  {(n \div size) * size : n \in 0 .. mem_size - size - 1}

(* A store, or a load into any register, r1 included.  The template makes  *)
(* no use of the version.                                                  *)
MemoryPatterns(version) ==
  UNION {
    LET accesses == UNION {{MemR1(off, size, dst) : off \in Offsets(mem_size, size),
                                                   dst \in {Other, 1}} : size \in {1, 2, 4, 8}}
    IN  {Seed(version, "memory", mem_size, body \o <<O(1), Exit>>) :
           body \in UpTo(MaxOps, accesses)} :
    mem_size \in MemSizes}

-----------------------------------------------------------------------------
ShiftAll(w, amounts) ==
  FlattenSeq([a \in DOMAIN amounts |->
    [k \in 1 .. 3 |-> AluImm(<<"lsh", "rsh", "arsh">>[k], w, Other, amounts[a])]])

(* The operations once each in both widths, all by immediates.             *)
OnceEach(ops, v) ==
  [k \in DOMAIN ops |-> AluImm(ops[k], 64, Other, v)]
  \o [k \in DOMAIN ops |-> AluImm(ops[k], 32, Other, v)]

ArithmeticEdge(version) ==
  {Seed(version, "runs", 0,
        <<O(10)>>
        \o ShiftAll(64, <<0, 1, Bits(32) - 1, Bits(32), Bits(64) - 1>>)
        \o ShiftAll(32, <<0, 1, Bits(32) - 1>>)
        \o OnceEach(IF UsesPqr(version) THEN <<"lmul", "udiv", "urem", "sdiv", "srem">>
                                        ELSE <<"mul", "div", "mod">>, v)
        \o <<Exit>>) : v \in Divisors}

StressPrograms(version) ==
  RegisterPressure(version) \cup MeteringStress(version) \cup JumpBackpatch(version)
  \cup DeepCalls(version) \cup ArithmeticEdge(version)
=============================================================================
