---------------------------- MODULE MakeProgram ----------------------------
(***************************************************************************)
(* make_program() of src/semantic_aware.rs: lay out the instructions of a  *)
(* fuzzed program in slots and fit the offset of each jump to them.  Of an *)
(* instruction only its variant and its jump offset are kept.  A step is   *)
(* one turn of a loop: of calculate_length (pc = "measure"), of            *)
(* make_program ("emit") or of fix_jump ("walk").                          *)
(***************************************************************************)
EXTENDS Integers, Sequences

CONSTANTS
  Programs,       \* the programs, sequences of instructions
  Versions,       \* the SBPF versions, as sets of what they have
  UsizeRange,     \* 2^64
  I16Range        \* 2^16

Kinds ==
  {"Add", "Mul", "Div", "Modulo", "Negate", "SwapLittle", "Load", "Jump", "JumpC",
   "JumpC32", "JumpC32Abs", "Pqr", "PqrHigh32", "Hor64Imm", "StackAdjust"}

Jumps == {"Jump", "JumpC", "JumpC32"}

FuzzedInstruction == [kind : Kinds, off : Int]

(* What SBPFVersion can be asked for.                                      *)
Features ==
  {"enable_pqr", "enable_jmp32", "disable_lddw", "disable_neg", "disable_le",
   "manual_stack_frame_bump"}

ASSUME MakeProgramAssumption ==
  /\ Versions \subseteq SUBSET Features
  /\ UsizeRange \in Nat \ {0} /\ I16Range \in Nat \ {0}
  /\ I16Range % 2 = 0
  /\ Programs \subseteq Seq(FuzzedInstruction)
  /\ \A p \in Programs : 4 * Len(p) <= I16Range

VARIABLES
  only_verified,  \* whether the crate is built with this feature
  prog, version,  \* the arguments
  pc,             \* "measure", "emit", "walk", "done"
  k,              \* the instruction that the loop is at
  len,            \* slots counted by calculate_length
  pos,            \* slots emitted, as make_program counts them
  code,           \* the slots: whether it is the second half of an lddw,
                  \* whether it is a jump, and its offset
  walk,           \* of fix_jump: target, remaining, and its own k
  starts          \* history: for each instruction measured, and for the one
                  \* after, the slot where it starts

vars == <<only_verified, prog, version, pc, k, len, pos, code, walk, starts>>

NoWalk == [target |-> 0, remaining |-> 0, k |-> 1]

Slot == [half : BOOLEAN, jump : BOOLEAN, off : Int]

Plain    == [half |-> FALSE, jump |-> FALSE, off |-> 0]
Half     == [half |-> TRUE,  jump |-> FALSE, off |-> 0]
JumpBy(off) == [half |-> FALSE, jump |-> TRUE, off |-> off]

TypeOK ==
  /\ only_verified \in BOOLEAN
  /\ prog \in Seq(FuzzedInstruction) /\ version \in Versions
  /\ pc \in {"measure", "emit", "walk", "done"}
  /\ k \in 1 .. Len(prog) + 1
  /\ len \in Nat /\ pos \in Nat
  /\ code \in Seq(Slot)
  /\ walk \in [target : Nat, remaining : Nat, k : 1 .. Len(prog) + 1]
  /\ starts \in Seq(Nat)

Init ==
  /\ only_verified \in BOOLEAN
  /\ prog \in Programs /\ version \in Versions
  /\ \A i \in DOMAIN prog : prog[i].kind = "StackAdjust" => only_verified
  /\ pc = "measure" /\ k = 1 /\ len = 0
  /\ pos = 0 /\ code = <<>>
  /\ walk = NoWalk
  /\ starts = <<0>>

(* should_skip_instruction().                                              *)
Skipped(i) ==
  \/ i.kind \in {"Mul", "Div", "Modulo"} /\ "enable_pqr" \in version
  \/ i.kind = "Pqr" /\ "enable_pqr" \notin version
  \/ i.kind = "PqrHigh32" /\ (only_verified \/ "enable_pqr" \notin version)
  \/ i.kind = "JumpC32" /\ "enable_jmp32" \notin version
  \/ i.kind = "JumpC32Abs"
  \/ i.kind = "Hor64Imm" /\ "disable_lddw" \notin version
  \/ i.kind = "Negate" /\ "disable_neg" \in version
  \/ i.kind = "SwapLittle" /\ "disable_le" \in version
  \/ i.kind = "Load" /\ only_verified /\ "disable_lddw" \in version
  \/ i.kind = "StackAdjust" /\ "manual_stack_frame_bump" \notin version

Slots(i) == IF i.kind = "Load" /\ only_verified THEN 2 ELSE 1

Size(i) == IF Skipped(i) THEN 0 ELSE Slots(i)

(* Mutant: what is skipped is counted.                                     *)
MeasureAll ==
  /\ pc = "measure"
  /\ k <= Len(prog)
  /\ len' = len + Slots(prog[k])
  /\ starts' = Append(starts, len')
  /\ k' = k + 1
  /\ UNCHANGED <<only_verified, prog, version, pc, pos, code, walk>>

Measure ==
  /\ pc = "measure"
  /\ k <= Len(prog)
  /\ len' = len + Size(prog[k])
  /\ starts' = Append(starts, len')
  /\ k' = k + 1
  /\ UNCHANGED <<only_verified, prog, version, pc, pos, code, walk>>

EndMeasure ==
  /\ pc = "measure"
  /\ k > Len(prog)
  /\ pc' = "emit"
  /\ k' = 1
  /\ UNCHANGED <<only_verified, prog, version, len, pos, code, walk, starts>>

At(kinds) == pc = "emit" /\ k <= Len(prog) /\ prog[k].kind \in kinds /\ ~ Skipped(prog[k])

(* One instruction is done: these are its slots.                           *)
Emit(slots) ==
  /\ code' = code \o slots
  /\ k' = k + 1
  /\ UNCHANGED <<only_verified, prog, version, len, starts>>

Skip ==
  /\ pc = "emit"
  /\ k <= Len(prog)
  /\ Skipped(prog[k])
  /\ Emit(<<>>)
  /\ UNCHANGED <<pc, pos, walk>>

EmitPlain ==
  /\ At(Kinds \ (Jumps \cup (IF only_verified THEN {"Load"} ELSE {})))
  /\ Emit(<<Plain>>)
  /\ pos' = pos + 1
  /\ UNCHANGED <<pc, walk>>

(* Mutant: the second half of an lddw is not counted.                      *)
EmitLoadShort ==
  /\ only_verified
  /\ At({"Load"})
  /\ Emit(<<Plain, Half>>)
  /\ pos' = pos + 1
  /\ UNCHANGED <<pc, walk>>

EmitLoad ==
  /\ only_verified
  /\ At({"Load"})
  /\ Emit(<<Plain, Half>>)
  /\ pos' = pos + 2
  /\ UNCHANGED <<pc, walk>>

(* Without only-verified, fix_jump() returns the offset as it is.          *)
EmitJumpAsIs ==
  /\ ~ only_verified
  /\ At(Jumps)
  /\ Emit(<<JumpBy(prog[k].off)>>)
  /\ pos' = pos + 1
  /\ UNCHANGED <<pc, walk>>

AsI16(n) == ((n + (I16Range \div 2)) % I16Range) - (I16Range \div 2)

(* Mutant: the remainder of i16.                                           *)
TargetSigned(off) == IF off < 0 THEN - ((- off) % len) ELSE off % len

(* (off as usize).rem_euclid(len).                                         *)
Target(off) == (off % UsizeRange) % len

EmitFixed(off) ==
  /\ Emit(<<JumpBy(AsI16(off))>>)
  /\ pos' = pos + 1
  /\ pc' = "emit"
  /\ walk' = NoWalk

EmitJumpToStart ==
  /\ only_verified
  /\ At(Jumps)
  /\ Target(prog[k].off) = 0
  /\ EmitFixed(0 - pos - 1)

BeginWalk ==
  /\ only_verified
  /\ At(Jumps)
  /\ Target(prog[k].off) # 0
  /\ pc' = "walk"
  /\ walk' = [target |-> Target(prog[k].off), remaining |-> Target(prog[k].off), k |-> 1]
  /\ UNCHANGED <<only_verified, prog, version, k, len, pos, code, starts>>

Walking == pc = "walk" /\ walk.k <= Len(prog)

SizeInWalk == Size(prog[walk.k])

(* An instruction that ends before the target, or is skipped.              *)
WalkPast ==
  /\ Walking
  /\ SizeInWalk < walk.remaining
  /\ walk' = [walk EXCEPT !.remaining = @ - SizeInWalk, !.k = @ + 1]
  /\ UNCHANGED <<only_verified, prog, version, pc, k, len, pos, code, starts>>

WalkOnto ==
  /\ Walking
  /\ SizeInWalk = walk.remaining
  /\ EmitFixed(walk.target - pos - 1)

(* Mutant: no correction.                                                  *)
WalkInsideUncorrected ==
  /\ Walking
  /\ SizeInWalk > walk.remaining
  /\ EmitFixed(walk.target - pos - 1)

(* The target is the second half of an lddw.                               *)
WalkInside ==
  /\ Walking
  /\ SizeInWalk > walk.remaining
  /\ EmitFixed(walk.target - pos - 2)

EndEmit ==
  /\ pc = "emit"
  /\ k > Len(prog)
  /\ code' = Append(code, Plain)
  /\ pc' = "done"
  /\ UNCHANGED <<only_verified, prog, version, k, len, pos, walk, starts>>

Next ==
  \/ Measure \/ EndMeasure
  \/ Skip \/ EmitPlain \/ EmitLoad
  \/ EmitJumpAsIs \/ EmitJumpToStart \/ BeginWalk
  \/ WalkPast \/ WalkOnto \/ WalkInside
  \/ EndEmit

Spec == Init /\ [][Next]_vars

-----------------------------------------------------------------------------
(* Properties.                                                             *)

(* The two passes over the program agree on how long it is: what           *)
(* calculate_length counted is what make_program emitted, without the      *)
(* closing exit (semantic_aware.rs:245-260, 335, 460-462).                 *)
LengthsAgree ==
  pc = "done" => pos = len /\ Len(code) = len + 1

(* fix_jump finds the slot it looks for: "Incorrectly computed length." is *)
(* unreachable (semantic_aware.rs:230).                                    *)
WalkEnds ==
  pc = "walk" => walk.k <= Len(prog)

Landing(p) == p + code[p].off

LandsOnInstruction(p) ==
  /\ Landing(p) + 1 \in 1 .. len
  /\ ~ code[Landing(p) + 1].half

(* Built with only-verified, every jump lands on an instruction of the     *)
(* program: inside it, and never on the second half of an lddw, whatever   *)
(* its offset and whatever the version leaves out                          *)
(* (semantic_aware.rs:199-231).                                            *)
JumpsLand ==
  pc = "done" /\ only_verified =>
    \A p \in DOMAIN code : code[p].jump => LandsOnInstruction(p)
=============================================================================
