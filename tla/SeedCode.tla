------------------------------ MODULE SeedCode ------------------------------
(***************************************************************************)
(* The notation of the seed programs: an assembly text to the depth of its *)
(* control flow and of what can stop it.  Calls, jumps, exits, accesses to *)
(* the input memory and the operations under test are written out; O(n)    *)
(* stands for n instructions that only move data about.  Slots are counted *)
(* from 0 and lddw takes two, as in the machine code.                      *)
(*                                                                         *)
(* A "32-bit" value has W bits here and a "64-bit" one 2 * W.              *)
(***************************************************************************)
EXTENDS Integers, IrSeq

CONSTANT W

(* 13, its negative and the like are to fit into a "32-bit" value.         *)
ASSUME WidthAssumption == W \in Nat /\ W >= 5

(* Laws of arithmetic that the provers do not know of powers.              *)
ASSUME PowersOfTwo ==
  /\ {2 ^ (W - 1), 2 ^ W, 2 ^ (2 * W - 1), 2 ^ (2 * W)} \subseteq Nat
  /\ 2 ^ (W - 1) >= 16 /\ 2 ^ W = 2 * 2 ^ (W - 1) /\ 2 * W <= 2 ^ W
  /\ 2 ^ (2 * W) = 2 ^ W * 2 ^ W /\ 2 ^ (2 * W) = 2 * 2 ^ (2 * W - 1)

Bits(w) == IF w = 32 THEN W ELSE 2 * W

Unsigned(w, v) == v % 2 ^ Bits(w)

Signed(w, v) ==
  IF Unsigned(w, v) < 2 ^ (Bits(w) - 1) THEN Unsigned(w, v)
                                        ELSE Unsigned(w, v) - 2 ^ Bits(w)

High(v) == v \div 2 ^ W

-----------------------------------------------------------------------------
(* r0 and r1 are followed; Other is any other register; Imm as a source    *)
(* means the immediate.                                                    *)

Other == 2
Imm   == -1

Line(kind, name, op) ==
  [kind |-> kind, name |-> name, op |-> op, w |-> 64, off |-> 0, size |-> 0,
   dst |-> Other, src |-> Other, imm |-> 0]

Label(name) == Line("label", name, "")

Ins(op) == Line("ins", NoName, op)

O(n)       == [Ins("other") EXCEPT !.size = n]
Exit       == Ins("exit")
Jump(off)  == [Ins("jeq") EXCEPT !.off = off]      \* any conditional jump
Ja(off)    == [Ins("ja") EXCEPT !.off = off]
Call(name) == Line("ins", name, "call")
CallBy(off) == [Ins("call") EXCEPT !.off = off]
Lddw       == [Ins("lddw") EXCEPT !.src = Imm]     \* an address or a datum
Syscall    == Ins("syscall")                       \* of a name that is not registered

(* callx to the address of a slot that the code before has put together;   *)
(* Nowhere is an address outside of the text.                              *)
Nowhere     == -1
Callx(slot) == [Ins("callx") EXCEPT !.imm = slot]

(* A load or store of size bytes at offset off of the input memory: by an  *)
(* address known to be there, or by r1, where the machine puts the base.   *)
Mem(off, size)         == [Ins("mem") EXCEPT !.off = off, !.size = size]
MemR1(off, size, dst)  == [Mem(off, size) EXCEPT !.src = 1, !.dst = dst]

AluReg(op, w, dst, src) == [Ins(op) EXCEPT !.w = w, !.dst = dst, !.src = src]
AluImm(op, w, dst, v)   == [Ins(op) EXCEPT !.w = w, !.dst = dst, !.src = Imm, !.imm = v]

Half == Ins("second half of lddw")

-----------------------------------------------------------------------------
(* A seed: its text, the length of its memory, and what its file name says *)
(* of it: that it "runs", that it "loops" as long as the data demand, that *)
(* it "fails" (err, infinite, overrun, unsupported, by_zero, divzero,      *)
(* overflow), that it works on its "memory"; or "nothing", where the name  *)
(* speaks of a limit on the instructions, which the corpus does not keep.  *)
(* A case is the operation <<op, width, dst, src>> a program is to try.    *)

NoCase == <<>>

Seed(version, says, mem, shape) ==
  [version |-> version, says |-> says, mem |-> mem, text |-> shape, case |-> NoCase]

(* The slots that a line takes.                                            *)
Part(line) ==
  IF line.kind = "label" THEN <<>>
  ELSE CASE line.op = "other" -> [k \in 1 .. line.size |-> O(1)]
         [] line.op = "lddw"  -> <<line, Half>>
         [] OTHER             -> <<line>>

Slots(text) == FlattenSeq([l \in DOMAIN text |-> Part(text[l])])

(* The slot a label stands for.                                            *)
Heads(text) ==
  {[name |-> text[l].name, slot |-> Len(Slots(SubSeq(text, 1, l - 1)))] :
     l \in {l \in DOMAIN text : text[l].kind = "label"}}
=============================================================================
