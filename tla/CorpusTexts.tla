----------------------------- MODULE CorpusTexts -----------------------------
(***************************************************************************)
(* The general corpus of src/gen_corpus.rs and the demos of src/main.rs,   *)
(* one definition for each of the functions that write them.  Programs     *)
(* that are alike to the depth of SeedCode are one program here.           *)
(***************************************************************************)
EXTENDS SeedCode

Foo == ProgramLabel(0)
Bar == ProgramLabel(1)
Baz == ProgramLabel(2)
Entrypoint == ProgramLabel(9)

Runs(shape)     == Seed("V0", "runs", 0, shape)
Fails(shape)    == Seed("V0", "fails", 0, shape)
Unclaimed(shape) == Seed("V0", "nothing", 0, shape)

Sizes == {1, 2, 4, 8}

GenMov    == {Runs(<<O(n), Exit>>) : n \in {2, 3}}
GenBounce == {Runs(<<O(7), Exit>>)}
GenAddSub == {Runs(<<O(7), Exit>>)}
GenLmul128 == {Seed("V0", "runs", 16, <<O(36), Mem(8, 8), O(4), Mem(0, 8), Exit>>)}
GenLogic  == {Runs(<<O(n), Exit>>) : n \in {21, 23}}
GenShifts == {Runs(<<O(n), Exit>>) : n \in {4, 5, 6}} \cup {Runs(<<O(2), Lddw, O(1), Exit>>)}

(* be16, be32 and be64, and of a value that is too long.                   *)
GenByteswap ==
  {Seed("V0", "runs", size, <<O(1), Mem(0, size), O(1), Exit>>) : size \in {2, 4, 8}}

(* Loads; stores of an immediate, read back whole; stores of a register,   *)
(* read back in their size.  Two bytes lie before and after what is used.  *)
GenMemory ==
  UNION {
    {Seed(version, "runs", size + 4, <<O(1), Mem(2, size), Exit>>),
     Seed(version, "runs", 12,       <<O(1), Mem(2, size), Mem(2, 8), Exit>>),
     Seed(version, "runs", size + 4, <<O(IF size = 8 THEN 4 ELSE 2), Mem(2, size),
                                       Mem(2, size), Exit>>)} :
    version \in {"V0", "V4"}, size \in Sizes}

GenHor64 ==
  {Seed("V2", "runs", 0, <<O(1), AluImm("hor", 64, 0, 1), AluImm("hor", 64, 0, 1), Exit>>)}

(* n accesses of one size, one after the other through the memory, and the *)
(* same with `after` data instructions after each.                         *)
Sweep(n, size) == [k \in 1 .. n |-> Mem((k - 1) * size, size)]

SweepWith(n, size, after) ==
  FlattenSeq([k \in 1 .. n |-> <<Mem((k - 1) * size, size), O(after)>>])

(* ldxb_all, ldxh_all, ldxh_all2 and ldxw_all.                             *)
GenLdxAll ==
  {Seed("V0", "runs", 10 * n[1], <<O(2)>> \o SweepWith(10, n[1], n[2]) \o <<O(9), Exit>>) :
     n \in {<<1, 1>>, <<2, 2>>, <<2, 1>>, <<4, 1>>}}

GenStxAll ==
  {Seed("V0", "runs", 8, <<O(9)>> \o Sweep(8, 1) \o <<Mem(0, 8), O(1), Exit>>),
   Seed("V0", "runs", 2, <<O(4)>> \o Sweep(2, 1) \o <<Mem(0, 2), O(1), Exit>>),
   Seed("V0", "runs", 10, <<O(2)>>
      \o FlattenSeq([k \in 1 .. 9 |-> <<Mem(k - 1, 1), Mem(k, 1)>>]) \o <<Mem(9, 1), Exit>>)}

GenLdxStxVariants ==
  {Seed("V0", "runs", 2, <<O(2), Mem(0, 2), Mem(0, 2), Exit>>)}
  \cup {Seed("V0", "fails", mem, <<O(1), Mem(6, 8), Exit>>) : mem \in {12, 0}}

(* Mutant: a jump the wrong way.                                           *)
GenExitsJumpsBack == {Runs(<<O(2), Ja(-1), O(1), Exit>>)}

GenExitsJumps ==
  {Seed(version, "runs", 0, shape) : version \in {"V0", "V4"},
     shape \in {<<O(1), Exit>>, <<O(2), Exit>>, <<O(2), Exit, O(1), Exit>>}}
  \cup {Runs(<<O(2), Ja(1), O(1), Exit>>)}

(* A call by address: slot is the one the address has been put together    *)
(* for, and body the length of the function that is there.                 *)
CallxFoo(before, slot, body) ==
  <<O(before), Callx(slot), Exit, Label(Foo), O(body), Exit>>

(* Mutant: one instruction has been left out before the call.              *)
GenStackCallsShifted == {Runs(CallxFoo(4, 7, 2))}

GenStackCalls ==
  (UNION {
    {Seed(version, "runs", 0,
       <<Label(Entrypoint), O(1), Call(Foo), O(1), Exit, Label(Foo), O(2), Exit>>),
     Seed(version, "runs", 0, <<O(1), Call(Foo), Call(Foo), Exit, Label(Foo), O(1), Exit>>),
     Seed(version, "runs", 0,
       <<Label(Entrypoint), O(1), Call(Foo), Exit, Label(Foo), O(1), Call(Bar), Exit,
         Label(Bar), O(1), Exit>>)} : version \in {"V0", "V4"}})
  \cup {Runs(<<O(9), Exit>>),
        Runs(<<O(5), Call(Foo), O(4), Exit, Label(Foo), O(5), Exit>>),
        Runs(CallxFoo(5, 7, 2)),
        Fails(<<O(2), Callx(Nowhere), Exit>>),
        Fails(<<O(1), Lddw, Callx(Nowhere), Exit>>)}

(* jsge r0, r0 is always taken.  The divisor of the div64 is r2 in the     *)
(* code; both are 0.                                                       *)
GenInstructionMeter ==
  {Fails(<<O(1), Ja(-1), Exit>>),
   Fails(<<Label(Entrypoint), O(2), Call(Entrypoint), Exit>>),
   Fails(<<O(4), Call(Foo), Exit, Label(Foo), O(1), Callx(6), Exit>>),
   Fails(<<O(1), O(7), Ja(-8), Exit>>),
   Fails(<<O(1), AluImm("mov", 64, 1, 0), AluImm("mov", 64, 0, 0),
           AluReg("div", 64, 1, 0), O(1), Exit>>),
   Fails(<<O(3), Callx(Nowhere), O(1), Exit>>),
   Unclaimed(CallxFoo(4, 6, 1)), Unclaimed(CallxFoo(4, 6, 2)),
   Unclaimed(<<O(1), Call(Foo), Exit, Label(Foo), O(2), Exit>>)}

GenFarJumps ==
  {Runs(<<O(1), Call(Baz), Exit, Label(Foo), O(1), Exit, Label(Bar), O(1), Exit,
          Label(Baz), O(4), Callx(3), Exit>>)}

(* Accesses count while r1 is still the start of the memory.               *)
LmulLoop == <<O(5), Jump(4), O(1), O(2), Jump(-3), Exit>>
Prime    == <<O(4), Jump(4), Ja(10), O(2), Jump(7), O(6), Jump(-10), Exit>>
Subnet   == <<O(2), Mem(12, 2), Jump(2), O(1), Mem(16, 2), O(1), Jump(5), O(4), Jump(1),
              O(1), Exit>>

TcpPort80 ==
  <<O(1), Mem(12, 1), Mem(13, 1), O(3), Jump(12), Mem(23, 1), Jump(10), Mem(14, 1), O(5),
    Jump(2), O(1), Jump(1), O(1), Exit>>

TcpSack ==
  <<O(1), Mem(12, 1), Mem(13, 1), O(3), Jump(37), Mem(23, 1), Jump(35), Mem(14, 1), O(13),
    Jump(20), O(6), Jump(4), Jump(12), O(1), Jump(9), Ja(2), O(2), O(4), Jump(-18), Ja(1), O(1),
    Exit>>

GenPrograms ==
  {Seed("V0", "loops", 0, LmulLoop), Seed("V0", "loops", 0, Prime),
   Seed("V0", "runs", 74, Subnet), Seed("V0", "runs", 100, TcpPort80),
   Seed("V0", "loops", 78, TcpSack), Seed("V0", "loops", 66, TcpSack)}

(* The last one's entrypoint calls what lies before it and ends there.     *)
GenCallxOther ==
  {Fails(<<O(4), Callx(Nowhere), Exit>>),
   Unclaimed(CallxFoo(5, 7, 2)),
   Fails(<<Label(Foo), Exit, Label(Entrypoint), CallBy(-2)>>)}

StackOutOfBounds == Mem(-1, 1)

V0Plain ==
  {Runs(<<O(n), Exit>>) : n \in {3, 4, 5, 9}}
  \cup {Runs(<<O(n[1]), Lddw, O(n[2]), Exit>>) : n \in {<<1, 1>>, <<1, 2>>, <<2, 1>>}}
  \cup {Runs(<<O(1), Lddw, Exit>>), Runs(<<O(4), Lddw, Ja(2), Lddw, Lddw, O(2), Exit>>),
        Runs(CallxFoo(5, 7, 1))}

(* The addresses called lie in the middle of an lddw.                      *)
V0LddwCallx ==
  {Unclaimed(<<O(4), Callx(6), Lddw, Exit>>),
   Fails(<<O(4), Callx(8), O(2), Lddw, Exit>>),
   Fails(<<O(1), Lddw, Callx(8), O(2), Exit, Lddw, Exit>>)}

V0ByZero ==
  {Fails(<<O(1), AluImm("mov", 32, 0, 1), AluImm("mov", 32, 1, 0), AluReg(op, w, 0, 1), Exit>>) :
     op \in {"div", "mod"}, w \in {32, 64}}

GenV0Specific ==
  V0Plain \cup V0LddwCallx \cup V0ByZero \cup GenByteswap
  \cup {Fails(<<O(1), StackOutOfBounds, Exit>>), Fails(<<O(2)>>), Fails(<<O(1), Lddw>>),
        Fails(<<O(6), Syscall, O(1), Exit>>)}
  \cup {Seed(version, "nothing", 0, <<O(1), Call(Foo), Exit, Label(Foo), O(1), Exit>>) :
          version \in {"V0", "V3"}}

Demos ==
  {Runs(<<O(2), Ja(1), O(1), Exit>>), Seed("V0", "loops", 0, LmulLoop),
   Seed("V0", "loops", 0, Prime), Seed("V0", "runs", 74, Subnet),
   Seed("V0", "nothing", 1, <<O(1), Mem(0, 1), O(1), Call(Foo), Exit, Label(Foo), O(1),
                              Jump(2), O(1), Call(Foo), Exit>>)}

GeneralCorpus ==
  GenMov \cup GenBounce \cup GenAddSub \cup GenLmul128 \cup GenLogic \cup GenShifts
  \cup GenByteswap \cup GenMemory \cup GenHor64 \cup GenLdxAll \cup GenStxAll
  \cup GenLdxStxVariants \cup GenExitsJumps \cup GenStackCalls \cup GenInstructionMeter
  \cup GenFarJumps \cup GenPrograms \cup GenCallxOther \cup GenV0Specific
=============================================================================
