------------------------------ MODULE PqrCorpus ------------------------------
(***************************************************************************)
(* The corpus of src/gen_pqr.rs: multiplication, division and remainder on *)
(* chosen values.  Every case comes as two programs, one with the source   *)
(* operand as an immediate and one with it in r1.                          *)
(***************************************************************************)
EXTENDS SeedCode

U32Max == 2 ^ W - 1
U64Max == 2 ^ (2 * W) - 1

(* An operation is <<mnemonic, width>>, a case <<mnemonic, width, dst,     *)
(* src>>.                                                                  *)
Cases(ops, dsts, srcs) == {op \o <<d, s>> : op \in ops, d \in dsts, s \in srcs}

Minus(w, v) == Unsigned(w, -v)

V0Products ==
  Cases({<<"mul", 32>>, <<"mul", 64>>}, {13}, {4})
  \cup {<<"mul", 32, 13, Minus(32, 4)>>, <<"mul", 64, 13, Minus(64, 4)>>}
  \cup Cases({<<"mul", 64>>}, {Minus(64, 13)}, {4, Minus(64, 4)})

(* Mutant: with the case that the code leaves out.                         *)
V0CasesAll == Cases({"div", "mod"} \X {32, 64}, {13, U64Max}, {4, U32Max}) \cup V0Products

(* One division is left out, whose immediate would be sign-extended to     *)
(* another divisor than the one in r1.                                     *)
V0Cases ==
  (Cases({"div", "mod"} \X {32, 64}, {13, U64Max}, {4, U32Max})
     \ {<<"div", 64, U64Max, U32Max>>})
  \cup V0Products

V2Cases ==
  Cases(({"udiv", "urem"} \X {32, 64}) \cup {<<"uhmul", 64>>}, {13, U64Max}, {4, U32Max})
  \cup UNION {Cases({op}, {13, Minus(64, 13)}, {4, Minus(op[2], 4)}) :
               op \in ({"lmul", "sdiv", "srem"} \X {32, 64}) \cup {<<"shmul", 64>>}}

(* The source operand of the operation under test: `*src as u32 as i32`,   *)
(* or r1.                                                                  *)
Variants(case) ==
  {AluImm(case[1], case[2], 0, Signed(32, case[4])), AluReg(case[1], case[2], 0, 1)}

(* The arguments of lddw are printed as i64, those of mov32 and hor64 as   *)
(* u32.                                                                    *)
LoadV0(case) ==
  <<AluImm("lddw", 64, 0, Signed(64, case[3])), AluImm("lddw", 64, 1, Signed(64, case[4]))>>

LoadV2(case) ==
  <<O(1),
    AluImm("mov", 32, 0, Unsigned(32, case[3])), AluImm("hor", 64, 0, High(case[3])),
    AluImm("mov", 32, 1, Unsigned(32, case[4])), AluImm("hor", 64, 1, High(case[4]))>>

Trying(case, version, load) ==
  {[Seed(version, "runs", 0, load \o <<op, Exit>>) EXCEPT !.case = case] :
     op \in Variants(case)}

GenV0Pqr == UNION {Trying(case, "V0", LoadV0(case)) : case \in V0Cases}

GenV2Pqr == UNION {Trying(case, "V2", LoadV2(case)) : case \in V2Cases}

GenDivzero ==
  {Seed("V2", "fails", 0, <<O(1), AluImm("mov", 32, 0, 0), AluReg(op, w, 0, 0), Exit>>) :
     op \in {"udiv", "urem", "sdiv", "srem"}, w \in {32, 64}}

(* Mutant: the smallest i32 in both widths.                                *)
SmallestOf32(w) == Bits(32) - 1

(* The shift that makes 1 the smallest number of the width.                *)
Smallest(w) == Bits(w) - 1

GenDivoverflow ==
  UNION {
    {Seed("V2", "fails", 0,
          <<O(1), AluImm("mov", 64, 0, 1), AluImm("lsh", 64, 0, Smallest(w)),
            AluImm("mov", 64, 1, -1), op, Exit>>) :
       op \in {AluImm(m, w, 0, -1), AluReg(m, w, 0, 1)}} :
    m \in {"sdiv", "srem"}, w \in {32, 64}}

PqrPrograms == GenV0Pqr \cup GenV2Pqr \cup GenDivzero \cup GenDivoverflow
=============================================================================
