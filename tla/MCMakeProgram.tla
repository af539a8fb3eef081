--------------------------- MODULE MCMakeProgram ---------------------------
EXTENDS MakeProgram, FiniteSets

Insns(kinds, offs) ==
  [kind : kinds \ Jumps, off : {0}] \cup [kind : kinds \cap Jumps, off : offs]

UpTo(S, n) == UNION {[1 .. m -> S] : m \in 0 .. n}

(* Every kind in programs of two instructions; one or two slots, skipped   *)
(* or not, and jumps over all of them, in programs of four.                *)
MCPrograms ==
  UpTo(Insns(Kinds, {-3, 1}), 2)
    \cup UpTo(Insns({"Add", "Load", "Pqr", "Jump"}, {-3, -2, 1, 2, 3}), 4)

(* Of the solana_sbpf crate.                                               *)
V0 == {}
V1 == {"manual_stack_frame_bump"}
V2 == {"manual_stack_frame_bump", "enable_pqr", "disable_lddw", "disable_neg", "disable_le"}
V3 == {"manual_stack_frame_bump", "enable_jmp32"}

MCVersions == {V0, V1, V2, V3}
=============================================================================
