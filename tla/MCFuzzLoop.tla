----------------------------- MODULE MCFuzzLoop -----------------------------
(* One seed of each family and one attempt at it; intervals of one tick    *)
(* of the clock, and every second refresh for JIT-stress seeds.            *)
EXTENDS FuzzLoop

MCFiles ==
  [family : {"smart"}, n : 0 .. SmartCount - 1, version : 0 .. NumVersions - 1]
    \cup [family : {"jit_stress"}, n : 0 .. JitStressCount - 1, version : 0 .. NumVersions - 1]

(* A torn seed and a whole one of an earlier session, whose runs are not    *)
(* those counted here.                                                     *)
MCFirstDisks ==
  {[name \in {Name("smart", 0, 0), Name("jit_stress", 0, 0)} |->
      IF name.family = "smart" THEN Torn ELSE 9]}
=============================================================================
