----------------------------- MODULE MCExecutor -----------------------------
(* Memories of one bit that every program flips; engines that differ from  *)
(* one another in the result, or in one of the observables, on one of the  *)
(* memories or on both.                                                    *)
EXTENDS Executor

MCMemories == {0, 1}

MCOutcomes ==
  [res : {"Ok0", "Ok1", "Err0", "Err1"}, remaining : 0 .. 1, mem : MCMemories,
   stack : 0 .. 1, heap : 0 .. 1, pc : 0 .. 1]

Base(res, m) ==
  [res |-> res, remaining |-> 0, mem |-> 1 - m, stack |-> 0, heap |-> m, pc |-> 0]

Variants(o) ==
  {o} \cup {[o EXCEPT ![f] = 1 - @] : f \in {"remaining", "mem", "stack", "heap", "pc"}}

MCEngines ==
  {[m \in MCMemories |-> IF m = 0 THEN o ELSE Base(r, 1)] :
     o \in UNION {Variants(Base(s, 0)) : s \in {"Ok0", "Ok1", "Err0"}},
     r \in {"Ok0", "Err1"}}
=============================================================================
