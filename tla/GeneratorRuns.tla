--------------------------- MODULE GeneratorRuns ---------------------------
(* The generators alone: any family, again and again, killed at any point. *)
EXTENDS SeedGenerator

CONSTANTS
  MaxRuns       \* bound of the model

Start == run < MaxRuns /\ RunGenerator

Next == Start \/ GenStep \/ KillGenerator

Spec == GenInit /\ [][Next]_genVars

(* A generator that is running gets on; nobody need start or kill one.     *)
FairSpec == Spec /\ WF_genVars(GenStep)
=============================================================================
