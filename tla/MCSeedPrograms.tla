--------------------------- MODULE MCSeedPrograms ---------------------------
(* SeedPrograms with values of 5 and 10 bits for 32 and 64.                *)
EXTENDS SeedPrograms

MCDivisors == {1, 3}
=============================================================================
