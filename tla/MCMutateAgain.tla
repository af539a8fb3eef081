--------------------------- MODULE MCMutateAgain ---------------------------
(* Two calls of mutate(), the second on the output of the first.           *)
EXTENDS MCMutator, MutateAgain

MCTwoInputs == {<<NoExit, OnlyExit>>}
=============================================================================
