-------------------------- MODULE MCGeneratorRuns --------------------------
(* Two smart seeds with up to two attempts each, two stress seeds, two     *)
(* versions; three runs.                                                   *)
EXTENDS GeneratorRuns

MCFiles ==
  [family : Families, n : 0 .. 1, version : 0 .. 1]
    \cup {[family |-> "other", n |-> 0, version |-> 0]}

Other == [family |-> "other", n |-> 0, version |-> 0]

(* An empty directory, or one with a corpus file and a torn smart seed     *)
(* from an earlier time.                                                   *)
MCFirstDisks ==
  {[name \in {} |-> 0],
   [name \in {Other, Name("smart", 1, 1)} |-> IF name = Other THEN 7 ELSE Torn]}
=============================================================================
