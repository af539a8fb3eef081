----------------------------- MODULE SeedFiles -----------------------------
(***************************************************************************)
(* The directory fuzz/ir-corpus, the one thing the generators and the      *)
(* fuzz target share.  A file is named after the family it belongs to, its *)
(* number and the version of its program (smart_0003_v1.ir); of what is in *)
(* it only this matters: which run of a generator wrote it, or that the    *)
(* writing has begun and not ended.                                        *)
(***************************************************************************)
EXTENDS Integers, FiniteSets, Functions

CONSTANTS
  Files       \* the names a file of the directory can have

Families == {"smart", "jit_stress"}

(* Families are the generators' own; "other" stands for what else lies in  *)
(* the directory, such as the output of --gen-corpus.                      *)
ASSUME FilesAssumption ==
  Files \subseteq [family : Families \cup {"other"}, n : Nat, version : Nat]

Torn == 0

VARIABLES
  disk        \* from the names of the files there are to runs, or Torn

DiskOK == DOMAIN disk \subseteq Files /\ \A name \in DOMAIN disk : disk[name] \in Nat

FilesOf(family) == {name \in DOMAIN disk : name.family = family}

Removed(name) == Restrict(disk, DOMAIN disk \ {name})

Written(name, content) ==
  [f \in DOMAIN disk \cup {name} |-> IF f = name THEN content ELSE disk[f]]
=============================================================================
