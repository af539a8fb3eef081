--------------------------- MODULE SeedGenerator ---------------------------
(***************************************************************************)
(* generate() of src/gen_smart.rs and of src/gen_jit_stress.rs: remove the *)
(* old files of the family, then write new ones.  A step is one system     *)
(* call on the directory, so that the fuzz target, which reads it all the  *)
(* time, can see everything in between.  A generator may be killed at any  *)
(* point, and panics if a file cannot be written.                          *)
(***************************************************************************)
EXTENDS SeedFiles

CONSTANTS
  FirstDisks,       \* what the directory may hold at first: the files of
                    \* earlier sessions, however they ended
  SmartCount,       \* --count of --gen-smart
  JitStressCount,   \* --count of --gen-jit-stress
  AttemptsPerSeed,  \* 10: gen_smart gives up after so many tries per seed
  NumVersions       \* 5: the versions take turns

Name(family, n, version) == [family |-> family, n |-> n, version |-> version]

ASSUME CountsAssumption ==
  /\ SmartCount \in Nat /\ JitStressCount \in Nat
  /\ AttemptsPerSeed \in Nat \ {0} /\ NumVersions \in Nat \ {0}
  /\ \A n \in 0 .. SmartCount - 1, i \in 0 .. SmartCount * AttemptsPerSeed - 1 :
       Name("smart", n, i % NumVersions) \in Files
  /\ \A i \in 0 .. JitStressCount - 1 : Name("jit_stress", i, i % NumVersions) \in Files

ASSUME FirstDisksAssumption ==
  \A d \in FirstDisks :
    DOMAIN d \subseteq Files /\ \A name \in DOMAIN d : d[name] \in Nat

VARIABLES
  gen,        \* the generator: pc, family, loop counter i, seeds generated
  run,        \* runs so far; the present one is what files are filled with
  finished    \* history: of each family, the run that wrote all its files,
              \* 0 from the start of a run of that family to its end

genVars == <<disk, gen, run, finished>>

Idle == [pc |-> "idle", family |-> "smart", i |-> 0, generated |-> 0]

GenTypeOK ==
  /\ DiskOK
  /\ gen \in [pc : {"idle", "remove", "attempt", "write"}, family : Families,
              i : Nat, generated : Nat]
  /\ run \in Nat
  /\ finished \in [Families -> Nat]

GenInit ==
  /\ disk \in FirstDisks
  /\ gen = Idle
  /\ run = 0
  /\ finished = [f \in Families |-> 0]

StartGenerator(family) ==
  /\ gen.pc = "idle"
  /\ gen' = [Idle EXCEPT !.pc = "remove", !.family = family]
  /\ run' = run + 1
  /\ finished' = [finished EXCEPT ![family] = 0]
  /\ UNCHANGED disk

(* Mutant: only whole files are taken for old seeds.                       *)
OldSeedsWhole == {name \in FilesOf(gen.family) : disk[name] # Torn}

(* Mutant: every .ir file is taken for an old seed.                        *)
OldSeedsAll == DOMAIN disk

OldSeeds == FilesOf(gen.family)

RemoveOld ==
  /\ gen.pc = "remove"
  /\ \E name \in OldSeeds : disk' = Removed(name)
  /\ UNCHANGED <<gen, run, finished>>

RemovedAll ==
  /\ gen.pc = "remove"
  /\ OldSeeds = {}
  /\ gen' = [gen EXCEPT !.pc = "attempt"]
  /\ UNCHANGED <<disk, run, finished>>

(* Mutant: one seed too many.                                              *)
MoreOneTooMany ==
  CASE gen.family = "smart" ->
         gen.generated <= SmartCount /\ gen.i < SmartCount * AttemptsPerSeed
    [] gen.family = "jit_stress" -> gen.i <= JitStressCount

More ==
  CASE gen.family = "smart" ->
         gen.generated < SmartCount /\ gen.i < SmartCount * AttemptsPerSeed
    [] gen.family = "jit_stress" -> gen.i < JitStressCount

(* Mutant: the attempts start over instead of running out.                 *)
DiscardStartsOver ==
  /\ gen.pc = "attempt"
  /\ More
  /\ gen.family = "smart"
  /\ gen' = [gen EXCEPT !.i = (@ + 1) % (SmartCount * AttemptsPerSeed)]
  /\ UNCHANGED <<disk, run, finished>>

(* The program of this attempt is empty, is not accepted by the verifier,  *)
(* cannot be disassembled ...: one of the continues of gen_smart.          *)
DiscardAttempt ==
  /\ gen.pc = "attempt"
  /\ More
  /\ gen.family = "smart"
  /\ gen' = [gen EXCEPT !.i = @ + 1]
  /\ UNCHANGED <<disk, run, finished>>

NextFile == Name(gen.family, gen.generated, gen.i % NumVersions)

(* fs::write creates the file, or truncates it, before it writes.          *)
CreateFile ==
  /\ gen.pc = "attempt"
  /\ More
  /\ disk' = Written(NextFile, Torn)
  /\ gen' = [gen EXCEPT !.pc = "write"]
  /\ UNCHANGED <<run, finished>>

(* Mutant: generated is not counted up.                                    *)
WriteFileUncounted ==
  /\ gen.pc = "write"
  /\ disk' = Written(NextFile, run)
  /\ gen' = [gen EXCEPT !.pc = "attempt", !.i = @ + 1]
  /\ UNCHANGED <<run, finished>>

WriteFile ==
  /\ gen.pc = "write"
  /\ disk' = Written(NextFile, run)
  /\ gen' = [gen EXCEPT !.pc = "attempt", !.i = @ + 1, !.generated = @ + 1]
  /\ UNCHANGED <<run, finished>>

FinishGenerator ==
  /\ gen.pc = "attempt"
  /\ ~ More
  /\ gen' = Idle
  /\ finished' = [finished EXCEPT ![gen.family] = run]
  /\ UNCHANGED <<disk, run>>

(* Killed, or panicked in save_ir.                                         *)
KillGenerator ==
  /\ gen.pc # "idle"
  /\ gen' = Idle
  /\ UNCHANGED <<disk, run, finished>>

GenStep ==
  \/ RemoveOld \/ RemovedAll
  \/ DiscardAttempt \/ CreateFile \/ WriteFile
  \/ FinishGenerator

(* sbpf-ir --gen-smart or --gen-jit-stress.                                *)
RunGenerator == \E family \in Families : StartGenerator(family)

GenNext == RunGenerator \/ GenStep \/ KillGenerator

(* Generators one after the other, whoever starts and kills them.          *)
GenSpec == GenInit /\ [][GenNext]_genVars

-----------------------------------------------------------------------------
(* Properties.                                                             *)

(* Between two runs a family is as the last complete run left it: every    *)
(* file whole and of that run, none torn or left over from before, however *)
(* many runs were killed half way (gen_smart.rs:38-49,                     *)
(* gen_jit_stress.rs:339-350).                                             *)
FinishedFamilyIsWhole ==
  \A family \in Families : finished[family] # 0 =>
    \A name \in FilesOf(family) : disk[name] = finished[family]

(* Every seed reported as generated is a file of its own: the number in    *)
(* its name is never that of another (gen_smart.rs:123-125,                *)
(* gen_jit_stress.rs:378-385).                                             *)
EverySeedItsOwnFile ==
  gen.pc = "attempt" => Cardinality(FilesOf(gen.family)) = gen.generated

(* A generator ends, however many attempts fail (gen_smart.rs:63).         *)
GeneratorEnds == gen.pc # "idle" ~> gen.pc = "idle"
=============================================================================
