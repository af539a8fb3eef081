--------------------------- MODULE FuzzLoopProofs ---------------------------
(***************************************************************************)
(* Proofs about the fuzz loop, for any intervals, capacities, counts and   *)
(* directories: first about the seed generators alone, run and killed any  *)
(* number of times (GenSpec), then about the loop.  The generators in it   *)
(* are those of SeedGenerator, the fuzz target works with seeds that are   *)
(* not too old, and never without any, and the script refreshes them on a  *)
(* plateau only.                                                           *)
(***************************************************************************)
EXTENDS FuzzLoop, FiniteSetTheorems, TLAPS

-----------------------------------------------------------------------------
(* The seed generators.                                                    *)

Writing == gen.pc \in {"attempt", "write"}

(* The files of this run that are written to the end, all but a torn one.  *)
Done == FilesOf(gen.family) \ (IF gen.pc = "write" THEN {NextFile} ELSE {})

CountInv ==
  /\ gen.pc = "idle" => gen = Idle
  /\ gen.pc = "remove" => gen.i = 0 /\ gen.generated = 0
  /\ Writing =>
       /\ gen.family = "jit_stress" => gen.generated = gen.i
       /\ IsFiniteSet(Done)
       /\ Cardinality(Done) = gen.generated
       /\ \A name \in Done : name.n < gen.generated

WriteInv == gen.pc = "write" => More /\ NextFile \in FilesOf(gen.family)

WholeInv ==
  /\ gen.pc # "idle" => run # 0 /\ finished[gen.family] = 0
  /\ Writing => \A name \in Done : disk[name] = run

GenInv == GenTypeOK /\ CountInv /\ WriteInv /\ WholeInv /\ FinishedFamilyIsWhole

(* The directory after a file is removed.                                  *)
LEMMA RemovedDisk ==
  ASSUME NEW x \in DOMAIN disk
  PROVE  /\ DOMAIN Removed(x) = DOMAIN disk \ {x}
         /\ \A name \in DOMAIN disk \ {x} : Removed(x)[name] = disk[name]
  BY DEF Removed, Restrict

(* The next file is one of the directory's, of the family that is written, *)
(* and its number is new.                                                  *)
LEMMA NextFileFacts ==
  ASSUME GenTypeOK, CountInv, Writing, More
  PROVE  /\ NextFile \in Files
         /\ NextFile.family = gen.family /\ NextFile.n = gen.generated
         /\ NextFile \notin Done
<1>1. /\ gen.family \in Families /\ gen.i \in Nat /\ gen.generated \in Nat
      /\ SmartCount \in Nat /\ JitStressCount \in Nat
      /\ SmartCount * AttemptsPerSeed \in Nat
  BY CountsAssumption DEF GenTypeOK
<1>2. NextFile.family = gen.family /\ NextFile.n = gen.generated
  BY DEF NextFile, Name
<1>3. ASSUME gen.family = "smart" PROVE NextFile \in Files
  <2>1. gen.generated < SmartCount /\ gen.i < SmartCount * AttemptsPerSeed
    BY <1>3 DEF More
  <2>2. gen.generated \in 0 .. SmartCount - 1 /\ gen.i \in 0 .. SmartCount * AttemptsPerSeed - 1
    BY <1>1, <2>1
  <2>3. QED
    BY <1>3, <2>2, CountsAssumption DEF NextFile
<1>4. ASSUME gen.family = "jit_stress" PROVE NextFile \in Files
  <2>1. gen.i < JitStressCount
    BY <1>4 DEF More
  <2>2. gen.i \in 0 .. JitStressCount - 1
    BY <1>1, <2>1
  <2>3. gen.generated = gen.i
    BY <1>4 DEF CountInv
  <2>4. QED
    BY <1>4, <2>2, <2>3, CountsAssumption DEF NextFile
<1>5. NextFile \in Files
  BY <1>1, <1>3, <1>4 DEF Families
<1>6. NextFile \notin Done
  BY <1>1, <1>2 DEF CountInv
<1>7. QED
  BY <1>2, <1>5, <1>6

(* Nothing is running before the first run.                                *)
LEMMA GenInitInv == GenInit => GenInv
<1> SUFFICES ASSUME GenInit PROVE GenInv
  OBVIOUS
<1>1. gen = Idle /\ gen.pc = "idle" /\ run = 0 /\ finished = [f \in Families |-> 0]
  BY DEF GenInit, Idle
<1>2. DiskOK
  BY FirstDisksAssumption DEF GenInit, DiskOK
<1>3. GenTypeOK
  BY <1>1, <1>2 DEF GenTypeOK, Idle, Families
<1>4. CountInv /\ WriteInv /\ WholeInv /\ FinishedFamilyIsWhole
  BY <1>1 DEF CountInv, WriteInv, WholeInv, FinishedFamilyIsWhole, Writing
<1>5. QED
  BY <1>3, <1>4 DEF GenInv

-----------------------------------------------------------------------------
(* A run and its end.                                                      *)

(* A run starts: its family is not finished until it ends.                 *)
LEMMA StartInv == GenInv /\ RunGenerator => GenInv'
<1> SUFFICES ASSUME GenInv, NEW family \in Families, StartGenerator(family) PROVE GenInv'
  BY DEF RunGenerator
<1>1. /\ GenTypeOK /\ gen.pc = "idle" /\ disk' = disk /\ run' = run + 1
      /\ gen' = [pc |-> "remove", family |-> family, i |-> 0, generated |-> 0]
      /\ finished' = [finished EXCEPT ![family] = 0]
  BY DEF GenInv, StartGenerator, Idle
<1>2. GenTypeOK'
  BY <1>1 DEF GenTypeOK, DiskOK
<1>3. CountInv' /\ WriteInv'
  BY <1>1 DEF CountInv, WriteInv, Writing
<1>4. finished'[family] = 0 /\ \A f \in Families : f # family => finished'[f] = finished[f]
  BY <1>1 DEF GenTypeOK
<1>5. WholeInv'
  BY <1>1, <1>4 DEF GenTypeOK, WholeInv, Writing
<1>6. FinishedFamilyIsWhole'
  BY <1>1, <1>4 DEF GenInv, FinishedFamilyIsWhole, FilesOf
<1>7. QED
  BY <1>2, <1>3, <1>5, <1>6 DEF GenInv

(* Idle again, be it killed.                                               *)
LEMMA KillInv == GenInv /\ KillGenerator => GenInv'
<1> SUFFICES ASSUME GenInv, KillGenerator PROVE GenInv'
  OBVIOUS
<1>1. GenTypeOK /\ gen' = Idle /\ gen'.pc = "idle" /\ UNCHANGED <<disk, run, finished>>
  BY DEF GenInv, KillGenerator, Idle
<1>2. GenTypeOK'
  BY <1>1 DEF GenTypeOK, DiskOK, Idle, Families
<1>3. CountInv' /\ WriteInv' /\ WholeInv'
  BY <1>1 DEF CountInv, WriteInv, WholeInv, Writing
<1>4. FinishedFamilyIsWhole'
  BY <1>1 DEF GenInv, FinishedFamilyIsWhole, FilesOf
<1>5. QED
  BY <1>2, <1>3, <1>4 DEF GenInv

(* A run that ends has written every file of its family.                   *)
LEMMA FinishInv == GenInv /\ FinishGenerator => GenInv'
<1> SUFFICES ASSUME GenInv, FinishGenerator PROVE GenInv'
  OBVIOUS
<1>1. /\ GenTypeOK /\ gen.pc = "attempt" /\ gen' = Idle /\ gen'.pc = "idle"
      /\ UNCHANGED <<disk, run>> /\ finished' = [finished EXCEPT ![gen.family] = run]
  BY DEF GenInv, FinishGenerator, Idle
<1>2. GenTypeOK'
  BY <1>1 DEF GenTypeOK, DiskOK, Idle, Families
<1>3. CountInv' /\ WriteInv' /\ WholeInv'
  BY <1>1 DEF CountInv, WriteInv, WholeInv, Writing
<1>4. \A name \in FilesOf(gen.family) : disk[name] = run
  BY <1>1 DEF GenInv, WholeInv, Writing, Done
<1>5. /\ finished'[gen.family] = run
      /\ \A f \in Families : f # gen.family => finished'[f] = finished[f]
  BY <1>1 DEF GenTypeOK
<1>6. FinishedFamilyIsWhole'
  BY <1>1, <1>4, <1>5 DEF GenInv, FinishedFamilyIsWhole, FilesOf
<1>7. QED
  BY <1>2, <1>3, <1>6 DEF GenInv

-----------------------------------------------------------------------------
(* The steps of a run.                                                     *)

(* An old seed goes: other families keep their files.                      *)
LEMMA RemoveOldInv == GenInv /\ RemoveOld => GenInv'
<1> SUFFICES ASSUME GenInv, gen.pc = "remove", UNCHANGED <<gen, run, finished>>,
                    NEW x \in OldSeeds, disk' = Removed(x)
             PROVE  GenInv'
  BY DEF RemoveOld
<1>1. x \in DOMAIN disk
  BY DEF OldSeeds, FilesOf
<1>2. DOMAIN disk' = DOMAIN disk \ {x} /\ \A name \in DOMAIN disk' : disk'[name] = disk[name]
  BY <1>1, RemovedDisk
<1>3. GenTypeOK'
  BY <1>2 DEF GenInv, GenTypeOK, DiskOK
<1>4. CountInv' /\ WriteInv'
  BY DEF GenInv, CountInv, WriteInv, Writing
<1>5. WholeInv'
  BY DEF GenInv, WholeInv, Writing
<1>6. FinishedFamilyIsWhole'
  BY <1>2 DEF GenInv, FinishedFamilyIsWhole, FilesOf
<1>7. QED
  BY <1>3, <1>4, <1>5, <1>6 DEF GenInv

(* All old seeds are gone: none is written so far, none is there.          *)
LEMMA RemovedAllInv == GenInv /\ RemovedAll => GenInv'
<1> SUFFICES ASSUME GenInv, RemovedAll PROVE GenInv'
  OBVIOUS
<1>1. /\ GenTypeOK /\ gen.pc = "remove" /\ FilesOf(gen.family) = {}
      /\ gen' = [gen EXCEPT !.pc = "attempt"] /\ UNCHANGED <<disk, run, finished>>
  BY DEF GenInv, RemovedAll, OldSeeds
<1>2. GenTypeOK'
  BY <1>1 DEF GenTypeOK, DiskOK
<1>3. gen'.pc = "attempt" /\ gen'.family = gen.family /\ gen'.i = gen.i /\ gen'.generated = gen.generated
  BY <1>1 DEF GenTypeOK
<1>4. Done' = {}
  BY <1>1, <1>3 DEF Done, FilesOf
<1>5. CountInv'
  BY <1>1, <1>3, <1>4, FS_EmptySet DEF GenInv, CountInv
<1>6. WriteInv'
  BY <1>3 DEF WriteInv
<1>7. WholeInv'
  BY <1>1, <1>3, <1>4 DEF GenInv, WholeInv
<1>8. FinishedFamilyIsWhole'
  BY <1>1 DEF GenInv, FinishedFamilyIsWhole, FilesOf
<1>9. QED
  BY <1>2, <1>5, <1>6, <1>7, <1>8 DEF GenInv

(* An attempt that comes to nothing: the version of the next file changes, *)
(* its number does not.                                                    *)
LEMMA DiscardInv == GenInv /\ DiscardAttempt => GenInv'
<1> SUFFICES ASSUME GenInv, DiscardAttempt PROVE GenInv'
  OBVIOUS
<1>1. /\ GenTypeOK /\ gen.pc = "attempt" /\ gen.family = "smart"
      /\ gen' = [gen EXCEPT !.i = @ + 1] /\ UNCHANGED <<disk, run, finished>>
  BY DEF GenInv, DiscardAttempt
<1>2. GenTypeOK'
  BY <1>1 DEF GenTypeOK, DiskOK
<1>3. gen'.pc = "attempt" /\ gen'.family = "smart" /\ gen'.generated = gen.generated
  BY <1>1 DEF GenTypeOK
<1>4. Done' = Done
  BY <1>1, <1>3 DEF Done, FilesOf
<1>5. CountInv'
  BY <1>1, <1>3, <1>4 DEF GenInv, CountInv, Writing
<1>6. WriteInv' /\ WholeInv'
  BY <1>1, <1>3, <1>4 DEF GenInv, WriteInv, WholeInv, Writing
<1>7. FinishedFamilyIsWhole'
  BY <1>1 DEF GenInv, FinishedFamilyIsWhole, FilesOf
<1>8. QED
  BY <1>2, <1>5, <1>6, <1>7 DEF GenInv

(* The next file is there, and torn: the only one of its family.           *)
LEMMA CreateFileInv == GenInv /\ CreateFile => GenInv'
<1> SUFFICES ASSUME GenInv, CreateFile PROVE GenInv'
  OBVIOUS
<1>1. /\ GenTypeOK /\ CountInv /\ WholeInv /\ gen.pc = "attempt" /\ Writing /\ More
      /\ disk' = Written(NextFile, Torn)
      /\ gen' = [gen EXCEPT !.pc = "write"] /\ UNCHANGED <<run, finished>>
  BY DEF GenInv, CreateFile, Writing
<1>2. NextFile \in Files /\ NextFile.family = gen.family /\ NextFile \notin Done
  BY <1>1, NextFileFacts
<1>3. /\ DOMAIN disk' = DOMAIN disk \cup {NextFile} /\ disk'[NextFile] = Torn
      /\ \A name \in DOMAIN disk : name # NextFile => disk'[name] = disk[name]
  BY <1>1 DEF Written
<1>4. /\ gen'.pc = "write" /\ gen'.family = gen.family /\ gen'.i = gen.i
      /\ gen'.generated = gen.generated
  BY <1>1 DEF GenTypeOK
<1>5. NextFile' = NextFile /\ (More' <=> More)
  BY <1>4 DEF NextFile, More
<1>6. GenTypeOK'
  BY <1>1, <1>2, <1>3 DEF GenTypeOK, DiskOK, Torn
<1>7. FilesOf(gen.family)' = FilesOf(gen.family) \cup {NextFile}
  BY <1>2, <1>3, <1>4 DEF FilesOf
<1>8. Done' = Done
  <2>1. Done = FilesOf(gen.family)
    BY <1>1 DEF Done
  <2>2. Done' = FilesOf(gen.family)' \ {NextFile}
    BY <1>4, <1>5 DEF Done
  <2>3. QED
    BY <1>2, <1>7, <2>1, <2>2
<1>9. CountInv'
  BY <1>1, <1>4, <1>8 DEF CountInv, Writing
<1>10. WriteInv'
  BY <1>1, <1>5, <1>7 DEF WriteInv
<1>11. WholeInv'
  <2>1. \A name \in Done : disk'[name] = run
    BY <1>1, <1>2, <1>3 DEF WholeInv, Done, FilesOf
  <2>2. QED
    BY <1>1, <1>4, <1>8, <2>1 DEF WholeInv
<1>12. FinishedFamilyIsWhole'
  <2>1. \A f \in Families : finished[f] # 0 => f # gen.family
    BY <1>1 DEF WholeInv
  <2>2. QED
    BY <1>1, <1>2, <1>3, <2>1 DEF GenInv, FinishedFamilyIsWhole, FilesOf
<1>13. QED
  BY <1>6, <1>9, <1>10, <1>11, <1>12 DEF GenInv

(* The file is whole, and the next one has another number.                 *)
LEMMA WriteFileInv == GenInv /\ WriteFile => GenInv'
<1> SUFFICES ASSUME GenInv, WriteFile PROVE GenInv'
  OBVIOUS
<1>1. /\ GenTypeOK /\ CountInv /\ WholeInv /\ gen.pc = "write" /\ Writing /\ More
      /\ NextFile \in FilesOf(gen.family)
      /\ disk' = Written(NextFile, run)
      /\ gen' = [gen EXCEPT !.pc = "attempt", !.i = @ + 1, !.generated = @ + 1]
      /\ UNCHANGED <<run, finished>>
  BY DEF GenInv, WriteFile, WriteInv, Writing
<1>2. /\ NextFile \in Files /\ NextFile.family = gen.family
      /\ NextFile.n = gen.generated /\ NextFile \notin Done
  BY <1>1, NextFileFacts
<1>3. /\ DOMAIN disk' = DOMAIN disk /\ disk'[NextFile] = run
      /\ \A name \in DOMAIN disk : name # NextFile => disk'[name] = disk[name]
  BY <1>1 DEF Written, FilesOf
<1>4. /\ gen'.pc = "attempt" /\ gen'.family = gen.family /\ gen'.i = gen.i + 1
      /\ gen'.generated = gen.generated + 1
      /\ gen.i \in Nat /\ gen.generated \in Nat
  <2>1. gen \in [pc : {"idle", "remove", "attempt", "write"}, family : Families,
                 i : Nat, generated : Nat]
    BY <1>1 DEF GenTypeOK
  <2>2. gen' = [gen EXCEPT !.pc = "attempt", !.i = @ + 1, !.generated = @ + 1]
    BY <1>1
  <2>3. QED
    BY <2>1, <2>2
<1>5. GenTypeOK'
  <2>1. DiskOK'
    BY <1>1, <1>3 DEF GenTypeOK, DiskOK
  <2>2. gen' \in [pc : {"idle", "remove", "attempt", "write"}, family : Families,
                  i : Nat, generated : Nat]
    <3>1. gen \in [pc : {"idle", "remove", "attempt", "write"}, family : Families,
                   i : Nat, generated : Nat]
      BY <1>1 DEF GenTypeOK
    <3>2. gen.i + 1 \in Nat /\ gen.generated + 1 \in Nat
      BY <1>4
    <3>3. gen' = [gen EXCEPT !.pc = "attempt", !.i = gen.i + 1, !.generated = gen.generated + 1]
      BY <1>1
    <3>4. QED
      BY <3>1, <3>2, <3>3
  <2>3. QED
    BY <1>1, <2>1, <2>2 DEF GenTypeOK
<1>6. Done' = Done \cup {NextFile}
  <2>1. Done = FilesOf(gen.family) \ {NextFile}
    BY <1>1 DEF Done
  <2>2. Done' = FilesOf(gen.family)
    BY <1>3, <1>4 DEF Done, FilesOf
  <2>3. QED
    BY <1>1, <2>1, <2>2
<1>7. CountInv'
  <2>1. IsFiniteSet(Done') /\ Cardinality(Done') = gen.generated + 1
    BY <1>1, <1>2, <1>6, FS_AddElement DEF CountInv
  <2>2. \A name \in Done : name.n < gen.generated
    BY <1>1 DEF CountInv
  <2>3. \A name \in Done : name.n \in Nat
    BY <1>1, FilesAssumption DEF Done, FilesOf, GenTypeOK, DiskOK
  <2>4. \A name \in Done' : name.n < gen.generated + 1
    BY <1>2, <1>4, <1>6, <2>2, <2>3
  <2>5. gen'.family = "jit_stress" => gen'.generated = gen'.i
    BY <1>1, <1>4 DEF CountInv
  <2>6. QED
    BY <1>4, <2>1, <2>4, <2>5 DEF CountInv
<1>8. WriteInv'
  BY <1>4 DEF WriteInv
<1>9. WholeInv'
  <2>1. \A name \in Done : disk'[name] = run
    BY <1>1, <1>3 DEF WholeInv, Done, FilesOf
  <2>2. QED
    BY <1>1, <1>3, <1>4, <1>6, <2>1 DEF WholeInv
<1>10. FinishedFamilyIsWhole'
  <2>1. \A f \in Families : finished[f] # 0 => f # gen.family
    BY <1>1 DEF WholeInv
  <2>2. QED
    BY <1>1, <1>2, <1>3, <2>1 DEF GenInv, FinishedFamilyIsWhole, FilesOf
<1>11. QED
  BY <1>5, <1>7, <1>8, <1>9, <1>10 DEF GenInv

-----------------------------------------------------------------------------
(* The theorems.                                                           *)

(* Every step of the generators keeps the invariant.                       *)
LEMMA GenNextInv == GenInv /\ [GenNext]_genVars => GenInv'
<1> SUFFICES ASSUME GenInv, [GenNext]_genVars PROVE GenInv'
  OBVIOUS
<1>1. CASE RunGenerator
  BY <1>1, StartInv
<1>2. CASE KillGenerator
  BY <1>2, KillInv
<1>3. CASE RemoveOld
  BY <1>3, RemoveOldInv
<1>4. CASE RemovedAll
  BY <1>4, RemovedAllInv
<1>5. CASE DiscardAttempt
  BY <1>5, DiscardInv
<1>6. CASE CreateFile
  BY <1>6, CreateFileInv
<1>7. CASE WriteFile
  BY <1>7, WriteFileInv
<1>8. CASE FinishGenerator
  BY <1>8, FinishInv
<1>9. CASE UNCHANGED genVars
  BY <1>9 DEF genVars, GenInv, GenTypeOK, DiskOK, CountInv, WriteInv, WholeInv, Writing,
              Done, FilesOf, NextFile, More, FinishedFamilyIsWhole
<1>10. QED
  BY <1>1, <1>2, <1>3, <1>4, <1>5, <1>6, <1>7, <1>8, <1>9 DEF GenNext, GenStep

(* The invariant holds of every state of every history of runs.            *)
THEOREM GenInvariance == GenSpec => []GenInv
<1>1. QED
  BY GenInitInv, GenNextInv, PTL DEF GenSpec

(* The generators and the directory keep their types; above all, every     *)
(* name that a generator writes is one that the counts allow.              *)
THEOREM GenTypeCorrect == GenSpec => []GenTypeOK
<1>1. GenInv => GenTypeOK
  BY DEF GenInv
<1>2. QED
  BY GenInvariance, <1>1, PTL

(* However many runs were killed half way, a family that a run finished    *)
(* has only whole files, all of that run (gen_smart.rs:38-49).             *)
THEOREM FinishedFamilyAlwaysWhole == GenSpec => []FinishedFamilyIsWhole
<1>1. GenInv => FinishedFamilyIsWhole
  BY DEF GenInv
<1>2. QED
  BY GenInvariance, <1>1, PTL

(* Whatever the counts and the attempts that fail, no seed is written over *)
(* another one of its run (gen_smart.rs:123-125).                          *)
THEOREM EverySeedAlwaysItsOwnFile == GenSpec => []EverySeedItsOwnFile
<1>1. GenInv => EverySeedItsOwnFile
  BY DEF GenInv, CountInv, Writing, Done, EverySeedItsOwnFile
<1>2. QED
  BY GenInvariance, <1>1, PTL

-----------------------------------------------------------------------------
(* The inductive invariant of the loop.                                    *)

(* Which processes can be there while the script is where it is.           *)
ProcessInv ==
  /\ gen.pc # "idle" => ctl.pc \in {"smart", "jit_stress", "refresh"}
  /\ target.pc # "off" => ctl.pc \in {"read", "refresh", "done"}

Good(f) == finished[f] # 0 /\ FilesOf(f) # {}

(* The families that the script has had written so far.                    *)
Begun ==
  CASE ctl.pc \in {"start", "interrupted"} -> {}
    [] ctl.pc = "smart"                    -> {"smart"}
    [] OTHER                               -> Families

SeededInv ==
  healthy => \A f \in Begun : Good(f) \/ (gen.pc # "idle" /\ gen.family = f)

(* What a reader of the directory has of f.                                *)
OfFamily(irs, f) == {ir \in irs : ir[1].family = f}

Contents(f, names) == {<<name, finished[f]>> : name \in names}

(* Nothing of f has changed since the scan began.                          *)
Stable(f) ==
  /\ finished[f] # 0
  /\ \A name \in FilesOf(f) :
       name \in DOMAIN target.listing /\ target.listing[name] = disk[name]
  /\ OfFamily(target.irs, f) = Contents(f, FilesOf(f) \cap target.seen)

(* A scan takes no longer than PlateauSecs, so that at most one family is  *)
(* rewritten under its eyes: before another refresh can start, both are    *)
(* as they were when the scan began.                                       *)
ScanInv ==
  target.pc = "scan" =>
    /\ now - target.now <= PlateauSecs
    /\ \A f \in Families : finished[f] # 0 /\ finished_at[f] < target.now => Stable(f)
    /\ healthy => \E f \in Families : Stable(f) /\ FilesOf(f) # {}
    /\ healthy /\ ctl.pc = "read" /\ ctl.last_cov_time < target.now =>
         \A f \in Families : Stable(f) /\ FilesOf(f) # {}

CorpusInv ==
  /\ last_reload <= now
  /\ target.pc # "off" =>
       \A f \in Families : finished[f] # 0 /\ finished_at[f] < last_reload =>
         OfFamily(corpus, f) = Contents(f, FilesOf(f))
  /\ target.pc = "select" =>
       /\ target.now - last_reload < ReloadInterval
       /\ healthy => corpus # {}

(* Growth that the script has not noted is on a line it can still read,    *)
(* and of this very second.                                                *)
PlateauInv ==
  ctl.pc = "read" =>
    /\ \A f \in Families : finished_at[f] <= ctl.last_cov_time
    /\ \/ cov_at <= ctl.last_cov_time
       \/ cov_at = now /\ pipe # <<>> /\ pipe[Len(pipe)] = cov /\ ctl.last_cov < cov

LoopInv ==
  /\ GenInv /\ TypeOK
  /\ ProcessInv /\ SeededInv /\ ScanInv /\ CorpusInv /\ PlateauInv

-----------------------------------------------------------------------------
(* The generators.                                                         *)

(* In the loop the generators do what they do alone: the script starts one *)
(* and waits, and a Ctrl+C is a kill.                                      *)
LEMMA GeneratorsOnly == GenInv /\ [Next]_vars => [GenNext]_genVars
<1> SUFFICES ASSUME GenInv, [Next]_vars PROVE [GenNext]_genVars
  OBVIOUS
<1>1. ASSUME SeedSmart PROVE RunGenerator
  BY <1>1 DEF SeedSmart, RunGenerator, Families
<1>2. ASSUME SeedJitStress PROVE RunGenerator
  BY <1>2 DEF SeedJitStress, RunGenerator, Families
<1>3. ASSUME Refresh PROVE RunGenerator
  BY <1>3 DEF Refresh, RefreshFamily, RunGenerator, Families
<1>4. ASSUME Interrupt PROVE KillGenerator \/ UNCHANGED genVars
  BY <1>4 DEF Interrupt, KillGenerator, genVars, GenInv, CountInv
<1>5. ASSUME GeneratorStep PROVE GenStep
  BY <1>5 DEF GeneratorStep
<1>6. ASSUME GeneratorFails PROVE KillGenerator
  BY <1>6 DEF GeneratorFails
<1>7. ASSUME StartFuzzer \/ MoreCoverage \/ OrdinaryLine \/ EndRefresh \/ Eof \/ Stopped
             \/ FuzzerStep \/ FuzzerCrash \/ FuzzerTimesOut \/ PrintLine \/ Tick
             \/ UNCHANGED vars
      PROVE  UNCHANGED genVars
  BY <1>7 DEF StartFuzzer, MoreCoverage, OrdinaryLine, EndRefresh, Eof, Stopped, FuzzerStep,
              FuzzerCrash, FuzzerTimesOut, PrintLine, Tick, vars, genVars
<1>8. QED
  BY <1>1, <1>2, <1>3, <1>4, <1>5, <1>6, <1>7 DEF Next, Script, GenNext

(* Whatever the script, the fuzz target and the user do, the generators of *)
(* the fuzz loop behave as SeedGenerator says (fuzz_loop.py:44-78).        *)
THEOREM GeneratorsAsAlone == Spec => GenSpec
<1>1. Init => GenInit
  BY DEF Init
<1>2. GenInv /\ [Next]_vars => GenInv'
  BY GeneratorsOnly, GenNextInv
<1>3. QED
  BY <1>1, <1>2, GenInitInv, GeneratorsOnly, PTL DEF Spec, GenSpec

-----------------------------------------------------------------------------
(* Types.                                                                  *)

LEMMA InitTypes == Init => TypeOK
<1> SUFFICES ASSUME Init PROVE TypeOK
  OBVIOUS
<1>1. GenTypeOK
  BY GenInitInv DEF Init, GenInv
<1>2. TargetTypeOK
  BY ReloadAssumption DEF Init, TargetInit, TargetTypeOK, Off
<1>3. QED
  BY <1>1, <1>2, LoopAssumption DEF Init, TypeOK, Fresh

(* TypeOK, but for what the generators and the fuzz target keep.           *)
CtlTypes ==
  ctl \in [pc : {"start", "smart", "jit_stress", "read", "refresh", "done", "interrupted"},
           last_cov : 0 .. cov, last_cov_time : 0 .. now, refreshes : Nat]

LoopTypes ==
  /\ CtlTypes
  /\ pipe \in Seq(0 .. cov) /\ Len(pipe) <= PipeCapacity
  /\ cov \in 0 .. MaxCov /\ cov_at \in 0 .. now
  /\ finished_at \in [Families -> 0 .. now]
  /\ healthy \in BOOLEAN

LEMMA TypesInParts == TypeOK <=> GenTypeOK /\ TargetTypeOK /\ LoopTypes
  BY DEF TypeOK, LoopTypes, CtlTypes

LEMMA CtlUpdates ==
  ASSUME CtlTypes, cov \in Nat, now \in Nat, UNCHANGED <<cov, now>>, NEW c \in 0 .. cov,
         \/ ctl' = [ctl EXCEPT !.last_cov = c, !.last_cov_time = now]
         \/ ctl' = [ctl EXCEPT !.pc = "read", !.last_cov_time = now]
         \/ ctl' = [ctl EXCEPT !.pc = "refresh", !.refreshes = @ + 1]
  PROVE  CtlTypes'
<1>1. now \in 0 .. now
  OBVIOUS
<1>2. CASE ctl' = [ctl EXCEPT !.last_cov = c, !.last_cov_time = now]
  BY <1>1, <1>2 DEF CtlTypes
<1>3. CASE ctl' = [ctl EXCEPT !.pc = "read", !.last_cov_time = now]
  BY <1>1, <1>3 DEF CtlTypes
<1>4. CASE ctl' = [ctl EXCEPT !.pc = "refresh", !.refreshes = @ + 1]
  <2>1. ctl.refreshes + 1 \in Nat
    BY DEF CtlTypes
  <2>2. ctl' = [ctl EXCEPT !.pc = "refresh", !.refreshes = ctl.refreshes + 1]
    BY <1>4
  <2>3. QED
    BY <2>1, <2>2 DEF CtlTypes
<1>5. QED
  BY <1>2, <1>3, <1>4

LEMMA LineTypes ==
  ASSUME LoopTypes, NEW c \in Nat, Line(c)
  PROVE  c \in 0 .. cov /\ pipe' \in Seq(0 .. cov) /\ Len(pipe') < Len(pipe)
  BY DEF LoopTypes, Line

LEMMA TargetTypes ==
  ASSUME TargetTypeOK, DiskOK, TargetStep \/ FindCrash, UNCHANGED now
  PROVE  TargetTypeOK'
<1> USE ReloadAssumption
<1>1. CASE BeginInput
  <2>1. target'.listing = target'.listing /\ now \in 0 .. now
    BY DEF TargetTypeOK
  <2>2. CASE Stale
    BY <1>1, <2>1, <2>2 DEF BeginInput, Off, TargetTypeOK
  <2>3. CASE ~ Stale
    BY <1>1, <2>1, <2>3 DEF BeginInput, Off, TargetTypeOK
  <2>4. QED
    BY <2>2, <2>3
<1>2. CASE ScanFile
  <2>1. PICK name \in DOMAIN disk :
          target' = [target EXCEPT !.seen = @ \cup {name}, !.irs = @ \cup Decoded(name)]
    BY <1>2 DEF ScanFile
  <2>2. name \in Files /\ Decoded(name) \subseteq Files \X (Nat \ {Torn})
    BY DEF Decoded, DiskOK
  <2>3. /\ target.seen \cup {name} \in SUBSET Files
        /\ target.irs \cup Decoded(name) \in SUBSET (Files \X (Nat \ {Torn}))
    BY <2>2 DEF TargetTypeOK
  <2>4. target' \in [pc : {"scan"}, now : 0 .. now, listing : {target'.listing},
                     seen : SUBSET Files, irs : SUBSET (Files \X (Nat \ {Torn}))]
    BY <1>2, <2>1, <2>3 DEF ScanFile, TargetTypeOK
  <2>5. QED
    BY <1>2, <2>4 DEF ScanFile, TargetTypeOK
<1>3. CASE EndScan
  <2>1. target' = [Off EXCEPT !.pc = "select", !.now = target.now]
        /\ corpus' = target.irs /\ last_reload' = target.now
    BY <1>3 DEF EndScan
  <2>2. target.now \in 0 .. now /\ last_reload' \in Int
    BY <2>1 DEF TargetTypeOK
  <2>3. QED
    BY <2>1, <2>2 DEF Off, TargetTypeOK
<1>4. CASE SkipInput \/ SelectIrs \/ FindCrash
  BY <1>4 DEF SkipInput, SelectIrs, FindCrash, TargetTypeOK
<1>5. CASE EndInput
  BY <1>5 DEF EndInput, TargetTypeOK
<1>6. QED
  BY <1>1, <1>2, <1>3, <1>4, <1>5 DEF TargetStep

LEMMA TargetWaits ==
  ASSUME TargetTypeOK, UNCHANGED targetVars, now' \in 0 .. MaxTime, now' >= now
  PROVE  TargetTypeOK'
  BY ReloadAssumption DEF TargetTypeOK, targetVars

LEMMA LaunchTypes ==
  ASSUME TargetTypeOK, Launch, UNCHANGED now
  PROVE  TargetTypeOK'
<1>1. now' \in 0 .. MaxTime /\ 0 \in 0 .. now'
  BY ReloadAssumption DEF TargetTypeOK
<1>2. corpus' \subseteq Files \X (Nat \ {Torn}) /\ last_reload' \in Int
  BY ReloadAssumption DEF Launch
<1>3. target' = [pc |-> "idle", now |-> 0, listing |-> NoFiles, seen |-> {}, irs |-> {}]
  BY DEF Launch, Off
<1>4. QED
  BY <1>1, <1>2, <1>3 DEF TargetTypeOK

LEMMA NextTypes == TypeOK /\ GenTypeOK' /\ [Next]_vars => TypeOK'
<1> SUFFICES ASSUME GenTypeOK, TargetTypeOK, LoopTypes, [Next]_vars
             PROVE  TargetTypeOK' /\ LoopTypes'
  BY TypesInParts, PTL
<1> USE LoopAssumption
<1>t. now \in 0 .. MaxTime /\ MaxTime \in Nat /\ now >= now
  BY ReloadAssumption DEF TargetTypeOK
<1>1. CASE SeedSmart \/ SeedJitStress
  <2>1. UNCHANGED targetVars /\ now' = now
    BY <1>1 DEF SeedSmart, SeedJitStress
  <2>2. LoopTypes'
    BY <1>1 DEF SeedSmart, SeedJitStress, LoopTypes, CtlTypes
  <2>3. QED
    BY <1>t, <2>1, <2>2, TargetWaits
<1>2. CASE StartFuzzer
  <2>1. TargetTypeOK'
    BY <1>2, LaunchTypes DEF StartFuzzer
  <2>2. LoopTypes'
    BY <1>2, <1>t, SMTT(30) DEF StartFuzzer, Fresh, LoopTypes, CtlTypes
  <2>3. QED
    BY <2>1, <2>2
<1>3. CASE MoreCoverage \/ OrdinaryLine \/ Refresh
  <2> DEFINE Reads(c) ==
        /\ Line(c) /\ UNCHANGED targetVars /\ now' = now
        /\ UNCHANGED <<cov, cov_at, finished_at, healthy>>
        /\ \/ ctl' = [ctl EXCEPT !.last_cov = c, !.last_cov_time = now]
           \/ ctl' = ctl
           \/ ctl' = [ctl EXCEPT !.pc = "refresh", !.refreshes = @ + 1]
  <2>a. ASSUME MoreCoverage PROVE \E c \in Nat : Reads(c)
    <3>1. PICK c \in 0 .. MaxCov :
            /\ Line(c) /\ UNCHANGED <<genVars, now, targetVars, cov, cov_at, finished_at, healthy>>
            /\ ctl' = [ctl EXCEPT !.last_cov = c, !.last_cov_time = now]
      BY <2>a DEF MoreCoverage
    <3>2. c \in Nat /\ Reads(c)
      BY <3>1
    <3>3. QED
      BY <3>2
  <2>b. ASSUME OrdinaryLine \/ Refresh PROVE \E c \in Nat : Reads(c)
    <3>1. PICK c \in 0 .. ctl.last_cov :
            /\ Line(c) /\ UNCHANGED <<now, targetVars, cov, cov_at, finished_at, healthy>>
            /\ ctl' = ctl \/ ctl' = [ctl EXCEPT !.pc = "refresh", !.refreshes = @ + 1]
      BY <2>b DEF OrdinaryLine, Refresh
    <3>2. c \in Nat /\ Reads(c)
      BY <3>1 DEF LoopTypes, CtlTypes
    <3>3. QED
      BY <3>2
  <2>1. PICK c \in Nat : Reads(c)
    BY <1>3, <2>a, <2>b
  <2>2. c \in 0 .. cov /\ pipe' \in Seq(0 .. cov) /\ Len(pipe') <= PipeCapacity
    BY <2>1, LineTypes DEF LoopTypes, CtlTypes
  <2>3. ASSUME ctl' = [ctl EXCEPT !.last_cov = c, !.last_cov_time = now] PROVE LoopTypes'
    <3>1. CtlTypes'
      <4>1. CtlTypes /\ cov \in Nat /\ now \in Nat /\ c \in 0 .. cov /\ UNCHANGED <<cov, now>>
        BY <1>t, <2>1, <2>2 DEF LoopTypes
      <4>2. QED
        BY <2>3, <4>1, CtlUpdates
    <3>2. QED
      BY <2>1, <2>2, <3>1 DEF LoopTypes
  <2>4. ASSUME ctl' = ctl PROVE LoopTypes'
    BY <2>1, <2>2, <2>4 DEF LoopTypes, CtlTypes
  <2>5. ASSUME ctl' = [ctl EXCEPT !.pc = "refresh", !.refreshes = @ + 1] PROVE LoopTypes'
    <3>1. CtlTypes'
      BY <1>t, <2>1, <2>2, <2>5, CtlUpdates DEF LoopTypes
    <3>2. QED
      BY <2>1, <2>2, <3>1 DEF LoopTypes
  <2>6. QED
    BY <1>t, <2>1, <2>3, <2>4, <2>5, TargetWaits
<1>4. CASE EndRefresh \/ Eof
  <2>1. UNCHANGED targetVars /\ now' = now
    BY <1>4 DEF EndRefresh, Eof
  <2>2. ASSUME EndRefresh PROVE LoopTypes'
    <3>1. CtlTypes'
      BY <1>t, <2>2, CtlUpdates DEF EndRefresh, LoopTypes
    <3>2. QED
      BY <2>2, <3>1 DEF EndRefresh, LoopTypes
  <2>3. ASSUME Eof PROVE LoopTypes'
    BY <2>3 DEF Eof, LoopTypes, CtlTypes
  <2>4. QED
    BY <1>4, <1>t, <2>1, <2>2, <2>3, TargetWaits
<1>5. CASE Interrupt
  <2>1. TargetTypeOK'
    BY <1>5 DEF Interrupt, Off, TargetTypeOK
  <2>2. pipe' \in Seq(0 .. cov) /\ Len(pipe') = 0
    BY <1>5 DEF Interrupt
  <2>3. LoopTypes'
    <3>1. CtlTypes'
      BY <1>5 DEF Interrupt, LoopTypes, CtlTypes
    <3>2. QED
      BY <1>5, <2>2, <3>1 DEF Interrupt, LoopTypes
  <2>4. QED
    BY <2>1, <2>3
<1>6. CASE GeneratorStep \/ GeneratorFails
  <2>1. UNCHANGED targetVars /\ now' = now
    BY <1>6 DEF GeneratorStep, GeneratorFails
  <2>2. ASSUME GeneratorStep PROVE LoopTypes'
    <3>1. finished_at' \in [Families -> 0 .. now] /\ healthy' \in BOOLEAN
      BY <1>t, <2>2 DEF GeneratorStep, LoopTypes, CtlTypes
    <3>2. QED
      BY <2>2, <3>1 DEF GeneratorStep, LoopTypes, CtlTypes
  <2>3. ASSUME GeneratorFails PROVE LoopTypes'
    BY <2>3 DEF GeneratorFails, LoopTypes, CtlTypes
  <2>4. QED
    BY <1>6, <1>t, <2>1, <2>2, <2>3, TargetWaits
<1>7. CASE FuzzerStep \/ FuzzerCrash
  <2>1. TargetTypeOK'
    BY <1>7, TargetTypes DEF FuzzerStep, FuzzerCrash, GenTypeOK
  <2>2. LoopTypes'
    BY <1>7 DEF FuzzerStep, FuzzerCrash, loopVars, LoopTypes, CtlTypes
  <2>3. QED
    BY <2>1, <2>2
<1>8. CASE FuzzerTimesOut
  <2>1. TargetTypeOK'
    BY <1>8 DEF FuzzerTimesOut, TargetTypeOK
  <2>2. LoopTypes'
    BY <1>8 DEF FuzzerTimesOut, loopVars, LoopTypes, CtlTypes
  <2>3. QED
    BY <2>1, <2>2
<1>9. CASE PrintLine
  <2>1. PICK c \in {cov, cov + 1} :
          /\ c <= MaxCov /\ pipe' = Append(pipe, c) /\ cov' = c
          /\ cov_at' = IF c > cov THEN now ELSE cov_at
    BY <1>9 DEF PrintLine
  <2>2. cov \in Nat /\ c \in Nat /\ pipe \in Seq(0 .. cov) /\ Len(pipe) < PipeCapacity
    BY <1>9, <2>1 DEF PrintLine, LoopTypes, CtlTypes
  <2>3. pipe \in Seq(0 .. c)
    BY <2>1, <2>2
  <2>4. pipe' \in Seq(0 .. c) /\ Len(pipe') = Len(pipe) + 1
    BY <2>1, <2>2, <2>3
  <2>5. LoopTypes'
    BY <1>9, <1>t, <2>1, <2>2, <2>4, SMTT(30) DEF PrintLine, LoopTypes, CtlTypes
  <2>6. TargetTypeOK'
    BY <1>9 DEF PrintLine, TargetTypeOK
  <2>7. QED
    BY <2>5, <2>6
<1>10. CASE Tick
  <2>1. now' \in 0 .. MaxTime /\ now' >= now /\ UNCHANGED targetVars /\ UNCHANGED loopVars
    BY <1>10, <1>t DEF Tick
  <2>2. LoopTypes'
    BY <1>t, <2>1 DEF loopVars, LoopTypes, CtlTypes
  <2>3. QED
    BY <2>1, <2>2, TargetWaits
<1>11. CASE Stopped \/ UNCHANGED vars
  <2>1. UNCHANGED targetVars /\ now' = now
    BY <1>11 DEF Stopped, vars, targetVars
  <2>2. LoopTypes'
    BY <1>11 DEF Stopped, vars, LoopTypes, CtlTypes
  <2>3. QED
    BY <1>t, <2>1, <2>2, TargetWaits
<1>12. QED
  BY <1>1, <1>2, <1>3, <1>4, <1>5, <1>6, <1>7, <1>8, <1>9, <1>10, <1>11 DEF Next, Script

-----------------------------------------------------------------------------
(* What the generators do to finished families.                            *)

(* A run changes nothing of the other family, and what it finishes is good *)
(* if it has generated anything.                                           *)
LEMMA RunFacts ==
  ASSUME GenInv, GenStep
  PROVE  /\ gen.pc # "idle" /\ gen.family \in Families
         /\ finished[gen.family] = 0
         /\ \A f \in Families : f # gen.family =>
              /\ finished'[f] = finished[f] /\ FilesOf(f)' = FilesOf(f)
              /\ \A name \in FilesOf(f) : disk'[name] = disk[name]
         /\ \/ gen'.pc # "idle" /\ gen'.family = gen.family /\ finished' = finished
            \/ /\ gen'.pc = "idle" /\ UNCHANGED disk
               /\ finished'[gen.family] = run /\ run # 0
               /\ gen.generated > 0 => FilesOf(gen.family) # {}
<1>1. GenTypeOK /\ CountInv /\ WholeInv
  BY DEF GenInv
<1>2. gen \in [pc : {"idle", "remove", "attempt", "write"}, family : Families,
              i : Nat, generated : Nat]
  BY <1>1 DEF GenTypeOK
<1>3. gen.pc # "idle"
  BY DEF GenStep, RemoveOld, RemovedAll, DiscardAttempt, CreateFile, WriteFile, FinishGenerator
<1>4. finished[gen.family] = 0 /\ run # 0
  BY <1>1, <1>3 DEF WholeInv
<1>5. CASE RemoveOld
  <2>1. PICK x \in FilesOf(gen.family) : disk' = Removed(x)
    BY <1>5 DEF RemoveOld, OldSeeds
  <2>2. /\ x.family = gen.family /\ DOMAIN disk' = DOMAIN disk \ {x}
        /\ \A name \in DOMAIN disk' : disk'[name] = disk[name]
    BY <2>1, RemovedDisk DEF FilesOf
  <2>3. UNCHANGED <<gen, finished>>
    BY <1>5 DEF RemoveOld
  <2>4. QED
    BY <1>2, <1>3, <1>4, <2>2, <2>3 DEF FilesOf
<1>6. CASE RemovedAll \/ DiscardAttempt
  BY <1>2, <1>3, <1>4, <1>6 DEF RemovedAll, DiscardAttempt, FilesOf
<1>7. CASE CreateFile \/ WriteFile
  <2>1. \E content : disk' = Written(NextFile, content)
    BY <1>7 DEF CreateFile, WriteFile
  <2>2. NextFile.family = gen.family
    BY DEF NextFile, Name
  <2>3. \A name : name # NextFile =>
          /\ name \in DOMAIN disk' <=> name \in DOMAIN disk
          /\ name \in DOMAIN disk => disk'[name] = disk[name]
    <3>1. PICK content : disk' = Written(NextFile, content)
      BY <2>1
    <3>2. QED
      BY <3>1 DEF Written
  <2>4. gen'.pc # "idle" /\ gen'.family = gen.family /\ finished' = finished
    BY <1>2, <1>7 DEF CreateFile, WriteFile
  <2>5. QED
    BY <1>2, <1>3, <1>4, <2>2, <2>3, <2>4 DEF FilesOf
<1>8. CASE FinishGenerator
  <2>1. /\ gen.pc = "attempt" /\ gen'.pc = "idle" /\ UNCHANGED disk
        /\ finished' = [finished EXCEPT ![gen.family] = run]
    BY <1>8 DEF FinishGenerator, Idle
  <2>2. Cardinality(FilesOf(gen.family)) = gen.generated
    BY <1>1, <2>1 DEF CountInv, Writing, Done
  <2>3. gen.generated > 0 => FilesOf(gen.family) # {}
    BY <2>2, FS_EmptySet
  <2>4. QED
    BY <1>1, <1>2, <1>3, <1>4, <2>1, <2>3 DEF GenTypeOK, FilesOf
<1>9. QED
  BY <1>5, <1>6, <1>7, <1>8 DEF GenStep

LEMMA StartFacts ==
  ASSUME GenInv, NEW family \in Families, StartGenerator(family)
  PROVE  /\ gen.pc = "idle" /\ gen'.pc # "idle" /\ gen'.family = family /\ UNCHANGED disk
         /\ \A f \in Families : f # family => finished'[f] = finished[f]
         /\ finished'[family] = 0
  BY DEF StartGenerator, Idle, GenInv, GenTypeOK

-----------------------------------------------------------------------------
(* Which processes there are.                                              *)

LEMMA NextProcesses == TypeOK /\ GenInv /\ ProcessInv /\ [Next]_vars => ProcessInv'
<1> SUFFICES ASSUME LoopTypes, TargetTypeOK, GenInv, ProcessInv, [Next]_vars PROVE ProcessInv'
  BY TypesInParts
<1>1. CASE SeedSmart \/ SeedJitStress
  BY <1>1 DEF SeedSmart, SeedJitStress, StartGenerator, targetVars, ProcessInv, LoopTypes, CtlTypes
<1>2. CASE StartFuzzer
  BY <1>2 DEF StartFuzzer, Fresh, genVars, ProcessInv
<1>3. CASE MoreCoverage \/ OrdinaryLine
  BY <1>3 DEF MoreCoverage, OrdinaryLine, genVars, targetVars, ProcessInv, LoopTypes, CtlTypes
<1>4. CASE Refresh
  BY <1>4 DEF Refresh, Line, targetVars, ProcessInv, LoopTypes, CtlTypes
<1>5. CASE EndRefresh \/ Eof
  BY <1>5 DEF EndRefresh, Eof, genVars, targetVars, ProcessInv, LoopTypes, CtlTypes
<1>6. CASE Interrupt
  BY <1>6 DEF Interrupt, Idle, Off, ProcessInv
<1>7. CASE GeneratorStep
  BY <1>7, RunFacts DEF GeneratorStep, targetVars, ProcessInv
<1>8. CASE GeneratorFails
  BY <1>8 DEF GeneratorFails, KillGenerator, Idle, targetVars, ProcessInv
<1>9. CASE FuzzerStep \/ FuzzerCrash
  <2>1. target.pc # "off"
    BY <1>9 DEF FuzzerStep, FuzzerCrash, TargetStep, BeginInput, ScanFile, EndScan, SkipInput,
                SelectIrs, EndInput, FindCrash
  <2>2. QED
    BY <1>9, <2>1 DEF FuzzerStep, FuzzerCrash, genVars, loopVars, ProcessInv
<1>10. CASE FuzzerTimesOut \/ PrintLine
  BY <1>10 DEF FuzzerTimesOut, PrintLine, genVars, loopVars, ProcessInv
<1>11. CASE Tick \/ Stopped \/ UNCHANGED vars
  BY <1>11 DEF Tick, Stopped, vars, genVars, targetVars, loopVars, ProcessInv
<1>12. QED
  BY <1>1, <1>2, <1>3, <1>4, <1>5, <1>6, <1>7, <1>8, <1>9, <1>10, <1>11 DEF Next, Script

-----------------------------------------------------------------------------
(* As long as no generator fails, one family at least is good.             *)

(* What SeededInv speaks of stays as it is.                                *)
LEMMA SeededStays ==
  ASSUME SeededInv, UNCHANGED genVars, healthy' => healthy, Begun' \subseteq Begun
  PROVE  SeededInv'
  BY DEF SeededInv, Good, FilesOf, genVars

(* A run of some family begins, when no other one is running.              *)
LEMMA SeededStart ==
  ASSUME SeededInv, GenInv, UNCHANGED healthy, NEW family \in Families, StartGenerator(family),
         Begun' \subseteq Begun \cup {family}, Begun' \subseteq Families
  PROVE  SeededInv'
<1>1. /\ gen.pc = "idle" /\ gen'.pc # "idle" /\ gen'.family = family /\ UNCHANGED disk
      /\ \A f \in Families : f # family => finished'[f] = finished[f]
  BY StartFacts
<1>2. QED
  BY <1>1 DEF SeededInv, Good, FilesOf

LEMMA NextSeeded == TypeOK /\ GenInv /\ ProcessInv /\ SeededInv /\ [Next]_vars => SeededInv'
<1> SUFFICES ASSUME LoopTypes, TargetTypeOK, GenInv, ProcessInv, SeededInv, [Next]_vars
             PROVE  SeededInv'
  BY TypesInParts
<1>t. ctl \in [pc : {"start", "smart", "jit_stress", "read", "refresh", "done", "interrupted"},
               last_cov : 0 .. cov, last_cov_time : 0 .. now, refreshes : Nat]
  BY DEF LoopTypes, CtlTypes
<1>1. CASE SeedSmart
  <2>1. ctl'.pc = "smart" /\ StartGenerator("smart") /\ healthy' = healthy
    BY <1>t, <1>1 DEF SeedSmart
  <2>2. Begun' = {"smart"} /\ "smart" \in Families
    BY <2>1 DEF Begun, Families
  <2>3. QED
    BY <2>1, <2>2, SeededStart
<1>2. CASE SeedJitStress
  <2>1. /\ ctl.pc = "smart" /\ ctl'.pc = "jit_stress" /\ StartGenerator("jit_stress")
        /\ healthy' = healthy
    BY <1>t, <1>2 DEF SeedJitStress
  <2>2. Begun' = {"smart", "jit_stress"} /\ Begun = {"smart"} /\ "jit_stress" \in Families
    BY <2>1 DEF Begun, Families
  <2>3. QED
    BY <2>1, <2>2, SeededStart DEF Families
<1>3. CASE Refresh
  <2>1. PICK family \in Families : StartGenerator(family)
    BY <1>3 DEF Refresh, RefreshFamily, Families
  <2>2. ctl.pc = "read" /\ ctl'.pc = "refresh" /\ healthy' = healthy
    BY <1>t, <1>3 DEF Refresh, Line
  <2>3. Begun' = Families /\ Begun = Families
    BY <2>2 DEF Begun
  <2>4. QED
    BY <2>1, <2>2, <2>3, SeededStart
<1>4. CASE StartFuzzer \/ EndRefresh \/ Eof \/ MoreCoverage
  <2>1. Begun' = Begun
    BY <1>t, <1>4 DEF StartFuzzer, Fresh, EndRefresh, Eof, MoreCoverage, Line, Begun
  <2>2. UNCHANGED genVars /\ healthy' = healthy
    BY <1>4 DEF StartFuzzer, EndRefresh, Eof, MoreCoverage
  <2>3. QED
    BY <2>1, <2>2, SeededStays
<1>5. CASE Interrupt
  <2>1. Begun' = {}
    BY <1>t, <1>5 DEF Interrupt, Begun
  <2>2. QED
    BY <2>1 DEF SeededInv
<1>6. CASE GeneratorStep
  <2>1. Begun' = Begun /\ Begun \subseteq Families
    BY <1>6 DEF GeneratorStep, Begun, Families
  <2>2. GenStep /\ (healthy' => healthy /\ (gen'.pc = "idle" => gen.generated > 0))
    BY <1>6 DEF GeneratorStep
  <2>3. SUFFICES ASSUME healthy', NEW f \in Begun
                 PROVE  Good(f)' \/ (gen'.pc # "idle" /\ gen'.family = f)
    BY <2>1 DEF SeededInv
  <2>4. CASE f = gen.family
    BY <2>2, <2>3, <2>4, RunFacts DEF Good, FilesOf
  <2>5. CASE f # gen.family
    <3>1. Good(f)
      BY <2>2, <2>3, <2>5 DEF SeededInv
    <3>2. QED
      BY <2>1, <2>2, <2>5, <3>1, RunFacts DEF Good
  <2>6. QED
    BY <2>4, <2>5
<1>7. CASE GeneratorFails
  BY <1>7 DEF GeneratorFails, SeededInv
<1>8. CASE \/ OrdinaryLine \/ FuzzerStep \/ FuzzerCrash \/ FuzzerTimesOut \/ PrintLine \/ Tick
           \/ Stopped \/ UNCHANGED vars
  <2>1. UNCHANGED genVars /\ healthy' = healthy /\ ctl' = ctl
    BY <1>8 DEF OrdinaryLine, FuzzerStep, FuzzerCrash, FuzzerTimesOut, PrintLine, Tick, Stopped,
                loopVars, genVars, vars
  <2>2. QED
    BY <2>1, SeededStays DEF Begun
<1>9. QED
  BY <1>1, <1>2, <1>3, <1>4, <1>5, <1>6, <1>7, <1>8 DEF Next, Script

-----------------------------------------------------------------------------
(* What a scan sees.                                                       *)

LEMMA StableStays ==
  ASSUME NEW f, Stable(f), finished'[f] = finished[f], FilesOf(f)' = FilesOf(f),
         \A name \in FilesOf(f) : disk'[name] = disk[name], UNCHANGED target
  PROVE  Stable(f)'
  BY DEF Stable, OfFamily, Contents

(* All of ScanInv stays if the scan and the families are left alone.       *)
LEMMA ScanStays ==
  ASSUME ScanInv, UNCHANGED genVars, UNCHANGED <<target, now, finished_at, ctl>>,
         healthy' => healthy
  PROVE  ScanInv'
<1>1. \A f : Stable(f) => Stable(f)'
  BY DEF Stable, OfFamily, Contents, FilesOf, genVars
<1>2. QED
  BY <1>1 DEF ScanInv, FilesOf, genVars

(* The first look: a family that is good is seen from its start, and if    *)
(* no generator is running both are.                                       *)
LEMMA ScanBegins ==
  ASSUME TypeOK, GenInv, ProcessInv, SeededInv, BeginInput,
         UNCHANGED genVars, UNCHANGED <<now, finished_at, ctl, healthy>>
  PROVE  ScanInv'
<1> SUFFICES ASSUME Stale PROVE ScanInv'
  BY DEF BeginInput, Off, ScanInv
<1>1. target' = [Off EXCEPT !.pc = "scan", !.now = now, !.listing = disk] /\ target.pc = "idle"
  BY DEF BeginInput
<1>2. /\ target'.now = now /\ target'.listing = disk /\ target'.seen = {} /\ target'.irs = {}
  BY <1>1 DEF Off
<1>3. ASSUME NEW f, finished[f] # 0 PROVE Stable(f)'
  BY <1>2, <1>3 DEF Stable, OfFamily, Contents, FilesOf, genVars
<1>4. Begun = Families
  BY <1>1 DEF ProcessInv, Begun
<1>5. healthy => \E f \in Families : Good(f)
  BY <1>4 DEF SeededInv, Families
<1>6. healthy /\ gen.pc = "idle" => \A f \in Families : Good(f)
  BY <1>4 DEF SeededInv
<1>7. healthy => \E f \in Families : Stable(f)' /\ FilesOf(f)' # {}
  BY <1>3, <1>5 DEF Good, FilesOf, genVars
<1>8. healthy /\ ctl.pc = "read" => \A f \in Families : Stable(f)' /\ FilesOf(f)' # {}
  BY <1>3, <1>6 DEF ProcessInv, Good, FilesOf, genVars
<1>9. now - now <= PlateauSecs
  <2>1. now \in 0 .. MaxTime
    BY DEF TypeOK, TargetTypeOK
  <2>2. QED
    BY <2>1, LoopAssumption, ReloadAssumption
<1>10. QED
  BY <1>2, <1>3, <1>7, <1>8, <1>9 DEF ScanInv, genVars

(* One more entry of the directory.                                        *)
LEMMA ScanSees ==
  ASSUME TypeOK, GenInv, ScanInv, ScanFile, UNCHANGED genVars,
         UNCHANGED <<now, finished_at, ctl, healthy>>
  PROVE  ScanInv'
<1>1. PICK name \in DOMAIN disk :
        target' = [target EXCEPT !.seen = @ \cup {name}, !.irs = @ \cup Decoded(name)]
  BY DEF ScanFile
<1>2. /\ target.pc = "scan" /\ target'.pc = "scan" /\ target'.now = target.now
      /\ target'.listing = target.listing
      /\ target'.seen = target.seen \cup {name}
      /\ target'.irs = target.irs \cup Decoded(name)
  BY <1>1 DEF ScanFile, TypeOK, TargetTypeOK
<1>3. ASSUME NEW f \in Families, Stable(f) PROVE Stable(f)'
  <2>1. OfFamily(Decoded(name), f) = Contents(f, FilesOf(f) \cap {name})
    <3>1. CASE name.family = f
      <4>1. disk[name] = finished[f] /\ finished[f] # Torn
        BY <1>3, <3>1 DEF GenInv, FinishedFamilyIsWhole, FilesOf, Stable, Torn
      <4>2. QED
        BY <3>1, <4>1 DEF Decoded, OfFamily, Contents, FilesOf
    <3>2. CASE name.family # f
      BY <3>2 DEF Decoded, OfFamily, Contents, FilesOf
    <3>3. QED
      BY <3>1, <3>2
  <2>2. OfFamily(target'.irs, f) = OfFamily(target.irs, f) \cup OfFamily(Decoded(name), f)
    BY <1>2 DEF OfFamily
  <2>3. OfFamily(target'.irs, f) = Contents(f, FilesOf(f) \cap target'.seen)
    BY <1>2, <1>3, <2>1, <2>2 DEF Stable, Contents
  <2>4. QED
    BY <1>2, <1>3, <2>3 DEF Stable, Contents, OfFamily, FilesOf, genVars
<1>4. QED
  BY <1>2, <1>3 DEF ScanInv, FilesOf, genVars

(* A generator at work meanwhile: what is stable is not what it writes.    *)
LEMMA ScanDuringRun ==
  ASSUME TypeOK, GenInv, ProcessInv, ScanInv, GeneratorStep
  PROVE  ScanInv'
<1>1. GenStep /\ UNCHANGED <<now, target, ctl>> /\ (healthy' => healthy)
  BY DEF GeneratorStep, targetVars
<1>2. gen.pc # "idle" /\ finished[gen.family] = 0 /\ gen.family \in Families
  BY <1>1, RunFacts
<1>3. \A f \in Families : Stable(f) => Stable(f)' /\ FilesOf(f)' = FilesOf(f)
  BY <1>1, <1>2, RunFacts, StableStays DEF Stable
<1>4. ASSUME target.pc = "scan", NEW f \in Families, finished'[f] # 0, finished_at'[f] < target.now
      PROVE  Stable(f)'
  <2>1. target.now <= now /\ now \in Nat /\ target.now \in Nat
    BY DEF TypeOK, TargetTypeOK
  <2>2. finished'[f] = finished[f] /\ finished_at'[f] = finished_at[f]
    BY <1>4, <2>1 DEF GeneratorStep
  <2>3. QED
    BY <1>3, <1>4, <2>2 DEF ScanInv
<1>5. ctl.pc # "read"
  BY <1>2 DEF ProcessInv
<1>6. QED
  BY <1>1, <1>3, <1>4, <1>5 DEF ScanInv

(* A refresh starts only when both families are as they were.              *)
LEMMA ScanAtRefresh ==
  ASSUME TypeOK, GenInv, ScanInv, Refresh
  PROVE  ScanInv'
<1>1. PICK family \in Families : StartGenerator(family)
  BY DEF Refresh, RefreshFamily, Families
<1>2. /\ ctl.pc = "read" /\ ctl'.pc = "refresh" /\ Plateau
      /\ UNCHANGED <<now, target, finished_at, healthy>>
  BY DEF Refresh, Line, targetVars, TypeOK
<1>3. \A f \in Families : f # family => finished'[f] = finished[f]
  BY <1>1, StartFacts
<1>4. finished'[family] = 0 /\ UNCHANGED disk
  BY <1>1, StartFacts
<1>5. \A f \in Families : f # family /\ Stable(f) => Stable(f)'
  BY <1>2, <1>3, <1>4, StableStays DEF FilesOf
<1>6. target.pc = "scan" => ctl.last_cov_time < target.now
  <2>1. now \in Nat /\ target.now \in Nat /\ ctl.last_cov_time \in Nat /\ PlateauSecs \in Nat
    BY LoopAssumption DEF TypeOK, TargetTypeOK
  <2>2. QED
    BY <1>2, <2>1 DEF Plateau, ScanInv
<1>7. target.pc = "scan" /\ healthy => \A f \in Families : Stable(f) /\ FilesOf(f) # {}
  BY <1>2, <1>6 DEF ScanInv
<1>8. \E f \in Families : f # family
  BY DEF Families
<1>9. target.pc = "scan" /\ healthy => \E f \in Families : Stable(f)' /\ FilesOf(f)' # {}
  BY <1>4, <1>5, <1>7, <1>8 DEF FilesOf
<1>10. QED
  BY <1>2, <1>3, <1>4, <1>5, <1>9 DEF ScanInv

LEMMA NextScan ==
  TypeOK /\ GenInv /\ ProcessInv /\ SeededInv /\ ScanInv /\ [Next]_vars => ScanInv'
<1> SUFFICES ASSUME TypeOK, GenInv, ProcessInv, SeededInv, ScanInv, [Next]_vars PROVE ScanInv'
  OBVIOUS
<1>1. CASE SeedSmart \/ SeedJitStress \/ StartFuzzer \/ Interrupt
  <2>1. target'.pc # "scan"
    BY <1>1 DEF SeedSmart, SeedJitStress, StartFuzzer, Launch, Interrupt, Off, targetVars, ProcessInv
  <2>2. QED
    BY <2>1 DEF ScanInv
<1>2. CASE MoreCoverage \/ EndRefresh
  <2>1. UNCHANGED genVars /\ UNCHANGED <<now, target, finished_at, healthy>>
    BY <1>2 DEF MoreCoverage, EndRefresh, targetVars
  <2>2. ctl'.last_cov_time = now
    BY <1>2 DEF MoreCoverage, EndRefresh, TypeOK
  <2>3. target.now <= now /\ target.now \in Nat /\ now \in Nat
    BY DEF TypeOK, TargetTypeOK
  <2>4. \A f : Stable(f) => Stable(f)'
    BY <2>1 DEF Stable, OfFamily, Contents, FilesOf, genVars
  <2>5. QED
    BY <2>1, <2>2, <2>3, <2>4 DEF ScanInv, FilesOf, genVars
<1>3. CASE Refresh
  BY <1>3, ScanAtRefresh
<1>4. CASE Eof
  <2>1. /\ UNCHANGED genVars /\ UNCHANGED <<now, target, finished_at, healthy>> /\ target.pc # "scan"
    BY <1>4 DEF Eof, targetVars
  <2>2. QED
    BY <2>1 DEF ScanInv
<1>5. CASE GeneratorStep
  BY <1>5, ScanDuringRun
<1>6. CASE GeneratorFails
  <2>1. /\ UNCHANGED <<disk, finished, now, target, finished_at, ctl>> /\ ~ healthy'
    BY <1>6 DEF GeneratorFails, KillGenerator, targetVars
  <2>2. \A f : Stable(f) => Stable(f)'
    BY <2>1 DEF Stable, OfFamily, Contents, FilesOf
  <2>3. QED
    BY <2>1, <2>2 DEF ScanInv
<1>7. CASE FuzzerStep
  <2>1. UNCHANGED genVars /\ UNCHANGED <<now, finished_at, ctl, healthy>> /\ TargetStep
    BY <1>7 DEF FuzzerStep, loopVars
  <2>2. CASE BeginInput
    BY <2>1, <2>2, ScanBegins
  <2>3. CASE ScanFile
    BY <2>1, <2>3, ScanSees
  <2>4. CASE EndScan \/ SkipInput \/ SelectIrs \/ EndInput
    <3>1. target'.pc # "scan"
      BY <2>4 DEF EndScan, SkipInput, SelectIrs, EndInput, Off, TypeOK, TargetTypeOK
    <3>2. QED
      BY <3>1 DEF ScanInv
  <2>5. QED
    BY <2>1, <2>2, <2>3, <2>4 DEF TargetStep
<1>8. CASE FuzzerCrash \/ FuzzerTimesOut \/ PrintLine
  <2>1. target'.pc # "scan"
    BY <1>8 DEF FuzzerCrash, FindCrash, FuzzerTimesOut, PrintLine, TypeOK, TargetTypeOK
  <2>2. QED
    BY <2>1 DEF ScanInv
<1>9. CASE Tick
  <2>1. /\ UNCHANGED genVars /\ UNCHANGED <<target, finished_at, ctl, healthy>>
        /\ now' = now + 1 /\ now \in Nat /\ target.now \in Nat /\ PlateauSecs \in Nat
        /\ target.pc = "scan" => now - target.now < PlateauSecs
    BY <1>9, LoopAssumption DEF Tick, targetVars, loopVars, TypeOK, TargetTypeOK
  <2>2. \A f : Stable(f) => Stable(f)'
    BY <2>1 DEF Stable, OfFamily, Contents, FilesOf, genVars
  <2>3. QED
    BY <2>1, <2>2 DEF ScanInv, FilesOf, genVars
<1>10. CASE OrdinaryLine \/ Stopped \/ UNCHANGED vars
  <2>1. UNCHANGED genVars /\ UNCHANGED <<target, now, finished_at, ctl>> /\ (healthy' => healthy)
    BY <1>10 DEF OrdinaryLine, Stopped, vars, genVars, targetVars
  <2>2. QED
    BY <2>1, ScanStays
<1>11. QED
  BY <1>1, <1>2, <1>3, <1>4, <1>5, <1>6, <1>7, <1>8, <1>9, <1>10 DEF Next, Script

-----------------------------------------------------------------------------
(* What the target holds in memory.                                        *)

(* The files of a scan that is over: all of what was stable.               *)
LEMMA ScanEnds ==
  ASSUME TypeOK, ScanInv, EndScan, UNCHANGED genVars, UNCHANGED <<now, finished_at, healthy>>
  PROVE  CorpusInv'
<1>1. /\ target.pc = "scan" /\ corpus' = target.irs /\ last_reload' = target.now
      /\ target'.pc = "select" /\ target'.now = target.now
  BY DEF EndScan, Off
<1>2. target.now \in Nat /\ target.now <= now /\ now \in Nat
  BY DEF TypeOK, TargetTypeOK
<1>3. ASSUME NEW f, Stable(f) PROVE OfFamily(corpus', f) = Contents(f, FilesOf(f))
  <2>1. FilesOf(f) \subseteq target.seen
    BY <1>3 DEF EndScan, ScanComplete, Stable, FilesOf
  <2>2. FilesOf(f) \cap target.seen = FilesOf(f)
    BY <2>1
  <2>3. QED
    BY <1>1, <1>3, <2>2 DEF Stable
<1>4. ASSUME healthy PROVE corpus' # {}
  <2>1. PICK f \in Families : Stable(f) /\ FilesOf(f) # {}
    BY <1>1, <1>4 DEF ScanInv
  <2>2. PICK name \in FilesOf(f) : TRUE
    BY <2>1
  <2>3. <<name, finished[f]>> \in Contents(f, FilesOf(f))
    BY DEF Contents
  <2>4. <<name, finished[f]>> \in OfFamily(corpus', f)
    BY <1>3, <2>1, <2>3
  <2>5. QED
    BY <2>4 DEF OfFamily
<1>5. target'.now - last_reload' < ReloadInterval
  BY <1>1, <1>2, ReloadAssumption
<1>6. \A f \in Families : finished[f] # 0 /\ finished_at[f] < last_reload' =>
         OfFamily(corpus', f) = Contents(f, FilesOf(f))
  BY <1>1, <1>3 DEF ScanInv
<1>7. QED
  BY <1>1, <1>2, <1>4, <1>5, <1>6 DEF CorpusInv, Contents, FilesOf, genVars

(* The corpus stays as good as it was if the families, and the input that  *)
(* is being run, are left alone.                                           *)
LEMMA CorpusStays ==
  ASSUME CorpusInv, UNCHANGED <<disk, finished, finished_at, corpus, last_reload>>,
         now' >= now, now \in Nat, now' \in Nat, last_reload \in Int, healthy' => healthy,
         target'.pc # "off" => target.pc # "off",
         target'.pc = "select" => UNCHANGED target
  PROVE  CorpusInv'
<1>1. \A f : Contents(f, FilesOf(f))' = Contents(f, FilesOf(f))
             /\ OfFamily(corpus, f)' = OfFamily(corpus, f)
  BY DEF Contents, FilesOf, OfFamily
<1>2. last_reload' <= now'
  BY DEF CorpusInv
<1>3. QED
  BY <1>1, <1>2 DEF CorpusInv

LEMMA NextCorpus ==
  TypeOK /\ GenInv /\ ProcessInv /\ ScanInv /\ CorpusInv /\ [Next]_vars => CorpusInv'
<1> SUFFICES ASSUME TypeOK, GenInv, ProcessInv, ScanInv, CorpusInv, [Next]_vars PROVE CorpusInv'
  OBVIOUS
<1>t. /\ now \in Nat /\ now >= now /\ last_reload \in Int /\ target.now \in 0 .. now
      /\ ReloadInterval \in Nat \ {0}
      /\ \A f \in Families : finished_at[f] \in 0 .. now
  BY ReloadAssumption DEF TypeOK, TargetTypeOK
<1>1. CASE SeedSmart \/ SeedJitStress \/ Interrupt
  <2>1. target'.pc = "off" /\ now' = now /\ last_reload' = last_reload
    BY <1>1 DEF SeedSmart, SeedJitStress, Interrupt, Off, targetVars, ProcessInv
  <2>2. QED
    BY <2>1 DEF CorpusInv
<1>2. CASE StartFuzzer
  <2>1. last_reload' = - ReloadInterval /\ target'.pc = "idle" /\ now' = now
        /\ UNCHANGED finished_at
    BY <1>2 DEF StartFuzzer, Launch, Off
  <2>2. last_reload' <= now'
    BY <1>t, <2>1
  <2>3. \A f \in Families : ~ (finished_at'[f] < last_reload')
    BY <1>t, <2>1
  <2>4. QED
    BY <2>1, <2>2, <2>3 DEF CorpusInv
<1>3. CASE Refresh
  <2>1. PICK family \in Families : StartGenerator(family)
    BY <1>3 DEF Refresh, RefreshFamily, Families
  <2>2. /\ finished'[family] = 0 /\ UNCHANGED disk
        /\ \A f \in Families : f # family => finished'[f] = finished[f]
    BY <2>1, StartFacts
  <2>3. UNCHANGED <<now, corpus, last_reload, target, finished_at, healthy>>
    BY <1>3 DEF Refresh, targetVars
  <2>4. QED
    BY <2>2, <2>3 DEF CorpusInv, OfFamily, Contents, FilesOf
<1>4. CASE GeneratorStep
  <2>1. /\ GenStep /\ UNCHANGED <<now, corpus, last_reload, target>> /\ (healthy' => healthy)
        /\ finished_at' = [f \in Families |->
                            IF finished'[f] # finished[f] THEN now ELSE finished_at[f]]
    BY <1>4 DEF GeneratorStep, targetVars
  <2>2. ASSUME target.pc # "off", NEW f \in Families, finished'[f] # 0,
               finished_at'[f] < last_reload
        PROVE  OfFamily(corpus, f) = Contents(f, FilesOf(f))'
    <3>1. last_reload <= now
      BY DEF CorpusInv
    <3>2. finished'[f] = finished[f] /\ finished_at'[f] = finished_at[f]
      BY <1>t, <2>1, <2>2, <3>1
    <3>3. f # gen.family
      BY <2>1, <2>2, <3>2, RunFacts
    <3>4. FilesOf(f)' = FilesOf(f)
      BY <2>1, <3>3, RunFacts
    <3>5. QED
      BY <2>2, <3>2, <3>4 DEF CorpusInv, Contents
  <2>3. QED
    BY <2>1, <2>2 DEF CorpusInv, OfFamily
<1>5. CASE EndRefresh \/ Eof \/ MoreCoverage \/ OrdinaryLine
  <2>1. UNCHANGED <<disk, finished, finished_at, corpus, last_reload, now, target, healthy>>
    BY <1>5 DEF EndRefresh, Eof, MoreCoverage, OrdinaryLine, genVars, targetVars
  <2>2. QED
    BY <1>t, <2>1, CorpusStays
<1>6. CASE GeneratorFails
  <2>1. UNCHANGED <<disk, finished, finished_at, corpus, last_reload, now, target>> /\ ~ healthy'
    BY <1>6 DEF GeneratorFails, KillGenerator, targetVars
  <2>2. QED
    BY <1>t, <2>1, CorpusStays
<1>7. CASE FuzzerStep
  <2>1. UNCHANGED genVars /\ UNCHANGED <<now, finished_at, healthy>> /\ TargetStep
    BY <1>7 DEF FuzzerStep, loopVars
  <2>2. CASE EndScan
    BY <2>1, <2>2, ScanEnds
  <2>3. CASE BeginInput
    <3>1. UNCHANGED <<corpus, last_reload>> /\ target.pc = "idle"
      BY <2>3 DEF BeginInput
    <3>2. target'.pc = "select" =>
            /\ target'.now = now /\ corpus # {} /\ now - last_reload < ReloadInterval
      BY <1>t, <2>3 DEF BeginInput, Off, Stale
    <3>3. QED
      BY <2>1, <3>1, <3>2 DEF CorpusInv, OfFamily, Contents, FilesOf, genVars
  <2>4. CASE ScanFile \/ SkipInput \/ SelectIrs \/ EndInput
    <3>1. UNCHANGED <<corpus, last_reload>> /\ target.pc # "off" /\ target'.pc # "select"
      BY <2>4 DEF ScanFile, SkipInput, SelectIrs, EndInput, TypeOK, TargetTypeOK
    <3>2. QED
      BY <1>t, <2>1, <3>1, CorpusStays DEF genVars
  <2>5. QED
    BY <2>1, <2>2, <2>3, <2>4 DEF TargetStep
<1>8. CASE FuzzerCrash \/ FuzzerTimesOut \/ PrintLine
  <2>1. UNCHANGED <<disk, finished, finished_at, corpus, last_reload, now, healthy>>
    BY <1>8 DEF FuzzerCrash, FindCrash, FuzzerTimesOut, PrintLine, genVars, loopVars
  <2>2. target.pc # "off" /\ target'.pc # "select"
    BY <1>8 DEF FuzzerCrash, FindCrash, FuzzerTimesOut, PrintLine, TypeOK, TargetTypeOK
  <2>3. QED
    BY <1>t, <2>1, <2>2, CorpusStays
<1>9. CASE Tick
  <2>1. /\ UNCHANGED <<disk, finished, finished_at, corpus, last_reload, target, healthy>>
        /\ now' = now + 1
    BY <1>9 DEF Tick, genVars, targetVars, loopVars
  <2>2. now' \in Nat /\ now' >= now
    BY <1>t, <2>1
  <2>3. QED
    BY <1>t, <2>1, <2>2, CorpusStays
<1>10. CASE Stopped \/ UNCHANGED vars
  <2>1. UNCHANGED <<disk, finished, finished_at, corpus, last_reload, now, target, healthy>>
    BY <1>10 DEF Stopped, vars
  <2>2. QED
    BY <1>t, <2>1, CorpusStays
<1>11. QED
  BY <1>1, <1>2, <1>3, <1>4, <1>5, <1>6, <1>7, <1>8, <1>9, <1>10 DEF Next, Script

-----------------------------------------------------------------------------
(* What the script knows of the coverage.                                  *)

LEMMA PlateauStays ==
  ASSUME PlateauInv, UNCHANGED <<ctl, finished_at, cov_at, cov, pipe, now>>
  PROVE  PlateauInv'
  BY DEF PlateauInv

(* When the script has taken down the time, nothing is left to be noted.   *)
LEMMA PlateauDated ==
  ASSUME TypeOK, TypeOK', ctl'.last_cov_time = now'
  PROVE  PlateauInv'
  BY DEF PlateauInv, TypeOK

(* A line that shows nothing new is not the one that shows the growth.     *)
LEMMA PlateauReads ==
  ASSUME TypeOK, PlateauInv, OrdinaryLine
  PROVE  PlateauInv'
<1>1. PICK c \in 0 .. ctl.last_cov : Line(c)
  BY DEF OrdinaryLine
<1>2. UNCHANGED <<ctl, now, cov, cov_at, finished_at>> /\ ctl.pc = "read"
  BY <1>1 DEF OrdinaryLine, Line
<1>3. pipe \in Seq(0 .. cov) /\ cov \in Nat /\ ctl.last_cov \in Nat
  BY DEF TypeOK
<1>4. pipe # <<>> /\ pipe[1] = c /\ pipe' = Tail(pipe) /\ c <= ctl.last_cov
  BY <1>1, <1>3 DEF Line
<1>5. ASSUME pipe[Len(pipe)] = cov, ctl.last_cov < cov
      PROVE  pipe' # <<>> /\ pipe'[Len(pipe')] = cov
  <2>1. Len(pipe) \in Nat /\ Len(pipe) > 1
    BY <1>3, <1>4, <1>5
  <2>2. Len(pipe') = Len(pipe) - 1 /\ pipe'[Len(pipe')] = pipe[Len(pipe)]
    BY <1>3, <1>4, <2>1
  <2>3. QED
    BY <1>5, <2>1, <2>2
<1>6. QED
  BY <1>2, <1>5 DEF PlateauInv

LEMMA PlateauPrints ==
  ASSUME TypeOK, PlateauInv, PrintLine
  PROVE  PlateauInv'
<1>1. PICK c \in {cov, cov + 1} :
        /\ pipe' = Append(pipe, c) /\ cov' = c /\ cov_at' = IF c > cov THEN now ELSE cov_at
  BY DEF PrintLine
<1>2. UNCHANGED <<ctl, now, finished_at>>
  BY DEF PrintLine
<1>3. pipe \in Seq(0 .. cov) /\ cov \in Nat /\ ctl.last_cov \in 0 .. cov
  BY DEF TypeOK
<1>4. pipe' # <<>> /\ pipe'[Len(pipe')] = c
  BY <1>1, <1>3
<1>5. CASE c = cov
  BY <1>1, <1>2, <1>3, <1>4, <1>5 DEF PlateauInv
<1>6. CASE c = cov + 1
  BY <1>1, <1>2, <1>3, <1>4, <1>6 DEF PlateauInv
<1>7. QED
  BY <1>5, <1>6

LEMMA NextPlateau ==
  TypeOK /\ TypeOK' /\ GenInv /\ ProcessInv /\ PlateauInv /\ [Next]_vars => PlateauInv'
<1> SUFFICES ASSUME TypeOK, TypeOK', GenInv, ProcessInv, PlateauInv, [Next]_vars PROVE PlateauInv'
  OBVIOUS
<1>1. CASE SeedSmart \/ SeedJitStress \/ Refresh \/ Eof \/ Interrupt
  <2>1. ctl'.pc # "read"
    BY <1>1 DEF SeedSmart, SeedJitStress, Refresh, Eof, Interrupt, TypeOK
  <2>2. QED
    BY <2>1 DEF PlateauInv
<1>2. CASE StartFuzzer \/ MoreCoverage \/ EndRefresh
  <2>1. ctl'.last_cov_time = now'
    BY <1>2 DEF StartFuzzer, Fresh, MoreCoverage, EndRefresh, TypeOK
  <2>2. QED
    BY <2>1, PlateauDated
<1>3. CASE OrdinaryLine
  BY <1>3, PlateauReads
<1>4. CASE GeneratorStep
  <2>1. ctl.pc # "read" /\ ctl' = ctl
    BY <1>4, RunFacts DEF GeneratorStep, ProcessInv
  <2>2. QED
    BY <2>1 DEF PlateauInv
<1>5. CASE PrintLine
  BY <1>5, PlateauPrints
<1>6. CASE Tick
  <2>1. UNCHANGED <<ctl, finished_at, cov_at, cov, pipe>> /\ (ctl.pc = "read" => pipe = <<>>)
    BY <1>6 DEF Tick, loopVars
  <2>2. QED
    BY <2>1 DEF PlateauInv
<1>7. CASE GeneratorFails \/ FuzzerStep \/ FuzzerCrash \/ FuzzerTimesOut \/ Stopped \/ UNCHANGED vars
  <2>1. UNCHANGED <<ctl, finished_at, cov_at, cov, pipe, now>>
    BY <1>7 DEF GeneratorFails, FuzzerStep, FuzzerCrash, FuzzerTimesOut, Stopped, loopVars, vars
  <2>2. QED
    BY <2>1, PlateauStays
<1>8. QED
  BY <1>1, <1>2, <1>3, <1>4, <1>5, <1>6, <1>7 DEF Next, Script

-----------------------------------------------------------------------------
(* The invariant, and what follows.                                        *)

LEMMA LoopInitInv == Init => LoopInv
<1> SUFFICES ASSUME Init PROVE LoopInv
  OBVIOUS
<1>1. GenInv /\ TypeOK
  BY InitTypes, GenInitInv DEF Init
<1>2. /\ ctl.pc = "start" /\ gen.pc = "idle" /\ target.pc = "off"
      /\ now = 0 /\ last_reload = - ReloadInterval
  BY DEF Init, Fresh, GenInit, Idle, TargetInit, Off
<1>3. last_reload <= now
  BY <1>2, ReloadAssumption
<1>4. Begun = {}
  BY <1>2 DEF Begun
<1>5. QED
  BY <1>1, <1>2, <1>3, <1>4 DEF LoopInv, ProcessInv, SeededInv, ScanInv, CorpusInv, PlateauInv

LEMMA LoopNextInv == LoopInv /\ [Next]_vars => LoopInv'
<1> SUFFICES ASSUME LoopInv, [Next]_vars PROVE LoopInv'
  OBVIOUS
<1>1. GenInv' /\ GenTypeOK'
  BY GeneratorsOnly, GenNextInv DEF LoopInv, GenInv
<1>2. TypeOK'
  BY <1>1, NextTypes DEF LoopInv
<1>3. ProcessInv' /\ SeededInv' /\ ScanInv' /\ CorpusInv'
  BY NextProcesses, NextSeeded, NextScan, NextCorpus DEF LoopInv
<1>4. PlateauInv'
  BY <1>2, NextPlateau DEF LoopInv
<1>5. QED
  BY <1>1, <1>2, <1>3, <1>4 DEF LoopInv

LEMMA LoopInvariance == Spec => []LoopInv
  BY LoopInitInv, LoopNextInv, PTL DEF Spec

(* The whole loop keeps to its types, among them that the script never     *)
(* holds a coverage or a time that is ahead of the fuzzer's or the clock's *)
(* (fuzz_loop.py:88-122).                                                  *)
THEOREM TypeCorrect == Spec => []TypeOK
<1>1. LoopInv => TypeOK
  BY DEF LoopInv
<1>2. QED
  BY <1>1, LoopInvariance, PTL

(* An input never runs on seeds that are ReloadInterval old, whatever a    *)
(* generator did to the directory while it was read (setup.sh:75-81).      *)
THEOREM SeedsAlwaysPickedUp == Spec => []SeedsPickedUp
<1>1. LoopInv => SeedsPickedUp
  <2> SUFFICES ASSUME LoopInv, target.pc = "select", NEW f \in Families, finished[f] # 0,
                      finished_at[f] + ReloadInterval <= target.now
               PROVE  OfFamily(corpus, f) = Contents(f, FilesOf(f))
    BY DEF SeedsPickedUp, OfFamily, Contents
  <2>1. /\ finished_at[f] \in Nat /\ target.now \in Nat /\ last_reload \in Int
        /\ ReloadInterval \in Nat
    BY ReloadAssumption DEF LoopInv, TypeOK, TargetTypeOK
  <2>2. target.now - last_reload < ReloadInterval
    BY DEF LoopInv, CorpusInv
  <2>3. finished_at[f] < last_reload
    BY <2>1, <2>2
  <2>4. QED
    BY <2>3 DEF LoopInv, CorpusInv
<1>2. QED
  BY <1>1, LoopInvariance, PTL

(* The fuzzer always has seeds to pick from as long as the generators work *)
(* (fuzz_loop.py:116-121, gen_smart.rs:44).                                *)
THEOREM AlwaysSeedsToPick == Spec => []NeverWithoutSeeds
<1>1. LoopInv => NeverWithoutSeeds
  BY DEF LoopInv, CorpusInv, NeverWithoutSeeds
<1>2. QED
  BY <1>1, LoopInvariance, PTL

(* A refresh starts only on a plateau of the coverage, and PlateauSecs     *)
(* after the last one has ended (fuzz_loop.py:104-122).                    *)
THEOREM RefreshesOnlyOnPlateau == Spec => RefreshOnlyOnPlateau
<1>1. ASSUME LoopInv, Refresh
      PROVE  /\ now - cov_at \notin 1 .. PlateauSecs
             /\ \A f \in Families : finished[f] # 0 => now - finished_at[f] > PlateauSecs
  <2>1. ctl.pc = "read" /\ now - ctl.last_cov_time > PlateauSecs
    BY <1>1 DEF Refresh, Line, Plateau
  <2>2. /\ now \in Nat /\ cov_at \in Nat /\ ctl.last_cov_time \in Nat /\ PlateauSecs \in Nat
        /\ \A f \in Families : finished_at[f] \in Nat
    BY <1>1, LoopAssumption DEF LoopInv, TypeOK, TargetTypeOK
  <2>3. /\ cov_at <= ctl.last_cov_time \/ cov_at = now
        /\ \A f \in Families : finished_at[f] <= ctl.last_cov_time
    BY <1>1, <2>1 DEF LoopInv, PlateauInv
  <2>4. QED
    BY <2>1, <2>2, <2>3
<1>2. QED
  BY <1>1, LoopInvariance, PTL DEF Spec, RefreshOnlyOnPlateau
=============================================================================
