------------------------------ MODULE FuzzLoop ------------------------------
(***************************************************************************)
(* fuzz_loop.py with the processes it starts: one generator at a time, and *)
(* the fuzz target, whose output it reads through a pipe.  It generates    *)
(* seeds when the coverage has not grown for PlateauSecs.                  *)
(*                                                                         *)
(* Timing assumptions, in Tick: lines are read as they come unless a       *)
(* generator is waited for, and a scan of the directory takes less than    *)
(* PlateauSecs (120 s by default).                                         *)
(***************************************************************************)
EXTENDS SeedGenerator, IrJitDiff, Sequences

CONSTANTS
  PlateauSecs,    \* --plateau-secs
  PipeCapacity,   \* lines the pipe holds
  MaxCycleSecs,   \* --max-cycle-secs, 0 for no limit
  JitStressEvery, \* 3: every third refresh is for JIT-stress seeds
  MaxCov          \* bound of the model: the coverage there is to find

ASSUME LoopAssumption ==
  /\ PlateauSecs \in Nat /\ MaxCycleSecs \in Nat /\ PipeCapacity \in Nat \ {0}
  /\ JitStressEvery \in Nat \ {0} /\ MaxCov \in Nat

VARIABLES
  ctl,          \* the script: pc, last_cov, last_cov_time, refreshes
  pipe,         \* lines printed and not read: the coverage each one gives
  cov,          \* the coverage libFuzzer has reached and printed
  cov_at,       \* history: when the coverage last grew
  finished_at,  \* history: when the last run of each family finished
  healthy       \* history: no generator failed or came out empty

vars == <<disk, gen, run, finished, now, corpus, last_reload, target,
          ctl, pipe, cov, cov_at, finished_at, healthy>>

loopVars == <<ctl, pipe, cov, cov_at, finished_at, healthy>>

Fresh(pc) == [pc |-> pc, last_cov |-> 0, last_cov_time |-> 0, refreshes |-> 0]

TypeOK ==
  /\ GenTypeOK /\ TargetTypeOK
  /\ ctl \in [pc : {"start", "smart", "jit_stress", "read", "refresh", "done", "interrupted"},
              last_cov : 0 .. cov, last_cov_time : 0 .. now, refreshes : Nat]
  /\ pipe \in Seq(0 .. cov) /\ Len(pipe) <= PipeCapacity
  /\ cov \in 0 .. MaxCov /\ cov_at \in 0 .. now
  /\ finished_at \in [Families -> 0 .. now]
  /\ healthy \in BOOLEAN

Init ==
  /\ GenInit /\ TargetInit
  /\ now = 0
  /\ ctl = Fresh("start")
  /\ pipe = <<>> /\ cov = 0 /\ cov_at = 0
  /\ finished_at = [f \in Families |-> 0]
  /\ healthy = TRUE

-----------------------------------------------------------------------------
(* The first seeds, and the fuzzer.                                        *)

SeedSmart ==
  /\ ctl.pc = "start"
  /\ StartGenerator("smart")
  /\ ctl' = [ctl EXCEPT !.pc = "smart"]
  /\ UNCHANGED <<now, targetVars, pipe, cov, cov_at, finished_at, healthy>>

SeedJitStress ==
  /\ ctl.pc = "smart"
  /\ StartGenerator("jit_stress")
  /\ ctl' = [ctl EXCEPT !.pc = "jit_stress"]
  /\ UNCHANGED <<now, targetVars, pipe, cov, cov_at, finished_at, healthy>>

StartFuzzer ==
  /\ ctl.pc = "jit_stress"
  /\ gen.pc = "idle"
  /\ Launch
  /\ ctl' = [Fresh("read") EXCEPT !.last_cov_time = now]
  /\ pipe' = <<>> /\ cov' = 0 /\ cov_at' = now
  /\ UNCHANGED <<now, genVars, finished_at, healthy>>

-----------------------------------------------------------------------------
(* The lines of the fuzzer.                                                *)

(* Mutant: nothing is read before the fuzzer is done.                      *)
LineAfterExit(i) ==
  ctl.pc = "read" /\ pipe # <<>> /\ target.pc = "exited" /\ Head(pipe) = i /\ pipe' = Tail(pipe)

Line(i) == ctl.pc = "read" /\ pipe # <<>> /\ Head(pipe) = i /\ pipe' = Tail(pipe)

(* Mutant: the clock is not set when the coverage grows.                   *)
MoreCoverageNotDated ==
  \E c \in 0 .. MaxCov :
    /\ Line(c)
    /\ c > ctl.last_cov
    /\ ctl' = [ctl EXCEPT !.last_cov = c]
    /\ UNCHANGED <<genVars, now, targetVars, cov, cov_at, finished_at, healthy>>

MoreCoverage ==
  \E c \in 0 .. MaxCov :
    /\ Line(c)
    /\ c > ctl.last_cov
    /\ ctl' = [ctl EXCEPT !.last_cov = c, !.last_cov_time = now]
    /\ UNCHANGED <<genVars, now, targetVars, cov, cov_at, finished_at, healthy>>

Plateau == now - ctl.last_cov_time > PlateauSecs

(* Mutant: a plateau shows only in the line after the next growth.         *)
OrdinaryLineAnyTime ==
  \E c \in 0 .. ctl.last_cov :
    /\ Line(c)
    /\ UNCHANGED <<ctl, genVars, now, targetVars, cov, cov_at, finished_at, healthy>>

OrdinaryLine ==
  \E c \in 0 .. ctl.last_cov :
    /\ Line(c)
    /\ ~ Plateau
    /\ UNCHANGED <<ctl, genVars, now, targetVars, cov, cov_at, finished_at, healthy>>

RefreshFamily(n) == IF n % JitStressEvery = 0 THEN "jit_stress" ELSE "smart"

Refresh ==
  \E c \in 0 .. ctl.last_cov :
    /\ Line(c)
    /\ Plateau
    /\ StartGenerator(RefreshFamily(ctl.refreshes + 1))
    /\ ctl' = [ctl EXCEPT !.pc = "refresh", !.refreshes = @ + 1]
    /\ UNCHANGED <<now, targetVars, cov, cov_at, finished_at, healthy>>

(* subprocess.run returned, with whatever exit status.                     *)
EndRefresh ==
  /\ ctl.pc = "refresh"
  /\ gen.pc = "idle"
  /\ ctl' = [ctl EXCEPT !.pc = "read", !.last_cov_time = now]
  /\ UNCHANGED <<genVars, now, targetVars, pipe, cov, cov_at, finished_at, healthy>>

(* Mutant: the end is looked for only while the coverage grows.            *)
EofOnGrowth ==
  /\ ctl.pc = "read"
  /\ pipe = <<>>
  /\ target.pc = "exited"
  /\ ctl.last_cov_time = now
  /\ ctl' = [ctl EXCEPT !.pc = "done"]
  /\ UNCHANGED <<genVars, now, targetVars, pipe, cov, cov_at, finished_at, healthy>>

(* End of the fuzzer's output.                                             *)
Eof ==
  /\ ctl.pc = "read"
  /\ pipe = <<>>
  /\ target.pc = "exited"
  /\ ctl' = [ctl EXCEPT !.pc = "done"]
  /\ UNCHANGED <<genVars, now, targetVars, pipe, cov, cov_at, finished_at, healthy>>

(* Ctrl+C reaches the script, the generator and the fuzzer.                *)
Interrupt ==
  /\ ctl.pc \notin {"done", "interrupted"}
  /\ gen' = Idle
  /\ corpus' = {} /\ target' = Off
  /\ pipe' = <<>>
  /\ ctl' = [ctl EXCEPT !.pc = "interrupted"]
  /\ UNCHANGED <<disk, run, finished, now, last_reload, cov, cov_at, finished_at,
                 healthy>>

Stopped ==
  /\ ctl.pc \in {"done", "interrupted"}
  /\ UNCHANGED vars

-----------------------------------------------------------------------------
(* The processes it started, and time.                                     *)

GeneratorStep ==
  /\ GenStep
  /\ finished_at' = [f \in Families |-> IF finished'[f] # finished[f] THEN now ELSE finished_at[f]]
  /\ healthy' = (healthy /\ (gen'.pc = "idle" => gen.generated > 0))
  /\ UNCHANGED <<now, targetVars, ctl, pipe, cov, cov_at>>

(* It fails: exit status not 0, only warned about.                         *)
GeneratorFails ==
  /\ KillGenerator
  /\ healthy' = FALSE
  /\ UNCHANGED <<now, targetVars, ctl, pipe, cov, cov_at, finished_at>>

FuzzerStep ==
  /\ TargetStep
  /\ UNCHANGED <<genVars, now, loopVars>>

FuzzerCrash ==
  /\ FindCrash
  /\ UNCHANGED <<genVars, now, loopVars>>

(* -max_total_time: libFuzzer looks at it between two inputs.  Its clock   *)
(* is left open: with a limit it may stop at any time.                     *)
FuzzerTimesOut ==
  /\ MaxCycleSecs > 0
  /\ target.pc = "idle"
  /\ target' = [target EXCEPT !.pc = "exited"]
  /\ UNCHANGED <<genVars, now, corpus, last_reload, loopVars>>

(* A line can be printed only when the pipe has room for it.               *)
PrintLine ==
  /\ target.pc = "print"
  /\ Len(pipe) < PipeCapacity
  /\ \E c \in {cov, cov + 1} :
       /\ c <= MaxCov
       /\ pipe' = Append(pipe, c)
       /\ cov' = c
       /\ cov_at' = IF c > cov THEN now ELSE cov_at
  /\ target' = [target EXCEPT !.pc = "idle"]
  /\ UNCHANGED <<genVars, now, corpus, last_reload, ctl, finished_at, healthy>>

Tick ==
  /\ now < MaxTime
  /\ ctl.pc = "read" => pipe = <<>>
  /\ target.pc = "scan" => now - target.now < PlateauSecs
  /\ now' = now + 1
  /\ UNCHANGED <<genVars, targetVars, loopVars>>

Script ==
  \/ SeedSmart \/ SeedJitStress \/ StartFuzzer
  \/ MoreCoverage \/ OrdinaryLine \/ Refresh \/ EndRefresh \/ Eof

Next ==
  \/ Script \/ Interrupt \/ Stopped
  \/ GeneratorStep \/ GeneratorFails
  \/ FuzzerStep \/ FuzzerCrash \/ FuzzerTimesOut \/ PrintLine
  \/ Tick

Spec == Init /\ [][Next]_vars

(* Every process gets its share of the machine; nothing is assumed of the  *)
(* user, of failures or of the clock.                                      *)
Fairness ==
  /\ WF_vars(Script)
  /\ WF_vars(GeneratorStep)
  /\ WF_vars(FuzzerStep) /\ WF_vars(PrintLine)

FairSpec == Spec /\ Fairness

-----------------------------------------------------------------------------
(* Properties.                                                             *)

(* An input never runs on seeds that are ReloadInterval old: if a family   *)
(* was completely written that long ago or longer, the corpus holds        *)
(* exactly its files, however the reload overlapped with the writing       *)
(* (setup.sh:75-81).                                                       *)
SeedsPickedUp ==
  target.pc = "select" =>
    \A f \in Families :
      finished[f] # 0 /\ finished_at[f] + ReloadInterval <= target.now =>
        {ir \in corpus : ir[1].family = f} = {<<name, finished[f]>> : name \in FilesOf(f)}

(* A refresh rewrites one family only, so that the fuzzer always has seeds *)
(* to work with while it runs, even if it reloads in the middle of it, as  *)
(* long as the generators work (fuzz_loop.py:116-121, gen_smart.rs:44).    *)
NeverWithoutSeeds ==
  target.pc = "select" /\ healthy => corpus # {}

(* Seeds are refreshed only PlateauSecs after the last refresh and after   *)
(* the coverage last grew, this very second apart; lines that piled up in  *)
(* the pipe during a refresh start no second one (fuzz_loop.py:104-122).   *)
RefreshOnlyOnPlateau ==
  [][Refresh =>
       /\ now - cov_at \notin 1 .. PlateauSecs
       /\ \A f \in Families : finished[f] # 0 => now - finished_at[f] > PlateauSecs]_vars

(* The fuzzer may find the pipe full while the script waits for a          *)
(* generator, but not forever (fuzz_loop.py:99-123).                       *)
FuzzerGoesOn == target.pc = "print" ~> target.pc # "print"

(* If the coverage has not grown for PlateauSecs and the fuzzer has a line *)
(* to print, new seeds are on their way, unless the line shows that it has *)
(* grown after all; a line that waits in the pipe is not the end of it     *)
(* (fuzz_loop.py:99-109).                                                  *)
PlateauIsNoticed ==
  ctl.pc = "read" /\ target.pc = "print" /\ now - ctl.last_cov_time > PlateauSecs
    ~> ctl.pc # "read" \/ now - ctl.last_cov_time <= PlateauSecs

(* However the fuzzer ends, by a crash found during a refresh too, the     *)
(* script reads what it left in the pipe and comes to its own end, it does *)
(* not wait for another line (fuzz_loop.py:99, 129).                       *)
ScriptEndsWithFuzzer ==
  target.pc = "exited" ~> ctl.pc \in {"done", "interrupted"}
=============================================================================
