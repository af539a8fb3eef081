------------------------------ MODULE Executor ------------------------------
(***************************************************************************)
(* The differential oracle of src/executor.rs: run a program in the        *)
(* interpreter and in the JIT, each from a copy of its memory, and panic   *)
(* if they differ.  The assembler, the verifier and both engines are those *)
(* of solana_sbpf: what they do is chosen in Init and the same every time  *)
(* they are asked.                                                         *)
(***************************************************************************)
EXTENDS Naturals, Sequences

CONSTANTS
  Memories,     \* the contents of the input memory
  Outcomes,     \* what a run shows: res, and the Observables
  Engines       \* from initial memories to outcomes

(* Compared in this order, mem being the memory after the run.             *)
Observables == <<"remaining", "mem", "stack", "heap">>

Outcome == [res : {"Ok0", "Ok1", "Err0", "Err1"}, remaining : Nat, mem : Memories,
            stack : Nat, heap : Nat, pc : Nat]

ASSUME ExecutorAssumption ==
  /\ Outcomes \subseteq Outcome
  /\ Engines \subseteq [Memories -> Outcomes]

IsOk(res) == res \in {"Ok0", "Ok1"}

VARIABLES
  entry,        \* "run_diff", "run_diff_ir" or "triage_ir"
  skip_verify,  \* --no-verify
  memory,       \* the memory of the IR
  program,      \* what the crate makes of the program: does it become an
                \* Executable, verify, compile; how is it run
  pc,           \* where the oracle is
  interp, jit,  \* the outcomes, once there
  result        \* of the entry point, or why it panicked

vars == <<entry, skip_verify, memory, program, pc, interp, jit, result>>

NotRun == [res |-> "none"]

TypeOK ==
  /\ entry \in {"run_diff", "run_diff_ir", "triage_ir"}
  /\ skip_verify \in BOOLEAN
  /\ memory \in Memories
  /\ program \in [builds : BOOLEAN, verifies : BOOLEAN, compiles : BOOLEAN,
                  interp : Engines, jit : Engines]
  /\ pc \in {"assemble", "verify", "load", "interpret", "compile", "run_jit",
             "compare_res", "compare_rest", "compare_pc", "returned", "panicked"}
  /\ interp \in Outcomes \cup {NotRun}
  /\ jit \in Outcomes \cup {NotRun}
  /\ pc \in {"compare_res", "compare_rest", "compare_pc"} => NotRun \notin {interp, jit}
  /\ result \in {"none", "AssemblyFailed", "VerifyFailed", "Skipped", "Success",
                 "LoadFailed", "JitFailed", "res", "remaining", "mem", "stack", "heap", "pc"}

(* Only triage_ir has a switch to skip the verifier.                       *)
Init ==
  /\ entry \in {"run_diff", "run_diff_ir", "triage_ir"}
  /\ skip_verify \in (IF entry = "triage_ir" THEN BOOLEAN ELSE {FALSE})
  /\ memory \in Memories
  /\ program \in [builds : BOOLEAN, verifies : BOOLEAN, compiles : BOOLEAN,
                  interp : Engines, jit : Engines]
  /\ pc = IF entry = "run_diff" THEN "verify" ELSE "assemble"
  /\ interp = NotRun /\ jit = NotRun
  /\ result = "none"

Go(next) == pc' = next /\ UNCHANGED <<entry, skip_verify, memory, program>>

Return(r) == Go("returned") /\ result' = r /\ UNCHANGED <<interp, jit>>
Panic(why) == Go("panicked") /\ result' = why /\ UNCHANGED <<interp, jit>>

-----------------------------------------------------------------------------
(* run_diff(), run_diff_ir() and triage_ir().                              *)

AssemblyFails ==
  /\ pc = "assemble"
  /\ ~ program.builds
  /\ Return("AssemblyFailed")

Assemble ==
  /\ pc = "assemble"
  /\ program.builds
  /\ Go("verify")
  /\ UNCHANGED <<interp, jit, result>>

VerifyFails ==
  /\ pc = "verify"
  /\ ~ program.verifies
  /\ ~ skip_verify
  /\ Return(IF entry = "triage_ir" THEN "Skipped" ELSE "VerifyFailed")

(* run_diff verifies the bytes before it builds the Executable; the others *)
(* have it already.                                                        *)
AfterVerify == IF entry = "run_diff" THEN "load" ELSE "interpret"

(* Mutant: nobody asks the verifier.                                       *)
NoVerify ==
  /\ pc = "verify"
  /\ Go(AfterVerify)
  /\ UNCHANGED <<interp, jit, result>>

Verify ==
  /\ pc = "verify"
  /\ program.verifies \/ skip_verify
  /\ Go(AfterVerify)
  /\ UNCHANGED <<interp, jit, result>>

LoadFails ==
  /\ pc = "load"
  /\ ~ program.builds
  /\ Panic("LoadFailed")

Load ==
  /\ pc = "load"
  /\ program.builds
  /\ Go("interpret")
  /\ UNCHANGED <<interp, jit, result>>

-----------------------------------------------------------------------------
(* run_executable().                                                       *)

Interpret ==
  /\ pc = "interpret"
  /\ interp' = program.interp[memory]
  /\ Go("compile")
  /\ UNCHANGED <<jit, result>>

CompileFails ==
  /\ pc = "compile"
  /\ ~ program.compiles
  /\ Panic("JitFailed")

(* Mutant: the compiled program is not run.                                *)
CompileOnly ==
  /\ pc = "compile"
  /\ program.compiles
  /\ Go("compare_res")
  /\ UNCHANGED <<interp, jit, result>>

Compile ==
  /\ pc = "compile"
  /\ program.compiles
  /\ Go("run_jit")
  /\ UNCHANGED <<interp, jit, result>>

(* Mutant: both run in the same memory.                                    *)
RunJitInSameMemory ==
  /\ pc = "run_jit"
  /\ jit' = program.jit[interp.mem]
  /\ Go("compare_res")
  /\ UNCHANGED <<interp, result>>

RunJit ==
  /\ pc = "run_jit"
  /\ jit' = program.jit[memory]
  /\ Go("compare_res")
  /\ UNCHANGED <<interp, result>>

ResDiffers ==
  /\ pc = "compare_res"
  /\ interp.res # jit.res
  /\ Panic("res")

(* After an error of the interpreter only the pc is left to compare.       *)
ResAgrees ==
  /\ pc = "compare_res"
  /\ interp.res = jit.res
  /\ Go(IF IsOk(interp.res) THEN "compare_rest" ELSE "compare_pc")
  /\ UNCHANGED <<interp, jit, result>>

(* Mutant: the last comparison is forgotten.                               *)
DiffersFirstNoHeap(i) ==
  /\ interp[Observables[i]] # jit[Observables[i]]
  /\ i # 4
  /\ \A j \in 1 .. i - 1 : interp[Observables[j]] = jit[Observables[j]]

DiffersFirst(i) ==
  /\ interp[Observables[i]] # jit[Observables[i]]
  /\ \A j \in 1 .. i - 1 : interp[Observables[j]] = jit[Observables[j]]

RestDiffers ==
  /\ pc = "compare_rest"
  /\ \E i \in DOMAIN Observables : DiffersFirst(i) /\ Panic(Observables[i])

RestAgrees ==
  /\ pc = "compare_rest"
  /\ ~ \E i \in DOMAIN Observables : DiffersFirst(i)
  /\ Go("compare_pc")
  /\ UNCHANGED <<interp, jit, result>>

PcDiffers ==
  /\ pc = "compare_pc"
  /\ interp.pc # jit.pc
  /\ Panic("pc")

PcAgrees ==
  /\ pc = "compare_pc"
  /\ interp.pc = jit.pc
  /\ Return("Success")

Next ==
  \/ AssemblyFails \/ Assemble \/ VerifyFails \/ Verify \/ LoadFails \/ Load
  \/ Interpret \/ CompileFails \/ Compile \/ RunJit
  \/ ResDiffers \/ ResAgrees \/ RestDiffers \/ RestAgrees
  \/ PcDiffers \/ PcAgrees

Spec == Init /\ [][Next]_vars

-----------------------------------------------------------------------------
(* Properties.                                                             *)

(* A crash that the fuzzer reports is one of the program under test: if    *)
(* both engines do the same with every memory, and the program loads and   *)
(* compiles, the oracle does not panic (executor.rs:47, 73: each engine    *)
(* gets a copy of the memory).                                             *)
NoFalseAlarm ==
  pc = "panicked" /\ program.builds /\ program.compiles => program.interp # program.jit

(* A program that ends well in the interpreter and is reported as a        *)
(* success did the same in the JIT, in everything that can be seen.        *)
SuccessMeansSame ==
  result = "Success" /\ IsOk(interp.res) => interp = jit

(* What the verifier rejects is run only if the user asked for it.         *)
RunOnlyVerified ==
  interp # NotRun => program.verifies \/ skip_verify

(* The answer that the oracle has given, if it has.                        *)
Verdict ==
  CASE pc = "panicked" -> IF result \in {"LoadFailed", "JitFailed"} THEN "failed" ELSE "differ"
    [] pc = "returned" -> IF result = "Success" THEN "agree" ELSE "rejected"
    [] OTHER           -> "pending"

Oracle == INSTANCE DiffOracle WITH verdict <- Verdict

(* Whatever the order of its calls and comparisons, the oracle comes to    *)
(* one verdict, the right one for these engines and this memory, and never *)
(* takes it back (executor.rs:42-139, 145-239).                            *)
ImplementsOracle == Oracle!Spec

(* "Run interpreter (and JIT ...), panicking on any differential           *)
(* mismatch", executor.rs:41-42.                                           *)
PanicsOnAnyMismatch ==
  result = "Success" => interp = jit
=============================================================================
