--------------------------- MODULE ExecutorProofs ---------------------------
(***************************************************************************)
(* Proofs about the oracle of Executor, for any engines, outcomes and      *)
(* memories.                                                               *)
(***************************************************************************)
EXTENDS Executor, TLAPS

BeforeVerify == {"assemble", "verify"}
BeforeRun    == {"load", "interpret"}
Running      == {"compile", "run_jit"}
Comparing    == {"compare_res", "compare_rest", "compare_pc"}

(* How far the oracle is says what has been run, and on which memory.      *)
StageInv ==
  /\ pc \in BeforeVerify \cup BeforeRun => interp = NotRun /\ jit = NotRun
  /\ pc \in Running => interp = program.interp[memory] /\ jit = NotRun
  /\ pc \in Comparing => interp = program.interp[memory] /\ jit = program.jit[memory]
  /\ pc \in BeforeRun \cup Running \cup Comparing => program.verifies \/ skip_verify
  /\ pc \notin {"returned", "panicked"} => result = "none"

(* And what has been compared.                                             *)
ComparedInv ==
  /\ pc \in {"compare_rest", "compare_pc"} => interp.res = jit.res
  /\ pc = "compare_pc" /\ IsOk(interp.res) =>
       \A i \in DOMAIN Observables : interp[Observables[i]] = jit[Observables[i]]

Inv ==
  /\ TypeOK /\ StageInv /\ ComparedInv
  /\ NoFalseAlarm /\ SuccessMeansSame /\ RunOnlyVerified

(* A run of either engine gives an outcome, which is not NotRun.           *)
LEMMA RunOutcome ==
  ASSUME TypeOK
  PROVE  /\ program.interp[memory] \in Outcomes /\ program.jit[memory] \in Outcomes
         /\ NotRun \notin Outcomes
         /\ Outcomes \subseteq Outcome
<1>1. program.interp \in Engines /\ program.jit \in Engines /\ memory \in Memories
  BY DEF TypeOK
<1>2. program.interp[memory] \in Outcomes /\ program.jit[memory] \in Outcomes
  BY <1>1, ExecutorAssumption
<1>3. \A o \in Outcomes : o.res \in {"Ok0", "Ok1", "Err0", "Err1"}
  BY ExecutorAssumption DEF Outcome
<1>4. NotRun.res = "none"
  BY DEF NotRun
<1>5. QED
  BY <1>2, <1>3, <1>4, ExecutorAssumption

(* If no observable is the first to differ, none differs.                  *)
LEMMA NoFirst ==
  ASSUME ~ \E i \in DOMAIN Observables : DiffersFirst(i)
  PROVE  \A i \in DOMAIN Observables : interp[Observables[i]] = jit[Observables[i]]
<1>1. DOMAIN Observables = 1 .. 4
  BY DEF Observables
<1> DEFINE Same(i) == interp[Observables[i]] = jit[Observables[i]]
<1>2. \A i \in 1 .. 4 : (\A j \in 1 .. i - 1 : Same(j)) => Same(i)
  BY <1>1 DEF DiffersFirst
<1> HIDE DEF Same
<1>3. Same(1)
  BY <1>2
<1>4. Same(2)
  BY <1>2, <1>3
<1>5. Same(3)
  BY <1>2, <1>3, <1>4
<1>6. Same(4)
  BY <1>2, <1>3, <1>4, <1>5
<1>7. QED
  BY <1>1, <1>3, <1>4, <1>5, <1>6 DEF Same

(* Two outcomes that agree in the result, the observables and the pc are   *)
(* the same.                                                               *)
LEMMA SameOutcome ==
  ASSUME NEW o \in Outcome, NEW p \in Outcome, o.res = p.res, o.pc = p.pc,
         \A i \in DOMAIN Observables : o[Observables[i]] = p[Observables[i]]
  PROVE  o = p
<1>1. /\ DOMAIN Observables = 1 .. 4
      /\ Observables[1] = "remaining" /\ Observables[2] = "mem"
      /\ Observables[3] = "stack" /\ Observables[4] = "heap"
  BY DEF Observables
<1>2. 1 \in 1 .. 4 /\ 2 \in 1 .. 4 /\ 3 \in 1 .. 4 /\ 4 \in 1 .. 4
  OBVIOUS
<1>3. o.remaining = p.remaining /\ o.mem = p.mem /\ o.stack = p.stack /\ o.heap = p.heap
  BY <1>1, <1>2
<1>4. QED
  BY <1>3 DEF Outcome

(* Nothing has run when an entry point is called.                          *)
LEMMA InitInv == Init => Inv
<1> SUFFICES ASSUME Init PROVE Inv
  OBVIOUS
<1>1. pc \in BeforeVerify /\ interp = NotRun /\ jit = NotRun /\ result = "none"
  BY DEF Init, BeforeVerify
<1>2. TypeOK
  BY <1>1 DEF Init, TypeOK, BeforeVerify
<1>3. StageInv /\ ComparedInv
  BY <1>1 DEF StageInv, ComparedInv, BeforeVerify, BeforeRun, Running, Comparing
<1>4. NoFalseAlarm /\ SuccessMeansSame /\ RunOnlyVerified
  BY <1>1 DEF NoFalseAlarm, SuccessMeansSame, RunOnlyVerified, BeforeVerify
<1>5. QED
  BY <1>2, <1>3, <1>4 DEF Inv

-----------------------------------------------------------------------------
(* What every step but the comparisons keeps.                              *)

(* A step to another place of the oracle, that runs and returns nothing.   *)
LEMMA MoveInv ==
  ASSUME Inv,
         NEW next \in BeforeRun \cup Running \cup {"verify"}, Go(next),
         UNCHANGED <<interp, jit, result>>,
         pc \in BeforeVerify \cup BeforeRun \cup Running,
         next \in Running <=> pc \in Running,
         next \in BeforeRun \cup Running => program.verifies \/ skip_verify
  PROVE  Inv'
<1>1. /\ pc' = next /\ next # "panicked" /\ next \notin Comparing
      /\ UNCHANGED <<entry, skip_verify, memory, program, interp, jit, result>>
  BY DEF Go, BeforeRun, Running, Comparing
<1>2. TypeOK'
  BY <1>1 DEF Inv, TypeOK, BeforeRun, Running, Comparing
<1>3. StageInv'
  BY <1>1 DEF Inv, StageInv, BeforeVerify, BeforeRun, Running, Comparing
<1>4. ComparedInv' /\ NoFalseAlarm'
  BY <1>1 DEF ComparedInv, NoFalseAlarm, Comparing
<1>5. SuccessMeansSame' /\ RunOnlyVerified'
  BY <1>1 DEF Inv, SuccessMeansSame, RunOnlyVerified
<1>6. QED
  BY <1>2, <1>3, <1>4, <1>5 DEF Inv

(* A panic that the engines or solana_sbpf are to blame for.               *)
LEMMA PanicInv ==
  ASSUME Inv,
         NEW why \in {"LoadFailed", "JitFailed", "res", "remaining", "mem", "stack", "heap", "pc"},
         Panic(why),
         program.builds /\ program.compiles => program.interp # program.jit
  PROVE  Inv'
<1>1. /\ pc' = "panicked" /\ result' = why /\ why # "Success"
      /\ UNCHANGED <<entry, skip_verify, memory, program, interp, jit>>
  BY DEF Panic, Go
<1>2. TypeOK'
  BY <1>1 DEF Inv, TypeOK
<1>3. StageInv' /\ ComparedInv'
  BY <1>1 DEF StageInv, ComparedInv, BeforeVerify, BeforeRun, Running, Comparing
<1>4. NoFalseAlarm' /\ SuccessMeansSame' /\ RunOnlyVerified'
  BY <1>1 DEF Inv, NoFalseAlarm, SuccessMeansSame, RunOnlyVerified
<1>5. QED
  BY <1>2, <1>3, <1>4 DEF Inv

(* A program that is not run, or two runs that are taken for the same.     *)
LEMMA ReturnInv ==
  ASSUME Inv,
         NEW r \in {"AssemblyFailed", "VerifyFailed", "Skipped", "Success"}, Return(r),
         r = "Success" /\ IsOk(interp.res) => interp = jit
  PROVE  Inv'
<1>1. /\ pc' = "returned" /\ result' = r
      /\ UNCHANGED <<entry, skip_verify, memory, program, interp, jit>>
  BY DEF Return, Go
<1>2. TypeOK'
  BY <1>1 DEF Inv, TypeOK
<1>3. StageInv' /\ ComparedInv'
  BY <1>1 DEF StageInv, ComparedInv, BeforeVerify, BeforeRun, Running, Comparing
<1>4. NoFalseAlarm' /\ SuccessMeansSame' /\ RunOnlyVerified'
  BY <1>1 DEF Inv, NoFalseAlarm, SuccessMeansSame, RunOnlyVerified
<1>5. QED
  BY <1>2, <1>3, <1>4 DEF Inv

(* A comparison that finds no difference.                                  *)
LEMMA CompareInv ==
  ASSUME Inv, pc \in Comparing,
         NEW next \in {"compare_rest", "compare_pc"}, Go(next),
         UNCHANGED <<interp, jit, result>>,
         interp.res = jit.res,
         next = "compare_pc" /\ IsOk(interp.res) =>
           \A i \in DOMAIN Observables : interp[Observables[i]] = jit[Observables[i]]
  PROVE  Inv'
<1>1. /\ pc' = next /\ next \in Comparing
      /\ UNCHANGED <<entry, skip_verify, memory, program, interp, jit, result>>
  BY DEF Go, Comparing
<1>2. TypeOK'
  BY <1>1 DEF Inv, TypeOK, Comparing
<1>3. StageInv'
  BY <1>1 DEF Inv, StageInv, BeforeVerify, BeforeRun, Running, Comparing
<1>4. ComparedInv'
  BY <1>1 DEF ComparedInv
<1>5. NoFalseAlarm' /\ SuccessMeansSame' /\ RunOnlyVerified'
  BY <1>1 DEF Inv, NoFalseAlarm, SuccessMeansSame, RunOnlyVerified
<1>6. QED
  BY <1>2, <1>3, <1>4, <1>5 DEF Inv

(* An observable in which the two outcomes differ: the engines differ.     *)
LEMMA Blame ==
  ASSUME Inv, pc \in Comparing, interp # jit
  PROVE  program.interp # program.jit
  BY DEF Inv, StageInv

-----------------------------------------------------------------------------
(* run_executable.                                                         *)

(* The interpreter has run.                                                *)
LEMMA InterpretInv == Inv /\ Interpret => Inv'
<1> SUFFICES ASSUME Inv, Interpret PROVE Inv'
  OBVIOUS
<1>1. /\ pc = "interpret" /\ pc' = "compile" /\ interp' = program.interp[memory]
      /\ UNCHANGED <<entry, skip_verify, memory, program, jit, result>>
  BY DEF Interpret, Go
<1>2. TypeOK /\ jit = NotRun /\ result = "none" /\ (program.verifies \/ skip_verify)
  BY <1>1 DEF Inv, StageInv, BeforeRun
<1>3. interp' \in Outcomes
  BY <1>1, <1>2, RunOutcome
<1>4. TypeOK'
  BY <1>1, <1>2, <1>3 DEF TypeOK
<1>5. StageInv' /\ ComparedInv'
  BY <1>1, <1>2 DEF StageInv, ComparedInv, BeforeVerify, BeforeRun, Running, Comparing
<1>6. NoFalseAlarm' /\ SuccessMeansSame' /\ RunOnlyVerified'
  BY <1>1, <1>2 DEF NoFalseAlarm, SuccessMeansSame, RunOnlyVerified
<1>7. QED
  BY <1>4, <1>5, <1>6 DEF Inv

(* The JIT has run, on the same memory as the interpreter.                 *)
LEMMA RunJitInv == Inv /\ RunJit => Inv'
<1> SUFFICES ASSUME Inv, RunJit PROVE Inv'
  OBVIOUS
<1>1. /\ pc = "run_jit" /\ pc' = "compare_res" /\ jit' = program.jit[memory]
      /\ UNCHANGED <<entry, skip_verify, memory, program, interp, result>>
  BY DEF RunJit, Go
<1>2. /\ TypeOK /\ interp = program.interp[memory] /\ result = "none"
      /\ program.verifies \/ skip_verify
  BY <1>1 DEF Inv, StageInv, Running
<1>3. interp \in Outcomes /\ jit' \in Outcomes /\ NotRun \notin Outcomes
  BY <1>1, <1>2, RunOutcome
<1>4. TypeOK'
  BY <1>1, <1>2, <1>3 DEF TypeOK
<1>5. StageInv' /\ ComparedInv'
  BY <1>1, <1>2 DEF StageInv, ComparedInv, BeforeVerify, BeforeRun, Running, Comparing
<1>6. NoFalseAlarm' /\ SuccessMeansSame' /\ RunOnlyVerified'
  BY <1>1, <1>2 DEF NoFalseAlarm, SuccessMeansSame, RunOnlyVerified
<1>7. QED
  BY <1>4, <1>5, <1>6 DEF Inv

(* The results agree: what is compared next depends on them.               *)
LEMMA ResAgreesInv == Inv /\ ResAgrees => Inv'
<1> SUFFICES ASSUME Inv, ResAgrees PROVE Inv'
  OBVIOUS
<1>1. /\ pc \in Comparing /\ interp.res = jit.res /\ UNCHANGED <<interp, jit, result>>
      /\ Go(IF IsOk(interp.res) THEN "compare_rest" ELSE "compare_pc")
  BY DEF ResAgrees, Comparing
<1>2. CASE IsOk(interp.res)
  <2>1. Go("compare_rest")
    BY <1>1, <1>2
  <2>2. QED
    BY <1>1, <2>1, CompareInv
<1>3. CASE ~ IsOk(interp.res)
  <2>1. Go("compare_pc")
    BY <1>1, <1>3
  <2>2. QED
    BY <1>1, <1>3, <2>1, CompareInv
<1>4. QED
  BY <1>2, <1>3

(* All observables agree.                                                  *)
LEMMA RestAgreesInv == Inv /\ RestAgrees => Inv'
<1> SUFFICES ASSUME Inv, RestAgrees PROVE Inv'
  OBVIOUS
<1>1. /\ pc = "compare_rest" /\ UNCHANGED <<interp, jit, result>> /\ Go("compare_pc")
      /\ ~ \E i \in DOMAIN Observables : DiffersFirst(i)
  BY DEF RestAgrees
<1>2. pc \in Comparing /\ interp.res = jit.res
  BY <1>1 DEF Inv, ComparedInv, Comparing
<1>3. \A i \in DOMAIN Observables : interp[Observables[i]] = jit[Observables[i]]
  BY <1>1, NoFirst
<1>4. QED
  BY <1>1, <1>2, <1>3, CompareInv

(* An observable differs.                                                  *)
LEMMA RestDiffersInv == Inv /\ RestDiffers => Inv'
<1> SUFFICES ASSUME Inv, pc = "compare_rest",
                    NEW i \in DOMAIN Observables, DiffersFirst(i), Panic(Observables[i])
             PROVE  Inv'
  BY DEF RestDiffers
<1>1. Observables[i] \in {"remaining", "mem", "stack", "heap"}
  BY DEF Observables
<1>2. pc \in Comparing /\ interp # jit
  BY DEF DiffersFirst, Comparing
<1>3. program.interp # program.jit
  BY <1>2, Blame
<1>4. QED
  BY <1>1, <1>3, PanicInv

(* The pcs agree too.                                                      *)
LEMMA PcAgreesInv == Inv /\ PcAgrees => Inv'
<1> SUFFICES ASSUME Inv, PcAgrees PROVE Inv'
  OBVIOUS
<1>1. pc = "compare_pc" /\ interp.pc = jit.pc /\ Return("Success")
  BY DEF PcAgrees
<1>2. /\ TypeOK /\ interp = program.interp[memory] /\ jit = program.jit[memory]
      /\ interp.res = jit.res
  BY <1>1 DEF Inv, StageInv, ComparedInv, Comparing
<1>3. interp \in Outcome /\ jit \in Outcome
  BY <1>2, RunOutcome
<1>4. ASSUME IsOk(interp.res) PROVE interp = jit
  <2>1. \A i \in DOMAIN Observables : interp[Observables[i]] = jit[Observables[i]]
    BY <1>1, <1>4 DEF Inv, ComparedInv
  <2>2. QED
    BY <1>1, <1>2, <1>3, <2>1, SameOutcome
<1>5. QED
  BY <1>1, <1>4, ReturnInv

-----------------------------------------------------------------------------
(* The theorems.                                                           *)

(* Every step of the oracle keeps the invariant.                           *)
LEMMA NextInv == Inv /\ [Next]_vars => Inv'
<1> SUFFICES ASSUME Inv, [Next]_vars PROVE Inv'
  OBVIOUS
<1>1. CASE AssemblyFails
  BY <1>1, ReturnInv DEF AssemblyFails
<1>2. CASE Assemble
  BY <1>2, MoveInv DEF Assemble, BeforeVerify, BeforeRun, Running
<1>3. CASE VerifyFails
  <2>1. Return("Skipped") \/ Return("VerifyFailed")
    BY <1>3 DEF VerifyFails
  <2>2. QED
    BY <2>1, ReturnInv
<1>4. CASE Verify
  <2>1. AfterVerify \in BeforeRun /\ AfterVerify \notin Running
    BY DEF AfterVerify, BeforeRun, Running
  <2>2. /\ pc = "verify" /\ Go(AfterVerify) /\ UNCHANGED <<interp, jit, result>>
        /\ program.verifies \/ skip_verify
    BY <1>4 DEF Verify
  <2>3. pc \in BeforeVerify /\ pc \notin Running
    BY <2>2 DEF BeforeVerify, Running
  <2>4. QED
    BY <2>1, <2>2, <2>3, MoveInv
<1>5. CASE LoadFails
  BY <1>5, PanicInv DEF LoadFails
<1>6. CASE Load
  <2>1. /\ pc = "load" /\ Go("interpret") /\ UNCHANGED <<interp, jit, result>>
    BY <1>6 DEF Load
  <2>2. program.verifies \/ skip_verify
    BY <2>1 DEF Inv, StageInv, BeforeRun
  <2>3. QED
    BY <2>1, <2>2, MoveInv DEF BeforeRun, Running
<1>7. CASE Interpret
  BY <1>7, InterpretInv
<1>8. CASE CompileFails
  BY <1>8, PanicInv DEF CompileFails
<1>9. CASE Compile
  <2>1. /\ pc = "compile" /\ Go("run_jit") /\ UNCHANGED <<interp, jit, result>>
    BY <1>9 DEF Compile
  <2>2. program.verifies \/ skip_verify
    BY <2>1 DEF Inv, StageInv, Running
  <2>3. QED
    BY <2>1, <2>2, MoveInv DEF Running
<1>10. CASE RunJit
  BY <1>10, RunJitInv
<1>11. CASE ResDiffers
  <2>1. pc \in Comparing /\ interp # jit /\ Panic("res")
    BY <1>11 DEF ResDiffers, Comparing
  <2>2. QED
    BY <2>1, Blame, PanicInv
<1>12. CASE ResAgrees
  BY <1>12, ResAgreesInv
<1>13. CASE RestDiffers
  BY <1>13, RestDiffersInv
<1>14. CASE RestAgrees
  BY <1>14, RestAgreesInv
<1>15. CASE PcDiffers
  <2>1. pc \in Comparing /\ interp # jit /\ Panic("pc")
    BY <1>15 DEF PcDiffers, Comparing
  <2>2. QED
    BY <2>1, Blame, PanicInv
<1>16. CASE PcAgrees
  BY <1>16, PcAgreesInv
<1>17. CASE UNCHANGED vars
  BY <1>17 DEF vars, Inv, TypeOK, StageInv, ComparedInv, NoFalseAlarm, SuccessMeansSame,
               RunOnlyVerified, DiffersFirst
<1>18. QED
  BY <1>1, <1>2, <1>3, <1>4, <1>5, <1>6, <1>7, <1>8, <1>9, <1>10, <1>11, <1>12, <1>13,
     <1>14, <1>15, <1>16, <1>17 DEF Next

(* The invariant holds of every state of every call of the oracle.         *)
THEOREM Invariance == Spec => []Inv
<1>1. QED
  BY InitInv, NextInv, PTL DEF Spec

(* The outcomes that are compared are there when they are compared.        *)
THEOREM TypeCorrect == Spec => []TypeOK
<1>1. Inv => TypeOK
  BY DEF Inv
<1>2. QED
  BY Invariance, <1>1, PTL

(* Whatever the engines do with whatever memory, the oracle panics only if *)
(* they differ, or the program does not load or compile                    *)
(* (executor.rs:42-139).                                                   *)
THEOREM AlarmsAreTrue == Spec => []NoFalseAlarm
<1>1. Inv => NoFalseAlarm
  BY DEF Inv
<1>2. QED
  BY Invariance, <1>1, PTL

(* A success after a normal end is never a difference overlooked.          *)
THEOREM SuccessIsAgreement == Spec => []SuccessMeansSame
<1>1. Inv => SuccessMeansSame
  BY DEF Inv
<1>2. QED
  BY Invariance, <1>1, PTL

(* No entry point gets round the verifier but by --no-verify.              *)
THEOREM OnlyVerifiedRuns == Spec => []RunOnlyVerified
<1>1. Inv => RunOnlyVerified
  BY DEF Inv
<1>2. QED
  BY Invariance, <1>1, PTL

-----------------------------------------------------------------------------
(* Refinement of DiffOracle.                                               *)

(* An oracle that is about to run a program has one that is built, and one *)
(* that is about to compare has had it compiled; the rest is compared only *)
(* after a normal end.                                                     *)
BuiltInv ==
  /\ pc = "verify" /\ entry # "run_diff" => program.builds
  /\ pc \in {"interpret"} \cup Running \cup Comparing => program.builds
  /\ pc \in {"run_jit"} \cup Comparing => program.compiles
  /\ pc = "compare_rest" => IsOk(interp.res)

LEMMA BuiltInit == Init => BuiltInv
  BY DEF Init, BuiltInv, Running, Comparing

(* Only an action that has asked goes on.                                  *)
LEMMA BuiltNext == BuiltInv /\ [Next]_vars => BuiltInv'
<1> SUFFICES ASSUME BuiltInv, [Next]_vars PROVE BuiltInv'
  OBVIOUS
<1> USE DEF BuiltInv, Running, Comparing, Go
<1>1. CASE AssemblyFails \/ VerifyFails \/ LoadFails \/ CompileFails
  BY <1>1 DEF AssemblyFails, VerifyFails, LoadFails, CompileFails, Return, Panic
<1>2. CASE Assemble \/ Verify \/ Load
  BY <1>2 DEF Assemble, Verify, Load, AfterVerify
<1>3. CASE Interpret \/ Compile \/ RunJit
  BY <1>3 DEF Interpret, Compile, RunJit
<1>4. CASE ResDiffers \/ RestDiffers \/ PcDiffers \/ PcAgrees
  BY <1>4 DEF ResDiffers, RestDiffers, PcDiffers, PcAgrees, Return, Panic
<1>5. CASE ResAgrees \/ RestAgrees
  BY <1>5 DEF ResAgrees, RestAgrees
<1>6. CASE UNCHANGED vars
  BY <1>6 DEF vars
<1>7. QED
  BY <1>1, <1>2, <1>3, <1>4, <1>5, <1>6 DEF Next

(* A step that leaves the oracle undecided is none of the abstract one.    *)
LEMMA StillUndecided ==
  ASSUME {pc, pc'} \cap {"returned", "panicked"} = {},
         UNCHANGED <<entry, skip_verify, memory, program>>
  PROVE  UNCHANGED <<Oracle!asked, Verdict>>
  BY DEF Verdict, Oracle!asked

(* A panic, or a return, is an answer.                                     *)
LEMMA PanicAnswers ==
  ASSUME pc \notin {"returned", "panicked"}, NEW why, Panic(why)
  PROVE  Oracle!Answer(IF why \in {"LoadFailed", "JitFailed"} THEN "failed" ELSE "differ")
  BY DEF Panic, Go, Verdict, Oracle!asked, Oracle!Answer

LEMMA ReturnAnswers ==
  ASSUME pc \notin {"returned", "panicked"}, NEW r, Return(r)
  PROVE  Oracle!Answer(IF r = "Success" THEN "agree" ELSE "rejected")
  BY DEF Return, Go, Verdict, Oracle!asked, Oracle!Answer

(* While it compares, it has admitted the program, and both outcomes are   *)
(* those of the engines.                                                   *)
LEMMA Compared ==
  ASSUME Inv, BuiltInv, pc \in Comparing
  PROVE  /\ Oracle!Admitted /\ program.builds /\ program.compiles
         /\ interp = program.interp[memory] /\ jit = program.jit[memory]
         /\ interp \in Outcome /\ jit \in Outcome
<1>1. /\ program.verifies \/ skip_verify
      /\ interp = program.interp[memory] /\ jit = program.jit[memory]
  BY DEF Inv, StageInv, BeforeRun, Running, Comparing
<1>2. interp \in Outcome /\ jit \in Outcome
  BY <1>1, RunOutcome DEF Inv
<1>3. QED
  BY <1>1, <1>2 DEF Oracle!Admitted, BuiltInv

(* A difference found is a difference to the abstract oracle.              *)
LEMMA DifferenceAnswered ==
  ASSUME Inv, BuiltInv, pc \in Comparing,
         NEW why \in {"res", "remaining", "mem", "stack", "heap", "pc"}, Panic(why),
         ~ Oracle!Agree(interp, jit)
  PROVE  Oracle!Next
<1>1. Oracle!Answer("differ")
  BY PanicAnswers DEF Comparing
<1>2. QED
  BY <1>1, Compared DEF Oracle!Next, Oracle!Compare

(* Every step of the oracle is one of the abstract oracle, or stutters.    *)
LEMMA NextRefines ==
  Inv /\ BuiltInv /\ [Next]_vars => [Oracle!Next]_<<Oracle!asked, Verdict>>
<1> SUFFICES ASSUME Inv, BuiltInv, [Next]_vars
             PROVE  Oracle!Next \/ UNCHANGED <<Oracle!asked, Verdict>>
  OBVIOUS
<1>1. CASE AssemblyFails
  <2>1. Oracle!Answer("rejected") /\ ~ program.builds
    BY <1>1, ReturnAnswers DEF AssemblyFails
  <2>2. QED
    BY <2>1 DEF Oracle!Next, Oracle!Reject
<1>2. CASE VerifyFails
  <2>1. PICK r \in {"Skipped", "VerifyFailed"} : Return(r)
    BY <1>2 DEF VerifyFails
  <2>2. Oracle!Answer("rejected") /\ ~ Oracle!Admitted
    BY <1>2, <2>1, ReturnAnswers DEF VerifyFails, Oracle!Admitted
  <2>3. QED
    BY <2>2 DEF Oracle!Next, Oracle!Reject
<1>3. CASE LoadFails
  <2>1. Oracle!Answer("failed") /\ ~ program.builds
    BY <1>3, PanicAnswers DEF LoadFails
  <2>2. Oracle!Admitted
    BY <1>3 DEF LoadFails, Inv, StageInv, BeforeRun, Oracle!Admitted
  <2>3. QED
    BY <2>1, <2>2 DEF Oracle!Next, Oracle!Fail
<1>4. CASE CompileFails
  <2>1. Oracle!Answer("failed") /\ ~ program.compiles
    BY <1>4, PanicAnswers DEF CompileFails
  <2>2. Oracle!Admitted
    BY <1>4 DEF CompileFails, Inv, StageInv, Running, Oracle!Admitted
  <2>3. QED
    BY <2>1, <2>2 DEF Oracle!Next, Oracle!Fail
<1>5. CASE Assemble \/ Verify \/ Load
  BY <1>5, StillUndecided DEF Assemble, Verify, Load, AfterVerify, Go
<1>6. CASE Interpret \/ Compile \/ RunJit
  BY <1>6, StillUndecided DEF Interpret, Compile, RunJit, Go
<1>7. CASE ResAgrees \/ RestAgrees
  BY <1>7, StillUndecided DEF ResAgrees, RestAgrees, Go
<1>8. CASE ResDiffers
  <2>1. pc \in Comparing /\ Panic("res") /\ ~ Oracle!Agree(interp, jit)
    BY <1>8 DEF ResDiffers, Comparing, Oracle!Agree
  <2>2. QED
    BY <2>1, DifferenceAnswered
<1>9. CASE RestDiffers
  <2>1. PICK i \in DOMAIN Observables : DiffersFirst(i) /\ Panic(Observables[i])
    BY <1>9 DEF RestDiffers
  <2>2. Observables[i] \in {"remaining", "mem", "stack", "heap"}
    BY DEF Observables
  <2>3. pc = "compare_rest" /\ IsOk(interp.res) /\ interp # jit
    BY <1>9, <2>1 DEF RestDiffers, DiffersFirst, BuiltInv
  <2>4. pc \in Comparing /\ ~ Oracle!Agree(interp, jit)
    BY <2>3 DEF Comparing, Oracle!Agree
  <2>5. QED
    BY <2>1, <2>2, <2>4, DifferenceAnswered
<1>10. CASE PcDiffers
  <2>1. pc \in Comparing /\ Panic("pc") /\ ~ Oracle!Agree(interp, jit)
    BY <1>10 DEF PcDiffers, Comparing, Oracle!Agree
  <2>2. QED
    BY <2>1, DifferenceAnswered
<1>11. CASE PcAgrees
  <2>1. pc = "compare_pc" /\ pc \in Comparing /\ interp.pc = jit.pc /\ Return("Success")
    BY <1>11 DEF PcAgrees, Comparing
  <2>2. interp.res = jit.res
    BY <2>1 DEF Inv, ComparedInv
  <2>3. ASSUME IsOk(interp.res) PROVE interp = jit
    BY <2>1, <2>2, <2>3, Compared, SameOutcome DEF Inv, ComparedInv
  <2>4. Oracle!Agree(interp, jit)
    BY <2>1, <2>2, <2>3 DEF Oracle!Agree
  <2>5. Oracle!Answer("agree")
    BY <2>1, ReturnAnswers
  <2>6. QED
    BY <2>1, <2>4, <2>5, Compared DEF Oracle!Next, Oracle!Compare
<1>12. CASE UNCHANGED vars
  BY <1>12 DEF vars, Verdict, Oracle!asked
<1>13. QED
  BY <1>1, <1>2, <1>3, <1>4, <1>5, <1>6, <1>7, <1>8, <1>9, <1>10, <1>11, <1>12 DEF Next

(* The oracle gives one answer, the right one for the engines and the      *)
(* memory, and keeps to it, whatever the engines and the program are       *)
(* (executor.rs:42-139, 145-239).                                          *)
THEOREM OracleImplemented == Spec => ImplementsOracle
<1>1. Init => Oracle!Init
  BY DEF Init, Oracle!Init, Verdict
<1>2. QED
  BY <1>1, Invariance, BuiltInit, BuiltNext, NextRefines, PTL
     DEF Spec, ImplementsOracle, Oracle!Spec
=============================================================================
