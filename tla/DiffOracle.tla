----------------------------- MODULE DiffOracle -----------------------------
(***************************************************************************)
(* What the differential oracle promises, whatever it does in between: one *)
(* verdict on a program, which depends on nothing but what the two engines *)
(* do with one and the same memory.  The abstract specification of         *)
(* Executor.                                                               *)
(***************************************************************************)
VARIABLES
  entry, skip_verify, memory, program,   \* the question, as in Executor
  verdict                                \* "pending" until it is answered

asked == <<entry, skip_verify, memory, program>>

CONSTANT IsOk(_)    \* did a result end the program normally?

(* An error leaves the rest of the state unspecified: only where the two   *)
(* stopped, and how, has to agree.                                         *)
Agree(i, j) == i.res = j.res /\ i.pc = j.pc /\ (IsOk(i.res) => i = j)

Admitted == program.verifies \/ skip_verify

Answer(v) == verdict = "pending" /\ verdict' = v /\ UNCHANGED asked

(* An answer without running anything.                                     *)
Reject == (~ Admitted \/ ~ program.builds) /\ Answer("rejected")

(* It should have run, but there is nothing to compare.                    *)
Fail == Admitted /\ ~ (program.builds /\ program.compiles) /\ Answer("failed")

Compare ==
  /\ Admitted /\ program.builds /\ program.compiles
  /\ Answer(IF Agree(program.interp[memory], program.jit[memory])
              THEN "agree" ELSE "differ")

Next == Reject \/ Fail \/ Compare

Init == verdict = "pending"

Spec == Init /\ [][Next]_<<asked, verdict>>
=============================================================================
