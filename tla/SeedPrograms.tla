---------------------------- MODULE SeedPrograms ----------------------------
(***************************************************************************)
(* Every seed that the tool writes, run.  Which programs there are is      *)
(* translated from gen_pqr.rs, gen_corpus.rs, gen_jit_stress.rs and        *)
(* main.rs (PqrCorpus, CorpusTexts, JitStress); how one runs is the        *)
(* machine of solana_sbpf, which is external: one action for each class of *)
(* instructions.  A verdict of its verifier counts as a way to stop.       *)
(***************************************************************************)
EXTENDS CorpusTexts, PqrCorpus, JitStress, Alu

CONSTANTS
  StressVersions,   \* the versions the templates are asked for
  MaxDepth          \* nested calls; 64 in solana_sbpf

ASSUME MachineAssumption ==
  StressVersions \subseteq Versions /\ MaxDepth \in Nat /\ MaxDepth >= 6

VARIABLES
  prog,      \* the seed
  code,      \* its slots
  pc,        \* the slot to run next
  frames,    \* where to return to
  regs,      \* r0 and r1
  status     \* "running", "exited", or what stopped it

vars == <<prog, code, pc, frames, regs, status>>

(* A value is a 64-bit number, the address of the input memory, or not     *)
(* followed.                                                               *)
Unknown == -1
Input   == -2

Faults == {"outside the text", "unsupported", "call depth", "unresolved", "access",
           "by zero", "overflow", "shift"}

AllPrograms ==
  PqrPrograms \cup GeneralCorpus \cup Demos \cup MemoryPatterns("V0")
  \cup UNION {StressPrograms(version) : version \in StressVersions}

HeadSlots == {h.slot : h \in Heads(prog.text)}

SlotOf(name) == (CHOOSE h \in Heads(prog.text) : h.name = name).slot

Init ==
  /\ prog \in AllPrograms
  /\ code = Slots(prog.text)
  /\ pc = IF \E h \in Heads(prog.text) : h.name = Entrypoint THEN SlotOf(Entrypoint) ELSE 0
  /\ frames = <<>>
  /\ regs = [r \in 0 .. 1 |-> IF r = 1 THEN Input ELSE 0]
  /\ status = "running"

-----------------------------------------------------------------------------
Here == code[pc + 1]

InText == pc \in 0 .. Len(code) - 1

(* What the verifier does not take in a version: PQR and hor64 exist in V2 *)
(* only, which has neither the old multiplication and division nor lddw.   *)
Lacking(version) == IF version = "V2" THEN OldOps \cup {"lddw"} ELSE PqrOps \cup {"hor"}

Supported == Here.op \notin Lacking(prog.version) \cup {Half.op}

On(ops) == status = "running" /\ InText /\ Supported /\ Here.op \in ops

Stop(why) == status' = why /\ UNCHANGED <<prog, code, pc, frames, regs>>

Goto(slot) == pc' = slot /\ UNCHANGED <<prog, code, status>>

LeaveText == status = "running" /\ ~ InText /\ Stop("outside the text")

Unsupported == status = "running" /\ InText /\ ~ Supported /\ Stop("unsupported")

Unresolved == On({"syscall"}) /\ Stop("unresolved")

DataStep == On({"other"}) /\ Goto(pc + 1) /\ UNCHANGED <<frames, regs>>

Branch ==
  /\ On({"jeq", "ja"})
  /\ \/ Goto(pc + 1 + Here.off)
     \/ Here.op = "jeq" /\ Goto(pc + 1)
  /\ UNCHANGED <<frames, regs>>

Return ==
  /\ On({"exit"})
  /\ IF frames = <<>>
       THEN Stop("exited")
       ELSE Goto(Last(frames)) /\ frames' = Front(frames) /\ UNCHANGED regs

Callee ==
  CASE Here.op = "callx"   -> Here.imm
    [] Here.name # NoName  -> SlotOf(Here.name)
    [] OTHER               -> pc + 1 + Here.off

TooDeep(n) == n >= MaxDepth

DoCall ==
  /\ On({"call", "callx"})
  /\ IF TooDeep(Len(frames))
       THEN Stop("call depth")
       ELSE /\ Goto(Callee)
            /\ frames' = Append(frames, pc + 1)
            /\ UNCHANGED regs

(* An access by r1 goes anywhere once r1 has been loaded over.             *)
Access ==
  /\ On({"mem"})
  /\ LET based  == Here.src = 1 => regs[1] = Input
         inside == Here.off >= 0 /\ Here.off + Here.size <= prog.mem
     IN  \/ (~ based \/ ~ inside) /\ Stop("access")
         \/ /\ ~ based \/ inside
            /\ Goto(pc + 1)
            /\ regs' = IF Here.dst \in DOMAIN regs THEN [regs EXCEPT ![Here.dst] = Unknown]
                                                   ELSE regs
            /\ UNCHANGED frames

Known(v) == v \in 0 .. U64Max

(* Values that stand for one that is not followed.                         *)
Possible(v) == IF Known(v) THEN {v} ELSE {0, 1, 2 ^ (W - 1), 2 ^ (2 * W - 1), U64Max}

Value(r) == IF r \in DOMAIN regs THEN regs[r] ELSE Unknown

Operand == IF Here.src = Imm THEN Immediate(Here.op, Here.w, Here.imm) ELSE Value(Here.src)

Moves == {"mov", "lddw"}

MoveStep ==
  /\ On(Moves)
  /\ Goto(pc + IF Here.op = "lddw" THEN 2 ELSE 1)
  /\ regs' = IF Here.dst \in DOMAIN regs THEN [regs EXCEPT ![Here.dst] = Unsigned(Here.w, Operand)]
                                         ELSE regs
  /\ UNCHANGED frames

Ops == OldOps \cup PqrOps \cup Shifts \cup {"hor"}

Compute(a, b) ==
  /\ Goto(pc + 1)
  /\ regs' = IF Here.dst \notin DOMAIN regs THEN regs
             ELSE [regs EXCEPT ![Here.dst] =
                     IF Known(Value(Here.dst)) /\ Known(Operand)
                       THEN Result(Here.op, Here.w, a, b) ELSE Unknown]
  /\ UNCHANGED frames

AluStep ==
  /\ On(Ops)
  /\ \E a \in Possible(Value(Here.dst)), b \in Possible(Operand) :
       IF DividesByZero(Here.op, Here.w, b) THEN Stop("by zero")
       ELSE IF Overflows(Here.op, Here.w, a, b) THEN Stop("overflow")
       ELSE IF Here.op \in Shifts /\ Here.src = Imm /\ Here.imm \notin 0 .. Bits(Here.w) - 1
         THEN Stop("shift")
       ELSE Compute(a, b)

Next ==
  \/ LeaveText \/ Unsupported \/ Unresolved \/ DataStep \/ Branch \/ Return \/ DoCall
  \/ Access \/ MoveStep \/ AluStep

Spec == Init /\ [][Next]_vars /\ WF_vars(Next)

-----------------------------------------------------------------------------
(* Properties.                                                             *)

(* Nothing stops a seed but what its name announces: jumps land in the     *)
(* text and never inside an lddw, accesses stay in the memory that is      *)
(* saved with it, operations are of its version, no divisor can be 0, no   *)
(* quotient overflows, no shift is too wide, calls are not too deep.  Only *)
(* the memory template may lose its base (gen_jit_stress.rs:31-33, 74-76, 114-116, 228, 243, 275-286, 300-301; *)
(* gen_corpus.rs:679-1034, 1253-1264; gen_pqr.rs:42-63).                   *)
FaultsOnlyAsNamed ==
  status \in Faults =>
    \/ prog.says \in {"fails", "nothing"}
    \/ prog.says = "memory" /\ regs[1] # Input

(* A program that is named for its failure never gets to a normal end, on  *)
(* whichever path (gen_pqr.rs:153-203, gen_corpus.rs:435-446, 797-886,     *)
(* 1184-1190, 1205-1242, 1284-1303, 1457-1469, 1498-1510).                 *)
FailuresFail == prog.says = "fails" => status # "exited"

(* Both programs of a case compute what the operation gives on the case's  *)
(* two values: loading in two halves puts them in the registers, and the   *)
(* immediate stands for the same operand as r1 (gen_pqr.rs:11-66, 70-149). *)
CasesCompute ==
  status = "exited" /\ prog.case # NoCase =>
    regs[0] = Result(prog.case[1], prog.case[2], prog.case[3], prog.case[4])

(* A function is entered at its head and by a call, and a call, be it by a *)
(* number that somebody has worked out by hand, leads to a head            *)
(* (gen_corpus.rs:784-795, 923-941, 1369-1379; gen_jit_stress.rs:130-201). *)
FunctionsEnteredAtHead ==
  [][prog.says \in {"runs", "loops"} /\ pc' # pc =>
       (pc' \in HeadSlots <=> Here.op \in {"call", "callx"})]_vars

(* Every seed whose length does not hang on data comes to an end: no jump  *)
(* back, no call in a circle (gen_corpus.rs:679-710, 978-1034;             *)
(* gen_jit_stress.rs:130-201).                                             *)
EverySeedEnds == prog.says \in {"runs", "memory"} ~> status # "running"

(* What the memory template says it does: "stores and loads at various     *)
(* offsets within our memory region" (gen_jit_stress.rs:213).              *)
StaysInRegion == prog.says = "memory" => status # "access"
=============================================================================
