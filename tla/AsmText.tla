------------------------------ MODULE AsmText ------------------------------
(***************************************************************************)
(* What an assembly text means to whoever assembles it: reading it from    *)
(* the top, its instructions form one sequence, and a label stands for the *)
(* index of the instruction that follows it.  This is the abstract         *)
(* specification of the translation in Sbpf2Ir: the IR must carry exactly  *)
(* this, however it cuts the text into regions.                            *)
(***************************************************************************)
EXTENDS Naturals, Sequences

CONSTANT Texts

VARIABLES
  text, pos,     \* the text and the next line to read
  code,          \* line numbers of the instructions read, in order
  labels         \* [name, at]: what each label read so far stands for

Init ==
  /\ text \in Texts
  /\ pos = 1
  /\ code = <<>>
  /\ labels = {}

Read(kind) ==
  /\ pos <= Len(text)
  /\ text[pos].kind = kind
  /\ pos' = pos + 1
  /\ UNCHANGED text

Skip == Read("blank") /\ UNCHANGED <<code, labels>>

Emit == Read("ins") /\ code' = Append(code, pos) /\ UNCHANGED labels

Bind ==
  /\ Read("label")
  /\ labels' = labels \cup {[name |-> text[pos].name, at |-> Len(code) + 1]}
  /\ UNCHANGED code

Next == Skip \/ Emit \/ Bind

Spec == Init /\ [][Next]_<<text, pos, code, labels>>
=============================================================================
