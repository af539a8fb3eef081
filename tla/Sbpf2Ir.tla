------------------------------ MODULE Sbpf2Ir ------------------------------
(***************************************************************************)
(* sbpf2ir() of src/ir.rs: the translation of an assembly text into an     *)
(* IrSeq.  One step is one iteration of the loop over the lines.  A line   *)
(* is blank, a label, or an instruction; of an instruction the model keeps *)
(* the mnemonic and, for a jump written with a number, its offset.  A node *)
(* also carries the number of the line it came from: a history field that  *)
(* no guard reads.                                                         *)
(***************************************************************************)
EXTENDS Integers, FiniteSets, IrSeq

CONSTANT Texts           \* the assembly texts that may be translated

Blank         == [kind |-> "blank", name |-> NoName, op |-> "",  off |-> 0]
Label(name)   == [kind |-> "label", name |-> name,   op |-> "",  off |-> 0]
Ins(op, off)  == [kind |-> "ins",   name |-> NoName, op |-> op,  off |-> off]

Ops == Terminators \cup {"", "other"}

Line ==
  {line \in [kind : {"blank", "label", "ins"}, name : Name, op : Ops, off : Int] :
     line \in {Blank, Label(line.name), Ins(line.op, line.off)}}

Node == [op : Ops, off : Int, line : Nat]

ASSUME TextsAssumption == Texts \subseteq Seq(Line)

VARIABLES
  text,              \* the source text
  pos,               \* the next line of the `for line in code.lines()` loop
  ir_seq,            \* the IrSeq under construction
  need_new_region    \* the next instruction must open a region of its own

vars == <<text, pos, ir_seq, need_new_region>>

TypeOK ==
  /\ text \in Texts
  /\ pos \in 1 .. Len(text) + 1
  /\ ir_seq \in IrSeqOf(Node)
  /\ ir_seq.current_region \in DOMAIN ir_seq.regions
  /\ need_new_region \in BOOLEAN

Init ==
  /\ text \in Texts
  /\ pos = 1
  /\ ir_seq = New("V0")
  /\ need_new_region = FALSE

NodeOf(line) == [op |-> text[line].op, off |-> text[line].off, line |-> line]

AtLine(kind) ==
  /\ pos <= Len(text)
  /\ text[pos].kind = kind
  /\ pos' = pos + 1
  /\ UNCHANGED text

SkipBlank ==
  /\ AtLine("blank")
  /\ UNCHANGED <<ir_seq, need_new_region>>

(* Mutant: need_new_region stays set.                                      *)
ReadLabelKeepsFlag ==
  /\ AtLine("label")
  /\ ir_seq' = ChangeRegion(ir_seq, text[pos].name)
  /\ UNCHANGED need_new_region

(* Mutant: the region due after a terminator swallows the label.           *)
ReadLabelLosesName ==
  /\ AtLine("label")
  /\ ir_seq' = ChangeRegion(ir_seq, IF need_new_region THEN NoName ELSE text[pos].name)
  /\ need_new_region' = FALSE

ReadLabel ==
  /\ AtLine("label")
  /\ ir_seq' = ChangeRegion(ir_seq, text[pos].name)
  /\ need_new_region' = FALSE

(* Mutant: an exit does not end its region.                                *)
EndsRegionNotExit(op) == op \in Terminators \ {"exit"}

EndsRegion(op) == op \in Terminators

(* Mutant: the instruction that opens a region is dropped.                 *)
ReadInstructionDrops ==
  /\ AtLine("ins")
  /\ ir_seq' = IF need_new_region THEN ChangeRegion(ir_seq, NoName)
                                  ELSE AddNode(ir_seq, NodeOf(pos))
  /\ need_new_region' = EndsRegion(text[pos].op)

(* The region that the instruction at pos is added to is opened first when *)
(* the previous instruction was a branch, a jump or an exit.               *)
ReadInstruction ==
  /\ AtLine("ins")
  /\ ir_seq' = AddNode(IF need_new_region THEN ChangeRegion(ir_seq, NoName)
                                          ELSE ir_seq,
                       NodeOf(pos))
  /\ need_new_region' = EndsRegion(text[pos].op)

Done == pos > Len(text)

(* A place of the IR is a region and an index into its nodes.  Places are  *)
(* ordered as Display runs through them: lexicographically.                *)
Before(r, i, s, j) == r < s \/ (r = s /\ i < j)

Rank(S, p) == Cardinality({q \in S : Before(q[1], q[2], p[1], p[2])})

InOrder(S) == [k \in 1 .. Cardinality(S) |-> CHOOSE p \in S : Rank(S, p) = k - 1]

Places(ir) ==
  UNION {{<<r, i>> : i \in DOMAIN ir.regions[r].nodes} : r \in DOMAIN ir.regions}

(* Display for IrSeq writes the nodes of each region, and before them, as  *)
(* if at index 0, its label: of a region without nodes there is neither.   *)
LinesShown(ir) ==
  Places(ir) \cup {<<r, 0>> : r \in {q \in DOMAIN ir.regions : LabelShown(ir, q)}}

LineShown(ir, p) ==
  LET region == ir.regions[p[1]]
  IN  IF p[2] = 0 THEN Label(region.id)
      ELSE Ins(region.nodes[p[2]].op, region.nodes[p[2]].off)

Display(ir) ==
  LET shown == InOrder(LinesShown(ir))
  IN  [k \in DOMAIN shown |-> LineShown(ir, shown[k])]

Next == SkipBlank \/ ReadLabel \/ ReadInstruction

Spec == Init /\ [][Next]_vars

-----------------------------------------------------------------------------
(* Texts by how they use labels.                                           *)

LabelLines == {l \in DOMAIN text : text[l].kind = "label"}
InsLines   == {l \in DOMAIN text : text[l].kind = "ins"}
Written    == {l \in DOMAIN text : text[l].kind # "blank"}

(* No label has the form of a generated id.                                *)
NoReservedLabels == \A l \in LabelLines : text[l].name.stem # "__region_"

(* Moreover every label is a proper name, and none is given twice.  The    *)
(* texts of the templates and of the disassembler are of this kind.        *)
FreshLabels ==
  /\ NoReservedLabels
  /\ \A l \in LabelLines : text[l].name # NoName
  /\ \A l, m \in LabelLines : text[l].name = text[m].name => l = m

(* Every label has an instruction of its own: the next label comes later.  *)
LabelsHeadCode ==
  \A l \in LabelLines :
    \E i \in InsLines : i > l /\ \A m \in LabelLines : m <= l \/ m > i

-----------------------------------------------------------------------------
(* Properties.                                                             *)

Regions == ir_seq.regions

Nodes(r) == Regions[r].nodes

(* The translation drops and duplicates nothing: each instruction read so  *)
(* far has a place, no two places hold the same line, and a place holds    *)
(* the instruction of its line (ir.rs:108-151 through every change_region, *)
(* whatever labels the text uses).                                         *)
EveryInstructionOnce ==
  /\ \A l \in InsLines : l < pos =>
       \E r \in DOMAIN Regions : \E i \in DOMAIN Nodes(r) : Nodes(r)[i] = NodeOf(l)
  /\ \A r \in DOMAIN Regions : \A i \in DOMAIN Nodes(r) :
       /\ Nodes(r)[i].line \in InsLines
       /\ Nodes(r)[i].line < pos
       /\ Nodes(r)[i] = NodeOf(Nodes(r)[i].line)
  /\ \A r, s \in DOMAIN Regions : \A i \in DOMAIN Nodes(r), j \in DOMAIN Nodes(s) :
       Nodes(r)[i].line = Nodes(s)[j].line => r = s /\ i = j

(* The IR keeps the text's order, on which every numeric jump offset and   *)
(* every fall-through depends (ir.rs:63-74: current_region moves backwards *)
(* only when a label is given again).                                      *)
ProgramOrder ==
  FreshLabels =>
    \A r, s \in DOMAIN Regions : \A i \in DOMAIN Nodes(r), j \in DOMAIN Nodes(s) :
      Before(r, i, s, j) => Nodes(r)[i].line < Nodes(s)[j].line

(* No two regions share a name.  generated_ids is not saved, so after a    *)
(* reload every region name is written as a label, and the labels of the   *)
(* reloaded text are distinct only because the names are (ir.rs:29,83).    *)
IdsUnique ==
  NoReservedLabels =>
    \A r, s \in DOMAIN Regions : Regions[r].id = Regions[s].id => r = s

(* Regions are split at branches, jumps, exits and labels and nowhere      *)
(* else: a terminator is the last node of its region, and a region without *)
(* a label of its own follows a terminator (ir.rs:125-128,145-147).        *)
RegionsSplitAtTerminators ==
  FreshLabels =>
    /\ \A r \in DOMAIN Regions : \A i \in DOMAIN Nodes(r) :
         Nodes(r)[i].op \in Terminators => i = Len(Nodes(r))
    /\ \A r \in DOMAIN Regions :
         r > 1 /\ Regions[r].id \in ir_seq.generated_ids =>
           Nodes(r-1) # <<>> /\ Last(Nodes(r-1)).op \in Terminators

(* Displaying the finished IR gives the source text back, line for line    *)
(* but for blank lines: labels stay on the instruction they named and the  *)
(* invented region names do not show (ir.rs:77-92 undoes ir.rs:108-151).   *)
RoundTrip ==
  Done /\ FreshLabels /\ LabelsHeadCode =>
    /\ Len(Display(ir_seq)) = Cardinality(Written)
    /\ \A l \in Written :
         Display(ir_seq)[Cardinality({m \in Written : m <= l})] = text[l]

(* The IR of a fresh text means what the text means (AsmText): read region *)
(* after region it is the sequence of the instructions read, and a label   *)
(* stands for the first instruction after the start of its region.  Every  *)
(* step of the translation is a step of AsmText: nothing already placed is *)
(* ever moved and no label is ever rebound (ir.rs:108-151).  FreshLabels   *)
(* does not change along the way, so this is FreshLabels => Asm!Spec.      *)
Code ==
  LET order == InOrder(Places(ir_seq))
  IN  [k \in DOMAIN order |-> Nodes(order[k][1])[order[k][2]].line]

NodesBefore(r) == Cardinality({p \in Places(ir_seq) : p[1] < r})

Labels ==
  {[name |-> Regions[r].id, at |-> NodesBefore(r) + 1] :
     r \in {q \in DOMAIN Regions : Regions[q].id \notin ir_seq.generated_ids}}

Asm == INSTANCE AsmText WITH code <- Code, labels <- Labels

ImplementsAsmText ==
  /\ FreshLabels => Asm!Init
  /\ [][FreshLabels => [Asm!Next]_<<text, pos, Code, Labels>>]_vars
=============================================================================
