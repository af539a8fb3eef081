------------------------------- MODULE IrSeq -------------------------------
(***************************************************************************)
(* The intermediate representation of src/ir.rs: an IrSeq is a version and *)
(* an ordered list of regions, each a name and a list of nodes.  The three *)
(* private fields generated_ids, current_region and next_id are the        *)
(* builder's cursor; they are marked #[serde(skip)], so a saved and        *)
(* reloaded IrSeq has lost them.                                           *)
(*                                                                         *)
(* A name is a stem and a number: a generated id (__region_k), a spliced   *)
(* function (function_spliced_k), or a label of the program, which is only *)
(* numbered.  An opcode that no code tells apart from others is "other".   *)
(* The `memory` bytes are carried along untouched by all of the modelled   *)
(* code and are left out.  Region indices start at 1.                      *)
(***************************************************************************)
EXTENDS Naturals, Sequences, SequencesExt

Name == [stem : {"", "label_", "__region_", "function_spliced_"}, n : Nat]

NoName == [stem |-> "", n |-> 0]

ProgramLabel(k) == [stem |-> "label_", n |-> k]

Generated(k) == [stem |-> "__region_", n |-> k]

Region(Node) == [id : Name, nodes : Seq(Node)]

Versions == {"V0", "V1", "V2", "V3", "V4"}

IrSeqOf(Node) ==
  [version        : Versions,
   regions        : Seq(Region(Node)),
   generated_ids  : SUBSET Name,
   current_region : Nat,
   next_id        : Nat]

-----------------------------------------------------------------------------
(* Builder operations.  generate_id hands out the next name and remembers  *)
(* it; only PushGenerated (which uses the name at once) calls it.          *)

(* Mutant: the cursor is the length, one past the last region.             *)
PushRegionPastEnd(ir, name) ==
  [ir EXCEPT !.regions        = Append(@, [id |-> name, nodes |-> <<>>]),
             !.current_region = Len(ir.regions) + 2]

PushRegion(ir, name) ==
  [ir EXCEPT !.regions        = Append(@, [id |-> name, nodes |-> <<>>]),
             !.current_region = Len(ir.regions) + 1]

PushGenerated(ir) ==
  [PushRegion(ir, Generated(ir.next_id)) EXCEPT
             !.generated_ids = @ \cup {Generated(ir.next_id)},
             !.next_id       = @ + 1]

New(version) ==
  PushGenerated([version |-> version, regions |-> <<>>, generated_ids |-> {},
                 current_region |-> 0, next_id |-> 0])

(* Mutant: the node goes to the front of its region.                       *)
AddNodeInFront(ir, node) ==
  [ir EXCEPT !.regions[ir.current_region].nodes = <<node>> \o @]

AddNode(ir, node) ==
  [ir EXCEPT !.regions[ir.current_region].nodes = Append(@, node)]

Defines(ir, name) == \E r \in DOMAIN ir.regions : ir.regions[r].id = name

(* The first region of that name, as Iterator::position finds it.          *)
FirstRegion(ir, name) ==
  CHOOSE r \in DOMAIN ir.regions :
    /\ ir.regions[r].id = name
    /\ \A q \in DOMAIN ir.regions : ir.regions[q].id = name => r <= q

(* Mutant: a known name is pushed again.                                   *)
ChangeRegionNoLookup(ir, name) ==
  IF name = NoName THEN PushGenerated(ir) ELSE PushRegion(ir, name)

ChangeRegion(ir, name) ==
  CASE name = NoName     -> PushGenerated(ir)
    [] name # NoName /\ Defines(ir, name)
                         -> [ir EXCEPT !.current_region = FirstRegion(ir, name)]
    [] OTHER             -> PushRegion(ir, name)

-----------------------------------------------------------------------------
(* What the Display instance and bincode do with an IrSeq.                 *)

Shown(ir) == {r \in DOMAIN ir.regions : ir.regions[r].nodes # <<>>}

LabelShown(ir, r) ==
  /\ r \in Shown(ir)
  /\ ir.regions[r].id \notin ir.generated_ids

(* Serialize, then deserialize: the skipped fields come back as Default.   *)
(* current_region is the index 0 of the first region, 1 here.              *)
Reloaded(ir) ==
  [ir EXCEPT !.generated_ids = {}, !.current_region = 1, !.next_id = 0]

-----------------------------------------------------------------------------
(* The classes of instructions that the translation tells apart.           *)

ConditionalBranches ==
  {"jeq", "jgt", "jge", "jlt", "jle", "jset", "jne",
   "jsgt", "jsge", "jslt", "jsle",
   "jeq32", "jgt32", "jge32", "jlt32", "jle32", "jset32", "jne32",
   "jsgt32", "jsge32", "jslt32", "jsle32"}

UnconditionalJumps == {"ja"}

Terminators == ConditionalBranches \cup UnconditionalJumps \cup {"exit"}
=============================================================================
