---------------------------- MODULE Sbpf2IrProofs ----------------------------
(***************************************************************************)
(* Proofs about Sbpf2Ir, for every set of texts.  First what the builder   *)
(* operations of IrSeq do to an IR whose cursor is in range; then the      *)
(* invariants TypeOK, EveryInstructionOnce, IdsUnique, ProgramOrder and    *)
(* RegionsSplitAtTerminators, the refinement of AsmText, and RoundTrip:    *)
(* that Display undoes the translation.                                    *)
(***************************************************************************)
EXTENDS Sbpf2Ir, FiniteSetTheorems, SequenceTheorems, WellFoundedInduction, TLAPS

Builder == {ir \in IrSeqOf(Node) : ir.current_region \in DOMAIN ir.regions}

(* A non-empty set of numbers has a least element.                         *)
LEMMA Least ==
  ASSUME NEW S \in SUBSET Nat, S # {}
  PROVE  \E n \in S : \A m \in S : n <= m
<1>1. IsWellFoundedOn(OpToRel(<, Nat), Nat)
  BY NatLessThanWellFounded
<1>2. PICK n \in S : \A m \in S : ~ (<<m, n>> \in OpToRel(<, Nat))
  BY <1>1, WFMin
<1>3. ASSUME NEW m \in S, m < n PROVE FALSE
  <2>1. <<m, n>> \in {ss \in Nat \X Nat : ss[1] < ss[2]}
    BY <1>3
  <2>2. <<m, n>> \in OpToRel(<, Nat)
    BY <2>1 DEF OpToRel
  <2>3. QED
    BY <1>2, <2>2
<1>4. QED
  BY <1>3

(* new is ir with an empty region of that name at its end, where the       *)
(* cursor now is; next is the number of the next generated id.             *)
Opens(ir, new, name, next) ==
  /\ new \in Builder
  /\ Len(new.regions) = Len(ir.regions) + 1
  /\ new.current_region = Len(new.regions)
  /\ new.regions[Len(new.regions)] = [id |-> name, nodes |-> <<>>]
  /\ \A r \in DOMAIN ir.regions : new.regions[r] = ir.regions[r]
  /\ new.next_id = next

(* new is ir with the cursor on another region.                            *)
Moves(ir, new) ==
  /\ new \in Builder
  /\ new.regions = ir.regions
  /\ new.next_id = ir.next_id

(* new is ir with one node more at the end of the current region.          *)
Adds(ir, new, node) ==
  /\ new \in Builder
  /\ Len(new.regions) = Len(ir.regions)
  /\ new.current_region = ir.current_region
  /\ new.next_id = ir.next_id
  /\ \A r \in DOMAIN ir.regions : new.regions[r].id = ir.regions[r].id
  /\ \A r \in DOMAIN ir.regions :
       r # ir.current_region => new.regions[r] = ir.regions[r]
  /\ new.regions[ir.current_region].nodes =
       Append(ir.regions[ir.current_region].nodes, node)

LEMMA PushRegionOpens ==
  ASSUME NEW ir \in IrSeqOf(Node), NEW name \in Name
  PROVE  /\ Opens(ir, PushRegion(ir, name), name, ir.next_id)
         /\ PushRegion(ir, name).generated_ids = ir.generated_ids
<1> DEFINE added == [id |-> name, nodes |-> <<>>]
<1> DEFINE new == PushRegion(ir, name)
<1>1. added \in Region(Node) /\ ir.regions \in Seq(Region(Node))
  BY DEF Region, IrSeqOf
<1>2. new.regions = Append(ir.regions, added) /\ new.regions \in Seq(Region(Node))
  BY <1>1 DEF PushRegion, IrSeqOf
<1>3. new \in IrSeqOf(Node)
  <2>1. Len(ir.regions) + 1 \in Nat
    BY <1>1
  <2>2. new = [ir EXCEPT !.regions = new.regions, !.current_region = Len(ir.regions) + 1]
    BY <1>2 DEF PushRegion, IrSeqOf
  <2>3. QED
    BY <1>2, <2>1, <2>2 DEF IrSeqOf
<1>4. /\ new.current_region = Len(ir.regions) + 1
      /\ new.generated_ids = ir.generated_ids
      /\ new.next_id = ir.next_id
  BY DEF PushRegion, IrSeqOf
<1>5. /\ Len(new.regions) = Len(ir.regions) + 1
      /\ new.regions[Len(new.regions)] = added
      /\ \A r \in DOMAIN ir.regions : new.regions[r] = ir.regions[r]
  BY <1>1, <1>2, AppendProperties
<1>6. new.current_region \in DOMAIN new.regions
  BY <1>1, <1>2, <1>4, <1>5
<1>7. QED
  BY <1>3, <1>4, <1>5, <1>6 DEF Builder, Opens

LEMMA PushGeneratedOpens ==
  ASSUME NEW ir \in IrSeqOf(Node)
  PROVE  Opens(ir, PushGenerated(ir), Generated(ir.next_id), ir.next_id + 1)
<1> DEFINE name == Generated(ir.next_id)
<1> DEFINE mid == PushRegion(ir, name)
<1> DEFINE new == PushGenerated(ir)
<1>1. ir.next_id \in Nat /\ name \in Name
  BY DEF IrSeqOf, Generated, Name
<1>2. Opens(ir, mid, name, ir.next_id) /\ mid \in IrSeqOf(Node)
  BY <1>1, PushRegionOpens DEF Opens, Builder
<1> HIDE DEF mid
<1>3. new = [mid EXCEPT !.generated_ids = @ \cup {name}, !.next_id = @ + 1]
  BY DEF PushGenerated, mid
<1>4. new \in IrSeqOf(Node)
  <2>1. /\ mid.generated_ids \cup {name} \in SUBSET Name
        /\ mid.next_id + 1 \in Nat
    BY <1>1, <1>2 DEF IrSeqOf
  <2>2. QED
    BY <1>2, <1>3, <2>1 DEF IrSeqOf
<1>5. /\ new.regions = mid.regions
      /\ new.current_region = mid.current_region
      /\ new.next_id = mid.next_id + 1
  BY <1>2, <1>3 DEF IrSeqOf
<1>6. QED
  BY <1>2, <1>4, <1>5 DEF Opens, Builder

LEMMA NewOpens ==
  /\ New("V0") \in Builder
  /\ Len(New("V0").regions) = 1
  /\ New("V0").current_region = 1
  /\ New("V0").regions[1] = [id |-> Generated(0), nodes |-> <<>>]
  /\ New("V0").next_id = 1
<1> DEFINE blank == [version |-> "V0", regions |-> <<>>, generated_ids |-> {},
                     current_region |-> 0, next_id |-> 0]
<1>1. blank \in IrSeqOf(Node)
  BY DEF IrSeqOf, Versions
<1>2. New("V0") = PushGenerated(blank)
  BY DEF New
<1>3. blank.regions = <<>> /\ blank.next_id = 0
  OBVIOUS
<1> HIDE DEF blank
<1>4. Opens(blank, New("V0"), Generated(0), 1)
  BY <1>1, <1>2, <1>3, PushGeneratedOpens
<1>5. QED
  BY <1>3, <1>4 DEF Opens

LEMMA FirstRegionFacts ==
  ASSUME NEW ir \in IrSeqOf(Node), NEW name \in Name, Defines(ir, name)
  PROVE  /\ FirstRegion(ir, name) \in DOMAIN ir.regions
         /\ ir.regions[FirstRegion(ir, name)].id = name
<1> DEFINE S == {r \in DOMAIN ir.regions : ir.regions[r].id = name}
<1>1. S \in SUBSET Nat /\ S # {}
  BY DEF IrSeqOf, Defines
<1>2. PICK n \in S : \A m \in S : n <= m
  BY <1>1, Least
<1>3. QED
  BY <1>2 DEF FirstRegion

LEMMA ChangeRegionCases ==
  ASSUME NEW ir \in Builder, NEW name \in Name
  PROVE  LET new == ChangeRegion(ir, name)
         IN  \/ name = NoName /\ Opens(ir, new, Generated(ir.next_id), ir.next_id + 1)
             \/ name # NoName /\ ~ Defines(ir, name) /\ Opens(ir, new, name, ir.next_id)
             \/ name # NoName /\ Defines(ir, name) /\ Moves(ir, new)
<1>0. ir \in IrSeqOf(Node)
  BY DEF Builder
<1>1. CASE name = NoName
  BY <1>0, <1>1, PushGeneratedOpens DEF ChangeRegion
<1>2. CASE name # NoName /\ ~ Defines(ir, name)
  BY <1>0, <1>2, PushRegionOpens DEF ChangeRegion
<1>3. CASE name # NoName /\ Defines(ir, name)
  <2>1. ChangeRegion(ir, name) = [ir EXCEPT !.current_region = FirstRegion(ir, name)]
    BY <1>3 DEF ChangeRegion
  <2>2. FirstRegion(ir, name) \in DOMAIN ir.regions /\ FirstRegion(ir, name) \in Nat
    BY <1>0, <1>3, FirstRegionFacts DEF IrSeqOf
  <2>3. Moves(ir, ChangeRegion(ir, name))
    BY <1>0, <2>1, <2>2 DEF Moves, Builder, IrSeqOf
  <2>4. QED
    BY <1>3, <2>3
<1>4. QED
  BY <1>1, <1>2, <1>3

LEMMA AddNodeAdds ==
  ASSUME NEW ir \in Builder, NEW node \in Node
  PROVE  Adds(ir, AddNode(ir, node), node)
<1> DEFINE c == ir.current_region
<1> DEFINE new == AddNode(ir, node)
<1>1. ir.regions \in Seq(Region(Node)) /\ c \in DOMAIN ir.regions
  BY DEF Builder, IrSeqOf
<1>2. ir.regions[c] \in Region(Node) /\ Append(ir.regions[c].nodes, node) \in Seq(Node)
  <2>1. ir.regions[c] \in Region(Node)
    BY <1>1
  <2>2. ir.regions[c].nodes \in Seq(Node)
    BY <2>1 DEF Region
  <2>3. QED
    BY <2>1, <2>2
<1> DEFINE region == [ir.regions[c] EXCEPT !.nodes = Append(@, node)]
<1>3. region \in Region(Node)
  BY <1>2 DEF Region
<1>4. new = [ir EXCEPT !.regions = [@ EXCEPT ![c] = region]]
  BY <1>1, <1>2 DEF AddNode
<1>5. [ir.regions EXCEPT ![c] = region] \in Seq(Region(Node))
  BY <1>1, <1>3, ExceptSeq
<1>6. new \in IrSeqOf(Node)
  BY <1>4, <1>5 DEF IrSeqOf, Builder
<1>7. /\ new.regions = [ir.regions EXCEPT ![c] = region]
      /\ new.current_region = c
      /\ new.next_id = ir.next_id
  BY <1>4 DEF IrSeqOf, Builder
<1>8. /\ Len(new.regions) = Len(ir.regions)
      /\ DOMAIN new.regions = DOMAIN ir.regions
  BY <1>1, <1>3, <1>7, ExceptSeq
<1>9. region.id = ir.regions[c].id /\ region.nodes = Append(ir.regions[c].nodes, node)
  BY <1>2 DEF Region
<1>10. QED
  BY <1>1, <1>6, <1>7, <1>8, <1>9 DEF Adds, Builder

-----------------------------------------------------------------------------
(* Type correctness.                                                       *)

LEMMA TextType ==
  ASSUME TypeOK
  PROVE  /\ text \in Seq(Line)
         /\ \A l \in DOMAIN text :
              /\ text[l] \in Line
              /\ text[l].name \in Name
              /\ NodeOf(l) \in Node
              /\ NodeOf(l).line = l
<1>1. text \in Seq(Line)
  BY TextsAssumption DEF TypeOK
<1>2. ASSUME NEW l \in DOMAIN text
      PROVE  text[l] \in Line /\ l \in Nat
  BY <1>1, <1>2
<1>3. QED
  BY <1>1, <1>2 DEF Line, Node, NodeOf

(* The IR of a step: what the cursor stood on before the node was added.   *)
Opened == IF need_new_region THEN ChangeRegion(ir_seq, NoName) ELSE ir_seq

LEMMA NoNameType == NoName \in Name
  BY DEF NoName, Name

LEMMA OpenedCases ==
  ASSUME TypeOK
  PROVE  /\ Opened \in Builder
         /\ \/ Opened = ir_seq
            \/ Opens(ir_seq, Opened, Generated(ir_seq.next_id), ir_seq.next_id + 1)
<1>1. ir_seq \in Builder
  BY DEF TypeOK, Builder
<1>2. CASE need_new_region
  BY <1>1, <1>2, ChangeRegionCases, NoNameType DEF Opened, Opens
<1>3. CASE ~ need_new_region
  BY <1>1, <1>3 DEF Opened
<1>4. QED
  BY <1>2, <1>3

LEMMA ReadInstructionAdds ==
  ASSUME TypeOK, ReadInstruction
  PROVE  /\ pos \in DOMAIN text
         /\ text[pos].kind = "ins"
         /\ Adds(Opened, ir_seq', NodeOf(pos))
<1>1. pos \in DOMAIN text /\ text[pos].kind = "ins"
  BY TextType DEF TypeOK, ReadInstruction, AtLine
<1>2. ir_seq' = AddNode(Opened, NodeOf(pos))
  BY DEF ReadInstruction, Opened
<1>3. QED
  BY <1>1, <1>2, OpenedCases, TextType, AddNodeAdds

LEMMA ReadLabelChanges ==
  ASSUME TypeOK, ReadLabel
  PROVE  /\ pos \in DOMAIN text
         /\ text[pos].kind = "label"
         /\ text[pos].name \in Name
         /\ ir_seq \in Builder
         /\ ir_seq' = ChangeRegion(ir_seq, text[pos].name)
<1>1. pos \in DOMAIN text /\ text[pos].kind = "label"
  BY TextType DEF TypeOK, ReadLabel, AtLine
<1>2. QED
  BY <1>1, TextType DEF ReadLabel, TypeOK, Builder

(* The cursor always points at a region, so add_node's indexing cannot     *)
(* fail, and what is built is an IrSeq (ir.rs:59-74).                      *)
THEOREM TypeCorrect == Spec => []TypeOK
<1>1. Init => TypeOK
  <2> SUFFICES ASSUME Init PROVE TypeOK
    OBVIOUS
  <2>1. text \in Seq(Line)
    BY TextsAssumption DEF Init
  <2>2. pos \in 1 .. Len(text) + 1
    BY <2>1 DEF Init
  <2>3. ir_seq \in Builder
    BY NewOpens DEF Init
  <2>4. QED
    BY <2>2, <2>3 DEF Init, TypeOK, Builder
<1>2. TypeOK /\ [Next]_vars => TypeOK'
  <2> SUFFICES ASSUME TypeOK, [Next]_vars PROVE TypeOK'
    OBVIOUS
  <2>1. ASSUME NEW kind, AtLine(kind) PROVE text' = text /\ pos' \in 1 .. Len(text) + 1
    BY <2>1, TextType DEF AtLine, TypeOK
  <2>2. CASE SkipBlank
    BY <2>1, <2>2 DEF SkipBlank, TypeOK
  <2>3. CASE ReadLabel
    <3>1. ir_seq' \in Builder
      BY <2>3, ReadLabelChanges, ChangeRegionCases DEF Opens, Moves
    <3>2. QED
      BY <2>1, <2>3, <3>1 DEF ReadLabel, TypeOK, Builder
  <2>4. CASE ReadInstruction
    <3>1. ir_seq' \in Builder
      BY <2>4, ReadInstructionAdds DEF Adds
    <3>2. need_new_region' \in BOOLEAN
      BY <2>4 DEF ReadInstruction, EndsRegion
    <3>3. QED
      BY <2>1, <2>4, <3>1, <3>2 DEF ReadInstruction, TypeOK, Builder
  <2>5. CASE UNCHANGED vars
    BY <2>5 DEF vars, TypeOK
  <2>6. QED
    BY <2>2, <2>3, <2>4, <2>5 DEF Next
<1>3. QED
  BY <1>1, <1>2, PTL DEF Spec

-----------------------------------------------------------------------------
(* What a step does to the places of the IR.                               *)

Place(regions, r, i) == r \in DOMAIN regions /\ i \in DOMAIN regions[r].nodes

(* Opening a region or moving the cursor makes, moves and drops no place.  *)
SamePlaces(old, new) ==
  \A r, i : /\ Place(old, r, i) <=> Place(new, r, i)
            /\ Place(old, r, i) => new[r].nodes[i] = old[r].nodes[i]

(* All places stay, and there is one new one, for that node.               *)
OnePlaceMore(old, new, r, i, node) ==
  /\ ~ Place(old, r, i) /\ Place(new, r, i) /\ new[r].nodes[i] = node
  /\ \A q, j : Place(old, q, j) => Place(new, q, j) /\ new[q].nodes[j] = old[q].nodes[j]
  /\ \A q, j : Place(new, q, j) => Place(old, q, j) \/ (q = r /\ j = i)

LEMMA OpensSamePlaces ==
  ASSUME NEW ir \in Builder, NEW new, NEW name, NEW next, Opens(ir, new, name, next)
  PROVE  SamePlaces(ir.regions, new.regions)
<1>1. /\ ir.regions \in Seq(Region(Node))
      /\ new.regions \in Seq(Region(Node))
      /\ Len(new.regions) = Len(ir.regions) + 1
  BY DEF Opens, Builder, IrSeqOf
<1>2. DOMAIN new.regions = DOMAIN ir.regions \cup {Len(new.regions)}
  BY <1>1
<1>3. new.regions[Len(new.regions)].nodes = <<>>
  BY DEF Opens
<1>4. Len(new.regions) \notin DOMAIN ir.regions
  BY <1>1
<1>5. \A r \in DOMAIN ir.regions : new.regions[r] = ir.regions[r]
  BY DEF Opens
<1>6. QED
  BY <1>2, <1>3, <1>4, <1>5 DEF SamePlaces, Place

LEMMA AppendDomain ==
  ASSUME NEW S, NEW seq \in Seq(S), NEW elt \in S
  PROVE  /\ DOMAIN Append(seq, elt) = DOMAIN seq \cup {Len(seq) + 1}
         /\ Append(seq, elt)[Len(seq) + 1] = elt
         /\ Len(seq) + 1 \notin DOMAIN seq
         /\ \A j \in DOMAIN seq : Append(seq, elt)[j] = seq[j]
  OBVIOUS

LEMMA AddsOnePlace ==
  ASSUME NEW ir \in Builder, NEW new, NEW node \in Node, Adds(ir, new, node)
  PROVE  OnePlaceMore(ir.regions, new.regions, ir.current_region,
                      Len(ir.regions[ir.current_region].nodes) + 1, node)
<1> DEFINE c == ir.current_region
<1> DEFINE old == ir.regions[c].nodes
<1> DEFINE n == Len(old) + 1
<1>1. /\ ir.regions \in Seq(Region(Node))
      /\ new.regions \in Seq(Region(Node))
      /\ Len(new.regions) = Len(ir.regions)
      /\ c \in DOMAIN ir.regions
  BY DEF Adds, Builder, IrSeqOf
<1>2. ir.regions[c] \in Region(Node)
  BY <1>1
<1>3. old \in Seq(Node)
  BY <1>2 DEF Region
<1>4. DOMAIN new.regions = DOMAIN ir.regions
  BY <1>1
<1>5. new.regions[c].nodes = Append(old, node)
  BY DEF Adds
<1>6. /\ DOMAIN new.regions[c].nodes = DOMAIN old \cup {n}
      /\ new.regions[c].nodes[n] = node
      /\ n \notin DOMAIN old
      /\ \A j \in DOMAIN old : new.regions[c].nodes[j] = old[j]
  <2> DEFINE added == Append(old, node)
  <2> HIDE DEF old
  <2>1. /\ DOMAIN added = DOMAIN old \cup {n}
        /\ added[n] = node
        /\ n \notin DOMAIN old
        /\ \A j \in DOMAIN old : added[j] = old[j]
    BY <1>3
  <2> HIDE DEF n
  <2>2. new.regions[c].nodes = added
    BY <1>5
  <2> HIDE DEF added
  <2>3. QED
    BY <2>1, <2>2
<1>7. \A r \in DOMAIN ir.regions : r # c => new.regions[r] = ir.regions[r]
  BY DEF Adds
<1> HIDE DEF n, old
<1>8. QED
  BY <1>1, <1>4, <1>6, <1>7 DEF OnePlaceMore, Place, n, old

(* Labels and blank lines leave the places alone, an instruction gets one. *)
LEMMA StepPlaces ==
  ASSUME TypeOK, Next
  PROVE  /\ text' = text
         /\ pos' = pos + 1
         /\ pos \in DOMAIN text
         /\ \/ pos \notin InsLines /\ SamePlaces(Regions, Regions')
            \/ pos \in InsLines /\ \E r, i : OnePlaceMore(Regions, Regions', r, i, NodeOf(pos))
<1>1. ASSUME NEW kind, AtLine(kind)
      PROVE  text' = text /\ pos' = pos + 1 /\ pos \in DOMAIN text /\ text[pos].kind = kind
  BY <1>1, TextType DEF AtLine, TypeOK
<1>2. CASE SkipBlank
  BY <1>1, <1>2 DEF SkipBlank, InsLines, SamePlaces, Regions
<1>3. CASE ReadLabel
  <2>1. SamePlaces(Regions, Regions')
    <3>1. CASE Moves(ir_seq, ir_seq')
      BY <3>1 DEF Moves, SamePlaces, Regions
    <3>2. ASSUME NEW name, NEW next, Opens(ir_seq, ir_seq', name, next)
          PROVE  SamePlaces(Regions, Regions')
      BY <1>3, <3>2, OpensSamePlaces, ReadLabelChanges DEF Regions
    <3>3. QED
      BY <1>3, <3>1, <3>2, ReadLabelChanges, ChangeRegionCases
  <2>2. QED
    BY <1>1, <1>3, <2>1 DEF ReadLabel, InsLines
<1>4. CASE ReadInstruction
  <2>1. SamePlaces(Regions, Opened.regions)
    BY OpenedCases, OpensSamePlaces DEF SamePlaces, Regions, TypeOK, Builder
  <2>2. PICK r, i : OnePlaceMore(Opened.regions, Regions', r, i, NodeOf(pos))
    BY <1>4, OpenedCases, ReadInstructionAdds, AddsOnePlace, TextType DEF Regions
  <2>3. OnePlaceMore(Regions, Regions', r, i, NodeOf(pos))
    BY <2>1, <2>2 DEF SamePlaces, OnePlaceMore
  <2>4. QED
    BY <1>1, <1>4, <2>3 DEF ReadInstruction, InsLines
<1>5. QED
  BY <1>2, <1>3, <1>4 DEF Next

-----------------------------------------------------------------------------
(* Every instruction has one place.                                        *)

At(regions, r, i) == regions[r].nodes[i]

Holds(regions, p) ==
  /\ \A l \in InsLines : l < p => \E r, i : Place(regions, r, i) /\ At(regions, r, i) = NodeOf(l)
  /\ \A r, i : Place(regions, r, i) =>
       /\ At(regions, r, i).line \in InsLines
       /\ At(regions, r, i).line < p
       /\ At(regions, r, i) = NodeOf(At(regions, r, i).line)
  /\ \A r, i, s, j : /\ Place(regions, r, i) /\ Place(regions, s, j)
                    /\ At(regions, r, i).line = At(regions, s, j).line
                    => r = s /\ i = j

LEMMA OnceHolds == EveryInstructionOnce <=> Holds(Regions, pos)
<1>1. ASSUME EveryInstructionOnce PROVE Holds(Regions, pos)
  BY <1>1 DEF EveryInstructionOnce, Holds, Nodes, Place, At
<1>2. ASSUME Holds(Regions, pos) PROVE EveryInstructionOnce
  <2>1. ASSUME NEW l \in InsLines, l < pos
        PROVE  \E r \in DOMAIN Regions : \E i \in DOMAIN Nodes(r) : Nodes(r)[i] = NodeOf(l)
    BY <1>2, <2>1 DEF Holds, Nodes, Place, At
  <2>2. ASSUME NEW r \in DOMAIN Regions, NEW i \in DOMAIN Nodes(r)
        PROVE  /\ Nodes(r)[i].line \in InsLines
               /\ Nodes(r)[i].line < pos
               /\ Nodes(r)[i] = NodeOf(Nodes(r)[i].line)
    BY <1>2, <2>2 DEF Holds, Nodes, Place, At
  <2>3. ASSUME NEW r \in DOMAIN Regions, NEW s \in DOMAIN Regions,
               NEW i \in DOMAIN Nodes(r), NEW j \in DOMAIN Nodes(s),
               Nodes(r)[i].line = Nodes(s)[j].line
        PROVE  r = s /\ i = j
    BY <1>2, <2>3 DEF Holds, Nodes, Place, At
  <2>4. QED
    BY <2>1, <2>2, <2>3 DEF EveryInstructionOnce
<1>3. QED
  BY <1>1, <1>2

LEMMA HoldsStep ==
  ASSUME TypeOK, Next, Holds(Regions, pos)
  PROVE  Holds(Regions', pos + 1)
<1>0. /\ pos \in DOMAIN text /\ pos \in Nat /\ InsLines \subseteq Nat
      /\ \A l \in DOMAIN text : NodeOf(l).line = l
  BY StepPlaces, TextType DEF TypeOK, InsLines
<1>1. CASE pos \notin InsLines /\ SamePlaces(Regions, Regions')
  <2>1. \A l \in InsLines : l < pos + 1 => l < pos
    BY <1>0, <1>1
  <2>2. \A r, i : /\ Place(Regions', r, i) <=> Place(Regions, r, i)
                  /\ Place(Regions', r, i) => At(Regions', r, i) = At(Regions, r, i)
    BY <1>1 DEF SamePlaces, At
  <2>3. ASSUME NEW r, NEW i, Place(Regions, r, i) PROVE At(Regions, r, i).line < pos + 1
    <3>1. At(Regions, r, i).line \in Nat /\ At(Regions, r, i).line < pos
      BY <1>0, <2>3 DEF Holds
    <3>2. QED
      BY <1>0, <3>1
  <2>4. QED
    BY <2>1, <2>2, <2>3 DEF Holds
<1>2. ASSUME pos \in InsLines, NEW r, NEW i, OnePlaceMore(Regions, Regions', r, i, NodeOf(pos))
      PROVE  Holds(Regions', pos + 1)
  <2>1. /\ Place(Regions', r, i) /\ At(Regions', r, i) = NodeOf(pos)
        /\ \A q, j : Place(Regions, q, j) =>
             Place(Regions', q, j) /\ At(Regions', q, j) = At(Regions, q, j)
        /\ \A q, j : Place(Regions', q, j) => Place(Regions, q, j) \/ (q = r /\ j = i)
    BY <1>2 DEF OnePlaceMore, At
  <2>2. NodeOf(pos).line = pos
    BY <1>0
  <2>3. \A l \in InsLines : l < pos + 1 => l < pos \/ l = pos
    BY <1>0
  <2>4. ASSUME NEW q, NEW j, Place(Regions, q, j)
        PROVE  At(Regions, q, j).line < pos + 1 /\ At(Regions, q, j).line # pos
    <3>1. At(Regions, q, j).line \in Nat /\ At(Regions, q, j).line < pos
      BY <1>0, <2>4 DEF Holds
    <3>2. QED
      BY <1>0, <3>1
  <2>5. \A l \in InsLines : l < pos + 1 =>
          \E q, j : Place(Regions', q, j) /\ At(Regions', q, j) = NodeOf(l)
    BY <2>1, <2>3 DEF Holds
  <2>6. \A q, j : Place(Regions', q, j) =>
          /\ At(Regions', q, j).line \in InsLines
          /\ At(Regions', q, j).line < pos + 1
          /\ At(Regions', q, j) = NodeOf(At(Regions', q, j).line)
    BY <1>0, <1>2, <2>1, <2>2, <2>4 DEF Holds
  <2>7. \A p, j, q, k : /\ Place(Regions', p, j) /\ Place(Regions', q, k)
                        /\ At(Regions', p, j).line = At(Regions', q, k).line
                        => p = q /\ j = k
    BY <2>1, <2>2, <2>4 DEF Holds
  <2>8. QED
    BY <2>5, <2>6, <2>7 DEF Holds
<1>3. QED
  BY <1>1, <1>2, StepPlaces

(* Each instruction read is in the IR once and unchanged, whatever labels  *)
(* the text has: repeated, empty or of a generated form (ir.rs:108-151).   *)
THEOREM InstructionsKept == Spec => []EveryInstructionOnce
<1>1. Init => EveryInstructionOnce
  <2> SUFFICES ASSUME Init PROVE Holds(Regions, pos)
    BY OnceHolds
  <2>1. \A r, i : ~ Place(Regions, r, i)
    BY NewOpens DEF Init, Place, Regions, Builder, IrSeqOf
  <2>2. text \in Seq(Line) /\ pos = 1
    BY TextsAssumption DEF Init
  <2>3. \A l \in InsLines : ~ (l < pos)
    BY <2>2 DEF InsLines
  <2>4. QED
    BY <2>1, <2>3 DEF Holds
<1>2. TypeOK /\ EveryInstructionOnce /\ [Next]_vars => EveryInstructionOnce'
  <2>1. ASSUME TypeOK, EveryInstructionOnce, Next PROVE EveryInstructionOnce'
    <3>1. Holds(Regions', pos + 1)
      BY <2>1, OnceHolds, HoldsStep
    <3>2. text' = text /\ pos' = pos + 1
      BY <2>1, StepPlaces
    <3>3. QED
      BY <3>1, <3>2 DEF EveryInstructionOnce, Holds, Nodes, Place, At, NodeOf, InsLines
  <2>2. ASSUME EveryInstructionOnce, UNCHANGED vars PROVE EveryInstructionOnce'
    <3>1. text' = text /\ pos' = pos /\ Regions' = Regions
      BY <2>2 DEF vars, Regions
    <3>2. Holds(Regions', pos)
      BY <2>2, <3>1, OnceHolds
    <3>3. QED
      BY <3>1, <3>2 DEF EveryInstructionOnce, Holds, Nodes, Place, At, NodeOf, InsLines
  <2>3. QED
    BY <2>1, <2>2
<1>3. QED
  BY <1>1, <1>2, TypeCorrect, PTL DEF Spec

-----------------------------------------------------------------------------
(* Region names.  Generated names are numbered below next_id, so that the  *)
(* next one is new; a label is pushed only if no region has it yet.        *)

Numbered(ir) ==
  \A r \in DOMAIN ir.regions :
    ir.regions[r].id.stem = "__region_" => ir.regions[r].id.n < ir.next_id

Unique(ir) ==
  \A r, s \in DOMAIN ir.regions : ir.regions[r].id = ir.regions[s].id => r = s

IdsInv == NoReservedLabels => Numbered(ir_seq) /\ Unique(ir_seq)

LEMMA OpensIds ==
  ASSUME NEW ir \in Builder, NEW new, NEW name \in Name, NEW next \in Nat,
         Opens(ir, new, name, next), ~ Defines(ir, name), ir.next_id <= next,
         name.stem = "__region_" => name.n < next,
         Numbered(ir), Unique(ir)
  PROVE  Numbered(new) /\ Unique(new)
<1>1. /\ ir.regions \in Seq(Region(Node))
      /\ new.regions \in Seq(Region(Node))
      /\ Len(new.regions) = Len(ir.regions) + 1
      /\ ir.next_id \in Nat
  BY DEF Opens, Builder, IrSeqOf
<1>2. DOMAIN new.regions = DOMAIN ir.regions \cup {Len(new.regions)}
  BY <1>1
<1>3. /\ new.regions[Len(new.regions)].id = name
      /\ \A r \in DOMAIN ir.regions : new.regions[r] = ir.regions[r]
      /\ new.next_id = next
  BY DEF Opens
<1>4. \A r \in DOMAIN ir.regions : ir.regions[r].id.n \in Nat
  <2>1. \A r \in DOMAIN ir.regions : ir.regions[r] \in Region(Node)
    BY <1>1
  <2>2. QED
    BY <2>1 DEF Region, Name
<1>5. Unique(new)
  BY <1>2, <1>3 DEF Unique, Defines
<1>6. Numbered(new)
  <2>1. ASSUME NEW r \in DOMAIN ir.regions, ir.regions[r].id.stem = "__region_"
        PROVE  ir.regions[r].id.n < next
    <3>1. ir.regions[r].id.n < ir.next_id
      BY <2>1 DEF Numbered
    <3>2. QED
      BY <1>1, <1>4, <3>1
  <2>2. QED
    BY <1>2, <1>3, <2>1 DEF Numbered
<1>7. QED
  BY <1>5, <1>6

LEMMA GeneratedIsNew ==
  ASSUME NEW ir \in Builder, Numbered(ir)
  PROVE  /\ Generated(ir.next_id) \in Name
         /\ Generated(ir.next_id).n < ir.next_id + 1
         /\ ir.next_id \in Nat /\ ir.next_id + 1 \in Nat /\ ir.next_id <= ir.next_id + 1
         /\ ~ Defines(ir, Generated(ir.next_id))
<1>1. ir.next_id \in Nat
  BY DEF Builder, IrSeqOf
<1>2. ASSUME Defines(ir, Generated(ir.next_id)) PROVE FALSE
  BY <1>1, <1>2 DEF Defines, Numbered, Generated
<1>3. QED
  BY <1>1, <1>2 DEF Generated, Name

LEMMA AddsIds ==
  ASSUME NEW ir \in Builder, NEW new, NEW node, Adds(ir, new, node)
  PROVE  /\ DOMAIN new.regions = DOMAIN ir.regions
         /\ \A r \in DOMAIN ir.regions : new.regions[r].id = ir.regions[r].id
         /\ new.next_id = ir.next_id
  BY DEF Adds, Builder, IrSeqOf

LEMMA OpenedIds ==
  ASSUME TypeOK, Numbered(ir_seq), Unique(ir_seq)
  PROVE  Numbered(Opened) /\ Unique(Opened)
<1>1. ir_seq \in Builder
  BY DEF TypeOK, Builder
<1>2. QED
  BY <1>1, OpenedCases, OpensIds, GeneratedIsNew

LEMMA IdsStep == TypeOK /\ IdsInv /\ [Next]_vars => IdsInv'
<1> SUFFICES ASSUME TypeOK, IdsInv, [Next]_vars, NoReservedLabels'
             PROVE  Numbered(ir_seq') /\ Unique(ir_seq')
  BY DEF IdsInv, Numbered, Unique
<1>1. text' = text
  BY StepPlaces DEF vars
<1>2. NoReservedLabels /\ Numbered(ir_seq) /\ Unique(ir_seq) /\ ir_seq \in Builder
  BY <1>1 DEF NoReservedLabels, LabelLines, IdsInv, TypeOK, Builder
<1>3. CASE SkipBlank \/ UNCHANGED vars
  BY <1>2, <1>3 DEF SkipBlank, vars, Numbered, Unique
<1>4. CASE ReadLabel
  <2> DEFINE name == text[pos].name
  <2>1. /\ ir_seq' = ChangeRegion(ir_seq, name)
        /\ name \in Name
        /\ name.stem # "__region_"
    BY <1>2, <1>4, ReadLabelChanges DEF NoReservedLabels, LabelLines
  <2>2. CASE Moves(ir_seq, ir_seq')
    BY <1>2, <2>2 DEF Moves, Numbered, Unique
  <2>3. CASE ~ Defines(ir_seq, name) /\ Opens(ir_seq, ir_seq', name, ir_seq.next_id)
    <3>1. ir_seq.next_id \in Nat /\ ir_seq.next_id <= ir_seq.next_id
      BY <1>2 DEF Builder, IrSeqOf
    <3>2. QED
      BY <1>2, <2>1, <2>3, <3>1, OpensIds
  <2>4. CASE Opens(ir_seq, ir_seq', Generated(ir_seq.next_id), ir_seq.next_id + 1)
    BY <1>2, <2>4, OpensIds, GeneratedIsNew, ZenonT(40)
  <2>5. QED
    BY <1>2, <2>1, <2>2, <2>3, <2>4, ChangeRegionCases
<1>5. CASE ReadInstruction
  <2>1. Numbered(Opened) /\ Unique(Opened) /\ Opened \in Builder
    BY <1>2, OpenedIds, OpenedCases
  <2>2. Adds(Opened, ir_seq', NodeOf(pos))
    BY <1>5, ReadInstructionAdds
  <2>3. QED
    BY <2>1, <2>2, AddsIds DEF Numbered, Unique
<1>6. QED
  BY <1>3, <1>4, <1>5 DEF Next

LEMMA IdsAlways == Spec => []IdsInv
<1>1. Init => IdsInv
  <2> SUFFICES ASSUME Init PROVE Numbered(ir_seq) /\ Unique(ir_seq)
    BY DEF IdsInv
  <2>1. DOMAIN ir_seq.regions = {1}
    BY NewOpens DEF Init, Builder, IrSeqOf
  <2>2. QED
    BY <2>1, NewOpens DEF Init, Numbered, Unique, Generated
<1>2. QED
  BY <1>1, IdsStep, TypeCorrect, PTL DEF Spec

(* As long as the text uses no name of the generated form, no two regions  *)
(* have the same name, so the text of a saved and reloaded IR, in which    *)
(* every region is labelled, defines no label twice (ir.rs:52-74, 83).     *)
THEOREM NamesUnique == Spec => []IdsUnique
<1>1. IdsInv => IdsUnique
  BY DEF IdsInv, IdsUnique, Unique, Regions
<1>2. QED
  BY <1>1, IdsAlways, PTL

-----------------------------------------------------------------------------
(* Program order.  With fresh labels the cursor never leaves the last      *)
(* region, because every name a region has was generated or read before.   *)

FromText(ir, p) ==
  \A r \in DOMAIN ir.regions :
    \/ ir.regions[r].id.stem = "__region_"
    \/ \E l \in LabelLines : l < p /\ text[l].name = ir.regions[r].id

AtEnd(ir) == ir.current_region = Len(ir.regions)

EndInv == FreshLabels => AtEnd(ir_seq) /\ FromText(ir_seq, pos)

LEMMA OpensEnd ==
  ASSUME TypeOK, NEW ir \in Builder, NEW new, NEW name \in Name, NEW next,
         Opens(ir, new, name, next), FromText(ir, pos),
         name.stem = "__region_" \/ (pos \in LabelLines /\ text[pos].name = name)
  PROVE  AtEnd(new) /\ FromText(new, pos + 1)
<1>1. /\ ir.regions \in Seq(Region(Node))
      /\ new.regions \in Seq(Region(Node))
      /\ Len(new.regions) = Len(ir.regions) + 1
  BY DEF Opens, Builder, IrSeqOf
<1>2. DOMAIN new.regions = DOMAIN ir.regions \cup {Len(new.regions)}
  BY <1>1
<1>3. /\ new.regions[Len(new.regions)].id = name
      /\ \A r \in DOMAIN ir.regions : new.regions[r] = ir.regions[r]
      /\ new.current_region = Len(new.regions)
  BY DEF Opens
<1>4. /\ pos \in Nat /\ pos < pos + 1
      /\ \A l \in LabelLines : l < pos => l < pos + 1
  BY TextType DEF TypeOK, LabelLines
<1>5. QED
  BY <1>2, <1>3, <1>4 DEF AtEnd, FromText

LEMMA FromTextLater ==
  ASSUME TypeOK, NEW ir, FromText(ir, pos)
  PROVE  FromText(ir, pos + 1)
<1>1. \A l \in LabelLines : l < pos => l < pos + 1
  BY TextType DEF TypeOK, LabelLines
<1>2. QED
  BY <1>1 DEF FromText

LEMMA OpenedEnd ==
  ASSUME TypeOK, AtEnd(ir_seq), FromText(ir_seq, pos)
  PROVE  AtEnd(Opened) /\ FromText(Opened, pos + 1)
<1>1. CASE Opened = ir_seq
  BY <1>1, FromTextLater
<1>2. CASE Opens(ir_seq, Opened, Generated(ir_seq.next_id), ir_seq.next_id + 1)
  <2>1. ir_seq \in Builder /\ ir_seq.next_id \in Nat
    BY DEF TypeOK, Builder, IrSeqOf
  <2>2. Generated(ir_seq.next_id) \in Name /\ Generated(ir_seq.next_id).stem = "__region_"
    BY <2>1 DEF Generated, Name
  <2>3. QED
    BY <1>2, <2>1, <2>2, OpensEnd
<1>3. QED
  BY <1>1, <1>2, OpenedCases

(* The label about to be read names no region yet.                         *)
LEMMA FreshIsNew ==
  ASSUME TypeOK, FreshLabels, FromText(ir_seq, pos), pos \in LabelLines
  PROVE  ~ Defines(ir_seq, text[pos].name)
<1>1. \A l \in LabelLines : l < pos => text[l].name # text[pos].name
  BY TextType DEF FreshLabels, LabelLines, TypeOK
<1>2. text[pos].name.stem # "__region_"
  BY DEF FreshLabels, NoReservedLabels
<1>3. QED
  BY <1>1, <1>2 DEF Defines, FromText

LEMMA EndStep == TypeOK /\ EndInv /\ [Next]_vars => EndInv'
<1> SUFFICES ASSUME TypeOK, EndInv, Next, FreshLabels'
             PROVE  AtEnd(ir_seq') /\ FromText(ir_seq', pos + 1)
  <2>1. ASSUME EndInv, UNCHANGED vars PROVE EndInv'
    BY <2>1 DEF EndInv, vars, FreshLabels, NoReservedLabels, LabelLines, AtEnd, FromText
  <2>2. ASSUME TypeOK, Next PROVE text' = text /\ pos' = pos + 1
    BY <2>2, StepPlaces
  <2>3. ASSUME TypeOK, EndInv, Next,
               FreshLabels' => AtEnd(ir_seq') /\ FromText(ir_seq', pos + 1)
        PROVE  EndInv'
    BY <2>2, <2>3 DEF EndInv, AtEnd, FromText, LabelLines
  <2>4. QED
    BY <2>1, <2>3
<1>1. text' = text /\ pos' = pos + 1
  BY StepPlaces
<1>2. FreshLabels /\ AtEnd(ir_seq) /\ FromText(ir_seq, pos) /\ ir_seq \in Builder
  BY <1>1 DEF FreshLabels, NoReservedLabels, LabelLines, EndInv, TypeOK, Builder
<1>3. CASE SkipBlank
  BY <1>2, <1>3, FromTextLater DEF SkipBlank
<1>4. CASE ReadLabel
  <2>1. /\ pos \in LabelLines
        /\ text[pos].name \in Name
        /\ text[pos].name # NoName
        /\ text[pos].name.stem # "__region_"
        /\ ir_seq' = ChangeRegion(ir_seq, text[pos].name)
    BY <1>2, <1>4, ReadLabelChanges DEF FreshLabels, NoReservedLabels, LabelLines
  <2>2. ~ Defines(ir_seq, text[pos].name)
    BY <1>2, <2>1, FreshIsNew
  <2>3. Opens(ir_seq, ir_seq', text[pos].name, ir_seq.next_id)
    BY <1>2, <2>1, <2>2, ChangeRegionCases
  <2>4. QED
    BY <1>2, <2>1, <2>3, OpensEnd
<1>5. CASE ReadInstruction
  <2>1. AtEnd(Opened) /\ FromText(Opened, pos + 1) /\ Opened \in Builder
    BY <1>2, OpenedEnd, OpenedCases
  <2>2. Adds(Opened, ir_seq', NodeOf(pos))
    BY <1>5, ReadInstructionAdds
  <2>3. QED
    BY <2>1, <2>2, AddsIds, ZenonT(40) DEF AtEnd, FromText, Adds
<1>6. QED
  BY <1>3, <1>4, <1>5 DEF Next

LEMMA EndAlways == Spec => []EndInv
<1>1. Init => EndInv
  <2> SUFFICES ASSUME Init PROVE AtEnd(ir_seq) /\ FromText(ir_seq, pos)
    BY DEF EndInv
  <2>1. DOMAIN ir_seq.regions = {1}
    BY NewOpens DEF Init, Builder, IrSeqOf
  <2>2. ir_seq = New("V0") /\ ir_seq.regions[1].id = Generated(0)
    BY NewOpens DEF Init
  <2>3. AtEnd(ir_seq)
    BY <2>2, NewOpens DEF AtEnd
  <2>4. ir_seq.regions[1].id.stem = "__region_"
    BY <2>2 DEF Generated
  <2>5. QED
    BY <2>1, <2>3, <2>4 DEF FromText
<1>2. QED
  BY <1>1, EndStep, TypeCorrect, PTL DEF Spec

Ordered(regions) ==
  \A r, i, s, j : /\ Place(regions, r, i) /\ Place(regions, s, j) /\ Before(r, i, s, j)
                  => At(regions, r, i).line < At(regions, s, j).line

OrderInv == FreshLabels => Ordered(Regions)

(* A place added at the end of the last region comes after all others.     *)
LEMMA LastPlace ==
  ASSUME NEW ir \in Builder, AtEnd(ir), NEW q, NEW j, Place(ir.regions, q, j)
  PROVE  ~ Before(ir.current_region, Len(ir.regions[ir.current_region].nodes) + 1, q, j)
<1>1. ir.regions \in Seq(Region(Node)) /\ q \in DOMAIN ir.regions /\ j \in DOMAIN ir.regions[q].nodes
  BY DEF Builder, IrSeqOf, Place
<1>2. ir.regions[q] \in Region(Node)
  BY <1>1
<1>3. ir.regions[q].nodes \in Seq(Node)
  BY <1>2 DEF Region
<1>4. /\ q \in Nat /\ q <= Len(ir.regions) /\ Len(ir.regions) \in Nat
      /\ j \in Nat /\ j <= Len(ir.regions[q].nodes) /\ Len(ir.regions[q].nodes) \in Nat
  BY <1>1, <1>3
<1>5. QED
  BY <1>4 DEF AtEnd, Before

LEMMA OrderStep ==
  ASSUME TypeOK, EveryInstructionOnce, EndInv, OrderInv, Next
  PROVE  OrderInv'
<1> SUFFICES ASSUME FreshLabels' PROVE Ordered(Regions')
  BY DEF OrderInv, Ordered
<1>1. FreshLabels /\ Ordered(Regions) /\ AtEnd(ir_seq) /\ FromText(ir_seq, pos)
  BY StepPlaces DEF FreshLabels, NoReservedLabels, LabelLines, EndInv, OrderInv
<1>2. Holds(Regions, pos)
  BY OnceHolds
<1>3. CASE SamePlaces(Regions, Regions')
  BY <1>1, <1>3 DEF SamePlaces, Ordered, At
<1>4. CASE ReadInstruction
  <2> DEFINE c == Opened.current_region
  <2> DEFINE n == Len(Opened.regions[c].nodes) + 1
  <2>1. SamePlaces(Regions, Opened.regions)
    BY OpenedCases, OpensSamePlaces DEF SamePlaces, Regions, TypeOK, Builder
  <2>2. OnePlaceMore(Opened.regions, Regions', c, n, NodeOf(pos))
    BY <1>4, OpenedCases, ReadInstructionAdds, AddsOnePlace, TextType DEF Regions
  <2>3. \A q, j : Place(Opened.regions, q, j) => ~ Before(c, n, q, j)
    BY <1>1, OpenedEnd, OpenedCases, LastPlace
  <2>4. c \in Nat /\ n \in Nat
    <3>1. Opened.regions \in Seq(Region(Node)) /\ c \in DOMAIN Opened.regions
      BY OpenedCases DEF Builder, IrSeqOf
    <3>2. Opened.regions[c] \in Region(Node)
      BY <3>1
    <3>3. QED
      BY <3>1, <3>2 DEF Region
  <2> HIDE DEF c, n
  <2>5. OnePlaceMore(Regions, Regions', c, n, NodeOf(pos))
    BY <2>1, <2>2 DEF SamePlaces, OnePlaceMore
  <2>6. /\ At(Regions', c, n) = NodeOf(pos) /\ NodeOf(pos).line = pos
        /\ \A q, j : Place(Regions, q, j) => At(Regions', q, j) = At(Regions, q, j)
        /\ \A q, j : Place(Regions', q, j) => Place(Regions, q, j) \/ (q = c /\ j = n)
    BY <1>4, <2>5, ReadInstructionAdds, TextType DEF OnePlaceMore, At
  <2>7. \A q, j : Place(Regions, q, j) => At(Regions, q, j).line < pos
    BY <1>2 DEF Holds
  <2>8. ~ Before(c, n, c, n)
    BY <2>4 DEF Before
  <2>9. \A q, j : Place(Regions, q, j) => ~ Before(c, n, q, j)
    BY <2>1, <2>3 DEF SamePlaces
  <2>10. QED
    BY <1>1, <2>6, <2>7, <2>8, <2>9 DEF Ordered
<1>5. QED
  <2>1. SkipBlank => SamePlaces(Regions, Regions')
    BY DEF SkipBlank, SamePlaces, Regions
  <2>2. ReadLabel => pos \notin InsLines
    BY DEF ReadLabel, AtLine, InsLines
  <2>3. QED
    BY <1>3, <1>4, <2>1, <2>2, StepPlaces DEF Next

(* A text whose labels are fresh keeps its order: what comes earlier in    *)
(* the IR was written earlier (ir.rs:63-74, 108-151).                      *)
THEOREM OrderKept == Spec => []ProgramOrder
<1>1. Init => OrderInv
  <2> SUFFICES ASSUME Init PROVE Ordered(Regions)
    BY DEF OrderInv
  <2>1. DOMAIN ir_seq.regions = {1}
    BY NewOpens DEF Init, Builder, IrSeqOf
  <2>2. \A r, i : ~ Place(Regions, r, i)
    BY <2>1, NewOpens DEF Init, Place, Regions
  <2>3. QED
    BY <2>2 DEF Ordered
<1>2. TypeOK /\ EveryInstructionOnce /\ EndInv /\ OrderInv /\ [Next]_vars => OrderInv'
  <2>1. ASSUME OrderInv, UNCHANGED vars PROVE OrderInv'
    BY <2>1 DEF OrderInv, vars, FreshLabels, NoReservedLabels, LabelLines, Ordered, Regions,
                Place, At
  <2>2. QED
    BY <2>1, OrderStep
<1>3. OrderInv => ProgramOrder
  BY DEF OrderInv, ProgramOrder, Ordered, Place, At, Nodes
<1>4. QED
  BY <1>1, <1>2, <1>3, EndAlways, TypeCorrect, InstructionsKept, PTL DEF Spec

-----------------------------------------------------------------------------
(* Where regions are split.  The invariant says what need_new_region is    *)
(* for: it is set just when the last region already ends in a terminator.  *)

EndsInTerminator(region) ==
  region.nodes # <<>> /\ region.nodes[Len(region.nodes)].op \in Terminators

SplitAtEnd(region) ==
  \A i \in DOMAIN region.nodes :
    region.nodes[i].op \in Terminators => i = Len(region.nodes)

LastRegion(ir) == ir.regions[Len(ir.regions)]

Split(ir) ==
  /\ \A r \in DOMAIN ir.regions : SplitAtEnd(ir.regions[r])
  /\ \A r \in DOMAIN ir.regions :
       r > 1 /\ ir.regions[r].id \in ir.generated_ids =>
         EndsInTerminator(ir.regions[r - 1])
  /\ \A name \in ir.generated_ids : name.stem = "__region_"

SplitInv ==
  FreshLabels =>
    Split(ir_seq) /\ (need_new_region <=> EndsInTerminator(LastRegion(ir_seq)))

LEMMA GeneratedIds ==
  ASSUME NEW ir \in Builder
  PROVE  /\ PushGenerated(ir).generated_ids = ir.generated_ids \cup {Generated(ir.next_id)}
         /\ \A name \in Name : PushRegion(ir, name).generated_ids = ir.generated_ids
         /\ \A node \in Node : AddNode(ir, node).generated_ids = ir.generated_ids
<1>1. ir \in IrSeqOf(Node)
  BY DEF Builder
<1>2. \A name : PushRegion(ir, name).generated_ids = ir.generated_ids
  BY <1>1 DEF PushRegion, IrSeqOf
<1>3. \A node : AddNode(ir, node).generated_ids = ir.generated_ids
  BY <1>1 DEF AddNode, IrSeqOf
<1>4. Generated(ir.next_id) \in Name
  BY <1>1 DEF IrSeqOf, Generated, Name
<1> DEFINE mid == PushRegion(ir, Generated(ir.next_id))
<1>5. mid \in IrSeqOf(Node) /\ mid.generated_ids = ir.generated_ids
  BY <1>1, <1>4, PushRegionOpens DEF Opens, Builder
<1>6. PushGenerated(ir) = [mid EXCEPT !.generated_ids = @ \cup {Generated(ir.next_id)},
                                      !.next_id = @ + 1]
  BY DEF PushGenerated
<1> HIDE DEF mid
<1>7. PushGenerated(ir).generated_ids = ir.generated_ids \cup {Generated(ir.next_id)}
  BY <1>5, <1>6 DEF IrSeqOf
<1>8. QED
  BY <1>2, <1>3, <1>7

(* A region opened under a generated name needs a terminator before it.    *)
LEMMA OpensSplit ==
  ASSUME NEW ir \in Builder, NEW new, NEW name \in Name, NEW next,
         Opens(ir, new, name, next), ~ Defines(ir, name), Split(ir),
         \/ /\ new.generated_ids = ir.generated_ids
            /\ name.stem # "__region_"
         \/ /\ new.generated_ids = ir.generated_ids \cup {name}
            /\ name.stem = "__region_"
            /\ EndsInTerminator(LastRegion(ir))
  PROVE  Split(new) /\ ~ EndsInTerminator(LastRegion(new))
<1> DEFINE n == Len(ir.regions)
<1>1. /\ ir.regions \in Seq(Region(Node))
      /\ new.regions \in Seq(Region(Node))
      /\ Len(new.regions) = n + 1
      /\ n \in Nat /\ n > 0
  BY DEF Opens, Builder, IrSeqOf
<1>2. DOMAIN ir.regions = 1 .. n /\ DOMAIN new.regions = 1 .. n + 1
  BY <1>1
<1>3. /\ LastRegion(new) = [id |-> name, nodes |-> <<>>]
      /\ new.regions[n + 1] = LastRegion(new)
      /\ \A r \in 1 .. n : new.regions[r] = ir.regions[r]
  BY <1>1, <1>2 DEF Opens, LastRegion
<1>4. ~ EndsInTerminator(LastRegion(new)) /\ SplitAtEnd(LastRegion(new))
  BY <1>3 DEF EndsInTerminator, SplitAtEnd
<1>5. \A r \in 1 .. n : ir.regions[r].id # name
  BY <1>2 DEF Defines
<1>6. LastRegion(new).id = name /\ ir.regions[n] = LastRegion(ir)
  BY <1>3 DEF LastRegion
<1> HIDE DEF n
<1>7. \A r \in DOMAIN new.regions : SplitAtEnd(new.regions[r])
  <2>1. \A r \in 1 .. n : SplitAtEnd(ir.regions[r])
    BY <1>2 DEF Split
  <2>2. \A r \in 1 .. n + 1 : r \in 1 .. n \/ r = n + 1
    BY <1>1
  <2>3. QED
    BY <1>2, <1>3, <1>4, <2>1, <2>2
<1>8. ASSUME NEW r \in 1 .. n + 1, r > 1, new.regions[r].id \in new.generated_ids
      PROVE  EndsInTerminator(new.regions[r - 1])
  <2>1. r - 1 \in 1 .. n
    BY <1>1, <1>8
  <2>2. CASE r \in 1 .. n
    <3>1. ir.regions[r].id \in ir.generated_ids
      BY <1>3, <1>5, <1>8, <2>2
    <3>2. EndsInTerminator(ir.regions[r - 1])
      BY <1>2, <1>8, <2>2, <3>1 DEF Split
    <3>3. QED
      BY <1>3, <2>1, <3>2
  <2>3. CASE r = n + 1
    <3>1. name \in new.generated_ids
      BY <1>3, <1>6, <1>8, <2>3
    <3>2. EndsInTerminator(LastRegion(ir))
      BY <3>1 DEF Split
    <3>3. r - 1 = n
      BY <1>1, <2>3
    <3>4. QED
      BY <1>3, <1>6, <2>1, <3>2, <3>3
  <2>4. QED
    BY <1>1, <2>2, <2>3
<1>9. \A id \in new.generated_ids : id.stem = "__region_"
  BY DEF Split
<1>10. QED
  BY <1>2, <1>4, <1>7, <1>8, <1>9 DEF Split

(* An instruction is added to a last region that has no terminator yet.    *)
LEMMA AddsSplit ==
  ASSUME NEW ir \in Builder, NEW new, NEW node \in Node, Adds(ir, new, node),
         AtEnd(ir), Split(ir), ~ EndsInTerminator(LastRegion(ir)),
         new.generated_ids = ir.generated_ids
  PROVE  Split(new) /\ (EndsInTerminator(LastRegion(new)) <=> node.op \in Terminators)
<1> DEFINE n == Len(ir.regions)
           old == LastRegion(ir).nodes
<1>1. /\ ir.regions \in Seq(Region(Node))
      /\ new.regions \in Seq(Region(Node))
      /\ Len(new.regions) = n
      /\ n \in Nat /\ n \in 1 .. n /\ ir.current_region = n
  BY DEF Adds, AtEnd, Builder, IrSeqOf
<1>2. DOMAIN ir.regions = 1 .. n /\ DOMAIN new.regions = 1 .. n
  BY <1>1
<1>3. LastRegion(ir) = ir.regions[n] /\ LastRegion(new) = new.regions[n]
  BY <1>1 DEF LastRegion
<1>4. /\ LastRegion(new).nodes = Append(old, node)
      /\ \A r \in 1 .. n : new.regions[r].id = ir.regions[r].id
      /\ \A r \in 1 .. n : r # n => new.regions[r] = ir.regions[r]
  BY <1>1, <1>2, <1>3 DEF Adds
<1>5. old \in Seq(Node)
  <2>1. ir.regions[n] \in Region(Node)
    BY <1>1, <1>2
  <2>2. QED
    BY <1>3, <2>1 DEF Region
<1>6. SplitAtEnd(LastRegion(ir))
  BY <1>1, <1>2, <1>3 DEF Split
<1>7. \A i \in DOMAIN old : old[i].op \notin Terminators
  <2>1. ASSUME NEW i \in DOMAIN old, old[i].op \in Terminators PROVE FALSE
    <3>1. i = Len(old)
      BY <1>6, <2>1 DEF SplitAtEnd
    <3>2. old # <<>>
      BY <1>5, <2>1
    <3>3. QED
      BY <2>1, <3>1, <3>2 DEF EndsInTerminator
  <2>2. QED
    BY <2>1
<1> DEFINE more == Append(old, node)
<1>8. /\ DOMAIN more = DOMAIN old \cup {Len(old) + 1}
      /\ more[Len(old) + 1] = node
      /\ \A i \in DOMAIN old : more[i] = old[i]
      /\ Len(more) = Len(old) + 1
      /\ more # <<>>
  BY <1>5, AppendDomain, AppendProperties
<1> HIDE DEF n, old, more
<1>9. /\ SplitAtEnd(LastRegion(new))
      /\ EndsInTerminator(LastRegion(new)) <=> node.op \in Terminators
  <2>1. LastRegion(new).nodes = more
    BY <1>4 DEF more
  <2>2. QED
    BY <1>7, <1>8, <2>1 DEF SplitAtEnd, EndsInTerminator
<1>10. \A r \in 1 .. n : SplitAtEnd(new.regions[r])
  BY <1>2, <1>3, <1>4, <1>9 DEF Split
<1>11. ASSUME NEW r \in 1 .. n, r > 1, new.regions[r].id \in new.generated_ids
       PROVE  EndsInTerminator(new.regions[r - 1])
  <2>1. r - 1 \in 1 .. n /\ r - 1 # n
    BY <1>1, <1>11
  <2>2. EndsInTerminator(ir.regions[r - 1])
    BY <1>2, <1>4, <1>11 DEF Split
  <2>3. QED
    BY <1>4, <2>1, <2>2
<1>12. \A id \in new.generated_ids : id.stem = "__region_"
  BY DEF Split
<1>13. QED
  BY <1>2, <1>9, <1>10, <1>11, <1>12 DEF Split

LEMMA SplitStep ==
  ASSUME TypeOK, EndInv, IdsInv, SplitInv, Next
  PROVE  SplitInv'
<1> SUFFICES ASSUME FreshLabels'
             PROVE  /\ Split(ir_seq')
                    /\ need_new_region' <=> EndsInTerminator(LastRegion(ir_seq'))
  BY DEF SplitInv, Split, LastRegion
<1>1. text' = text
  BY StepPlaces
<1>2. /\ FreshLabels /\ AtEnd(ir_seq) /\ FromText(ir_seq, pos) /\ ir_seq \in Builder
      /\ Numbered(ir_seq) /\ need_new_region \in BOOLEAN
  BY <1>1 DEF FreshLabels, NoReservedLabels, LabelLines, EndInv, IdsInv, TypeOK, Builder
<1>3. Split(ir_seq) /\ (need_new_region <=> EndsInTerminator(LastRegion(ir_seq)))
  BY <1>2 DEF SplitInv
<1>4. CASE SkipBlank
  BY <1>3, <1>4 DEF SkipBlank
<1>5. CASE ReadLabel
  <2> DEFINE name == text[pos].name
  <2>1. /\ pos \in LabelLines
        /\ name \in Name
        /\ name # NoName
        /\ name.stem # "__region_"
        /\ ir_seq' = ChangeRegion(ir_seq, name)
    BY <1>2, <1>5, ReadLabelChanges DEF FreshLabels, NoReservedLabels, LabelLines
  <2>2. ~ Defines(ir_seq, name)
    BY <1>2, <2>1, FreshIsNew
  <2>3. Opens(ir_seq, ir_seq', name, ir_seq.next_id)
    BY <1>2, <2>1, <2>2, ChangeRegionCases
  <2>4. ir_seq' = PushRegion(ir_seq, name)
    BY <2>1, <2>2 DEF ChangeRegion
  <2>5. ir_seq'.generated_ids = ir_seq.generated_ids
    BY <1>2, <2>1, <2>4, GeneratedIds
  <2>6. Split(ir_seq') /\ ~ EndsInTerminator(LastRegion(ir_seq'))
    BY <1>2, <1>3, <2>1, <2>2, <2>3, <2>5, OpensSplit
  <2>7. need_new_region' = FALSE
    BY <1>5 DEF ReadLabel
  <2>8. QED
    BY <2>6, <2>7
<1>6. CASE ReadInstruction
  <2>1. Opened \in Builder /\ AtEnd(Opened)
    BY <1>2, OpenedCases, OpenedEnd
  <2>2. Split(Opened) /\ ~ EndsInTerminator(LastRegion(Opened))
    <3>1. CASE ~ need_new_region
      BY <1>3, <3>1 DEF Opened
    <3>2. CASE need_new_region
      <4> DEFINE name == Generated(ir_seq.next_id)
      <4>1. Opened = PushGenerated(ir_seq)
        BY <3>2 DEF Opened, ChangeRegion
      <4>2. Opens(ir_seq, Opened, name, ir_seq.next_id + 1)
        BY <1>2, <4>1, PushGeneratedOpens DEF Builder
      <4>3. name \in Name /\ ~ Defines(ir_seq, name) /\ name.stem = "__region_"
        BY <1>2, GeneratedIsNew DEF Generated
      <4>4. Opened.generated_ids = ir_seq.generated_ids \cup {name}
        BY <1>2, <4>1, GeneratedIds
      <4> HIDE DEF name
      <4>5. QED
        BY <1>2, <1>3, <3>2, <4>2, <4>3, <4>4, OpensSplit
    <3>3. QED
      BY <3>1, <3>2
  <2>3. NodeOf(pos) \in Node /\ NodeOf(pos).op = text[pos].op
    BY <1>6, ReadInstructionAdds, TextType DEF NodeOf
  <2>4. Adds(Opened, ir_seq', NodeOf(pos))
    BY <1>6, ReadInstructionAdds
  <2>5. ir_seq'.generated_ids = Opened.generated_ids
    BY <1>6, <2>1, <2>3, GeneratedIds DEF ReadInstruction, Opened
  <2>6. /\ Split(ir_seq')
        /\ EndsInTerminator(LastRegion(ir_seq')) <=> NodeOf(pos).op \in Terminators
    BY <2>1, <2>2, <2>3, <2>4, <2>5, AddsSplit
  <2>7. need_new_region' = (text[pos].op \in Terminators)
    BY <1>6 DEF ReadInstruction, EndsRegion
  <2>8. QED
    BY <2>3, <2>6, <2>7
<1>7. QED
  BY <1>4, <1>5, <1>6 DEF Next

LEMMA SplitAlways == Spec => []SplitInv
<1>1. Init => SplitInv
  <2> SUFFICES ASSUME Init
               PROVE  /\ Split(ir_seq)
                      /\ need_new_region <=> EndsInTerminator(LastRegion(ir_seq))
    BY DEF SplitInv
  <2>1. /\ ir_seq = New("V0") /\ need_new_region = FALSE
        /\ Len(ir_seq.regions) = 1
        /\ ir_seq.regions[1] = [id |-> Generated(0), nodes |-> <<>>]
        /\ DOMAIN ir_seq.regions = {1}
    BY NewOpens DEF Init, Builder, IrSeqOf
  <2>2. ir_seq.generated_ids = {Generated(0)}
    <3> DEFINE blank == [version |-> "V0", regions |-> <<>>, generated_ids |-> {},
                         current_region |-> 0, next_id |-> 0]
    <3>1. New("V0").generated_ids = {Generated(0)}
      BY DEF New, PushGenerated, PushRegion
    <3>2. QED
      BY <2>1, <3>1
  <2>3. \A name \in ir_seq.generated_ids : name.stem = "__region_"
    BY <2>2 DEF Generated
  <2>4. LastRegion(ir_seq) = ir_seq.regions[1] /\ ir_seq.regions[1].nodes = <<>>
    BY <2>1 DEF LastRegion
  <2>5. QED
    BY <2>1, <2>3, <2>4 DEF Split, SplitAtEnd, EndsInTerminator
<1>2. TypeOK /\ EndInv /\ IdsInv /\ SplitInv /\ [Next]_vars => SplitInv'
  <2>1. ASSUME SplitInv, UNCHANGED vars PROVE SplitInv'
    BY <2>1 DEF SplitInv, vars, FreshLabels, NoReservedLabels, LabelLines, Split, LastRegion
  <2>2. QED
    BY <2>1, SplitStep
<1>3. QED
  BY <1>1, <1>2, EndAlways, IdsAlways, TypeCorrect, PTL DEF Spec

(* A text whose labels are fresh is split after each branch, jump and exit *)
(* and at each label, and nowhere else (ir.rs:125-128, 145-147).           *)
THEOREM SplitOnlyAtTerminators == Spec => []RegionsSplitAtTerminators
<1>1. TypeOK /\ SplitInv => RegionsSplitAtTerminators
  <2> SUFFICES ASSUME TypeOK, SplitInv, FreshLabels, NEW r \in DOMAIN Regions
               PROVE  /\ \A i \in DOMAIN Nodes(r) :
                           Nodes(r)[i].op \in Terminators => i = Len(Nodes(r))
                      /\ r > 1 /\ Regions[r].id \in ir_seq.generated_ids =>
                           Nodes(r-1) # <<>> /\ Last(Nodes(r-1)).op \in Terminators
    BY DEF RegionsSplitAtTerminators
  <2>1. QED
    BY DEF SplitInv, Split, SplitAtEnd, EndsInTerminator, Nodes, Regions, Last
<1>2. QED
  BY <1>1, SplitAlways, TypeCorrect, PTL

-----------------------------------------------------------------------------
(* The order of places.  Of a finite set of places each has a rank of its  *)
(* own, every number below the size of the set is a rank, and InOrder      *)
(* lists the set by rank.                                                  *)

Pairs == Nat \X Nat

Precedes(p, q) == Before(p[1], p[2], q[1], q[2])

Below(S, p) == {q \in S : Precedes(q, p)}

LEMMA PrecedesOrder ==
  ASSUME NEW p \in Pairs, NEW q \in Pairs
  PROVE  /\ ~ Precedes(p, p)
         /\ Precedes(p, q) => ~ Precedes(q, p)
         /\ p # q => Precedes(p, q) \/ Precedes(q, p)
         /\ \A o \in Pairs : Precedes(o, p) /\ Precedes(p, q) => Precedes(o, q)
<1>1. /\ p[1] \in Nat /\ p[2] \in Nat /\ q[1] \in Nat /\ q[2] \in Nat
      /\ p = <<p[1], p[2]>> /\ q = <<q[1], q[2]>>
  BY DEF Pairs
<1>2. \A o \in Pairs : o[1] \in Nat /\ o[2] \in Nat
  BY DEF Pairs
<1>3. /\ ~ Precedes(p, p)
      /\ Precedes(p, q) => ~ Precedes(q, p)
      /\ \A o \in Pairs : Precedes(o, p) /\ Precedes(p, q) => Precedes(o, q)
  BY <1>1, <1>2 DEF Precedes, Before
<1>4. p # q => Precedes(p, q) \/ Precedes(q, p)
  <2>1. p # q => p[1] # q[1] \/ p[2] # q[2]
    BY <1>1
  <2>2. QED
    BY <1>1, <2>1 DEF Precedes, Before
<1>5. QED
  BY <1>3, <1>4

LEMMA RankType ==
  ASSUME NEW S \in SUBSET Pairs, IsFiniteSet(S), NEW p \in S
  PROVE  /\ Rank(S, p) = Cardinality(Below(S, p))
         /\ IsFiniteSet(Below(S, p))
         /\ Rank(S, p) \in Nat
         /\ Rank(S, p) < Cardinality(S)
         /\ Cardinality(S) \in Nat
<1>1. Rank(S, p) = Cardinality(Below(S, p))
  BY DEF Rank, Below, Precedes
<1> DEFINE B == Below(S, p)
<1>2. B \in SUBSET S /\ p \notin B /\ B \cup {p} \in SUBSET S
  BY PrecedesOrder DEF Below
<1> HIDE DEF B
<1>3. IsFiniteSet(B) /\ Cardinality(B) \in Nat /\ Cardinality(S) \in Nat
  BY <1>2, FS_Subset, FS_CardinalityType
<1>4. Cardinality(B \cup {p}) = Cardinality(B) + 1
  BY <1>2, <1>3, FS_AddElement
<1>5. Cardinality(B \cup {p}) <= Cardinality(S)
  BY <1>2, FS_Subset
<1>6. QED
  BY <1>1, <1>3, <1>4, <1>5 DEF B

LEMMA RankLess ==
  ASSUME NEW S \in SUBSET Pairs, IsFiniteSet(S), NEW p \in S, NEW q \in S, Precedes(p, q)
  PROVE  Rank(S, p) < Rank(S, q)
<1> DEFINE B == Below(S, p)
           C == Below(S, q)
<1>1. p \notin B /\ B \cup {p} \in SUBSET C
  <2>1. \A o \in B : o \in S /\ Precedes(o, p)
    BY DEF Below
  <2>2. \A o \in B : o \in C
    BY <2>1, PrecedesOrder DEF Below
  <2>3. p \notin B /\ p \in C
    BY PrecedesOrder DEF Below
  <2>4. QED
    BY <2>2, <2>3
<1>2. /\ IsFiniteSet(B) /\ IsFiniteSet(C)
      /\ Rank(S, p) = Cardinality(B) /\ Rank(S, q) = Cardinality(C)
      /\ Cardinality(B) \in Nat /\ Cardinality(C) \in Nat
  BY RankType
<1> HIDE DEF B, C
<1>3. Cardinality(B \cup {p}) = Cardinality(B) + 1
  BY <1>1, <1>2, FS_AddElement
<1>4. Cardinality(B \cup {p}) <= Cardinality(C)
  BY <1>1, <1>2, FS_Subset
<1>5. QED
  BY <1>2, <1>3, <1>4

LEMMA RankInjective ==
  ASSUME NEW S \in SUBSET Pairs, IsFiniteSet(S), NEW p \in S, NEW q \in S,
         Rank(S, p) = Rank(S, q)
  PROVE  p = q
<1>1. Rank(S, p) \in Nat
  BY RankType
<1>2. ~ Precedes(p, q) /\ ~ Precedes(q, p)
  BY <1>1, RankLess
<1>3. QED
  BY <1>2, PrecedesOrder

LEMMA RankOnto ==
  ASSUME NEW S \in SUBSET Pairs, IsFiniteSet(S), NEW k \in 1 .. Cardinality(S)
  PROVE  \E p \in S : Rank(S, p) = k - 1
<1> DEFINE n == Cardinality(S)
           T == 0 .. n - 1
           f == [p \in S |-> Rank(S, p)]
<1>1. n \in Nat /\ n # 0
  BY FS_CardinalityType
<1>2. \A p \in S : Rank(S, p) \in Nat /\ Rank(S, p) < n
  BY RankType
<1> HIDE DEF n
<1>3. f \in Injection(S, T)
  <2>1. f \in [S -> T]
    BY <1>1, <1>2
  <2>2. \A p, q \in S : f[p] = f[q] => p = q
    BY RankInjective
  <2>3. QED
    BY <2>1, <2>2 DEF Injection, IsInjective
<1>4. IsFiniteSet(T) /\ Cardinality(T) = n
  BY <1>1, FS_Interval
<1> HIDE DEF f, T
<1>5. f \in Surjection(S, T)
  BY <1>3, <1>4, FS_Injection DEF n
<1>6. k - 1 \in T
  BY <1>1 DEF n, T
<1>7. PICK p \in S : f[p] = k - 1
  BY <1>5, <1>6 DEF Surjection
<1>8. QED
  BY <1>7 DEF f

LEMMA InOrderFacts ==
  ASSUME NEW S \in SUBSET Pairs, IsFiniteSet(S)
  PROVE  /\ InOrder(S) \in Seq(S)
         /\ Len(InOrder(S)) = Cardinality(S)
         /\ DOMAIN InOrder(S) = 1 .. Cardinality(S)
         /\ \A k \in 1 .. Cardinality(S) : Rank(S, InOrder(S)[k]) = k - 1
         /\ \A p \in S : InOrder(S)[Rank(S, p) + 1] = p
<1> DEFINE n == Cardinality(S)
           s == InOrder(S)
<1>1. n \in Nat
  BY FS_CardinalityType
<1>2. s = [k \in 1 .. n |-> CHOOSE p \in S : Rank(S, p) = k - 1]
  BY DEF InOrder
<1>3. \A k \in 1 .. n : s[k] \in S /\ Rank(S, s[k]) = k - 1
  BY <1>2, RankOnto
<1> HIDE DEF n, s
<1>4. s \in Seq(S) /\ Len(s) = n /\ DOMAIN s = 1 .. n
  BY <1>1, <1>2, <1>3
<1>5. ASSUME NEW p \in S PROVE s[Rank(S, p) + 1] = p
  <2>1. Rank(S, p) \in Nat /\ Rank(S, p) < n
    BY RankType DEF n
  <2> DEFINE k == Rank(S, p) + 1
  <2>2. k \in 1 .. n /\ k - 1 = Rank(S, p)
    BY <1>1, <2>1
  <2> HIDE DEF k
  <2>3. s[k] \in S /\ Rank(S, s[k]) = Rank(S, p)
    BY <1>3, <2>2
  <2>4. s[k] = p
    BY <2>3, RankInjective
  <2>5. QED
    BY <2>4 DEF k
<1>6. QED
  BY <1>3, <1>4, <1>5 DEF n, s

(* A place after all others is listed after all others.                    *)
LEMMA InOrderMore ==
  ASSUME NEW S \in SUBSET Pairs, IsFiniteSet(S), NEW x \in Pairs,
         \A p \in S : Precedes(p, x)
  PROVE  /\ InOrder(S \cup {x}) = Append(InOrder(S), x)
         /\ IsFiniteSet(S \cup {x})
         /\ Cardinality(S \cup {x}) = Cardinality(S) + 1
<1> DEFINE n == Cardinality(S)
           T == S \cup {x}
           s == InOrder(S)
           t == InOrder(T)
<1>1. x \notin S
  BY PrecedesOrder
<1>2. T \in SUBSET Pairs /\ IsFiniteSet(T) /\ Cardinality(T) = n + 1 /\ n \in Nat /\ x \in T
  BY <1>1, FS_AddElement, FS_CardinalityType
<1>3. /\ s \in Seq(S) /\ Len(s) = n
      /\ \A k \in 1 .. n : s[k] \in S /\ Rank(S, s[k]) = k - 1
  BY InOrderFacts
<1>4. /\ t \in Seq(T) /\ Len(t) = n + 1
      /\ \A p \in T : t[Rank(T, p) + 1] = p
  BY <1>2, InOrderFacts
<1>5. ASSUME NEW p \in S PROVE Rank(T, p) = Rank(S, p)
  <2>1. ~ Precedes(x, p)
    BY PrecedesOrder
  <2>2. Below(T, p) = Below(S, p)
    BY <2>1 DEF Below
  <2>3. QED
    BY <1>2, <2>2, RankType
<1>6. Rank(T, x) = n
  <2>1. Below(T, x) = S
    BY PrecedesOrder DEF Below
  <2>2. QED
    BY <1>2, <2>1, RankType
<1> HIDE DEF n, T, s, t
<1>7. \A k \in 1 .. n : t[k] = s[k]
  <2>1. ASSUME NEW k \in 1 .. n PROVE t[k] = s[k]
    <3>1. s[k] \in S /\ s[k] \in T /\ Rank(T, s[k]) = k - 1
      BY <1>3, <1>5 DEF T
    <3>2. t[k - 1 + 1] = s[k]
      BY <1>4, <3>1
    <3>3. k - 1 + 1 = k
      OBVIOUS
    <3>4. QED
      BY <3>2, <3>3
  <2>2. QED
    BY <2>1
<1>8. t[n + 1] = x
  BY <1>2, <1>4, <1>6
<1> DEFINE u == Append(s, x)
<1>9. s \in Seq(T)
  BY <1>3 DEF T
<1>10. /\ u \in Seq(T) /\ Len(u) = n + 1 /\ u[n + 1] = x
       /\ \A k \in 1 .. n : u[k] = s[k]
  BY <1>2, <1>3, <1>9, AppendProperties
<1> HIDE DEF u
<1>11. \A k \in 1 .. Len(t) : t[k] = u[k]
  <2>1. \A k \in 1 .. n + 1 : k \in 1 .. n \/ k = n + 1
    BY <1>2
  <2>2. QED
    BY <1>4, <1>7, <1>8, <1>10, <2>1
<1>12. t = u
  BY <1>4, <1>10, <1>11, SeqEqual
<1>13. QED
  BY <1>2, <1>12 DEF n, T, s, t, u

-----------------------------------------------------------------------------
(* The IR means what the text means: it implements AsmText.                *)

NodeAt(ir, p) == ir.regions[p[1]].nodes[p[2]]

CodeOf(ir) ==
  [k \in DOMAIN InOrder(Places(ir)) |-> NodeAt(ir, InOrder(Places(ir))[k]).line]

BeforeRegion(ir, r) == {p \in Places(ir) : p[1] < r}

Labelled(ir) == {r \in DOMAIN ir.regions : ir.regions[r].id \notin ir.generated_ids}

LabelAt(ir, r) == [name |-> ir.regions[r].id, at |-> Cardinality(BeforeRegion(ir, r)) + 1]

LabelsOf(ir) == {LabelAt(ir, r) : r \in Labelled(ir)}

LEMMA CodeAndLabels == Code = CodeOf(ir_seq) /\ Labels = LabelsOf(ir_seq)
<1>1. Code = CodeOf(ir_seq)
  BY DEF Code, CodeOf, NodeAt, Nodes, Regions
<1>2. Labels = LabelsOf(ir_seq)
  BY DEF Labels, LabelsOf, LabelAt, Labelled, NodesBefore, BeforeRegion, Regions
<1>3. QED
  BY <1>1, <1>2

LEMMA PlaceMember ==
  ASSUME NEW ir \in Builder
  PROVE  /\ Places(ir) \in SUBSET Pairs
         /\ \A p \in Places(ir) : p = <<p[1], p[2]>> /\ Place(ir.regions, p[1], p[2])
         /\ \A r, i : Place(ir.regions, r, i) => <<r, i>> \in Places(ir)
         /\ \A p \in Places(ir) :
              /\ p[1] \in DOMAIN ir.regions /\ p[1] \in Nat
              /\ p[2] \in Nat /\ p[2] > 0
              /\ NodeAt(ir, p) \in Node
<1>1. ASSUME NEW r, NEW i, Place(ir.regions, r, i)
      PROVE  r \in Nat /\ i \in Nat /\ i > 0 /\ ir.regions[r].nodes[i] \in Node
  <2>1. ir.regions \in Seq(Region(Node)) /\ r \in DOMAIN ir.regions
    BY <1>1 DEF Builder, IrSeqOf, Place
  <2>2. r \in Nat /\ ir.regions[r] \in Region(Node)
    BY <2>1
  <2>3. ir.regions[r].nodes \in Seq(Node) /\ i \in DOMAIN ir.regions[r].nodes
    BY <1>1, <2>2 DEF Region, Place
  <2>4. QED
    BY <2>2, <2>3
<1>2. \A p \in Places(ir) : p = <<p[1], p[2]>> /\ Place(ir.regions, p[1], p[2])
  BY DEF Places, Place
<1>3. \A r, i : Place(ir.regions, r, i) => <<r, i>> \in Places(ir)
  BY DEF Places, Place
<1>4. ASSUME NEW p \in Places(ir)
      PROVE  /\ p \in Pairs /\ p[1] \in DOMAIN ir.regions
             /\ p[1] \in Nat /\ p[2] \in Nat /\ p[2] > 0
             /\ NodeAt(ir, p) \in Node
  <2>1. p = <<p[1], p[2]>> /\ Place(ir.regions, p[1], p[2])
    BY <1>2
  <2>2. p[1] \in Nat /\ p[2] \in Nat /\ p[2] > 0 /\ NodeAt(ir, p) \in Node
    BY <1>1, <2>1 DEF NodeAt
  <2>3. QED
    BY <2>1, <2>2 DEF Pairs, Place
<1>5. QED
  BY <1>2, <1>3, <1>4

(* The lines of the places tell them apart, so there are finitely many.    *)
LEMMA PlacesFinite ==
  ASSUME TypeOK, EveryInstructionOnce
  PROVE  IsFiniteSet(Places(ir_seq))
<1> DEFINE f == [p \in Places(ir_seq) |-> NodeAt(ir_seq, p).line]
<1>1. ir_seq \in Builder
  BY DEF TypeOK, Builder
<1>2. Holds(Regions, pos)
  BY OnceHolds
<1>3. ASSUME NEW p \in Places(ir_seq)
      PROVE  /\ p = <<p[1], p[2]>> /\ Place(Regions, p[1], p[2])
             /\ f[p] = At(Regions, p[1], p[2]).line /\ f[p] \in InsLines
  <2>1. p = <<p[1], p[2]>> /\ Place(Regions, p[1], p[2])
    BY <1>1, PlaceMember DEF Regions
  <2>2. f[p] = At(Regions, p[1], p[2]).line
    BY DEF NodeAt, At, Regions
  <2>3. QED
    BY <1>2, <2>1, <2>2 DEF Holds
<1>4. f \in [Places(ir_seq) -> InsLines]
  BY <1>3
<1>5. \A p, q \in Places(ir_seq) : f[p] = f[q] => p = q
  <2>1. ASSUME NEW p \in Places(ir_seq), NEW q \in Places(ir_seq), f[p] = f[q] PROVE p = q
    <3>1. /\ p = <<p[1], p[2]>> /\ Place(Regions, p[1], p[2])
          /\ q = <<q[1], q[2]>> /\ Place(Regions, q[1], q[2])
          /\ At(Regions, p[1], p[2]).line = At(Regions, q[1], q[2]).line
      BY <1>3, <2>1
    <3> HIDE DEF f
    <3>2. p[1] = q[1] /\ p[2] = q[2]
      BY <1>2, <3>1 DEF Holds
    <3>3. QED
      BY <3>1, <3>2
  <2>2. QED
    BY <2>1
<1>6. f \in Injection(Places(ir_seq), InsLines)
  BY <1>4, <1>5 DEF Injection, IsInjective
<1>7. IsFiniteSet(InsLines)
  <2>1. Len(text) \in Nat /\ InsLines \in SUBSET (1 .. Len(text))
    BY TextType DEF InsLines
  <2>2. IsFiniteSet(1 .. Len(text))
    BY <2>1, FS_Interval
  <2>3. QED
    BY <2>1, <2>2, FS_Subset
<1>8. QED
  BY <1>6, <1>7, FS_Injection

LEMMA CodeType ==
  ASSUME NEW ir \in Builder, IsFiniteSet(Places(ir))
  PROVE  /\ CodeOf(ir) \in Seq(Nat)
         /\ Len(CodeOf(ir)) = Cardinality(Places(ir))
         /\ \A k \in 1 .. Len(CodeOf(ir)) :
              /\ InOrder(Places(ir))[k] \in Places(ir)
              /\ CodeOf(ir)[k] = NodeAt(ir, InOrder(Places(ir))[k]).line
<1> DEFINE P == Places(ir)
           s == InOrder(P)
           n == Cardinality(P)
           code == CodeOf(ir)
<1>1. /\ s \in Seq(P) /\ DOMAIN s = 1 .. n /\ n \in Nat
      /\ \A p \in P : NodeAt(ir, p) \in Node
  BY PlaceMember, InOrderFacts, FS_CardinalityType
<1>2. code = [k \in 1 .. n |-> NodeAt(ir, s[k]).line]
  BY <1>1 DEF CodeOf
<1> HIDE DEF P, s, n, code
<1>3. \A k \in 1 .. n : s[k] \in P
  BY <1>1
<1>4. \A k \in 1 .. n : NodeAt(ir, s[k]).line \in Nat
  BY <1>1, <1>3 DEF Node
<1>5. QED
  BY <1>1, <1>2, <1>3, <1>4 DEF P, s, n, code

(* A change of region leaves the code as it is.                            *)
LEMMA SameCode ==
  ASSUME NEW ir \in Builder, NEW new \in Builder, SamePlaces(ir.regions, new.regions),
         IsFiniteSet(Places(ir))
  PROVE  Places(new) = Places(ir) /\ CodeOf(new) = CodeOf(ir)
<1>1. Places(new) = Places(ir)
  <2>1. ASSUME NEW p \in Places(new) PROVE p \in Places(ir)
    <3>1. p = <<p[1], p[2]>> /\ Place(new.regions, p[1], p[2])
      BY PlaceMember
    <3>2. <<p[1], p[2]>> \in Places(ir)
      BY <3>1, PlaceMember DEF SamePlaces
    <3>3. QED
      BY <3>1, <3>2
  <2>2. ASSUME NEW p \in Places(ir) PROVE p \in Places(new)
    <3>1. p = <<p[1], p[2]>> /\ Place(ir.regions, p[1], p[2])
      BY PlaceMember
    <3>2. <<p[1], p[2]>> \in Places(new)
      BY <3>1, PlaceMember DEF SamePlaces
    <3>3. QED
      BY <3>1, <3>2
  <2>3. QED
    BY <2>1, <2>2
<1>2. \A p \in Places(ir) : NodeAt(new, p) = NodeAt(ir, p)
  BY PlaceMember DEF SamePlaces, NodeAt
<1> DEFINE s == InOrder(Places(ir))
           n == Cardinality(Places(ir))
<1>3. DOMAIN s = 1 .. n /\ s \in Seq(Places(ir))
  BY PlaceMember, InOrderFacts
<1>4. \A k \in 1 .. n : NodeAt(new, s[k]) = NodeAt(ir, s[k])
  <2> DEFINE P == Places(ir)
  <2>1. s \in Seq(P) /\ Len(s) = n /\ n \in Nat
    BY PlaceMember, InOrderFacts, FS_CardinalityType
  <2> HIDE DEF s, n, P
  <2>2. \A k \in 1 .. n : s[k] \in P
    BY <2>1
  <2>3. QED
    BY <1>2, <2>2 DEF P
<1>5. CodeOf(new) = [k \in 1 .. n |-> NodeAt(new, s[k]).line]
  BY <1>1, <1>3 DEF CodeOf
<1>6. CodeOf(ir) = [k \in 1 .. n |-> NodeAt(ir, s[k]).line]
  BY <1>3 DEF CodeOf
<1> HIDE DEF s, n
<1>7. QED
  BY <1>1, <1>4, <1>5, <1>6

(* A node at the end of the last region comes last in the code.            *)
LEMMA AddsLast ==
  ASSUME NEW ir \in Builder, NEW new, NEW node \in Node, Adds(ir, new, node),
         AtEnd(ir), IsFiniteSet(Places(ir))
  PROVE  LET x == <<Len(ir.regions), Len(LastRegion(ir).nodes) + 1>>
         IN  /\ x \in Pairs
             /\ Places(new) = Places(ir) \cup {x}
             /\ \A p \in Places(ir) : Precedes(p, x) /\ NodeAt(new, p) = NodeAt(ir, p)
             /\ NodeAt(new, x) = node
<1> DEFINE c == Len(ir.regions)
           n == Len(LastRegion(ir).nodes) + 1
           x == <<c, n>>
<1>1. new \in Builder /\ ir.current_region = c
  BY DEF Adds, AtEnd
<1>2. OnePlaceMore(ir.regions, new.regions, c, n, node)
  BY <1>1, AddsOnePlace DEF LastRegion
<1>3. Places(new) = Places(ir) \cup {x}
  <2> HIDE DEF c, n
  <2>1. ASSUME NEW p \in Places(new) PROVE p \in Places(ir) \cup {x}
    <3>1. p = <<p[1], p[2]>> /\ Place(new.regions, p[1], p[2])
      BY <1>1, PlaceMember
    <3>2. Place(ir.regions, p[1], p[2]) \/ (p[1] = c /\ p[2] = n)
      BY <1>2, <3>1 DEF OnePlaceMore
    <3>3. QED
      BY <3>1, <3>2, PlaceMember
  <2>2. ASSUME NEW p \in Places(ir) PROVE p \in Places(new)
    <3>1. p = <<p[1], p[2]>> /\ Place(ir.regions, p[1], p[2])
      BY PlaceMember
    <3>2. Place(new.regions, p[1], p[2])
      BY <1>2, <3>1 DEF OnePlaceMore
    <3>3. QED
      BY <1>1, <3>1, <3>2, PlaceMember
  <2>3. x \in Places(new)
    BY <1>1, <1>2, PlaceMember DEF OnePlaceMore
  <2>4. QED
    BY <2>1, <2>2, <2>3
<1>4. x \in Pairs /\ x \notin Places(ir)
  <2>1. ~ Place(ir.regions, c, n)
    BY <1>2 DEF OnePlaceMore
  <2> HIDE DEF c, n
  <2>2. x[1] = c /\ x[2] = n
    OBVIOUS
  <2>3. QED
    BY <1>1, <1>3, <2>1, <2>2, PlaceMember
<1>5. ASSUME NEW p \in Places(ir)
      PROVE  Precedes(p, x) /\ NodeAt(new, p) = NodeAt(ir, p)
  <2>1. p \in Pairs /\ Place(ir.regions, p[1], p[2]) /\ p # x
    BY <1>4, PlaceMember
  <2>2. ~ Before(c, n, p[1], p[2])
    BY <1>1, <2>1, LastPlace DEF LastRegion
  <2> HIDE DEF c, n
  <2>3. ~ Precedes(x, p)
    BY <2>2 DEF Precedes
  <2>4. Precedes(p, x)
    BY <1>4, <2>1, <2>3, PrecedesOrder
  <2>5. NodeAt(new, p) = NodeAt(ir, p)
    BY <1>2, <2>1 DEF OnePlaceMore, NodeAt
  <2>6. QED
    BY <2>4, <2>5
<1>6. NodeAt(new, x) = node
  <2> HIDE DEF c, n
  <2>1. QED
    BY <1>2 DEF OnePlaceMore, NodeAt
<1>7. QED
  BY <1>3, <1>4, <1>5, <1>6

LEMMA AddsCode ==
  ASSUME NEW ir \in Builder, NEW new, NEW node \in Node, Adds(ir, new, node),
         AtEnd(ir), IsFiniteSet(Places(ir))
  PROVE  /\ CodeOf(new) = Append(CodeOf(ir), node.line)
         /\ IsFiniteSet(Places(new))
<1>1. PICK x \in Pairs :
        /\ Places(new) = Places(ir) \cup {x}
        /\ \A p \in Places(ir) : Precedes(p, x) /\ NodeAt(new, p) = NodeAt(ir, p)
        /\ NodeAt(new, x) = node
  BY AddsLast
<1>2. new \in Builder /\ Places(ir) \in SUBSET Pairs
  BY PlaceMember DEF Adds
<1> DEFINE n == Cardinality(Places(ir))
           s == InOrder(Places(ir))
           t == InOrder(Places(new))
           old == CodeOf(ir)
           code == CodeOf(new)
<1>3. /\ t = Append(s, x) /\ IsFiniteSet(Places(new)) /\ Cardinality(Places(new)) = n + 1
  BY <1>1, <1>2, InOrderMore
<1>4. /\ s \in Seq(Places(ir)) /\ Len(s) = n /\ n \in Nat /\ node.line \in Nat
  BY <1>2, InOrderFacts, FS_CardinalityType DEF Node
<1>5. /\ old \in Seq(Nat) /\ Len(old) = n
      /\ \A k \in 1 .. n : old[k] = NodeAt(ir, s[k]).line
  BY CodeType
<1>6. /\ code \in Seq(Nat) /\ Len(code) = n + 1
      /\ \A k \in 1 .. n + 1 : code[k] = NodeAt(new, t[k]).line
  BY <1>2, <1>3, CodeType
<1> DEFINE u == Append(old, node.line)
<1> HIDE DEF n, s, t, old, code
<1>7. \A k \in 1 .. n : t[k] = s[k] /\ s[k] \in Places(ir)
  BY <1>1, <1>3, <1>4
<1>8. t[n + 1] = x
  <2>1. s \in Seq(Pairs)
    BY <1>2, <1>4
  <2>2. QED
    BY <1>3, <1>4, <2>1, AppendProperties
<1>9. \A k \in 1 .. n : code[k] = old[k]
  BY <1>1, <1>4, <1>5, <1>6, <1>7
<1>10. code[n + 1] = node.line
  BY <1>1, <1>4, <1>6, <1>8
<1>11. /\ u \in Seq(Nat) /\ Len(u) = n + 1 /\ u[n + 1] = node.line
       /\ \A k \in 1 .. n : u[k] = old[k]
  BY <1>4, <1>5, AppendProperties
<1> HIDE DEF u
<1>12. \A k \in 1 .. n + 1 : code[k] = u[k]
  <2>1. \A k \in 1 .. n + 1 : k \in 1 .. n \/ k = n + 1
    BY <1>4
  <2>2. QED
    BY <1>9, <1>10, <1>11, <2>1
<1>13. code = u
  BY <1>6, <1>11, <1>12, SeqEqual
<1>14. QED
  BY <1>3, <1>13 DEF code, u, old

(* The labels when a region is opened under a label, when one is opened    *)
(* under a generated name, and when a node is added.                       *)
LEMMA OpensLabelled ==
  ASSUME NEW ir \in Builder, NEW new, NEW name \in Name, NEW next,
         Opens(ir, new, name, next), IsFiniteSet(Places(ir)),
         name.stem # "__region_", Split(ir), new.generated_ids = ir.generated_ids
  PROVE  LabelsOf(new) = LabelsOf(ir) \cup {[name |-> name, at |-> Len(CodeOf(ir)) + 1]}
<1> DEFINE n == Len(ir.regions)
<1>1. /\ ir.regions \in Seq(Region(Node)) /\ new.regions \in Seq(Region(Node))
      /\ Len(new.regions) = n + 1 /\ n \in Nat /\ new \in Builder
  BY DEF Opens, Builder, IrSeqOf
<1>2. DOMAIN ir.regions = 1 .. n /\ DOMAIN new.regions = 1 .. n + 1
  BY <1>1
<1>3. /\ new.regions[n + 1].id = name
      /\ \A r \in 1 .. n : new.regions[r] = ir.regions[r]
  BY <1>1, <1>2 DEF Opens
<1>4. Places(new) = Places(ir) /\ Len(CodeOf(ir)) = Cardinality(Places(ir))
  BY <1>1, OpensSamePlaces, SameCode, CodeType
<1>5. name \notin new.generated_ids
  BY DEF Split
<1>6. \A p \in Places(ir) : p[1] \in 1 .. n
  BY <1>2, PlaceMember
<1> HIDE DEF n
<1>7. Labelled(new) = Labelled(ir) \cup {n + 1}
  <2>1. \A r : r \in 1 .. n + 1 <=> r \in 1 .. n \/ r = n + 1
    BY <1>1
  <2>2. QED
    BY <1>2, <1>3, <1>5, <2>1 DEF Labelled
<1>8. \A r \in Labelled(ir) : LabelAt(new, r) = LabelAt(ir, r)
  BY <1>2, <1>3, <1>4 DEF Labelled, LabelAt, BeforeRegion
<1>9. LabelAt(new, n + 1) = [name |-> name, at |-> Len(CodeOf(ir)) + 1]
  <2>1. \A p \in Places(ir) : p[1] < n + 1
    BY <1>1, <1>6
  <2>2. BeforeRegion(new, n + 1) = Places(ir)
    BY <1>4, <2>1 DEF BeforeRegion
  <2>3. QED
    BY <1>3, <1>4, <2>2 DEF LabelAt
<1>10. QED
  BY <1>7, <1>8, <1>9 DEF LabelsOf

LEMMA OpensUnlabelled ==
  ASSUME NEW ir \in Builder, NEW new, NEW name, NEW next,
         Opens(ir, new, name, next), IsFiniteSet(Places(ir)),
         ~ Defines(ir, name), new.generated_ids = ir.generated_ids \cup {name}
  PROVE  LabelsOf(new) = LabelsOf(ir)
<1> DEFINE n == Len(ir.regions)
<1>1. /\ ir.regions \in Seq(Region(Node)) /\ new.regions \in Seq(Region(Node))
      /\ Len(new.regions) = n + 1 /\ n \in Nat /\ new \in Builder
  BY DEF Opens, Builder, IrSeqOf
<1>2. DOMAIN ir.regions = 1 .. n /\ DOMAIN new.regions = 1 .. n + 1
  BY <1>1
<1>3. /\ new.regions[n + 1].id = name
      /\ \A r \in 1 .. n : new.regions[r] = ir.regions[r]
  BY <1>1, <1>2 DEF Opens
<1>4. Places(new) = Places(ir)
  BY <1>1, OpensSamePlaces, SameCode
<1>5. \A r \in 1 .. n : ir.regions[r].id # name
  BY <1>2 DEF Defines
<1> HIDE DEF n
<1>6. Labelled(new) = Labelled(ir)
  <2>1. \A r : r \in 1 .. n + 1 <=> r \in 1 .. n \/ r = n + 1
    BY <1>1
  <2>2. QED
    BY <1>2, <1>3, <1>5, <2>1 DEF Labelled
<1>7. \A r \in Labelled(ir) : LabelAt(new, r) = LabelAt(ir, r)
  BY <1>2, <1>3, <1>4 DEF Labelled, LabelAt, BeforeRegion
<1>8. QED
  BY <1>6, <1>7 DEF LabelsOf

LEMMA AddsLabels ==
  ASSUME NEW ir \in Builder, NEW new, NEW node \in Node, Adds(ir, new, node),
         AtEnd(ir), IsFiniteSet(Places(ir)), new.generated_ids = ir.generated_ids
  PROVE  LabelsOf(new) = LabelsOf(ir)
<1>1. PICK x \in Pairs :
        Places(new) = Places(ir) \cup {x} /\ x[1] = Len(ir.regions)
  BY AddsLast
<1>2. Labelled(new) = Labelled(ir)
  BY AddsIds DEF Labelled
<1>3. ASSUME NEW r \in Labelled(ir) PROVE LabelAt(new, r) = LabelAt(ir, r)
  <2>1. r \in Nat /\ r <= Len(ir.regions) /\ Len(ir.regions) \in Nat
    BY DEF Labelled, Builder, IrSeqOf
  <2>2. ~ (x[1] < r)
    BY <1>1, <2>1
  <2>3. BeforeRegion(new, r) = BeforeRegion(ir, r)
    BY <1>1, <2>2 DEF BeforeRegion
  <2>4. new.regions[r].id = ir.regions[r].id
    BY AddsIds DEF Labelled
  <2>5. QED
    BY <2>3, <2>4 DEF LabelAt
<1>4. QED
  BY <1>2, <1>3 DEF LabelsOf

LEMMA MeaningStep ==
  ASSUME TypeOK, EveryInstructionOnce, EndInv, IdsInv, SplitInv, FreshLabels, Next
  PROVE  \/ /\ AtLine("blank")
            /\ CodeOf(ir_seq') = CodeOf(ir_seq) /\ LabelsOf(ir_seq') = LabelsOf(ir_seq)
         \/ /\ AtLine("ins")
            /\ CodeOf(ir_seq') = Append(CodeOf(ir_seq), pos)
            /\ LabelsOf(ir_seq') = LabelsOf(ir_seq)
         \/ /\ AtLine("label")
            /\ CodeOf(ir_seq') = CodeOf(ir_seq)
            /\ LabelsOf(ir_seq') =
                 LabelsOf(ir_seq)
                 \cup {[name |-> text[pos].name, at |-> Len(CodeOf(ir_seq)) + 1]}
<1>1. /\ AtEnd(ir_seq) /\ FromText(ir_seq, pos) /\ ir_seq \in Builder
      /\ Numbered(ir_seq) /\ Split(ir_seq) /\ need_new_region \in BOOLEAN
  BY DEF FreshLabels, EndInv, IdsInv, SplitInv, TypeOK, Builder
<1>2. IsFiniteSet(Places(ir_seq))
  BY PlacesFinite
<1>3. CASE SkipBlank
  BY <1>3 DEF SkipBlank
<1>4. CASE ReadLabel
  <2> DEFINE name == text[pos].name
  <2>1. /\ pos \in LabelLines
        /\ name \in Name
        /\ name # NoName
        /\ name.stem # "__region_"
        /\ ir_seq' = ChangeRegion(ir_seq, name)
    BY <1>4, ReadLabelChanges DEF FreshLabels, NoReservedLabels, LabelLines
  <2>2. ~ Defines(ir_seq, name)
    BY <1>1, <2>1, FreshIsNew
  <2>3. Opens(ir_seq, ir_seq', name, ir_seq.next_id)
    BY <1>1, <2>1, <2>2, ChangeRegionCases
  <2>4. ir_seq' = PushRegion(ir_seq, name)
    BY <2>1, <2>2 DEF ChangeRegion
  <2>5. ir_seq'.generated_ids = ir_seq.generated_ids
    BY <1>1, <2>1, <2>4, GeneratedIds
  <2>6. ir_seq' \in Builder
    BY <2>3 DEF Opens
  <2> HIDE DEF name
  <2>7. CodeOf(ir_seq') = CodeOf(ir_seq)
    BY <1>1, <1>2, <2>3, <2>6, OpensSamePlaces, SameCode
  <2>8. LabelsOf(ir_seq') = LabelsOf(ir_seq) \cup {[name |-> name, at |-> Len(CodeOf(ir_seq)) + 1]}
    BY <1>1, <1>2, <2>1, <2>3, <2>5, OpensLabelled
  <2>9. QED
    BY <1>4, <2>7, <2>8 DEF ReadLabel, name
<1>5. CASE ReadInstruction
  <2>1. Opened \in Builder /\ AtEnd(Opened)
    BY <1>1, OpenedCases, OpenedEnd
  <2>2. /\ IsFiniteSet(Places(Opened))
        /\ CodeOf(Opened) = CodeOf(ir_seq) /\ LabelsOf(Opened) = LabelsOf(ir_seq)
    <3>1. CASE ~ need_new_region
      BY <1>2, <3>1 DEF Opened
    <3>2. CASE need_new_region
      <4> DEFINE name == Generated(ir_seq.next_id)
      <4>1. Opened = PushGenerated(ir_seq)
        BY <3>2 DEF Opened, ChangeRegion
      <4>2. Opens(ir_seq, Opened, name, ir_seq.next_id + 1)
        BY <1>1, <4>1, PushGeneratedOpens DEF Builder
      <4>3. ~ Defines(ir_seq, name)
        BY <1>1, GeneratedIsNew
      <4>4. Opened.generated_ids = ir_seq.generated_ids \cup {name}
        BY <1>1, <4>1, GeneratedIds
      <4> HIDE DEF name
      <4>5. SamePlaces(ir_seq.regions, Opened.regions)
        BY <1>1, <4>2, OpensSamePlaces
      <4>6. Places(Opened) = Places(ir_seq) /\ CodeOf(Opened) = CodeOf(ir_seq)
        BY <1>1, <1>2, <2>1, <4>5, SameCode
      <4>7. LabelsOf(Opened) = LabelsOf(ir_seq)
        BY <1>1, <1>2, <4>2, <4>3, <4>4, OpensUnlabelled
      <4>8. QED
        BY <1>2, <4>6, <4>7
    <3>3. QED
      BY <1>1, <3>1, <3>2
  <2>3. NodeOf(pos) \in Node /\ NodeOf(pos).line = pos
    BY <1>5, ReadInstructionAdds, TextType
  <2>4. Adds(Opened, ir_seq', NodeOf(pos))
    BY <1>5, ReadInstructionAdds
  <2>5. ir_seq'.generated_ids = Opened.generated_ids
    BY <1>5, <2>1, <2>3, GeneratedIds DEF ReadInstruction, Opened
  <2>6. CodeOf(ir_seq') = Append(CodeOf(Opened), pos)
    BY <2>1, <2>2, <2>3, <2>4, AddsCode
  <2>7. LabelsOf(ir_seq') = LabelsOf(Opened)
    BY <2>1, <2>2, <2>3, <2>4, <2>5, AddsLabels
  <2>8. QED
    BY <1>5, <2>2, <2>6, <2>7 DEF ReadInstruction
<1>6. QED
  BY <1>3, <1>4, <1>5 DEF Next

(* The translation of a text whose labels are fresh implements AsmText:    *)
(* its instructions in the order of the text, each label at the next one,  *)
(* settled when they are read and never changed again (ir.rs:108-151).     *)
THEOREM TranslationMeansText == Spec => ImplementsAsmText
<1>1. Init => (FreshLabels => Asm!Init)
  <2> SUFFICES ASSUME Init PROVE Code = <<>> /\ Labels = {}
    BY DEF Init, Asm!Init
  <2>1. ir_seq = New("V0") /\ ir_seq \in Builder /\ DOMAIN ir_seq.regions = {1}
    BY NewOpens DEF Init, Builder, IrSeqOf
  <2>2. ir_seq.regions[1].nodes = <<>> /\ ir_seq.regions[1].id = Generated(0)
    BY <2>1, NewOpens
  <2>3. Generated(0) \in ir_seq.generated_ids
    BY <2>1 DEF New, PushGenerated, PushRegion
  <2>4. Labels = {}
    BY <2>1, <2>2, <2>3 DEF Labels, Regions
  <2>5. Places(ir_seq) = {}
    BY <2>1, <2>2 DEF Places
  <2>6. CodeOf(ir_seq) \in Seq(Nat) /\ Len(CodeOf(ir_seq)) = 0
    BY <2>1, <2>5, CodeType, FS_EmptySet
  <2>7. CodeOf(ir_seq) = <<>>
    BY <2>6, EmptySeq
  <2>8. QED
    BY <2>4, <2>7, CodeAndLabels
<1>2. TypeOK /\ EveryInstructionOnce /\ EndInv /\ IdsInv /\ SplitInv /\ [Next]_vars
        => (FreshLabels => [Asm!Next]_<<text, pos, Code, Labels>>)
  <2>1. /\ Code = CodeOf(ir_seq) /\ Labels = LabelsOf(ir_seq)
        /\ Code' = CodeOf(ir_seq') /\ Labels' = LabelsOf(ir_seq')
    BY CodeAndLabels DEF Code, Labels, CodeOf, LabelsOf, NodeAt, LabelAt, Labelled,
                         NodesBefore, BeforeRegion, Nodes, Regions
  <2>2. ASSUME TypeOK, EveryInstructionOnce, EndInv, IdsInv, SplitInv, FreshLabels, Next
        PROVE  Asm!Next
    BY <2>1, <2>2, MeaningStep DEF Asm!Next, Asm!Skip, Asm!Emit, Asm!Bind, Asm!Read, AtLine
  <2>3. ASSUME UNCHANGED vars PROVE UNCHANGED <<text, pos, Code, Labels>>
    BY <2>1, <2>3 DEF vars
  <2>4. QED
    BY <2>2, <2>3
<1>3. QED
  BY <1>1, <1>2, TypeCorrect, InstructionsKept, EndAlways, IdsAlways, SplitAlways, PTL
     DEF Spec, ImplementsAsmText

-----------------------------------------------------------------------------
(* Where the labels are: the line of a region's label comes after the      *)
(* lines of the regions before it and before those of all others.          *)

IsLabelOf(ir, p, l, r) ==
  r \in DOMAIN ir.regions /\ l \in LabelLines /\ l < p /\ text[l].name = ir.regions[r].id

LabelsInOrder(ir, p) ==
  /\ \A l \in LabelLines : l < p => \E r : IsLabelOf(ir, p, l, r)
  /\ \A r \in DOMAIN ir.regions :
       ir.regions[r].id.stem = "__region_" => ir.regions[r].id \in ir.generated_ids
  /\ \A l, r, q, j : IsLabelOf(ir, p, l, r) /\ Place(ir.regions, q, j) =>
       /\ q < r => At(ir.regions, q, j).line < l
       /\ ~ (q < r) => l < At(ir.regions, q, j).line
  /\ \A l, r, m, s : IsLabelOf(ir, p, l, r) /\ IsLabelOf(ir, p, m, s) /\ r < s => l < m

LabelInv == FreshLabels => LabelsInOrder(ir_seq, pos)

LEMMA LabelsLater ==
  ASSUME TypeOK, NEW ir, LabelsInOrder(ir, pos), pos \notin LabelLines
  PROVE  LabelsInOrder(ir, pos + 1)
<1>1. \A l \in LabelLines : l < pos + 1 <=> l < pos
  BY TextType DEF TypeOK, LabelLines
<1>2. \A l, r : IsLabelOf(ir, pos + 1, l, r) <=> IsLabelOf(ir, pos, l, r)
  BY <1>1 DEF IsLabelOf
<1>3. QED
  BY <1>1, <1>2 DEF LabelsInOrder

LEMMA OpensLabelInOrder ==
  ASSUME TypeOK, FreshLabels, NEW ir \in Builder, NEW new, NEW next, pos \in LabelLines,
         Opens(ir, new, text[pos].name, next), ~ Defines(ir, text[pos].name),
         new.generated_ids = ir.generated_ids, Holds(ir.regions, pos),
         LabelsInOrder(ir, pos)
  PROVE  LabelsInOrder(new, pos + 1)
<1> DEFINE n == Len(ir.regions)
           name == text[pos].name
<1>1. /\ ir.regions \in Seq(Region(Node)) /\ new.regions \in Seq(Region(Node))
      /\ Len(new.regions) = n + 1 /\ n \in Nat /\ new \in Builder
  BY DEF Opens, Builder, IrSeqOf
<1>2. DOMAIN ir.regions = 1 .. n /\ DOMAIN new.regions = 1 .. n + 1
  BY <1>1
<1>3. /\ new.regions[n + 1].id = name
      /\ \A r \in 1 .. n : new.regions[r] = ir.regions[r]
  BY <1>1, <1>2 DEF Opens
<1>4. /\ pos \in Nat /\ LabelLines \subseteq Nat
      /\ \A l \in LabelLines : l < pos + 1 <=> l < pos \/ l = pos
  BY TextType DEF TypeOK, LabelLines
<1>5. SamePlaces(ir.regions, new.regions)
  BY OpensSamePlaces
<1>6. \A q, j : Place(new.regions, q, j) =>
        /\ Place(ir.regions, q, j) /\ q \in 1 .. n
        /\ At(new.regions, q, j) = At(ir.regions, q, j)
        /\ At(new.regions, q, j).line < pos
  BY <1>2, <1>5 DEF SamePlaces, At, Holds, Place
<1>7. name.stem # "__region_" /\ \A l \in LabelLines : text[l].name = name => l = pos
  BY DEF FreshLabels, NoReservedLabels
<1>8. \A r \in 1 .. n : ir.regions[r].id # name
  BY <1>2 DEF Defines
<1> HIDE DEF n, name
<1>9. \A r : r \in 1 .. n + 1 <=> r \in 1 .. n \/ r = n + 1
  BY <1>1
<1>10. \A l, r : IsLabelOf(new, pos + 1, l, r) <=>
         IsLabelOf(ir, pos, l, r) \/ (l = pos /\ r = n + 1)
  <2>1. ASSUME NEW l, NEW r, IsLabelOf(new, pos + 1, l, r)
        PROVE  IsLabelOf(ir, pos, l, r) \/ (l = pos /\ r = n + 1)
    <3>1. /\ r \in 1 .. n + 1 /\ l \in LabelLines /\ (l < pos \/ l = pos)
          /\ text[l].name = new.regions[r].id
      BY <1>2, <1>4, <2>1 DEF IsLabelOf
    <3>2. CASE r = n + 1
      BY <1>3, <1>7, <3>1, <3>2
    <3>3. CASE r \in 1 .. n
      <4>1. text[l].name = ir.regions[r].id /\ l # pos
        BY <1>3, <1>8, <3>1, <3>3 DEF name
      <4>2. QED
        BY <1>2, <3>1, <3>3, <4>1 DEF IsLabelOf
    <3>4. QED
      BY <1>9, <3>1, <3>2, <3>3
  <2>2. ASSUME NEW l, NEW r, IsLabelOf(ir, pos, l, r) PROVE IsLabelOf(new, pos + 1, l, r)
    <3>1. r \in 1 .. n /\ l \in LabelLines /\ l < pos /\ text[l].name = ir.regions[r].id
      BY <1>2, <2>2 DEF IsLabelOf
    <3>2. r \in 1 .. n + 1 /\ l < pos + 1 /\ text[l].name = new.regions[r].id
      BY <1>3, <1>4, <1>9, <3>1
    <3>3. QED
      BY <1>2, <3>1, <3>2 DEF IsLabelOf
  <2>3. IsLabelOf(new, pos + 1, pos, n + 1)
    BY <1>2, <1>3, <1>4, <1>9 DEF IsLabelOf, name
  <2>4. QED
    BY <2>1, <2>2, <2>3
<1>11. \A l, r : IsLabelOf(ir, pos, l, r) => r \in 1 .. n /\ l \in Nat /\ l < pos
  BY <1>2, <1>4 DEF IsLabelOf
<1>12. \A l \in LabelLines : l < pos + 1 => \E r : IsLabelOf(new, pos + 1, l, r)
  BY <1>4, <1>10 DEF LabelsInOrder
<1>13. \A r \in DOMAIN new.regions :
         new.regions[r].id.stem = "__region_" => new.regions[r].id \in new.generated_ids
  BY <1>2, <1>3, <1>7, <1>9 DEF LabelsInOrder
<1>14. ASSUME NEW l, NEW r, NEW q, NEW j,
              IsLabelOf(new, pos + 1, l, r), Place(new.regions, q, j)
       PROVE  /\ q < r => At(new.regions, q, j).line < l
              /\ ~ (q < r) => l < At(new.regions, q, j).line
  <2>1. CASE IsLabelOf(ir, pos, l, r)
    BY <1>6, <1>14, <2>1 DEF LabelsInOrder
  <2>2. CASE l = pos /\ r = n + 1
    <3>1. q \in 1 .. n /\ At(new.regions, q, j).line < pos
      BY <1>6, <1>14
    <3>2. q < n + 1
      BY <1>1, <3>1
    <3>3. QED
      BY <2>2, <3>1, <3>2
  <2>3. QED
    BY <1>10, <1>14, <2>1, <2>2
<1>15. ASSUME NEW l, NEW r, NEW m, NEW s,
              IsLabelOf(new, pos + 1, l, r), IsLabelOf(new, pos + 1, m, s), r < s
       PROVE  l < m
  <2>1. CASE IsLabelOf(ir, pos, l, r) /\ IsLabelOf(ir, pos, m, s)
    BY <1>15, <2>1 DEF LabelsInOrder
  <2>2. CASE IsLabelOf(ir, pos, l, r) /\ m = pos
    BY <1>11, <2>2
  <2>3. CASE r = n + 1
    <3>1. s \in 1 .. n + 1
      BY <1>2, <1>15 DEF IsLabelOf
    <3>2. QED
      BY <1>1, <1>15, <2>3, <3>1
  <2>4. QED
    BY <1>10, <1>15, <2>1, <2>2, <2>3
<1>16. QED
  BY <1>12, <1>13, <1>14, <1>15 DEF LabelsInOrder

LEMMA OpensUnlabelledInOrder ==
  ASSUME FreshLabels, NEW ir \in Builder, NEW new, NEW name, NEW next, NEW p,
         Opens(ir, new, name, next), name.stem = "__region_",
         new.generated_ids = ir.generated_ids \cup {name}, LabelsInOrder(ir, p)
  PROVE  LabelsInOrder(new, p)
<1> DEFINE n == Len(ir.regions)
<1>1. /\ ir.regions \in Seq(Region(Node)) /\ new.regions \in Seq(Region(Node))
      /\ Len(new.regions) = n + 1 /\ n \in Nat /\ new \in Builder
  BY DEF Opens, Builder, IrSeqOf
<1>2. DOMAIN ir.regions = 1 .. n /\ DOMAIN new.regions = 1 .. n + 1
  BY <1>1
<1>3. /\ new.regions[n + 1].id = name
      /\ \A r \in 1 .. n : new.regions[r] = ir.regions[r]
  BY <1>1, <1>2 DEF Opens
<1>4. SamePlaces(ir.regions, new.regions)
  BY OpensSamePlaces
<1>5. \A l \in LabelLines : text[l].name # name
  BY DEF FreshLabels, NoReservedLabels
<1> HIDE DEF n
<1>6. \A r : r \in 1 .. n + 1 <=> r \in 1 .. n \/ r = n + 1
  BY <1>1
<1>7. \A l, r : IsLabelOf(new, p, l, r) <=> IsLabelOf(ir, p, l, r)
  BY <1>2, <1>3, <1>5, <1>6 DEF IsLabelOf
<1>8. \A r \in DOMAIN new.regions :
        new.regions[r].id.stem = "__region_" => new.regions[r].id \in new.generated_ids
  BY <1>2, <1>3, <1>6 DEF LabelsInOrder
<1>9. \A q, j : /\ Place(new.regions, q, j) <=> Place(ir.regions, q, j)
                /\ Place(new.regions, q, j) => At(new.regions, q, j) = At(ir.regions, q, j)
  BY <1>4 DEF SamePlaces, At
<1>10. QED
  BY <1>7, <1>8, <1>9 DEF LabelsInOrder

LEMMA AddsInOrder ==
  ASSUME NEW ir \in Builder, NEW new, NEW node \in Node, NEW p, Adds(ir, new, node),
         AtEnd(ir), new.generated_ids = ir.generated_ids, node.line = p, LabelsInOrder(ir, p)
  PROVE  LabelsInOrder(new, p)
<1> DEFINE n == Len(ir.regions)
           i == Len(ir.regions[n].nodes) + 1
<1>1. n \in Nat /\ ir.current_region = n /\ DOMAIN ir.regions = 1 .. n
  BY DEF AtEnd, Builder, IrSeqOf
<1>2. OnePlaceMore(ir.regions, new.regions, n, i, node)
  BY <1>1, AddsOnePlace
<1> HIDE DEF n, i
<1>3. \A l, r : IsLabelOf(new, p, l, r) <=> IsLabelOf(ir, p, l, r)
  BY AddsIds DEF IsLabelOf
<1>4. \A r \in DOMAIN new.regions :
        new.regions[r].id.stem = "__region_" => new.regions[r].id \in new.generated_ids
  BY AddsIds DEF LabelsInOrder
<1>5. ASSUME NEW l, NEW r, NEW q, NEW j, IsLabelOf(ir, p, l, r), Place(new.regions, q, j)
      PROVE  /\ q < r => At(new.regions, q, j).line < l
             /\ ~ (q < r) => l < At(new.regions, q, j).line
  <2>1. CASE Place(ir.regions, q, j)
    <3>1. At(new.regions, q, j) = At(ir.regions, q, j)
      BY <1>2, <2>1 DEF OnePlaceMore, At
    <3>2. QED
      BY <1>5, <2>1, <3>1 DEF LabelsInOrder
  <2>2. CASE q = n /\ j = i
    <3>1. At(new.regions, q, j).line = p
      BY <1>2, <2>2 DEF OnePlaceMore, At
    <3>2. r \in 1 .. n /\ l < p
      BY <1>1, <1>5 DEF IsLabelOf
    <3>3. ~ (n < r)
      BY <1>1, <3>2
    <3>4. QED
      BY <2>2, <3>1, <3>2, <3>3
  <2>3. QED
    BY <1>2, <1>5, <2>1, <2>2 DEF OnePlaceMore
<1>6. QED
  BY <1>3, <1>4, <1>5 DEF LabelsInOrder

LEMMA LabelStep ==
  ASSUME TypeOK, EveryInstructionOnce, EndInv, IdsInv, LabelInv, Next
  PROVE  LabelInv'
<1> SUFFICES ASSUME FreshLabels' PROVE LabelsInOrder(ir_seq', pos + 1)
  BY StepPlaces DEF LabelInv, LabelsInOrder, IsLabelOf, LabelLines
<1>1. text' = text
  BY StepPlaces
<1>2. /\ FreshLabels /\ AtEnd(ir_seq) /\ FromText(ir_seq, pos) /\ ir_seq \in Builder
      /\ Numbered(ir_seq) /\ need_new_region \in BOOLEAN
  BY <1>1 DEF FreshLabels, NoReservedLabels, LabelLines, EndInv, IdsInv, TypeOK, Builder
<1>3. LabelsInOrder(ir_seq, pos) /\ Holds(ir_seq.regions, pos)
  BY <1>2, OnceHolds DEF LabelInv, Regions
<1>4. CASE SkipBlank
  <2>1. pos \notin LabelLines /\ ir_seq' = ir_seq
    BY <1>4 DEF SkipBlank, AtLine, LabelLines
  <2>2. QED
    BY <1>3, <2>1, LabelsLater
<1>5. CASE ReadLabel
  <2> DEFINE name == text[pos].name
  <2>1. /\ pos \in LabelLines
        /\ name \in Name
        /\ name # NoName
        /\ ir_seq' = ChangeRegion(ir_seq, name)
    BY <1>2, <1>5, ReadLabelChanges DEF FreshLabels, NoReservedLabels, LabelLines
  <2>2. ~ Defines(ir_seq, name)
    BY <1>2, <2>1, FreshIsNew
  <2>3. Opens(ir_seq, ir_seq', name, ir_seq.next_id)
    BY <1>2, <2>1, <2>2, ChangeRegionCases
  <2>4. ir_seq' = PushRegion(ir_seq, name)
    BY <2>1, <2>2 DEF ChangeRegion
  <2>5. ir_seq'.generated_ids = ir_seq.generated_ids
    BY <1>2, <2>1, <2>4, GeneratedIds
  <2>6. QED
    BY <1>2, <1>3, <2>1, <2>2, <2>3, <2>5, OpensLabelInOrder
<1>6. CASE ReadInstruction
  <2>1. Opened \in Builder /\ AtEnd(Opened)
    BY <1>2, OpenedCases, OpenedEnd
  <2>2. LabelsInOrder(Opened, pos)
    <3>1. CASE ~ need_new_region
      BY <1>3, <3>1 DEF Opened
    <3>2. CASE need_new_region
      <4> DEFINE name == Generated(ir_seq.next_id)
      <4>1. Opened = PushGenerated(ir_seq)
        BY <3>2 DEF Opened, ChangeRegion
      <4>2. Opens(ir_seq, Opened, name, ir_seq.next_id + 1)
        BY <1>2, <4>1, PushGeneratedOpens DEF Builder
      <4>3. name.stem = "__region_"
        BY DEF Generated
      <4>4. Opened.generated_ids = ir_seq.generated_ids \cup {name}
        BY <1>2, <4>1, GeneratedIds
      <4> HIDE DEF name
      <4>5. QED
        BY <1>2, <1>3, <4>2, <4>3, <4>4, OpensUnlabelledInOrder
    <3>3. QED
      BY <1>2, <3>1, <3>2
  <2>3. /\ NodeOf(pos) \in Node /\ NodeOf(pos).line = pos
        /\ Adds(Opened, ir_seq', NodeOf(pos))
    BY <1>6, ReadInstructionAdds, TextType
  <2>4. ir_seq'.generated_ids = Opened.generated_ids
    BY <1>6, <2>1, <2>3, GeneratedIds DEF ReadInstruction, Opened
  <2>5. LabelsInOrder(ir_seq', pos)
    BY <2>1, <2>2, <2>3, <2>4, AddsInOrder
  <2>6. pos \notin LabelLines
    BY <1>6, ReadInstructionAdds DEF LabelLines
  <2>7. QED
    BY <2>5, <2>6, LabelsLater
<1>7. QED
  BY <1>4, <1>5, <1>6 DEF Next

LEMMA LabelAlways == Spec => []LabelInv
<1>1. Init => LabelInv
  <2> SUFFICES ASSUME Init PROVE LabelsInOrder(ir_seq, pos)
    BY DEF LabelInv
  <2>1. /\ ir_seq = New("V0") /\ DOMAIN ir_seq.regions = {1}
        /\ ir_seq.regions[1] = [id |-> Generated(0), nodes |-> <<>>]
    BY NewOpens DEF Init, Builder, IrSeqOf
  <2>2. Generated(0) \in ir_seq.generated_ids
    BY <2>1 DEF New, PushGenerated, PushRegion
  <2>3. text \in Seq(Line) /\ pos = 1
    BY TextsAssumption DEF Init
  <2>4. \A l \in LabelLines : ~ (l < pos)
    BY <2>3 DEF LabelLines
  <2>5. \A l, r : ~ IsLabelOf(ir_seq, pos, l, r)
    BY <2>4 DEF IsLabelOf
  <2>6. ir_seq.regions[1].id \in ir_seq.generated_ids
    BY <2>1, <2>2
  <2>7. QED
    BY <2>1, <2>4, <2>5, <2>6 DEF LabelsInOrder
<1>2. TypeOK /\ EveryInstructionOnce /\ EndInv /\ IdsInv /\ LabelInv /\ [Next]_vars => LabelInv'
  <2>1. ASSUME LabelInv, UNCHANGED vars PROVE LabelInv'
    BY <2>1 DEF LabelInv, vars, FreshLabels, NoReservedLabels, LabelLines, LabelsInOrder,
                IsLabelOf
  <2>2. QED
    BY <2>1, LabelStep
<1>3. QED
  BY <1>1, <1>2, InstructionsKept, EndAlways, IdsAlways, TypeCorrect, PTL DEF Spec

(* Places that stand for numbers, in order and all of them, are listed in  *)
(* the order of those numbers.                                             *)
LEMMA OrderIso ==
  ASSUME NEW S \in SUBSET Pairs, NEW W \in SUBSET Nat, IsFiniteSet(W), NEW f \in [S -> W],
         \A p, q \in S : Precedes(p, q) => f[p] < f[q],
         \A l \in W : \E p \in S : f[p] = l
  PROVE  /\ IsFiniteSet(S) /\ Cardinality(S) = Cardinality(W)
         /\ \A p \in S : Cardinality({m \in W : m <= f[p]}) = Rank(S, p) + 1
<1>1. \A p, q \in S : f[p] < f[q] => Precedes(p, q)
  <2>1. ASSUME NEW p \in S, NEW q \in S, f[p] < f[q] PROVE Precedes(p, q)
    <3>1. f[p] \in Nat /\ f[q] \in Nat
      OBVIOUS
    <3>2. p # q /\ ~ (f[q] < f[p])
      BY <2>1, <3>1
    <3>3. ~ Precedes(q, p)
      BY <3>2
    <3>4. QED
      BY <3>2, <3>3, PrecedesOrder
  <2>2. QED
    BY <2>1
<1>2. \A p, q \in S : f[p] = f[q] => p = q
  <2>1. ASSUME NEW p \in S, NEW q \in S, f[p] = f[q] PROVE p = q
    <3>1. f[p] \in Nat /\ f[q] \in Nat
      OBVIOUS
    <3>2. ~ (f[p] < f[q]) /\ ~ (f[q] < f[p])
      BY <2>1, <3>1
    <3>3. ~ Precedes(p, q) /\ ~ Precedes(q, p)
      BY <3>2
    <3>4. QED
      BY <3>3, PrecedesOrder
  <2>2. QED
    BY <2>1
<1>3. f \in Injection(S, W) /\ f \in Surjection(S, W)
  BY <1>2 DEF Injection, IsInjective, Surjection
<1>4. IsFiniteSet(S) /\ Cardinality(S) = Cardinality(W)
  BY <1>3, FS_Injection
<1>5. ASSUME NEW p \in S
      PROVE  Cardinality({m \in W : m <= f[p]}) = Rank(S, p) + 1
  <2> DEFINE B == Below(S, p)
             V == {m \in W : m < f[p]}
             g == [q \in B |-> f[q]]
  <2>1. f[p] \in Nat /\ f[p] \in W
    OBVIOUS
  <2>2. g \in Surjection(B, V)
    <3>1. ASSUME NEW q \in B PROVE f[q] \in V
      BY DEF Below
    <3>2. ASSUME NEW m \in V PROVE \E q \in B : g[q] = m
      <4>1. PICK q \in S : f[q] = m
        OBVIOUS
      <4>2. q \in B
        BY <1>1, <4>1 DEF Below
      <4>3. QED
        BY <4>1, <4>2
    <3>3. QED
      BY <3>1, <3>2 DEF Surjection
  <2>3. g \in Injection(B, V)
    <3>1. \A q, r \in B : g[q] = g[r] => q = r
      BY <1>2 DEF Below
    <3>2. QED
      BY <2>2, <3>1 DEF Surjection, Injection, IsInjective
  <2>4. IsFiniteSet(V) /\ Cardinality(V) \in Nat
    <3>1. V \in SUBSET W
      OBVIOUS
    <3> HIDE DEF V
    <3>2. QED
      BY <3>1, FS_Subset, FS_CardinalityType
  <2> HIDE DEF g
  <2>5. Cardinality(B) = Cardinality(V)
    <3> HIDE DEF B, V
    <3>1. QED
      BY <2>2, <2>3, <2>4, FS_Injection
  <2>6. {m \in W : m <= f[p]} = V \cup {f[p]} /\ f[p] \notin V
    <3> DEFINE n == f[p]
    <3>1. n \in Nat /\ n \in W
      BY <2>1
    <3> HIDE DEF n
    <3>2. \A m \in W : m <= n <=> m < n \/ m = n
      BY <3>1
    <3>3. ~ (n < n)
      BY <3>1
    <3>4. QED
      BY <3>1, <3>2, <3>3 DEF n
  <2>7. Rank(S, p) = Cardinality(B)
    BY <1>4, RankType
  <2> HIDE DEF B, V
  <2>8. Cardinality(V \cup {f[p]}) = Cardinality(V) + 1
    BY <2>4, <2>6, FS_AddElement
  <2>9. QED
    BY <2>5, <2>6, <2>7, <2>8
<1>6. QED
  BY <1>4, <1>5

(* What a place of the display stands for.                                 *)
IsLine(p, l) ==
  \/ p[2] = 0 /\ IsLabelOf(ir_seq, pos, l, p[1])
  \/ p[2] # 0 /\ NodeAt(ir_seq, p).line = l

LEMMA ShownPlaces ==
  ASSUME TypeOK
  PROVE  /\ LinesShown(ir_seq) \in SUBSET Pairs
         /\ \A p \in LinesShown(ir_seq) :
              /\ p = <<p[1], p[2]>> /\ p[1] \in Nat /\ p[2] \in Nat
              /\ p[2] = 0 => p[1] \in DOMAIN Regions /\ LabelShown(ir_seq, p[1])
              /\ p[2] # 0 => p \in Places(ir_seq) /\ Place(Regions, p[1], p[2])
         /\ \A p \in Places(ir_seq) : p \in LinesShown(ir_seq) /\ p[2] # 0
         /\ \A r \in DOMAIN Regions : LabelShown(ir_seq, r) => <<r, 0>> \in LinesShown(ir_seq)
<1>1. ir_seq \in Builder
  BY DEF TypeOK, Builder
<1>2. ASSUME NEW p \in Places(ir_seq)
      PROVE  /\ p \in LinesShown(ir_seq) /\ p \in Pairs
             /\ p = <<p[1], p[2]>> /\ p[1] \in Nat /\ p[2] \in Nat /\ p[2] # 0
             /\ Place(Regions, p[1], p[2])
  <2>1. p[2] \in Nat /\ p[2] > 0
    BY <1>1, PlaceMember
  <2>2. p[2] # 0
    BY <2>1
  <2>3. QED
    BY <1>1, <2>1, <2>2, PlaceMember DEF LinesShown, Regions
<1>3. ASSUME NEW r \in DOMAIN Regions, LabelShown(ir_seq, r)
      PROVE  <<r, 0>> \in LinesShown(ir_seq) /\ <<r, 0>> \in Pairs
  <2>1. r \in Nat
    BY <1>1 DEF Regions, Builder, IrSeqOf
  <2>2. QED
    BY <1>3, <2>1 DEF LinesShown, Regions, Pairs
<1>4. ASSUME NEW p \in LinesShown(ir_seq)
      PROVE  \/ p \in Places(ir_seq)
             \/ p = <<p[1], 0>> /\ p[1] \in DOMAIN Regions /\ LabelShown(ir_seq, p[1])
                /\ p[2] = 0 /\ p[1] \in Nat
  <2>1. CASE p \notin Places(ir_seq)
    <3>1. PICK r \in DOMAIN Regions : LabelShown(ir_seq, r) /\ p = <<r, 0>>
      BY <2>1 DEF LinesShown, Regions
    <3>2. r \in Nat
      BY <1>1 DEF Regions, Builder, IrSeqOf
    <3>3. QED
      BY <3>1, <3>2
  <2>2. QED
    BY <2>1
<1>5. ASSUME NEW p \in LinesShown(ir_seq)
      PROVE  /\ p \in Pairs
             /\ p = <<p[1], p[2]>> /\ p[1] \in Nat /\ p[2] \in Nat
             /\ p[2] = 0 => p[1] \in DOMAIN Regions /\ LabelShown(ir_seq, p[1])
             /\ p[2] # 0 => p \in Places(ir_seq) /\ Place(Regions, p[1], p[2])
  <2>1. CASE p \in Places(ir_seq)
    BY <1>2, <2>1
  <2>2. CASE p = <<p[1], 0>> /\ p[1] \in DOMAIN Regions /\ LabelShown(ir_seq, p[1])
             /\ p[2] = 0 /\ p[1] \in Nat
    BY <1>3, <2>2
  <2>3. QED
    BY <1>4, <2>1, <2>2
<1>6. QED
  BY <1>2, <1>3, <1>5

(* Each line shown is the line of the text that it stands for.             *)
LEMMA ShownLine ==
  ASSUME TypeOK, EveryInstructionOnce, EndInv, LabelInv, FreshLabels,
         NEW p \in LinesShown(ir_seq)
  PROVE  /\ \E l \in Written : IsLine(p, l)
         /\ \A l : IsLine(p, l) => l \in Written /\ LineShown(ir_seq, p) = text[l]
<1>1. Holds(Regions, pos) /\ FromText(ir_seq, pos) /\ LabelsInOrder(ir_seq, pos)
  BY OnceHolds DEF EndInv, LabelInv
<1>2. /\ \A l \in InsLines : l \in Written /\ text[l] = Ins(text[l].op, text[l].off)
      /\ \A l \in LabelLines : l \in Written /\ text[l] = Label(text[l].name)
  <2>1. ASSUME NEW l \in DOMAIN text
        PROVE  text[l] \in {Blank, Label(text[l].name), Ins(text[l].op, text[l].off)}
    <3>1. text[l] \in Line
      BY TextType
    <3>2. QED
      BY <3>1 DEF Line
  <2>2. /\ Blank.kind = "blank"
        /\ \A name : Label(name).kind = "label"
        /\ \A op, off : Ins(op, off).kind = "ins"
    BY DEF Blank, Label, Ins
  <2>3. \A l \in InsLines : l \in DOMAIN text /\ text[l].kind = "ins"
    BY DEF InsLines
  <2>4. \A l \in LabelLines : l \in DOMAIN text /\ text[l].kind = "label"
    BY DEF LabelLines
  <2>5. \A l \in InsLines : text[l] = Ins(text[l].op, text[l].off)
    BY <2>1, <2>2, <2>3
  <2>6. \A l \in LabelLines : text[l] = Label(text[l].name)
    BY <2>1, <2>2, <2>4
  <2>7. QED
    BY <2>3, <2>4, <2>5, <2>6 DEF Written
<1>3. CASE p[2] # 0
  <2>1. Place(Regions, p[1], p[2]) /\ NodeAt(ir_seq, p) = At(Regions, p[1], p[2])
    BY <1>3, ShownPlaces DEF NodeAt, At, Regions
  <2> DEFINE k == NodeAt(ir_seq, p).line
  <2>2. k \in InsLines /\ NodeAt(ir_seq, p) = NodeOf(k)
    BY <1>1, <2>1 DEF Holds
  <2>3. LineShown(ir_seq, p) = Ins(NodeAt(ir_seq, p).op, NodeAt(ir_seq, p).off)
    BY <1>3 DEF LineShown, NodeAt
  <2>4. NodeOf(k).op = text[k].op /\ NodeOf(k).off = text[k].off
    BY DEF NodeOf
  <2>5. \A l : IsLine(p, l) <=> l = k
    BY <1>3 DEF IsLine
  <2> HIDE DEF k
  <2>6. LineShown(ir_seq, p) = text[k] /\ k \in Written
    BY <1>2, <2>2, <2>3, <2>4
  <2>7. QED
    BY <2>5, <2>6
<1>4. CASE p[2] = 0
  <2>1. p[1] \in DOMAIN ir_seq.regions /\ LabelShown(ir_seq, p[1])
    BY <1>4, ShownPlaces DEF Regions
  <2>2. ir_seq.regions[p[1]].id.stem # "__region_"
    BY <1>1, <2>1 DEF LabelsInOrder, LabelShown
  <2>3. PICK l \in LabelLines : l < pos /\ text[l].name = ir_seq.regions[p[1]].id
    BY <1>1, <2>1, <2>2 DEF FromText
  <2>4. IsLine(p, l)
    BY <1>4, <2>1, <2>3 DEF IsLine, IsLabelOf
  <2>5. LineShown(ir_seq, p) = Label(ir_seq.regions[p[1]].id)
    BY <1>4 DEF LineShown
  <2>6. ASSUME NEW m, IsLine(p, m) PROVE m \in Written /\ LineShown(ir_seq, p) = text[m]
    <3>1. m \in LabelLines /\ text[m].name = ir_seq.regions[p[1]].id
      BY <1>4, <2>6 DEF IsLine, IsLabelOf
    <3>2. QED
      BY <1>2, <2>5, <3>1
  <2>7. QED
    BY <1>2, <2>3, <2>4, <2>6
<1>5. QED
  BY <1>3, <1>4

(* A line shown stands for one line of the text only.                      *)
LEMMA OneLine ==
  ASSUME FreshLabels, NEW p, NEW l, NEW m, IsLine(p, l), IsLine(p, m)
  PROVE  l = m
<1>1. CASE p[2] = 0
  BY <1>1 DEF IsLine, IsLabelOf, FreshLabels
<1>2. CASE p[2] # 0
  BY <1>2 DEF IsLine
<1>3. QED
  BY <1>1, <1>2

(* The display runs through the lines in the order of the text.            *)
LEMMA ShownOrder ==
  ASSUME TypeOK, EveryInstructionOnce, LabelInv, ProgramOrder, FreshLabels,
         NEW p \in LinesShown(ir_seq), NEW q \in LinesShown(ir_seq), Precedes(p, q),
         NEW l, NEW m, IsLine(p, l), IsLine(q, m)
  PROVE  l < m
<1>1. LabelsInOrder(ir_seq, pos)
  BY DEF LabelInv
<1>2. /\ p[1] \in Nat /\ p[2] \in Nat /\ q[1] \in Nat /\ q[2] \in Nat
      /\ p[1] < q[1] \/ (p[1] = q[1] /\ p[2] < q[2])
  BY ShownPlaces DEF Precedes, Before
<1>3. CASE p[2] # 0 /\ q[2] # 0
  <2>1. /\ Place(Regions, p[1], p[2]) /\ Place(Regions, q[1], q[2])
        /\ l = Nodes(p[1])[p[2]].line /\ m = Nodes(q[1])[q[2]].line
    BY <1>3, ShownPlaces DEF IsLine, NodeAt, Nodes, Regions
  <2>2. Before(p[1], p[2], q[1], q[2])
    BY DEF Precedes
  <2>3. QED
    BY <2>1, <2>2 DEF ProgramOrder, Place, Nodes
<1>4. CASE p[2] = 0 /\ q[2] # 0
  <2>1. /\ IsLabelOf(ir_seq, pos, l, p[1]) /\ Place(ir_seq.regions, q[1], q[2])
        /\ m = At(ir_seq.regions, q[1], q[2]).line
    BY <1>4, ShownPlaces DEF IsLine, NodeAt, At, Regions
  <2>2. ~ (q[1] < p[1])
    BY <1>2
  <2>3. QED
    BY <1>1, <2>1, <2>2 DEF LabelsInOrder
<1>5. CASE p[2] # 0 /\ q[2] = 0
  <2>1. /\ IsLabelOf(ir_seq, pos, m, q[1]) /\ Place(ir_seq.regions, p[1], p[2])
        /\ l = At(ir_seq.regions, p[1], p[2]).line
    BY <1>5, ShownPlaces DEF IsLine, NodeAt, At, Regions
  <2>2. p[1] < q[1]
    BY <1>2, <1>5
  <2>3. QED
    BY <1>1, <2>1, <2>2 DEF LabelsInOrder
<1>6. CASE p[2] = 0 /\ q[2] = 0
  <2>1. IsLabelOf(ir_seq, pos, l, p[1]) /\ IsLabelOf(ir_seq, pos, m, q[1])
    BY <1>6 DEF IsLine
  <2>2. p[1] < q[1]
    BY <1>2, <1>6
  <2>3. QED
    BY <1>1, <2>1, <2>2 DEF LabelsInOrder
<1>7. QED
  BY <1>3, <1>4, <1>5, <1>6

(* A label that heads code names a region with nodes: the instruction it   *)
(* heads is in no earlier region, and in no later one either, because an   *)
(* empty region is only left for another label.                            *)
LEMMA LabelHasCode ==
  ASSUME TypeOK, EveryInstructionOnce, IdsInv, EndInv, SplitInv, LabelInv, FreshLabels,
         LabelsHeadCode, Done, NEW l \in LabelLines, NEW r, IsLabelOf(ir_seq, pos, l, r)
  PROVE  LabelShown(ir_seq, r)
<1>1. /\ LabelsInOrder(ir_seq, pos) /\ Split(ir_seq) /\ Unique(ir_seq)
      /\ Holds(ir_seq.regions, pos) /\ FromText(ir_seq, pos)
  BY OnceHolds DEF LabelInv, SplitInv, IdsInv, EndInv, FreshLabels, Regions
<1>2. r \in DOMAIN ir_seq.regions /\ ir_seq.regions[r].id = text[l].name
  BY DEF IsLabelOf
<1>3. ir_seq.regions[r].id \notin ir_seq.generated_ids
  BY <1>1, <1>2 DEF FreshLabels, NoReservedLabels, Split
<1>4. PICK i \in InsLines : i > l /\ \A m \in LabelLines : m <= l \/ m > i
  BY DEF LabelsHeadCode
<1>5. /\ LabelLines \subseteq Nat /\ InsLines \subseteq Nat /\ pos \in Nat
      /\ \A k \in InsLines \cup LabelLines : k < pos
  BY TextType DEF Done, TypeOK, LabelLines, InsLines
<1>6. PICK s, j : Place(ir_seq.regions, s, j) /\ At(ir_seq.regions, s, j) = NodeOf(i)
  BY <1>1, <1>4, <1>5 DEF Holds
<1>7. At(ir_seq.regions, s, j).line = i
  BY <1>6 DEF NodeOf
<1>8. /\ ir_seq.regions \in Seq(Region(Node)) /\ s \in DOMAIN ir_seq.regions
      /\ s \in Nat /\ r \in Nat /\ s <= Len(ir_seq.regions) /\ r >= 1
  BY <1>2, <1>6 DEF TypeOK, IrSeqOf, Place
<1>9. ~ (s < r)
  <2>1. ASSUME s < r PROVE FALSE
    <3>1. i < l
      BY <1>1, <1>6, <1>7, <2>1 DEF LabelsInOrder
    <3>2. QED
      BY <1>4, <1>5, <3>1
  <2>2. QED
    BY <2>1
<1>10. ir_seq.regions[r].nodes # <<>>
  <2>1. CASE s = r
    BY <1>6, <2>1 DEF Place
  <2>2. CASE s # r /\ ir_seq.regions[r].nodes = <<>>
    <3> DEFINE t == r + 1
    <3>1. t \in DOMAIN ir_seq.regions /\ t > 1 /\ t - 1 = r /\ r < t /\ ~ (s < t)
      BY <1>8, <1>9, <2>2
    <3> HIDE DEF t
    <3>2. ir_seq.regions[t].id \notin ir_seq.generated_ids
      <4>1. ~ EndsInTerminator(ir_seq.regions[t - 1])
        BY <2>2, <3>1 DEF EndsInTerminator
      <4>2. QED
        BY <1>1, <3>1, <4>1 DEF Split
    <3>3. ir_seq.regions[t].id.stem # "__region_"
      BY <1>1, <3>1, <3>2 DEF LabelsInOrder
    <3>4. PICK m \in LabelLines : m < pos /\ text[m].name = ir_seq.regions[t].id
      BY <1>1, <3>1, <3>3 DEF FromText
    <3>5. IsLabelOf(ir_seq, pos, m, t)
      BY <3>1, <3>4 DEF IsLabelOf
    <3>6. l < m
      BY <1>1, <3>1, <3>5 DEF LabelsInOrder
    <3>7. m < i
      BY <1>1, <1>6, <1>7, <3>1, <3>5 DEF LabelsInOrder
    <3>8. QED
      BY <1>4, <1>5, <3>6, <3>7
  <2>3. QED
    BY <2>1, <2>2
<1>11. QED
  BY <1>2, <1>3, <1>10 DEF LabelShown, Shown

(* Once the text is read, each of its lines but the blank ones is shown.   *)
LEMMA LinesAreShown ==
  ASSUME TypeOK, EveryInstructionOnce, IdsInv, EndInv, SplitInv, LabelInv, FreshLabels,
         LabelsHeadCode, Done, NEW l \in Written
  PROVE  \E p \in LinesShown(ir_seq) : IsLine(p, l)
<1>1. Holds(ir_seq.regions, pos) /\ LabelsInOrder(ir_seq, pos)
  BY OnceHolds DEF LabelInv, Regions
<1>2. l \in InsLines \/ l \in LabelLines
  BY TextType DEF Written, InsLines, LabelLines, Line
<1>3. l < pos
  BY TextType DEF Done, TypeOK, Written
<1>4. CASE l \in InsLines
  <2>1. PICK r, i : Place(ir_seq.regions, r, i) /\ At(ir_seq.regions, r, i) = NodeOf(l)
    BY <1>1, <1>3, <1>4 DEF Holds
  <2> DEFINE p == <<r, i>>
  <2>2. p \in Places(ir_seq)
    BY <2>1, PlaceMember DEF TypeOK, Builder
  <2>3. NodeAt(ir_seq, p).line = l
    BY <2>1 DEF NodeAt, At, NodeOf
  <2> HIDE DEF p
  <2>4. QED
    BY <2>2, <2>3, ShownPlaces DEF IsLine
<1>5. CASE l \in LabelLines
  <2>1. PICK r : IsLabelOf(ir_seq, pos, l, r)
    BY <1>1, <1>3, <1>5 DEF LabelsInOrder
  <2>2. LabelShown(ir_seq, r)
    BY <1>5, <2>1, LabelHasCode
  <2>3. <<r, 0>> \in LinesShown(ir_seq)
    BY <2>1, <2>2, ShownPlaces DEF IsLabelOf, Regions
  <2>4. QED
    BY <2>1, <2>3 DEF IsLine
<1>6. QED
  BY <1>2, <1>4, <1>5

(* What Display writes of a translated text is that text, provided that    *)
(* its labels are fresh and each heads code (ir.rs:77-92, 108-151).        *)
THEOREM DisplayUndoesTranslation == Spec => []RoundTrip
<1>1. TypeOK /\ EveryInstructionOnce /\ ProgramOrder /\ IdsInv /\ EndInv /\ SplitInv /\ LabelInv
        => RoundTrip
  <2> SUFFICES ASSUME TypeOK, EveryInstructionOnce, ProgramOrder, IdsInv, EndInv, SplitInv,
                      LabelInv, Done, FreshLabels, LabelsHeadCode
               PROVE  /\ Len(Display(ir_seq)) = Cardinality(Written)
                      /\ \A l \in Written :
                           Display(ir_seq)[Cardinality({m \in Written : m <= l})] = text[l]
    BY DEF RoundTrip
  <2> DEFINE E == LinesShown(ir_seq)
             f == [p \in E |-> CHOOSE l \in Written : IsLine(p, l)]
             n == Cardinality(Written)
             d == Display(ir_seq)
  <2>1. \A p \in E : f[p] \in Written /\ IsLine(p, f[p]) /\ LineShown(ir_seq, p) = text[f[p]]
    BY ShownLine
  <2>2. Written \in SUBSET Nat /\ IsFiniteSet(Written) /\ n \in Nat
    <3>1. Len(text) \in Nat /\ Written \in SUBSET (1 .. Len(text))
      BY TextType DEF Written
    <3>2. IsFiniteSet(1 .. Len(text)) /\ \A k \in 1 .. Len(text) : k \in Nat
      BY <3>1, FS_Interval
    <3>3. IsFiniteSet(Written)
      BY <3>1, <3>2, FS_Subset
    <3>4. QED
      BY <3>1, <3>2, <3>3, FS_CardinalityType
  <2>3. E \in SUBSET Pairs
    BY ShownPlaces
  <2>4. \A p, q \in E : Precedes(p, q) => f[p] < f[q]
    BY <2>1, ShownOrder
  <2>5. \A l \in Written : \E p \in E : f[p] = l
    <3>1. ASSUME NEW l \in Written PROVE \E p \in E : f[p] = l
      <4>1. PICK p \in E : IsLine(p, l)
        BY LinesAreShown
      <4>2. f[p] = l
        BY <2>1, <4>1, OneLine
      <4>3. QED
        BY <4>2
    <3>2. QED
      BY <3>1
  <2>6. f \in [E -> Written]
    BY <2>1
  <2>7. d = [k \in DOMAIN InOrder(E) |-> LineShown(ir_seq, InOrder(E)[k])]
    BY DEF Display
  <2> HIDE DEF E, f, d
  <2>8. /\ IsFiniteSet(E) /\ Cardinality(E) = n
        /\ \A p \in E : Cardinality({m \in Written : m <= f[p]}) = Rank(E, p) + 1
    BY <2>2, <2>3, <2>4, <2>5, <2>6, OrderIso
  <2>9. /\ DOMAIN InOrder(E) = 1 .. n
        /\ \A p \in E : InOrder(E)[Rank(E, p) + 1] = p
        /\ \A p \in E : Rank(E, p) \in Nat /\ Rank(E, p) < n
    BY <2>3, <2>8, InOrderFacts, RankType
  <2>10. Len(d) = n
    <3> HIDE DEF n
    <3>1. d = [k \in 1 .. n |-> LineShown(ir_seq, InOrder(E)[k])]
      BY <2>7, <2>9
    <3>2. QED
      BY <2>2, <3>1
  <2>11. ASSUME NEW l \in Written
         PROVE  d[Cardinality({m \in Written : m <= l})] = text[l]
    <3>1. PICK p \in E : f[p] = l
      BY <2>5
    <3> DEFINE k == Rank(E, p) + 1
    <3>2. k \in 1 .. n /\ InOrder(E)[k] = p
      <4> HIDE DEF n
      <4>1. QED
        BY <2>2, <2>9
    <3>3. Cardinality({m \in Written : m <= l}) = k
      BY <2>8, <3>1
    <3> HIDE DEF k, n
    <3>4. d[k] = LineShown(ir_seq, p)
      BY <2>7, <2>9, <3>2
    <3>5. QED
      BY <2>1, <3>1, <3>3, <3>4
  <2>12. QED
    BY <2>10, <2>11 DEF d, n
<1>2. QED
  BY <1>1, TypeCorrect, InstructionsKept, OrderKept, IdsAlways, EndAlways, SplitAlways,
     LabelAlways, PTL
=============================================================================
