---------------------------- MODULE MutatorProofs ----------------------------
(***************************************************************************)
(* Proofs about mutate(), for any list of any programs and any number of   *)
(* point mutations: no region vanishes, the calls to spliced functions     *)
(* have exactly one function to go to and do not recurse, splices only     *)
(* add to the program, and its exits are accounted for.                    *)
(***************************************************************************)
EXTENDS Mutator, FiniteSetTheorems, SequenceTheorems, TLAPS

-----------------------------------------------------------------------------
(* The inductive invariant: how an IR on its way through mutate() is       *)
(* related to the one it was made from.                                    *)

(* The exits among the nodes.                                              *)
ExitsAt(nodes) == {n \in DOMAIN nodes : nodes[n].op = "exit"}

NodesMention(nodes, name) ==
  \E n \in DOMAIN nodes : \E a \in DOMAIN nodes[n].args : nodes[n].args[a] = Symbol(name)

(* The regions of orig come first.  What follows are spliced functions,    *)
(* numbered upwards, none as high as next, each with an exit.              *)
RegionsKept(orig, ir, next) ==
  /\ Len(orig.regions) <= Len(ir.regions)
  /\ \A r \in DOMAIN orig.regions :
       /\ ir.regions[r].id = orig.regions[r].id
       /\ Nodes(orig, r) # <<>> => Nodes(ir, r) # <<>>
  /\ \A r \in DOMAIN ir.regions \ DOMAIN orig.regions :
       /\ ir.regions[r].id = Spliced(ir.regions[r].id.n)
       /\ ir.regions[r].id.n < next
       /\ ExitsAt(Nodes(ir, r)) # {}
       /\ \A q \in DOMAIN ir.regions : r < q => ir.regions[r].id.n < ir.regions[q].id.n

(* A spliced function is called from further up only.                      *)
CallsDownwards(orig, ir) ==
  \A r \in DOMAIN ir.regions, k \in Nat :
    NodesMention(Nodes(ir, r), Spliced(k)) =>
      \E q \in DOMAIN ir.regions \ DOMAIN orig.regions : r < q /\ ir.regions[q].id = Spliced(k)

(* There are the exits of orig, one for each spliced function, and extra.  *)
ExitsCounted(orig, ir, extra) ==
  Exits(ir) = Exits(orig) + (Len(ir.regions) - Len(orig.regions)) + extra

EndsInExit(ir) ==
  Shown(ir) # {} /\ Last(Nodes(ir, LastShown(ir))).op = "exit"

(* A base without a region gets none before EnsureExitAtEnd.               *)
BareInv ==
  pc # "pick" /\ Original.regions = <<>> =>
    base.regions = IF pc = "done" THEN <<[id |-> Generated(0), nodes |-> <<Exit>>]>> ELSE <<>>

SpliceInv ==
  pc # "pick" /\ Original.regions # <<>> =>
    /\ RegionsKept(Original, base, splice_id)
    /\ FreshInputs => CallsDownwards(Original, base)
    /\ \E extra \in 0 .. (IF pc = "done" THEN 1 ELSE 0) : ExitsCounted(Original, base, extra)

EndInv == pc = "done" => EndsInExit(base)

MutatorInv == TypeOK /\ BareInv /\ SpliceInv /\ SplicingOnlyAdds /\ EndInv

-----------------------------------------------------------------------------
(* Nodes and regions.                                                      *)

LEMMA RegionTypes ==
  ASSUME NEW ir \in IrSeqOf(Node)
  PROVE  /\ ir.regions \in Seq(Region(Node))
         /\ Len(ir.regions) \in Nat /\ DOMAIN ir.regions = 1 .. Len(ir.regions)
         /\ \A r \in DOMAIN ir.regions :
              /\ ir.regions[r] \in Region(Node)
              /\ ir.regions[r].id \in Name
              /\ Nodes(ir, r) \in Seq(Node)
<1>1. ir.regions \in Seq(Region(Node))
  BY DEF IrSeqOf
<1>2. \A r \in DOMAIN ir.regions : ir.regions[r] \in Region(Node)
  BY <1>1
<1>3. QED
  BY <1>1, <1>2 DEF Region, Nodes

LEMMA NodeTypes ==
  ASSUME NEW nodes \in Seq(Node), NEW n \in DOMAIN nodes
  PROVE  /\ nodes[n] \in Node /\ nodes[n].op \in Ops /\ nodes[n].args \in Seq(Operand)
         /\ \A a \in DOMAIN nodes[n].args : nodes[n].args[a] \in Operand
<1>1. nodes[n] \in Node
  OBVIOUS
<1>2. nodes[n].op \in Ops /\ nodes[n].args \in Seq(Operand)
  BY <1>1 DEF Node
<1>3. QED
  BY <1>1, <1>2

LEMMA WithNodesFacts ==
  ASSUME NEW ir \in IrSeqOf(Node), NEW r \in DOMAIN ir.regions, NEW nodes \in Seq(Node)
  PROVE  /\ WithNodes(ir, r, nodes) \in IrSeqOf(Node)
         /\ WithNodes(ir, r, nodes).version = ir.version
         /\ Len(WithNodes(ir, r, nodes).regions) = Len(ir.regions)
         /\ DOMAIN WithNodes(ir, r, nodes).regions = DOMAIN ir.regions
         /\ \A q \in DOMAIN ir.regions :
              /\ WithNodes(ir, r, nodes).regions[q].id = ir.regions[q].id
              /\ Nodes(WithNodes(ir, r, nodes), q) = IF q = r THEN nodes ELSE Nodes(ir, q)
<1> DEFINE region == [ir.regions[r] EXCEPT !.nodes = nodes]
           regions == [ir.regions EXCEPT ![r] = region]
<1>1. WithNodes(ir, r, nodes) = [ir EXCEPT !.regions = regions]
  BY DEF WithNodes
<1>2. region \in Region(Node) /\ region.id = ir.regions[r].id /\ region.nodes = nodes
  BY RegionTypes DEF Region
<1>3. /\ regions \in Seq(Region(Node)) /\ Len(regions) = Len(ir.regions)
      /\ DOMAIN regions = DOMAIN ir.regions
      /\ \A q \in DOMAIN ir.regions : regions[q] = IF q = r THEN region ELSE ir.regions[q]
  BY <1>2, RegionTypes
<1> HIDE DEF region, regions
<1>4. /\ WithNodes(ir, r, nodes) \in IrSeqOf(Node)
      /\ WithNodes(ir, r, nodes).version = ir.version
      /\ WithNodes(ir, r, nodes).regions = regions
  BY <1>1, <1>3 DEF IrSeqOf
<1>5. QED
  BY <1>2, <1>3, <1>4 DEF Nodes

(* ir with one more region at its end.                                     *)
Pushed(ir, region) == [ir EXCEPT !.regions = Append(@, region)]

LEMMA PushedFacts ==
  ASSUME NEW ir \in IrSeqOf(Node), NEW region \in Region(Node)
  PROVE  /\ Pushed(ir, region) \in IrSeqOf(Node)
         /\ Len(Pushed(ir, region).regions) = Len(ir.regions) + 1
         /\ Pushed(ir, region).regions[Len(ir.regions) + 1] = region
         /\ \A r \in DOMAIN ir.regions : Pushed(ir, region).regions[r] = ir.regions[r]
<1>1. Pushed(ir, region).regions = Append(ir.regions, region)
      /\ Append(ir.regions, region) \in Seq(Region(Node))
  BY RegionTypes DEF Pushed, IrSeqOf
<1>2. Pushed(ir, region) \in IrSeqOf(Node)
  BY <1>1 DEF Pushed, IrSeqOf
<1>3. QED
  BY <1>1, <1>2, RegionTypes

(* What the provers need of concatenation.                                 *)
LEMMA ConcatFacts ==
  ASSUME NEW s \in Seq(Node), NEW t \in Seq(Node)
  PROVE  /\ s \o t \in Seq(Node)
         /\ Len(s \o t) = Len(s) + Len(t)
         /\ \A n \in 1 .. Len(s) : (s \o t)[n] = s[n]
         /\ \A n \in 1 .. Len(t) : (s \o t)[Len(s) + n] = t[n]
<1>1. s \o t \in Seq(Node) /\ Len(s \o t) = Len(s) + Len(t)
  OBVIOUS
<1>2. \A n \in 1 .. Len(s) + Len(t) : (s \o t)[n] = IF n <= Len(s) THEN s[n] ELSE t[n - Len(s)]
  OBVIOUS
<1>3. Len(s) \in Nat /\ Len(t) \in Nat
  OBVIOUS
<1>4. ASSUME NEW n \in 1 .. Len(t) PROVE (s \o t)[Len(s) + n] = t[n]
  <2>1. Len(s) + n \in 1 .. Len(s) + Len(t) /\ ~ (Len(s) + n <= Len(s)) /\ Len(s) + n - Len(s) = n
    BY <1>3
  <2>2. QED
    BY <1>2, <2>1
<1>5. QED
  BY <1>1, <1>2, <1>3, <1>4

(* The nodes before the place, the new ones, the nodes after the place.    *)
LEMMA InsertFacts ==
  ASSUME NEW nodes \in Seq(Node), NEW at \in 0 .. Len(nodes), NEW new \in Seq(Node)
  PROVE  /\ Insert(nodes, at, new) \in Seq(Node)
         /\ Len(Insert(nodes, at, new)) = Len(nodes) + Len(new)
         /\ \A n \in 1 .. at : Insert(nodes, at, new)[n] = nodes[n]
         /\ \A n \in 1 .. Len(new) : Insert(nodes, at, new)[at + n] = new[n]
         /\ \A n \in at + 1 .. Len(nodes) : Insert(nodes, at, new)[n + Len(new)] = nodes[n]
<1>1. /\ Len(nodes) \in Nat /\ Len(new) \in Nat /\ at \in Nat /\ at <= Len(nodes)
  OBVIOUS
<1>2. /\ SubSeq(nodes, 1, at) \in Seq(Node) /\ Len(SubSeq(nodes, 1, at)) = at
      /\ \A n \in 1 .. at : SubSeq(nodes, 1, at)[n] = nodes[n]
  BY <1>1
<1>3. /\ SubSeq(nodes, at + 1, Len(nodes)) \in Seq(Node)
      /\ Len(SubSeq(nodes, at + 1, Len(nodes))) = Len(nodes) - at
      /\ \A n \in 1 .. Len(nodes) - at : SubSeq(nodes, at + 1, Len(nodes))[n] = nodes[at + n]
  BY <1>1
<1> DEFINE front == SubSeq(nodes, 1, at)  back == SubSeq(nodes, at + 1, Len(nodes))
<1>4. Insert(nodes, at, new) = front \o new \o back
  BY DEF Insert
<1> HIDE DEF front, back
<1>5. /\ front \in Seq(Node) /\ Len(front) = at /\ \A n \in 1 .. at : front[n] = nodes[n]
      /\ back \in Seq(Node) /\ Len(back) = Len(nodes) - at
      /\ \A n \in 1 .. Len(nodes) - at : back[n] = nodes[at + n]
  BY <1>2, <1>3 DEF front, back
<1> DEFINE head == front \o new
<1>6. /\ head \in Seq(Node) /\ Len(head) = Len(front) + Len(new)
      /\ \A n \in 1 .. Len(front) : head[n] = front[n]
      /\ \A n \in 1 .. Len(new) : head[Len(front) + n] = new[n]
  BY <1>5, ConcatFacts, Zenon
<1> HIDE DEF head
<1>7. /\ head \in Seq(Node) /\ Len(head) = at + Len(new)
      /\ \A n \in 1 .. at : head[n] = nodes[n]
      /\ \A n \in 1 .. Len(new) : head[at + n] = new[n]
  BY <1>5, <1>6
<1>8. Insert(nodes, at, new) = head \o back
  BY <1>4 DEF head
<1>9. /\ head \o back \in Seq(Node) /\ Len(head \o back) = Len(head) + Len(back)
      /\ \A n \in 1 .. Len(head) : (head \o back)[n] = head[n]
      /\ \A n \in 1 .. Len(back) : (head \o back)[Len(head) + n] = back[n]
  BY <1>5, <1>7, ConcatFacts, Zenon
<1>10. Insert(nodes, at, new) \in Seq(Node)
       /\ Len(Insert(nodes, at, new)) = Len(nodes) + Len(new)
  BY <1>1, <1>5, <1>7, <1>8, <1>9
<1>11. \A n \in 1 .. at : Insert(nodes, at, new)[n] = nodes[n]
  BY <1>1, <1>7, <1>8, <1>9
<1>12. ASSUME NEW n \in 1 .. Len(new) PROVE Insert(nodes, at, new)[at + n] = new[n]
  <2>1. at + n \in 1 .. Len(head)
    BY <1>1, <1>7
  <2>2. QED
    BY <1>7, <1>8, <1>9, <2>1
<1>13. ASSUME NEW n \in at + 1 .. Len(nodes) PROVE Insert(nodes, at, new)[n + Len(new)] = nodes[n]
  <2>1. /\ n - at \in 1 .. Len(back) /\ n - at \in 1 .. Len(nodes) - at
        /\ Len(head) + (n - at) = n + Len(new) /\ at + (n - at) = n
    BY <1>1, <1>5, <1>7
  <2>2. (head \o back)[Len(head) + (n - at)] = back[n - at]
    BY <1>9, <2>1
  <2>3. back[n - at] = nodes[at + (n - at)]
    BY <1>5, <2>1
  <2>4. QED
    BY <1>8, <2>1, <2>2, <2>3
<1>14. QED
  BY <1>10, <1>11, <1>12, <1>13

LEMMA RemoveFacts ==
  ASSUME NEW nodes \in Seq(Node), NEW at \in DOMAIN nodes
  PROVE  /\ RemoveAt(nodes, at) \in Seq(Node)
         /\ Len(RemoveAt(nodes, at)) = Len(nodes) - 1
         /\ \A n \in 1 .. Len(nodes) - 1 :
              RemoveAt(nodes, at)[n] = nodes[IF n < at THEN n ELSE n + 1]
<1>1. /\ Len(nodes) \in Nat /\ at \in Nat /\ 1 <= at /\ at <= Len(nodes)
  OBVIOUS
<1> DEFINE front == SubSeq(nodes, 1, at - 1)  back == SubSeq(nodes, at + 1, Len(nodes))
<1>2. /\ front \in Seq(Node) /\ Len(front) = at - 1 /\ \A n \in 1 .. at - 1 : front[n] = nodes[n]
  BY <1>1
<1>3. /\ back \in Seq(Node) /\ Len(back) = Len(nodes) - at
      /\ \A n \in 1 .. Len(nodes) - at : back[n] = nodes[at + n]
  BY <1>1
<1>4. RemoveAt(nodes, at) = front \o back
  BY DEF RemoveAt
<1> HIDE DEF front, back
<1>5. /\ front \o back \in Seq(Node) /\ Len(front \o back) = Len(front) + Len(back)
      /\ \A n \in 1 .. Len(front) : (front \o back)[n] = front[n]
      /\ \A n \in 1 .. Len(back) : (front \o back)[Len(front) + n] = back[n]
  BY <1>2, <1>3, ConcatFacts, Zenon
<1>6. RemoveAt(nodes, at) \in Seq(Node) /\ Len(RemoveAt(nodes, at)) = Len(nodes) - 1
  BY <1>1, <1>2, <1>3, <1>4, <1>5
<1>7. ASSUME NEW n \in 1 .. Len(nodes) - 1
      PROVE  RemoveAt(nodes, at)[n] = nodes[IF n < at THEN n ELSE n + 1]
  <2>1. CASE n < at
    <3>1. n \in 1 .. at - 1 /\ n \in 1 .. Len(front)
      BY <1>1, <1>2, <2>1
    <3>2. QED
      BY <1>2, <1>4, <1>5, <2>1, <3>1
  <2>2. CASE ~ (n < at)
    <3>1. /\ n - (at - 1) \in 1 .. Len(back) /\ n - (at - 1) \in 1 .. Len(nodes) - at
          /\ Len(front) + (n - (at - 1)) = n /\ at + (n - (at - 1)) = n + 1
      BY <1>1, <1>2, <1>3, <2>2, SMTT(30)
    <3>2. (front \o back)[Len(front) + (n - (at - 1))] = back[n - (at - 1)]
      BY <1>5, <3>1
    <3>3. back[n - (at - 1)] = nodes[at + (n - (at - 1))]
      BY <1>3, <3>1
    <3>4. QED
      BY <1>4, <2>2, <3>1, <3>2, <3>3
  <2>3. QED
    BY <2>1, <2>2
<1>8. QED
  BY <1>6, <1>7

-----------------------------------------------------------------------------
(* The exits of a program.                                                 *)

ExitPlaces(ir) ==
  UNION {{r} \X {n \in DOMAIN Nodes(ir, r) : Nodes(ir, r)[n].op = "exit"} :
           r \in DOMAIN ir.regions}

LEMMA ExitPlacesOf ==
  ASSUME NEW ir
  PROVE  /\ Exits(ir) = Cardinality(ExitPlaces(ir))
         /\ \A x : x \in ExitPlaces(ir) <=>
                 \E r \in DOMAIN ir.regions : \E n \in ExitsAt(Nodes(ir, r)) : x = <<r, n>>
  BY DEF Exits, ExitPlaces, ExitsAt

LEMMA ExitsAtFinite ==
  ASSUME NEW nodes \in Seq(Node)
  PROVE  IsFiniteSet(ExitsAt(nodes)) /\ Cardinality(ExitsAt(nodes)) \in Nat
<1>1. IsFiniteSet(1 .. Len(nodes)) /\ ExitsAt(nodes) \in SUBSET (1 .. Len(nodes))
  BY FS_Interval DEF ExitsAt
<1>2. QED
  BY <1>1, FS_Subset, FS_CardinalityType

(* The exits of one region.                                                *)
LEMMA RegionExits ==
  ASSUME NEW r, NEW nodes \in Seq(Node)
  PROVE  /\ IsFiniteSet({r} \X ExitsAt(nodes))
         /\ Cardinality({r} \X ExitsAt(nodes)) = Cardinality(ExitsAt(nodes))
<1>1. IsFiniteSet({r}) /\ Cardinality({r}) = 1
  BY FS_Singleton
<1>2. IsFiniteSet(ExitsAt(nodes)) /\ Cardinality(ExitsAt(nodes)) \in Nat
  BY ExitsAtFinite
<1>3. /\ IsFiniteSet({r} \X ExitsAt(nodes))
      /\ Cardinality({r} \X ExitsAt(nodes)) = 1 * Cardinality(ExitsAt(nodes))
  BY <1>1, <1>2, FS_Product
<1>4. QED
  BY <1>2, <1>3

LEMMA ExitsFinite ==
  ASSUME NEW ir \in IrSeqOf(Node)
  PROVE  IsFiniteSet(ExitPlaces(ir)) /\ Exits(ir) \in Nat
<1> DEFINE of(r) == {r} \X ExitsAt(Nodes(ir, r))
           all == {of(r) : r \in DOMAIN ir.regions}
           f == [r \in DOMAIN ir.regions |-> of(r)]
<1>1. f \in Surjection(DOMAIN ir.regions, all)
  BY DEF Surjection
<1>2. IsFiniteSet(DOMAIN ir.regions)
  BY RegionTypes, FS_Interval
<1>3. IsFiniteSet(all)
  BY <1>1, <1>2, FS_Surjection
<1>4. \A T \in all : IsFiniteSet(T)
  BY RegionTypes, RegionExits
<1>5. IsFiniteSet(UNION all)
  BY <1>3, <1>4, FS_UNION
<1>6. ExitPlaces(ir) = UNION all
  BY DEF ExitPlaces, ExitsAt
<1>7. QED
  BY <1>5, <1>6, ExitPlacesOf, FS_CardinalityType

(* When a region gets other nodes, its own exits are all that changes.     *)
LEMMA WithNodesExits ==
  ASSUME NEW ir \in IrSeqOf(Node), NEW r \in DOMAIN ir.regions, NEW nodes \in Seq(Node)
  PROVE  Exits(WithNodes(ir, r, nodes)) + Cardinality(ExitsAt(Nodes(ir, r)))
           = Exits(ir) + Cardinality(ExitsAt(nodes))
<1> DEFINE new  == WithNodes(ir, r, nodes)
           old  == Nodes(ir, r)
           rest == {x \in ExitPlaces(ir) : x[1] # r}
<1>1. old \in Seq(Node)
  BY RegionTypes
<1>2. /\ new \in IrSeqOf(Node) /\ DOMAIN new.regions = DOMAIN ir.regions
      /\ \A q \in DOMAIN ir.regions : Nodes(new, q) = IF q = r THEN nodes ELSE Nodes(ir, q)
  BY WithNodesFacts
<1> HIDE DEF new
<1>3. rest \in SUBSET ExitPlaces(ir) /\ IsFiniteSet(rest) /\ Cardinality(rest) \in Nat
  BY ExitsFinite, FS_Subset, FS_CardinalityType
<1>4. ExitPlaces(ir) = rest \cup ({r} \X ExitsAt(old))
  BY ExitPlacesOf
<1>5. ExitPlaces(new) = rest \cup ({r} \X ExitsAt(nodes))
  <2>1. ASSUME NEW x \in ExitPlaces(new) PROVE x \in rest \cup ({r} \X ExitsAt(nodes))
    BY <1>2, <2>1, ExitPlacesOf
  <2>2. ASSUME NEW x \in rest PROVE x \in ExitPlaces(new)
    BY <1>2, <2>2, ExitPlacesOf
  <2>3. ASSUME NEW n \in ExitsAt(nodes) PROVE <<r, n>> \in ExitPlaces(new)
    BY <1>2, <2>3, ExitPlacesOf
  <2>4. QED
    BY <2>1, <2>2, <2>3
<1>6. rest \cap ({r} \X ExitsAt(old)) = {} /\ rest \cap ({r} \X ExitsAt(nodes)) = {}
  OBVIOUS
<1> HIDE DEF rest, old
<1>7. Cardinality({}) = 0
  BY FS_EmptySet
<1>8. /\ IsFiniteSet({r} \X ExitsAt(old)) /\ IsFiniteSet({r} \X ExitsAt(nodes))
      /\ Cardinality({r} \X ExitsAt(old)) = Cardinality(ExitsAt(old))
      /\ Cardinality({r} \X ExitsAt(nodes)) = Cardinality(ExitsAt(nodes))
      /\ Cardinality(ExitsAt(old)) \in Nat /\ Cardinality(ExitsAt(nodes)) \in Nat
  BY <1>1, RegionExits, ExitsAtFinite
<1>9. Cardinality(ExitPlaces(ir)) = Cardinality(rest) + Cardinality(ExitsAt(old))
  <2>1. Cardinality(ExitPlaces(ir)) =
          Cardinality(rest) + Cardinality({r} \X ExitsAt(old))
            - Cardinality(rest \cap ({r} \X ExitsAt(old)))
    BY <1>3, <1>4, <1>8, FS_Union, ZenonT(40)
  <2>2. Cardinality(rest \cap ({r} \X ExitsAt(old))) = 0
    BY <1>6, <1>7, Zenon
  <2>3. QED
    BY <1>3, <1>8, <2>1, <2>2
<1>10. Cardinality(ExitPlaces(new)) = Cardinality(rest) + Cardinality(ExitsAt(nodes))
  <2>1. Cardinality(ExitPlaces(new)) =
          Cardinality(rest) + Cardinality({r} \X ExitsAt(nodes))
            - Cardinality(rest \cap ({r} \X ExitsAt(nodes)))
    BY <1>3, <1>5, <1>8, FS_Union, ZenonT(40)
  <2>2. Cardinality(rest \cap ({r} \X ExitsAt(nodes))) = 0
    BY <1>6, <1>7, Zenon
  <2>3. QED
    BY <1>3, <1>8, <2>1, <2>2
<1>11. QED
  BY <1>3, <1>8, <1>9, <1>10, ExitPlacesOf DEF new, old

LEMMA PushedExits ==
  ASSUME NEW ir \in IrSeqOf(Node), NEW region \in Region(Node)
  PROVE  Exits(Pushed(ir, region)) = Exits(ir) + Cardinality(ExitsAt(region.nodes))
<1> DEFINE new == Pushed(ir, region)  last == Len(ir.regions) + 1
<1>1. /\ new \in IrSeqOf(Node) /\ Len(new.regions) = last /\ new.regions[last] = region
      /\ \A r \in DOMAIN ir.regions : new.regions[r] = ir.regions[r]
  BY PushedFacts
<1> HIDE DEF new
<1>2. /\ DOMAIN new.regions = DOMAIN ir.regions \cup {last} /\ last \notin DOMAIN ir.regions
  BY <1>1, RegionTypes
<1>3. region.nodes \in Seq(Node)
  BY DEF Region
<1> HIDE DEF last
<1>4. ExitPlaces(new) = ExitPlaces(ir) \cup ({last} \X ExitsAt(region.nodes))
  <2>1. ASSUME NEW x \in ExitPlaces(new)
        PROVE  x \in ExitPlaces(ir) \cup ({last} \X ExitsAt(region.nodes))
    BY <1>1, <1>2, <2>1, ExitPlacesOf DEF Nodes
  <2>2. ASSUME NEW x \in ExitPlaces(ir) PROVE x \in ExitPlaces(new)
    BY <1>1, <1>2, <2>2, ExitPlacesOf DEF Nodes
  <2>3. ASSUME NEW n \in ExitsAt(region.nodes) PROVE <<last, n>> \in ExitPlaces(new)
    BY <1>1, <1>2, <2>3, ExitPlacesOf DEF Nodes
  <2>4. QED
    BY <2>1, <2>2, <2>3
<1>5. ExitPlaces(ir) \cap ({last} \X ExitsAt(region.nodes)) = {}
  BY <1>2, ExitPlacesOf
<1>6. Cardinality({}) = 0
  BY FS_EmptySet
<1>7. /\ IsFiniteSet(ExitPlaces(ir)) /\ Cardinality(ExitPlaces(ir)) \in Nat
      /\ IsFiniteSet({last} \X ExitsAt(region.nodes))
      /\ Cardinality({last} \X ExitsAt(region.nodes)) = Cardinality(ExitsAt(region.nodes))
      /\ Cardinality(ExitsAt(region.nodes)) \in Nat
  BY <1>3, RegionExits, ExitsAtFinite, ExitsFinite, FS_CardinalityType
<1>8. Cardinality(ExitPlaces(new)) = Cardinality(ExitPlaces(ir)) + Cardinality(ExitsAt(region.nodes))
  <2>1. Cardinality(ExitPlaces(new)) =
          Cardinality(ExitPlaces(ir)) + Cardinality({last} \X ExitsAt(region.nodes))
            - Cardinality(ExitPlaces(ir) \cap ({last} \X ExitsAt(region.nodes)))
    BY <1>4, <1>7, FS_Union, Zenon
  <2>2. Cardinality(ExitPlaces(ir) \cap ({last} \X ExitsAt(region.nodes))) = 0
    BY <1>5, <1>6, Zenon
  <2>3. QED
    BY <1>7, <2>1, <2>2
<1>9. QED
  BY <1>8, ExitPlacesOf DEF new

LEMMA InsertExits ==
  ASSUME NEW nodes \in Seq(Node), NEW at \in 0 .. Len(nodes), NEW new \in Seq(Node),
         ExitsAt(new) = {}
  PROVE  Cardinality(ExitsAt(Insert(nodes, at, new))) = Cardinality(ExitsAt(nodes))
<1> DEFINE all == Insert(nodes, at, new)
           f == [n \in ExitsAt(nodes) |-> IF n <= at THEN n ELSE n + Len(new)]
<1>1. /\ all \in Seq(Node) /\ Len(all) = Len(nodes) + Len(new)
      /\ \A n \in 1 .. at : all[n] = nodes[n]
      /\ \A n \in 1 .. Len(new) : all[at + n] = new[n]
      /\ \A n \in at + 1 .. Len(nodes) : all[n + Len(new)] = nodes[n]
  BY InsertFacts
<1> HIDE DEF all
<1>2. /\ Len(nodes) \in Nat /\ Len(new) \in Nat /\ at \in Nat /\ at <= Len(nodes)
      /\ DOMAIN nodes = 1 .. Len(nodes) /\ DOMAIN new = 1 .. Len(new)
      /\ DOMAIN all = 1 .. Len(nodes) + Len(new)
  BY <1>1
<1>3. ASSUME NEW n \in ExitsAt(nodes) PROVE f[n] \in ExitsAt(all) /\ n \in Nat
  <2>1. n \in 1 .. Len(nodes) /\ nodes[n].op = "exit"
    BY <1>2 DEF ExitsAt
  <2>2. CASE n <= at
    BY <1>1, <1>2, <2>1, <2>2 DEF ExitsAt
  <2>3. CASE ~ (n <= at)
    <3>1. n \in at + 1 .. Len(nodes) /\ n + Len(new) \in 1 .. Len(nodes) + Len(new)
      BY <1>2, <2>1, <2>3
    <3>2. all[n + Len(new)] = nodes[n]
      BY <1>1, <3>1
    <3>3. f[n] = n + Len(new)
      BY <2>3
    <3>4. QED
      BY <1>2, <2>1, <3>1, <3>2, <3>3 DEF ExitsAt
  <2>4. QED
    BY <2>2, <2>3
<1>4. ASSUME NEW m \in ExitsAt(all) PROVE \E n \in ExitsAt(nodes) : f[n] = m
  <2>1. m \in 1 .. Len(nodes) + Len(new) /\ all[m].op = "exit"
    BY <1>2 DEF ExitsAt
  <2>2. CASE m <= at
    <3>1. m \in 1 .. at /\ m \in 1 .. Len(nodes)
      BY <1>2, <2>1, <2>2
    <3>2. m \in ExitsAt(nodes)
      BY <1>1, <1>2, <2>1, <3>1 DEF ExitsAt
    <3>3. QED
      BY <2>2, <3>2
  <2>3. CASE at < m /\ m <= at + Len(new)
    <3>1. m - at \in 1 .. Len(new) /\ at + (m - at) = m
      BY <1>2, <2>1, <2>3
    <3>2. m - at \in ExitsAt(new)
      BY <1>1, <1>2, <2>1, <3>1 DEF ExitsAt
    <3>3. QED
      BY <3>2
  <2>4. CASE at + Len(new) < m
    <3>1. m - Len(new) \in at + 1 .. Len(nodes) /\ m - Len(new) + Len(new) = m
          /\ ~ (m - Len(new) <= at)
      BY <1>2, <2>1, <2>4
    <3>2. m - Len(new) \in ExitsAt(nodes)
      BY <1>1, <1>2, <2>1, <3>1 DEF ExitsAt
    <3>3. QED
      BY <3>1, <3>2
  <2>5. QED
    BY <1>2, <2>1, <2>2, <2>3, <2>4
<1>5. \A m, n \in ExitsAt(nodes) : f[m] = f[n] => m = n
  BY <1>2, <1>3
<1>6. f \in Bijection(ExitsAt(nodes), ExitsAt(all))
  <2>1. f \in [ExitsAt(nodes) -> ExitsAt(all)]
    BY <1>3
  <2> HIDE DEF f
  <2>2. QED
    BY <1>4, <1>5, <2>1 DEF Bijection, Injection, Surjection, IsInjective
<1>7. QED
  BY <1>6, ExitsAtFinite, FS_Bijection DEF ExistsBijection, all

LEMMA RemoveExits ==
  ASSUME NEW nodes \in Seq(Node), NEW at \in DOMAIN nodes, nodes[at].op # "exit"
  PROVE  Cardinality(ExitsAt(RemoveAt(nodes, at))) = Cardinality(ExitsAt(nodes))
<1> DEFINE all == RemoveAt(nodes, at)
           f == [n \in ExitsAt(nodes) |-> IF n < at THEN n ELSE n - 1]
<1>1. /\ all \in Seq(Node) /\ Len(all) = Len(nodes) - 1
      /\ \A n \in 1 .. Len(nodes) - 1 : all[n] = nodes[IF n < at THEN n ELSE n + 1]
  BY RemoveFacts
<1> HIDE DEF all
<1>2. /\ Len(nodes) \in Nat /\ at \in Nat /\ 1 <= at /\ at <= Len(nodes)
      /\ DOMAIN nodes = 1 .. Len(nodes) /\ DOMAIN all = 1 .. Len(nodes) - 1
  BY <1>1
<1>3. ASSUME NEW n \in ExitsAt(nodes) PROVE f[n] \in ExitsAt(all) /\ n \in Nat /\ n # at
  <2>1. n \in 1 .. Len(nodes) /\ nodes[n].op = "exit" /\ n # at
    BY <1>2 DEF ExitsAt
  <2>2. /\ f[n] \in 1 .. Len(nodes) - 1
        /\ (IF f[n] < at THEN f[n] ELSE f[n] + 1) = n
    BY <1>2, <2>1
  <2>3. all[f[n]] = nodes[IF f[n] < at THEN f[n] ELSE f[n] + 1]
    BY <1>1, <2>2
  <2>4. all[f[n]] = nodes[n]
    BY <2>2, <2>3, Zenon
  <2>5. QED
    BY <1>2, <2>1, <2>2, <2>4 DEF ExitsAt
<1>4. ASSUME NEW m \in ExitsAt(all) PROVE \E n \in ExitsAt(nodes) : f[n] = m
  <2> DEFINE n == IF m < at THEN m ELSE m + 1
  <2>1. m \in 1 .. Len(nodes) - 1 /\ all[m].op = "exit"
    BY <1>2 DEF ExitsAt
  <2>2. n \in 1 .. Len(nodes) /\ (IF n < at THEN n ELSE n - 1) = m
    BY <1>2, <2>1
  <2>3. n \in ExitsAt(nodes)
    BY <1>1, <1>2, <2>1, <2>2 DEF ExitsAt
  <2>4. QED
    BY <2>2, <2>3
<1>5. \A m, n \in ExitsAt(nodes) : f[m] = f[n] => m = n
  BY <1>2, <1>3
<1>6. f \in Bijection(ExitsAt(nodes), ExitsAt(all))
  <2>1. f \in [ExitsAt(nodes) -> ExitsAt(all)]
    BY <1>3
  <2> HIDE DEF f
  <2>2. QED
    BY <1>4, <1>5, <2>1 DEF Bijection, Injection, Surjection, IsInjective
<1>7. QED
  BY <1>6, ExitsAtFinite, FS_Bijection DEF ExistsBijection, all

LEMMA AppendExits ==
  ASSUME NEW nodes \in Seq(Node)
  PROVE  /\ Exit \in Node /\ Append(nodes, Exit) \in Seq(Node)
         /\ Len(Append(nodes, Exit)) = Len(nodes) + 1
         /\ \A n \in DOMAIN nodes : Append(nodes, Exit)[n] = nodes[n]
         /\ Append(nodes, Exit)[Len(nodes) + 1] = Exit
         /\ Cardinality(ExitsAt(Append(nodes, Exit))) = Cardinality(ExitsAt(nodes)) + 1
<1>1. Exit \in Node
  <2>1. <<>> \in Seq(Operand)
    OBVIOUS
  <2>2. "exit" \in Ops
    BY DEF Ops
  <2>3. QED
    BY <2>1, <2>2, Zenon DEF Exit, Node
<1>2. /\ Append(nodes, Exit) \in Seq(Node) /\ Len(Append(nodes, Exit)) = Len(nodes) + 1
      /\ \A n \in DOMAIN nodes : Append(nodes, Exit)[n] = nodes[n]
      /\ Append(nodes, Exit)[Len(nodes) + 1] = Exit
      /\ DOMAIN Append(nodes, Exit) = DOMAIN nodes \cup {Len(nodes) + 1}
      /\ Len(nodes) + 1 \notin DOMAIN nodes
  BY <1>1
<1> DEFINE all == Append(nodes, Exit)  last == Len(nodes) + 1
<1> HIDE DEF all, last
<1>3. ExitsAt(all) = ExitsAt(nodes) \cup {last} /\ last \notin ExitsAt(nodes)
  BY <1>2 DEF ExitsAt, all, last, Exit
<1>4. Cardinality(ExitsAt(all)) = Cardinality(ExitsAt(nodes)) + 1
  BY <1>3, ExitsAtFinite, FS_AddElement
<1>5. QED
  BY <1>1, <1>2, <1>4 DEF all

-----------------------------------------------------------------------------
(* What the steps of mutate() do to the nodes of a region.                 *)

(* The region is not emptied, and it has as many exits as before.          *)
Spares(old, new) ==
  /\ new \in Seq(Node)
  /\ old # <<>> => new # <<>>
  /\ Cardinality(ExitsAt(new)) = Cardinality(ExitsAt(old))

MentionsNoMore(old, new) ==
  \A k \in Nat : NodesMention(new, Spliced(k)) => NodesMention(old, Spliced(k))

LEMMA ExitIsAlone == \A c \in OP_CATEGORIES : "exit" \notin c
<1>1. /\ "exit" \notin ALU64_OPS /\ "exit" \notin ALU32_OPS /\ "exit" \notin LOAD_OPS
      /\ "exit" \notin STORE_IMM_OPS /\ "exit" \notin STORE_REG_OPS
  BY DEF ALU64_OPS, ALU32_OPS, LOAD_OPS, STORE_IMM_OPS, STORE_REG_OPS
<1>2. /\ "exit" \notin JUMP_OPS /\ "exit" \notin JUMP32_OPS
      /\ "exit" \notin PQR32_OPS /\ "exit" \notin PQR64_OPS
  BY DEF JUMP_OPS, JUMP32_OPS, PQR32_OPS, PQR64_OPS
<1>3. QED
  BY <1>1, <1>2 DEF OP_CATEGORIES

(* One node for another one, an exit only for an exit.                     *)
LEMMA ReplaceSpares ==
  ASSUME NEW old \in Seq(Node), NEW n \in DOMAIN old, NEW node \in Node,
         node.op = "exit" <=> old[n].op = "exit"
  PROVE  Spares(old, [old EXCEPT ![n] = node])
<1> DEFINE new == [old EXCEPT ![n] = node]
<1>1. /\ new \in Seq(Node) /\ Len(new) = Len(old) /\ DOMAIN new = DOMAIN old
      /\ \A m \in DOMAIN old : new[m] = IF m = n THEN node ELSE old[m]
  OBVIOUS
<1> HIDE DEF new
<1>2. ExitsAt(new) = ExitsAt(old)
  BY <1>1 DEF ExitsAt
<1>3. old # <<>> => new # <<>>
  BY <1>1
<1>4. QED
  BY <1>1, <1>2, <1>3 DEF Spares, new

(* A replacement that mentions nothing new.                                *)
LEMMA ReplaceMentions ==
  ASSUME NEW old \in Seq(Node), NEW n \in DOMAIN old, NEW node \in Node,
         \A a \in DOMAIN node.args : \A k \in Nat : node.args[a] = Symbol(Spliced(k)) =>
            \E b \in DOMAIN old[n].args : old[n].args[b] = Symbol(Spliced(k))
  PROVE  MentionsNoMore(old, [old EXCEPT ![n] = node])
<1> DEFINE new == [old EXCEPT ![n] = node]
<1>1. /\ DOMAIN new = DOMAIN old
      /\ \A m \in DOMAIN old : new[m] = IF m = n THEN node ELSE old[m]
  OBVIOUS
<1> HIDE DEF new
<1>2. QED
  BY <1>1 DEF MentionsNoMore, NodesMention, new

(* Nothing is mentioned by nodes that are some of the old ones.            *)
LEMMA SameNodes ==
  ASSUME NEW old, NEW new, \A n \in DOMAIN new : \E m \in DOMAIN old : new[n] = old[m]
  PROVE  MentionsNoMore(old, new)
<1> SUFFICES ASSUME NEW k \in Nat, NEW n \in DOMAIN new, NEW a \in DOMAIN new[n].args,
                    new[n].args[a] = Symbol(Spliced(k))
             PROVE  NodesMention(old, Spliced(k))
  BY DEF MentionsNoMore, NodesMention
<1>1. PICK m \in DOMAIN old : new[n] = old[m]
  OBVIOUS
<1>2. QED
  BY <1>1 DEF NodesMention

LEMMA SubstitutedFacts ==
  ASSUME NEW old \in Seq(Node), NEW new \in Substituted(old)
  PROVE  Spares(old, new) /\ MentionsNoMore(old, new)
<1>1. PICK n \in DOMAIN old : \E op \in Siblings(old[n].op) : new = [old EXCEPT ![n].op = op]
  BY DEF Substituted
<1>2. PICK op \in Siblings(old[n].op) : new = [old EXCEPT ![n].op = op]
  BY <1>1
<1>3. op \in Ops /\ op # "exit" /\ old[n].op # "exit"
  BY <1>2, ExitIsAlone DEF Siblings, Ops
<1> DEFINE node == [old[n] EXCEPT !.op = op]
<1>4. node \in Node /\ node.op = op /\ node.args = old[n].args
  BY <1>3, NodeTypes DEF Node
<1>5. new = [old EXCEPT ![n] = node]
  BY <1>2
<1> HIDE DEF node
<1>6. QED
  BY <1>3, <1>4, <1>5, ReplaceSpares, ReplaceMentions

(* An operand is replaced by a number, never by a name.                    *)
LEMMA MutationFacts ==
  ASSUME NEW o \in Operand, NEW m \in Mutations(o)
  PROVE  m \in Operand /\ m.form # "name"
<1> USE OperandsAssumption
<1>n. NoName \in Name
  BY DEF NoName, Name
<1>w. \A form \in Forms, val \in Int : Written(form, val) \in Operand /\ Written(form, val).form = form
  BY <1>n DEF Written, Operand
<1>1. CASE IsRegister(o)
  <2>1. PICK n \in 0 .. LastRegister : m = Reg(n)
    BY <1>1 DEF Mutations
  <2>2. QED
    BY <1>w, <2>1 DEF Reg, Forms
<1>2. CASE IsOffset(o) /\ ~ IsRegister(o)
  <2>1. PICK d \in -Delta .. Delta : m = SignedOffset(SaturatingAdd(Parsed(o), d))
    BY <1>2 DEF Mutations
  <2>2. Parsed(o) \in Int
    BY DEF Parsed, Operand
  <2>3. SaturatingAdd(Parsed(o), d) \in Int
    BY <2>2 DEF SaturatingAdd
  <2>4. QED
    BY <1>w, <2>1, <2>3 DEF SignedOffset, Forms
<1>3. CASE ~ IsOffset(o) /\ ~ IsRegister(o)
  <2>1. m \in EdgeImmediates \/ \E v \in -SmallImmediate .. SmallImmediate : m = Decimal(v)
    BY <1>3 DEF Mutations
  <2>2. CASE m \in EdgeImmediates
    BY <2>2
  <2>3. CASE \E v \in -SmallImmediate .. SmallImmediate : m = Decimal(v)
    BY <1>w, <2>3 DEF Decimal, Forms
  <2>4. QED
    BY <2>1, <2>2, <2>3
<1>4. QED
  BY <1>1, <1>2, <1>3

LEMMA OperandMutatedFacts ==
  ASSUME NEW old \in Seq(Node), NEW new \in OperandMutated(old)
  PROVE  Spares(old, new) /\ MentionsNoMore(old, new)
<1> DEFINE by(n, a) == {[old EXCEPT ![n].args[a] = o] : o \in Mutations(old[n].args[a])}
           places(n) == {a \in DOMAIN old[n].args : Mutable(old[n].args[a])}
<1>m. OperandMutated(old) = UNION {UNION {by(n, a) : a \in places(n)} : n \in DOMAIN old}
  BY DEF OperandMutated
<1> HIDE DEF by
<1>1. PICK n \in DOMAIN old : new \in UNION {by(n, a) : a \in places(n)}
  BY <1>m
<1>2. PICK a \in DOMAIN old[n].args : new \in by(n, a)
  BY <1>1
<1> USE DEF by
<1>3. PICK o \in Mutations(old[n].args[a]) : new = [old EXCEPT ![n].args[a] = o]
  BY <1>2
<1> DEFINE args == [old[n].args EXCEPT ![a] = o]
           node == [old[n] EXCEPT !.args = args]
<1>4. o \in Operand /\ o.form # "name"
  BY NodeTypes, MutationFacts
<1>5. /\ args \in Seq(Operand) /\ DOMAIN args = DOMAIN old[n].args
      /\ \A b \in DOMAIN args : args[b] = IF b = a THEN o ELSE old[n].args[b]
  BY <1>4, NodeTypes
<1>6. new = [old EXCEPT ![n] = node]
  BY <1>3
<1> HIDE DEF args
<1>7. node \in Node /\ node.op = old[n].op /\ node.args = args
  BY <1>5, NodeTypes, ZenonT(40) DEF Node
<1> HIDE DEF node
<1>8. \A b \in DOMAIN node.args : \A k \in Nat : node.args[b] = Symbol(Spliced(k)) =>
        \E c \in DOMAIN old[n].args : old[n].args[c] = Symbol(Spliced(k))
  BY <1>4, <1>5, <1>7 DEF Symbol
<1>9. QED
  BY <1>6, <1>7, <1>8, ReplaceSpares, ReplaceMentions

LEMMA DeletedFacts ==
  ASSUME NEW old \in Seq(Node), NEW new \in Deleted(old)
  PROVE  Spares(old, new) /\ MentionsNoMore(old, new)
<1>1. PICK at \in Kept(old) : new = RemoveAt(old, at) /\ Len(old) >= 2
  BY DEF Deleted
<1>2. at \in DOMAIN old /\ old[at].op # "exit"
  BY DEF Kept
<1>3. /\ new \in Seq(Node) /\ Len(new) = Len(old) - 1 /\ Len(old) \in Nat /\ at \in Nat
      /\ \A n \in 1 .. Len(old) - 1 : new[n] = old[IF n < at THEN n ELSE n + 1]
  BY <1>1, <1>2, RemoveFacts
<1>4. Cardinality(ExitsAt(new)) = Cardinality(ExitsAt(old))
  BY <1>1, <1>2, RemoveExits
<1>5. new # <<>>
  BY <1>1, <1>3
<1>6. ASSUME NEW n \in DOMAIN new PROVE \E m \in DOMAIN old : new[n] = old[m]
  <2>1. n \in 1 .. Len(old) - 1 /\ (IF n < at THEN n ELSE n + 1) \in DOMAIN old
    BY <1>3
  <2>2. QED
    BY <1>3, <2>1
<1>7. MentionsNoMore(old, new)
  BY <1>6, SameNodes DEF MentionsNoMore
<1>8. QED
  BY <1>3, <1>4, <1>5, <1>7 DEF Spares

LEMMA SwappedFacts ==
  ASSUME NEW old \in Seq(Node), NEW new \in Swapped(old)
  PROVE  Spares(old, new) /\ MentionsNoMore(old, new)
<1>1. PICK n \in Kept(old) :
        n + 1 \in Kept(old) /\ new = [old EXCEPT ![n] = old[n + 1], ![n + 1] = old[n]]
  BY DEF Swapped
<1>2. /\ n \in DOMAIN old /\ old[n].op # "exit"
      /\ n + 1 \in DOMAIN old /\ old[n + 1].op # "exit" /\ n # n + 1
  BY <1>1 DEF Kept
<1>3. /\ new \in Seq(Node) /\ Len(new) = Len(old) /\ DOMAIN new = DOMAIN old
      /\ \A m \in DOMAIN old :
           new[m] = IF m = n + 1 THEN old[n] ELSE IF m = n THEN old[n + 1] ELSE old[m]
  BY <1>1, <1>2
<1>4. ExitsAt(new) = ExitsAt(old)
  BY <1>2, <1>3 DEF ExitsAt
<1>5. old # <<>> => new # <<>>
  BY <1>3
<1>6. \A m \in DOMAIN new : \E k \in DOMAIN old : new[m] = old[k]
  BY <1>2, <1>3
<1>7. MentionsNoMore(old, new)
  BY <1>6, SameNodes DEF MentionsNoMore
<1>8. QED
  BY <1>3, <1>4, <1>5, <1>7 DEF Spares

(* What is inserted has no exit.                                           *)
LEMMA InsertSpares ==
  ASSUME NEW old \in Seq(Node), NEW at \in 0 .. Len(old), NEW new \in Seq(Node),
         ExitsAt(new) = {}
  PROVE  Spares(old, Insert(old, at, new))
<1>1. /\ Insert(old, at, new) \in Seq(Node)
      /\ Len(Insert(old, at, new)) = Len(old) + Len(new)
      /\ Cardinality(ExitsAt(Insert(old, at, new))) = Cardinality(ExitsAt(old))
  BY InsertFacts, InsertExits
<1>2. old # <<>> => Insert(old, at, new) # <<>>
  BY <1>1
<1>3. QED
  BY <1>1, <1>2 DEF Spares

(* Each of the nodes was there or is inserted.                             *)
LEMMA InsertMentions ==
  ASSUME NEW old \in Seq(Node), NEW at \in 0 .. Len(old), NEW new \in Seq(Node), NEW name
  PROVE  NodesMention(Insert(old, at, new), name) =>
           NodesMention(old, name) \/ NodesMention(new, name)
<1> DEFINE all == Insert(old, at, new)
<1>1. /\ all \in Seq(Node) /\ Len(all) = Len(old) + Len(new)
      /\ \A n \in 1 .. at : all[n] = old[n]
      /\ \A n \in 1 .. Len(new) : all[at + n] = new[n]
      /\ \A n \in at + 1 .. Len(old) : all[n + Len(new)] = old[n]
  BY InsertFacts
<1> HIDE DEF all
<1>2. ASSUME NEW m \in DOMAIN all
      PROVE  (\E n \in DOMAIN old : all[m] = old[n]) \/ (\E n \in DOMAIN new : all[m] = new[n])
  <2>1. /\ m \in 1 .. Len(old) + Len(new) /\ Len(old) \in Nat /\ Len(new) \in Nat
        /\ at \in Nat /\ at <= Len(old)
    BY <1>1
  <2>2. CASE m <= at
    BY <1>1, <2>1, <2>2
  <2>3. CASE at < m /\ m <= at + Len(new)
    <3>1. m - at \in 1 .. Len(new) /\ at + (m - at) = m
      BY <2>1, <2>3
    <3>2. all[at + (m - at)] = new[m - at] /\ m - at \in DOMAIN new
      BY <1>1, <3>1
    <3>3. QED
      BY <3>1, <3>2
  <2>4. CASE at + Len(new) < m
    <3>1. m - Len(new) \in at + 1 .. Len(old) /\ m - Len(new) + Len(new) = m
          /\ m - Len(new) \in DOMAIN old
      BY <2>1, <2>4
    <3>2. all[m - Len(new) + Len(new)] = old[m - Len(new)]
      BY <1>1, <3>1
    <3>3. QED
      BY <3>1, <3>2
  <2>5. QED
    BY <2>1, <2>2, <2>3, <2>4
<1>3. SUFFICES ASSUME NEW m \in DOMAIN all, NEW a \in DOMAIN all[m].args, all[m].args[a] = Symbol(name)
              PROVE  NodesMention(old, name) \/ NodesMention(new, name)
  BY DEF NodesMention, all
<1>4. CASE \E n \in DOMAIN old : all[m] = old[n]
  BY <1>3, <1>4 DEF NodesMention
<1>5. CASE \E n \in DOMAIN new : all[m] = new[n]
  BY <1>3, <1>5 DEF NodesMention
<1>6. QED
  BY <1>2, <1>4, <1>5

-----------------------------------------------------------------------------
(* The filter.                                                             *)

(* A non-empty set of numbers has a least element.                         *)
LEMMA Least ==
  ASSUME NEW S \in SUBSET Nat, S # {}
  PROVE  \E n \in S : \A m \in S : n <= m
<1>1. PICK n \in S : \A m \in S : ~ (<<m, n>> \in OpToRel(<, Nat))
  BY WFMin, NatLessThanWellFounded
<1>2. \A m \in S : ~ (m < n)
  BY <1>1 DEF OpToRel
<1>3. QED
  BY <1>2

(* And a greatest one, if it is bounded.                                   *)
LEMMA Greatest ==
  ASSUME NEW S \in SUBSET Nat, S # {}, NEW bound \in Nat, \A m \in S : m <= bound
  PROVE  \E n \in S : \A m \in S : m <= n
<1> DEFINE Bounds == {b \in Nat : \A m \in S : m <= b}
<1>1. PICK n \in Bounds : \A b \in Bounds : n <= b
  <2>1. bound \in Bounds
    OBVIOUS
  <2>2. Bounds \in SUBSET Nat /\ Bounds # {}
    BY <2>1
  <2> HIDE DEF Bounds
  <2>3. QED
    BY <2>2, Least
<1>2. n \in S
  <2> SUFFICES ASSUME n \notin S PROVE FALSE
    OBVIOUS
  <2>1. \A m \in S : m < n /\ m \in Nat /\ n \in Nat
    BY <1>1
  <2>2. n # 0 /\ n \in Nat
    <3>1. PICK m \in S : TRUE
      OBVIOUS
    <3>2. QED
      BY <2>1, <3>1
  <2>3. n - 1 \in Bounds
    BY <2>1, <2>2
  <2>4. QED
    BY <1>1, <2>2, <2>3
<1>3. QED
  BY <1>1, <1>2

(* The n-th element of a set is one: the least with n that are not greater *)
(* has exactly n of them, or the one before it would have as many.         *)
LEMMA NthExists ==
  ASSUME NEW K \in SUBSET Nat, IsFiniteSet(K), NEW bound \in Nat, \A k \in K : k <= bound,
         NEW n \in 1 .. Cardinality(K)
  PROVE  Nth(K, n) \in K
<1> DEFINE upto(k) == {j \in K : j <= k}
           below(k) == {j \in K : j < k}
           enough == {k \in K : n <= Cardinality(upto(k))}
<1>1. Cardinality(K) \in Nat /\ n \in Nat /\ 1 <= n /\ n <= Cardinality(K)
  BY FS_CardinalityType
<1>2. K # {}
  BY <1>1, FS_EmptySet
<1>3. PICK greatest \in K : \A k \in K : k <= greatest
  BY <1>2, Greatest
<1>4. upto(greatest) = K
  BY <1>3
<1>5. greatest \in enough
  BY <1>1, <1>4
<1>6. PICK k \in enough : \A j \in enough : k <= j
  BY <1>5, Least
<1>7. /\ IsFiniteSet(below(k)) /\ Cardinality(below(k)) \in Nat
      /\ upto(k) = below(k) \cup {k} /\ k \notin below(k)
  <2>1. below(k) \in SUBSET K
    OBVIOUS
  <2>2. IsFiniteSet(below(k)) /\ Cardinality(below(k)) \in Nat
    BY <2>1, FS_Subset, FS_CardinalityType
  <2>3. upto(k) = below(k) \cup {k} /\ k \notin below(k)
    <3>1. k \in K /\ \A j \in K : j \in Nat /\ k \in Nat
      BY <1>6
    <3>2. \A j \in K : j <= k <=> j < k \/ j = k
      BY <3>1
    <3>3. k \notin below(k)
      BY <3>1
    <3>4. upto(k) = below(k) \cup {k}
      BY <3>1, <3>2, Zenon
    <3>5. QED
      BY <3>3, <3>4
  <2>4. QED
    BY <2>2, <2>3
<1>8. Cardinality(upto(k)) = Cardinality(below(k)) + 1
  BY <1>7, FS_AddElement
<1>9. Cardinality(below(k)) < n
  <2> SUFFICES ASSUME n <= Cardinality(below(k)) PROVE FALSE
    BY <1>1, <1>7
  <2>1. below(k) # {}
    BY <1>1, FS_EmptySet
  <2>2. PICK j \in below(k) : \A m \in below(k) : m <= j
    <3>1. below(k) \in SUBSET Nat /\ \A m \in below(k) : m <= bound
      OBVIOUS
    <3>2. QED
      BY <2>1, <3>1, Greatest
  <2>3. upto(j) = below(k) /\ j \in K /\ j < k
    <3>1. j \in K /\ j < k /\ k \in Nat /\ \A m \in K : m \in Nat
      BY <1>6, <2>2
    <3>2. \A m \in K : m <= j <=> m < k
      BY <2>2, <3>1
    <3>3. QED
      BY <3>1, <3>2
  <2>4. j \in enough
    BY <2>3
  <2>5. QED
    BY <1>6, <2>3, <2>4
<1>10. Cardinality(upto(k)) = n
  BY <1>1, <1>6, <1>7, <1>8, <1>9
<1>11. \E m \in K : Cardinality({j \in K : j <= m}) = n
  BY <1>6, <1>10
<1>12. QED
  BY <1>11 DEF Nth

(* What the filter lets through: nodes of the region, none an exit.        *)
LEMMA NonExitFacts ==
  ASSUME NEW nodes \in Seq(Node)
  PROVE  /\ NonExit(nodes) \in Seq(Node)
         /\ \A n \in DOMAIN NonExit(nodes) :
              \E m \in DOMAIN nodes : NonExit(nodes)[n] = nodes[m] /\ nodes[m].op # "exit"
         /\ ExitsAt(NonExit(nodes)) = {}
<1> DEFINE K == Kept(nodes)
<1>1. K \in SUBSET (1 .. Len(nodes)) /\ Len(nodes) \in Nat
  BY DEF Kept
<1>2. IsFiniteSet(K) /\ Cardinality(K) \in Nat
  <2> HIDE DEF K
  <2>1. IsFiniteSet(1 .. Len(nodes))
    BY <1>1, FS_Interval
  <2>2. QED
    BY <1>1, <2>1, FS_Subset, FS_CardinalityType
<1>3. \A n \in 1 .. Cardinality(K) : Nth(K, n) \in K
  <2>1. K \in SUBSET Nat /\ \A k \in K : k <= Len(nodes)
    BY <1>1
  <2> HIDE DEF K
  <2>2. QED
    BY <1>1, <1>2, <2>1, NthExists
<1>4. NonExit(nodes) = [n \in 1 .. Cardinality(K) |-> nodes[Nth(K, n)]]
  BY DEF NonExit
<1>5. \A k \in K : k \in DOMAIN nodes /\ nodes[k] \in Node /\ nodes[k].op # "exit"
  BY DEF Kept
<1> HIDE DEF K
<1>6. \A n \in 1 .. Cardinality(K) : nodes[Nth(K, n)] \in Node
  BY <1>3, <1>5
<1>7. NonExit(nodes) \in Seq(Node) /\ DOMAIN NonExit(nodes) = 1 .. Cardinality(K)
  BY <1>2, <1>4, <1>6
<1>8. QED
  BY <1>3, <1>4, <1>5, <1>7 DEF ExitsAt

-----------------------------------------------------------------------------
(* What the steps of mutate() do to an IR.                                 *)

LEMMA SparesFacts ==
  ASSUME NEW old \in Seq(Node), NEW new, Spares(old, new)
  PROVE  /\ new \in Seq(Node) /\ (old # <<>> => new # <<>>)
         /\ ExitsAt(old) # {} => ExitsAt(new) # {}
<1>1. new \in Seq(Node) /\ (old # <<>> => new # <<>>)
  BY DEF Spares
<1>2. /\ Cardinality(ExitsAt(old)) = 0 <=> ExitsAt(old) = {}
      /\ Cardinality(ExitsAt(new)) = 0 <=> ExitsAt(new) = {}
  BY <1>1, ExitsAtFinite, FS_EmptySet
<1>3. QED
  BY <1>1, <1>2 DEF Spares

LEMMA WithNodesKeeps ==
  ASSUME NEW orig \in IrSeqOf(Node), NEW ir \in IrSeqOf(Node), NEW next \in Nat,
         RegionsKept(orig, ir, next),
         NEW r \in DOMAIN ir.regions, NEW nodes \in Seq(Node),
         Nodes(ir, r) # <<>> => nodes # <<>>,
         ExitsAt(Nodes(ir, r)) # {} => ExitsAt(nodes) # {}
  PROVE  RegionsKept(orig, WithNodes(ir, r, nodes), next)
<1> DEFINE new == WithNodes(ir, r, nodes)
<1>1. /\ Len(new.regions) = Len(ir.regions) /\ DOMAIN new.regions = DOMAIN ir.regions
      /\ \A q \in DOMAIN ir.regions :
           /\ new.regions[q].id = ir.regions[q].id
           /\ Nodes(new, q) = IF q = r THEN nodes ELSE Nodes(ir, q)
  BY WithNodesFacts
<1> HIDE DEF new
<1>2. DOMAIN orig.regions \subseteq DOMAIN ir.regions
  BY RegionTypes DEF RegionsKept
<1>3. QED
  BY <1>1, <1>2 DEF RegionsKept, new

LEMMA WithNodesCounts ==
  ASSUME NEW orig \in IrSeqOf(Node), NEW ir \in IrSeqOf(Node), NEW extra \in Nat,
         ExitsCounted(orig, ir, extra),
         NEW r \in DOMAIN ir.regions, NEW nodes, Spares(Nodes(ir, r), nodes)
  PROVE  ExitsCounted(orig, WithNodes(ir, r, nodes), extra)
<1>1. nodes \in Seq(Node) /\ Nodes(ir, r) \in Seq(Node)
      /\ Cardinality(ExitsAt(nodes)) = Cardinality(ExitsAt(Nodes(ir, r)))
  BY RegionTypes DEF Spares
<1>2. WithNodes(ir, r, nodes) \in IrSeqOf(Node)
      /\ Len(WithNodes(ir, r, nodes).regions) = Len(ir.regions)
  BY <1>1, WithNodesFacts
<1>3. Exits(WithNodes(ir, r, nodes)) = Exits(ir)
  BY <1>1, <1>2, WithNodesExits, ExitsAtFinite, ExitsFinite
<1>4. QED
  BY <1>2, <1>3 DEF ExitsCounted

LEMMA WithNodesCalls ==
  ASSUME NEW orig \in IrSeqOf(Node), NEW ir \in IrSeqOf(Node), CallsDownwards(orig, ir),
         NEW r \in DOMAIN ir.regions, NEW nodes \in Seq(Node),
         MentionsNoMore(Nodes(ir, r), nodes)
  PROVE  CallsDownwards(orig, WithNodes(ir, r, nodes))
<1> DEFINE new == WithNodes(ir, r, nodes)
<1>1. /\ DOMAIN new.regions = DOMAIN ir.regions
      /\ \A q \in DOMAIN ir.regions :
           /\ new.regions[q].id = ir.regions[q].id
           /\ Nodes(new, q) = IF q = r THEN nodes ELSE Nodes(ir, q)
  BY WithNodesFacts
<1> HIDE DEF new
<1>2. \A q \in DOMAIN ir.regions, k \in Nat :
        NodesMention(Nodes(new, q), Spliced(k)) => NodesMention(Nodes(ir, q), Spliced(k))
  BY <1>1 DEF MentionsNoMore
<1>3. QED
  BY <1>1, <1>2 DEF CallsDownwards, new

(* A spliced function comes in, under the next number.                     *)
LEMMA PushedKeeps ==
  ASSUME NEW orig \in IrSeqOf(Node), NEW ir \in IrSeqOf(Node), NEW next \in Nat,
         RegionsKept(orig, ir, next),
         NEW region \in Region(Node), region.id = Spliced(next), ExitsAt(region.nodes) # {}
  PROVE  RegionsKept(orig, Pushed(ir, region), next + 1)
<1> DEFINE new == Pushed(ir, region)  last == Len(ir.regions) + 1
<1>1. /\ Len(new.regions) = last /\ new.regions[last] = region
      /\ \A r \in DOMAIN ir.regions : new.regions[r] = ir.regions[r]
      /\ new \in IrSeqOf(Node)
  BY PushedFacts
<1> HIDE DEF new
<1>2. /\ DOMAIN new.regions = DOMAIN ir.regions \cup {last} /\ last \notin DOMAIN ir.regions
      /\ DOMAIN orig.regions \subseteq DOMAIN ir.regions
      /\ \A r \in DOMAIN ir.regions : r \in Nat /\ r < last
      /\ Len(orig.regions) <= Len(new.regions) /\ last \in Nat
  BY <1>1, RegionTypes DEF RegionsKept
<1>3. region.id.n = next
  BY DEF Spliced
<1>4. ASSUME NEW r \in DOMAIN ir.regions \ DOMAIN orig.regions
      PROVE  ir.regions[r].id.n \in Nat /\ ir.regions[r].id.n < next
  BY <1>4, RegionTypes DEF RegionsKept, Name
<1>5. ASSUME NEW r \in DOMAIN orig.regions
      PROVE  /\ new.regions[r].id = orig.regions[r].id
             /\ Nodes(orig, r) # <<>> => Nodes(new, r) # <<>>
  BY <1>1, <1>2 DEF RegionsKept, Nodes
<1>6. ASSUME NEW r \in DOMAIN new.regions \ DOMAIN orig.regions
      PROVE  /\ new.regions[r].id = Spliced(new.regions[r].id.n)
             /\ new.regions[r].id.n < next + 1
             /\ ExitsAt(Nodes(new, r)) # {}
             /\ \A q \in DOMAIN new.regions : r < q => new.regions[r].id.n < new.regions[q].id.n
  <2>1. CASE r = last
    <3>1. new.regions[r] = region /\ region.id = Spliced(region.id.n) /\ region.id.n < next + 1
      BY <1>1, <1>3, <2>1
    <3>2. \A q \in DOMAIN new.regions : ~ (r < q)
      BY <1>2, <2>1
    <3>3. QED
      BY <3>1, <3>2 DEF Nodes
  <2>2. CASE r \in DOMAIN ir.regions
    <3>1. /\ new.regions[r] = ir.regions[r] /\ r \in DOMAIN ir.regions \ DOMAIN orig.regions
          /\ ir.regions[r].id.n \in Nat /\ ir.regions[r].id.n < next
      BY <1>1, <1>4, <2>2
    <3>2. \A q \in DOMAIN new.regions : r < q => new.regions[r].id.n < new.regions[q].id.n
      BY <1>1, <1>2, <1>3, <3>1 DEF RegionsKept
    <3>3. QED
      BY <3>1, <3>2 DEF RegionsKept, Nodes
  <2>3. QED
    BY <1>2, <2>1, <2>2
<1>7. QED
  BY <1>2, <1>5, <1>6 DEF RegionsKept, new

LEMMA PushedCounts ==
  ASSUME NEW orig \in IrSeqOf(Node), NEW ir \in IrSeqOf(Node), NEW extra \in Nat,
         ExitsCounted(orig, ir, extra),
         NEW region \in Region(Node), Cardinality(ExitsAt(region.nodes)) = 1
  PROVE  ExitsCounted(orig, Pushed(ir, region), extra)
<1> DEFINE e  == Exits(ir)         l  == Len(ir.regions)
           e1 == Exits(Pushed(ir, region))  l1 == Len(Pushed(ir, region).regions)
           e0 == Exits(orig)       l0 == Len(orig.regions)
<1>1. e1 = e + 1 /\ l1 = l + 1
  BY PushedExits, PushedFacts
<1>2. e \in Nat /\ e0 \in Nat /\ l \in Nat /\ l0 \in Nat
  BY ExitsFinite, RegionTypes
<1>3. e = e0 + (l - l0) + extra
  BY DEF ExitsCounted
<1>4. SUFFICES e1 = e0 + (l1 - l0) + extra
  BY DEF ExitsCounted
<1> HIDE DEF e, e1, e0, l, l1, l0
<1>5. QED
  BY <1>1, <1>2, <1>3

(* The new function is called from above it, and calls none itself.        *)
LEMMA SplicedCalls ==
  ASSUME NEW orig \in IrSeqOf(Node), NEW ir \in IrSeqOf(Node), CallsDownwards(orig, ir),
         DOMAIN orig.regions \subseteq DOMAIN ir.regions,
         NEW region \in Region(Node), \A k \in Nat : ~ NodesMention(region.nodes, Spliced(k)),
         NEW r \in DOMAIN ir.regions, NEW nodes \in Seq(Node),
         \A k \in Nat : NodesMention(nodes, Spliced(k)) =>
            NodesMention(Nodes(ir, r), Spliced(k)) \/ Spliced(k) = region.id
  PROVE  CallsDownwards(orig, WithNodes(Pushed(ir, region), r, nodes))
<1> DEFINE last == Len(ir.regions) + 1
           mid  == Pushed(ir, region)
           new  == WithNodes(mid, r, nodes)
<1>1. /\ Len(mid.regions) = last /\ mid.regions[last] = region /\ mid \in IrSeqOf(Node)
      /\ \A q \in DOMAIN ir.regions : mid.regions[q] = ir.regions[q]
  BY PushedFacts
<1> HIDE DEF mid
<1>2. /\ DOMAIN mid.regions = DOMAIN ir.regions \cup {last} /\ last \notin DOMAIN ir.regions
      /\ \A q \in DOMAIN ir.regions : q < last
  BY <1>1, RegionTypes
<1>3. /\ DOMAIN new.regions = DOMAIN mid.regions
      /\ \A q \in DOMAIN mid.regions :
           /\ new.regions[q].id = mid.regions[q].id
           /\ Nodes(new, q) = IF q = r THEN nodes ELSE Nodes(mid, q)
  BY <1>1, <1>2, WithNodesFacts
<1> HIDE DEF new, last
<1>4. SUFFICES ASSUME NEW q \in DOMAIN new.regions, NEW k \in Nat,
                      NodesMention(Nodes(new, q), Spliced(k))
               PROVE  \E t \in DOMAIN new.regions \ DOMAIN orig.regions :
                        q < t /\ new.regions[t].id = Spliced(k)
  BY DEF CallsDownwards, new, mid
<1>5. q \in DOMAIN ir.regions
  BY <1>1, <1>2, <1>3, <1>4 DEF Nodes
<1>6. NodesMention(Nodes(ir, q), Spliced(k)) \/ Spliced(k) = region.id
  BY <1>1, <1>2, <1>3, <1>4, <1>5 DEF Nodes
<1>7. CASE Spliced(k) = region.id
  BY <1>1, <1>2, <1>3, <1>5, <1>7
<1>8. CASE NodesMention(Nodes(ir, q), Spliced(k))
  <2>1. PICK t \in DOMAIN ir.regions \ DOMAIN orig.regions : q < t /\ ir.regions[t].id = Spliced(k)
    BY <1>5, <1>8 DEF CallsDownwards
  <2>2. QED
    BY <1>1, <1>2, <1>3, <2>1
<1>9. QED
  BY <1>6, <1>7, <1>8

(* Whatever was a subsequence still is one when more is inserted.          *)
LEMMA SubsequenceInsert ==
  ASSUME NEW s \in Seq(Node), NEW t \in Seq(Node), Subsequence(s, t),
         NEW at \in 0 .. Len(t), NEW new \in Seq(Node)
  PROVE  Subsequence(s, Insert(t, at, new))
<1> DEFINE all == Insert(t, at, new)
           shift(n) == IF n <= at THEN n ELSE n + Len(new)
<1>1. /\ all \in Seq(Node) /\ Len(all) = Len(t) + Len(new)
      /\ \A n \in 1 .. at : all[n] = t[n]
      /\ \A n \in at + 1 .. Len(t) : all[n + Len(new)] = t[n]
  BY InsertFacts
<1> HIDE DEF all
<1>2. /\ Len(t) \in Nat /\ Len(new) \in Nat /\ at \in Nat /\ at <= Len(t)
      /\ DOMAIN t = 1 .. Len(t) /\ DOMAIN all = 1 .. Len(t) + Len(new)
  BY <1>1
<1>3. PICK f \in [DOMAIN s -> DOMAIN t] :
        /\ \A i, j \in DOMAIN s : i < j => f[i] < f[j]
        /\ \A i \in DOMAIN s : s[i] = t[f[i]]
  BY DEF Subsequence
<1> DEFINE g == [i \in DOMAIN s |-> shift(f[i])]
<1>4. \A n \in DOMAIN t : shift(n) \in DOMAIN all /\ all[shift(n)] = t[n] /\ n \in Nat
  BY <1>1, <1>2
<1>5. \A m, n \in DOMAIN t : m < n => shift(m) < shift(n)
  BY <1>2
<1> HIDE DEF shift
<1>6. g \in [DOMAIN s -> DOMAIN all]
  BY <1>3, <1>4
<1>7. \A i, j \in DOMAIN s : i < j => g[i] < g[j]
  BY <1>3, <1>5
<1>8. \A i \in DOMAIN s : s[i] = all[g[i]]
  BY <1>3, <1>4
<1>9. QED
  BY <1>6, <1>7, <1>8 DEF Subsequence, all

-----------------------------------------------------------------------------
(* The exit at the end.                                                    *)

LEMMA LastShownFacts ==
  ASSUME NEW ir \in IrSeqOf(Node), Shown(ir) # {}
  PROVE  /\ LastShown(ir) \in Shown(ir) /\ \A q \in Shown(ir) : q <= LastShown(ir)
         /\ LastShown(ir) \in DOMAIN ir.regions /\ LastShown(ir) \in Nat
         /\ Nodes(ir, LastShown(ir)) # <<>>
<1>1. Shown(ir) \in SUBSET Nat /\ \A r \in Shown(ir) : r <= Len(ir.regions)
  BY RegionTypes DEF Shown
<1>2. \E r \in Shown(ir) : \A q \in Shown(ir) : q <= r
  BY <1>1, RegionTypes, Greatest
<1>3. LastShown(ir) \in Shown(ir) /\ \A q \in Shown(ir) : q <= LastShown(ir)
  BY <1>2 DEF LastShown
<1>4. QED
  BY <1>1, <1>3 DEF Shown, Nodes

(* Either there is an exit at the end, or the last region that has nodes,  *)
(* or the first one if none has, gets one.                                 *)
LEMMA ExitAtEndForm ==
  ASSUME NEW ir \in IrSeqOf(Node), ir.regions # <<>>
  PROVE  \/ WithExitAtEnd(ir) = ir /\ EndsInExit(ir)
         \/ \E r \in DOMAIN ir.regions :
              /\ WithExitAtEnd(ir) = WithNodes(ir, r, Append(Nodes(ir, r), Exit))
              /\ \A q \in Shown(ir) : q <= r
<1>1. CASE Shown(ir) # {} /\ Last(Nodes(ir, LastShown(ir))).op = "exit"
  BY <1>1 DEF WithExitAtEnd, EndsInExit
<1>2. CASE Shown(ir) # {} /\ Last(Nodes(ir, LastShown(ir))).op # "exit"
  <2>1. WithExitAtEnd(ir) = WithNodes(ir, LastShown(ir), Append(Nodes(ir, LastShown(ir)), Exit))
    BY <1>2 DEF WithExitAtEnd
  <2>2. QED
    BY <1>2, <2>1, LastShownFacts
<1>3. CASE Shown(ir) = {}
  <2>1. 1 \in DOMAIN ir.regions
    BY RegionTypes
  <2>2. Nodes(ir, 1) = <<>>
    BY <1>3, <2>1 DEF Shown, Nodes
  <2>3. WithExitAtEnd(ir) = WithNodes(ir, 1, <<Exit>>) /\ <<Exit>> = Append(<<>>, Exit)
    BY <1>3 DEF WithExitAtEnd
  <2>4. QED
    BY <1>3, <2>1, <2>2, <2>3
<1>4. QED
  BY <1>1, <1>2, <1>3

LEMMA EndsWhereShown ==
  ASSUME NEW ir \in IrSeqOf(Node), NEW r \in Shown(ir), r \in Nat,
         \A q \in Shown(ir) : q <= r, Last(Nodes(ir, r)).op = "exit"
  PROVE  EndsInExit(ir)
<1>1. LastShown(ir) \in Shown(ir) /\ LastShown(ir) \in Nat
      /\ \A q \in Shown(ir) : q <= LastShown(ir)
  BY LastShownFacts
<1>2. LastShown(ir) = r
  BY <1>1
<1>3. QED
  BY <1>2 DEF EndsInExit

LEMMA AppendedEnds ==
  ASSUME NEW ir \in IrSeqOf(Node), NEW r \in DOMAIN ir.regions, \A q \in Shown(ir) : q <= r
  PROVE  /\ WithNodes(ir, r, Append(Nodes(ir, r), Exit)) \in IrSeqOf(Node)
         /\ EndsInExit(WithNodes(ir, r, Append(Nodes(ir, r), Exit)))
<1> DEFINE nodes == Append(Nodes(ir, r), Exit)
           new == WithNodes(ir, r, nodes)
<1>1. nodes \in Seq(Node) /\ nodes # <<>> /\ Last(nodes) = Exit /\ r \in Nat
  BY RegionTypes, AppendExits, SMTT(30) DEF Last
<1> HIDE DEF nodes
<1>2. /\ new \in IrSeqOf(Node) /\ DOMAIN new.regions = DOMAIN ir.regions
      /\ \A q \in DOMAIN ir.regions : Nodes(new, q) = IF q = r THEN nodes ELSE Nodes(ir, q)
  BY <1>1, WithNodesFacts
<1> HIDE DEF new
<1>3. Shown(new) = Shown(ir) \cup {r}
  BY <1>1, <1>2 DEF Shown, Nodes
<1>4. \A q \in Shown(new) : q <= r
  BY <1>1, <1>3
<1>5. Last(Nodes(new, r)).op = "exit"
  BY <1>1, <1>2 DEF Exit
<1>6. EndsInExit(new)
  BY <1>1, <1>2, <1>3, <1>4, <1>5, EndsWhereShown
<1>7. QED
  BY <1>2, <1>6 DEF new, nodes

(* A program of nothing but an exit.                                       *)
LEMMA BareEnds ==
  ASSUME NEW ir \in IrSeqOf(Node), NEW region,
         region = [id |-> Generated(0), nodes |-> <<Exit>>]
  PROVE  /\ [ir EXCEPT !.regions = <<region>>] \in IrSeqOf(Node)
         /\ EndsInExit([ir EXCEPT !.regions = <<region>>])
<1> DEFINE new == [ir EXCEPT !.regions = <<region>>]
<1>e. Exit \in Node
  <2>1. <<>> \in Seq(Node)
    OBVIOUS
  <2>2. QED
    BY <2>1, AppendExits
<1>1. <<Exit>> \in Seq(Node) /\ <<Exit>> # <<>> /\ Last(<<Exit>>) = Exit
  BY <1>e DEF Last
<1>2. Generated(0) \in Name
  BY DEF Generated, Name
<1>3. region \in Region(Node) /\ region.nodes = <<Exit>>
  BY <1>1, <1>2 DEF Region
<1>4. <<region>> \in Seq(Region(Node))
  BY <1>3
<1>5. new \in IrSeqOf(Node) /\ new.regions = <<region>>
  BY <1>4 DEF IrSeqOf
<1> HIDE DEF new
<1>6. DOMAIN new.regions = {1} /\ new.regions[1] = region
  BY <1>5
<1>7. Shown(new) = {1} /\ Last(Nodes(new, 1)).op = "exit"
  BY <1>1, <1>3, <1>6, SMTT(30) DEF Shown, Nodes, Exit
<1>8. EndsInExit(new)
  <2>1. 1 \in Shown(new) /\ 1 \in Nat /\ \A q \in Shown(new) : q <= 1
    BY <1>7
  <2>2. QED
    BY <1>5, <1>7, <2>1, EndsWhereShown
<1>9. QED
  BY <1>5, <1>8 DEF new

LEMMA ExitAtEndEnds ==
  ASSUME NEW ir \in IrSeqOf(Node)
  PROVE  WithExitAtEnd(ir) \in IrSeqOf(Node) /\ EndsInExit(WithExitAtEnd(ir))
<1>1. CASE ir.regions # <<>>
  BY <1>1, ExitAtEndForm, AppendedEnds
<1>2. CASE ir.regions = <<>>
  <2>1. Shown(ir) = {}
    BY <1>2 DEF Shown
  <2>2. WithExitAtEnd(ir) =
          [ir EXCEPT !.regions = <<[id |-> Generated(0), nodes |-> <<Exit>>]>>]
    BY <1>2, <2>1 DEF WithExitAtEnd
  <2>3. QED
    BY <2>2, BareEnds
<1>3. QED
  BY <1>1, <1>2

LEMMA ExitAtEndKeeps ==
  ASSUME NEW orig \in IrSeqOf(Node), NEW ir \in IrSeqOf(Node), NEW next \in Nat,
         orig.regions # <<>>, RegionsKept(orig, ir, next), ExitsCounted(orig, ir, 0)
  PROVE  /\ RegionsKept(orig, WithExitAtEnd(ir), next)
         /\ CallsDownwards(orig, ir) => CallsDownwards(orig, WithExitAtEnd(ir))
         /\ \E extra \in 0 .. 1 : ExitsCounted(orig, WithExitAtEnd(ir), extra)
<1>1. ir.regions # <<>>
  BY RegionTypes DEF RegionsKept
<1>2. CASE WithExitAtEnd(ir) = ir
  BY <1>2
<1>3. CASE \E r \in DOMAIN ir.regions : WithExitAtEnd(ir) = WithNodes(ir, r, Append(Nodes(ir, r), Exit))
  <2>1. PICK r \in DOMAIN ir.regions : WithExitAtEnd(ir) = WithNodes(ir, r, Append(Nodes(ir, r), Exit))
    BY <1>3
  <2> DEFINE old == Nodes(ir, r)
             nodes == Append(old, Exit)
             new == WithNodes(ir, r, nodes)
  <2>2. old \in Seq(Node)
    BY RegionTypes
  <2> HIDE DEF old
  <2>3. /\ nodes \in Seq(Node) /\ nodes # <<>> /\ Len(nodes) = Len(old) + 1
        /\ \A n \in DOMAIN old : nodes[n] = old[n]
        /\ nodes[Len(old) + 1] = Exit
        /\ Cardinality(ExitsAt(nodes)) = Cardinality(ExitsAt(old)) + 1
    BY <2>2, AppendExits
  <2>4. DOMAIN nodes = DOMAIN old \cup {Len(old) + 1}
    BY <2>2, <2>3
  <2>5. ExitsAt(nodes) # {}
    BY <2>3, <2>4 DEF ExitsAt, Exit
  <2>6. MentionsNoMore(old, nodes)
    BY <2>3, <2>4 DEF MentionsNoMore, NodesMention, Exit
  <2> HIDE DEF nodes
  <2>7. RegionsKept(orig, new, next)
    BY <2>3, <2>5, WithNodesKeeps
  <2>8. CallsDownwards(orig, ir) => CallsDownwards(orig, new)
    BY <2>3, <2>6, WithNodesCalls DEF old
  <2>9. ExitsCounted(orig, new, 1)
    <3> DEFINE c == Cardinality(ExitsAt(old))  e == Exits(ir)  e0 == Exits(orig)  e1 == Exits(new)
               l == Len(ir.regions)  l0 == Len(orig.regions)
    <3>1. e1 + c = e + Cardinality(ExitsAt(nodes)) /\ Cardinality(ExitsAt(nodes)) = c + 1
      BY <2>3, WithNodesExits DEF old
    <3>2. e1 \in Nat /\ e \in Nat /\ e0 \in Nat /\ c \in Nat /\ l \in Nat /\ l0 \in Nat
      BY <2>2, <2>3, WithNodesFacts, ExitsFinite, ExitsAtFinite, RegionTypes
    <3>3. e = e0 + (l - l0) + 0
      BY DEF ExitsCounted
    <3>4. Len(new.regions) = l
      BY <2>3, WithNodesFacts
    <3>5. SUFFICES e1 = e0 + (l - l0) + 1
      BY <3>4 DEF ExitsCounted
    <3> HIDE DEF c, e, e0, e1, l, l0
    <3>6. QED
      BY <3>1, <3>2, <3>3, SMTT(30)
  <2>10. QED
    BY <2>1, <2>7, <2>8, <2>9 DEF nodes, old
<1>4. QED
  BY <1>1, <1>2, <1>3, ExitAtEndForm

-----------------------------------------------------------------------------
(* The steps of mutate().                                                  *)

LEMMA InputFacts ==
  ASSUME TypeOK
  PROVE  /\ irs # <<>> /\ Len(irs) \in Nat /\ DOMAIN irs = 1 .. Len(irs)
         /\ \A d \in DOMAIN irs : irs[d] \in IrSeqOf(Node)
         /\ Original \in IrSeqOf(Node)
<1>1. irs \in Seq(IrSeqOf(Node)) /\ irs # <<>>
  BY MutatorAssumption DEF TypeOK
<1>2. \A d \in DOMAIN irs : irs[d] \in IrSeqOf(Node)
  BY <1>1
<1>3. QED
  BY <1>1, <1>2 DEF TypeOK, Original

(* An operand that names a spliced function is not in a fresh program.     *)
LEMMA FreshMentionsNone ==
  ASSUME FreshInputs, NEW d \in DOMAIN irs, NEW r \in DOMAIN irs[d].regions, NEW k
  PROVE  /\ irs[d].regions[r].id # Spliced(k)
         /\ ~ NodesMention(Nodes(irs[d], r), Spliced(k))
<1>1. Symbol(Spliced(k)).name.stem = "function_spliced_" /\ Spliced(k).stem = "function_spliced_"
  BY DEF Symbol, Spliced
<1>2. irs[d].regions[r].id.stem # "function_spliced_"
  BY DEF FreshInputs
<1>3. \A i \in DOMAIN Nodes(irs[d], r) : \A a \in DOMAIN Nodes(irs[d], r)[i].args :
        Nodes(irs[d], r)[i].args[a].name.stem # "function_spliced_"
  BY DEF FreshInputs
<1>4. QED
  BY <1>1, <1>2, <1>3 DEF NodesMention

(* The numbers of the spliced functions stay below any greater bound.      *)
LEMMA KeptBelow ==
  ASSUME NEW orig \in IrSeqOf(Node), NEW ir \in IrSeqOf(Node), NEW next \in Nat, NEW bound \in Nat,
         next <= bound, RegionsKept(orig, ir, next)
  PROVE  RegionsKept(orig, ir, bound)
<1>1. \A r \in DOMAIN ir.regions : ir.regions[r].id.n \in Nat
  BY RegionTypes DEF Name
<1>2. \A r \in DOMAIN ir.regions \ DOMAIN orig.regions : ir.regions[r].id.n < bound
  BY <1>1 DEF RegionsKept
<1>3. QED
  BY <1>2 DEF RegionsKept

(* A step that gives one region other nodes, with care, or does nothing.   *)
Gentle ==
  \/ base' = base
  \/ \E r \in DOMAIN base.regions : \E nodes :
       /\ Spares(Nodes(base, r), nodes)
       /\ FreshInputs => MentionsNoMore(Nodes(base, r), nodes)
       /\ base' = WithNodes(base, r, nodes)

LEMMA GentleStep ==
  ASSUME TypeOK, BareInv, SpliceInv, Gentle,
         pc \in {"splice", "point"}, pc' \in {"splice", "point"},
         irs' = irs, base_idx' = base_idx, splice_id' \in Nat, splice_id <= splice_id'
  PROVE  base' \in IrSeqOf(Node) /\ BareInv' /\ SpliceInv'
<1>1. base \in IrSeqOf(Node) /\ Original \in IrSeqOf(Node) /\ splice_id \in Nat
  BY InputFacts DEF TypeOK
<1>2. Original' = Original /\ (FreshInputs' <=> FreshInputs)
  BY DEF Original, FreshInputs
<1>3. pc # "pick" /\ pc # "done" /\ pc' # "pick" /\ pc' # "done"
  OBVIOUS
<1>4. ASSUME Original.regions # <<>>
      PROVE  /\ RegionsKept(Original, base, splice_id')
             /\ FreshInputs => CallsDownwards(Original, base)
             /\ ExitsCounted(Original, base, 0)
  BY <1>1, <1>3, <1>4, KeptBelow DEF SpliceInv
<1>5. CASE base' = base
  <2>1. BareInv'
    BY <1>2, <1>3, <1>5 DEF BareInv
  <2>2. SpliceInv'
    BY <1>2, <1>3, <1>4, <1>5 DEF SpliceInv
  <2>3. QED
    BY <1>1, <1>5, <2>1, <2>2
<1>6. ASSUME NEW r \in DOMAIN base.regions, NEW nodes, Spares(Nodes(base, r), nodes),
             FreshInputs => MentionsNoMore(Nodes(base, r), nodes),
             base' = WithNodes(base, r, nodes)
      PROVE  base' \in IrSeqOf(Node) /\ BareInv' /\ SpliceInv'
  <2>1. /\ nodes \in Seq(Node) /\ (Nodes(base, r) # <<>> => nodes # <<>>)
        /\ ExitsAt(Nodes(base, r)) # {} => ExitsAt(nodes) # {}
    BY <1>1, <1>6, RegionTypes, SparesFacts
  <2>2. base' \in IrSeqOf(Node)
    BY <1>1, <1>6, <2>1, WithNodesFacts
  <2>3. Original.regions # <<>>
    BY <1>3, <1>6 DEF BareInv
  <2>4. RegionsKept(Original, base', splice_id')
    BY <1>1, <1>4, <1>6, <2>1, <2>3, WithNodesKeeps
  <2>5. FreshInputs => CallsDownwards(Original, base')
    BY <1>1, <1>4, <1>6, <2>1, <2>3, WithNodesCalls
  <2>6. ExitsCounted(Original, base', 0)
    BY <1>1, <1>4, <1>6, <2>3, WithNodesCounts
  <2>7. BareInv' /\ SpliceInv'
    BY <1>2, <1>3, <2>3, <2>4, <2>5, <2>6 DEF BareInv, SpliceInv
  <2>8. QED
    BY <2>2, <2>7
<1>7. QED
  BY <1>5, <1>6 DEF Gentle

(* The point mutations are gentle.                                         *)
LEMMA PointGentle ==
  ASSUME NEW outcomes, PointMutate(outcomes), TypeOK, DOMAIN outcomes = DOMAIN base.regions,
         \A r \in DOMAIN base.regions : \A nodes \in outcomes[r] :
            Spares(Nodes(base, r), nodes) /\ MentionsNoMore(Nodes(base, r), nodes)
  PROVE  /\ Gentle /\ pc = "point" /\ pc' = "point" /\ left' \in 0 .. MaxMutations
         /\ irs' = irs /\ base_idx' = base_idx /\ donor' = donor /\ splice_id' = splice_id
<1>1. Gentle
  BY DEF PointMutate, Gentle
<1>2. left' \in 0 .. MaxMutations
  BY MutatorAssumption DEF PointMutate, TypeOK
<1>3. QED
  BY <1>1, <1>2 DEF PointMutate

LEMMA PointStep ==
  ASSUME MutatorInv, OpSubstitute \/ OperandMutate \/ NodeDelete \/ NodeSwap
  PROVE  MutatorInv'
<1>1. TypeOK /\ base \in IrSeqOf(Node)
  BY DEF MutatorInv, TypeOK
<1>2. \A r \in DOMAIN base.regions : Nodes(base, r) \in Seq(Node)
  BY <1>1, RegionTypes
<1>3. /\ Gentle /\ pc = "point" /\ pc' = "point" /\ left' \in 0 .. MaxMutations
      /\ irs' = irs /\ base_idx' = base_idx /\ donor' = donor /\ splice_id' = splice_id
  <2>1. CASE OpSubstitute
    <3> DEFINE outcomes == [r \in DOMAIN base.regions |-> Substituted(Nodes(base, r))]
    <3>1. PointMutate(outcomes)
      BY <2>1 DEF OpSubstitute
    <3>2. \A r \in DOMAIN base.regions : \A nodes \in outcomes[r] :
            Spares(Nodes(base, r), nodes) /\ MentionsNoMore(Nodes(base, r), nodes)
      BY <1>2, SubstitutedFacts
    <3>3. DOMAIN outcomes = DOMAIN base.regions
      OBVIOUS
    <3> HIDE DEF outcomes
    <3>4. QED
      BY <1>1, <3>1, <3>2, <3>3, PointGentle
  <2>2. CASE OperandMutate
    <3> DEFINE outcomes == [r \in DOMAIN base.regions |-> OperandMutated(Nodes(base, r))]
    <3>1. PointMutate(outcomes)
      BY <2>2 DEF OperandMutate
    <3>2. \A r \in DOMAIN base.regions : \A nodes \in outcomes[r] :
            Spares(Nodes(base, r), nodes) /\ MentionsNoMore(Nodes(base, r), nodes)
      BY <1>2, OperandMutatedFacts
    <3>3. DOMAIN outcomes = DOMAIN base.regions
      OBVIOUS
    <3> HIDE DEF outcomes
    <3>4. QED
      BY <1>1, <3>1, <3>2, <3>3, PointGentle
  <2>3. CASE NodeDelete
    <3> DEFINE outcomes == [r \in DOMAIN base.regions |-> Deleted(Nodes(base, r))]
    <3>1. PointMutate(outcomes)
      BY <2>3 DEF NodeDelete
    <3>2. \A r \in DOMAIN base.regions : \A nodes \in outcomes[r] :
            Spares(Nodes(base, r), nodes) /\ MentionsNoMore(Nodes(base, r), nodes)
      BY <1>2, DeletedFacts
    <3>3. DOMAIN outcomes = DOMAIN base.regions
      OBVIOUS
    <3> HIDE DEF outcomes
    <3>4. QED
      BY <1>1, <3>1, <3>2, <3>3, PointGentle
  <2>4. CASE NodeSwap
    <3> DEFINE outcomes == [r \in DOMAIN base.regions |-> Swapped(Nodes(base, r))]
    <3>1. PointMutate(outcomes)
      BY <2>4 DEF NodeSwap
    <3>2. \A r \in DOMAIN base.regions : \A nodes \in outcomes[r] :
            Spares(Nodes(base, r), nodes) /\ MentionsNoMore(Nodes(base, r), nodes)
      BY <1>2, SwappedFacts
    <3>3. DOMAIN outcomes = DOMAIN base.regions
      OBVIOUS
    <3> HIDE DEF outcomes
    <3>4. QED
      BY <1>1, <3>1, <3>2, <3>3, PointGentle
  <2>5. QED
    BY <2>1, <2>2, <2>3, <2>4
<1>4. splice_id' \in Nat /\ splice_id <= splice_id'
  BY <1>1, <1>3 DEF TypeOK
<1>5. base' \in IrSeqOf(Node) /\ BareInv' /\ SpliceInv'
  BY <1>1, <1>3, <1>4, GentleStep DEF MutatorInv
<1>6. TypeOK'
  BY <1>1, <1>3, <1>5 DEF TypeOK
<1>7. SplicingOnlyAdds' /\ EndInv'
  BY <1>3 DEF SplicingOnlyAdds, EndInv
<1>8. QED
  BY <1>5, <1>6, <1>7 DEF MutatorInv

LEMMA SubsequenceItself == ASSUME NEW s \in Seq(Node) PROVE Subsequence(s, s)
<1> DEFINE f == [i \in DOMAIN s |-> i]
<1>1. /\ f \in [DOMAIN s -> DOMAIN s]
      /\ \A i, j \in DOMAIN s : i < j => f[i] < f[j]
      /\ \A i \in DOMAIN s : s[i] = s[f[i]]
  OBVIOUS
<1>2. QED
  BY <1>1 DEF Subsequence

LEMMA PickBaseStep ==
  ASSUME MutatorInv, PickBase
  PROVE  MutatorInv'
<1>1. TypeOK /\ irs' = irs /\ base_idx' \in DOMAIN irs /\ base' = irs[base_idx']
      /\ pc' = "splice" /\ donor' = 1 /\ splice_id' = 0 /\ left' = left
  BY DEF MutatorInv, PickBase
<1>2. /\ irs # <<>> /\ Len(irs) \in Nat /\ DOMAIN irs = 1 .. Len(irs)
      /\ \A d \in DOMAIN irs : irs[d] \in IrSeqOf(Node)
  BY <1>1, InputFacts
<1>3. base' \in IrSeqOf(Node) /\ Original' = base'
  BY <1>1, <1>2 DEF Original
<1>4. TypeOK'
  BY <1>1, <1>2, <1>3 DEF TypeOK
<1> DEFINE b == base'
<1>5. b \in IrSeqOf(Node)
  BY <1>3
<1>6. FreshInputs' => \A r \in DOMAIN b.regions : \A k : ~ NodesMention(Nodes(b, r), Spliced(k))
  <2>1. FreshInputs' <=> FreshInputs
    BY <1>1 DEF FreshInputs
  <2>2. FreshInputs => \A r \in DOMAIN irs[base_idx'].regions : \A k :
          ~ NodesMention(Nodes(irs[base_idx'], r), Spliced(k))
    BY <1>1, FreshMentionsNone
  <2>3. QED
    BY <1>1, <2>1, <2>2
<1>7. BareInv'
  BY <1>1, <1>3 DEF BareInv
<1>8. SpliceInv'
  <2> HIDE DEF b
  <2>1. RegionsKept(b, b, 0)
    BY <1>5, RegionTypes DEF RegionsKept
  <2>2. FreshInputs' => CallsDownwards(b, b)
    BY <1>6 DEF CallsDownwards
  <2>3. ExitsCounted(b, b, 0)
    BY <1>5, ExitsFinite, RegionTypes DEF ExitsCounted
  <2>4. QED
    BY <1>1, <1>3, <2>1, <2>2, <2>3 DEF SpliceInv, b
<1>9. SplicingOnlyAdds'
  BY <1>3, RegionTypes, SubsequenceItself DEF SplicingOnlyAdds
<1>10. EndInv'
  BY <1>1 DEF EndInv
<1>11. QED
  BY <1>4, <1>7, <1>8, <1>9, <1>10 DEF MutatorInv

(* What all turns of the splicing loop have in common.                     *)
LEMMA DonorTurn ==
  ASSUME TypeOK, AtDonor
  PROVE  /\ irs' = irs /\ pc = "splice" /\ pc' = "splice" /\ base_idx' = base_idx /\ left' = left
         /\ donor \in DOMAIN irs /\ donor' \in 1 .. Len(irs') + 1
         /\ Original' = Original
         /\ base' \in IrSeqOf(Node) /\ splice_id' \in Nat => TypeOK'
<1>1. /\ irs' = irs /\ pc = "splice" /\ pc' = "splice" /\ base_idx' = base_idx /\ left' = left
      /\ donor <= Len(irs) /\ donor' = donor + 1
  BY DEF AtDonor
<1>2. donor \in 1 .. Len(irs) + 1 /\ DOMAIN irs = 1 .. Len(irs) /\ Len(irs) \in Nat
  BY InputFacts DEF TypeOK
<1>3. donor \in DOMAIN irs /\ donor' \in 1 .. Len(irs') + 1
  BY <1>1, <1>2
<1>4. base' \in IrSeqOf(Node) /\ splice_id' \in Nat => TypeOK'
  BY <1>1, <1>3 DEF TypeOK
<1>5. Original' = Original
  BY <1>1 DEF Original
<1>6. QED
  BY <1>1, <1>3, <1>4, <1>5

(* Where something is inserted, and into which region.                     *)
LEMMA PointTypes ==
  ASSUME NEW ir \in IrSeqOf(Node), NEW p \in Points(ir)
  PROVE  /\ p[1] \in DOMAIN ir.regions /\ p[2] \in 0 .. Len(Nodes(ir, p[1]))
         /\ Nodes(ir, p[1]) \in Seq(Node)
<1>1. PICK r \in Shown(ir) : p \in {r} \X (0 .. Len(Nodes(ir, r)))
  BY DEF Points
<1>2. p[1] = r /\ p[2] \in 0 .. Len(Nodes(ir, r)) /\ r \in DOMAIN ir.regions
  BY <1>1 DEF Shown
<1>3. QED
  BY <1>2, RegionTypes

(* A step that leaves the base's own regions, or inserts into one of them. *)
LEMMA OnlyAdds ==
  ASSUME TypeOK, SpliceInv, SplicingOnlyAdds, pc = "splice", Original' = Original,
         \/ \A r \in DOMAIN base.regions : Nodes(base', r) = Nodes(base, r)
         \/ \E q \in DOMAIN base.regions : \E at \in 0 .. Len(Nodes(base, q)), new \in Seq(Node) :
              \A r \in DOMAIN base.regions :
                Nodes(base', r) = IF r = q THEN Insert(Nodes(base, q), at, new) ELSE Nodes(base, r)
  PROVE  SplicingOnlyAdds'
<1>1. SUFFICES ASSUME NEW r \in DOMAIN Original.regions
               PROVE  Subsequence(Nodes(Original, r), Nodes(base', r))
  BY DEF SplicingOnlyAdds
<1>2. base \in IrSeqOf(Node) /\ Original \in IrSeqOf(Node)
  BY InputFacts DEF TypeOK
<1>3. r \in DOMAIN base.regions
  <2>1. Len(Original.regions) <= Len(base.regions)
    BY <1>1, <1>2, RegionTypes DEF SpliceInv, RegionsKept
  <2>2. QED
    BY <1>1, <1>2, <2>1, RegionTypes
<1>4. /\ Subsequence(Nodes(Original, r), Nodes(base, r))
      /\ Nodes(Original, r) \in Seq(Node) /\ Nodes(base, r) \in Seq(Node)
  BY <1>1, <1>2, <1>3, RegionTypes DEF SplicingOnlyAdds
<1>5. CASE Nodes(base', r) = Nodes(base, r)
  BY <1>4, <1>5
<1>6. ASSUME NEW at \in 0 .. Len(Nodes(base, r)), NEW new \in Seq(Node),
             Nodes(base', r) = Insert(Nodes(base, r), at, new)
      PROVE  Subsequence(Nodes(Original, r), Nodes(base', r))
  BY <1>4, <1>6, SubsequenceInsert
<1>7. QED
  BY <1>3, <1>5, <1>6

LEMMA SkipDonorStep ==
  ASSUME MutatorInv, SkipDonor
  PROVE  MutatorInv'
<1>1. TypeOK /\ AtDonor /\ base' = base /\ splice_id' = splice_id
  BY DEF MutatorInv, SkipDonor
<1>2. base \in IrSeqOf(Node) /\ splice_id \in Nat /\ splice_id <= splice_id
  BY <1>1 DEF TypeOK
<1>3. /\ irs' = irs /\ pc = "splice" /\ pc' = "splice" /\ base_idx' = base_idx
      /\ Original' = Original /\ TypeOK'
  BY <1>1, <1>2, DonorTurn
<1>4. BareInv' /\ SpliceInv'
  BY <1>1, <1>2, <1>3, GentleStep DEF MutatorInv, Gentle
<1>5. SplicingOnlyAdds'
  BY <1>1, <1>3, OnlyAdds DEF MutatorInv
<1>6. EndInv'
  BY <1>3 DEF EndInv
<1>7. QED
  BY <1>3, <1>4, <1>5, <1>6 DEF MutatorInv

(* What a donor gives: nodes of its own, no exit among them.               *)
LEMMA DonorFacts ==
  ASSUME TypeOK, NEW d \in DOMAIN irs, NEW r \in Eligible(irs[d])
  PROVE  /\ NonExit(Nodes(irs[d], r)) \in Seq(Node)
         /\ ExitsAt(NonExit(Nodes(irs[d], r))) = {}
         /\ FreshInputs => \A k : ~ NodesMention(NonExit(Nodes(irs[d], r)), Spliced(k))
<1>1. r \in DOMAIN irs[d].regions /\ Nodes(irs[d], r) \in Seq(Node)
  BY InputFacts, RegionTypes DEF Eligible
<1>2. \A n \in DOMAIN NonExit(Nodes(irs[d], r)) :
        \E m \in DOMAIN Nodes(irs[d], r) : NonExit(Nodes(irs[d], r))[n] = Nodes(irs[d], r)[m]
  BY <1>1, NonExitFacts
<1>3. FreshInputs => \A k : ~ NodesMention(Nodes(irs[d], r), Spliced(k))
  BY <1>1, FreshMentionsNone
<1>4. \A k : NodesMention(NonExit(Nodes(irs[d], r)), Spliced(k)) =>
            NodesMention(Nodes(irs[d], r), Spliced(k))
  BY <1>2 DEF NodesMention
<1>5. QED
  BY <1>1, <1>3, <1>4, NonExitFacts

(* A run of nodes of a sequence.                                           *)
LEMMA RunFacts ==
  ASSUME NEW all \in Seq(Node), NEW first \in DOMAIN all, NEW last \in first .. Len(all)
  PROVE  /\ SubSeq(all, first, last) \in Seq(Node)
         /\ ExitsAt(all) = {} => ExitsAt(SubSeq(all, first, last)) = {}
         /\ \A name : NodesMention(SubSeq(all, first, last), name) => NodesMention(all, name)
<1>1. first \in Nat /\ last \in Nat /\ 1 <= first /\ first <= last /\ last <= Len(all)
      /\ Len(all) \in Nat
  OBVIOUS
<1>2. /\ SubSeq(all, first, last) \in Seq(Node)
      /\ Len(SubSeq(all, first, last)) = last - first + 1
      /\ \A n \in 1 .. last - first + 1 : SubSeq(all, first, last)[n] = all[first + n - 1]
  BY <1>1
<1> DEFINE run == SubSeq(all, first, last)
<1> HIDE DEF run
<1>3. ASSUME NEW n \in DOMAIN run PROVE \E m \in DOMAIN all : run[n] = all[m]
  <2>1. n \in 1 .. last - first + 1
    BY <1>2 DEF run
  <2>2. first + n - 1 \in DOMAIN all
    BY <1>1, <2>1
  <2>3. QED
    BY <1>2, <2>1, <2>2 DEF run
<1>4. ExitsAt(all) = {} => ExitsAt(run) = {}
  BY <1>3 DEF ExitsAt
<1>5. \A name : NodesMention(run, name) => NodesMention(all, name)
  BY <1>3 DEF NodesMention
<1>6. QED
  BY <1>2, <1>4, <1>5 DEF run

LEMMA SpliceInlineStep ==
  ASSUME MutatorInv, SpliceInline
  PROVE  MutatorInv'
<1>1. TypeOK /\ AtDonor /\ splice_id' = splice_id
  BY DEF MutatorInv, SpliceInline
<1>2. base \in IrSeqOf(Node) /\ splice_id \in Nat /\ splice_id <= splice_id
  BY <1>1 DEF TypeOK
<1>3. /\ irs' = irs /\ pc = "splice" /\ pc' = "splice" /\ base_idx' = base_idx
      /\ Original' = Original /\ donor \in DOMAIN irs
  BY <1>1, DonorTurn
<1>4. Gentle /\ SplicingOnlyAdds'
  <2>1. CASE base' = base
    BY <1>1, <1>3, <2>1, OnlyAdds DEF Gentle, MutatorInv
  <2>2. ASSUME NEW r \in Eligible(irs[donor]),
               NEW first \in DOMAIN NonExit(Nodes(irs[donor], r)),
               NEW last \in first .. Len(NonExit(Nodes(irs[donor], r))),
               NEW p \in Points(base),
               base' = InsertInto(base, p, SubSeq(NonExit(Nodes(irs[donor], r)), first, last))
        PROVE  Gentle /\ SplicingOnlyAdds'
    <3> DEFINE all == NonExit(Nodes(irs[donor], r))
               new == SubSeq(all, first, last)
               old == Nodes(base, p[1])
    <3>1. /\ all \in Seq(Node) /\ ExitsAt(all) = {}
          /\ FreshInputs => \A k : ~ NodesMention(all, Spliced(k))
      BY <1>1, <1>3, DonorFacts
    <3>2. first \in DOMAIN all /\ last \in first .. Len(all)
      OBVIOUS
    <3> HIDE DEF all
    <3>3. /\ new \in Seq(Node) /\ ExitsAt(new) = {}
          /\ FreshInputs => \A k : ~ NodesMention(new, Spliced(k))
      BY <3>1, <3>2, RunFacts
    <3>4. p[1] \in DOMAIN base.regions /\ p[2] \in 0 .. Len(old) /\ old \in Seq(Node)
      BY <1>2, PointTypes
    <3>5. base' = WithNodes(base, p[1], Insert(old, p[2], new))
      BY <2>2 DEF InsertInto, all
    <3> HIDE DEF new
    <3>6. Insert(old, p[2], new) \in Seq(Node)
      BY <3>3, <3>4, InsertFacts
    <3>7. Gentle
      <4>1. Spares(old, Insert(old, p[2], new))
        BY <3>3, <3>4, InsertSpares
      <4>2. FreshInputs => MentionsNoMore(old, Insert(old, p[2], new))
        BY <3>3, <3>4, InsertMentions DEF MentionsNoMore
      <4>3. QED
        BY <3>4, <3>5, <4>1, <4>2 DEF Gentle
    <3>8. \A q \in DOMAIN base.regions :
            Nodes(base', q) = IF q = p[1] THEN Insert(old, p[2], new) ELSE Nodes(base, q)
      BY <1>2, <3>4, <3>5, <3>6, WithNodesFacts
    <3>9. SplicingOnlyAdds'
      BY <1>1, <1>3, <3>3, <3>4, <3>8, OnlyAdds DEF MutatorInv
    <3>10. QED
      BY <3>7, <3>9
  <2>3. QED
    BY <2>1, <2>2 DEF SpliceInline
<1>5. base' \in IrSeqOf(Node) /\ BareInv' /\ SpliceInv'
  BY <1>1, <1>2, <1>3, <1>4, GentleStep DEF MutatorInv
<1>6. TypeOK'
  BY <1>1, <1>2, <1>5, DonorTurn
<1>7. EndInv'
  BY <1>3 DEF EndInv
<1>8. QED
  BY <1>4, <1>5, <1>6, <1>7 DEF MutatorInv

(* The call of a spliced function mentions that function only.             *)
LEMMA CallFacts ==
  ASSUME NEW k \in Nat
  PROVE  /\ Spliced(k) \in Name /\ <<Call(Spliced(k))>> \in Seq(Node)
         /\ ExitsAt(<<Call(Spliced(k))>>) = {}
         /\ \A j \in Nat : NodesMention(<<Call(Spliced(k))>>, Spliced(j)) => j = k
<1>1. Spliced(k) \in Name
  BY DEF Spliced, Name
<1>2. Symbol(Spliced(k)) \in Operand
  BY <1>1 DEF Symbol, Operand, Forms
<1> DEFINE symbol == Symbol(Spliced(k))  call == Call(Spliced(k))
<1>3. /\ call.op = "call" /\ call.args = <<symbol>>
      /\ call = [op |-> "call", args |-> <<symbol>>]
  BY DEF Call
<1>4. \A j \in Nat : symbol = Symbol(Spliced(j)) => j = k
  BY DEF Symbol, Spliced
<1>5. symbol \in Operand
  BY <1>2
<1> HIDE DEF symbol, call
<1>6. <<symbol>> \in Seq(Operand) /\ DOMAIN <<symbol>> = {1} /\ <<symbol>>[1] = symbol
  BY <1>5
<1>7. "call" \in Ops
  BY DEF Ops
<1>8. call \in Node
  BY <1>3, <1>6, <1>7, Zenon DEF Node
<1>9. <<call>> \in Seq(Node) /\ DOMAIN <<call>> = {1} /\ <<call>>[1] = call
  BY <1>8
<1>10. ExitsAt(<<call>>) = {}
  BY <1>3, <1>9 DEF ExitsAt
<1>11. \A j \in Nat : NodesMention(<<call>>, Spliced(j)) => j = k
  BY <1>3, <1>4, <1>6, <1>9 DEF NodesMention
<1>12. QED
  BY <1>1, <1>9, <1>10, <1>11 DEF call

(* A spliced function: the donor's nodes and one exit.                     *)
SplicedRegion(k, all) == [id |-> Spliced(k), nodes |-> all \o <<Exit>>]

LEMMA SplicedRegionFacts ==
  ASSUME NEW all \in Seq(Node), ExitsAt(all) = {}, NEW k \in Nat
  PROVE  /\ SplicedRegion(k, all) \in Region(Node) /\ SplicedRegion(k, all).id = Spliced(k)
         /\ Cardinality(ExitsAt(SplicedRegion(k, all).nodes)) = 1
         /\ ExitsAt(SplicedRegion(k, all).nodes) # {}
         /\ \A j : NodesMention(SplicedRegion(k, all).nodes, Spliced(j)) => NodesMention(all, Spliced(j))
<1> DEFINE region == SplicedRegion(k, all)
<1>r. region = [id |-> Spliced(k), nodes |-> all \o <<Exit>>]
  BY DEF SplicedRegion
<1> HIDE DEF region
<1>1. all \o <<Exit>> = Append(all, Exit)
  BY AppendExits
<1>2. /\ region.nodes = Append(all, Exit) /\ region.nodes \in Seq(Node)
      /\ Len(region.nodes) = Len(all) + 1
      /\ \A n \in DOMAIN all : region.nodes[n] = all[n]
      /\ region.nodes[Len(all) + 1] = Exit
      /\ Cardinality(ExitsAt(region.nodes)) = Cardinality(ExitsAt(all)) + 1
  BY <1>1, <1>r, AppendExits, ZenonT(40)
<1>3. DOMAIN region.nodes = DOMAIN all \cup {Len(all) + 1}
  BY <1>2
<1>4. region \in Region(Node)
  <2>1. Spliced(k) \in Name
    BY CallFacts
  <2>2. region = [id |-> Spliced(k), nodes |-> region.nodes]
    BY <1>r
  <2>3. QED
    BY <1>2, <2>1, <2>2 DEF Region
<1>5. Cardinality(ExitsAt(region.nodes)) = 1 /\ ExitsAt(region.nodes) # {}
  <2>1. Cardinality(ExitsAt(all)) = 0
    BY FS_EmptySet
  <2>2. Len(all) + 1 \in ExitsAt(region.nodes)
    BY <1>2, <1>3 DEF ExitsAt, Exit
  <2>3. QED
    BY <1>2, <2>1, <2>2
<1>6. \A j : NodesMention(region.nodes, Spliced(j)) => NodesMention(all, Spliced(j))
  BY <1>2, <1>3 DEF NodesMention, Exit
<1>7. QED
  BY <1>4, <1>5, <1>6, <1>r DEF region

(* A spliced function is pushed and called from one of the old regions.    *)
LEMMA SplicedFunction ==
  ASSUME MutatorInv, AtDonor, splice_id' = splice_id + 1,
         NEW region \in Region(Node), region.id = Spliced(splice_id),
         Cardinality(ExitsAt(region.nodes)) = 1, ExitsAt(region.nodes) # {},
         FreshInputs => \A k \in Nat : ~ NodesMention(region.nodes, Spliced(k)),
         NEW p \in Points(base),
         base' = InsertInto(Pushed(base, region), p, <<Call(region.id)>>)
  PROVE  base' \in IrSeqOf(Node) /\ BareInv' /\ SpliceInv' /\ SplicingOnlyAdds'
<1> DEFINE mid == Pushed(base, region)
           r   == p[1]
           old == Nodes(base, r)
           new == <<Call(region.id)>>
           nodes == Insert(old, p[2], new)
<1>1. /\ TypeOK /\ SpliceInv /\ BareInv /\ SplicingOnlyAdds
      /\ base \in IrSeqOf(Node) /\ splice_id \in Nat /\ Original \in IrSeqOf(Node)
  BY InputFacts DEF MutatorInv, TypeOK
<1>2. /\ irs' = irs /\ pc = "splice" /\ pc' = "splice" /\ base_idx' = base_idx
      /\ Original' = Original /\ (FreshInputs' <=> FreshInputs)
  BY <1>1, DonorTurn DEF FreshInputs
<1>3. r \in DOMAIN base.regions /\ p[2] \in 0 .. Len(old) /\ old \in Seq(Node)
  BY <1>1, PointTypes
<1>4. /\ mid \in IrSeqOf(Node) /\ r \in DOMAIN mid.regions /\ Nodes(mid, r) = old
      /\ \A q \in DOMAIN base.regions : q \in DOMAIN mid.regions /\ Nodes(mid, q) = Nodes(base, q)
  <2> HIDE DEF mid, r
  <2>1. /\ mid \in IrSeqOf(Node) /\ Len(mid.regions) = Len(base.regions) + 1
        /\ \A q \in DOMAIN base.regions : mid.regions[q] = base.regions[q]
    BY <1>1, PushedFacts DEF mid
  <2>2. DOMAIN base.regions \subseteq DOMAIN mid.regions
    BY <1>1, <2>1, RegionTypes
  <2>3. QED
    BY <1>3, <2>1, <2>2 DEF Nodes
<1>5. /\ new \in Seq(Node) /\ ExitsAt(new) = {}
      /\ \A k \in Nat : NodesMention(new, Spliced(k)) => Spliced(k) = region.id
  BY <1>1, CallFacts
<1> HIDE DEF old, new
<1>6. base' = WithNodes(mid, r, nodes)
  BY <1>4 DEF InsertInto, new
<1>7. nodes \in Seq(Node) /\ Spares(old, nodes)
  BY <1>3, <1>5, InsertFacts, InsertSpares
<1>8. \A k \in Nat : NodesMention(nodes, Spliced(k)) =>
        NodesMention(old, Spliced(k)) \/ Spliced(k) = region.id
  BY <1>3, <1>5, InsertMentions
<1> HIDE DEF mid, nodes, r
<1>9. base' \in IrSeqOf(Node)
  BY <1>4, <1>6, <1>7, WithNodesFacts
<1>10. Original.regions # <<>>
  BY <1>1, <1>2, <1>3 DEF BareInv
<1>11. /\ RegionsKept(Original, base, splice_id)
       /\ FreshInputs => CallsDownwards(Original, base)
       /\ ExitsCounted(Original, base, 0)
  BY <1>1, <1>2, <1>10 DEF SpliceInv
<1>12. RegionsKept(Original, base', splice_id + 1)
  <2>1. RegionsKept(Original, mid, splice_id + 1)
    BY <1>1, <1>11, PushedKeeps DEF mid
  <2>2. (old # <<>> => nodes # <<>>) /\ (ExitsAt(old) # {} => ExitsAt(nodes) # {})
    BY <1>3, <1>7, SparesFacts
  <2>3. splice_id + 1 \in Nat
    BY <1>1
  <2>4. QED
    BY <1>1, <1>4, <1>6, <1>7, <2>1, <2>2, <2>3, WithNodesKeeps
<1>13. FreshInputs => CallsDownwards(Original, base')
  <2>1. DOMAIN Original.regions \subseteq DOMAIN base.regions
    BY <1>1, <1>11, RegionTypes DEF RegionsKept
  <2>2. QED
    BY <1>1, <1>3, <1>6, <1>7, <1>8, <1>11, <2>1, SplicedCalls DEF mid, old
<1>14. ExitsCounted(Original, base', 0)
  <2>1. ExitsCounted(Original, mid, 0)
    BY <1>1, <1>11, PushedCounts DEF mid
  <2>2. QED
    BY <1>1, <1>4, <1>6, <1>7, <2>1, WithNodesCounts
<1>15. BareInv' /\ SpliceInv'
  BY <1>2, <1>10, <1>12, <1>13, <1>14 DEF BareInv, SpliceInv
<1>16. \A q \in DOMAIN base.regions :
         Nodes(base', q) = IF q = r THEN Insert(old, p[2], new) ELSE Nodes(base, q)
  BY <1>4, <1>6, <1>7, WithNodesFacts DEF nodes
<1>17. SplicingOnlyAdds'
  BY <1>1, <1>2, <1>3, <1>5, <1>16, OnlyAdds DEF old
<1>18. QED
  BY <1>9, <1>15, <1>17

LEMMA SpliceRegionStep ==
  ASSUME MutatorInv, SpliceRegion
  PROVE  MutatorInv'
<1>1. TypeOK /\ AtDonor /\ splice_id' = splice_id + 1
  BY DEF MutatorInv, SpliceRegion
<1>2. base \in IrSeqOf(Node) /\ splice_id \in Nat /\ splice_id' \in Nat /\ splice_id <= splice_id'
  BY <1>1 DEF TypeOK
<1>3. /\ irs' = irs /\ pc = "splice" /\ pc' = "splice" /\ base_idx' = base_idx
      /\ Original' = Original /\ donor \in DOMAIN irs
  BY <1>1, DonorTurn
<1>4. base' \in IrSeqOf(Node) /\ BareInv' /\ SpliceInv' /\ SplicingOnlyAdds'
  <2>1. CASE base' = base
    <3>1. Gentle
      BY <2>1 DEF Gentle
    <3>2. base' \in IrSeqOf(Node) /\ BareInv' /\ SpliceInv'
      BY <1>1, <1>2, <1>3, <3>1, GentleStep DEF MutatorInv
    <3>3. SplicingOnlyAdds'
      BY <1>1, <1>3, <2>1, OnlyAdds DEF MutatorInv
    <3>4. QED
      BY <3>2, <3>3
  <2>2. ASSUME NEW r \in Eligible(irs[donor]), NEW region,
               region = [id |-> Spliced(splice_id),
                         nodes |-> NonExit(Nodes(irs[donor], r)) \o <<Exit>>],
               NEW p \in Points(base),
               base' = InsertInto(Pushed(base, region), p, <<Call(region.id)>>)
        PROVE  base' \in IrSeqOf(Node) /\ BareInv' /\ SpliceInv' /\ SplicingOnlyAdds'
    <3> DEFINE all == NonExit(Nodes(irs[donor], r))
    <3>1. /\ all \in Seq(Node) /\ ExitsAt(all) = {}
          /\ FreshInputs => \A k : ~ NodesMention(all, Spliced(k))
      BY <1>1, <1>3, DonorFacts
    <3>2. region = SplicedRegion(splice_id, all)
      BY <2>2 DEF SplicedRegion
    <3> HIDE DEF all
    <3>3. /\ region \in Region(Node) /\ region.id = Spliced(splice_id)
          /\ Cardinality(ExitsAt(region.nodes)) = 1 /\ ExitsAt(region.nodes) # {}
          /\ \A j : NodesMention(region.nodes, Spliced(j)) => NodesMention(all, Spliced(j))
      BY <1>2, <3>1, <3>2, SplicedRegionFacts
    <3>4. QED
      BY <1>1, <2>2, <3>1, <3>3, SplicedFunction
  <2>3. QED
    BY <2>1, <2>2 DEF SpliceRegion, CallPoints, WithRegion, Pushed
<1>5. TypeOK'
  BY <1>1, <1>2, <1>4, DonorTurn
<1>6. EndInv'
  BY <1>3 DEF EndInv
<1>7. QED
  BY <1>4, <1>5, <1>6 DEF MutatorInv

LEMMA EndSplicingStep ==
  ASSUME MutatorInv, EndSplicing
  PROVE  MutatorInv'
<1>1. /\ TypeOK /\ pc = "splice" /\ pc' = "point" /\ left' \in 1 .. MaxMutations
      /\ irs' = irs /\ base_idx' = base_idx /\ base' = base /\ donor' = donor
      /\ splice_id' = splice_id
  BY DEF MutatorInv, EndSplicing, NumMutations
<1>2. splice_id \in Nat /\ splice_id <= splice_id
  BY <1>1 DEF TypeOK
<1>3. base' \in IrSeqOf(Node) /\ BareInv' /\ SpliceInv'
  BY <1>1, <1>2, GentleStep DEF MutatorInv, Gentle
<1>4. TypeOK'
  BY <1>1, MutatorAssumption DEF TypeOK
<1>5. SplicingOnlyAdds' /\ EndInv'
  BY <1>1 DEF SplicingOnlyAdds, EndInv
<1>6. QED
  BY <1>3, <1>4, <1>5 DEF MutatorInv

LEMMA EnsureExitAtEndStep ==
  ASSUME MutatorInv, EnsureExitAtEnd
  PROVE  MutatorInv'
<1>1. /\ TypeOK /\ BareInv /\ SpliceInv /\ pc = "point" /\ pc' = "done"
      /\ base' = WithExitAtEnd(base)
      /\ irs' = irs /\ base_idx' = base_idx /\ donor' = donor
      /\ splice_id' = splice_id /\ left' = left
  BY DEF MutatorInv, EnsureExitAtEnd
<1>2. base \in IrSeqOf(Node) /\ splice_id \in Nat /\ Original \in IrSeqOf(Node)
  BY <1>1, InputFacts DEF TypeOK
<1>3. base' \in IrSeqOf(Node) /\ EndsInExit(base')
  BY <1>1, <1>2, ExitAtEndEnds
<1>4. TypeOK'
  BY <1>1, <1>3 DEF TypeOK
<1>5. Original' = Original /\ (FreshInputs' <=> FreshInputs)
  BY <1>1 DEF Original, FreshInputs
<1>6. BareInv'
  <2> SUFFICES ASSUME Original.regions = <<>>
               PROVE  base'.regions = <<[id |-> Generated(0), nodes |-> <<Exit>>]>>
    BY <1>1, <1>5 DEF BareInv
  <2>1. base.regions = <<>>
    BY <1>1 DEF BareInv
  <2>2. Shown(base) = {}
    BY <2>1 DEF Shown
  <2>3. base' = [base EXCEPT !.regions = <<[id |-> Generated(0), nodes |-> <<Exit>>]>>]
    BY <1>1, <2>1, <2>2 DEF WithExitAtEnd
  <2>4. QED
    BY <1>2, <2>3 DEF IrSeqOf
<1>7. SpliceInv'
  <2> SUFFICES ASSUME Original.regions # <<>>
               PROVE  /\ RegionsKept(Original, base', splice_id)
                      /\ FreshInputs => CallsDownwards(Original, base')
                      /\ \E extra \in 0 .. 1 : ExitsCounted(Original, base', extra)
    BY <1>1, <1>5 DEF SpliceInv
  <2>1. /\ RegionsKept(Original, base, splice_id) /\ ExitsCounted(Original, base, 0)
        /\ FreshInputs => CallsDownwards(Original, base)
    BY <1>1 DEF SpliceInv
  <2>2. QED
    BY <1>1, <1>2, <2>1, ExitAtEndKeeps
<1>8. SplicingOnlyAdds' /\ EndInv'
  BY <1>1, <1>3 DEF SplicingOnlyAdds, EndInv, EndsInExit
<1>9. QED
  BY <1>4, <1>6, <1>7, <1>8 DEF MutatorInv

-----------------------------------------------------------------------------
(* The theorems.                                                           *)

LEMMA MutatorInit == Init => MutatorInv
<1> SUFFICES ASSUME Init PROVE MutatorInv
  OBVIOUS
<1>1. irs \in Inputs /\ pc = "pick" /\ base_idx = 1 /\ base = irs[1] /\ donor = 1
      /\ splice_id = 0 /\ left = 0
  BY DEF Init
<1>2. irs \in Seq(IrSeqOf(Node)) /\ irs # <<>>
  BY <1>1, MutatorAssumption
<1>3. 1 \in DOMAIN irs /\ irs[1] \in IrSeqOf(Node) /\ 1 \in 1 .. Len(irs) + 1
  BY <1>2
<1>4. TypeOK
  BY <1>1, <1>3, MutatorAssumption DEF TypeOK
<1>5. QED
  BY <1>1, <1>4 DEF MutatorInv, BareInv, SpliceInv, SplicingOnlyAdds, EndInv

(* Every step of mutate() keeps the invariant, on whatever programs and    *)
(* whatever it draws (mutator.rs:351-383).                                 *)
THEOREM MutatorInvariance == Spec => []MutatorInv
<1>1. MutatorInv /\ [Next]_vars => MutatorInv'
  <2> SUFFICES ASSUME MutatorInv, [Next]_vars PROVE MutatorInv'
    OBVIOUS
  <2>1. CASE PickBase
    BY <2>1, PickBaseStep
  <2>2. CASE SkipDonor
    BY <2>2, SkipDonorStep
  <2>3. CASE SpliceInline
    BY <2>3, SpliceInlineStep
  <2>4. CASE SpliceRegion
    BY <2>4, SpliceRegionStep
  <2>5. CASE EndSplicing
    BY <2>5, EndSplicingStep
  <2>6. CASE OpSubstitute \/ OperandMutate \/ NodeDelete \/ NodeSwap
    BY <2>6, PointStep
  <2>7. CASE EnsureExitAtEnd
    BY <2>7, EnsureExitAtEndStep
  <2>8. CASE UNCHANGED vars
    BY <2>8 DEF vars, MutatorInv, TypeOK, BareInv, SpliceInv, SplicingOnlyAdds, EndInv,
                Original, FreshInputs
  <2>9. QED
    BY <2>1, <2>2, <2>3, <2>4, <2>5, <2>6, <2>7, <2>8 DEF Next
<1>2. QED
  BY MutatorInit, <1>1, PTL DEF Spec

(* The state of mutate() is always one its types allow.                    *)
THEOREM TypeCorrect == Spec => []TypeOK
<1>1. MutatorInv => TypeOK
  BY DEF MutatorInv
<1>2. QED
  BY <1>1, MutatorInvariance, PTL

(* No label of the base is ever lost (mutator.rs:168, 311).                *)
THEOREM RegionsNeverVanish == Spec => []NoRegionVanishes
<1>1. MutatorInv => NoRegionVanishes
  <2> SUFFICES ASSUME MutatorInv, pc # "pick", NEW r \in DOMAIN Original.regions
               PROVE  /\ r \in DOMAIN base.regions
                      /\ base.regions[r].id = Original.regions[r].id
                      /\ Nodes(Original, r) # <<>> => Nodes(base, r) # <<>>
    BY DEF NoRegionVanishes
  <2>1. base \in IrSeqOf(Node) /\ Original \in IrSeqOf(Node)
    BY InputFacts DEF MutatorInv, TypeOK
  <2>2. Original.regions # <<>>
    OBVIOUS
  <2>3. RegionsKept(Original, base, splice_id)
    BY <2>2 DEF MutatorInv, SpliceInv
  <2>4. r \in DOMAIN base.regions
    BY <2>1, <2>3, RegionTypes DEF RegionsKept
  <2>5. QED
    BY <2>3, <2>4 DEF RegionsKept
<1>2. QED
  BY <1>1, MutatorInvariance, PTL

(* Splicing never loses or reorders an instruction of the base             *)
(* (mutator.rs:306).                                                       *)
THEOREM SplicesOnlyAdd == Spec => []SplicingOnlyAdds
<1>1. MutatorInv => SplicingOnlyAdds
  BY DEF MutatorInv
<1>2. QED
  BY <1>1, MutatorInvariance, PTL

(* The exits of the base and of the spliced functions are all there, with  *)
(* at most one more, and the last instruction is one (mutator.rs:325-347). *)
THEOREM ExitsConserved == Spec => []ExitConservation
<1>1. MutatorInv => ExitConservation
  <2> SUFFICES ASSUME MutatorInv PROVE ExitConservation
    OBVIOUS
  <2>1. base \in IrSeqOf(Node) /\ Original \in IrSeqOf(Node)
    BY InputFacts DEF MutatorInv, TypeOK
  <2> DEFINE e == Exits(base)  e0 == Exits(Original)
             l == Len(base.regions)  l0 == Len(Original.regions)
  <2>2. e \in Nat /\ e0 \in Nat /\ l \in Nat /\ l0 \in Nat
    BY <2>1, ExitsFinite, RegionTypes
  <2>3. ASSUME pc # "pick", Original.regions # <<>>
        PROVE  e - e0 - (l - l0) \in 0 .. (IF pc = "done" THEN 1 ELSE 0)
    <3>1. PICK extra \in 0 .. (IF pc = "done" THEN 1 ELSE 0) : e = e0 + (l - l0) + extra
      BY <2>3 DEF MutatorInv, SpliceInv, ExitsCounted
    <3> HIDE DEF e, e0, l, l0
    <3>2. e - e0 - (l - l0) = extra
      BY <2>2, <3>1
    <3>3. QED
      BY <3>2
  <2>4. pc = "done" => Shown(base) # {} /\ Last(Nodes(base, LastShown(base))).op = "exit"
    BY DEF MutatorInv, EndInv, EndsInExit
  <2>5. QED
    BY <2>3, <2>4 DEF ExitConservation
<1>2. QED
  BY <1>1, MutatorInvariance, PTL

(* Where a spliced function is mentioned: further up than the one region   *)
(* of that name, which is not one of the base's own.                       *)
LEMMA MentionedBelow ==
  ASSUME MutatorInv, pc # "pick", FreshInputs,
         NEW r \in DOMAIN base.regions, NEW k \in Nat, Mentions(base, r, Spliced(k))
  PROVE  /\ Original.regions # <<>>
         /\ \E q \in DOMAIN base.regions \ DOMAIN Original.regions :
              r < q /\ base.regions[q].id = Spliced(k)
<1>1. NodesMention(Nodes(base, r), Spliced(k))
  BY DEF Mentions, NodesMention
<1>2. Original.regions # <<>>
  <2> SUFFICES ASSUME Original.regions = <<>> PROVE FALSE
    OBVIOUS
  <2>1. base.regions = IF pc = "done" THEN <<[id |-> Generated(0), nodes |-> <<Exit>>]>> ELSE <<>>
    BY DEF MutatorInv, BareInv
  <2>2. base.regions = <<[id |-> Generated(0), nodes |-> <<Exit>>]>> /\ r = 1
    BY <2>1
  <2>3. Nodes(base, r) = <<Exit>>
    BY <2>2 DEF Nodes
  <2>4. QED
    BY <1>1, <2>3 DEF NodesMention, Exit
<1>3. CallsDownwards(Original, base)
  BY <1>2 DEF MutatorInv, SpliceInv
<1>4. QED
  BY <1>1, <1>2, <1>3 DEF CallsDownwards

(* The names of the spliced functions are theirs alone.                    *)
LEMMA SplicedRegions ==
  ASSUME MutatorInv, pc # "pick", FreshInputs, Original.regions # <<>>,
         NEW q \in DOMAIN base.regions, NEW k \in Nat, base.regions[q].id = Spliced(k)
  PROVE  /\ q \notin DOMAIN Original.regions
         /\ ExitsAt(Nodes(base, q)) # {}
         /\ \A p \in DOMAIN base.regions : q < p => k < base.regions[p].id.n
<1>1. RegionsKept(Original, base, splice_id)
  BY DEF MutatorInv, SpliceInv
<1>2. Original = irs[base_idx] /\ base_idx \in DOMAIN irs
  BY DEF Original, MutatorInv, TypeOK
<1>3. q \notin DOMAIN Original.regions
  <2> SUFFICES ASSUME q \in DOMAIN Original.regions PROVE FALSE
    OBVIOUS
  <2>1. Original.regions[q].id = Spliced(k)
    BY <1>1 DEF RegionsKept
  <2>2. QED
    BY <1>2, <2>1, FreshMentionsNone
<1>4. base.regions[q].id.n = k
  BY DEF Spliced
<1>5. QED
  BY <1>1, <1>3, <1>4 DEF RegionsKept

(* A call of a spliced function finds one function of that name, with an   *)
(* exit in it (mutator.rs:270-277, 311-318).                               *)
THEOREM SplicedCallsAlwaysResolve == Spec => []SplicedCallsResolve
<1>1. MutatorInv => SplicedCallsResolve
  <2> SUFFICES ASSUME MutatorInv, pc # "pick", FreshInputs,
                      NEW r \in DOMAIN base.regions, NEW k \in 0 .. splice_id,
                      Mentions(base, r, Spliced(k))
               PROVE  /\ \E q \in DOMAIN base.regions :
                           /\ base.regions[q].id = Spliced(k)
                           /\ \E i \in DOMAIN Nodes(base, q) : Nodes(base, q)[i].op = "exit"
                      /\ \A p, q \in DOMAIN base.regions :
                           base.regions[p].id = Spliced(k) /\ base.regions[q].id = Spliced(k)
                             => p = q
    BY DEF SplicedCallsResolve
  <2>1. k \in Nat /\ base \in IrSeqOf(Node)
    BY DEF MutatorInv, TypeOK
  <2>2. Original.regions # <<>>
    BY <2>1, MentionedBelow
  <2>3. PICK q \in DOMAIN base.regions : base.regions[q].id = Spliced(k)
    BY <2>1, MentionedBelow
  <2>4. \E i \in DOMAIN Nodes(base, q) : Nodes(base, q)[i].op = "exit"
    BY <2>1, <2>2, <2>3, SplicedRegions DEF ExitsAt
  <2>5. ASSUME NEW s \in DOMAIN base.regions, NEW t \in DOMAIN base.regions,
               base.regions[s].id = Spliced(k), base.regions[t].id = Spliced(k)
        PROVE  s = t
    <3>1. s \in Nat /\ t \in Nat
      BY <2>1, RegionTypes
    <3>2. base.regions[s].id.n = k /\ base.regions[t].id.n = k
      BY <2>5 DEF Spliced
    <3>3. ~ (s < t) /\ ~ (t < s)
      BY <2>1, <2>2, <2>5, <3>2, SplicedRegions
    <3>4. QED
      BY <3>1, <3>3
  <2>6. QED
    BY <2>3, <2>4, <2>5
<1>2. QED
  BY <1>1, MutatorInvariance, PTL

(* Splicing never makes a program recurse (mutator.rs:298, 311).           *)
THEOREM SplicedCallsNeverRecurse == Spec => []SplicedCallsAcyclic
<1>1. MutatorInv => SplicedCallsAcyclic
  <2> SUFFICES ASSUME MutatorInv, pc # "pick", FreshInputs,
                      NEW r \in DOMAIN base.regions,
                      NEW j \in 0 .. splice_id, NEW k \in 0 .. splice_id,
                      base.regions[r].id = Spliced(j), Mentions(base, r, Spliced(k))
               PROVE  j < k
    BY DEF SplicedCallsAcyclic
  <2>1. j \in Nat /\ k \in Nat
    BY DEF MutatorInv, TypeOK
  <2>2. Original.regions # <<>>
    BY <2>1, MentionedBelow
  <2>3. PICK q \in DOMAIN base.regions : r < q /\ base.regions[q].id = Spliced(k)
    BY <2>1, MentionedBelow
  <2>4. base.regions[q].id.n = k
    BY <2>3 DEF Spliced
  <2>5. QED
    BY <2>1, <2>2, <2>3, <2>4, SplicedRegions
<1>2. QED
  BY <1>1, MutatorInvariance, PTL

=============================================================================
