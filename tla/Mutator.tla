------------------------------ MODULE Mutator ------------------------------
(***************************************************************************)
(* mutate() of src/mutator.rs: pick a base among the given IRs, splice     *)
(* something from every other IR of its version into it, apply some point  *)
(* mutations, make the program end in an exit.  A step is one turn of one  *)
(* of its two loops, or the choice or the repair around them.  Every       *)
(* random choice is an \E; every early return is a disjunct.               *)
(***************************************************************************)
EXTENDS FiniteSets, Operands, Opcodes

CONSTANTS
  Inputs,          \* the lists of IRs that mutate() may be called with
  MaxMutations     \* at most 5 point mutations

Node == [op : Ops, args : Seq(Operand)]

ASSUME MutatorAssumption ==
  /\ Inputs \subseteq Seq(IrSeqOf(Node)) \ {<<>>}
  /\ MaxMutations \in Nat \ {0}

VARIABLES
  irs,          \* the argument of mutate()
  pc,           \* "pick", "splice", "point", "done"
  base_idx,     \* the chosen IR
  base,         \* the copy of it that is mutated and returned
  donor,        \* the next IR of the splicing loop
  splice_id,    \* numbers the function_spliced_ regions
  left          \* point mutations still to apply

vars == <<irs, pc, base_idx, base, donor, splice_id, left>>

Exit       == [op |-> "exit", args |-> <<>>]
Spliced(k) == [stem |-> "function_spliced_", n |-> k]
Call(name) == [op |-> "call", args |-> <<Symbol(name)>>]

Nodes(ir, r) == ir.regions[r].nodes

WithNodes(ir, r, nodes) == [ir EXCEPT !.regions[r].nodes = nodes]

(* The state of mutate() keeps its types: the lemma that proofs about it *)
(* start from (mutator.rs:351-383).                                      *)
TypeOK ==
  /\ irs \in Inputs
  /\ pc \in {"pick", "splice", "point", "done"}
  /\ base_idx \in DOMAIN irs
  /\ base \in IrSeqOf(Node)
  /\ donor \in 1 .. Len(irs) + 1
  /\ splice_id \in Nat
  /\ left \in 0 .. MaxMutations

(* base_idx and base mean nothing before PickBase sets them.               *)
Init ==
  /\ irs \in Inputs
  /\ pc = "pick"
  /\ base_idx = 1
  /\ base = irs[1]
  /\ donor = 1
  /\ splice_id = 0
  /\ left = 0

PickBase ==
  /\ pc = "pick"
  /\ base_idx' \in DOMAIN irs
  /\ base' = irs[base_idx']
  /\ pc' = "splice"
  /\ donor' = 1
  /\ splice_id' = 0
  /\ UNCHANGED <<irs, left>>

-----------------------------------------------------------------------------
(* The splicing loop.                                                      *)

Kept(nodes) == {i \in DOMAIN nodes : nodes[i].op # "exit"}

(* The n-th element of a finite set of numbers.                            *)
Nth(K, n) == CHOOSE k \in K : Cardinality({j \in K : j <= k}) = n

(* Mutant: no filter.                                                      *)
AllNodes(nodes) == nodes

(* nodes.iter().filter(|n| n.op != "exit"), in order.                      *)
NonExit(nodes) ==
  [n \in 1 .. Cardinality(Kept(nodes)) |-> nodes[Nth(Kept(nodes), n)]]

Eligible(ir) == {r \in DOMAIN ir.regions : Kept(Nodes(ir, r)) # {}}

Points(ir) ==
  UNION {{r} \X (0 .. Len(Nodes(ir, r))) : r \in Shown(ir)}

(* Mutant: the node at the place is overwritten.                           *)
InsertOver(nodes, at, new) ==
  SubSeq(nodes, 1, at) \o new \o SubSeq(nodes, at + 2, Len(nodes))

Insert(nodes, at, new) ==
  SubSeq(nodes, 1, at) \o new \o SubSeq(nodes, at + 1, Len(nodes))

InsertInto(ir, p, new) == WithNodes(ir, p[1], Insert(Nodes(ir, p[1]), p[2], new))

Compatible(d) == d # base_idx /\ irs[d].version = base.version

AtDonor ==
  /\ pc = "splice"
  /\ donor <= Len(irs)
  /\ donor' = donor + 1
  /\ UNCHANGED <<irs, pc, base_idx, left>>

(* The base itself, another version, or a donor with nothing but exits.    *)
SkipDonor ==
  /\ AtDonor
  /\ ~ Compatible(donor) \/ Eligible(irs[donor]) = {}
  /\ UNCHANGED <<base, splice_id>>

(* One instruction, or a run of them from one region.  A base without any  *)
(* instruction has no place to insert at and is left as it is.             *)
SpliceInline ==
  /\ AtDonor
  /\ Compatible(donor)
  /\ \E r \in Eligible(irs[donor]) :
       LET all == NonExit(Nodes(irs[donor], r))
       IN  \E first \in DOMAIN all : \E last \in first .. Len(all) :
             \/ \E p \in Points(base) :
                  base' = InsertInto(base, p, SubSeq(all, first, last))
             \/ Shown(base) = {} /\ UNCHANGED base
  /\ UNCHANGED splice_id

WithRegion(region) == [base EXCEPT !.regions = Append(@, region)]

(* Mutant: the places are collected after the region is pushed.            *)
CallPointsAfterPush(region) == Points(WithRegion(region))

CallPoints(region) == Points(base)

(* A region as a function of its own, called from somewhere.  The number   *)
(* is used up even if there is no place for the call.                      *)
SpliceRegion ==
  /\ AtDonor
  /\ Compatible(donor)
  /\ \E r \in Eligible(irs[donor]) :
       LET region == [id    |-> Spliced(splice_id),
                      nodes |-> NonExit(Nodes(irs[donor], r)) \o <<Exit>>]
       IN  \/ \E p \in CallPoints(region) :
                base' = InsertInto(WithRegion(region), p, <<Call(region.id)>>)
           \/ Shown(base) = {} /\ UNCHANGED base
  /\ splice_id' = splice_id + 1

NumMutations == 1 .. MaxMutations

EndSplicing ==
  /\ pc = "splice"
  /\ donor > Len(irs)
  /\ pc' = "point"
  /\ left' \in NumMutations
  /\ UNCHANGED <<irs, base_idx, base, donor, splice_id>>

-----------------------------------------------------------------------------
(* The point mutations.  Of each, what it can turn a region's nodes into:  *)
(* the empty set if nothing in the region is a candidate.                  *)

Substituted(nodes) ==
  UNION {{[nodes EXCEPT ![i].op = op] : op \in Siblings(nodes[i].op)} : i \in DOMAIN nodes}

OperandMutated(nodes) ==
  UNION {UNION {{[nodes EXCEPT ![i].args[a] = o] : o \in Mutations(nodes[i].args[a])} :
                  a \in {a \in DOMAIN nodes[i].args : Mutable(nodes[i].args[a])}} :
           i \in DOMAIN nodes}

(* Mutants: the last node of a region may go; exits may go.                *)
DeletedLast(nodes) == {RemoveAt(nodes, i) : i \in Kept(nodes)}
DeletedExits(nodes) == {RemoveAt(nodes, i) : i \in {i \in DOMAIN nodes : Len(nodes) >= 2}}

Deleted(nodes) == {RemoveAt(nodes, i) : i \in {i \in Kept(nodes) : Len(nodes) >= 2}}

Swapped(nodes) ==
  {[nodes EXCEPT ![i] = nodes[i + 1], ![i + 1] = nodes[i]] :
     i \in {i \in Kept(nodes) : i + 1 \in Kept(nodes)}}

(* One candidate of the whole program is picked; with none, nothing is     *)
(* done but the mutation is counted.  outcomes[r] is what region r can     *)
(* turn into.                                                              *)
PointMutate(outcomes) ==
  /\ pc = "point"
  /\ left > 0
  /\ left' = left - 1
  /\ \/ \E r \in DOMAIN outcomes : \E nodes \in outcomes[r] :
          base' = WithNodes(base, r, nodes)
     \/ /\ \A r \in DOMAIN outcomes : outcomes[r] = {}
        /\ UNCHANGED base
  /\ UNCHANGED <<irs, pc, base_idx, donor, splice_id>>

OpSubstitute ==
  PointMutate([r \in DOMAIN base.regions |-> Substituted(Nodes(base, r))])

OperandMutate ==
  PointMutate([r \in DOMAIN base.regions |-> OperandMutated(Nodes(base, r))])

NodeDelete ==
  PointMutate([r \in DOMAIN base.regions |-> Deleted(Nodes(base, r))])

NodeSwap ==
  PointMutate([r \in DOMAIN base.regions |-> Swapped(Nodes(base, r))])

(* ensure_exit_at_end().                                                   *)
LastShown(ir) ==
  CHOOSE r \in Shown(ir) : \A q \in Shown(ir) : q <= r

WithExitAtEnd(ir) ==
  CASE Shown(ir) # {} /\ Last(Nodes(ir, LastShown(ir))).op = "exit" -> ir
    [] Shown(ir) # {} /\ Last(Nodes(ir, LastShown(ir))).op # "exit" ->
         WithNodes(ir, LastShown(ir), Append(Nodes(ir, LastShown(ir)), Exit))
    [] Shown(ir) = {} /\ ir.regions # <<>> ->
         WithNodes(ir, 1, <<Exit>>)
    [] OTHER ->
         [ir EXCEPT !.regions = <<[id |-> Generated(0), nodes |-> <<Exit>>]>>]

EnsureExitAtEnd ==
  /\ pc = "point"
  /\ left = 0
  /\ base' = WithExitAtEnd(base)
  /\ pc' = "done"
  /\ UNCHANGED <<irs, base_idx, donor, splice_id, left>>

Next ==
  \/ PickBase
  \/ SkipDonor \/ SpliceInline \/ SpliceRegion \/ EndSplicing
  \/ OpSubstitute \/ OperandMutate \/ NodeDelete \/ NodeSwap
  \/ EnsureExitAtEnd

Spec == Init /\ [][Next]_vars

-----------------------------------------------------------------------------
(* Properties.                                                             *)

Original == irs[base_idx]

Mentions(ir, r, name) ==
  \E i \in DOMAIN Nodes(ir, r) : \E a \in DOMAIN Nodes(ir, r)[i].args :
    Nodes(ir, r)[i].args[a] = Symbol(name)

(* The programs the generators write: none uses a function_spliced_ name.  *)
(* The output of a former mutate() may.                                    *)
FreshInputs ==
  \A d \in DOMAIN irs : \A r \in DOMAIN irs[d].regions :
    /\ irs[d].regions[r].id.stem # "function_spliced_"
    /\ \A i \in DOMAIN Nodes(irs[d], r) :
         \A a \in DOMAIN Nodes(irs[d], r)[i].args :
           Nodes(irs[d], r)[i].args[a].name.stem # "function_spliced_"

(* A region keeps its name and, once it has a node, always has one: it is  *)
(* displayed with its label, so a jump or call of the base to that label   *)
(* still has a target.  Splices may come in and point mutations may hit    *)
(* any node; the len() < 2 test of node_delete (mutator.rs:168) and the    *)
(* append-only regions.push (mutator.rs:311) are what it rests on.         *)
NoRegionVanishes ==
  pc # "pick" =>
    \A r \in DOMAIN Original.regions :
      /\ r \in DOMAIN base.regions
      /\ base.regions[r].id = Original.regions[r].id
      /\ Nodes(Original, r) # <<>> => Nodes(base, r) # <<>>

(* A call to a spliced function has exactly one region to land in, and     *)
(* that region still has the exit it returns by, whatever was inserted     *)
(* into it or deleted from it since (mutator.rs:270-277, 311-318).         *)
SplicedCallsResolve ==
  pc # "pick" /\ FreshInputs =>
    \A r \in DOMAIN base.regions : \A k \in 0 .. splice_id :
      Mentions(base, r, Spliced(k)) =>
        /\ \E q \in DOMAIN base.regions :
             /\ base.regions[q].id = Spliced(k)
             /\ \E i \in DOMAIN Nodes(base, q) : Nodes(base, q)[i].op = "exit"
        /\ \A p, q \in DOMAIN base.regions :
             base.regions[p].id = Spliced(k) /\ base.regions[q].id = Spliced(k) => p = q

(* Splicing introduces no recursion: a spliced function only ever calls    *)
(* functions spliced after it.  The places for the call are collected      *)
(* before the new region is pushed (mutator.rs:298,311), so it is never    *)
(* put into the region it calls.                                           *)
SplicedCallsAcyclic ==
  pc # "pick" /\ FreshInputs =>
    \A r \in DOMAIN base.regions : \A j, k \in 0 .. splice_id :
      base.regions[r].id = Spliced(j) /\ Mentions(base, r, Spliced(k)) => j < k

(* As long as splices are applied the base's own instructions stay, in     *)
(* their regions and in their order (insert at pos + i, mutator.rs:306).   *)
Subsequence(s, t) ==
  \E f \in [DOMAIN s -> DOMAIN t] :
    /\ \A i, j \in DOMAIN s : i < j => f[i] < f[j]
    /\ \A i \in DOMAIN s : s[i] = t[f[i]]

SplicingOnlyAdds ==
  pc = "splice" =>
    \A r \in DOMAIN Original.regions : Subsequence(Nodes(Original, r), Nodes(base, r))

(* Exits are neither lost nor brought in: a mutated program has those of   *)
(* its base, one for each spliced function, and at the very end at most    *)
(* one more, that nothing falls off its end (the op != "exit" filters,     *)
(* mutator.rs:172, 193, 234, 250, 265, and ensure_exit_at_end, 325-347).   *)
Exits(ir) ==
  Cardinality(UNION {{r} \X {i \in DOMAIN Nodes(ir, r) : Nodes(ir, r)[i].op = "exit"} :
                       r \in DOMAIN ir.regions})

ExitConservation ==
  /\ pc # "pick" /\ Original.regions # <<>> =>
       Exits(base) - Exits(Original) - (Len(base.regions) - Len(Original.regions))
         \in 0 .. (IF pc = "done" THEN 1 ELSE 0)
  /\ pc = "done" =>
       Shown(base) # {} /\ Last(Nodes(base, LastShown(base))).op = "exit"

=============================================================================
