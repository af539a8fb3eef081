---------------------------- MODULE MutateAgain ----------------------------
(***************************************************************************)
(* mutate() on its own output.  `sbpf-ir --mutate f1 f2 -o out.ir` saves   *)
(* the mutated IR (src/main.rs) and takes .ir files, so out.ir can be one  *)
(* of the inputs of the next call: it comes back through bincode, without  *)
(* the private fields.                                                     *)
(***************************************************************************)
EXTENDS Mutator

CONSTANT MaxCalls            \* bound on the calls of mutate() in a row

VARIABLE calls

Init2 == Init /\ calls = 1

(* The output takes the place of the base it was made from.                *)
MutateOutput ==
  /\ pc = "done"
  /\ calls < MaxCalls
  /\ calls' = calls + 1
  /\ irs' = [irs EXCEPT ![base_idx] = Reloaded(base)]
  /\ pc' = "pick"
  /\ base_idx' = 1
  /\ base' = irs'[1]
  /\ donor' = 1
  /\ splice_id' = 0
  /\ left' = 0

Next2 == (Next /\ UNCHANGED calls) \/ MutateOutput

Spec2 == Init2 /\ [][Next2]_<<vars, calls>>

(* mutator.rs:210: a Splice::Region is "A new callable region plus a call  *)
(* instruction", so no region of the base has its name already.  The name  *)
(* is numbered from 0 in each call of mutate() (mutator.rs:356).           *)
SplicedRegionIsNew ==
  \A p, q \in DOMAIN base.regions :
    /\ base.regions[p].id.stem = "function_spliced_"
    /\ base.regions[p].id = base.regions[q].id
    => p = q
=============================================================================
