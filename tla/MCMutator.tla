----------------------------- MODULE MCMutator -----------------------------
(* Mutator on lists of up to three small programs.                         *)
EXTENDS TLC, Mutator

Ir(version, regions) ==
  [version |-> version, regions |-> regions,
   generated_ids |-> {regions[r].id : r \in DOMAIN regions} \cap {Generated(0), Generated(1)},
   current_region |-> Len(regions), next_id |-> 2]

Instr(op, args) == [op |-> op, args |-> args]
Named(name, nodes) == [id |-> name, nodes |-> nodes]

Foo == ProgramLabel(0)

Load   == Instr("ldxb", <<Reg(1), Memory>>)
Store  == Instr("stb", <<Memory, Decimal(0)>>)
Jump   == Instr("ja", <<SignedOffset(1)>>)
CallIt == Instr("call", <<Symbol(Foo)>>)

Branchy == Ir("V0", <<Named(Generated(0), <<Load, Jump>>), Named(Generated(1), <<Exit>>)>>)
Calling == Ir("V0", <<Named(Generated(0), <<CallIt, Exit>>), Named(Foo, <<Store, Exit>>)>>)
NoCode  == Ir("V0", <<Named(Generated(0), <<>>)>>)
OnlyExit == Ir("V0", <<Named(Generated(0), <<Exit>>)>>)
NoExit  == Ir("V0", <<Named(Generated(0), <<>>), Named(Foo, <<Load>>)>>)
OtherVersion == Ir("V3", <<Named(Generated(0), <<Store, Exit>>)>>)

MCInputs ==
  {<<Branchy, Calling>>, <<NoCode, Branchy>>, <<OnlyExit, NoExit, NoExit>>,
   <<NoExit, OtherVersion>>, <<NoCode>>, <<Calling>>}

MCEdges == {Decimal(0)}
=============================================================================
