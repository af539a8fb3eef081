------------------------------ MODULE Opcodes ------------------------------
(* The opcode tables of src/mutator.rs: op_substitute replaces an opcode   *)
(* by another one of its category, find_category's first match.            *)
EXTENDS Naturals

ALU64_OPS ==
  {"add64", "sub64", "mul64", "div64", "or64", "and64", "lsh64", "rsh64", "xor64",
   "mov64", "arsh64", "mod64"}
ALU32_OPS ==
  {"add32", "sub32", "mul32", "div32", "or32", "and32", "lsh32", "rsh32", "xor32",
   "mov32", "arsh32", "mod32"}
LOAD_OPS      == {"ldxb", "ldxh", "ldxw", "ldxdw"}
STORE_IMM_OPS == {"stb", "sth", "stw", "stdw"}
STORE_REG_OPS == {"stxb", "stxh", "stxw", "stxdw"}
JUMP_OPS ==
  {"jeq", "jne", "jgt", "jge", "jlt", "jle", "jsgt", "jsge", "jslt", "jsle", "jset"}
JUMP32_OPS ==
  {"jeq32", "jne32", "jgt32", "jge32", "jlt32", "jle32", "jsgt32", "jsge32",
   "jslt32", "jsle32", "jset32"}
PQR32_OPS == {"udiv32", "urem32", "lmul32", "sdiv32", "srem32"}
PQR64_OPS ==
  {"udiv64", "urem64", "lmul64", "sdiv64", "srem64", "uhmul64", "shmul64"}

OP_CATEGORIES ==
  {ALU64_OPS, ALU32_OPS, LOAD_OPS, STORE_IMM_OPS, STORE_REG_OPS, JUMP_OPS,
   JUMP32_OPS, PQR32_OPS, PQR64_OPS}

Ops == (UNION OP_CATEGORIES) \cup {"exit", "call", "ja", "other"}

(* No opcode is in two categories, so the order of the tables is free.     *)
ASSUME CategoriesAssumption ==
  \A c, d \in OP_CATEGORIES : c # d => c \cap d = {}

Categorised(op) == \E c \in OP_CATEGORIES : op \in c

(* The opcodes op may be replaced by.                                      *)
Siblings(op) == UNION {c \ {op} : c \in {d \in OP_CATEGORIES : op \in d}}
=============================================================================
