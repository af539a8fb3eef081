--------------------------- MODULE MCOperandWalk ---------------------------
(* OperandWalk with the numbers of the code.                               *)
EXTENDS OperandWalk

MinI32 == -2147483647 - 1

MCEdgeImmediates ==
  {Decimal(0), Decimal(1), Decimal(-1), Decimal(MinI32)}
  \cup {Written("hex", v) : v \in {2147483647, -1, 255, 65535, 256, 65536}}

MCStarts ==
  {Reg(10), Memory, Symbol(Generated(0)), Written("signedhex", 4),
   SignedOffset(1), SignedOffset(32767), SignedOffset(-32768), SignedOffset(40000),
   Decimal(0), Decimal(100000), Written("hex", 4660)}

(* mov64 r0, 7: certainly no offset.                                       *)
OneImmediate == {Decimal(7)}
=============================================================================
