--------------------------------- MODULE Alu ---------------------------------
(***************************************************************************)
(* What the operations that the seeds try out compute in solana_sbpf, on   *)
(* unsigned values of the scaled widths of SeedCode.                       *)
(***************************************************************************)
EXTENDS SeedCode

OldOps == {"mul", "div", "mod"}
PqrOps == {"lmul", "uhmul", "shmul", "udiv", "urem", "sdiv", "srem"}

SignedDivisions == {"sdiv", "srem"}
Divisions == {"div", "mod", "udiv", "urem"} \cup SignedDivisions

Shifts == {"lsh", "rsh", "arsh"}

(* Division that rounds towards 0.                                         *)
Quotient(x, y) ==
  LET Abs(v) == IF v < 0 THEN -v ELSE v
      q      == Abs(x) \div Abs(y)
  IN  IF (x < 0) = (y < 0) THEN q ELSE -q

DividesByZero(op, w, b) == op \in Divisions /\ Unsigned(w, b) = 0

Overflows(op, w, a, b) ==
  op \in SignedDivisions /\ Signed(w, a) = -(2 ^ (Bits(w) - 1)) /\ Signed(w, b) = -1

(* Results are zero-extended, but for those of the old mul32.              *)
Result(op, w, a, b) ==
  LET x == Unsigned(w, a)  y == Unsigned(w, b)
      sx == Signed(w, a)   sy == Signed(w, b)
      wide == 2 ^ Bits(w)
  IN  CASE op = "mul"              -> Unsigned(64, Signed(w, x * y))
        [] op = "lmul"             -> (x * y) % wide
        [] op = "uhmul"            -> (x * y) \div wide
        [] op = "shmul"            -> ((sx * sy) \div wide) % wide
        [] op \in {"div", "udiv"}  -> x \div y
        [] op \in {"mod", "urem"}  -> x % y
        [] op = "sdiv"             -> Quotient(sx, sy) % wide
        [] op = "srem"             -> (sx - sy * Quotient(sx, sy)) % wide
        [] op = "mov"              -> y
        [] op = "hor"              -> (a + y * 2 ^ W) % wide
        [] op = "lsh"              -> (x * 2 ^ y) % wide

(* The value of an immediate: sign-extended, save in these operations.     *)
Immediate(op, w, v) ==
  IF op \in {"uhmul", "udiv", "urem"} /\ w = 64 THEN Unsigned(32, v) ELSE Unsigned(64, v)
=============================================================================
