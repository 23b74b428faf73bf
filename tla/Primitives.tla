------------------------------ MODULE Primitives ------------------------------
(***************************************************************************)
(* The primitive types, their promotion, and which types a binary operator  *)
(* takes and gives.                                                         *)
(***************************************************************************)
EXTENDS Naturals

SignedInts   == {"i8", "i16", "i32", "i64"}
UnsignedInts == {"u8", "u16", "u32", "u64"}
Ints         == SignedInts \cup UnsignedInts
Floats       == {"f32", "f64"}
PrimTypes    == Ints \cup Floats \cup {"bool"}

pr_rank(p) ==
  CASE p = "bool"           -> 1
    [] p \in {"u8", "i8"}   -> 2
    [] p \in {"u16", "i16"} -> 3
    [] p \in {"u32", "i32"} -> 4
    [] p \in {"u64", "i64"} -> 5
    [] p = "f32"            -> 6
    [] p = "f64"            -> 7
INT32 == 4

pr_is_integer(p) == p \in Ints
pr_is_float(p)   == p \in Floats
pr_is_signed(p)  == p \in SignedInts \cup Floats

\* In bytes.
pr_size(p) ==
  CASE p \in {"bool", "u8", "i8"}   -> 1
    [] p \in {"u16", "i16"}         -> 2
    [] p \in {"u32", "i32", "f32"}  -> 4
    [] p \in {"u64", "i64", "f64"}  -> 8

pr_unsigned(p) ==
  CASE p = "i8"  -> "u8"  [] p = "i16" -> "u16"
    [] p = "i32" -> "u32" [] p = "i64" -> "u64" [] OTHER -> p

Int32(signed) == IF signed THEN "i32" ELSE "u32"

\* The higher rank, but at least that of a 4-byte integer; signed only if both
\* operands are.
pr_promote(lhs, rhs) ==
  LET signed == pr_is_signed(lhs) /\ pr_is_signed(rhs)
      p == IF pr_rank(lhs) >= pr_rank(rhs) THEN lhs ELSE rhs
  IN  IF pr_rank(p) < INT32 THEN Int32(signed)
      ELSE IF signed THEN p ELSE pr_unsigned(p)

pr_single_promote(p) == IF pr_rank(p) < INT32 THEN Int32(pr_is_signed(p)) ELSE p

Shifts     == {"<<", ">>"}
AddOps     == {"+", "-"}
ArithOps   == AddOps \cup {"*", "/"}
BitOps     == {"&", "|", "^", "%"}
Equalities == {"==", "!="}
Relations  == Equalities \cup {"<", ">", "<=", ">="}
Logical    == {"&&", "||"}
BinaryOps  == Shifts \cup ArithOps \cup BitOps \cup Relations \cup Logical \cup {","}

Takes(lhs, rhs, result) == [ok |-> TRUE, lhs |-> lhs, rhs |-> rhs, result |-> result]
Refuses                 == [ok |-> FALSE, lhs |-> "", rhs |-> "", result |-> ""]

pr_check_binary_op(op, lhs, rhs) ==
  LET p == pr_promote(lhs, rhs)
      s == pr_single_promote(lhs)
  IN  CASE op \in Shifts -> IF pr_is_integer(s) /\ pr_is_integer(rhs)
                            THEN Takes(s, rhs, s) ELSE Refuses
        [] op \in ArithOps -> Takes(p, p, p)
        [] op \in BitOps -> IF pr_is_integer(p) THEN Takes(p, p, p) ELSE Refuses
        [] op \in Relations \cup Logical -> Takes(p, p, "bool")
        [] op = "," -> Takes(p, p, p)

\* The operator of a compound assignment.
pr_assignop_to_binop(op) ==
  CASE op = "*=" -> "*" [] op = "/=" -> "/" [] op = "%=" -> "%"
    [] op = "+=" -> "+" [] op = "-=" -> "-" [] op = "<<=" -> "<<"
    [] op = ">>=" -> ">>" [] op = "&=" -> "&" [] op = "^=" -> "^"
    [] op = "|=" -> "|"

=============================================================================
