-------------------------------- MODULE Values --------------------------------
(***************************************************************************)
(* Values that are known while a program is compiled, and the operators on  *)
(* them.  A value has a primitive type, or is an address ("ptr"); its       *)
(* integer stays in the range of the type.  Floating-point numbers are left *)
(* out.  An operation that throws yields one of the failures.               *)
(***************************************************************************)
EXTENDS Primitives, Integers

CONSTANT Bits   \* the width of the integer types, by rank

ASSUME BitsAssumption ==
  /\ DOMAIN Bits = 2 .. 5
  /\ \A r \in 2 .. 5 : Bits[r] \in Nat \ {0}

Val(p, n) == [p |-> p, n |-> n]
NoVal     == Val("none", 0)
Invalid   == Val("invalid", 0)    \* InvalidCompileTimeEval
EvalError == Val("error", 0)      \* EvalSemanticError
Failed(v) == v \in {Invalid, EvalError}

IsPtr(v) == v.p = "ptr"
Truth(v) == v.n # 0

Wrap(p, n) ==
  CASE p = "bool" -> IF n # 0 THEN 1 ELSE 0
    [] p = "ptr"  -> n % 2^Bits[pr_rank("u64")]
    [] p \in UnsignedInts -> n % 2^Bits[pr_rank(p)]
    [] p \in SignedInts ->
         LET half == 2^(Bits[pr_rank(p)] - 1) IN ((n + half) % (2 * half)) - half

\* pr_cast, and cast_to_pointer for "ptr".
pr_cast(v, p) == IF Failed(v) THEN v ELSE Val(p, Wrap(p, v.n))

\* C++ division rounds to zero, and a remainder has the sign of the dividend.
Abs(n)     == IF n < 0 THEN -n ELSE n
Quot(a, b) == LET q == Abs(a) \div Abs(b) IN IF (a < 0) = (b < 0) THEN q ELSE -q
Rem(a, b)  == a - b * Quot(a, b)

\* Two's complement digits, lowest first, for the bitwise operators.
Bit(n, i)     == (n \div 2^i) % 2
Width(p)      == Bits[pr_rank(p)]
Digits(p, F(_, _), a, b) ==
  LET Sum[i \in 0 .. Width(p)] ==
        IF i = 0 THEN 0 ELSE Sum[i - 1] + 2^(i - 1) * F(Bit(a, i - 1), Bit(b, i - 1))
  IN  Sum[Width(p)]
And(a, b) == a * b
Or(a, b)  == a + b - a * b
Xor(a, b) == (a + b) % 2

Overflows(p, a, b) == p \in SignedInts /\ b = -1 /\ a = -(2^(Width(p) - 1))

Compare(op, a, b) ==
  CASE op = "==" -> a = b [] op = "!=" -> a # b
    [] op = "<" -> a < b  [] op = ">" -> a > b
    [] op = "<=" -> a <= b [] op = ">=" -> a >= b

\* In each of these the operands have been cast to the types that
\* pr_check_binary_op asks for, those of l.  The signed types wrap.
Sum(op, l, r) ==
  Val(l.p, Wrap(l.p, CASE op = "+" -> l.n + r.n [] op = "-" -> l.n - r.n
                       [] op = "*" -> l.n * r.n))

Quotient(op, l, r) ==
  IF r.n = 0 \/ Overflows(l.p, l.n, r.n) THEN EvalError
  ELSE Val(l.p, IF op = "/" THEN Quot(l.n, r.n) ELSE Rem(l.n, r.n))

Bitwise(op, l, r) ==
  Val(l.p, Wrap(l.p, CASE op = "&" -> Digits(l.p, And, l.n, r.n)
                       [] op = "|" -> Digits(l.p, Or, l.n, r.n)
                       [] op = "^" -> Digits(l.p, Xor, l.n, r.n)))

\* The two shifts refuse a bad count with different errors.
Shift(op, l, r) ==
  IF r.n < 0 \/ r.n >= Width(l.p) THEN IF op = "<<" THEN Invalid ELSE EvalError
  ELSE Val(l.p, IF op = "<<" THEN Wrap(l.p, l.n * 2^r.n) ELSE l.n \div 2^r.n)

Compute(op, l, r) ==
  CASE op \in {"+", "-", "*"} -> Sum(op, l, r)
    [] op \in {"/", "%"}      -> Quotient(op, l, r)
    [] op \in {"&", "|", "^"} -> Bitwise(op, l, r)
    [] op \in Shifts          -> Shift(op, l, r)
    [] op \in Relations       -> Val("bool", IF Compare(op, l.n, r.n) THEN 1 ELSE 0)

apply_binary(op, l, r) ==
  IF IsPtr(l) \/ IsPtr(r) THEN EvalError
  ELSE LET types == pr_check_binary_op(op, l.p, r.p)
       IN  IF ~types.ok THEN EvalError
           ELSE pr_cast(Compute(op, pr_cast(l, types.lhs), pr_cast(r, types.rhs)),
                        types.result)

\* An address is compared only with an address.
apply_binary_ptr(op, l, r) ==
  IF IsPtr(l) /\ IsPtr(r) THEN Val("bool", IF Compare(op, l.n, r.n) THEN 1 ELSE 0)
  ELSE EvalError

BinaryValue(op, l, r) ==
  IF Failed(l) THEN l
  ELSE IF Failed(r) THEN r
  ELSE IF op = "," THEN Invalid
  ELSE IF op \in Relations /\ (IsPtr(l) \/ IsPtr(r)) THEN apply_binary_ptr(op, l, r)
  ELSE apply_binary(op, l, r)

\* Smaller operands of the C++ operators become int, apart from those of !.
UnaryValue(op, v) ==
  LET p == IF pr_rank(v.p) < INT32 THEN "i32" ELSE v.p
  IN  IF Failed(v) THEN v
      ELSE IF op = "!" THEN Val("bool", IF Truth(v) THEN 0 ELSE 1)
      ELSE IF IsPtr(v) THEN EvalError
      ELSE CASE op = "~" -> Val(p, Wrap(p, -v.n - 1))
             [] op = "-" -> Val(p, Wrap(p, -v.n))
             [] op = "+" -> Val(p, v.n)

=============================================================================
