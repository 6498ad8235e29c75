---------------------------- MODULE CheckedArith ----------------------------
(***************************************************************************)
(* The arithmetic of ints (internal/runtime/c/rt.go): every operation      *)
(* gives the exact result or fails, in each of the three ways the runtime  *)
(* is built: with the compiler's overflow builtins, with portable C, and   *)
(* for a kernel on the device, where failing is a trap.                    *)
(*                                                                         *)
(* The width is a parameter.  What a guard computes in C is wrapped, so a  *)
(* guard that itself overflowed would decide wrongly here too.             *)
(***************************************************************************)
EXTENDS Integers

CONSTANT IntMax  \* INT64_MAX

ASSUME ArithAssumption == IntMax \in Nat \ {0}

IntMin == -IntMax - 1
Ints == IntMin .. IntMax
Words == 2 * (IntMax + 1)  \* the values of a word

VARIABLES
  operation, build,  \* what is computed, and in which build
  left, right,       \* the operands
  outcome            \* no outcome yet, or one

arithVars == <<operation, build, left, right, outcome>>

Fails == [fails |-> TRUE, value |-> 0]
Gives(x) == [fails |-> FALSE, value |-> x]

----------------------------------------------------------------------------
(* What the machine computes *)

(* The word for a sum, a difference or a quotient of ints *)
Wrapped(x) == IF x > IntMax THEN x - Words ELSE IF x < IntMin THEN x + Words ELSE x

(* The low word of a product, signed, and its high word *)
LowWord(x) == Wrapped(x % Words)
HighWord(x) == x \div Words

Magnitude(x) == IF x < 0 THEN -x ELSE x

(* l / r and l % r in C, for r other than 0: rounded towards 0 *)
Quotient(l, r) ==
  LET q == Magnitude(l) \div Magnitude(r) IN IF (l < 0) = (r < 0) THEN q ELSE -q

Remainder(l, r) == l - r * Quotient(l, r)

Negative(x) == x < 0

(* The outcome of __builtin_add_overflow and its like *)
Builtin(x) == IF x \in Ints THEN Gives(x) ELSE Fails

----------------------------------------------------------------------------
(* Mutant: the guards compute with any r. *)
AddOverflowsUnguarded(l, r) ==
  \/ l > Wrapped(IntMax - r)
  \/ l < Wrapped(IntMin - r)

(* rt_add_i64_at and rt_add_i64_device *)
AddOverflows(l, r) ==
  \/ r > 0 /\ l > Wrapped(IntMax - r)
  \/ r < 0 /\ l < Wrapped(IntMin - r)

Add(l, r, b) ==
  CASE b = "builtin" -> Builtin(l + r)
    [] b = "portable" -> IF AddOverflows(l, r) THEN Fails ELSE Gives(l + r)
    [] b = "device" -> LET res == Wrapped(l + r) IN
         IF Negative(l) = Negative(r) /\ Negative(l) # Negative(res) THEN Fails ELSE Gives(res)

(* rt_sub_i64_at and rt_sub_i64_device *)
SubOverflows(l, r) ==
  \/ r < 0 /\ l > Wrapped(IntMax + r)
  \/ r > 0 /\ l < Wrapped(IntMin + r)

Sub(l, r, b) ==
  CASE b = "builtin" -> Builtin(l - r)
    [] b = "portable" -> IF SubOverflows(l, r) THEN Fails ELSE Gives(l - r)
    [] b = "device" -> LET res == Wrapped(l - r) IN
         IF Negative(l) # Negative(r) /\ Negative(l) # Negative(res) THEN Fails ELSE Gives(res)

(* rt_mul_i64_at and rt_mul_i64_device *)
MulOverflows(l, r) ==
  /\ l # 0 /\ r # 0
  /\ \/ l = IntMin /\ r = -1
     \/ r = IntMin /\ l = -1
     \/ l > 0 /\ r > 0 /\ l > Wrapped(Quotient(IntMax, r))
     \/ l > 0 /\ r < 0 /\ r < Wrapped(Quotient(IntMin, l))
     \/ l <= 0 /\ r > 0 /\ l < Wrapped(Quotient(IntMin, r))
     \/ l <= 0 /\ r < 0 /\ l < Wrapped(Quotient(IntMax, r))

Mul(l, r, b) ==
  CASE b = "builtin" -> Builtin(l * r)
    [] b = "portable" -> IF MulOverflows(l, r) THEN Fails ELSE Gives(l * r)
    [] b = "device" -> LET res == LowWord(l * r) IN
         IF HighWord(l * r) # (IF Negative(res) THEN -1 ELSE 0) THEN Fails ELSE Gives(res)

(* Division is written alike for the host and the device. *)
DivFails(l, r) == r = 0 \/ (l = IntMin /\ r = -1)

Div(l, r) == IF DivFails(l, r) THEN Fails ELSE Gives(Quotient(l, r))
Rem(l, r) == IF DivFails(l, r) THEN Fails ELSE Gives(Remainder(l, r))

(* Codegen writes -x as rt_sub_i64(0, x). *)
Neg(x, b) == Sub(0, x, b)

----------------------------------------------------------------------------
Operations == {"+", "-", "*", "/", "%", "neg"}
Builds == {"builtin", "portable", "device"}

ArithInit ==
  /\ operation \in Operations
  /\ build \in Builds
  /\ left \in Ints /\ right \in Ints
  /\ outcome = {}

Computes(op, result) ==
  /\ operation = op
  /\ outcome' = {result}
  /\ UNCHANGED <<operation, build, left, right>>

ArithNext ==
  \/ Computes("+", Add(left, right, build))
  \/ Computes("-", Sub(left, right, build))
  \/ Computes("*", Mul(left, right, build))
  \/ Computes("/", Div(left, right))
  \/ Computes("%", Rem(left, right))
  \/ Computes("neg", Neg(left, build))

ArithSpec == ArithInit /\ [][ArithNext]_arithVars

----------------------------------------------------------------------------
(* x is what the operation means on the integers: a quotient is rounded    *)
(* towards 0, and a remainder is what the quotient leaves.                 *)
Quotes(l, r, x) ==
  LET rest == l - r * x IN Magnitude(rest) < Magnitude(r) /\ (rest < 0 => l < 0) /\ (rest > 0 => l > 0)

Means(op, l, r, x) ==
  CASE op = "+" -> x = l + r
    [] op = "-" -> x = l - r
    [] op = "*" -> x = l * r
    [] op = "/" -> Quotes(l, r, x)
    [] op = "%" -> \E q \in Ints : Quotes(l, r, q) /\ x = l - r * q
    [] op = "neg" -> x = -l

(* Every build gives what the operation means, or fails because no int is. *)
ExactOrFails ==
  \A o \in outcome :
    IF o.fails THEN \A x \in Ints : ~Means(operation, left, right, x)
    ELSE o.value \in Ints /\ Means(operation, left, right, o.value)
=============================================================================
