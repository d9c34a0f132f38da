----------------------------- MODULE Expressions -----------------------------
(***************************************************************************)
(* The expressions of the language and what they mean.                     *)
(*                                                                         *)
(* An expression is a tuple that names its kind:                           *)
(*   <<"G", number>>            a literal                                  *)
(*   <<"C", name>>              a constant                                 *)
(*   <<"X", name>>              a variable                                 *)
(*   <<"U", operator, operand>> a unary expression                         *)
(*   <<"B", lhs, operator, rhs>> a binary expression                       *)
(*   <<"I", intrinsic, arguments>>  an intrinsic invocation                *)
(*   <<"F", name, arguments>>   an entry substitution: a call              *)
(*   <<"L", values>>            a list in parentheses                      *)
(*   <<"E", first, rest>>       a chain of operands, <<operator, operand>> *)
(*                              for each after the first                   *)
(*   <<"R", expression>>        a reference to an expression elsewhere       *)
(*                                                                         *)
(* A call or a list may have several values, and an argument of several    *)
(* values stands for several arguments.  Meaning gives the values of an    *)
(* expression, or none when it has no meaning: it is the reference the     *)
(* compiled code is compared with, and knows nothing of how it is compiled.*)
(***************************************************************************)
EXTENDS Algebra, SequencesExt, Callees

Operators == {"+", "-", "*", "/", "%", "^"}

Precedence(op) == IF op \in {"+", "-"} THEN 1 ELSE IF op = "^" THEN 3 ELSE 2

ConstantValue(name) ==
  CASE name = "zero" -> Zero
    [] name = "one"  -> One
    [] name = "pi"   -> Pi
    [] name = "l2e"  -> L2e
    [] name = "l2t"  -> L2t
    [] name = "lg2"  -> Lg2
    [] name = "ln2"  -> Ln2

(* What a call returns: one atom for each value.                           *)
CallValue(name, i, arguments) == Atom(name, <<Rational(i, 1)>> \o arguments)

CallValues(name, arguments) == [i \in 1 .. Results[name] |-> CallValue(name, i, arguments)]

OperatorValue(op, x, y) ==
  CASE op = "+" -> Plus(x, y)
    [] op = "-" -> Minus(x, y)
    [] op = "*" -> Times(x, y)
    [] op = "/" -> Over(x, y)
    [] op = "%" -> Fmod(x, y)
    [] op = "^" -> Power(x, y)

Sqr(x) == Times(x, x)

(***************************************************************************)
(* The intrinsics, by how many values they take.  The values of extract    *)
(* are in the order of the tests (extract.txt:2, evaluator_test.cpp:690):  *)
(* the exponent, then the significand.                                     *)
(***************************************************************************)
OneValue(f, x) ==
  CASE f = "chs"     -> <<Negated(x)>>
    [] f = "abs"     -> <<Abs(x)>>
    [] f = "twice"   -> <<Scaled(<<2, 1>>, x)>>
    [] f = "sqrt"    -> <<Sqrt(x)>>
    [] f = "round"   -> <<Round(x)>>
    [] f = "trunc"   -> <<Trunc(x)>>
    [] f = "cos"     -> <<Cos(x)>>
    [] f = "sin"     -> <<Sin(x)>>
    [] f = "sincos"  -> <<Sin(x), Cos(x)>>
    [] f = "tg"      -> <<Tan(x)>>
    [] f = "ctg"     -> <<Over(One, Tan(x))>>
    [] f = "arctg"   -> <<Atan2(x, One)>>
    [] f = "frac"    -> <<Minus(x, Round(x))>>
    [] f = "fracint" -> <<Minus(x, Trunc(x)), Trunc(x)>>
    [] f = "exp"     -> <<Exp2(Times(L2e, x))>>
    [] f = "pow2"    -> <<Exp2(x)>>
    [] f = "pow2m1"  -> <<Minus(Exp2(x), One)>>
    [] f = "sqr"     -> <<Sqr(x)>>
    [] f = "ln"      -> <<Times(Ln2, Log2(x))>>
    [] f = "log2"    -> <<Log2(x)>>
    [] f = "lg"      -> <<Times(Lg2, Log2(x))>>
    [] f = "extract" -> <<Logb(x), Over(x, Exp2(Logb(x)))>>
    [] f = "arcsin"  -> <<Atan2(x, Sqrt(Minus(One, Sqr(x))))>>
    [] f = "arccos"  -> <<Atan2(Sqrt(Minus(One, Sqr(x))), x)>>

TwoValues(f, x, y) ==
  CASE f = "remainder" -> <<Nearest(x, y)>>
    [] f = "atan2"     -> <<Atan2(x, y)>>
    [] f = "intrem"    -> <<Minus(x, Fmod(x, y)), Fmod(x, y)>>
    [] f = "pow"       -> <<Power(x, y)>>
    [] f = "log"       -> <<Over(Log2(y), Log2(x))>>
    [] f = "yl2xp1"    -> <<Times(y, Log2(Plus(x, One)))>>
    [] f = "scale2"    -> <<Times(x, Exp2(Trunc(y)))>>

ManyValues(f, v) ==
  CASE f = "sumsqr" -> <<FoldSeq(LAMBDA x, sum : Plus(Sqr(x), sum), Zero, v)>>
    [] f = "max"    -> <<FoldSeq(Larger, Head(v), Tail(v))>>
    [] f = "min"    -> <<FoldSeq(Smaller, Head(v), Tail(v))>>
    [] f = "poly"   -> <<FoldSeq(LAMBDA i, sum : Plus(sum, Times(v[i + 1], IntegerPower(v[1], i - 1))),
                                 Zero, [i \in 1 .. Len(v) - 1 |-> i])>>

Unary  == {"chs", "abs", "twice", "sqrt", "round", "trunc", "cos", "sin", "sincos", "tg",
           "ctg", "arctg", "frac", "fracint", "exp", "pow2", "pow2m1", "sqr", "ln", "log2",
           "lg", "extract", "arcsin", "arccos"}
Binary == {"remainder", "atan2", "intrem", "pow", "log", "yl2xp1", "scale2"}
Variadic == {"sumsqr", "max", "min", "poly"}

Intrinsics == Unary \cup Binary \cup Variadic

(***************************************************************************)
(* Meaning.                                                                *)
(***************************************************************************)
RECURSIVE Meaning(_)
Meaning(t) ==
  LET (* The values of all arguments in a row.                             *)
      All(ts)      == FlattenSeq([i \in DOMAIN ts |-> Meaning(ts[i])])
      Complete(ts) == \A i \in DOMAIN ts : Meaning(ts[i]) # <<>>
      Applied(op, l, r) == IF Len(l) = 1 /\ Len(r) = 1
                           THEN <<OperatorValue(op, l[1], r[1])>> ELSE <<>>
      (* The operator that is applied last: of the weakest, the rightmost.  *)
      Root(rest) == CHOOSE i \in DOMAIN rest :
                      /\ \A j \in DOMAIN rest : Precedence(rest[i][1]) <= Precedence(rest[j][1])
                      /\ \A j \in i + 1 .. Len(rest) : Precedence(rest[i][1]) < Precedence(rest[j][1])
  IN  CASE t[1] = "G" -> <<t[2]>>
        [] t[1] = "C" -> <<ConstantValue(t[2])>>
        [] t[1] = "X" -> <<Variable(t[2])>>
        [] t[1] = "R" -> Meaning(t[2])
        [] t[1] = "U" -> LET x == Meaning(t[3])
                         IN  IF Len(x) # 1 THEN <<>>
                             ELSE IF t[2] = "-" THEN <<Negated(x[1])>> ELSE x
        [] t[1] = "B" -> Applied(t[3], Meaning(t[2]), Meaning(t[4]))
        [] t[1] = "L" -> IF Complete(t[2]) THEN All(t[2]) ELSE <<>>
        [] t[1] = "F" -> IF Complete(t[3]) /\ Len(All(t[3])) = Arity[t[2]]
                         THEN CallValues(t[2], All(t[3])) ELSE <<>>
        [] t[1] = "I" ->
             LET v == All(t[3])
             IN  IF ~ Complete(t[3]) THEN <<>>
                 ELSE IF t[2] \in Unary  /\ Len(v) = 1 THEN OneValue(t[2], v[1])
                 ELSE IF t[2] \in Binary /\ Len(v) = 2 THEN TwoValues(t[2], v[1], v[2])
                 ELSE IF t[2] \in Variadic /\ Len(v) > 0
                         /\ (t[2] = "poly" => Len(v) = Len(t[3])) THEN ManyValues(t[2], v)
                 ELSE <<>>
        [] t[1] = "E" ->
             IF t[3] = <<>> THEN Meaning(t[2])
             ELSE LET i == Root(t[3])
                  IN  Applied(t[3][i][1],
                              Meaning(<<"E", t[2], SubSeq(t[3], 1, i - 1)>>),
                              Meaning(<<"E", t[3][i][2], SubSeq(t[3], i + 1, Len(t[3]))>>))

=============================================================================
