------------------------------ MODULE Evaluator ------------------------------
(***************************************************************************)
(* The transformation that evaluates what it can before an expression is   *)
(* compiled: arithmetic on literals, and simplifications that hold for     *)
(* every value of the operands.                                            *)
(*                                                                         *)
(* Evaluated gives the new expression, or one of two that stand for        *)
(* control that leaves the evaluator: Thrown, an exception, and Stopped,   *)
(* an assertion that fails.  An operand that was moved elsewhere and is    *)
(* read again is MovedFrom.                                                *)
(*                                                                         *)
(* A derivative refers to parts of what it was derived from.  The entries  *)
(* of the evaluator for an operator and for an intrinsic look at what      *)
(* their operands refer to; within them references are opaque.             *)
(***************************************************************************)
EXTENDS ShuntingYard

Lit(n)         == <<"G", n>>
Const(name)    == <<"C", name>>
Neg(t)         == <<"U", "-", t>>
Bin(l, op, r)  == <<"B", l, op, r>>
Call(f, ts)    == <<"I", f, ts>>

Thrown  == <<"throw">>
Stopped == <<"assert">>
HasLeft(t) == t[1] \in {"throw", "assert"}

(* What a reference refers to, and clone_or_ref: a literal or a constant   *)
(* is copied rather than referred to.                                      *)
Unref(t) == IF t[1] = "R" THEN t[2] ELSE t
Ref(t)   == LET u == Unref(t) IN IF u[1] \in {"G", "C"} THEN u ELSE <<"R", u>>

(* Literals, constants and references are copied; of others the name is    *)
(* gone.                                                                   *)
MovedFrom(t) == IF t[1] \in {"G", "C", "R"} THEN t ELSE <<"X", "">>

(* What Of makes of x, which is computed once.                             *)
Given(x, Of(_)) == Some({Of(v) : v \in {x}})

MinusOne == Negated(One)

(* The order of numbers.  It is known of rationals only; where it is not,  *)
(* either answer leads to an expression of the same value.                 *)
Negative(n) == IsRational(n) /\ Value(n)[1] < 0

(***************************************************************************)
(* Unary minus.                                                            *)
(***************************************************************************)
Minused(t) ==
  CASE t[1] = "G" -> Lit(Negated(t[2]))
    [] t[1] = "U" -> t[3]
    [] t[1] = "I" /\ t[2] = "chs" -> IF Len(t[3]) = 1 THEN t[3][1] ELSE Stopped
    [] OTHER -> Neg(t)

(***************************************************************************)
(* Binary operators.                                                       *)
(***************************************************************************)
MutantLiteralPower(a, b) ==
  IF a = Zero THEN IF Negative(b) \/ b = Zero THEN Thrown ELSE Lit(Zero)
  ELSE IF Negative(a) THEN Thrown
  ELSE Lit(Power(a, b))
LiteralPower(a, b) ==
  IF a = Zero THEN IF Negative(b) \/ b = Zero THEN Thrown ELSE Lit(Zero)
  ELSE IF Negative(a) /\ ~ IsInteger(b) THEN Thrown
  ELSE Lit(Power(a, b))

OnLiterals(a, op, b) ==
  CASE op = "+" -> Lit(Plus(a, b))
    [] op = "-" -> Lit(Minus(a, b))
    [] op = "*" -> Lit(Times(a, b))
    [] op = "/" -> IF b = Zero THEN Thrown ELSE Lit(Over(a, b))
    [] op = "%" -> IF b = Zero THEN Thrown ELSE Lit(Fmod(a, b))
    [] op = "^" -> LiteralPower(a, b)

(* l op -x, -x op r and -x op -y.                                          *)
OnRightMinus(l, op, x) ==
  CASE op = "+"          -> Bin(l, "-", x)
    [] op = "-"          -> Bin(l, "+", x)
    [] op \in {"*", "/"} -> Neg(Bin(l, op, x))
    [] op = "%"          -> Bin(l, "%", x)
    [] op = "^"          -> Bin(l, "^", Neg(x))

MutantOnLeftMinus(x, op, r) ==
  CASE op = "+"               -> Bin(r, "-", x)
    [] op = "-"               -> Neg(Bin(x, "-", r))
    [] op \in {"*", "/", "%"} -> Neg(Bin(x, op, r))
    [] op = "^"               -> Bin(Neg(x), "^", r)
OnLeftMinus(x, op, r) ==
  CASE op = "+"               -> Bin(r, "-", x)
    [] op = "-"               -> Neg(Bin(x, "+", r))
    [] op \in {"*", "/", "%"} -> Neg(Bin(x, op, r))
    [] op = "^"               -> Bin(Neg(x), "^", r)

OnMinuses(x, op, y) ==
  CASE op = "+"          -> Neg(Bin(x, "+", y))
    [] op = "-"          -> Bin(y, "-", x)
    [] op \in {"*", "/"} -> Bin(x, op, y)
    [] op = "%"          -> Neg(Bin(x, "%", y))
    [] op = "^"          -> Bin(Neg(x), "^", Neg(y))

(* A literal on one side that decides: the value of the operation, if so.  *)
LiteralRightDecides(l, op, b) ==
  CASE op \in {"+", "-"} /\ b = Zero         -> <<l>>
    [] op \in {"*", "/", "^"} /\ b = One     -> <<l>>
    [] op \in {"*", "/"} /\ b = MinusOne     -> <<Minused(l)>>
    [] op = "*" /\ b = Zero                  -> <<Lit(Zero)>>
    [] op = "^" /\ b = Zero                  -> <<Lit(One)>>
    [] op \in {"/", "%"} /\ b = Zero         -> <<Thrown>>
    [] OTHER                                 -> <<>>

LiteralLeftDecides(a, op, r) ==
  CASE op = "+" /\ a = Zero                  -> <<r>>
    [] op = "-" /\ a = Zero                  -> <<Minused(r)>>
    [] op = "*" /\ a = One                   -> <<r>>
    [] op = "*" /\ a = MinusOne              -> <<Minused(r)>>
    [] op \in {"*", "/", "%"} /\ a = Zero    -> <<Lit(Zero)>>
    [] op = "^" /\ a = One                   -> <<Lit(One)>>
    [] OTHER                                 -> <<>>

(* l op b, of an l that is no literal.                                     *)
OnRightLiteral(l, op, b) ==
  LET decided == LiteralRightDecides(l, op, b)
  IN  IF decided # <<>> THEN decided[1]
      ELSE IF l[1] = "U"
      THEN IF op = "^" /\ b = MinusOne THEN Neg(Bin(Lit(One), "/", l[3]))
           ELSE OnLeftMinus(l[3], op, Lit(b))
      ELSE CASE op = "+" /\ Negative(b) -> Bin(l, "-", Lit(Negated(b)))
             [] op = "-" /\ Negative(b) -> Bin(l, "+", Lit(Negated(b)))
             [] op = "/"                -> Bin(l, "*", Lit(Over(One, b)))
             [] OTHER                   -> Bin(l, op, Lit(b))

(* a op r, of an r that is no literal.                                     *)
OnLeftLiteral(a, op, r) ==
  LET decided == LiteralLeftDecides(a, op, r)
  IN  IF decided # <<>> THEN decided[1]
      ELSE IF r[1] = "U" THEN OnRightMinus(Lit(a), op, r[3])
      ELSE Bin(Lit(a), op, r)

Applied(l, op, r) ==
  CASE HasLeft(l) -> l
    [] HasLeft(r) -> r
    [] ~ HasLeft(l) /\ ~ HasLeft(r) ->
         CASE l[1] = "G" /\ r[1] = "G" -> OnLiterals(l[2], op, r[2])
           [] l[1] # "G" /\ r[1] = "G" -> OnRightLiteral(l, op, r[2])
           [] l[1] = "G" /\ r[1] # "G" -> OnLeftLiteral(l[2], op, r)
           [] l[1] = "U" /\ r[1] = "U" -> OnMinuses(l[3], op, r[3])
           [] l[1] = "U" /\ r[1] \notin {"G", "U"} -> OnLeftMinus(l[3], op, r)
           [] l[1] \notin {"G", "U"} /\ r[1] = "U" -> OnRightMinus(l, op, r[3])
           [] l[1] \notin {"G", "U"} /\ r[1] \notin {"G", "U"} -> Bin(l, op, r)

Operated(l, op, r) ==
  Given(Unref(l), LAMBDA x : Given(Unref(r), LAMBDA y : Applied(x, op, y)))

(***************************************************************************)
(* Intrinsics.  Folded gives the expressions that take the place of an     *)
(* invocation: several, if the intrinsic has several values and they are   *)
(* known.                                                                  *)
(***************************************************************************)
Kept(f, ts) == <<Call(f, ts)>>

(* Of one literal.                                                         *)
OfLiteral(f, n) ==
  CASE f = "chs"     -> <<Negated(n)>>
    [] f = "abs"     -> <<Abs(n)>>
    [] f = "twice"   -> <<Plus(n, n)>>
    [] f = "sqrt"    -> <<Sqrt(n)>>
    [] f = "round"   -> <<Round(n)>>
    [] f = "trunc"   -> <<Trunc(n)>>
    [] f = "cos"     -> <<Cos(n)>>
    [] f = "sin"     -> <<Sin(n)>>
    [] f = "sincos"  -> <<Sin(n), Cos(n)>>
    [] f = "tg"      -> <<Tan(n)>>
    [] f = "ctg"     -> <<Over(One, Tan(n))>>
    [] f = "arctg"   -> <<Atan2(n, One)>>
    [] f = "frac"    -> <<Minus(n, Round(n))>>
    [] f = "fracint" -> <<Minus(n, Trunc(n)), Trunc(n)>>
    [] f = "exp"     -> <<Exp2(Times(L2e, n))>>
    [] f = "pow2"    -> <<Exp2(n)>>
    [] f = "sqr"     -> <<Times(n, n)>>
    [] f = "ln"      -> <<Times(Ln2, Log2(n))>>
    [] f = "log2"    -> <<Log2(n)>>
    [] f = "lg"      -> <<Times(Lg2, Log2(n))>>
    [] f = "extract" -> <<Logb(n), Over(n, Exp2(Logb(n)))>>
    [] f = "pow2m1"  -> <<Minus(Exp2(n), One)>>
    [] f = "arcsin"  -> <<Atan2(n, Sqrt(Minus(One, Times(n, n))))>>
    [] f = "arccos"  -> <<Atan2(Sqrt(Minus(One, Times(n, n))), n)>>

(* Of two.                                                                 *)
OfLiterals(f, a, b) ==
  CASE f = "remainder" -> <<Nearest(a, b)>>
    [] f = "atan2"     -> <<Atan2(a, b)>>
    [] f = "intrem"    -> <<Minus(a, Fmod(a, b)), Fmod(a, b)>>
    [] f = "pow"       -> <<Power(a, b)>>
    [] f = "log"       -> <<Over(Times(Ln2, Log2(b)), Times(Ln2, Log2(a)))>>
    [] f = "yl2xp1"    -> <<Over(Times(b, Times(Ln2, Log2(Plus(One, a)))), Ln2)>>
    [] f = "scale2"    -> <<Times(b, Exp2(Trunc(a)))>>

Literals(numbers) == Given(numbers, LAMBDA ns : [k \in DOMAIN ns |-> Lit(ns[k])])

(* Of a constant, where the value is a literal.                            *)
Roundings == [pi |-> 3, l2e |-> 1, l2t |-> 3, lg2 |-> 0]

OfConstant(f, name) ==
  CASE f \in {"round", "trunc"} /\ name \in DOMAIN Roundings -> <<Rational(Roundings[name], 1)>>
    [] f = "round"  /\ name = "ln2" -> <<One>>
    [] f = "trunc"  /\ name = "ln2" -> <<Zero>>
    [] f = "cos"    /\ name = "pi"  -> <<Zero>>
    [] f \in {"sin", "tg"} /\ name = "pi" -> <<Zero>>
    [] f = "sincos" /\ name = "pi"  -> <<Zero, MinusOne>>
    [] f = "exp"    /\ name = "ln2" -> <<Rational(2, 1)>>
    [] f = "pow2"   /\ name = "l2t" -> <<Rational(10, 1)>>
    [] f = "pow2m1" /\ name = "l2t" -> <<Rational(9, 1)>>
    [] OTHER -> <<>>

RECURSIVE Folded(_, _)

(* f(-x).                                                                  *)
OfMinus(f, t) ==
  CASE f = "chs"                          -> <<t[3]>>
    [] f \in {"abs", "cos", "sqr"}        -> Folded(f, <<t[3]>>)
    [] f \in {"twice", "sin", "tg", "ctg"} -> <<Minused(<<"L", Folded(f, <<t[3]>>)>>)>>
    [] OTHER                              -> Kept(f, <<t>>)

(* f(g(ts)), where the code relies on it that g has one argument.          *)
NonnegativeIntrinsics == {"abs", "sqrt", "exp", "arccos", "pow2", "sqr", "sumsqr"}

OfInverse(f, g, t) ==
  CASE f = "exp"  /\ g = "ln"   -> <<t>>
    [] f = "exp"  /\ g = "log2" -> Folded("pow", <<t, Const("l2e")>>)
    [] f = "exp"  /\ g = "lg"   -> Folded("pow", <<t, Bin(Const("l2e"), "*", Const("lg2"))>>)
    [] f = "pow2" /\ g = "ln"   -> Folded("pow", <<t, Const("ln2")>>)
    [] f = "pow2" /\ g = "log2" -> <<t>>
    [] f = "pow2" /\ g = "lg"   -> Folded("pow", <<t, Const("lg2")>>)

(* f(h(x)) = h(f(x)).                                                      *)
Commuting == [twice |-> {"abs", "chs"}, round |-> {"abs", "chs"}, trunc |-> {"abs", "chs"}]

OfSingle(f, g, ts) ==
  CASE f \in DOMAIN Commuting -> IF g \in Commuting[f] THEN Folded(g, Folded(f, ts))
                                 ELSE IF g = "frac" THEN <<Lit(Zero)>>
                                 ELSE Kept(g, ts)
    [] f = "chs"              -> ts
    [] f = "sqrt"             -> Folded("abs", ts)
    [] f = "sqr"              -> IF g \in {"exp", "pow2"} THEN Folded(g, Folded("twice", ts))
                                 ELSE Folded("sqr", ts)
    [] f \in {"exp", "pow2"}  -> OfInverse(f, g, ts[1])

ReliesOnOne == [chs   |-> {"chs"},
                twice |-> {"abs", "chs"},
                sqrt  |-> {"sqr"},
                round |-> {"chs", "abs", "round", "trunc", "frac"},
                trunc |-> {"chs", "abs", "round", "trunc", "frac"},
                sqr   |-> {"abs", "chs", "exp", "pow2"},
                exp   |-> {"ln", "log2", "lg"},
                pow2  |-> {"ln", "log2", "lg"}]

(* Logarithms of powers.  log2 and lg ask for a power of one argument, and *)
(* have moved it away when they read it again; lg adds its result to the   *)
(* invocation instead of replacing it.                                     *)
LogarithmConstants == [ln   |-> [pow2 |-> Const("ln2")],
                       log2 |-> [exp |-> Const("l2e")],
                       lg   |-> [pow2 |-> Const("lg2"), exp |-> Bin(Const("l2e"), "*", Const("lg2"))]]

PowerArity == [ln |-> 2, log2 |-> 1, lg |-> 1]

OfPower(f, t) ==
  LET g       == t[2]
      ts      == t[3]
      isPow   == g = "pow" /\ Len(ts) = PowerArity[f]
      isScale == g \in DOMAIN LogarithmConstants[f] /\ Len(ts) = 1
      factor  == IF isScale THEN LogarithmConstants[f][g]
                 ELSE IF Len(ts) = 2 THEN ts[2] ELSE MovedFrom(ts[1])
      log     == IF isScale THEN ts[1] ELSE Last(Folded(f, <<ts[1]>>))
  IN  CASE isPow \/ isScale ->
             Given(Operated(factor, "*", log), LAMBDA x :
               IF f = "lg" THEN <<Call(g, Append(Front(ts), MovedFrom(Last(ts)))), x>> ELSE <<x>>)
        [] <<f, g>> \in {<<"ln", "exp">>, <<"log2", "pow2">>} /\ Len(ts) = 1 -> ts
        [] OTHER -> Kept(f, <<t>>)

OfInvocation(f, t) ==
  LET g  == t[2]
      ts == t[3]
  IN  CASE f = "abs" /\ g = "chs" -> Folded("abs", ts)
        [] f = "abs" /\ g \in NonnegativeIntrinsics -> <<t>>
        [] f \in DOMAIN LogarithmConstants -> OfPower(f, t)
        [] f \in DOMAIN ReliesOnOne /\ g \in ReliesOnOne[f] ->
             IF Len(ts) = 1 THEN OfSingle(f, g, ts) ELSE <<Stopped>>
        [] OTHER -> Kept(f, <<t>>)

OfOne(f, t) ==
  CASE t[1] = "G" -> Literals(OfLiteral(f, t[2]))
    [] t[1] = "U" -> OfMinus(f, t)
    [] t[1] = "I" -> OfInvocation(f, t)
    [] t[1] = "C" /\ OfConstant(f, t[2]) # <<>> -> Literals(OfConstant(f, t[2]))
    [] OTHER      -> Kept(f, <<t>>)

(* The literals among expressions, and the others.                         *)
IsLiteral(t) == t[1] = "G"
Numbers(ts)  == LET literals == SelectSeq(ts, IsLiteral)
                IN  [k \in DOMAIN literals |-> literals[k][2]]
Others(ts)   == SelectSeq(ts, LAMBDA t : ~ IsLiteral(t))
Total(numbers) == FoldLeft(Plus, Zero, numbers)

RECURSIVE Sum(_)
Sum(ts) == IF Len(ts) = 1 THEN ts[1] ELSE Operated(Sum(Front(ts)), "+", Last(ts))

(* Squares lose signs and absolute values; those of literals are added up. *)
Unsigned(t) ==
  CASE t[1] = "U"                                      -> t[3]
    [] t[1] = "I" /\ t[2] \in {"abs", "chs"}           -> IF Len(t[3]) = 1 THEN t[3][1] ELSE Stopped
    [] t[1] = "I" /\ t[2] \notin {"abs", "chs"}        -> t
    [] t[1] \notin {"U", "I"}                          -> t

SumOfSquares(ts) ==
  LET numbers == Numbers(ts)
      others  == Others(ts)
      total   == Total([k \in DOMAIN numbers |-> Times(numbers[k], numbers[k])])
      bases   == [k \in DOMAIN others |-> Unsigned(others[k])]
      rest    == IF Stopped \in Range(bases) THEN Stopped ELSE Call("sumsqr", bases)
  IN  CASE ts = <<>>                       -> Kept("sumsqr", ts)
        [] ts # <<>> /\ others = <<>>      -> <<Lit(total)>>
        [] others # <<>> /\ total = Zero   -> <<rest>>
        [] others # <<>> /\ total # Zero   -> <<IF HasLeft(rest) THEN rest ELSE Bin(rest, "+", Lit(total))>>

(* One literal is left of all, and goes to the end.                        *)
Extremum(f, ts) ==
  LET numbers == Numbers(ts)
      extreme(m, n) == IF f = "max" THEN Larger(m, n) ELSE Smaller(m, n)
      literals == IF numbers = <<>> THEN <<>>
                  ELSE <<Lit(FoldLeft(extreme, Head(numbers), Tail(numbers)))>>
  IN  IF ts # <<>> /\ Others(ts) = <<>> THEN literals ELSE Kept(f, Others(ts) \o literals)

(***************************************************************************)
(* Polynomials: poly(x, a0, a1, ...).                                      *)
(***************************************************************************)
Below(n)      == IF Negative(n) THEN Negated(n) ELSE Zero
Above(n)      == IF Negative(n) THEN Zero ELSE n
Adding(t, n)  == IF n = Zero THEN t
                 ELSE Operated(t, IF Negative(n) THEN "-" ELSE "+", Lit(IF Negative(n) THEN Below(n) ELSE n))

AddingAll(ts, n) == IF ts = <<>> THEN Lit(n) ELSE Adding(Sum(ts), n)

(* At 1 the coefficients are added.                                        *)
PolyAtOne(as) == AddingAll(Others(as), Total(Numbers(as)))

(* At -1 every other one is subtracted.                                    *)
EveryOther(as, from) == [k \in 1 .. (Len(as) - from) \div 2 + 1 |-> as[2 * k + from - 2]]

(* The sum of l, less the sum of r, and a total that is added on the side  *)
(* where it is not negative, if there are two sides.                       *)
Difference(l, r, total) ==
  Given(AddingAll(l, IF l = <<>> \/ r = <<>> THEN total ELSE Above(total)), LAMBDA left :
    IF r = <<>> THEN left
    ELSE Operated(left, "-", Adding(Sum(r), IF l = <<>> THEN Zero ELSE Below(total))))

PolyAtMinusOne(as) ==
  Given(EveryOther(as, 1), LAMBDA even : Given(EveryOther(as, 2), LAMBDA odd :
    Given(Minus(Total(Numbers(even)), Total(Numbers(odd))), LAMBDA total :
      Difference(Others(even), Others(odd), total))))

(* At another literal the terms of literal coefficients are added up and   *)
(* go to the first, and the coefficients become 0.                         *)
PolyAt(x, as) ==
  LET term(k) == IF IsLiteral(as[k]) THEN Times(as[k][2], IntegerPower(x, k - 1)) ELSE Zero
      total   == Total([k \in DOMAIN as |-> term(k)])
      rest    == [k \in DOMAIN as |-> IF IsLiteral(as[k]) THEN Lit(Zero) ELSE as[k]]
  IN  IF Others(as) = <<>> THEN Lit(total)
      ELSE Call("poly", <<Lit(x), Operated(rest[1], "+", Lit(total))>> \o Tail(rest))

Polynomial(ts) ==
  LET x  == Head(ts)
      as == Tail(ts)
  IN  CASE Len(ts) = 0                   -> Kept("poly", ts)
        [] Len(ts) = 1                   -> <<Lit(Zero)>>
        [] Len(ts) = 2                   -> as
        [] Len(ts) = 3                   -> <<Operated(as[1], "+", Operated(as[2], "*", x))>>
        [] Len(ts) > 3 /\ ~ IsLiteral(x) -> Kept("poly", ts)
        [] Len(ts) > 3 /\ IsLiteral(x)   ->
             CASE x[2] = Zero     -> <<as[1]>>
               [] x[2] = One      -> <<PolyAtOne(as)>>
               [] x[2] = MinusOne -> <<PolyAtMinusOne(as)>>
               [] x[2] \notin {Zero, One, MinusOne} -> <<PolyAt(x[2], as)>>

Folded(f, ts) ==
  CASE Stopped \in Range(ts)                -> <<Stopped>>
    [] f = "sumsqr"                         -> SumOfSquares(ts)
    [] f \in {"max", "min"}                 -> Extremum(f, ts)
    [] f = "poly"                           -> Polynomial(ts)
    [] f \in Unary  /\ Len(ts) = 1          -> OfOne(f, ts[1])
    [] f \in Binary /\ Len(ts) = 2 /\ Others(ts) = <<>> -> Literals(OfLiterals(f, ts[1][2], ts[2][2]))
    [] OTHER                                -> Kept(f, ts)

(* A list that is one argument fails an assertion.  Lists among arguments  *)
(* are put in item by item, but not those referred to.                     *)
Invoked(f, ts) ==
  Given([k \in DOMAIN ts |-> Unref(ts[k])], LAMBDA us :
    IF Len(us) = 1 /\ us[1][1] = "L" THEN <<Stopped>> ELSE Folded(f, us))

(***************************************************************************)
(* Expressions.                                                            *)
(***************************************************************************)
(* append_rvalues: an operand that is a list is put in item by item.       *)
MutantInRow(ts) == ts
InRow(ts) == FlattenSeq([k \in DOMAIN ts |-> IF ts[k][1] = "L" THEN ts[k][2] ELSE <<ts[k]>>])

Joint(ts) == IF Len(ts) = 1 THEN ts[1] ELSE <<"L", ts>>

(* The first exception or assertion, or what is made of the operands.      *)
Unless(ts, t) == LET left == SelectSeq(ts, HasLeft) IN IF left = <<>> THEN t ELSE left[1]

(* Expressions are equal when they are but for references and lists of one *)
(* value.                                                                  *)
RECURSIVE Plain(_)
Plain(t) ==
  LET All(ts) == [k \in DOMAIN ts |-> Plain(ts[k])]
  IN  CASE t[1] = "R" -> Plain(t[2])
        [] t[1] = "U" -> <<"U", t[2], Plain(t[3])>>
        [] t[1] = "B" -> <<"B", Plain(t[2]), t[3], Plain(t[4])>>
        [] t[1] = "E" -> <<"E", Plain(t[2]), [k \in DOMAIN t[3] |-> <<t[3][k][1], Plain(t[3][k][2])>>]>>
        [] t[1] \in {"I", "F"} -> <<t[1], t[2], All(t[3])>>
        [] t[1] = "L" /\ Len(t[2]) = 1 -> Plain(t[2][1])
        [] t[1] = "L" /\ Len(t[2]) # 1 -> <<"L", All(t[2])>>
        [] t[1] \in {"G", "C", "X", "throw", "assert"} -> t

RECURSIVE Evaluated(_), NodeEvaluated(_, _)

EvaluatedAll(ts) == InRow([k \in DOMAIN ts |-> Evaluated(ts[k])])

ChainEvaluated(first, rest) ==
  IF rest = <<>> THEN Evaluated(first)
  ELSE IF Len(rest) = 1 THEN Operated(Evaluated(first), rest[1][1], Evaluated(rest[1][2]))
  ELSE Given(Output(first, rest), LAMBDA output : NodeEvaluated(output, Last(output)))

NodeEvaluated(output, node) ==
  IF IsOperand(node) THEN Evaluated(node.operand)
  ELSE Operated(NodeEvaluated(output, output[node.lhs + 1]), node.op,
                NodeEvaluated(output, output[node.rhs + 1]))

Evaluated(t) ==
  LET Minus1(x)  == Unless(<<x>>, IF t[2] = "-" THEN Minused(Unref(x)) ELSE x)
      Refers(x)  == IF Plain(x) = Plain(t) THEN Ref(t) ELSE x
  IN  CASE t[1] \in {"G", "X"} -> t
        [] t[1] = "R" -> Given(Evaluated(t[2]), Refers)
        [] t[1] = "C" -> CASE t[2] = "zero" -> Lit(Zero)
                           [] t[2] = "one"  -> Lit(One)
                           [] OTHER         -> t
        [] t[1] = "U" -> Given(Evaluated(t[3]), Minus1)
        [] t[1] = "B" -> Operated(Evaluated(t[2]), t[3], Evaluated(t[4]))
        [] t[1] = "E" -> ChainEvaluated(t[2], t[3])
        [] t[1] = "L" -> Given(EvaluatedAll(t[2]), LAMBDA ts : Unless(ts, Joint(ts)))
        [] t[1] = "F" -> Given(EvaluatedAll(t[3]), LAMBDA ts : Unless(ts, <<"F", t[2], ts>>))
        [] t[1] = "I" -> Given(EvaluatedAll(t[3]), LAMBDA ts : Unless(ts, Joint(Invoked(t[2], ts))))

=============================================================================
