------------------------------- MODULE Calculus -------------------------------
(***************************************************************************)
(* Derivatives of the numbers of Algebra: what the derivatives of functions *)
(* are compared with.                                                      *)
(*                                                                         *)
(* A variable that depends on others has derivatives that are variables    *)
(* again: an atom <<symbol, wrts>> is the variable `symbol` derived with   *)
(* respect to each of the sequence `wrts` in turn.                         *)
(***************************************************************************)
EXTENDS Algebra

Power1(a, n) == Term(<<1, 1>>, a :> n)
NumberOf(id) == Power1(id, 1)

Functions1 == {"abs", "round", "trunc", "logb", "max", "min", "ifless", "cos", "sin", "tan",
               "sqrt", "exp2", "log2", "atan2", "sum", "pi", "l2e", "l2t"}
Flat       == {"pi", "l2e", "l2t", "round", "trunc"}

(* What has a derivative everywhere but for single points.                 *)
Smooth == Functions1 \ {"abs", "logb", "max", "min", "ifless"}

(* Of p with respect to w, where the symbols in D depend on it.            *)
RECURSIVE Derivative(_, _, _)
Derivative(p, w, D) ==
  LET Of(u) == Derivative(u, w, D)
      (* Of a function, or a variable, a.                                  *)
      Slope(a) ==
        LET u == a[2][1]
        IN  CASE a[1] = "cos"   -> Negated(Times(Sin(u), Of(u)))
              [] a[1] = "sin"   -> Times(Cos(u), Of(u))
              [] a[1] = "tan"   -> Over(Of(u), Times(Cos(u), Cos(u)))
              [] a[1] = "sqrt"  -> Over(Of(u), Scaled(<<2, 1>>, Power1(a, 1)))
              [] a[1] = "exp2"  -> Times(Times(Power1(a, 1), Ln2), Of(u))
              [] a[1] = "log2"  -> Over(Of(u), Times(u, Ln2))
              [] a[1] = "sum"   -> Of(u)
              [] a[1] = "atan2" -> LET v == a[2][2]
                                   IN  Over(Minus(Times(v, Of(u)), Times(u, Of(v))),
                                            Plus(Times(u, u), Times(v, v)))
              [] a[1] \in Flat  -> Zero
              [] a[1] \in Functions1 \ Smooth -> Undefined
              [] a[1] \notin Functions1 ->
                   IF a[1] \in D THEN NumberOf(<<a[1], Append(a[2], w)>>)
                   ELSE IF a = <<w, <<>>>> THEN One ELSE Zero
      (* Of a^n: the derivative of a cotangent is not left to that of the  *)
      (* tangent, which would need sin^2 + cos^2 = 1.                      *)
      PowerSlope(a, n) ==
        IF a[1] = "tan" /\ n < 0
        THEN Times(Scaled(<<n, 1>>, Power1(a, n + 1)), Over(Of(a[2][1]), Times(Sin(a[2][1]), Sin(a[2][1]))))
        ELSE Times(IF n = 1 THEN One ELSE Scaled(<<n, 1>>, Power1(a, n - 1)), Slope(a))
      Product(m) == SumOf(LAMBDA a : Times(Term(<<1, 1>>, Restrict(m, DOMAIN m \ {a})), PowerSlope(a, m[a])),
                          DOMAIN m)
  IN  IF p = Undefined THEN p ELSE SumOf(LAMBDA m : Scaled(p[m], Product(m)), DOMAIN p)

(* Numbers are the same if their difference is zero, once multiplied by    *)
(* all it is divided by.                                                   *)
RECURSIVE Cleared(_)
Cleared(p) ==
  LET below == {a \in UNION {DOMAIN m : m \in DOMAIN p} : \E m \in DOMAIN p : Exponent(m, a) < 0}
      a == Some(below)
      n == - (CHOOSE k \in {Exponent(m, a) : m \in DOMAIN p} : \A m \in DOMAIN p : k <= Exponent(m, a))
      (* a sum divides by its number; others by themselves.                *)
      Up1(m) == LET k == n + Exponent(m, a)
                    others == Term(p[m], Restrict(m, DOMAIN m \ {a}))
                IN  Times(others, IF a[1] = "sum" THEN IntegerPower(a[2][1], k) ELSE IntegerPower(Power1(a, 1), k))
  IN  IF below = {} THEN p ELSE Cleared(SumOf(Up1, DOMAIN p))

Same(p, q) == p = q \/ (p # Undefined /\ q # Undefined /\ Cleared(Minus(p, q)) = Zero)

=============================================================================
