------------------------------- MODULE Algebra -------------------------------
(***************************************************************************)
(* The mathematics the compiled code computes, exact and symbolic.         *)
(*                                                                         *)
(* A number is a sum of products: a function from monomials to rational    *)
(* coefficients other than 0; a monomial is a function from atoms to       *)
(* integer exponents other than 0; an atom is what no law below takes      *)
(* apart: a variable, or a function of numbers.  Equal sums of products    *)
(* are equal numbers; numbers that differ may still be equal, the laws are *)
(* those the programs of the model need.  What has no value, as a quotient *)
(* by zero, is Undefined, and so is everything computed from it.  Rounding *)
(* errors, infinities, NaN and the sign of zero are outside.               *)
(***************************************************************************)
EXTENDS Integers, Sequences, TLC, FiniteSetsExt, Functions

(***************************************************************************)
(* Rationals: <<numerator, denominator>>, in lowest terms.                 *)
(***************************************************************************)
RECURSIVE Gcd(_, _)
Gcd(m, n) == IF n = 0 THEN m ELSE Gcd(n, m % n)

Magnitude(n) == IF n < 0 THEN -n ELSE n

Ratio(n, d) == LET g == Gcd(Magnitude(n), Magnitude(d)) * (IF d < 0 THEN -1 ELSE 1)
               IN  <<n \div g, d \div g>>

RatPlus(a, b)  == Ratio(a[1] * b[2] + b[1] * a[2], a[2] * b[2])
RatTimes(a, b) == Ratio(a[1] * b[1], a[2] * b[2])
RatOver(a, b)  == Ratio(a[1] * b[2], a[2] * b[1])

(***************************************************************************)
(* Sums of products.                                                       *)
(***************************************************************************)
Unit == [a \in {} |-> 0]
Zero == [m \in {} |-> <<0, 1>>]

Term(c, m) == IF c[1] = 0 THEN Zero ELSE m :> c

Rational(n, d) == Term(Ratio(n, d), Unit)
One == Rational(1, 1)

Variable(name) == Term(<<1, 1>>, <<name, <<>>>> :> 1)

Undefined == Variable("undefined")

Atom(name, arguments) ==
  IF \E k \in DOMAIN arguments : arguments[k] = Undefined THEN Undefined
  ELSE Term(<<1, 1>>, <<name, arguments>> :> 1)

Coefficient(p, m) == IF m \in DOMAIN p THEN p[m] ELSE <<0, 1>>
Exponent(m, a)    == IF a \in DOMAIN m THEN m[a] ELSE 0

Plus(p, q) ==
  LET sum == [m \in DOMAIN p \cup DOMAIN q |->
                RatPlus(Coefficient(p, m), Coefficient(q, m))]
  IN  IF Undefined \in {p, q} THEN Undefined
      ELSE Restrict(sum, {m \in DOMAIN sum : sum[m][1] # 0})

Scaled(c, p) == IF p = Undefined THEN p ELSE [m \in DOMAIN p |-> RatTimes(c, p[m])]
Negated(p)   == Scaled(<<-1, 1>>, p)
Minus(p, q)  == Plus(p, Negated(q))

MonomialTimes(m, n) ==
  LET product == [a \in DOMAIN m \cup DOMAIN n |-> Exponent(m, a) + Exponent(n, a)]
  IN  Restrict(product, {a \in DOMAIN product : product[a] # 0})

Some(S) == CHOOSE x \in S : TRUE

SumOf(Of(_), S)     == MapThenFoldSet(Plus, Zero, Of, Some, S)

(* sqrt(x)^2 = x, abs(x)^2 = x^2, (2^(1/d))^d = 2.                         *)
RECURSIVE Times(_, _), Reduced(_, _)
Times(p, q) ==
  IF Undefined \in {p, q} THEN Undefined
  ELSE SumOf(LAMBDA mn : Reduced(RatTimes(p[mn[1]], q[mn[2]]), MonomialTimes(mn[1], mn[2])),
             (DOMAIN p) \X (DOMAIN q))
Reduced(c, m) ==
  LET even  == {a \in DOMAIN m : a[1] \in {"sqrt", "abs"} /\ m[a] >= 2}
      (* d, of an atom 2^(1/d).                                            *)
      d(a)  == a[2][1][Unit][2]
      whole == {a \in DOMAIN m : a[1] = "exp2" /\ DOMAIN a[2][1] = {Unit} /\ m[a] \notin 0 .. d(a) - 1}
  IN  IF whole # {}
      THEN LET a == Some(whole)
               n == m[a] \div d(a)
           IN  Reduced(RatTimes(c, IF n < 0 THEN <<1, 2 ^ (-n)>> ELSE <<2 ^ n, 1>>),
                       MonomialTimes(m, a :> -n * d(a)))
      ELSE IF even = {} THEN Term(c, m)
      ELSE LET a == Some(even)
               p == a[2][1]
           IN  Times(Reduced(c, MonomialTimes(m, a :> -2)),
                     IF a[1] = "sqrt" THEN p ELSE Times(p, p))

Single(p) == \E m \in DOMAIN p : DOMAIN p = {m}
Leading(p) == Some(DOMAIN p)

(* A constant: its value, if it is one.                                    *)
IsRational(p)  == DOMAIN p \subseteq {Unit}
Value(p)       == Coefficient(p, Unit)
IsInteger(p)   == IsRational(p) /\ Value(p)[2] = 1

Over(p, q) ==
  IF q = Zero \/ Undefined \in {p, q} THEN Undefined
  ELSE LET m == Leading(q)
           c == q[m]
           ratio == RatOver(Coefficient(p, m), c)
       IN  IF ratio[1] # 0 /\ p = Scaled(ratio, q) THEN Term(ratio, Unit)
           ELSE Times(p, IF Single(q)
                         THEN Term(RatOver(<<1, 1>>, c), [a \in DOMAIN m |-> -m[a]])
                         ELSE Term(RatOver(<<1, 1>>, c),
                                   <<"sum", <<Scaled(RatOver(<<1, 1>>, c), q)>>>> :> -1))

RECURSIVE IntegerPower(_, _)
IntegerPower(p, n) ==
  IF n = 0 THEN One
  ELSE IF n < 0 THEN Over(One, IntegerPower(p, -n))
  ELSE Times(p, IntegerPower(p, n - 1))

(***************************************************************************)
(* The constants: log2(e) and log2(10) are atoms, ln(2) and lg(2) their    *)
(* inverses.                                                               *)
(***************************************************************************)
Pi  == Variable("pi")
L2e == Variable("l2e")
L2t == Variable("l2t")
Ln2 == Over(One, L2e)
Lg2 == Over(One, L2t)

(***************************************************************************)
(* Exponentials and logarithms to base 2.                                  *)
(***************************************************************************)
(* 2^(x + y) = 2^x 2^y, 2^(n x) = (2^x)^n, 2^log2(x) = x.                  *)
Exp2Term(c, m) ==
  LET logs == {a \in DOMAIN m : a[1] = "log2"}
  IN  IF c[2] = 1 /\ m = Unit THEN IntegerPower(Rational(2, 1), c[1])
      ELSE IF c[2] = 1 /\ \E a \in logs : m = (a :> 1)
           THEN IntegerPower(Some(logs)[2][1], c[1])
      ELSE IF c[2] = 1 /\ m = (<<"l2t", <<>>>> :> 1) THEN IntegerPower(Rational(10, 1), c[1])
      ELSE Reduced(<<1, 1>>, <<"exp2", <<Term(<<1, c[2]>>, m)>>>> :> c[1])

Exp2(p) == IF p = Undefined THEN p
           ELSE MapThenFoldSet(Times, One, LAMBDA m : Exp2Term(p[m], m), Some, DOMAIN p)

RECURSIVE Log2Integer(_)
Log2Integer(n) == IF n % 2 = 0 THEN Plus(One, Log2Integer(n \div 2))
                  ELSE IF n = 1 THEN Zero
                  ELSE IF n = 5 THEN Minus(L2t, One)
                  ELSE Atom("log2", <<Rational(n, 1)>>)

(* log2(x y) = log2(x) + log2(y), log2(x^n) = n log2(x), log2(2^x) = x,    *)
(* where the logarithms exist.                                             *)
RECURSIVE Log2(_)
Log2(p) ==
  IF p = Zero THEN Undefined
  ELSE IF ~ Single(p) \/ p[Leading(p)][1] < 0 THEN Atom("log2", <<p>>)
  ELSE LET m == Leading(p)
           LogOf(a) == IF a[1] = "exp2" THEN a[2][1]
                       ELSE IF a[1] = "sqrt" THEN Scaled(<<1, 2>>, Log2(a[2][1]))
                       ELSE IF a[1] = "sum" THEN Log2(a[2][1])
                       ELSE Atom("log2", <<Term(<<1, 1>>, a :> 1)>>)
       IN  Plus(Minus(Log2Integer(p[m][1]), Log2Integer(p[m][2])),
                SumOf(LAMBDA a : Scaled(<<m[a], 1>>, LogOf(a)), DOMAIN m))

(* A negative number has no power that is not a whole one.                 *)
Power(p, q) ==
  IF IsRational(p) /\ Value(p)[1] < 0 /\ IsRational(q) /\ ~ IsInteger(q) THEN Undefined
  ELSE Exp2(Times(q, Log2(p)))

(***************************************************************************)
(* Signs.  Of p and -p one is Down, unless both are zero: an odd function  *)
(* is computed from the other.                                             *)
(***************************************************************************)
Down(p) == p # Zero /\ p[Leading(p)][1] < 0
Up(p)   == IF Down(p) THEN Negated(p) ELSE p

PositiveAtoms == {"pi", "l2e", "l2t", "sqrt", "exp2", "abs"}

(* What is a sum of products of squares and of functions without negative  *)
(* values.                                                                 *)
RECURSIVE Nonnegative(_)
Nonnegative(p) ==
  \A m \in DOMAIN p :
    /\ p[m][1] > 0
    /\ \A a \in DOMAIN m : \/ m[a] % 2 = 0
                           \/ a[1] \in PositiveAtoms
                           \/ a[1] \in {"atan2", "sum"} /\ Nonnegative(a[2][1])

(***************************************************************************)
(* Rounding, to the nearest, or the even one of two, and towards zero.     *)
(* |round(x)| = round(|x|), |x y| = |x| |y|, round(x - round(x)) = 0.      *)
(***************************************************************************)
Integral(p) ==
  \A m \in DOMAIN p : /\ p[m][2] = 1
                      /\ \A a \in DOMAIN m : a[1] \in {"round", "trunc", "logb"} /\ m[a] > 0

Halves(n, d) == LET q == (2 * n + d) \div (2 * d)
                IN  IF (2 * n + d) % (2 * d) = 0 /\ q % 2 = 1 THEN q - 1 ELSE q

IsFraction(p) ==
  \E m \in DOMAIN p : \E a \in DOMAIN m :
    /\ a[1] = "round"
    /\ m = (a :> 1)
    /\ LET fraction == Minus(a[2][1], Term(<<1, 1>>, m))
       IN  p \in {fraction, Negated(fraction)}

RECURSIVE Round(_), Trunc(_), Abs(_)
Round(p) ==
  CASE Integral(p)       -> p
    [] IsRational(p)     -> Rational(Halves(Value(p)[1], Value(p)[2]), 1)
    [] p \in {Pi, L2t}   -> Rational(3, 1)
    [] p \in {L2e, Ln2}  -> One
    [] p = Lg2 \/ IsFraction(p) -> Zero
    [] OTHER -> IF Down(p) THEN Negated(Round(Negated(p))) ELSE Atom("round", <<p>>)

Trunc(p) ==
  CASE Integral(p)       -> p
    [] IsRational(p) /\ ~ Down(p) -> Rational(Value(p)[1] \div Value(p)[2], 1)
    [] p \in {Pi, L2t}   -> Rational(3, 1)
    [] p = L2e           -> One
    [] p \in {Lg2, Ln2} \/ IsFraction(p) -> Zero
    [] OTHER -> IF Down(p) THEN Negated(Trunc(Negated(p))) ELSE Atom("trunc", <<p>>)

Abs(p) ==
  LET AbsOf(a) == IF a[1] = "round" THEN Round(Abs(a[2][1]))
                  ELSE IF a[1] = "trunc" THEN Trunc(Abs(a[2][1]))
                  ELSE Atom("abs", <<Term(<<1, 1>>, a :> 1)>>)
      m == Leading(p)
  IN  IF p = Undefined \/ Nonnegative(p) THEN p
      ELSE IF Single(p)
      THEN MapThenFoldSet(Times, Term(<<Magnitude(p[m][1]), p[m][2]>>, Unit),
                          LAMBDA a : IF Nonnegative(Term(<<1, 1>>, a :> m[a])) THEN Term(<<1, 1>>, a :> m[a])
                                     ELSE IntegerPower(AbsOf(a), m[a]),
                          Some, DOMAIN m)
      ELSE Atom("abs", <<Up(p)>>)

(* x - y trunc(x / y), and x - y round(x / y).                             *)
Remainder(Rounded(_), p, q) ==
  IF q = Zero THEN Undefined ELSE Minus(p, Times(q, Rounded(Over(p, q))))
Fmod(p, q)    == Remainder(Trunc, p, q)
Nearest(p, q) == Remainder(Round, p, q)

(***************************************************************************)
(* Other functions.                                                        *)
(***************************************************************************)
Roots(n) == {k \in 0 .. 100 : k * k = n}

Sqrt(p) ==
  LET m == Leading(p)
  IN  IF p = Zero THEN p
      ELSE IF /\ Single(p)
              /\ Roots(p[m][1]) # {} /\ Roots(p[m][2]) # {}
              /\ \A a \in DOMAIN m : m[a] % 2 = 0
      THEN Abs(Term(<<Some(Roots(p[m][1])), Some(Roots(p[m][2]))>>, [a \in DOMAIN m |-> m[a] \div 2]))
      ELSE Atom("sqrt", <<p>>)

Cos(p)  == IF p = Zero THEN One ELSE IF Up(p) = Pi THEN Negated(One) ELSE Atom("cos", <<Up(p)>>)

Circular(name, p) == IF p = Zero \/ Up(p) = Pi THEN Zero
                     ELSE IF Down(p) THEN Negated(Atom(name, <<Negated(p)>>)) ELSE Atom(name, <<p>>)
Sin(p)  == Circular("sin", p)
Tan(p)  == Circular("tan", p)

Atan2(p, q) == IF p = Zero /\ q = One THEN Zero ELSE Atom("atan2", <<p, q>>)

Logb(p) == Atom("logb", <<Abs(p)>>)

(* The larger and the smaller of two numbers, of sets of numbers flattened. *)
Among(name, p) == IF Single(p) /\ \E a \in DOMAIN Leading(p) :
                                    a[1] = name /\ p = Term(<<1, 1>>, a :> 1)
                  THEN Some(DOMAIN Leading(p))[2][1] ELSE {p}

LessRational(p, q) == Value(p)[1] * Value(q)[2] < Value(q)[1] * Value(p)[2]

Extreme(name, p, q) ==
  LET all      == Among(name, p) \cup Among(name, q)
      Beats(x, y) == IF name = "max" THEN LessRational(y, x) ELSE LessRational(x, y)
      beaten   == {y \in all : IsRational(y) /\ \E x \in all : IsRational(x) /\ Beats(x, y)}
      best     == all \ beaten
  IN  IF Undefined \in all THEN Undefined
      ELSE IF Cardinality(best) = 1 THEN Some(best)
      ELSE Term(<<1, 1>>, <<name, <<best>>>> :> 1)

Larger(p, q)  == Extreme("max", p, q)
Smaller(p, q) == Extreme("min", p, q)

(* The number that a comparison of p with q selects.                       *)
IfLess(p, q, yes, no) ==
  IF Undefined \in {p, q} THEN Undefined
  ELSE IF p = q THEN no
  ELSE IF IsRational(p) /\ IsRational(q) THEN IF LessRational(p, q) THEN yes ELSE no
  ELSE IF yes = q /\ no = p THEN Larger(p, q)
  ELSE IF yes = p /\ no = q THEN Smaller(p, q)
  ELSE Atom("ifless", <<p, q, yes, no>>)

=============================================================================
