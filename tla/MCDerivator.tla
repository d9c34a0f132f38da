----------------------------- MODULE MCDerivator -----------------------------
(***************************************************************************)
(* Programs to derive: every intrinsic and operator, of arguments, global  *)
(* variables and literals; declarations, blocks, calls in one another.     *)
(***************************************************************************)
EXTENDS Derivator

MCArity == [e \in {} |-> 0]

X(name)       == <<"X", <<name, <<>>>>>>
G(n)          == <<"G", Rational(n, 1)>>
F(name, args) == <<"F", <<name, <<>>>>, args>>
Ids(names)    == [k \in DOMAIN names |-> <<names[k], <<>>>>]
Local(names, ts) == <<"local", Ids(names), ts>>
Function(name, names, body, ts) ==
  [name |-> <<name, <<>>>>, arguments |-> Ids(names), body |-> body, results |-> ts]

Lists(S, n) == [1 .. n -> S]

Returning(t) == <<Function("a", <<"z", "t">>, <<>>, <<t>>)>>

Product == Bin(X("x"), "*", X("z"))
SinZ    == Call("sin", <<X("z")>>)

Trees == {Call(f, <<t>>) : f \in Unary, t \in {X("z"), Product, G(2)}}
         \cup {Call(f, <<X("z"), X("t")>>) : f \in Binary \cup Variadic}
         \cup {Bin(l, op, r) : l \in {X("z"), X("x"), SinZ}, r \in {X("z"), X("x"), X("t"), G(2)}, op \in Operators}
         \cup {Bin(t, op, X("x")) : op \in Operators, t \in {G(2), Neg(X("z"))}}
         \cup {<<"U", op, Product>> : op \in {"+", "-"}}
         \cup {<<"E", X("z"), <<>>>>, <<"L", <<X("z"), Product>>>>, <<"C", "pi">>}
         \cup {<<"E", X("z"), <<<<op, X("x")>>>>>> : op \in {"-", "^"}}
         \cup {<<"E", X("z"), <<<<"-", X("x")>>, <<op, X("t")>>>>>> : op \in {"-", "*", "/"}}

(* What the evaluator looks at in operands, referred to by a derivative:   *)
(* under an operator, as the argument of an intrinsic; but not lg of an    *)
(* exponential, which the evaluator gives two values.                      *)
Referred == {Neg(X("z")), Call("sin", <<Neg(X("z"))>>), Call("chs", <<X("z"), X("t")>>)}
            \cup {Call(f, <<X("z")>>) : f \in {"abs", "chs", "exp", "ln", "pow2", "log2", "sqr"}}

Referring == {Bin(X("x"), op, u) : u \in Referred, op \in {"*", "/", "%"}}
             \cup {Bin(u, "^", X("x")) : u \in Referred}
             \cup {Call(f, <<u>>) : u \in Referred, f \in Unary \ (Underivable \cup {"lg"})}
             \cup {Call("lg", <<u>>) : u \in {v \in Referred : v[2] \notin {"exp", "pow2"}}}

Square == Function("g", <<"c">>, <<>>, <<Bin(X("c"), "*", X("c"))>>)
Global == Function("h", <<>>, <<>>, <<Bin(X("x"), "*", X("y"))>>)
Pair   == Function("pair", <<"c">>, <<>>, <<Bin(X("c"), "*", X("y")), Call("sin", <<X("c")>>)>>)
Two    == Function("two", <<"c", "d">>, <<>>, <<Bin(X("c"), "/", X("d"))>>)
GZ     == F("g", <<X("z")>>)
A(body, ts) == Function("a", <<"z">>, body, ts)

Calling ==
  {<<Square, A(<<>>, <<t>>)>> : t \in {GZ, Bin(GZ, "*", X("z")), F("g", <<GZ>>), Bin(GZ, "*", F("g", <<X("x")>>)),
                                       Call("sin", <<GZ>>)}}
  \cup {<<Global, A(<<>>, <<Bin(F("h", <<>>), "*", X("z"))>>)>>,
        <<Pair, Two, A(<<>>, <<F("two", <<F("pair", <<X("z")>>)>>)>>)>>,
        <<Square, Two, A(<<>>, <<F("two", <<GZ, X("z")>>)>>)>>,
        <<Square, Two, A(<<>>, <<F("two", <<X("x"), F("g", <<GZ>>)>>)>>)>>}

Bodies ==
  {A(<<Local(<<"b">>, <<Product>>)>>, <<Bin(X("b"), "*", X("b"))>>),
   A(<<Local(<<"b", "c">>, <<Product, SinZ>>), <<"empty">>, Local(<<"d">>, <<Bin(X("b"), "/", X("c"))>>)>>,
     <<X("d"), X("b")>>),
   A(<<Local(<<"b", "c">>, <<Product, Bin(X("b"), "*", X("z"))>>)>>, <<X("c")>>),
   A(<<Local(<<"b">>, <<X("z")>>),
       <<"block", <<Local(<<"b">>, <<X("x")>>), Local(<<"c">>, <<X("b")>>)>>>>>>, <<Bin(X("b"), "*", X("c"))>>),
   A(<<Local(<<"z">>, <<X("x")>>)>>, <<Bin(X("z"), "*", X("z"))>>),
   A(<<<<"assign", Ids(<<"y">>), <<X("z")>>>>>>, <<X("y")>>),
   Function("a", <<"x">>, <<>>, <<Bin(X("x"), "*", X("x"))>>)}

Declaring ==
  {<<f>> : f \in Bodies}
  \cup {<<Square, A(<<Local(<<"b">>, <<GZ>>)>>, <<X("b")>>)>>,
        <<Square, A(<<Local(<<"b">>, <<Bin(GZ, "*", X("z"))>>), Local(<<"c">>, <<X("b")>>)>>, <<X("c")>>)>>,
        <<Pair, A(<<Local(<<"b", "c">>, <<F("pair", <<X("z")>>)>>)>>, <<Bin(X("b"), "+", X("c"))>>)>>,
        <<Square, A(<<Local(<<"b", "c">>, <<GZ, X("z")>>)>>, <<Bin(X("b"), "+", X("c"))>>)>>}

Once  == {[program |-> Returning(t), wrts |-> <<"x">>] : t \in Trees \cup Referring}
Often == {[program |-> p, wrts |-> w] : p \in Calling \cup Declaring,
                                        w \in {<<"x">>, <<"x", "y">>, <<"x", "x">>}}
         \cup {[program |-> Returning(t), wrts |-> <<"x", "x">>] :
                 t \in {Bin(X("z"), "*", X("z")), Bin(X("z"), "^", X("t")), Product, SinZ,
                        Call("exp", <<Product>>)}}

Third == {[program |-> <<Square, A(<<>>, <<t>>)>>, wrts |-> w] :
            t \in {Bin(GZ, "*", X("z")), GZ, X("z")}, w \in {<<"x", "y", "x">>, <<"x", "x", "x">>}}

MCRequests == Third \cup Once \cup Often
=============================================================================
