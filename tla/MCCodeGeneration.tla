-------------------------- MODULE MCCodeGeneration --------------------------
(***************************************************************************)
(* Expressions to compile: every intrinsic on lists of none to three       *)
(* operands of every kind, every operator on every pair of operands, and   *)
(* chains of two and three operators.                                      *)
(***************************************************************************)
EXTENDS CodeGeneration

MCCaller == <<Variable("caller 1"), Variable("caller 2")>>

MCArity   == [f |-> 0, pair |-> 0, sum |-> 2]
MCResults == [f |-> 1, pair |-> 2, sum |-> 1]

X(name) == <<"X", name>>
G(n)    == <<"G", Rational(n, 1)>>
F       == <<"F", "f", <<>>>>
Pair    == <<"F", "pair", <<>>>>
Wide    == <<"L", <<X("x"), G(3)>>>>

Lists(S, n) == [1 .. n -> S]

Leaves == {X("x"), X("y"), G(2), <<"C", "zero">>, F, Pair, Wide,
           <<"U", "-", X("z")>>, <<"E", X("x"), <<<<"+", G(3)>>>>>>, <<"E", G(7), <<>>>>}

Invocations ==
  {<<"I", f, arguments>> : f \in Intrinsics,
                           arguments \in Lists(Leaves, 1) \cup Lists(Leaves \ {F, Wide}, 2)}
  \cup {<<"I", f, arguments>> : f \in Variadic \cup {"pow", "scale2", "atan2"},
                                arguments \in Lists({X("x"), <<"C", "zero">>, Pair, G(2)}, 3)}
  \cup {<<"I", f, <<>>>> : f \in Intrinsics \ DOMAIN BackTails}
  \cup {<<"F", "sum", arguments>> : arguments \in Lists(Leaves, 1) \cup Lists(Leaves, 2)}

Chain(operands3, ops) == <<"E", operands3[1], [k \in DOMAIN ops |-> <<ops[k], operands3[k + 1]>>]>>

Chains ==
  {Chain(ts, ops) : ts \in Lists(Leaves, 2), ops \in Lists(Operators, 1)}
  \cup {Chain(ts, ops) : ts \in {X("x"), F, G(3)} \X {X("y"), G(2)} \X {X("z"), F, G(5)},
                         ops \in Lists(Operators, 2)}
  \cup {Chain(<<X("x"), F, X("y"), G(3)>>, ops) : ops \in Lists(Operators, 3)}
  \cup {Chain(<<X("x"), X("y"), X("z"), X("v"), X("w")>>, ops) :
          ops \in Lists({"-", "/", "^"}, 4)}
  \cup {<<"B", ts[1], op, ts[2]>> : ts \in Lists({X("x"), G(2), F}, 2), op \in Operators}

(***************************************************************************)
(* Expressions that the evaluator changes: every operator between operands *)
(* of every kind it looks at, every intrinsic of those and of every other  *)
(* intrinsic, literals among arguments, polynomials at every literal it    *)
(* looks at.                                                               *)
(***************************************************************************)
Half == <<"G", Rational(-3, 2)>>

Operands == {X("x"), G(0), G(1), G(-1), G(2), Half, F, <<"C", "pi">>, <<"C", "one">>,
             <<"U", "-", X("y")>>, <<"U", "+", X("y")>>,
             <<"I", "chs", <<X("z")>>>>, <<"I", "abs", <<X("z")>>>>}

Constants == {<<"C", c>> : c \in DOMAIN LoadConstant}

Inner == {<<"I", g, <<X("x")>>>> : g \in Unary}
         \cup {<<"I", g, <<X("x"), X("y")>>>> : g \in Binary \cup {"sumsqr"}}
         \cup {<<"I", "pow", <<Pair>>>>, <<"U", "-", <<"U", "-", X("x")>>>>,
               <<"U", "-", <<"I", "chs", <<X("x")>>>>>>}

Folds ==
  {<<"B", l, op, r>> : l \in Operands, op \in Operators, r \in Operands}
  \cup {<<"U", op, t>> : op \in {"-", "+"}, t \in Operands \cup Inner}
  \cup {<<"I", f, <<t>>>> : f \in Unary \cup {"sumsqr", "max"}, t \in Operands \cup Constants \cup Inner}
  \cup {<<"I", f, ts>> : f \in Binary, ts \in Lists({X("x"), G(2), G(3), Half}, 2)}
  \cup {<<"I", f, ts>> : f \in {"sumsqr", "max", "min"},
                         ts \in Lists({X("x"), G(2), Half, <<"U", "-", X("y")>>, <<"I", "abs", <<X("z")>>>>}, 3)}
  \cup {<<"I", "poly", <<x>> \o as>> : x \in {X("x"), G(0), G(1), G(-1), G(2)},
                                       as \in UNION {Lists({X("y"), G(3), Half}, n) : n \in 0 .. 3}}
  \cup {<<"I", "poly", <<x>> \o as>> : x \in {G(1), G(-1), G(2)}, as \in Lists({X("y"), F, G(3)}, 4)}
  \cup {Chain(ts, ops) : ts \in Lists({X("x"), G(0), G(2)}, 3), ops \in Lists(Operators, 2)}

(* Values of one intrinsic as arguments of another.                        *)
Wides == {<<"I", g, <<t>>>> : g \in {"sincos", "fracint", "extract"}, t \in {G(2), Half, X("x")}}

Passing == {<<"I", f, <<t>>>> : f \in Binary \cup Variadic, t \in Wides}
           \cup {<<"F", "sum", <<t>>>> : t \in Wides}
           \cup {<<"I", "max", <<t, G(1)>>>> : t \in Wides}
           \cup {<<"I", "pow", <<<<"L", <<X("x"), t>>>>>>>> : t \in Operands}

MCTrees == Invocations \cup Chains \cup Folds \cup Passing

MCScalings == {<<"I", "scale2", ts>> : ts \in Lists({G(3), G(7), X("x")}, 2)}

MCExtractions == {<<"I", "extract", <<t>>>> : t \in {G(3), G(7), X("x")}}
=============================================================================
