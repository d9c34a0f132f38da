------------------------------- MODULE MCLinkage -------------------------------
(* Functions of the language, as the requests compiler.cpp makes for them. *)
EXTENDS Linkage

Word1(kind)   == [kind |-> kind]
Bra1          == Word1("bra")
Ket1          == Word1("ket")
Ret1          == Word1("ret")
Local         == Word1("alloca")
One           == [kind |-> "operate", effect |-> <<0, 1>>]
Add           == [kind |-> "operate", effect |-> <<2, 1>>]
Sincos        == [kind |-> "operate", effect |-> <<1, 2>>]
Var(slot)     == [kind |-> "load", slot |-> slot]
Set(slot)     == [kind |-> "store", slot |-> slot]
To(n, output) == [kind |-> "call", arity |-> n, output |-> output]

Function(arity, statements) ==
  [arity |-> arity, requests |-> <<Bra1>> \o statements \o <<Ret1, Ket1>>]

(* return 1                                                                *)
Leaf == Function(0, <<One>>)

(* return sincos(1)                                                        *)
Pair == Function(0, <<One, Sincos>>)

(* (x) return x, which uses its frame and few registers                    *)
Same == Function(1, <<Var(0)>>)

(* (x) return x + (x + (x + x)), which spills with three registers         *)
Deep == Function(1, <<Var(0), Var(0), Var(0), Var(0), Add, Add, Add>>)

(* (x) return 1 + f(x), with x assigned before                             *)
Chained == Function(1, <<One, Set(0), One, Var(0), To(1, 1), Add>>)

(* local y = g() begin local z = f(y) end return y + f(f(y))               *)
Nested == Function(0, <<To(0, 1), Local, Bra1, Var(0), To(1, 1), Local, Ket1,
                        Var(0), Var(0), To(1, 1), To(1, 1), Add>>)

(* (x) local a, b = h() return a + (g() + (b + x))                         *)
Mixed == Function(1, <<To(0, 2), Local, Local,
                       Var(1), To(0, 1), Var(2), Var(0), Add, Add, Add>>)

(* (x, y) return y, x                                                      *)
Swap == Function(2, <<Var(1), Var(0)>>)

(* local a, b = s(s(h())) a, b = b, a return g() + f(a + b)                *)
Piped == Function(0, <<To(0, 2), To(2, 2), To(2, 2), Local, Local,
                       Var(0), Var(1), Set(0), Set(1),
                       To(0, 1), Var(0), Var(1), Add, To(1, 1), Add>>)

(* local y = g() begin end return y                                        *)
Block == Function(0, <<To(0, 1), Local, Bra1, Ket1, Var(0)>>)

MCBracketBodies == {Leaf, Block}

MCBodies == {Leaf, Pair, Same, Deep, Chained, Nested, Mixed, Swap, Piped}

=============================================================================
