------------------------------ MODULE MCScenario ------------------------------
(* Functions of the language, as the requests compiler.cpp makes for them. *)
EXTENDS Scenario

(* function g(x) return x end                                              *)
G == [arity |-> 1, output |-> 1, clobbered |-> 1, frameClobbered |-> 1,
      climbing |-> 0]

MCCallees == {G}

Word(kind) == [kind |-> kind]
Operation(consumed, produced) == [kind |-> "operate", effect |-> <<consumed, produced>>]

Push     == Operation(0, 1)
Fsincos  == Operation(1, 2)
Fadd     == Operation(2, 1)
CallG    == [kind |-> "call", callee |-> G]

(* function f() local s, c = sincos(1) + g(2) return s, c end              *)
DeclareSum ==
  << Word("bra"), Push, Fsincos, Push, CallG, Fadd, Word("alloca"),
     Word("alloca"), Push, Push, Word("ret"), Word("ket") >>

=============================================================================
