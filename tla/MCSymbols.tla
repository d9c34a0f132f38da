------------------------------- MODULE MCSymbols -------------------------------
(* A small supply of names and literals for module Symbols.                *)
EXTENDS Symbols, TLC

CONSTANTS a, b, Underscore, MinusZero, NotANumber

MCNumbers  == {0, 1, 2, 3}
MCNames    == {a, b}
MCLiterals == {0, 1, 2, 3, MinusZero}

(* Parameters that hide each other, and "_" as a parameter; or none.       *)
MCLists == {<<Underscore, b, b>>, <<>>}

(* What one body declares and what several bodies share is explored apart: *)
(* nested blocks in a function, without literals in the heap and before    *)
(* anything is translated; or functions without local variables and the    *)
(* heap that they use.                                                     *)
InScopes ==
  /\ Len(functions) <= 1 /\ image.functions = <<>>
  /\ Len(heap) <= 1 /\ literals = NoMap

InHeap ==
  /\ locals = <<>> /\ Len(brackets) <= 1
  /\ \A i \in DOMAIN functions : functions[i].arity = 0

ScopesOrHeap == InScopes \/ InHeap

(* Literals one of which is not a number.                                  *)
NaNLists    == {<<>>}
NaNLiterals == {2, 3, NotANumber}

=============================================================================
