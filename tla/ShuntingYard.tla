---------------------------- MODULE ShuntingYard ----------------------------
(***************************************************************************)
(* The shunting-yard algorithm, which finds the tree in a chain of         *)
(* operands and operators.  The compiler and the evaluator both use it.    *)
(*                                                                         *)
(* Nodes are operands, or operations on the nodes at two places of the     *)
(* output, counted from 0.  `lhs` and `rhs` of an operation are counted as *)
(* if the first operand were already in front, where it is put last.       *)
(***************************************************************************)
EXTENDS Expressions

(* The operation pending last goes to the output.                          *)
Emitted(yard) ==
  LET top == Last(yard.pending)
  IN  [output  |-> Append(yard.output, [lhs |-> top.lhs, op |-> top.op, rhs |-> Len(yard.output)]),
       pending |-> Front(yard.pending)]

(* So do those that bind as strongly as the next operation, or more.       *)
RECURSIVE Collapsed(_, _)
Collapsed(yard, precedence) ==
  IF yard.pending = <<>> \/ Precedence(Last(yard.pending).op) < precedence THEN yard
  ELSE Collapsed(Emitted(yard), precedence)

Shifted(yard, operation) ==
  LET reduced == Collapsed(yard, Precedence(operation[1]))
  IN  [output  |-> Append(reduced.output, [operand |-> operation[2]]),
       pending |-> Append(reduced.pending, [lhs |-> Len(reduced.output), op |-> operation[1]])]

Output(first, rest) ==
  <<[operand |-> first]>> \o
    Collapsed(FoldLeft(Shifted, [output |-> <<>>, pending |-> <<>>], rest), 0).output

IsOperand(node) == "operand" \in DOMAIN node

=============================================================================
