---------------------------- MODULE MCSpillMachine ----------------------------
(* Values of the constants of SpillMachine for model checking.  Numbers    *)
(* are 0 .. Numbers - 1; the operations depend on each operand and on the  *)
(* order, so that exchanged or lost values make a difference.              *)
EXTENDS SpillMachine

CONSTANT Numbers

MCVal == 0 .. Numbers - 1

MCUnary(a)     == (a + 1) % Numbers
MCSecond(a)    == (2 * a + 1) % Numbers
MCBinary(a, b) == IF a > b THEN a - b ELSE 0

MCResult(args, j) ==
  CASE Len(args) = 0 -> (j + 1) % Numbers
    [] Len(args) = 1 -> (args[1] + j) % Numbers
    [] Len(args) = 2 -> (args[1] + 2 * args[2] + j) % Numbers

(* A function without a frame, one with an argument, one with two results  *)
(* that itself calls functions.                                            *)
MCCallees ==
  { [arity |-> 0, output |-> 1, clobbered |-> 2, frameClobbered |-> 0, climbing |-> 0],
    [arity |-> 1, output |-> 1, clobbered |-> 2, frameClobbered |-> 1, climbing |-> 0],
    [arity |-> 2, output |-> 2, clobbered |-> 3, frameClobbered |-> 3, climbing |-> 2] }

(* With all the registers: a frameless function that uses most of them and *)
(* one that takes two arguments.                                           *)
MCFullCallees ==
  { [arity |-> 0, output |-> 3, clobbered |-> 6, frameClobbered |-> 0, climbing |-> 0],
    [arity |-> 2, output |-> 2, clobbered |-> 3, frameClobbered |-> 3, climbing |-> 2] }

(* With all the registers, at most one operand differs from 0 at a time:   *)
(* enough to see a value lost, copied or exchanged with another.           *)
Sparse == Cardinality({ j \in 1 .. Excess(m) : Operands[j] # 0 }) <= 1

=============================================================================
