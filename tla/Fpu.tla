--------------------------------- MODULE Fpu ---------------------------------
(***************************************************************************)
(* The x87 register stack as virtual_machine keeps it: fpregs_, a ring of  *)
(* DEPTH registers indexed from the top, each holding a value or nothing.  *)
(* The operators are those the spill code of the assembler uses, each for  *)
(* a whole run of equal instructions.                                      *)
(***************************************************************************)
EXTENDS Integers

CONSTANTS
  DEPTH,   (* st.depth: the number of registers.                           *)
  Fresh,   (* An empty register that was not used since the function       *)
           (* was entered.                                                 *)
  Stale    (* An empty register that was used.                             *)

Registers == 0 .. DEPTH - 1

Empty == {Fresh, Stale}

AllFresh == [i \in Registers |-> Fresh]

(* n times fincstp, n times fdecstp: the ring turns, nothing is lost.      *)
Fincstp(fpu, n) == [i \in Registers |-> fpu[(i + n) % DEPTH]]
Fdecstp(fpu, n) == [i \in Registers |-> fpu[(i + (DEPTH - n)) % DEPTH]]

(* The shorter way round, as adjust chooses it.                            *)
TurnDown(fpu, n) == IF DEPTH \div 2 < n THEN Fdecstp(fpu, DEPTH - n)
                                        ELSE Fincstp(fpu, n)
MutantTurnUp(fpu, n) == IF DEPTH \div 2 < n THEN Fincstp(fpu, n)
                                              ELSE Fdecstp(fpu, n)
TurnUp(fpu, n)   == IF DEPTH \div 2 < n THEN Fincstp(fpu, DEPTH - n)
                                        ELSE Fdecstp(fpu, n)

(* fpush of values[n], ..., values[1] in this order: values[1] ends on top. *)
PushFaults(fpu, n) == \E i \in Registers : i >= DEPTH - n /\ fpu[i] \notin Empty

Pushed(fpu, values, n) ==
  [i \in Registers |-> IF i < n THEN values[i + 1] ELSE fpu[i - n]]

(* fpop, n times.                                                          *)
PopFaults(fpu, n) == \E i \in Registers : i < n /\ fpu[i] \in Empty

Popped(fpu, n) == [i \in Registers |-> IF i < DEPTH - n THEN fpu[i + n] ELSE Stale]

(* check_head_tail: the first n registers hold values, and of the others   *)
(* the last `tail` ones are empty.                                         *)
HeadTail(fpu, n, tail) ==
  \A i \in Registers : /\ i < n => fpu[i] \notin Empty
                       /\ i >= n /\ i >= DEPTH - tail => fpu[i] \in Empty

=============================================================================
