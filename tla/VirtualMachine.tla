---------------------------- MODULE VirtualMachine ----------------------------
(***************************************************************************)
(* What the virtual machine does with the operands of FPU code, for any    *)
(* numbers, and what the assembler knows of it.                            *)
(*                                                                         *)
(* Code is a sequence of instructions:                                     *)
(*   <<op>>                on the top one or two operands                  *)
(*   <<op, "mem", number>> with an operand in memory                       *)
(*   <<op, "st", i>>       with operand i from the top                     *)
(*   <<op, "st", d, s>>    with operands d and s from the top              *)
(*   <<"call", name>>                                                      *)
(* The operands lie on one stack that is as deep as needed: that the       *)
(* assembler moves the deeper ones to memory and back is modelled in       *)
(* SpillMachine.  What the assembler knows of an instruction is its        *)
(* footprint, and the compiler counts operands by it.                      *)
(***************************************************************************)
EXTENDS Integers, SequencesExt, Callees

CONSTANTS
  Caller,                       (* What the caller has on the stack.       *)
  LoadedValue(_),               (* What instructions without operands load, *)
  TransformedValue(_, _),       (* what one makes of the top operand,      *)
  PushedValue(_, _),            (* what it puts on it                      *)
  CombinedValue(_, _, _),       (* and what it makes of destination and    *)
                                (* source;                                 *)
  LessValue(_, _, _, _),        (* the third if the first is less than the *)
                                (* second, or else the fourth;             *)
  CalledValue(_, _, _)          (* and a value that a call returns.        *)

VARIABLES
  rest,       (* The instructions that are still to be interpreted,        *)
  operands,   (* the operand stack, top last,                              *)
  compared    (* and the two numbers that were compared last.              *)

machineVars == <<rest, operands, compared>>

(***************************************************************************)
(* The assembler's footprints: how many operands from the top an           *)
(* instruction needs, and how many it leaves in their place.               *)
(***************************************************************************)
Inplace  == {"fabs", "fchs", "frndint", "trunc", "fsqrt", "fcos", "fsin", "f2xm1"}
Loads    == {"fldz", "fld1", "fldpi", "fldl2e", "fldl2t", "fldlg2", "fldln2"}
Modifying == {"fxch", "fscale", "fprem", "fprem1"}
Arithmetical == {"fadd", "fsub", "fsubr", "fmul", "fdiv", "fdivr"}
Popping  == Arithmetical \cup {"fpatan", "fyl2x", "fyl2xp1"}
Widening == {"fptan", "fsincos", "fxtract"}

Footprint(i) ==
  CASE Len(i) = 1 /\ i[1] \in Loads     -> [needs |-> 0, leaves |-> 1]
    [] Len(i) = 1 /\ i[1] \in Inplace   -> [needs |-> 1, leaves |-> 1]
    [] Len(i) = 1 /\ i[1] \in Widening  -> [needs |-> 1, leaves |-> 2]
    [] Len(i) = 1 /\ i[1] \in Popping   -> [needs |-> 2, leaves |-> 1]
    [] Len(i) = 1 /\ i[1] \in Modifying -> [needs |-> 2, leaves |-> 2]
    [] Len(i) = 2                       -> [needs |-> Arity[i[2]], leaves |-> Results[i[2]]]
    [] Len(i) = 3 /\ i[2] = "mem" /\ i[1] = "fld"  -> [needs |-> 0, leaves |-> 1]
    [] Len(i) = 3 /\ i[2] = "mem" /\ i[1] # "fld"  -> [needs |-> 1, leaves |-> 1]
    [] Len(i) = 3 /\ i[2] = "st"  /\ i[1] = "fld"  -> [needs |-> i[3] + 1, leaves |-> i[3] + 2]
    [] Len(i) = 3 /\ i[2] = "st"  /\ i[1] = "fstp" -> [needs |-> i[3] + 1, leaves |-> i[3]]
    [] Len(i) = 4 -> LET deepest == IF i[3] # 0 THEN i[3] ELSE i[4]
                     IN  [needs |-> deepest + 1, leaves |-> deepest + 1]

(***************************************************************************)
(* The virtual machine.                                                    *)
(***************************************************************************)
ST(i) == operands[Len(operands) - i]

(* The stack with the top n operands replaced.                             *)
Replaced(n, numbers) == SubSeq(operands, 1, Len(operands) - n) \o numbers

(* The next instruction, if it is of the given length.                     *)
Next1(ops) == rest # <<>> /\ Len(rest[1]) = 1 /\ rest[1][1] \in ops
NextSt     == rest # <<>> /\ Len(rest[1]) > 2 /\ rest[1][2] = "st"
NextMem    == rest # <<>> /\ Len(rest[1]) > 2 /\ rest[1][2] = "mem"

Interpreted == rest' = Tail(rest)

(* fconst.                                                                 *)
PushConstant ==
  /\ Next1(Loads)
  /\ Interpreted
  /\ operands' = Append(operands, LoadedValue(rest[1][1]))
  /\ UNCHANGED compared

(* fnullary.                                                               *)
Unaries ==
  /\ Next1(Inplace \cup Widening)
  /\ Interpreted
  /\ LET op == rest[1][1]
         x  == TransformedValue(op, ST(0))
     IN  operands' = Replaced(1, IF op \in Inplace THEN <<x>> ELSE <<x, PushedValue(op, ST(0))>>)
  /\ UNCHANGED compared

(* st(1) is the destination, and the top is popped.                        *)
Binaries ==
  /\ Next1(Popping)
  /\ Interpreted
  /\ operands' = Replaced(2, <<CombinedValue(rest[1][1], ST(1), ST(0))>>)
  /\ UNCHANGED compared

(* The top is the destination, st(1) the source, and stays.                *)
Scalings ==
  /\ Next1(Modifying \ {"fxch"})
  /\ Interpreted
  /\ operands' = Replaced(1, <<CombinedValue(rest[1][1], ST(0), ST(1))>>)
  /\ UNCHANGED compared

Fxch ==
  /\ Next1({"fxch"})
  /\ Interpreted
  /\ operands' = Replaced(2, <<ST(0), ST(1)>>)
  /\ UNCHANGED compared

(* memory_ro_access.                                                       *)
Memory ==
  /\ NextMem
  /\ Interpreted
  /\ LET source == rest[1][3]
     IN  operands' = IF rest[1][1] = "fld" THEN Append(operands, source)
                     ELSE Replaced(1, <<CombinedValue(rest[1][1], ST(0), source)>>)
  /\ UNCHANGED compared

(* fld st(i) and fstp st(i).                                               *)
MutantRegisters ==
  /\ NextSt
  /\ rest[1][1] \in {"fld", "fstp"}
  /\ Interpreted
  /\ LET i == rest[1][3]
     IN  operands' = IF rest[1][1] = "fld" THEN Append(operands, ST(i))
                     ELSE Front([operands EXCEPT ![Len(operands) - i - 1] = ST(0)])
  /\ UNCHANGED compared
Registers ==
  /\ NextSt
  /\ rest[1][1] \in {"fld", "fstp"}
  /\ Interpreted
  /\ LET i == rest[1][3]
     IN  operands' = IF rest[1][1] = "fld" THEN Append(operands, ST(i))
                     ELSE Front([operands EXCEPT ![Len(operands) - i] = ST(0)])
  /\ UNCHANGED compared

RegisterPair ==
  /\ NextSt
  /\ rest[1][1] \in Popping
  /\ Interpreted
  /\ LET d == rest[1][3]
         s == rest[1][4]
     IN  operands' = [operands EXCEPT ![Len(operands) - d] = CombinedValue(rest[1][1], ST(d), ST(s))]
  /\ UNCHANGED compared

(* fcom.                                                                   *)
Fucomi ==
  /\ NextSt
  /\ rest[1][1] = "fucomi"
  /\ Interpreted
  /\ compared' = <<ST(0), ST(rest[1][4])>>
  /\ UNCHANGED operands

(* fcmov: fcmovb moves if the first was less than the second, fcmovnbe if  *)
(* it was greater.                                                         *)
Fcmov ==
  /\ NextSt
  /\ rest[1][1] \in {"fcmovb", "fcmovnbe"}
  /\ Interpreted
  /\ LET source == ST(rest[1][4])
         a == compared[1]
         b == compared[2]
     IN  operands' = Replaced(1, <<IF rest[1][1] = "fcmovb" THEN LessValue(a, b, source, ST(0))
                                                            ELSE LessValue(b, a, source, ST(0))>>)
  /\ UNCHANGED compared

(* interpret_function: the arguments are gone, the results in their place. *)
CallEntry ==
  /\ rest # <<>>
  /\ rest[1][1] = "call"
  /\ Interpreted
  /\ LET f == rest[1][2]
         n == Arity[f]
         arguments == SubSeq(operands, Len(operands) - n + 1, Len(operands))
     IN  operands' = Replaced(n, [i \in 1 .. Results[f] |-> CalledValue(f, i, arguments)])
  /\ UNCHANGED compared

Interpret ==
  \/ PushConstant
  \/ Unaries
  \/ Binaries
  \/ Scalings
  \/ Fxch
  \/ Memory
  \/ Registers
  \/ RegisterPair
  \/ Fucomi
  \/ Fcmov
  \/ CallEntry

(***************************************************************************)
(* Code the machine can be given: enough operands for each instruction,    *)
(* counted by the footprints from n at first to total at the end.          *)
(***************************************************************************)
IsInstruction(i) ==
  \/ Len(i) = 1 /\ i[1] \in Loads \cup Inplace \cup Widening \cup Popping \cup Modifying
  \/ Len(i) = 2 /\ i[1] = "call" /\ i[2] \in Entries
  \/ Len(i) = 3 /\ i[2] = "mem" /\ i[1] \in {"fld"} \cup Arithmetical
  \/ Len(i) = 3 /\ i[2] = "st" /\ i[1] \in {"fld", "fstp"} /\ i[3] \in Nat
  \/ /\ Len(i) = 4 /\ i[2] = "st" /\ {i[3], i[4]} \subseteq Nat
     /\ \/ i[1] \in Arithmetical /\ 0 \in {i[3], i[4]}
        \/ i[1] \in {"fucomi", "fcmovb", "fcmovnbe"} /\ i[3] = 0

Counts(code, n, total) ==
  \E counts \in Seq(Nat) :
    /\ Len(counts) = Len(code) + 1 /\ counts[1] = n /\ counts[Len(counts)] = total
    /\ \A k \in DOMAIN code :
         LET footprint == Footprint(code[k])
         IN  /\ IsInstruction(code[k]) /\ footprint.needs <= counts[k]
             /\ counts[k + 1] = (counts[k] - footprint.needs) + footprint.leaves

(* Given code that leaves total operands, on top of those of the caller.   *)
MachineInit(total) ==
  /\ \E S : Caller \in Seq(S) /\ rest \in Seq(S)
  /\ Counts(rest, 0, total)
  /\ operands = Caller

MachineSpec(total) == MachineInit(total) /\ [][Interpret]_machineVars

(***************************************************************************)
(* Properties.                                                             *)
(***************************************************************************)
(* Each instruction is one the machine knows and is content with the       *)
(* operands of its expression: it needs none of the caller's, also when an *)
(* operand is wide or a list is empty.                                     *)
CallerUntouched ==
  /\ SubSeq(operands, 1, Len(Caller)) = Caller
  /\ rest # <<>> => /\ IsInstruction(rest[1])
                    /\ Footprint(rest[1]).needs <= Len(operands) - Len(Caller)

(* An instruction changes no operand below those its footprint names, and  *)
(* leaves as many in their place as it says: adjust() of the assembler     *)
(* moves operands to memory and back on the strength of this, and push of  *)
(* the compiler counts the operands of whole expressions by it.            *)
FootprintKept ==
  [][rest # <<>> =>
       LET footprint == Footprint(rest[1])
           below == Len(operands) - footprint.needs
       IN  /\ Len(operands') = below + footprint.leaves
           /\ SubSeq(operands', 1, below) = SubSeq(operands, 1, below)]_machineVars

(* Code that counts for `total` operands leaves as many on those of the    *)
(* caller: that many results a function declares (excess of the monitor).  *)
ResultsLeft(total) == rest = <<>> => Len(operands) = Len(Caller) + total

=============================================================================
