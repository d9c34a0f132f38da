----------------------------- MODULE OperandStack -----------------------------
(***************************************************************************)
(* What the assembler promises the compiler: one function body runs on an  *)
(* operand stack of unlimited depth and on a list of local variables.  No  *)
(* registers, no frame, no spilling.                                       *)
(***************************************************************************)
EXTENDS Integers, Sequences

CONSTANTS
  Val,           (* The numbers computed with.                             *)
  Callees,       (* Functions that may be called: their arity and output.  *)
  Unary(_),      (* fchs, fsqrt, ...                                       *)
  Second(_),     (* The other result of fsincos, fptan, fxtract.           *)
  Binary(_, _),  (* fsub, fdiv, fpatan, fprem, ...: the order matters.     *)
  Result(_, _)   (* Result(args, j): the j-th value a callee returns.      *)

VARIABLES
  stack,    (* The operands of the statement, the newest last.             *)
  locals,   (* The values of arguments and local variables, oldest first.  *)
  scopes,   (* Number of local variables outside of each open block.       *)
  phase,    (* "running", "returned", "left", or "aborted".                *)
  results   (* The values returned.                                        *)

vars == <<stack, locals, scopes, phase, results>>

Top(i) == stack[Len(stack) - i]

(* The newest n operands are replaced by those of `new`.                   *)
Replace(n, new) ==
  /\ phase = "running"
  /\ stack' = SubSeq(stack, 1, Len(stack) - n) \o new
  /\ UNCHANGED <<scopes, phase, results>>

Holds(n) == Len(stack) >= n

Init ==
  /\ stack = <<>> /\ results = <<>> /\ scopes = <<>>
  /\ locals \in Seq(Val)
  /\ phase = "running"

Push       == \E v \in Val : Replace(0, <<v>>) /\ UNCHANGED locals
Load       == \E x \in DOMAIN locals : Replace(0, <<locals[x]>>) /\ UNCHANGED locals
Apply      == Holds(1) /\ Replace(1, <<Unary(Top(0))>>) /\ UNCHANGED locals
ApplyLocal == Holds(1) /\ UNCHANGED locals
              /\ \E x \in DOMAIN locals : Replace(1, <<Binary(Top(0), locals[x])>>)
Exchange   == Holds(2) /\ Replace(2, <<Top(0), Top(1)>>) /\ UNCHANGED locals
Combine    == Holds(2) /\ Replace(1, <<Binary(Top(0), Top(1))>>) /\ UNCHANGED locals
Reduce     == Holds(2) /\ Replace(2, <<Binary(Top(1), Top(0))>>) /\ UNCHANGED locals
Split      == Holds(1) /\ Replace(1, <<Unary(Top(0)), Second(Top(0))>>) /\ UNCHANGED locals
Copy(i)    == Holds(i + 1) /\ Replace(0, <<Top(i)>>) /\ UNCHANGED locals
Discard    == Holds(1) /\ Replace(1, <<>>) /\ UNCHANGED locals
Squash     == Holds(2) /\ Replace(2, <<Top(0)>>) /\ UNCHANGED locals

Store   == /\ Holds(1) /\ Replace(1, <<>>)
           /\ \E x \in DOMAIN locals : locals' = [locals EXCEPT ![x] = Top(0)]
Declare == Holds(1) /\ Replace(1, <<>>) /\ locals' = Append(locals, Top(0))

Call(f) ==
  LET args == SubSeq(stack, Len(stack) - f.arity + 1, Len(stack))
  IN  /\ Holds(f.arity)
      /\ Replace(f.arity, [j \in 1 .. f.output |-> Result(args, j)])
      /\ UNCHANGED locals

Open == /\ phase = "running" /\ stack = <<>>
        /\ scopes' = Append(scopes, Len(locals))
        /\ UNCHANGED <<stack, locals, phase, results>>

Close(after) ==
  /\ stack = <<>> /\ scopes # <<>>
  /\ locals' = SubSeq(locals, 1, scopes[Len(scopes)])
  /\ scopes' = SubSeq(scopes, 1, Len(scopes) - 1)
  /\ phase' = after
  /\ UNCHANGED <<stack, results>>

Return == /\ phase = "running" /\ Holds(1) /\ Len(scopes) = 1
          /\ results' = stack /\ stack' = <<>> /\ phase' = "returned"
          /\ UNCHANGED <<locals, scopes>>

(* The assembler may give up on a declaration or on a return.              *)
GiveUp == /\ phase = "running" /\ Holds(1)
          /\ phase' = "aborted"
          /\ UNCHANGED <<stack, locals, scopes, results>>

Next ==
  \/ Push \/ Load \/ Apply \/ ApplyLocal \/ Exchange \/ Combine \/ Reduce \/ Split
  \/ Copy(0) \/ Copy(1) \/ Discard \/ Squash \/ Store \/ Declare
  \/ \E f \in Callees : Call(f)
  \/ Open
  \/ phase = "running" /\ Len(scopes) > 1 /\ Close("running")
  \/ phase = "returned" /\ Close("left")
  \/ Return \/ GiveUp

Spec == Init /\ [][Next]_vars

=============================================================================
