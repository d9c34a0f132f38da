------------------------------- MODULE Monitor -------------------------------
(***************************************************************************)
(* meta::assembler::monitor: the bookkeeping the assembler keeps while it  *)
(* assembles ONE function, driven by the requests meta::compiler makes for *)
(* the statements of the language.                                         *)
(*                                                                         *)
(* The x87 register stack has DEPTH registers.  When a request needs more  *)
(* free registers than there are, adjust() first emits code that spills    *)
(* the bottom registers to the frame; when it needs more operands than the *)
(* registers hold, adjust() first emits code that reloads spilled values.  *)
(* This module keeps the counters only.  SpillMachine executes the code    *)
(* that adjust() emits.                                                    *)
(*                                                                         *)
(* The build modelled is the default one (Debug): a failed assert() stops  *)
(* the assembler.                                                          *)
(***************************************************************************)
EXTENDS Integers, Sequences

CONSTANTS
  DEPTH,       (* st.depth, the number of floating-point registers.        *)
  Arities,     (* Numbers of parameters a function definition may have.    *)
  Callees,     (* Descriptors of the functions assembled before this one.  *)
  MaxExcess,   (* Bound: values a statement may hold on the operand stack. *)
  MaxLocals,   (* Bound: local variables in the frame, arguments included. *)
  MaxNesting   (* Bound: open brackets, the function body's own included.  *)

(* The longest operand footprint the compiler asks for is that of          *)
(* `fld st(1)`: two operands read, one pushed.                             *)
ASSUME DepthAssumption == DEPTH \in Nat /\ DEPTH >= 3

ASSUME BoundsAssumption ==
  /\ Arities \subseteq Nat
  /\ MaxExcess \in Nat /\ MaxLocals \in Nat /\ MaxNesting \in Nat

Larger(a, b) == IF a < b THEN b ELSE a

-----------------------------------------------------------------------------
(* What a caller knows of an assembled function.  Functions compiled from  *)
(* the language take every argument in the frame (entry_definition passes  *)
(* _input = 0), so input_ is 0 throughout and is left out.                 *)

Descriptor == [arity: Nat, output: Nat, clobbered: Nat,
               frameClobbered: Nat, climbing: Nat]

(* The assertions of function::leave.                                      *)
IsDescriptor(f) ==
  /\ f \in Descriptor
  /\ f.output >= 1 /\ f.output <= DEPTH
  /\ f.output <= f.clobbered /\ f.clobbered <= DEPTH
  /\ f.arity <= f.frameClobbered
  /\ f.climbing <= f.frameClobbered

Frameless(f) == f.frameClobbered = 0

ASSUME CalleesAssumption == \A f \in Callees : IsDescriptor(f)

(* An operator named Mutant... is the one after it with a plausible mistake *)
(* in it.  Nothing uses it: the mutation checks put it in that one's place, *)
(* to see that a property notices.                                          *)
MutantCalleeClobbers(f) == f.clobbered

(* A callee that uses its frame may spill, and so may touch any register.  *)
CalleeClobbers(f) == IF Frameless(f) THEN f.clobbered ELSE DEPTH

-----------------------------------------------------------------------------
VARIABLES
  m,         (* The monitor: its counters and those of function_.          *)
  brackets,  (* brackets_: number of locals at each open bracket.          *)
  mode       (* Where the compiler is in the function's text.              *)

vars == <<m, brackets, mode>>

Modes == {"rvalue", "declare", "store", "returned", "left", "aborted"}

MonitorState ==
  [used: Nat, frameUsed: Nat, locals: Nat, sp: Nat, arity: Nat,
   clobbered: Nat, frameClobbered: Nat, climbing: Nat, output: Nat]

-----------------------------------------------------------------------------
(* Operators on the counters.                                              *)

(* Temporaries: spilled ones and those in registers.                       *)
Excess(s) == (s.frameUsed - s.locals) + s.used

Near(s, i) == i < s.used

(* Frame slot of the i-th temporary from the top, when it is spilled.      *)
FarOffset(s, i) == (s.frameUsed + s.used) - (i + 1)

MutantDeepened(s, additional) ==
  [s EXCEPT !.frameClobbered = Larger(@, additional)]

(* update_stack_depth                                                      *)
Deepened(s, additional) ==
  [s EXCEPT !.frameClobbered = Larger(@, s.frameUsed + additional)]

Deficient(s, consumed) == s.used < consumed

MutantOverfull(s, consumed, clobbered) ==
  (DEPTH - s.used) + 1 < clobbered - consumed

Overfull(s, consumed, clobbered) == DEPTH - s.used < clobbered - consumed

MutantShortage(s, consumed) == (consumed - s.used) - 1

MutantSurplus(s, consumed, clobbered) ==
  ((clobbered - consumed) - (DEPTH - s.used)) - 1

(* How many values the spill code of adjust moves (delta_).                *)
Shortage(s, consumed) == consumed - s.used

Surplus(s, consumed, clobbered) == (clobbered - consumed) - (DEPTH - s.used)

MutantSettled(s, consumed, produced, clobbered) ==
  Deepened([s EXCEPT !.used = (@ - consumed) + produced,
                     !.clobbered = Larger(@, (s.used - consumed) + produced)],
           0)

(* The part of adjust after the spill code.                                *)
Settled(s, consumed, produced, clobbered) ==
  Deepened([s EXCEPT !.used = (@ - consumed) + produced,
                     !.clobbered = Larger(@, (s.used - consumed) + clobbered)],
           0)

(* verify(fld, destination, source): reload `source` values.  The adjust   *)
(* it calls never spills in turn (see MonitorProofs!ReloadNeverSpills).    *)
Reloaded(s, destination, source) ==
  Settled([s EXCEPT !.frameUsed = destination], 0, source, source)

MutantSpilled(s, destination, source) == Settled(s, source, 0, source)

(* verify(fstp, destination, source): spill `source` values.               *)
Spilled(s, destination, source) ==
  Settled([s EXCEPT !.frameUsed = destination], source, 0, source)

(* The counters once adjust has emitted its spill code.                    *)
Balanced(s, consumed, clobbered) ==
  CASE Deficient(s, consumed) /\ ~Overfull(s, consumed, clobbered) ->
         Reloaded(s, s.frameUsed - Shortage(s, consumed), Shortage(s, consumed))
    [] Overfull(s, consumed, clobbered) /\ ~Deficient(s, consumed) ->
         LET n == Surplus(s, consumed, clobbered)
         IN  Spilled(s, s.frameUsed + n, n)
    [] OTHER -> s

Adjusted(s, consumed, produced, clobbered) ==
  Settled(Balanced(s, consumed, clobbered), consumed, produced, clobbered)

(* adjust(callee): the registers, then adjust_stack_pointer.  `base` is    *)
(* where sp_inc or sp_dec leaves the stack pointer: the callee's frame.    *)
CallBase(s, f) == Adjusted(s, 0, f.output, CalleeClobbers(f)).frameUsed - f.arity

MutantCalled(s, f) ==
  LET base == CallBase(s, f)
  IN  [Adjusted(s, 0, f.output, CalleeClobbers(f)) EXCEPT
         !.frameUsed = base, !.sp = base + f.climbing]

MutantCalledDown(s, f) ==
  LET base == CallBase(s, f)
  IN  Deepened([Adjusted(s, 0, f.output, CalleeClobbers(f)) EXCEPT
                  !.frameUsed = base, !.sp = base - f.climbing],
               f.frameClobbered)

Called(s, f) ==
  LET base == CallBase(s, f)
  IN  Deepened([Adjusted(s, 0, f.output, CalleeClobbers(f)) EXCEPT
                  !.frameUsed = base, !.sp = base + f.climbing],
               f.frameClobbered)

(* verify_stack_access(alloca_): fstp into the slot above the frame, which *)
(* becomes the newest local variable.                                      *)
Allocated(s) ==
  LET popped == Adjusted(s, 1, 0, 1)
  IN  Deepened([popped EXCEPT !.locals = @ + 1, !.frameUsed = @ + 1], 0)

(* verify(ket): the locals of the closed bracket leave the frame.          *)
Closed(s, count) ==
  [s EXCEPT !.frameUsed = @ - count, !.locals = s.frameUsed - count]

MutantReturned(s, count) ==
  Adjusted([s EXCEPT !.climbing = s.sp], count, 0, count)

(* verify(ret)                                                             *)
Returned(s, count) ==
  Adjusted([s EXCEPT !.output = count, !.climbing = s.sp], count, 0, count)

(* How far `fld st(i)` and `fstp st(i)` reach: access_top addresses the    *)
(* register, or the frame slot the temporary was spilled to.  Each is the  *)
(* consumed and the produced count of the adjust it makes.                 *)
DupEffect(s, i)  == IF Near(s, i) THEN <<i + 1, i + 2>> ELSE <<0, 1>>

DropEffect(s, i) == IF i = 0 \/ ~Near(s, i) THEN <<1, 0>>
                    ELSE <<s.used, s.used - 1>>

(* Footprints of the other instructions the compiler issues: a constant or *)
(* a variable loaded, ST(0) changed, ST(0) changed or exchanged with       *)
(* ST(1), two operands replaced by one, one replaced by two.               *)
Effects == { <<0, 1>>, <<1, 1>>, <<2, 2>>, <<2, 1>>, <<1, 2>> }

Footprint(effect) == Larger(effect[1], effect[2])

ApplyEffect(s, effect) ==
  Adjusted(s, effect[1], effect[2], Footprint(effect))

-----------------------------------------------------------------------------
(* assembler::enter and monitor::enter: the arguments are in the frame.    *)
Entered(arity) ==
  [used |-> 0, frameUsed |-> arity, locals |-> arity, sp |-> 0,
   arity |-> arity, clobbered |-> 0, frameClobbered |-> arity,
   climbing |-> 0, output |-> 0]

Init ==
  /\ \E arity \in Arities : arity <= MaxLocals /\ m = Entered(arity)
  /\ brackets = <<>>
  /\ mode = "rvalue"

InBody == mode \in {"rvalue", "store"} /\ brackets # <<>>

(* The bound on the temporaries a statement may hold.                      *)
WithinBound(effect) == Excess(m) - effect[1] + effect[2] <= MaxExcess

(* Once a value was stored, the rest of the rvalue's values are stored.    *)
AfterOperation(left) == IF left = 0 THEN "rvalue" ELSE mode

(* An instruction that works on the top of the stack.  The compiler has    *)
(* pushed the operands: every expression leaves at least one value.        *)
Operate(effect) ==
  /\ InBody
  /\ effect[1] <= Excess(m)
  /\ WithinBound(effect)
  /\ m' = ApplyEffect(m, effect)
  /\ mode' = AfterOperation(Excess(m) - effect[1] + effect[2])
  /\ UNCHANGED brackets

(* fld st(i).  (verify refuses st(DEPTH - 1); the compiler uses 0 and 1.)  *)
Dup(i) ==
  /\ InBody
  /\ i < Excess(m)
  /\ Excess(m) + 1 <= MaxExcess
  /\ m' = ApplyEffect(m, DupEffect(m, i))
  /\ UNCHANGED <<brackets, mode>>

(* fstp st(i) with another value below it or instead of it: the top value  *)
(* replaces the i-th, as the intrinsics use it.                            *)
Drop(i) ==
  /\ InBody
  /\ i < Excess(m)
  /\ m' = ApplyEffect(m, DropEffect(m, i))
  /\ mode' = AfterOperation(Excess(m) - 1)
  /\ UNCHANGED brackets

(* fstp to a local variable, or to the dummy placeholder "_".              *)
Store ==
  /\ InBody
  /\ Excess(m) >= 1
  /\ m' = ApplyEffect(m, <<1, 0>>)
  /\ mode' = IF Excess(m) = 1 THEN "rvalue" ELSE "store"
  /\ UNCHANGED brackets

AfterDeclaration == IF Excess(m) = 1 THEN "rvalue" ELSE "declare"

Declaring ==
  /\ mode \in {"rvalue", "declare"} /\ brackets # <<>>
  /\ Excess(m) >= 1

(* alloca_ of a name: assert(local_variables_count_ == frame_used_).       *)
Alloca ==
  /\ Declaring
  /\ m.locals < MaxLocals
  /\ m.locals = m.frameUsed
  /\ m' = Allocated(m)
  /\ mode' = AfterDeclaration
  /\ UNCHANGED brackets

AllocaAborts ==
  /\ Declaring
  /\ m.locals # m.frameUsed
  /\ mode' = "aborted"
  /\ UNCHANGED <<m, brackets>>

(* alloca_ of the dummy placeholder: the value is popped.                  *)
AllocaDummy ==
  /\ Declaring
  /\ m' = ApplyEffect(m, <<1, 0>>)
  /\ mode' = AfterDeclaration
  /\ UNCHANGED brackets

Call(f) ==
  /\ mode = "rvalue" /\ brackets # <<>>
  /\ f.arity <= Excess(m)
  /\ WithinBound(<<f.arity, f.output>>)
  /\ m' = Called(m, f)
  /\ UNCHANGED <<brackets, mode>>

AtStatement == mode = "rvalue" /\ Excess(m) = 0

Bra ==
  /\ AtStatement
  /\ Len(brackets) < MaxNesting
  /\ brackets' = Append(brackets, m.locals)
  /\ UNCHANGED <<m, mode>>

MutantCloseBracket ==
  /\ m' = Closed(m, m.locals - brackets[1])
  /\ brackets' = SubSeq(brackets, 1, Len(brackets) - 1)

CloseBracket ==
  LET outer == brackets[Len(brackets)]
  IN  /\ m' = Closed(m, m.locals - outer)
      /\ brackets' = SubSeq(brackets, 1, Len(brackets) - 1)

(* `end` of a statement block.                                             *)
Ket ==
  /\ AtStatement
  /\ Len(brackets) > 1
  /\ CloseBracket
  /\ UNCHANGED mode

Returning == mode = "rvalue" /\ Len(brackets) = 1 /\ Excess(m) >= 1

Ret ==
  /\ Returning
  /\ Excess(m) <= DEPTH
  /\ m' = Returned(m, Excess(m))
  /\ mode' = "returned"
  /\ UNCHANGED brackets

(* assert(!(st.depth < _destination)) of verify(ret).                      *)
RetAborts ==
  /\ Returning
  /\ Excess(m) > DEPTH
  /\ mode' = "aborted"
  /\ UNCHANGED <<m, brackets>>

(* The function's own ket, then assembler::leave.                          *)
Leave ==
  /\ mode = "returned"
  /\ CloseBracket
  /\ mode' = "left"

Next ==
  \/ \E effect \in Effects : Operate(effect)
  \/ \E i \in {0, 1} : Dup(i) \/ Drop(i)
  \/ Store
  \/ Alloca \/ AllocaAborts \/ AllocaDummy
  \/ \E f \in Callees : Call(f)
  \/ Bra \/ Ket
  \/ Ret \/ RetAborts \/ Leave

Spec == Init /\ [][Next]_vars

-----------------------------------------------------------------------------
(* Every adjust the compiler can ask for in the present state, as          *)
(* <<consumed, produced, clobbered>>.                                      *)
Requests ==
  LET simple == { e \in Effects : e[1] <= Excess(m) }
                  \cup { DupEffect(m, i)  : i \in { j \in {0, 1} : j < Excess(m) } }
                  \cup { DropEffect(m, i) : i \in { j \in {0, 1} : j < Excess(m) } }
      ret == IF Excess(m) \in 1 .. DEPTH THEN { <<Excess(m), 0>> } ELSE {}
  IN  { <<e[1], e[2], Footprint(e)>> : e \in simple \cup ret }
        \cup { <<0, f.output, CalleeClobbers(f)>> :
                 f \in { g \in Callees : g.arity <= Excess(m) } }

(* The counters are natural numbers and the mode is one of the modes.      *)
TypeOK ==
  /\ m \in MonitorState
  /\ brackets \in Seq(Nat)
  /\ mode \in Modes

(* The registers in use fit the register stack and are counted by          *)
(* clobbered_, which never exceeds the register stack either: a caller     *)
(* that keeps the other registers alive across a call relies on it         *)
(* (adjust(callee)).                                                       *)
RegisterBudget == m.used <= m.clobbered /\ m.clobbered <= DEPTH

(* Arguments, locals and spilled temporaries are stacked in this order in  *)
(* the frame, frame_clobbered_ covers them all, and so does it cover the   *)
(* stack pointer, from which the next callee's frame is laid out.          *)
FrameLayout ==
  /\ m.arity <= m.locals
  /\ m.locals <= m.frameUsed
  /\ m.frameUsed <= m.frameClobbered
  /\ m.sp <= m.frameClobbered

(* Open brackets are nested: each one, from the function's own outwards    *)
(* in, remembers at least the arguments and at most the locals in scope.   *)
BracketsNested ==
  \A i \in DOMAIN brackets :
    /\ m.arity <= brackets[i] /\ brackets[i] <= m.locals
    /\ \A j \in DOMAIN brackets : i < j => brackets[i] <= brackets[j]

(* The assertions inside adjust: whatever the compiler asks for next, the  *)
(* spilled values it reloads exist and lie above the locals, the spill     *)
(* leaves the operands in registers, and no result overflows them.         *)
AdjustAssertions ==
  \A r \in Requests :
    LET s == Balanced(m, r[1], r[3])
    IN  /\ r[3] <= DEPTH
        /\ ~(Deficient(m, r[1]) /\ Overfull(m, r[1], r[3]))
        /\ s.locals <= s.frameUsed
        /\ r[1] <= s.used
        /\ (s.used - r[1]) + r[3] <= DEPTH

(* The assertion inside adjust_stack_pointer: whichever function is called *)
(* next, its arguments lie in the frame, above the caller's locals, when   *)
(* the stack pointer is moved to them; the frame declared for the caller   *)
(* holds the callee's, and the registers not given to the callee suffice   *)
(* for the caller's own values.                                            *)
CallAssertions ==
  \A f \in { g \in Callees : g.arity <= Excess(m) } :
    /\ m.locals <= CallBase(m, f)
    /\ CallBase(m, f) + f.frameClobbered <= Called(m, f).frameClobbered
    /\ Balanced(m, 0, CalleeClobbers(f)).used + CalleeClobbers(f) <= DEPTH

(* Spilling is invisible to excess(): an adjust changes it by exactly what *)
(* the instruction consumes and produces, whatever moved to or from the    *)
(* frame.  Every arity check of the compiler (push, entry_substitution,    *)
(* variable_declaration) counts on it.                                     *)
SpillInvisible ==
  \A r \in Requests :
    Excess(Adjusted(m, r[1], r[2], r[3])) = (Excess(m) - r[1]) + r[2]

(* One spill suffices: verified again after its own spill code, the same   *)
(* instruction needs no further spill.  monitor::check() replays the code  *)
(* of every function and fails if it does.                                 *)
ReplayStable ==
  \A r \in Requests :
    LET s == Balanced(m, r[1], r[3])
    IN  ~Deficient(s, r[1]) /\ ~Overfull(s, r[1], r[3])

(* What function::leave asserts of a finished function, and what the       *)
(* assembly of its callers takes for granted of a callee.                  *)
AsDescriptor == [arity |-> m.arity, output |-> m.output, clobbered |-> m.clobbered,
                 frameClobbered |-> m.frameClobbered, climbing |-> m.climbing]

LeaveAssertions ==
  mode = "left" => /\ IsDescriptor(AsDescriptor)
                   /\ brackets = <<>>
                   /\ m.locals = m.arity /\ Excess(m) = 0

(* The invariant that proves the others: the function's own bracket holds  *)
(* the arguments only, and what ret records agrees with the counters.      *)
BodyBracket ==
  /\ brackets # <<>> => brackets[1] = m.arity
  /\ brackets = <<>> => m.locals = m.arity /\ Excess(m) = 0
  /\ mode = "returned" => Len(brackets) = 1
  /\ mode = "left" => brackets = <<>>

ResultsRecorded ==
  mode \in {"returned", "left"} =>
    /\ Excess(m) = 0
    /\ 1 <= m.output /\ m.output <= m.clobbered
    /\ m.climbing <= m.frameClobbered

Inductive ==
  TypeOK /\ RegisterBudget /\ FrameLayout /\ BracketsNested
    /\ BodyBracket /\ ResultsRecorded

=============================================================================
