----------------------------- MODULE SpillMachine -----------------------------
(***************************************************************************)
(* The code the assembler emits for one function, executed instruction by  *)
(* instruction while it is emitted: a function body has no jumps, so the   *)
(* virtual machine executes it in the order of its assembly.  Each action  *)
(* is a request of the compiler: the monitor's step (module Monitor), the  *)
(* spill code adjust() emits for it, then the instruction itself.          *)
(*                                                                         *)
(* Addresses are relative to the function's frame_pointer_.  A called      *)
(* function is one step here, as its descriptor promises it; module Linkage *)
(* is about calls.  Frame slots at or above stack_used_ are dead: what     *)
(* they hold is forgotten (Junk), so that reading one would show.          *)
(***************************************************************************)
EXTENDS Monitor, FiniteSets

CONSTANTS
  Val, Unary(_), Second(_), Binary(_, _), Result(_, _),  (* See OperandStack *)
  Fresh, Stale,  (* See Fpu.                                               *)
  FrameSize,     (* Bound: slots of stack_.                                *)
  Unwritten,     (* A slot no instruction has written.                     *)
  Junk           (* A slot whose value is dead.                            *)

(* Instructions make numbers of numbers.                                   *)
ASSUME ValuesAssumption ==
  /\ \A a \in Val : Unary(a) \in Val /\ Second(a) \in Val
  /\ \A a, b \in Val : Binary(a, b) \in Val
  /\ \A f \in Callees : \A args \in [1 .. f.arity -> Val] :
       \A j \in 1 .. f.output : Result(args, j) \in Val

(* An empty register is told from a number.                                *)
ASSUME MarksAssumption == Fresh \notin Val /\ Stale \notin Val

(* The frame has room for what a statement may hold.                       *)
ASSUME FrameAssumption == FrameSize \in Nat /\ MaxLocals + MaxExcess <= FrameSize

VARIABLE h   (* The machine: fpregs_, stack_, stack_used_, and whether an  *)
             (* instruction failed or an assertion of the machine did.     *)

machineVars == <<m, brackets, mode, h>>

F == INSTANCE Fpu

Slots == 0 .. FrameSize - 1

MachineState ==
  [fpu: [F!Registers -> Val \cup F!Empty],
   frame: [Slots -> Val \cup {Unwritten, Junk}],
   stackUsed: Nat, fault: BOOLEAN]

-----------------------------------------------------------------------------
(* Instructions.                                                           *)

Faulty(g, condition) == [g EXCEPT !.fault = @ \/ condition]

(* Slots from `from` on are dead.                                          *)
Forget(frame, from) ==
  [x \in Slots |-> IF x >= from /\ frame[x] # Unwritten THEN Junk ELSE frame[x]]

Push(g, value) ==
  Faulty([g EXCEPT !.fpu = F!Pushed(@, <<value>>, 1)], F!PushFaults(g.fpu, 1))

Pop(g) == Faulty([g EXCEPT !.fpu = F!Popped(@, 1)], F!PopFaults(g.fpu, 1))

(* The result of an instruction goes to ST(i); its operands are ST(0) and  *)
(* ST(1) at most.                                                          *)
Set(g, i, value) == [g EXCEPT !.fpu[i] = value]

Needs(g, n) == Faulty(g, F!PopFaults(g.fpu, n))

MutantReload(g, from, n) ==
  LET loaded == [j \in 1 .. n |-> g.frame[from + j]]
  IN  Faulty([g EXCEPT !.fpu = F!Pushed(@, loaded, n),
                       !.frame = Forget(@, from),
                       !.stackUsed = from],
             F!PushFaults(g.fpu, n) \/ n # g.stackUsed - from)

(* Binary fld: `n` values from slot `from` upwards, and stack_used_ drops. *)
Reload(g, from, n) ==
  LET loaded == [j \in 1 .. n |-> g.frame[from + n - j]]
  IN  Faulty([g EXCEPT !.fpu = F!Pushed(@, loaded, n),
                       !.frame = Forget(@, from),
                       !.stackUsed = from],
             F!PushFaults(g.fpu, n) \/ n # g.stackUsed - from)

MutantSpill(g, to, n) ==
  Faulty([g EXCEPT !.fpu = F!Popped(@, n),
                   !.frame = [x \in Slots |-> IF x < to /\ x >= to - n
                                              THEN g.fpu[x - (to - n)]
                                              ELSE @[x]],
                   !.stackUsed = to],
         F!PopFaults(g.fpu, n) \/ n # to - g.stackUsed)

(* Binary fstp: `n` values to the slots from `to` downwards.               *)
Spill(g, to, n) ==
  Faulty([g EXCEPT !.fpu = F!Popped(@, n),
                   !.frame = [x \in Slots |-> IF x < to /\ x >= to - n
                                              THEN g.fpu[to - 1 - x]
                                              ELSE @[x]],
                   !.stackUsed = to],
         F!PopFaults(g.fpu, n) \/ n # to - g.stackUsed)

MutantTurnBack(g, used, unused) == g

(* The spill code of adjust: turn the ring, move the values, turn on until *)
(* the top is where it was.                                                *)
TurnBack(g, used, unused) ==
  IF used = 0 THEN g
  ELSE [g EXCEPT !.fpu = F!TurnDown(@, unused)]

SpillCode(consumed, clobbered) ==
  LET unused == DEPTH - m.used
      short  == Shortage(m, consumed)
      over   == Surplus(m, consumed, clobbered)
  IN  CASE Deficient(m, consumed) /\ ~Overfull(m, consumed, clobbered) ->
             TurnBack(Reload([h EXCEPT !.fpu = F!TurnDown(@, consumed)],
                             m.frameUsed - short, short),
                      consumed, unused)
        [] Overfull(m, consumed, clobbered) /\ ~Deficient(m, consumed) ->
             TurnBack(Spill([h EXCEPT !.fpu = F!TurnUp(@, clobbered - consumed)],
                            m.frameUsed + over, over),
                      m.used - over, unused)
        [] OTHER -> h

After(effect) == SpillCode(effect[1], Footprint(effect))

St(g, i) == g.fpu[i]

-----------------------------------------------------------------------------
MachineInit ==
  /\ Init
  /\ \E args \in [1 .. m.arity -> Val] :
       h = [fpu |-> F!AllFresh,
            frame |-> [x \in Slots |-> IF x < m.arity THEN args[x + 1] ELSE Unwritten],
            stackUsed |-> m.arity, fault |-> FALSE]

(* fldz, fld1, fldpi, ..., fld of a literal.                               *)
Const(v) ==
  LET e == <<0, 1>> IN Operate(e) /\ h' = Push(After(e), v)

LocalSlots == 0 .. m.locals - 1

(* fld of a local variable.                                                *)
Load(x) ==
  LET e == <<0, 1>> IN Operate(e) /\ h' = Push(After(e), After(e).frame[x])

(* fchs, fabs, fsqrt, fsin, ..., and fadd st, st(0).                       *)
UnaryOp ==
  LET e == <<1, 1>>
      g == After(e)
  IN  Operate(e) /\ h' = Needs(Set(g, 0, Unary(St(g, 0))), 1)

(* fadd, fsub, ... with a local variable in memory.                        *)
MemoryOp(x) ==
  LET e == <<1, 1>>
      g == After(e)
  IN  Operate(e) /\ h' = Needs(Set(g, 0, Binary(St(g, 0), g.frame[x])), 1)

Fxch ==
  LET e == <<2, 2>>
      g == After(e)
  IN  Operate(e) /\ h' = Needs(Set(Set(g, 0, St(g, 1)), 1, St(g, 0)), 2)

(* fprem, fprem1, fscale, fcmov, fmul st, st(1): ST(1) is kept.            *)
CombineOp ==
  LET e == <<2, 2>>
      g == After(e)
  IN  Operate(e) /\ h' = Needs(Set(g, 0, Binary(St(g, 0), St(g, 1))), 2)

(* fadd, fsub, ..., fpatan, fyl2x, fyl2xp1: into ST(1), then pop.          *)
BinaryOp ==
  LET e == <<2, 1>>
      g == After(e)
  IN  Operate(e) /\ h' = Pop(Needs(Set(g, 1, Binary(St(g, 1), St(g, 0))), 2))

(* fsincos, fptan, fxtract.                                                *)
SplitOp ==
  LET e == <<1, 2>>
      g == After(e)
  IN  Operate(e) /\ h' = Push(Needs(Set(g, 0, Unary(St(g, 0))), 1), Second(St(g, 0)))

FldSt(i) ==
  LET g == After(DupEffect(m, i))
  IN  /\ Dup(i)
      /\ h' = Push(g, IF Near(m, i) THEN St(g, i) ELSE g.frame[FarOffset(m, i)])

(* A value stored into a slot of the frame, then popped; the slots above   *)
(* `live` are dead.                                                        *)
StoreTo(g, x, live) ==
  Pop(Needs([g EXCEPT !.frame = Forget([@ EXCEPT ![x] = St(g, 0)], live)], 1))

FstpSt(i) ==
  LET g == After(DropEffect(m, i))
  IN  /\ Drop(i)
      /\ h' = IF Near(m, i) THEN Pop(Needs(Set(g, i, St(g, 0)), 1))
              ELSE StoreTo(g, FarOffset(m, i), g.stackUsed)

Assign(x) ==
  LET g == After(<<1, 0>>) IN Store /\ h' = StoreTo(g, x, g.stackUsed)

AssignDummy == Store /\ h' = Pop(After(<<1, 0>>))

(* alloca_: ++stack_used_, then fstp into the new slot.                    *)
Declare ==
  LET g == After(<<1, 0>>)
  IN  /\ Alloca
      /\ h' = StoreTo([g EXCEPT !.stackUsed = @ + 1], m.locals, g.stackUsed + 1)

DeclareDummy == AllocaDummy /\ h' = Pop(After(<<1, 0>>))

(* interpret_function(callee), seen from its caller: the arguments are the *)
(* newest slots of the frame, the callee may overwrite its own slots and   *)
(* the registers it declares, and leaves its results on the registers.     *)
Invoke(f) ==
  LET g     == SpillCode(0, CalleeClobbers(f))
      base  == CallBase(m, f)
      args  == [j \in 1 .. f.arity |-> g.frame[base + j - 1]]
      values == [j \in 1 .. f.output |-> Result(args, f.output + 1 - j)]
      fpu   == [i \in F!Registers |-> IF i >= DEPTH - CalleeClobbers(f) THEN Stale
                                                                       ELSE g.fpu[i]]
  IN  /\ Call(f)
      /\ base + f.frameClobbered <= FrameSize
      /\ h' = Faulty([g EXCEPT
                        !.fpu = F!Pushed(fpu, values, f.output),
                        !.frame = [x \in Slots |->
                                     IF x >= base /\ x < base + f.frameClobbered
                                     THEN Junk ELSE @[x]],
                        !.stackUsed = base],
                     \/ ~F!HeadTail(g.fpu, 0, CalleeClobbers(f))
                     \/ g.stackUsed - base # f.arity)

OpenBlock == Bra /\ UNCHANGED h

Scoped == [h EXCEPT !.frame = Forget(@, m'.frameUsed), !.stackUsed = m'.frameUsed]

CloseBlock == Ket /\ h' = Scoped

(* ret: check_head_tail(function, destination).                            *)
Return ==
  LET n    == Excess(m)
      g    == After(<<n, 0>>)
      tail == IF m'.frameClobbered = 0 THEN m'.clobbered - n ELSE DEPTH
  IN  Ret /\ h' = Faulty(g, ~F!HeadTail(g.fpu, n, tail))

LeaveFunction == Leave /\ h' = Scoped

Abort == (AllocaAborts \/ RetAborts) /\ UNCHANGED h

MachineNext ==
  \/ \E v \in Val : Const(v)
  \/ \E x \in LocalSlots : Load(x) \/ MemoryOp(x) \/ Assign(x)
  \/ UnaryOp \/ Fxch \/ CombineOp \/ BinaryOp \/ SplitOp
  \/ \E i \in {0, 1} : FldSt(i) \/ FstpSt(i)
  \/ AssignDummy \/ Declare \/ DeclareDummy
  \/ \E f \in Callees : Invoke(f)
  \/ OpenBlock \/ CloseBlock \/ Return \/ LeaveFunction \/ Abort

MachineSpec == MachineInit /\ [][MachineNext]_machineVars

-----------------------------------------------------------------------------
(* The values in use are on the top registers, used_ of them: the spill    *)
(* code turns the ring back.  After ret the results are there.             *)
OnTop == IF mode \in {"returned", "left"} THEN m.output ELSE m.used

(* The machine never fails: no register is pushed onto a full one or read  *)
(* empty, stack_used_ is what the operands of fld, fstp and call say, and   *)
(* the registers that hold numbers are the top ones, as many as used_.     *)
NoFault ==
  /\ h \in MachineState /\ ~h.fault
  /\ \A i \in F!Registers : h.fpu[i] \notin F!Empty <=> i < OnTop

(* frame_clobbered_ covers every slot written, callees' frames included:   *)
(* the machine and the translated program allocate no more than that.      *)
FrameCovered ==
  \A x \in Slots : x >= m.frameClobbered => h.frame[x] = Unwritten

(* clobbered_ covers every register used.  A caller keeps its own values   *)
(* in the others during a call of a function without a frame.              *)
ClobberCovered ==
  Cardinality({ i \in F!Registers : h.fpu[i] # Fresh }) <= m.clobbered

(* The frame and the registers together are the operand stack the compiler *)
(* sees: no value is lost, reordered or overwritten, wherever it lives.    *)
Operands ==
  LET spilled == m.frameUsed - m.locals
  IN  [j \in 1 .. Excess(m) |-> IF j <= spilled THEN h.frame[m.locals + j - 1]
                                ELSE h.fpu[Excess(m) - j]]

Results ==
  IF mode \in {"returned", "left"}
  THEN [j \in 1 .. m.output |-> h.fpu[m.output - j]] ELSE <<>>

Abstract == INSTANCE OperandStack WITH
  stack   <- Operands,
  locals  <- [x \in 1 .. m.locals |-> h.frame[x - 1]],
  scopes  <- brackets,
  phase   <- IF mode \in {"returned", "left", "aborted"} THEN mode ELSE "running",
  results <- Results

(* The function body behaves as on an operand stack of unlimited depth.    *)
Refinement == Abstract!Spec

=============================================================================
