-------------------------------- MODULE Linkage --------------------------------
(***************************************************************************)
(* Whole programs: functions are assembled one after the other, each from  *)
(* what its callees' descriptors say, then one is executed, by the         *)
(* interpreter (virtual_machine) and by the translated code (instance),    *)
(* step by step together.                                                  *)
(*                                                                         *)
(* The subject is the frames: where the caller's assembler puts a callee's *)
(* arguments, where the callee finds them, and that nobody disturbs the    *)
(* slots of another.  Of the registers only the number in use is kept:     *)
(* module SpillMachine shows that those in use are the top ones.           *)
(***************************************************************************)
EXTENDS Monitor, SequencesExt

CONSTANTS
  Bodies,        (* Function definitions: [arity, requests], the requests  *)
                 (* being those compiler.cpp makes for the text.           *)
  MaxFunctions,  (* Bound: functions of a program.                         *)
  StackBase,     (* instance::stack_.data(), in slots.                     *)
  Word           (* 2^32, in slots: sp_inc and sp_dec are translated to    *)
                 (* instructions on ecx, which clear the upper half of rcx. *)

(* What the compiler asks of the assembler for a statement's text.         *)
CompilerRequests ==
  [kind: {"alloca", "bra", "ket", "ret"}]
    \cup [kind: {"operate"}, effect: Effects]
    \cup [kind: {"load", "store"}, slot: Nat]
    \cup [kind: {"call"}, arity: Nat, output: Nat]

ASSUME BodiesAssumption ==
  \A body \in Bodies : body.arity \in Nat /\ body.requests \in Seq(CompilerRequests)

ASSUME AddressAssumption == StackBase \in Nat /\ Word \in Nat \ {0}

VARIABLES
  program,  (* functions_: [descriptor, code] of each function, in order.  *)
  code,     (* The code of the function being assembled.                   *)
  script,   (* What the compiler still has to request for it.              *)
  phase,    (* "assembling", "rejected", "running" or "done".              *)
  chain,    (* call_stack_ and frame_stack_: the active calls.             *)
  vm        (* The other registers of the interpreter and of instance.     *)

assemblerVars == <<m, brackets, mode, program, code, script>>

linkageVars == <<m, brackets, mode, program, code, script, phase, chain, vm>>

-----------------------------------------------------------------------------
(* The code the monitor records, as far as it is about frames.             *)

Fpu(consumed, produced) == [op |-> "fpu", consumed |-> consumed, produced |-> produced]
Access(op, slot)        == [op |-> op, slot |-> slot]
Move(op, to, n)         == [op |-> op, to |-> to, n |-> n]
Shift(op, n)            == [op |-> op, n |-> n]

(* The fld or fstp of adjust's spill code.                                 *)
SpillCode(s, consumed, clobbered) ==
  CASE Deficient(s, consumed) /\ ~Overfull(s, consumed, clobbered) ->
         LET n == Shortage(s, consumed) IN << Move("fld", s.frameUsed - n, n) >>
    [] Overfull(s, consumed, clobbered) /\ ~Deficient(s, consumed) ->
         LET n == Surplus(s, consumed, clobbered)
         IN  << Move("fstp", s.frameUsed + n, n) >>
    [] OTHER -> <<>>

MutantStackPointerCode(s, f) ==
  LET base == CallBase(s, f)
  IN  IF s.sp < base THEN << Shift("sp_inc", base - s.sp) >>
                     ELSE << Shift("sp_dec", s.sp - base) >>

(* adjust_stack_pointer                                                    *)
StackPointerCode(s, f) ==
  LET base == CallBase(s, f)
  IN  CASE s.sp < base -> << Shift("sp_inc", base - s.sp) >>
        [] base < s.sp -> << Shift("sp_dec", s.sp - base) >>
        [] OTHER -> <<>>

CallCode(s, i, f) ==
  SpillCode(s, 0, CalleeClobbers(f)) \o StackPointerCode(s, f)
    \o << [op |-> "call", function |-> i, climbing |-> f.climbing] >>

Emit(instructions) == code' = code \o instructions

-----------------------------------------------------------------------------
(* monitor::check(): the recorded code is verified once more from the      *)
(* start; a difference, even one more instruction, fails the assertion of  *)
(* assembler::leave.                                                       *)

Effect(i) ==
  CASE i.op = "fpu"   -> <<i.consumed, i.produced>>
    [] i.op = "load"  -> <<0, 1>>
    [] i.op = "store" -> <<1, 0>>

(* What verify makes of an instruction, when the functions assembled before *)
(* are those of the list: <<code it emits, counters after>>.               *)
Replay(functions, s, i) ==
  CASE i.op \in {"fpu", "load", "store"} ->
         << SpillCode(s, Effect(i)[1], Footprint(Effect(i))), ApplyEffect(s, Effect(i)) >>
    [] i.op = "alloca" -> << SpillCode(s, 1, 1), Allocated(s) >>
    [] i.op = "fld"    -> << <<>>, Reloaded(s, i.to, i.n) >>
    [] i.op = "fstp"   -> << <<>>, Spilled(s, i.to, i.n) >>
    [] i.op = "sp_inc" -> << <<>>, [s EXCEPT !.sp = @ + i.n] >>
    [] i.op = "sp_dec" -> << <<>>, [s EXCEPT !.sp = @ - i.n] >>
    [] i.op = "call"   ->
         LET f == functions[i.function].descriptor
         IN  << Front(CallCode(s, i.function, f)), Called(s, f) >>
    [] i.op = "bra"    -> << <<>>, s >>
    [] i.op = "ket"    -> << <<>>, Closed(s, i.n) >>
    [] i.op = "ret"    -> << SpillCode(s, i.n, i.n), Returned(s, i.n) >>

(* Verified in order: the code emitted anew and the counters at the end.   *)
Replayed(functions, arity, recorded) ==
  LET replayed[k \in 0 .. Len(recorded)] ==
        IF k = 0 THEN << <<>>, Entered(arity) >>
        ELSE LET before == replayed[k - 1]
                 r      == Replay(functions, before[2], recorded[k])
             IN  << before[1] \o r[1] \o << recorded[k] >>, r[2] >>
  IN  replayed[Len(recorded)]

-----------------------------------------------------------------------------
(* Assembly.                                                               *)

Assembling == phase = "assembling" /\ script # <<>>

Request == Head(script)

Requested(kind) == Assembling /\ Request.kind = kind

Proceed ==
  /\ script' = Tail(script)
  /\ UNCHANGED <<program, phase, chain, vm>>

(* assembler::enter and monitor::enter.                                    *)
Enter(body) ==
  /\ phase = "assembling" /\ script = <<>> /\ Len(program) < MaxFunctions
  /\ m' = Entered(body.arity) /\ brackets' = <<>> /\ mode' = "rvalue"
  /\ script' = body.requests /\ code' = <<>>
  /\ UNCHANGED <<program, phase, chain, vm>>

AssembleOperation ==
  LET e == Request.effect
  IN  /\ Requested("operate") /\ Operate(e) /\ Proceed
      /\ Emit(SpillCode(m, e[1], Footprint(e)) \o << Fpu(e[1], e[2]) >>)

(* fld of a local variable: local_variable_offset finds those in scope.    *)
AssembleLoad ==
  /\ Requested("load") /\ Request.slot < m.locals
  /\ Operate(<<0, 1>>) /\ Proceed
  /\ Emit(SpillCode(m, 0, 1) \o << Access("load", Request.slot) >>)

AssembleStore ==
  /\ Requested("store") /\ Request.slot < m.locals
  /\ Store /\ Proceed
  /\ Emit(SpillCode(m, 1, 1) \o << Access("store", Request.slot) >>)

AssembleAlloca ==
  /\ Requested("alloca") /\ Alloca /\ Proceed
  /\ Emit(SpillCode(m, 1, 1) \o << Access("alloca", m.locals) >>)

(* compile(entry_substitution) and assembler::call: the callee is one of   *)
(* the functions assembled before; its own name is not among them.         *)
Callable(i) ==
  /\ program[i].descriptor.arity = Request.arity
  /\ program[i].descriptor.output = Request.output

AssembleCall(i) ==
  /\ Requested("call") /\ Callable(i)
  /\ Call(program[i].descriptor) /\ Proceed
  /\ Emit(CallCode(m, i, program[i].descriptor))

AssembleBra ==
  /\ Requested("bra") /\ Bra /\ Proceed
  /\ Emit(<< Shift("bra", m.locals) >>)

AssembleKet ==
  /\ Requested("ket") /\ Ket /\ Proceed
  /\ Emit(<< Shift("ket", m.locals - Last(brackets)) >>)

AssembleRet ==
  /\ Requested("ret") /\ Ret /\ Proceed
  /\ Emit(SpillCode(m, Excess(m), Excess(m)) \o << Shift("ret", Excess(m)) >>)

(* The last ket and assembler::leave.                                      *)
AssembleLeave ==
  LET recorded == code \o << Shift("ket", m.locals - Last(brackets)) >>
  IN  /\ Requested("ket") /\ Leave
      /\ script' = Tail(script) /\ code' = <<>>
      /\ program' = Append(program, [descriptor |-> AsDescriptor', code |-> recorded])
      /\ UNCHANGED <<phase, chain, vm>>

(* The compiler returns false: no such callee.                             *)
Reject ==
  /\ Requested("call") /\ ~\E i \in DOMAIN program : Callable(i)
  /\ phase' = "rejected"
  /\ UNCHANGED <<assemblerVars, chain, vm>>

-----------------------------------------------------------------------------
(* Execution.  A call in progress: the function, its next instruction, its *)
(* frame_pointer_, and translator::stack_pointer_ as it was when that      *)
(* instruction was translated; `held` registers are the caller's.          *)

Descr(i) == program[i].descriptor

Top == Last(chain)

Running == phase = "running" /\ ~vm.fault

AtEnd == Top.pc > Len(program[Top.function].code)

Instr == program[Top.function].code[Top.pc]

Executing(ops) == Running /\ ~AtEnd /\ Instr.op \in ops

(* stack_ has the frame_clobbered_ of the function called from outside.    *)
StackSize == Descr(chain[1].function).frameClobbered

Addressable(slot) == slot < StackSize - Top.fp

(* check_head_tail, the registers in use being the top `regs` ones.        *)
HeadTail(f, n, regs) ==
  /\ n <= f.clobbered /\ n <= regs
  /\ IF Frameless(f) THEN f.clobbered - n <= DEPTH - regs ELSE regs = n

(* What interpret_function asserts before it executes f.                   *)
Enterable(f, size, sp, used, regs) ==
  /\ HeadTail(f, 0, regs)
  /\ sp + f.frameClobbered <= size
  /\ sp <= used /\ used - sp = f.arity

(* The next instruction; an assertion that fails stops the machine.        *)
Continue(accepted, machine) ==
  /\ vm' = [machine EXCEPT !.fault = ~accepted]
  /\ chain' = [chain EXCEPT ![Len(chain)].pc = @ + 1]
  /\ UNCHANGED <<assemblerVars, phase>>

Start(i) ==
  /\ phase = "assembling" /\ script = <<>> /\ Len(program) = MaxFunctions
  /\ phase' = "running"
  /\ chain' = << [function |-> i, pc |-> 1, fp |-> 0, tsp |-> 0, held |-> 0] >>
  /\ vm' = [sp |-> 0, used |-> Descr(i).arity, regs |-> 0, output |-> 0,
            ecx |-> StackBase, stale |-> FALSE,
            fault |-> ~Enterable(Descr(i), Descr(i).frameClobbered, 0, Descr(i).arity, 0)]
  /\ UNCHANGED assemblerVars

ExecuteFpu ==
  LET left == vm.regs - Instr.consumed
  IN  /\ Executing({"fpu"})
      /\ Continue(left >= 0 /\ left + Instr.produced <= DEPTH,
                  [vm EXCEPT !.regs = left + Instr.produced])

ExecuteLoad ==
  /\ Executing({"load"})
  /\ Continue(Addressable(Instr.slot) /\ vm.regs < DEPTH, [vm EXCEPT !.regs = @ + 1])

ExecuteStore ==
  /\ Executing({"store", "alloca"})
  /\ Continue(Addressable(Instr.slot) /\ vm.regs > 0,
              [vm EXCEPT !.regs = @ - 1,
                         !.used = IF Instr.op = "alloca" THEN @ + 1 ELSE @])

(* Binary fld and fstp: the spill code.                                    *)
ExecuteReload ==
  /\ Executing({"fld"})
  /\ Continue(/\ Instr.to + Instr.n = vm.used - Top.fp
              /\ Addressable(Instr.to + Instr.n - 1)
              /\ vm.regs + Instr.n <= DEPTH,
              [vm EXCEPT !.regs = @ + Instr.n, !.used = Top.fp + Instr.to])

ExecuteSpill ==
  /\ Executing({"fstp"})
  /\ Continue(/\ Instr.to - Instr.n = vm.used - Top.fp
              /\ Addressable(Instr.to - 1)
              /\ vm.regs >= Instr.n,
              [vm EXCEPT !.regs = @ - Instr.n, !.used = Top.fp + Instr.to])

(* sp_inc and sp_dec; translated, an add to or a sub from ecx.             *)
ExecuteShift ==
  LET n == IF Instr.op = "sp_inc" THEN Instr.n ELSE - Instr.n
  IN  /\ Executing({"sp_inc", "sp_dec"})
      /\ vm' = [vm EXCEPT !.sp = @ + n, !.ecx = (@ + n) % Word,
                          !.fault = ~(Top.fp <= vm.sp + n /\ vm.sp + n <= vm.used)]
      /\ chain' = [chain EXCEPT ![Len(chain)].pc = @ + 1, ![Len(chain)].tsp = @ + n]
      /\ UNCHANGED <<assemblerVars, phase>>

MutantAfterCall(caller, climbing) == [caller EXCEPT !.pc = @ + 1]

(* The caller when the callee returns: translate(call) counts on the       *)
(* callee to leave ecx `climbing` slots further.                           *)
AfterCall(caller, climbing) ==
  [caller EXCEPT !.pc = @ + 1, !.tsp = @ + climbing]

(* interpret_function(callee); translated, a near call.                    *)
ExecuteCall ==
  LET f == Descr(Instr.function)
  IN  /\ Executing({"call"})
      /\ chain' = Append(Front(chain), AfterCall(Top, Instr.climbing))
                    \o << [function |-> Instr.function, pc |-> 1, fp |-> vm.sp,
                           tsp |-> 0, held |-> vm.regs] >>
      /\ vm' = [vm EXCEPT !.output = 0,
                          !.fault = ~Enterable(f, StackSize, vm.sp, vm.used, vm.regs)]
      /\ UNCHANGED <<assemblerVars, phase>>

(* bra and ket check the registers against output_.  A failure of that     *)
(* assertion is kept apart: a build without assertions goes on.            *)
ExecuteBracket ==
  /\ Executing({"bra", "ket"})
  /\ Continue(IF Instr.op = "bra" THEN vm.used - Top.fp = Instr.n
              ELSE Instr.n <= vm.used - Top.fp,
              [vm EXCEPT !.used = IF Instr.op = "bra" THEN @ ELSE @ - Instr.n,
                         !.stale = @ \/ ~HeadTail(Descr(Top.function), vm.output, vm.regs)])

ExecuteRet ==
  /\ Executing({"ret"})
  /\ Continue(HeadTail(Descr(Top.function), Instr.n, vm.regs),
              [vm EXCEPT !.output = Instr.n])

(* The end of interpret_function.                                          *)
Return ==
  LET f == Descr(Top.function)
  IN  /\ Running /\ AtEnd
      /\ chain' = Front(chain)
      /\ vm' = [vm EXCEPT
                  !.used = Top.fp,
                  !.fault = ~ /\ vm.output = f.output
                              /\ vm.used - Top.fp = f.arity
                              /\ vm.sp - Top.fp = f.climbing
                              /\ HeadTail(f, f.output, vm.regs)
                              /\ Len(chain) = 1 => vm.regs = f.output]
      /\ phase' = IF Len(chain) = 1 THEN "done" ELSE "running"
      /\ UNCHANGED assemblerVars

Execute ==
  \/ ExecuteFpu \/ ExecuteLoad \/ ExecuteStore \/ ExecuteReload \/ ExecuteSpill
  \/ ExecuteShift \/ ExecuteCall \/ ExecuteBracket \/ ExecuteRet \/ Return

LinkageInit ==
  /\ m = Entered(0) /\ brackets = <<>> /\ mode = "left"
  /\ program = <<>> /\ code = <<>> /\ script = <<>> /\ chain = <<>>
  /\ phase = "assembling"
  /\ vm = [sp |-> 0, used |-> 0, regs |-> 0, output |-> 0, ecx |-> StackBase,
           stale |-> FALSE, fault |-> FALSE]

LinkageNext ==
  \/ \E body \in Bodies : Enter(body)
  \/ AssembleOperation \/ AssembleLoad \/ AssembleStore \/ AssembleAlloca
  \/ \E i \in DOMAIN program : AssembleCall(i) \/ Start(i)
  \/ AssembleBra \/ AssembleKet \/ AssembleRet \/ AssembleLeave \/ Reject
  \/ Execute

(* The machine executes until the function is over: a loop in one thread.  *)
LinkageSpec == LinkageInit /\ [][LinkageNext]_linkageVars /\ WF_linkageVars(Execute)

-----------------------------------------------------------------------------
(* No assertion of the interpreter fails and no instruction is refused: at *)
(* every call the arguments are where the callee's frame begins, the frame *)
(* fits stack_, the registers the callee uses are free, and at every       *)
(* return the stack pointer has climbed as far as the caller was told.     *)
MachineAccepts == ~vm.fault

(* Interpreter and translated code address the same slots: ecx has moved   *)
(* with the stack pointer, and every displacement accounts for that.       *)
AddressesAgree ==
  phase = "running" => vm.ecx - Top.tsp = StackBase + Top.fp

(* A callee's frame lies within the part of its caller's frame that the    *)
(* caller's frame_clobbered_ declares, and no call uses slots beyond its   *)
(* own frame.                                                              *)
FramesNested ==
  \A i \in DOMAIN chain :
    LET end(j) == chain[j].fp + Descr(chain[j].function).frameClobbered
    IN  /\ i > 1 => end(i) <= end(i - 1) /\ chain[i - 1].fp <= chain[i].fp
        /\ i = Len(chain) => vm.used <= end(i)

(* A function neither consumes a register of its caller nor uses more      *)
(* registers than its descriptor says.                                     *)
Consumed == CASE Instr.op = "fpu" -> Instr.consumed
              [] Instr.op \in {"store", "alloca"} -> 1
              [] Instr.op \in {"fstp", "ret"} -> Instr.n
              [] OTHER -> 0

RegistersAreOwn ==
  Running /\ ~AtEnd =>
    LET own == vm.regs - Top.held
    IN  Consumed <= own /\ own <= Descr(Top.function).clobbered

(* monitor::check() accepts every function: verifying its code once more   *)
(* emits the same code and arrives at the same descriptor.                 *)
CheckSucceeds ==
  \A i \in DOMAIN program :
    LET r == Replayed(program, Descr(i).arity, program[i].code)
        s == r[2]
    IN  /\ r[1] = program[i].code
        /\ Descr(i) = [arity |-> s.arity, output |-> s.output,
                       clobbered |-> s.clobbered,
                       frameClobbered |-> s.frameClobbered, climbing |-> s.climbing]

(* Every execution ends: there is no recursion.                            *)
Terminates == phase = "running" ~> phase = "done"

(* The assertions of the bra and ket instructions on the registers.        *)
BracketAssertions == ~vm.stale

=============================================================================
