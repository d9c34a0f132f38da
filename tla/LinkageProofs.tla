----------------------------- MODULE LinkageProofs -----------------------------
(***************************************************************************)
(* What module Linkage states of whole programs, proved for every number of *)
(* registers, all function definitions the compiler can make requests for, *)
(* programs of any length and any depth of calls.                          *)
(***************************************************************************)
EXTENDS Linkage, MonitorProofs, WellFoundedInduction

(* The instructions the monitor records, as far as Linkage looks at them.  *)
Instructions ==
  [op: {"fpu"}, consumed: Nat, produced: Nat]
    \cup [op: {"load", "store", "alloca"}, slot: Nat]
    \cup [op: {"fld", "fstp"}, to: Nat, n: Nat]
    \cup [op: {"sp_inc", "sp_dec", "bra", "ket", "ret"}, n: Nat]
    \cup [op: {"call"}, function: Nat, climbing: Nat]

(* What the counters s say is covered by what the descriptor d declares.   *)
(* After ret the results are on the registers, though no longer in `used`. *)
Fits(d, s) ==
  /\ s \in MonitorState
  /\ s.used + s.output <= d.clobbered /\ s.frameUsed <= d.frameClobbered

(* These are the counters t of registers, frame, stack pointer and results.*)
Leaves(s, t, used, frameUsed, sp, output) ==
  t.used = used /\ t.frameUsed = frameUsed /\ t.sp = sp /\ t.output = output

(* In a function with descriptor d whose callees are in the list p, the     *)
(* instruction i finds what it needs when the counters are s, and makes    *)
(* them t.                                                                 *)
Executable(p, d, s, i, t) ==
  /\ i.op = "fpu" =>
         /\ i.consumed <= s.used
         /\ Leaves(s, t, (s.used - i.consumed) + i.produced, s.frameUsed, s.sp, s.output)
  /\ i.op = "load" =>
         /\ i.slot < s.frameUsed
         /\ Leaves(s, t, s.used + 1, s.frameUsed, s.sp, s.output)
  /\ i.op = "store" =>
         /\ i.slot < s.frameUsed /\ 1 <= s.used
         /\ Leaves(s, t, s.used - 1, s.frameUsed, s.sp, s.output)
  /\ i.op = "alloca" =>
         /\ i.slot = s.frameUsed /\ 1 <= s.used
         /\ Leaves(s, t, s.used - 1, s.frameUsed + 1, s.sp, s.output)
  /\ i.op = "fld" =>
         /\ i.to + i.n = s.frameUsed /\ 1 <= i.n
         /\ Leaves(s, t, s.used + i.n, i.to, s.sp, s.output)
  /\ i.op = "fstp" =>
         /\ i.to = s.frameUsed + i.n /\ 1 <= i.n /\ i.n <= s.used
         /\ Leaves(s, t, s.used - i.n, i.to, s.sp, s.output)
  /\ i.op = "sp_inc" =>
         /\ s.sp + i.n <= s.frameUsed
         /\ Leaves(s, t, s.used, s.frameUsed, s.sp + i.n, s.output)
  /\ i.op = "sp_dec" =>
         /\ i.n <= s.sp /\ s.sp - i.n <= s.frameUsed
         /\ Leaves(s, t, s.used, s.frameUsed, s.sp - i.n, s.output)
  /\ i.op = "call" =>
         LET f == p[i.function].descriptor
         IN  /\ i.function \in DOMAIN p /\ i.climbing = f.climbing
             /\ s.output = 0 /\ s.frameUsed = s.sp + f.arity
             /\ s.sp + f.frameClobbered <= d.frameClobbered
             /\ s.used + CalleeClobbers(f) <= d.clobbered
             /\ Leaves(s, t, s.used + f.output, s.sp, s.sp + f.climbing, 0)
  /\ i.op = "bra" =>
         i.n = s.frameUsed /\ Leaves(s, t, s.used, s.frameUsed, s.sp, s.output)
  /\ i.op = "ket" =>
         /\ i.n <= s.frameUsed
         /\ Leaves(s, t, s.used, s.frameUsed - i.n, s.sp, s.output)
  /\ i.op = "ret" =>
         /\ s.output = 0 /\ i.n = s.used
         /\ Leaves(s, t, 0, s.frameUsed, s.sp, i.n)

(* Verified at s, the instruction i is recorded alone and makes t of s.    *)
Stepped(p, d, s, i, t) ==
  /\ i \in Instructions /\ Fits(d, t)
  /\ Executable(p, d, s, i, t)
  /\ Replay(p, s, i) = << <<>>, t >>

(* u has the counters before each instruction of c, and those at its end.  *)
Traced(p, d, c, u) ==
  /\ c \in Seq(Instructions) /\ u \in Seq(MonitorState) /\ Len(u) = Len(c) + 1
  /\ u[1] = Entered(d.arity) /\ \A k \in 1 .. Len(u) : Fits(d, u[k])
  /\ \A k \in 1 .. Len(c) : Stepped(p, d, u[k], c[k], u[k + 1])

(* The code c of a function takes its counters to s.                       *)
Reaches(p, d, c, s) == \E u : Traced(p, d, c, u) /\ u[Len(u)] = s

(* What function_ declares when the counters are s.                        *)
Declared(s) ==
  [arity |-> s.arity, output |-> s.output, clobbered |-> s.clobbered,
   frameClobbered |-> s.frameClobbered, climbing |-> s.climbing]

(* The descriptor d is what is left of the counters at the end.            *)
Finished(d, s) ==
  d = Declared(s) /\ s.used = 0 /\ s.frameUsed = s.arity /\ s.sp = s.climbing

(* The counters u are those of the whole code of the function f.           *)
FunctionTraced(p, f, u) ==
  Traced(p, f.descriptor, f.code, u) /\ Finished(f.descriptor, u[Len(u)])

(* The functions of a program may be called, and their code can be         *)
(* executed.                                                               *)
Linked(p) ==
  /\ p \in Seq([descriptor: Descriptor, code: Seq(Instructions)])
  /\ \A i \in DOMAIN p : IsDescriptor(p[i].descriptor) /\ \E u : FunctionTraced(p, p[i], u)

(* The function being assembled.                                           *)
InProgress ==
  mode # "left" =>
    /\ Inductive
    /\ Reaches(program, Declared(m), code, m)
    /\ IF mode = "returned" THEN m.climbing = m.sp ELSE m.output = 0

(* The records of chain.                                                   *)
Calls == [function: Nat, pc: Nat, fp: Nat, tsp: Nat, held: Nat]

(* What vm is as long as no assertion fails.                               *)
Machines == [sp: Nat, used: Nat, regs: Nat, output: Nat, ecx: Int,
             stale: BOOLEAN, fault: {FALSE}]

(* The call c has got to where its function's counters are s, and has the  *)
(* registers and, in a stack of the given size, the frame its descriptor   *)
(* asks for.                                                               *)
Active(p, size, c, s) ==
  LET f == p[c.function]
  IN  /\ c.function \in DOMAIN p
      /\ \E u : FunctionTraced(p, f, u) /\ c.pc \in 1 .. Len(u) /\ s = u[c.pc]
      /\ c.tsp = s.sp
      /\ c.held + CalleeClobbers(f.descriptor) <= DEPTH
      /\ c.fp + f.descriptor.frameClobbered <= size

(* The registers of the machine are what the counters say.                 *)
Agrees(c, s, machine) ==
  /\ machine.regs = c.held + (s.used + s.output)
  /\ machine.used = c.fp + s.frameUsed
  /\ machine.sp = c.fp + s.sp
  /\ s.output > 0 => machine.output = s.output

(* The call c waits for the call e: the counters s are those after e.      *)
Suspended(p, c, s, e) ==
  LET f == p[e.function].descriptor
  IN  /\ e.fp = c.fp + s.frameUsed
      /\ s.sp = s.frameUsed + f.climbing
      /\ e.held + f.output = c.held + s.used
      /\ s.output = 0
      /\ e.fp + f.frameClobbered <= c.fp + p[c.function].descriptor.frameClobbered

(* The size of the stack of the outermost call.                            *)
Size(p, ch) == p[ch[1].function].descriptor.frameClobbered

(* The calls ch are in progress, the last of them on the machine.          *)
CallsNested(p, ch, machine) ==
  /\ ch \in Seq(Calls) /\ ch # <<>> /\ ch[1].fp = 0 /\ ch[1].held = 0
  /\ machine \in Machines
  /\ \A i \in DOMAIN ch :
       \E s : /\ Active(p, Size(p, ch), ch[i], s)
              /\ IF i = Len(ch) THEN Agrees(ch[i], s, machine)
                                ELSE Suspended(p, ch[i], s, ch[i + 1])

(* stack_ lies where ecx can address it.                                   *)
StackIsLow == \A i \in DOMAIN program : StackBase + Descr(i).frameClobbered < Word

(* The inductive invariant: the counters the monitor had at an instruction *)
(* when it was assembled are those the machine has when it executes it.    *)
LinkageInductive ==
  /\ Linked(program) /\ InProgress
  /\ script \in Seq(CompilerRequests)
  /\ ~vm.fault
  /\ IF phase = "running" THEN CallsNested(program, chain, vm) ELSE chain = <<>>

(* ecx points to the slot that the stack pointer names.                    *)
Addressing ==
  phase = "running" /\ StackIsLow => vm.ecx = StackBase + vm.sp

-----------------------------------------------------------------------------
(* Code that grows.                                                        *)

(* What a list holds when one element is added.                            *)
LEMMA OneMore ==
  ASSUME NEW S, NEW s \in Seq(S), NEW e \in S
  PROVE  /\ s \o <<e>> \in Seq(S) /\ Len(s \o <<e>>) = Len(s) + 1
         /\ \A k \in 1 .. Len(s) : (s \o <<e>>)[k] = s[k]
         /\ (s \o <<e>>)[Len(s) + 1] = e
<1>1. s \o <<e>> = Append(s, e)
  BY AppendIsConcat
<1> QED BY <1>1, AppendProperties

(* Code is put together from parts.                                        *)
LEMMA CodeAssociative ==
  ASSUME NEW a \in Seq(Instructions), NEW b \in Seq(Instructions), NEW e \in Seq(Instructions)
  PROVE  (a \o b) \o e = a \o (b \o e)
  BY ConcatAssociative

(* The same for all the parts that follow a.                               *)
LEMMA CodeFollowing ==
  ASSUME NEW a \in Seq(Instructions)
  PROVE  \A b, e \in Seq(Instructions) : (a \o b) \o e = a \o (b \o e)
  BY CodeAssociative

(* One more instruction that can be executed.                              *)
LEMMA ReachesNext ==
  ASSUME NEW p, NEW d, NEW c, NEW s, Reaches(p, d, c, s), NEW i, NEW t, Stepped(p, d, s, i, t)
  PROVE  Reaches(p, d, c \o <<i>>, t) /\ c \o <<i>> \in Seq(Instructions)
<1>1. PICK u : Traced(p, d, c, u) /\ u[Len(u)] = s
  BY DEF Reaches
<1> DEFINE n == Len(c)
           v == u \o <<t>>
           e == c \o <<i>>
<1>2. /\ c \in Seq(Instructions) /\ u \in Seq(MonitorState) /\ n \in Nat /\ Len(u) = n + 1
      /\ i \in Instructions /\ t \in MonitorState
  BY <1>1 DEF Traced, Stepped, Fits
<1>3. /\ e \in Seq(Instructions) /\ Len(e) = n + 1
      /\ \A k \in 1 .. n : e[k] = c[k]
      /\ e[n + 1] = i
  BY <1>2, OneMore
<1>4. /\ v \in Seq(MonitorState) /\ Len(v) = n + 2
      /\ \A k \in 1 .. n + 1 : v[k] = u[k]
      /\ v[n + 2] = t
  <2>1. /\ v \in Seq(MonitorState) /\ Len(v) = Len(u) + 1
        /\ \A k \in 1 .. Len(u) : v[k] = u[k]
        /\ v[Len(u) + 1] = t
    BY <1>2, OneMore
  <2> HIDE DEF v
  <2> QED BY <2>1, <1>2
<1> HIDE DEF v, e, n
<1>5. /\ u[1] = Entered(d.arity) /\ u[n + 1] = s /\ \A k \in 1 .. n + 1 : Fits(d, u[k])
      /\ \A k \in 1 .. n : Stepped(p, d, u[k], c[k], u[k + 1])
  BY <1>1, <1>2 DEF Traced, n
<1>6. v[1] = Entered(d.arity) /\ \A k \in 1 .. Len(v) : Fits(d, v[k])
  <2>1. \A k \in 1 .. Len(v) : k \in 1 .. n + 1 \/ k = n + 2
    BY <1>2, <1>4
  <2>2. 1 \in 1 .. n + 1 /\ Fits(d, t)
    BY <1>2 DEF Stepped
  <2> QED BY <1>4, <1>5, <2>1, <2>2
<1>7. ASSUME NEW k \in 1 .. Len(e) PROVE Stepped(p, d, v[k], e[k], v[k + 1])
  <2>1. CASE k \in 1 .. n
    <3>1. k \in 1 .. n + 1 /\ k + 1 \in 1 .. n + 1
      BY <1>2, <2>1
    <3> QED BY <1>3, <1>4, <1>5, <2>1, <3>1
  <2>2. CASE k = n + 1
    <3>1. n + 1 \in 1 .. n + 1 /\ k + 1 = n + 2
      BY <1>2, <2>2
    <3> QED BY <1>3, <1>4, <1>5, <2>2, <3>1
  <2> QED BY <1>2, <1>3, <2>1, <2>2
<1>8. Traced(p, d, e, v) /\ v[Len(v)] = t
  <2>1. Len(v) = Len(e) + 1
    BY <1>2, <1>3, <1>4
  <2> QED BY <1>3, <1>4, <1>6, <1>7, <2>1 DEF Traced
<1> QED BY <1>3, <1>8 DEF Reaches, e

(* d2 declares at least what d declares.                                   *)
Covers(d, d2) ==
  /\ d.arity = d2.arity /\ d.clobbered \in Nat /\ d2.clobbered \in Nat
  /\ d.frameClobbered \in Nat /\ d2.frameClobbered \in Nat
  /\ d.clobbered <= d2.clobbered /\ d.frameClobbered <= d2.frameClobbered

(* What is covered by less is covered by more.                             *)
LEMMA FitsCovered ==
  ASSUME NEW p, NEW d, NEW d2, Covers(d, d2), NEW s, Fits(d, s)
  PROVE  Fits(d2, s)
<1>1. s.used \in Nat /\ s.output \in Nat /\ s.frameUsed \in Nat
  BY DEF Fits, MonitorState
<1> QED BY <1>1 DEF Fits, Covers

(* A function that declares more can still execute its code.               *)
LEMMA StepCovered ==
  ASSUME NEW p, NEW d, NEW d2, Covers(d, d2), NEW s, Fits(d, s), NEW i, NEW t,
         Stepped(p, d, s, i, t),
         \A j \in DOMAIN p : IsDescriptor(p[j].descriptor)
  PROVE  Stepped(p, d2, s, i, t) /\ Fits(d2, s)
<1>1. Fits(d2, s) /\ Fits(d2, t)
  BY FitsCovered DEF Stepped
<1>2. Executable(p, d2, s, i, t)
  <2>1. CASE i.op = "call"
    <3> DEFINE f == p[i.function].descriptor
    <3>1. /\ i.function \in DOMAIN p /\ i.climbing = f.climbing
          /\ s.output = 0 /\ s.frameUsed = s.sp + f.arity
          /\ s.sp + f.frameClobbered <= d.frameClobbered
          /\ s.used + CalleeClobbers(f) <= d.clobbered
          /\ Leaves(s, t, s.used + f.output, s.sp, s.sp + f.climbing, 0)
      BY <2>1 DEF Stepped, Executable
    <3>2. CalleeClobbers(f) \in Nat /\ f.frameClobbered \in Nat
      BY <3>1, CalleeFacts
    <3>3. s.sp \in Nat /\ s.used \in Nat
      BY DEF Fits, MonitorState
    <3> HIDE DEF f
    <3>4. /\ s.sp + f.frameClobbered <= d2.frameClobbered
          /\ s.used + CalleeClobbers(f) <= d2.clobbered
      BY <3>1, <3>2, <3>3 DEF Covers
    <3> QED BY <2>1, <3>1, <3>4 DEF Executable, f
  <2>2. CASE i.op # "call"
    BY <2>2 DEF Stepped, Executable
  <2> QED BY <2>1, <2>2
<1> QED BY <1>1, <1>2 DEF Stepped

(* Likewise for all the code of a function.                                *)
LEMMA ReachesCovered ==
  ASSUME NEW p, NEW d, NEW d2, Covers(d, d2), NEW c, NEW s, Reaches(p, d, c, s),
         \A j \in DOMAIN p : IsDescriptor(p[j].descriptor)
  PROVE  Reaches(p, d2, c, s)
<1>1. PICK u : Traced(p, d, c, u) /\ u[Len(u)] = s
  BY DEF Reaches
<1>2. /\ c \in Seq(Instructions) /\ u \in Seq(MonitorState) /\ Len(u) = Len(c) + 1
      /\ u[1] = Entered(d.arity) /\ \A k \in 1 .. Len(u) : Fits(d, u[k])
      /\ \A k \in 1 .. Len(c) : Stepped(p, d, u[k], c[k], u[k + 1])
      /\ d.arity = d2.arity
  BY <1>1 DEF Traced, Covers
<1>3. \A k \in 1 .. Len(u) : Fits(d2, u[k])
  BY <1>2, FitsCovered
<1>4. ASSUME NEW k \in 1 .. Len(c) PROVE Stepped(p, d2, u[k], c[k], u[k + 1])
  <2>1. k \in 1 .. Len(u)
    BY <1>2
  <2> QED BY <1>2, <2>1, StepCovered
<1>5. Traced(p, d2, c, u)
  BY <1>2, <1>3, <1>4 DEF Traced
<1> QED BY <1>1, <1>5 DEF Reaches

-----------------------------------------------------------------------------
(* Requests of the compiler.                                               *)

(* Once the registers are balanced no spill code comes before the          *)
(* instruction, and its counters are those that adjust settles.            *)
LEMMA BalancedStays ==
  ASSUME NEW b, NEW c, NEW k, ~Deficient(b, c), ~Overfull(b, c, k), NEW q
  PROVE  SpillCode(b, c, k) = <<>> /\ Balanced(b, c, k) = b
         /\ Adjusted(b, c, q, k) = Settled(b, c, q, k)
  BY DEF SpillCode, Balanced, Adjusted

(* The spill code of adjust can be executed, and is recorded as it stands. *)
LEMMA SpillReaches ==
  ASSUME NEW p, NEW d, NEW c, NEW s, Reaches(p, d, c, s), Counted(s), s.output = 0,
         NEW consumed, NEW produced, NEW clobbered,
         Servable(s, consumed, produced, clobbered),
         Fits(d, Balanced(s, consumed, clobbered))
  PROVE  /\ Reaches(p, d, c \o SpillCode(s, consumed, clobbered),
                    Balanced(s, consumed, clobbered))
         /\ c \in Seq(Instructions) /\ SpillCode(s, consumed, clobbered) \in Seq(Instructions)
         /\ c \o SpillCode(s, consumed, clobbered) \in Seq(Instructions)
<1> DEFINE b == Balanced(s, consumed, clobbered)
           e == SpillCode(s, consumed, clobbered)
<1>1. c \in Seq(Instructions)
  BY DEF Reaches, Traced
<1>2. ~(Deficient(s, consumed) /\ Overfull(s, consumed, clobbered))
  BY OneShortage
<1>3. CASE Deficient(s, consumed)
  <2> DEFINE n == Shortage(s, consumed)
             i == Move("fld", s.frameUsed - n, n)
  <2>1. /\ b = Reloaded(s, s.frameUsed - n, n) /\ e = <<i>>
    BY <1>2, <1>3 DEF Balanced, SpillCode
  <2>2. /\ Counted(b) /\ SameScope(s, b) /\ b.used = consumed /\ b.frameUsed = s.frameUsed - n
        /\ n \in Nat /\ n <= s.frameUsed - s.locals
    BY <1>3, <2>1, ReloadedFields
  <2>3. /\ s.frameUsed \in Nat /\ s.locals \in Nat /\ s.used \in Nat /\ consumed \in Nat
    BY CountedTyped DEF Servable
  <2>4. /\ s.frameUsed - n \in Nat /\ (s.frameUsed - n) + n = s.frameUsed /\ 1 <= n
        /\ s.used + n = consumed
    BY <1>3, <2>2, <2>3 DEF Deficient, Shortage
  <2> HIDE DEF n, b, e
  <2>5. i.op = "fld" /\ i.to = s.frameUsed - n /\ i.n = n /\ i \in Instructions
    BY <2>2, <2>4 DEF Move, Instructions
  <2> HIDE DEF i
  <2>6. Executable(p, d, s, i, b)
    BY <2>2, <2>4, <2>5 DEF Executable, Leaves, SameScope
  <2>7. Replay(p, s, i) = << <<>>, b >>
    BY <2>1, <2>5 DEF Replay
  <2>8. Stepped(p, d, s, i, b)
    BY <2>5, <2>6, <2>7 DEF Stepped, b
  <2>9. Reaches(p, d, c \o <<i>>, b) /\ c \o <<i>> \in Seq(Instructions)
    BY <2>8, ReachesNext
  <2>10. <<i>> \in Seq(Instructions)
    BY <2>5
  <2> QED BY <1>1, <2>1, <2>9, <2>10 DEF b, e
<1>4. CASE Overfull(s, consumed, clobbered)
  <2> DEFINE n == Surplus(s, consumed, clobbered)
             i == Move("fstp", s.frameUsed + n, n)
  <2>1. /\ b = Spilled(s, s.frameUsed + n, n) /\ e = <<i>>
    BY <1>2, <1>4 DEF Balanced, SpillCode
  <2>2. /\ Counted(b) /\ SameScope(s, b) /\ b.used = s.used - n /\ b.frameUsed = s.frameUsed + n
        /\ n \in Nat /\ n <= s.used - consumed
    BY <1>4, <2>1, SpilledFields
  <2>3. /\ s.frameUsed \in Nat /\ s.used \in Nat /\ consumed \in Nat /\ clobbered \in Nat
        /\ DEPTH \in Nat
    BY CountedTyped, DepthAssumption DEF Servable
  <2>4. s.frameUsed + n \in Nat /\ 1 <= n /\ n <= s.used
    BY <1>4, <2>2, <2>3 DEF Overfull, Surplus
  <2> HIDE DEF n, b, e
  <2>5. i.op = "fstp" /\ i.to = s.frameUsed + n /\ i.n = n /\ i \in Instructions
    BY <2>2, <2>4 DEF Move, Instructions
  <2> HIDE DEF i
  <2>6. Executable(p, d, s, i, b)
    BY <2>2, <2>4, <2>5 DEF Executable, Leaves, SameScope
  <2>7. Replay(p, s, i) = << <<>>, b >>
    BY <2>1, <2>5 DEF Replay
  <2>8. Stepped(p, d, s, i, b)
    BY <2>5, <2>6, <2>7 DEF Stepped, b
  <2>9. Reaches(p, d, c \o <<i>>, b) /\ c \o <<i>> \in Seq(Instructions)
    BY <2>8, ReachesNext
  <2>10. <<i>> \in Seq(Instructions)
    BY <2>5
  <2> QED BY <1>1, <2>1, <2>9, <2>10 DEF b, e
<1>5. CASE ~Deficient(s, consumed) /\ ~Overfull(s, consumed, clobbered)
  <2>1. b = s /\ e = <<>>
    BY <1>5 DEF Balanced, SpillCode
  <2>2. c \o <<>> = c /\ <<>> \in Seq(Instructions)
    BY <1>1
  <2> HIDE DEF b, e
  <2> QED BY <1>1, <2>1, <2>2 DEF b, e
<1> QED BY <1>3, <1>4, <1>5

(* A request: the spill code, then the instruction.                        *)
LEMMA RequestReaches ==
  ASSUME NEW p, NEW d, NEW c, NEW s, Reaches(p, d, c, s), Counted(s), s.output = 0,
         NEW consumed, NEW produced, NEW clobbered,
         Servable(s, consumed, produced, clobbered),
         Fits(d, Balanced(s, consumed, clobbered)), NEW i, NEW t,
         Stepped(p, d, Balanced(s, consumed, clobbered), i, t)
  PROVE  Reaches(p, d, c \o (SpillCode(s, consumed, clobbered) \o <<i>>), t)
<1> DEFINE e == SpillCode(s, consumed, clobbered)
           b == Balanced(s, consumed, clobbered)
<1>1. /\ Reaches(p, d, c \o e, b) /\ c \in Seq(Instructions) /\ e \in Seq(Instructions)
  BY SpillReaches
<1>2. i \in Instructions
  BY DEF Stepped
<1> HIDE DEF e, b
<1>3. Reaches(p, d, (c \o e) \o <<i>>, t)
  BY <1>1, ReachesNext DEF b
<1>4. <<i>> \in Seq(Instructions)
  BY <1>2
<1>5. (c \o e) \o <<i>> = c \o (e \o <<i>>)
  BY <1>1, <1>4, CodeAssociative
<1> QED BY <1>3, <1>5 DEF e

(* A whole adjust, compared with the counters after its spill code.        *)
LEMMA AdjustedCounters ==
  ASSUME NEW s, Counted(s), NEW consumed, NEW produced, NEW clobbered,
         Servable(s, consumed, produced, clobbered)
  PROVE  LET b == Balanced(s, consumed, clobbered)
             t == Adjusted(s, consumed, produced, clobbered)
         IN  /\ Counted(b) /\ SameScope(s, b) /\ Counted(t) /\ SameScope(s, t)
             /\ consumed <= b.used /\ b.used \in Nat
             /\ t.used = (b.used - consumed) + produced /\ t.frameUsed = b.frameUsed
             /\ s.clobbered <= b.clobbered /\ b.clobbered <= t.clobbered
             /\ s.frameClobbered <= b.frameClobbered /\ b.frameClobbered <= t.frameClobbered
             /\ ~Deficient(b, consumed) /\ ~Overfull(b, consumed, clobbered)
<1> DEFINE b == Balanced(s, consumed, clobbered)
           t == Adjusted(s, consumed, produced, clobbered)
<1>1. /\ Counted(b) /\ SameScope(s, b) /\ consumed <= b.used
      /\ (b.used - consumed) + clobbered <= DEPTH
      /\ s.frameClobbered <= b.frameClobbered
      /\ ~Deficient(b, consumed) /\ ~Overfull(b, consumed, clobbered)
  BY BalancedFields
<1>2. consumed \in Nat /\ produced \in Nat /\ clobbered \in Nat
      /\ consumed <= clobbered /\ produced <= clobbered
  BY DEF Servable
<1>3. s.clobbered <= b.clobbered
  BY <1>2, BalancedClobbers
<1>4. t = Settled(b, consumed, produced, clobbered)
  BY DEF Adjusted
<1>5. Counted(t) /\ SameScope(s, t)
  BY AdjustedFields
<1> HIDE DEF b, t
<1>6. /\ t.used = (b.used - consumed) + produced /\ t.frameUsed = b.frameUsed
      /\ b.clobbered <= t.clobbered /\ b.frameClobbered <= t.frameClobbered
  BY <1>1, <1>2, <1>4, SettledCounters
<1>7. b.used \in Nat
  BY <1>1, CountedTyped
<1> QED BY <1>1, <1>3, <1>5, <1>6, <1>7 DEF b, t

(* What the counters have come to is what function_ declares.              *)
LEMMA DeclaredFits ==
  ASSUME NEW s, Counted(s), s.output = 0
  PROVE  Fits(Declared(s), s)
<1>1. s.used \in Nat /\ s.used + 0 = s.used
  BY CountedTyped
<1> QED BY <1>1 DEF Fits, Declared, Counted

(* The counters s are covered by what t declares.                          *)
LEMMA DeclaredCovers ==
  ASSUME NEW s, NEW t, s \in MonitorState, t \in MonitorState, s.arity = t.arity,
         s.clobbered <= t.clobbered, s.frameClobbered <= t.frameClobbered
  PROVE  Covers(Declared(s), Declared(t))
  BY DEF Covers, Declared, MonitorState

(* An instruction on the registers.                                        *)
LEMMA EffectReaches ==
  ASSUME NEW p, \A j \in DOMAIN p : IsDescriptor(p[j].descriptor),
         NEW c, NEW s, Reaches(p, Declared(s), c, s), Counted(s), s.output = 0,
         NEW i \in Instructions, i.op \in {"fpu", "load", "store"},
         i.op # "fpu" => i.slot < s.locals,
         NEW e, e = Effect(i), Servable(s, e[1], e[2], Footprint(e))
  PROVE  LET t == ApplyEffect(s, e)
         IN  /\ Reaches(p, Declared(t), c \o (SpillCode(s, e[1], Footprint(e)) \o <<i>>), t)
             /\ Counted(t) /\ SameScope(s, t)
<1> DEFINE k == Footprint(e)
           b == Balanced(s, e[1], k)
           t == Adjusted(s, e[1], e[2], k)
           d == Declared(t)
<1>1. /\ Counted(b) /\ SameScope(s, b) /\ Counted(t) /\ SameScope(s, t)
      /\ e[1] <= b.used /\ b.used \in Nat
      /\ t.used = (b.used - e[1]) + e[2] /\ t.frameUsed = b.frameUsed
      /\ s.clobbered <= b.clobbered /\ b.clobbered <= t.clobbered
      /\ s.frameClobbered <= b.frameClobbered /\ b.frameClobbered <= t.frameClobbered
      /\ ~Deficient(b, e[1]) /\ ~Overfull(b, e[1], k)
  BY AdjustedCounters
<1>2. /\ SpillCode(b, e[1], k) = <<>> /\ Adjusted(b, e[1], e[2], k) = t
  <2>1. ~Deficient(b, e[1]) /\ ~Overfull(b, e[1], k)
    BY <1>1
  <2>2. t = Settled(b, e[1], e[2], k)
    BY DEF Adjusted
  <2> HIDE DEF b, t
  <2> QED BY <2>1, <2>2, BalancedStays
<1>3. t = ApplyEffect(s, e) /\ ApplyEffect(b, e) = Adjusted(b, e[1], e[2], k)
  BY DEF ApplyEffect
<1>4. Servable(s, e[1], e[2], k)
  OBVIOUS
<1>5. Effect(i) = <<e[1], e[2]>> /\ (i.op = "fpu" => e[1] = i.consumed /\ e[2] = i.produced)
      /\ (i.op = "load" => e[1] = 0 /\ e[2] = 1) /\ (i.op = "store" => e[1] = 1 /\ e[2] = 0)
  BY DEF Effect
<1>6. Replay(p, b, i) = << SpillCode(b, e[1], k), ApplyEffect(b, e) >>
  BY DEF Replay
<1> HIDE DEF k, b, t, d
<1>7. /\ s \in MonitorState /\ b \in MonitorState /\ t \in MonitorState
      /\ s.arity = t.arity /\ b.arity = t.arity /\ b.output = 0 /\ t.output = 0
      /\ b.locals = s.locals /\ b.sp = t.sp /\ b.output = t.output
  BY <1>1 DEF Counted, SameScope
<1>8. s.clobbered <= t.clobbered /\ s.frameClobbered <= t.frameClobbered
  BY <1>1, <1>7 DEF MonitorState
<1>9. Covers(Declared(s), d) /\ Covers(Declared(b), d)
  BY <1>1, <1>7, <1>8, DeclaredCovers DEF d
<1>10. Fits(d, t) /\ Fits(d, b)
  BY <1>1, <1>7, <1>9, DeclaredFits, FitsCovered DEF d
<1>11. Reaches(p, d, c, s)
  BY <1>9, ReachesCovered
<1>12. Executable(p, d, b, i, t)
  <2>1. b.locals <= b.frameUsed /\ b.locals \in Nat /\ b.frameUsed \in Nat
    BY <1>1, CountedTyped
  <2>2. i.op # "fpu" => i.slot < b.frameUsed
    <3>1. i.op # "fpu" => i.slot \in Nat
      BY DEF Instructions
    <3> QED BY <2>1, <3>1, <1>7
  <2>3. CASE i.op = "fpu"
    BY <1>1, <1>5, <1>7, <2>3 DEF Executable, Leaves
  <2>4. CASE i.op = "load"
    BY <1>1, <1>5, <1>7, <2>2, <2>4 DEF Executable, Leaves
  <2>5. CASE i.op = "store"
    BY <1>1, <1>5, <1>7, <2>2, <2>5 DEF Executable, Leaves
  <2> QED BY <2>3, <2>4, <2>5
<1>13. Stepped(p, d, b, i, t)
  BY <1>2, <1>3, <1>6, <1>10, <1>12 DEF Stepped
<1>14. Reaches(p, d, c \o (SpillCode(s, e[1], k) \o <<i>>), t)
  BY <1>4, <1>10, <1>11, <1>13, RequestReaches DEF b
<1> QED BY <1>1, <1>3, <1>14 DEF d, k

(* A declaration.                                                          *)
LEMMA AllocaReaches ==
  ASSUME NEW p, \A j \in DOMAIN p : IsDescriptor(p[j].descriptor),
         NEW c, NEW s, Reaches(p, Declared(s), c, s), Counted(s), s.output = 0,
         s.locals = s.frameUsed, 1 <= Excess(s)
  PROVE  LET t == Allocated(s)
         IN  Reaches(p, Declared(t),
                     c \o (SpillCode(s, 1, 1) \o << Access("alloca", s.locals) >>), t)
<1> DEFINE i == Access("alloca", s.locals)
           u == Adjusted(s, 1, 0, 1)
           v == [u EXCEPT !.locals = @ + 1, !.frameUsed = @ + 1]
           t == Deepened(v, 0)
           d == Declared(t)
<1>1. Servable(s, 1, 0, 1)
  BY DepthAssumption DEF Servable
<1>2. /\ Counted(u) /\ SameScope(s, u) /\ 1 <= Balanced(s, 1, 1).used
      /\ u.used = (Balanced(s, 1, 1).used - 1) + 0 /\ u.frameUsed = Balanced(s, 1, 1).frameUsed
      /\ s.clobbered <= Balanced(s, 1, 1).clobbered /\ Balanced(s, 1, 1).clobbered <= u.clobbered
      /\ s.frameClobbered <= Balanced(s, 1, 1).frameClobbered
      /\ Balanced(s, 1, 1).frameClobbered <= u.frameClobbered
  BY <1>1, AdjustedCounters
<1>3. /\ s.used \in Nat /\ s.frameUsed \in Nat /\ s.locals \in Nat /\ s.clobbered \in Nat
      /\ s.frameClobbered \in Nat /\ s.used <= DEPTH /\ 1 <= s.used /\ s.used - 1 \in Nat
  BY CountedTyped, DepthAssumption
<1>4. SpillCode(s, 1, 1) = <<>> /\ Balanced(s, 1, 1) = s
  <2>1. ~Deficient(s, 1) /\ ~Overfull(s, 1, 1)
    BY <1>3, DepthAssumption DEF Deficient, Overfull
  <2> QED BY <2>1, BalancedStays
<1> HIDE DEF u
<1>5. /\ u \in MonitorState /\ u.used = s.used - 1 /\ u.frameUsed = s.frameUsed
      /\ u.locals = s.locals /\ u.arity = s.arity /\ u.sp = s.sp /\ u.output = 0
      /\ s.clobbered <= u.clobbered /\ s.frameClobbered <= u.frameClobbered
  BY <1>2, <1>3, <1>4 DEF Counted, SameScope
<1>6. /\ v \in MonitorState /\ v.used = u.used /\ v.clobbered = u.clobbered /\ v.arity = u.arity
      /\ v.frameUsed = u.frameUsed + 1 /\ v.sp = u.sp /\ v.frameClobbered = u.frameClobbered
      /\ v.output = u.output
  <2>1. u.locals + 1 \in Nat /\ u.frameUsed + 1 \in Nat
    BY <1>3, <1>5
  <2> QED BY <1>5, <2>1 DEF MonitorState
<1>7. t = Allocated(s)
  BY DEF Allocated, u
<1> HIDE DEF v
<1>8. /\ t \in MonitorState /\ t.used = v.used /\ t.frameUsed = v.frameUsed /\ t.sp = v.sp
      /\ t.output = v.output /\ t.arity = v.arity /\ t.clobbered = v.clobbered
      /\ v.frameClobbered <= t.frameClobbered
  BY <1>6, DeepenedFields DEF SameScope
<1>9. Counted(t)
  BY <1>7, AllocatedFields
<1> HIDE DEF t, d
<1>10. s.clobbered <= t.clobbered /\ s.frameClobbered <= t.frameClobbered
  BY <1>3, <1>5, <1>6, <1>8 DEF MonitorState
<1>11. Covers(Declared(s), d)
  BY <1>5, <1>6, <1>8, <1>10, DeclaredCovers DEF d, Counted
<1>12. Fits(d, t) /\ Fits(d, s) /\ Reaches(p, d, c, s)
  BY <1>5, <1>6, <1>8, <1>9, <1>11, DeclaredFits, FitsCovered, ReachesCovered DEF d
<1>13. i.op = "alloca" /\ i.slot = s.frameUsed /\ i \in Instructions
  BY <1>3 DEF Access, Instructions
<1> HIDE DEF i
<1>14. Executable(p, d, s, i, t)
  BY <1>3, <1>5, <1>6, <1>8, <1>13 DEF Executable, Leaves
<1>15. Replay(p, s, i) = << <<>>, t >>
  BY <1>4, <1>7, <1>13 DEF Replay
<1>16. Stepped(p, d, Balanced(s, 1, 1), i, t)
  BY <1>4, <1>12, <1>13, <1>14, <1>15 DEF Stepped
<1>17. Reaches(p, d, c \o (SpillCode(s, 1, 1) \o <<i>>), t)
  BY <1>1, <1>4, <1>12, <1>16, RequestReaches
<1> QED BY <1>7, <1>17 DEF i, d

(* bra and ket.                                                            *)
LEMMA BraReaches ==
  ASSUME NEW p, NEW c, NEW s, Reaches(p, Declared(s), c, s), Counted(s), Excess(s) = 0,
         s.output = 0
  PROVE  Reaches(p, Declared(s), c \o << Shift("bra", s.locals) >>, s)
<1> DEFINE i == Shift("bra", s.locals)
<1>1. /\ s.frameUsed \in Nat /\ s.locals = s.frameUsed
  BY CountedTyped
<1>2. i.op = "bra" /\ i.n = s.frameUsed /\ i \in Instructions
  BY <1>1 DEF Shift, Instructions
<1> HIDE DEF i
<1>3. Executable(p, Declared(s), s, i, s) /\ Replay(p, s, i) = << <<>>, s >>
  BY <1>2 DEF Executable, Leaves, Replay
<1>4. Stepped(p, Declared(s), s, i, s)
  BY <1>2, <1>3, DeclaredFits DEF Stepped
<1> QED BY <1>4, ReachesNext DEF i

(* Before ret the results are not counted yet, after it they are in        *)
(* output; ket leaves both alone.                                          *)
LEMMA KetReaches ==
  ASSUME NEW p, NEW c, NEW s, Reaches(p, Declared(s), c, s), Counted(s), Excess(s) = 0,
         s.output <= s.clobbered, NEW outer \in Nat, s.arity <= outer, outer <= s.locals
  PROVE  LET t == Closed(s, s.locals - outer)
         IN  /\ Reaches(p, Declared(t), c \o << Shift("ket", s.locals - outer) >>, t)
             /\ c \o << Shift("ket", s.locals - outer) >> \in Seq(Instructions)
             /\ Declared(t) = Declared(s) /\ t.used = 0 /\ t.frameUsed = outer /\ t.sp = s.sp
             /\ t.output = s.output /\ t.climbing = s.climbing
<1> DEFINE n == s.locals - outer
           i == Shift("ket", n)
           t == Closed(s, n)
<1>1. /\ s.frameUsed \in Nat /\ s.locals = s.frameUsed /\ s.used = 0
      /\ n \in Nat /\ n <= s.frameUsed /\ s.frameUsed - n = outer /\ s \in MonitorState
  BY CountedTyped DEF Counted
<1>2. /\ t \in MonitorState /\ t.used = s.used /\ t.frameUsed = s.frameUsed - n
      /\ t.locals = s.frameUsed - n /\ t.sp = s.sp /\ t.output = s.output
      /\ t.arity = s.arity /\ t.clobbered = s.clobbered
      /\ t.frameClobbered = s.frameClobbered /\ t.climbing = s.climbing
  BY <1>1 DEF Closed, MonitorState
<1>3. i.op = "ket" /\ i.n = n /\ i \in Instructions
  BY <1>1 DEF Shift, Instructions
<1> HIDE DEF i, n, t
<1>4. Declared(t) = Declared(s)
  BY <1>2 DEF Declared
<1>5. Executable(p, Declared(s), s, i, t)
  BY <1>1, <1>2, <1>3 DEF Executable, Leaves
<1>6. Replay(p, s, i) = << <<>>, t >>
  BY <1>3 DEF Replay, t
<1>7. Fits(Declared(s), t)
  <2>1. t.used + t.output <= s.clobbered
    BY <1>1, <1>2 DEF MonitorState
  <2>2. t.frameUsed <= s.frameClobbered
    <3>1. s.frameUsed <= s.frameClobbered /\ s.frameClobbered \in Nat
      BY CountedTyped
    <3> QED BY <1>1, <1>2, <3>1
  <2> QED BY <1>2, <2>1, <2>2 DEF Fits, Declared
<1>8. Stepped(p, Declared(s), s, i, t)
  BY <1>3, <1>5, <1>6, <1>7 DEF Stepped
<1>9. Reaches(p, Declared(s), c \o <<i>>, t) /\ c \o <<i>> \in Seq(Instructions)
  BY <1>8, ReachesNext
<1> QED BY <1>1, <1>2, <1>4, <1>9 DEF i, t, n

(* adjust neither reads nor writes the stack pointer and what ret records. *)
Recorded(s, sp, output, climbing) ==
  [s EXCEPT !.sp = sp, !.output = output, !.climbing = climbing]

(* What is settled for an instruction leaves them as they are,             *)
LEMMA SettledRecorded ==
  ASSUME NEW s \in MonitorState, NEW sp, NEW output, NEW climbing,
         NEW c, NEW q, NEW k
  PROVE  Settled(Recorded(s, sp, output, climbing), c, q, k)
           = Recorded(Settled(s, c, q, k), sp, output, climbing)
  BY DEF Settled, Deepened, Recorded, MonitorState

(* and so does the spill code.                                             *)
LEMMA BalancedRecorded ==
  ASSUME NEW s \in MonitorState, NEW sp, NEW output, NEW climbing, NEW c, NEW k
  PROVE  Balanced(Recorded(s, sp, output, climbing), c, k)
           = Recorded(Balanced(s, c, k), sp, output, climbing)
<1> DEFINE r == Recorded(s, sp, output, climbing)
<1>1. r.used = s.used /\ r.frameUsed = s.frameUsed
  BY DEF Recorded, MonitorState
<1>2. /\ Deficient(r, c) = Deficient(s, c) /\ Overfull(r, c, k) = Overfull(s, c, k)
      /\ Shortage(r, c) = Shortage(s, c) /\ Surplus(r, c, k) = Surplus(s, c, k)
  BY <1>1 DEF Deficient, Overfull, Shortage, Surplus
<1>3. ASSUME NEW to, NEW a, NEW x, NEW y
      PROVE  Settled([r EXCEPT !.frameUsed = to], a, x, y)
               = Recorded(Settled([s EXCEPT !.frameUsed = to], a, x, y), sp, output, climbing)
  BY DEF Settled, Deepened, Recorded, MonitorState
<1> HIDE DEF r
<1>4. ASSUME NEW to, NEW n
      PROVE  /\ Reloaded(r, to, n) = Recorded(Reloaded(s, to, n), sp, output, climbing)
             /\ Spilled(r, to, n) = Recorded(Spilled(s, to, n), sp, output, climbing)
  BY <1>3 DEF Reloaded, Spilled
<1>5. CASE Deficient(s, c) /\ ~Overfull(s, c, k)
  BY <1>1, <1>2, <1>4, <1>5 DEF Balanced, r
<1>6. CASE Overfull(s, c, k) /\ ~Deficient(s, c)
  BY <1>1, <1>2, <1>4, <1>6 DEF Balanced, r
<1>7. CASE ~(Deficient(s, c) /\ ~Overfull(s, c, k)) /\ ~(Overfull(s, c, k) /\ ~Deficient(s, c))
  BY <1>2, <1>7 DEF Balanced, r
<1> QED BY <1>5, <1>6, <1>7

(* ret.                                                                    *)
LEMMA RetReaches ==
  ASSUME NEW p, \A j \in DOMAIN p : IsDescriptor(p[j].descriptor),
         NEW c, NEW s, Reaches(p, Declared(s), c, s), Counted(s), s.output = 0,
         NEW n, n = Excess(s), 1 <= n, n <= DEPTH
  PROVE  LET t == Returned(s, n)
         IN  /\ Reaches(p, Declared(t), c \o (SpillCode(s, n, n) \o << Shift("ret", n) >>), t)
             /\ t.climbing = t.sp
<1> DEFINE i == Shift("ret", n)
           b == Balanced(s, n, n)
           a == Adjusted(s, n, 0, n)
           t == Returned(s, n)
           d == Declared(t)
<1>1. n \in Nat /\ Servable(s, n, 0, n)
  BY CountedTyped DEF Servable
<1>2. /\ Counted(b) /\ SameScope(s, b) /\ Counted(a) /\ SameScope(s, a)
      /\ n <= b.used /\ b.used \in Nat /\ a.used = (b.used - n) + 0 /\ a.frameUsed = b.frameUsed
      /\ s.clobbered <= b.clobbered /\ b.clobbered <= a.clobbered
      /\ s.frameClobbered <= b.frameClobbered /\ b.frameClobbered <= a.frameClobbered
      /\ ~Deficient(b, n) /\ ~Overfull(b, n, n)
  BY <1>1, AdjustedCounters
<1>3. /\ s \in MonitorState /\ b \in MonitorState /\ a \in MonitorState /\ b.sp = s.sp
      /\ a.sp = s.sp /\ b.arity = s.arity /\ a.arity = s.arity /\ b.output = 0
  BY <1>2 DEF Counted, SameScope
<1>4. a = Settled(b, n, 0, n)
  BY DEF Adjusted
<1>5. SpillCode(b, n, n) = <<>> /\ Balanced(b, n, n) = b
  <2> HIDE DEF b
  <2> QED BY <1>2, BalancedStays
<1>6. b.used = n
  <2>1. Excess(b) = Excess(s)
    BY <1>1, BalancedFields
  <2>2. b.locals <= b.frameUsed /\ Excess(b) = (b.frameUsed - b.locals) + b.used
        /\ b.locals \in Nat /\ b.frameUsed \in Nat
    BY <1>2, CountedTyped
  <2> HIDE DEF b
  <2> QED BY <1>1, <1>2, <2>1, <2>2
<1>7. ASSUME NEW x \in MonitorState
      PROVE  Returned(x, n) = Adjusted(Recorded(x, x.sp, n, x.sp), n, 0, n)
  <2>1. Recorded(x, x.sp, n, x.sp) = [x EXCEPT !.output = n, !.climbing = x.sp]
    BY DEF Recorded, MonitorState
  <2> QED BY <2>1 DEF Returned
<1>8. ASSUME NEW x \in MonitorState, Balanced(x, n, n) = b, x.sp = s.sp
      PROVE  Returned(x, n) = Recorded(a, s.sp, n, s.sp)
  <2>1. Balanced(Recorded(x, x.sp, n, x.sp), n, n) = Recorded(b, s.sp, n, s.sp)
    BY <1>8, BalancedRecorded
  <2>2. Settled(Recorded(b, s.sp, n, s.sp), n, 0, n) = Recorded(a, s.sp, n, s.sp)
    BY <1>3, <1>4, SettledRecorded
  <2>3. Returned(x, n) = Settled(Balanced(Recorded(x, x.sp, n, x.sp), n, n), n, 0, n)
    BY <1>7 DEF Adjusted
  <2> QED BY <2>1, <2>2, <2>3
<1>9. t = Recorded(a, s.sp, n, s.sp) /\ Returned(b, n) = t
  BY <1>3, <1>5, <1>8
<1>10. Counted(t) /\ n <= t.clobbered
  BY <1>1, ReturnedFields
<1> HIDE DEF b, a, t, d
<1>11. /\ t.used = 0 /\ t.frameUsed = b.frameUsed /\ t.sp = s.sp /\ t.output = n
       /\ t.climbing = s.sp /\ t.arity = s.arity /\ t.clobbered = a.clobbered
       /\ t.frameClobbered = a.frameClobbered
  BY <1>2, <1>3, <1>6, <1>9 DEF Recorded, MonitorState
<1>12. s.clobbered <= t.clobbered /\ s.frameClobbered <= t.frameClobbered
       /\ b.clobbered <= t.clobbered /\ b.frameClobbered <= t.frameClobbered
  BY <1>2, <1>3, <1>11 DEF MonitorState
<1>13. t \in MonitorState /\ Covers(Declared(s), d) /\ Covers(Declared(b), d)
  BY <1>3, <1>10, <1>11, <1>12, DeclaredCovers DEF d, Counted
<1>14. Fits(d, b) /\ Reaches(p, d, c, s)
  BY <1>2, <1>3, <1>13, DeclaredFits, FitsCovered, ReachesCovered
<1>15. Fits(d, t)
  BY <1>1, <1>10, <1>11, <1>13, CountedTyped DEF Fits, Declared, d
<1>16. i.op = "ret" /\ i.n = n /\ i \in Instructions
  BY <1>1 DEF Shift, Instructions
<1> HIDE DEF i
<1>17. Executable(p, d, b, i, t)
  BY <1>3, <1>6, <1>11, <1>16 DEF Executable, Leaves
<1>18. Replay(p, b, i) = << <<>>, t >>
  BY <1>5, <1>9, <1>16 DEF Replay
<1>19. Stepped(p, d, b, i, t)
  BY <1>15, <1>16, <1>17, <1>18 DEF Stepped
<1>20. Reaches(p, d, c \o (SpillCode(s, n, n) \o <<i>>), t)
  BY <1>1, <1>14, <1>19, RequestReaches DEF b
<1> QED BY <1>11, <1>20 DEF d, i, t

(* A call asked for where adjust and adjust_stack_pointer leave the        *)
(* counters needs no code but itself.                                      *)
LEMMA CallStays ==
  ASSUME NEW s, Counted(s), NEW x, NEW f, IsDescriptor(f), f.arity <= Excess(s)
  PROVE  LET b2 == [Balanced(s, 0, CalleeClobbers(f)) EXCEPT !.sp = CallBase(s, f)]
         IN  Front(CallCode(b2, x, f)) = <<>> /\ Called(b2, f) = Called(s, f)
<1> DEFINE k == CalleeClobbers(f)
           b == Balanced(s, 0, k)
           u == Adjusted(s, 0, f.output, k)
           base == CallBase(s, f)
           b2 == [b EXCEPT !.sp = base]
           u2 == Recorded(u, base, b.output, b.climbing)
           i == [op |-> "call", function |-> x, climbing |-> f.climbing]
<1>1. Servable(s, 0, f.output, k)
  BY CalledCounters
<1>2. /\ Counted(b) /\ SameScope(s, b) /\ Counted(u) /\ SameScope(s, u)
      /\ ~Deficient(b, 0) /\ ~Overfull(b, 0, k)
  BY <1>1, AdjustedCounters
<1>3. u = Settled(b, 0, f.output, k) /\ base = u.frameUsed - f.arity
  BY DEF Adjusted, CallBase
<1>4. b \in MonitorState /\ u \in MonitorState /\ u.output = b.output /\ u.climbing = b.climbing
  BY <1>2 DEF Counted, SameScope
<1>5. Called(s, f)
        = Deepened([u EXCEPT !.frameUsed = base, !.sp = base + f.climbing], f.frameClobbered)
  BY DEF Called
<1>6. Balanced(b, 0, k) = b
  <2> HIDE DEF b, k
  <2> QED BY <1>2, BalancedStays
<1> HIDE DEF k, b, u, base
<1>7. b2 = Recorded(b, base, b.output, b.climbing) /\ b2.used = b.used /\ b2.sp = base
  BY <1>4 DEF Recorded, MonitorState
<1>8. Balanced(b2, 0, k) = b2
  BY <1>4, <1>6, <1>7, BalancedRecorded
<1>9. Settled(b2, 0, f.output, k) = u2
  BY <1>3, <1>4, <1>7, SettledRecorded
<1> HIDE DEF b2
<1>10. Adjusted(b2, 0, f.output, k) = u2
  BY <1>8, <1>9 DEF Adjusted
<1>11. u2.frameUsed = u.frameUsed
  BY <1>4 DEF Recorded, MonitorState
<1>12. CallBase(b2, f) = base
  BY <1>3, <1>10, <1>11 DEF CallBase, k
<1>13. [u2 EXCEPT !.frameUsed = base, !.sp = base + f.climbing]
         = [u EXCEPT !.frameUsed = base, !.sp = base + f.climbing]
  BY <1>4 DEF Recorded, MonitorState
<1> HIDE DEF u2
<1>14. Called(b2, f) = Called(s, f)
  BY <1>5, <1>10, <1>12, <1>13 DEF Called, k
<1>15. SpillCode(b2, 0, k) = <<>>
  <2>1. ~Deficient(b2, 0) /\ ~Overfull(b2, 0, k)
    BY <1>2, <1>7 DEF Deficient, Overfull
  <2> QED BY <2>1, BalancedStays
<1>16. StackPointerCode(b2, f) = <<>>
  <2>1. base \in Int
    <3>1. u.frameUsed \in Nat /\ f.arity \in Nat
      BY <1>2, CountedTyped, CalleeFacts
    <3> QED BY <1>3, <3>1
  <2>2. ~(b2.sp < base) /\ ~(base < b2.sp)
    BY <1>7, <2>1
  <2> QED BY <1>12, <2>2 DEF StackPointerCode
<1>17. CallCode(b2, x, f) = <<i>>
  <2>1. CallCode(b2, x, f) = (<<>> \o <<>>) \o <<i>>
    BY <1>15, <1>16 DEF CallCode, k
  <2> HIDE DEF i
  <2>2. <<i>> \in Seq({i}) /\ <<>> \in Seq({i})
    OBVIOUS
  <2>3. <<>> \o <<>> = <<>> /\ <<>> \o <<i>> = <<i>>
    BY <2>2
  <2> QED BY <2>1, <2>3
<1> HIDE DEF i
<1>18. Front(<<i>>) = <<>>
  <2>1. Front(<<i>>) = SubSeq(<<i>>, 1, Len(<<i>>) - 1) /\ Len(<<i>>) = 1
    BY DEF Front
  <2>2. SubSeq(<<i>>, 1, 0) = <<>>
    OBVIOUS
  <2> QED BY <2>1, <2>2
<1> QED BY <1>14, <1>17, <1>18 DEF b2, b, k, base

(* A call: the spill code, the stack pointer, then the call itself.        *)
LEMMA CallReaches ==
  ASSUME NEW p, \A j \in DOMAIN p : IsDescriptor(p[j].descriptor),
         NEW c, NEW s, Reaches(p, Declared(s), c, s), Counted(s), s.output = 0,
         NEW x \in DOMAIN p, x \in Nat, p[x].descriptor.arity <= Excess(s)
  PROVE  LET f == p[x].descriptor
             t == Called(s, f)
         IN  Reaches(p, Declared(t), c \o CallCode(s, x, f), t) /\ t.output = 0
<1> DEFINE f == p[x].descriptor
           k == CalleeClobbers(f)
           b == Balanced(s, 0, k)
           base == CallBase(s, f)
           b2 == [b EXCEPT !.sp = base]
           t == Called(s, f)
           d == Declared(t)
           spill == SpillCode(s, 0, k)
           shift == StackPointerCode(s, f)
           i == [op |-> "call", function |-> x, climbing |-> f.climbing]
<1>1. /\ IsDescriptor(f) /\ f.arity \in Nat /\ f.output \in Nat /\ f.climbing \in Nat
      /\ f.frameClobbered \in Nat /\ k \in Nat
  BY CalleeFacts
<1>2. /\ Counted(t) /\ t.arity = s.arity /\ t.output = 0
      /\ s.locals <= base /\ base + f.frameClobbered <= t.frameClobbered
  BY <1>1, CalledFields
<1>3. /\ Servable(s, 0, f.output, k) /\ t.used = b.used + f.output /\ t.frameUsed = base
      /\ base = b.frameUsed - f.arity
      /\ b.frameClobbered <= t.frameClobbered /\ b.clobbered <= t.clobbered
      /\ b.used + k <= t.clobbered /\ t.sp = base + f.climbing
  BY <1>1, CalledCounters
<1>4. /\ Counted(b) /\ SameScope(s, b) /\ s.clobbered <= b.clobbered
      /\ s.frameClobbered <= b.frameClobbered
  BY <1>3, AdjustedCounters
<1>5. Front(CallCode(b2, x, f)) = <<>> /\ Called(b2, f) = t
  BY <1>1, CallStays
<1>6. CallCode(s, x, f) = (spill \o shift) \o <<i>>
  BY DEF CallCode
<1>7. CallBase(s, f) = base
  OBVIOUS
<1> HIDE DEF f, k, b, base, t, d, spill, shift
<1>8. /\ s \in MonitorState /\ b \in MonitorState /\ t \in MonitorState /\ b.arity = t.arity
      /\ b.sp = s.sp /\ b.output = 0
  BY <1>2, <1>4 DEF Counted, SameScope
<1>9. base \in Nat /\ base + f.arity = b.frameUsed /\ base <= b.frameUsed
  <2>1. s.locals \in Nat /\ b.frameUsed \in Nat
    BY <1>8 DEF MonitorState
  <2> QED BY <1>1, <1>2, <1>3, <2>1
<1>10. /\ b2 \in MonitorState /\ b2.used = b.used /\ b2.frameUsed = b.frameUsed /\ b2.sp = base
       /\ b2.output = 0
  BY <1>8, <1>9 DEF MonitorState
<1>11. s.clobbered <= t.clobbered /\ s.frameClobbered <= t.frameClobbered
  BY <1>3, <1>4, <1>8 DEF MonitorState
<1>12. Covers(Declared(s), d) /\ Covers(Declared(b), d)
  BY <1>2, <1>3, <1>8, <1>11, DeclaredCovers DEF d
<1>13. Fits(d, b) /\ Fits(d, t) /\ Reaches(p, d, c, s)
  BY <1>2, <1>4, <1>8, <1>12, DeclaredFits, FitsCovered, ReachesCovered DEF d
<1>14. Fits(d, b2)
  BY <1>10, <1>13 DEF Fits, MonitorState
<1>15. /\ Reaches(p, d, c \o spill, b) /\ c \in Seq(Instructions) /\ spill \in Seq(Instructions)
       /\ c \o spill \in Seq(Instructions)
  BY <1>3, <1>13, SpillReaches DEF b, spill
<1>16. Reaches(p, d, (c \o spill) \o shift, b2) /\ shift \in Seq(Instructions)
  <2>1. CASE s.sp < base
    <3> DEFINE j == Shift("sp_inc", base - s.sp)
    <3>1. shift = <<j>>
      <4>1. ~(base < s.sp)
        BY <2>1, <1>8, <1>9 DEF MonitorState
      <4> QED BY <2>1, <1>7, <4>1 DEF shift, StackPointerCode
    <3>2. s.sp \in Nat /\ base - s.sp \in Nat /\ s.sp + (base - s.sp) = base
      BY <2>1, <1>8, <1>9 DEF MonitorState
    <3>3. j.op = "sp_inc" /\ j.n = base - s.sp /\ j \in Instructions
      BY <3>2 DEF Shift, Instructions
    <3> HIDE DEF j
    <3>4. Executable(p, d, b, j, b2)
      BY <1>8, <1>9, <1>10, <3>2, <3>3 DEF Executable, Leaves
    <3>5. Replay(p, b, j) = << <<>>, b2 >>
      <4>1. [b EXCEPT !.sp = @ + j.n] = b2
        BY <1>8, <3>2, <3>3 DEF MonitorState
      <4> QED BY <3>3, <4>1 DEF Replay
    <3> HIDE DEF b2
    <3>6. Stepped(p, d, b, j, b2)
      BY <1>14, <3>3, <3>4, <3>5 DEF Stepped
    <3>7. <<j>> \in Seq(Instructions)
      BY <3>3
    <3> QED BY <1>15, <3>1, <3>6, <3>7, ReachesNext
  <2>2. CASE base < s.sp
    <3> DEFINE j == Shift("sp_dec", s.sp - base)
    <3>1. shift = <<j>>
      <4>1. ~(s.sp < base)
        BY <2>2, <1>8, <1>9 DEF MonitorState
      <4> QED BY <2>2, <1>7, <4>1 DEF shift, StackPointerCode
    <3>2. s.sp \in Nat /\ s.sp - base \in Nat /\ s.sp - (s.sp - base) = base
          /\ s.sp - base <= s.sp
      BY <2>2, <1>8, <1>9 DEF MonitorState
    <3>3. j.op = "sp_dec" /\ j.n = s.sp - base /\ j \in Instructions
      BY <3>2 DEF Shift, Instructions
    <3> HIDE DEF j
    <3>4. Executable(p, d, b, j, b2)
      BY <1>8, <1>9, <1>10, <3>2, <3>3 DEF Executable, Leaves
    <3>5. Replay(p, b, j) = << <<>>, b2 >>
      <4>1. [b EXCEPT !.sp = @ - j.n] = b2
        BY <1>8, <3>2, <3>3 DEF MonitorState
      <4> QED BY <3>3, <4>1 DEF Replay
    <3> HIDE DEF b2
    <3>6. Stepped(p, d, b, j, b2)
      BY <1>14, <3>3, <3>4, <3>5 DEF Stepped
    <3>7. <<j>> \in Seq(Instructions)
      BY <3>3
    <3> QED BY <1>15, <3>1, <3>6, <3>7, ReachesNext
  <2>3. CASE s.sp = base
    <3>1. shift = <<>> /\ b2 = b
      <4>1. ~(s.sp < base) /\ ~(base < s.sp)
        BY <2>3, <1>9
      <4>2. shift = <<>>
        BY <1>7, <4>1 DEF shift, StackPointerCode
      <4>3. b2 = b
        BY <2>3, <1>8 DEF MonitorState
      <4> QED BY <4>2, <4>3
    <3>2. <<>> \in Seq(Instructions) /\ (c \o spill) \o <<>> = c \o spill
      BY <1>15
    <3> HIDE DEF b2
    <3> QED BY <1>15, <3>1, <3>2
  <2>4. s.sp \in Nat
    BY <1>8 DEF MonitorState
  <2> QED BY <1>9, <2>1, <2>2, <2>3, <2>4
<1> HIDE DEF b2
<1>17. i.op = "call" /\ i.function = x /\ i.climbing = f.climbing /\ i \in Instructions
  BY <1>1 DEF Instructions
<1> HIDE DEF i
<1>18. Executable(p, d, b2, i, t)
  <2>1. /\ base + f.frameClobbered <= d.frameClobbered /\ b2.used + k <= d.clobbered
        /\ b2.frameUsed = b2.sp + f.arity
    BY <1>2, <1>3, <1>9, <1>10 DEF Declared, d
  <2>2. Leaves(b2, t, b2.used + f.output, b2.sp, b2.sp + f.climbing, 0)
    BY <1>2, <1>3, <1>10 DEF Leaves
  <2> QED BY <1>10, <1>17, <2>1, <2>2 DEF Executable, f, k
<1>19. Replay(p, b2, i) = << <<>>, t >>
  BY <1>5, <1>17 DEF Replay, f
<1>20. Stepped(p, d, b2, i, t)
  BY <1>13, <1>17, <1>18, <1>19 DEF Stepped
<1>21. Reaches(p, d, ((c \o spill) \o shift) \o <<i>>, t)
  BY <1>16, <1>20, ReachesNext
<1>22. ((c \o spill) \o shift) \o <<i>> = c \o ((spill \o shift) \o <<i>>)
  <2>1. /\ c \in Seq(Instructions) /\ spill \in Seq(Instructions) /\ shift \in Seq(Instructions)
        /\ <<i>> \in Seq(Instructions)
    BY <1>15, <1>16, <1>17
  <2>2. (c \o spill) \o shift = c \o (spill \o shift)
    BY ONLY <2>1, CodeAssociative
  <2>3. spill \o shift \in Seq(Instructions)
    BY ONLY <2>1
  <2>4. \A y, g \in Seq(Instructions) : (c \o y) \o g = c \o (y \o g)
    BY ONLY <2>1, CodeFollowing
  <2>5. (c \o (spill \o shift)) \o <<i>> = c \o ((spill \o shift) \o <<i>>)
    BY ONLY <2>1, <2>3, <2>4, Zenon
  <2> QED BY <2>2, <2>5
<1> QED BY <1>2, <1>6, <1>21, <1>22 DEF d, f, t, i

-----------------------------------------------------------------------------
(* Programs that grow.                                                     *)

(* The functions of p are the first ones of q.                             *)
Extends(p, q) == \A j \in DOMAIN p : j \in DOMAIN q /\ q[j] = p[j]

(* New functions change nothing for those that cannot call them.           *)
LEMMA SteppedKept ==
  ASSUME NEW p, NEW q, Extends(p, q), NEW d, NEW s, NEW i, NEW t, Stepped(p, d, s, i, t)
  PROVE  Stepped(q, d, s, i, t)
<1>1. /\ i \in Instructions /\ Fits(d, t) /\ Executable(p, d, s, i, t)
      /\ Replay(p, s, i) = << <<>>, t >>
  BY DEF Stepped
<1>2. CASE i.op = "call"
  <2>1. i.function \in DOMAIN p
    BY <1>1, <1>2 DEF Executable
  <2>2. i.function \in DOMAIN q /\ q[i.function] = p[i.function]
    BY <2>1 DEF Extends
  <2>3. Executable(q, d, s, i, t)
    BY <1>1, <1>2, <2>1, <2>2 DEF Executable
  <2>4. Replay(q, s, i) = Replay(p, s, i)
    BY <1>2, <2>2 DEF Replay
  <2> QED BY <1>1, <2>3, <2>4 DEF Stepped
<1>3. CASE i.op # "call"
  <2>1. Executable(q, d, s, i, t)
    BY <1>1, <1>3 DEF Executable
  <2>2. Replay(q, s, i) = Replay(p, s, i)
    BY <1>3 DEF Replay
  <2> QED BY <1>1, <2>1, <2>2 DEF Stepped
<1> QED BY <1>2, <1>3

(* Nor does the code of a function change what it does.                    *)
LEMMA TracedKept ==
  ASSUME NEW p, NEW q, Extends(p, q), NEW d, NEW c, NEW u, Traced(p, d, c, u)
  PROVE  Traced(q, d, c, u)
  BY SteppedKept DEF Traced

(* One more function.                                                      *)
LEMMA LinkedAppend ==
  ASSUME NEW p, Linked(p), NEW f, f \in [descriptor: Descriptor, code: Seq(Instructions)],
         IsDescriptor(f.descriptor), NEW u, FunctionTraced(p, f, u)
  PROVE  Linked(Append(p, f))
<1> DEFINE q == Append(p, f)
           n == Len(p)
<1>1. /\ p \in Seq([descriptor: Descriptor, code: Seq(Instructions)]) /\ n \in Nat
      /\ DOMAIN p = 1 .. n
  BY DEF Linked
<1>2. /\ q \in Seq([descriptor: Descriptor, code: Seq(Instructions)])
      /\ Len(q) = n + 1 /\ DOMAIN q = 1 .. n + 1 /\ \A j \in 1 .. n : q[j] = p[j]
      /\ q[n + 1] = f
  BY <1>1, AppendProperties
<1> HIDE DEF q, n
<1>3. Extends(p, q)
  BY <1>1, <1>2 DEF Extends
<1>4. ASSUME NEW g, NEW v, FunctionTraced(p, g, v) PROVE FunctionTraced(q, g, v)
  BY <1>3, <1>4, TracedKept DEF FunctionTraced
<1>5. ASSUME NEW j \in 1 .. n + 1
      PROVE  IsDescriptor(q[j].descriptor) /\ \E v : FunctionTraced(q, q[j], v)
  <2>1. CASE j \in 1 .. n
    <3>1. IsDescriptor(p[j].descriptor) /\ \E v : FunctionTraced(p, p[j], v)
      BY <1>1, <2>1 DEF Linked
    <3> QED BY <1>2, <1>4, <2>1, <3>1
  <2>2. CASE j = n + 1
    BY <1>2, <1>4, <2>2
  <2> QED BY <1>1, <2>1, <2>2
<1> QED BY <1>2, <1>5 DEF Linked, q

-----------------------------------------------------------------------------
(* Assembly.                                                               *)

(* What the compiler requests next.                                        *)
LEMMA RequestTyped ==
  ASSUME LinkageInductive, Assembling
  PROVE  Request \in CompilerRequests /\ Tail(script) \in Seq(CompilerRequests)
  BY DEF LinkageInductive, Assembling, Request

(* The functions to call are there.                                        *)
LEMMA LinkedFacts ==
  ASSUME NEW p, Linked(p)
  PROVE  /\ \A j \in DOMAIN p : j \in Nat /\ IsDescriptor(p[j].descriptor)
         /\ \A j \in DOMAIN p : p[j].code \in Seq(Instructions)
<1> DEFINE Functions == [descriptor: Descriptor, code: Seq(Instructions)]
<1>1. p \in Seq(Functions) /\ \A j \in DOMAIN p : IsDescriptor(p[j].descriptor)
  BY DEF Linked
<1>2. ASSUME NEW f \in Functions PROVE f.code \in Seq(Instructions)
  OBVIOUS
<1> HIDE DEF Functions
<1>3. \A j \in DOMAIN p : j \in Nat /\ p[j] \in Functions
  BY <1>1
<1> QED BY <1>1, <1>2, <1>3

(* A request was served: the code recorded for it takes the counters to    *)
(* where the monitor has them.                                             *)
LEMMA RequestServed ==
  ASSUME LinkageInductive, Assembling, Proceed, Inductive',
         Reaches(program, Declared(m'), code', m'),
         IF mode' = "returned" THEN m'.climbing = m'.sp ELSE m'.output = 0
  PROVE  LinkageInductive'
<1>1. /\ program' = program /\ phase' = phase /\ chain' = chain /\ vm' = vm
      /\ script' = Tail(script) /\ phase = "assembling"
  BY DEF Proceed, Assembling
<1>2. InProgress'
  BY <1>1 DEF InProgress
<1>3. Linked(program')
  BY <1>1 DEF LinkageInductive
<1>4. script' \in Seq(CompilerRequests)
  BY <1>1, RequestTyped
<1> QED BY <1>1, <1>2, <1>3, <1>4 DEF LinkageInductive

(* A function is begun with its arguments in the frame.                    *)
LEMMA EnterKeeps ==
  ASSUME LinkageInductive, NEW body \in Bodies, Enter(body)
  PROVE  LinkageInductive'
<1> DEFINE s == Entered(body.arity)
           u == <<s>>
<1>1. body.arity \in Nat /\ body.requests \in Seq(CompilerRequests)
  BY BodiesAssumption
<1>2. /\ m' = s /\ brackets' = <<>> /\ mode' = "rvalue" /\ script' = body.requests
      /\ code' = <<>> /\ program' = program /\ phase' = phase /\ chain' = chain /\ vm' = vm
      /\ phase = "assembling"
  BY DEF Enter
<1>3. Counted(s) /\ s.locals = s.arity /\ Excess(s) = 0 /\ s.output = 0 /\ s.arity = body.arity
  BY <1>1, DepthAssumption DEF Entered, Counted, MonitorState, Excess
<1> HIDE DEF s
<1>4. Inductive'
  <2>1. brackets' \in Seq(Nat) /\ mode' \in Modes
    BY <1>2 DEF Modes
  <2>2. BracketsNested' /\ BodyBracket' /\ ResultsRecorded'
    BY <1>2, <1>3 DEF BracketsNested, BodyBracket, ResultsRecorded
  <2> QED BY <1>2, <1>3, <2>1, <2>2
          DEF Counted, Inductive, TypeOK, RegisterBudget, FrameLayout
<1>5. Reaches(program, Declared(s), <<>>, s)
  <2>1. s \in MonitorState /\ Fits(Declared(s), s)
    BY <1>3, DeclaredFits DEF Counted
  <2>2. /\ u \in Seq(MonitorState) /\ Len(u) = 1 /\ u[1] = s /\ Len(<<>>) = 0
        /\ <<>> \in Seq(Instructions)
    BY <2>1
  <2> HIDE DEF u
  <2>3. s = Entered(Declared(s).arity)
    BY <1>3 DEF Declared, s
  <2>4. \A k \in 1 .. Len(u) : Fits(Declared(s), u[k])
    BY <2>1, <2>2
  <2>5. Len(u) = Len(<<>>) + 1 /\ 1 .. Len(<<>>) = {}
    BY <2>2
  <2>6. Traced(program, Declared(s), <<>>, u)
    BY <2>2, <2>3, <2>4, <2>5 DEF Traced
  <2> QED BY <2>2, <2>6 DEF Reaches
<1>6. InProgress'
  BY <1>2, <1>3, <1>4, <1>5 DEF InProgress
<1> QED BY <1>1, <1>2, <1>6 DEF LinkageInductive

(* What is known while the statements of a function are assembled.         *)
LEMMA Assembled ==
  ASSUME LinkageInductive, Assembling, mode # "left"
  PROVE  /\ Inductive /\ Counted(m) /\ Reaches(program, Declared(m), code, m)
         /\ mode # "returned" => m.output = 0
         /\ mode = "returned" => m.climbing = m.sp
         /\ \A j \in DOMAIN program : j \in Nat /\ IsDescriptor(program[j].descriptor)
         /\ Excess(m) \in Nat
<1>1. /\ Inductive /\ Reaches(program, Declared(m), code, m)
      /\ IF mode = "returned" THEN m.climbing = m.sp ELSE m.output = 0
      /\ Linked(program)
  BY DEF LinkageInductive, InProgress
<1>2. Counted(m)
  BY <1>1, InductiveCounted
<1> QED BY <1>1, <1>2, CountedTyped, LinkedFacts

(* Instructions on the registers, loads and stores.                        *)
LEMMA EffectKeeps ==
  ASSUME LinkageInductive, Assembling, Proceed, mode # "left", mode # "returned",
         mode' # "returned", Inductive',
         NEW i \in Instructions, i.op \in {"fpu", "load", "store"},
         i.op # "fpu" => i.slot < m.locals,
         NEW e, e = Effect(i), Servable(m, e[1], e[2], Footprint(e)), m' = ApplyEffect(m, e),
         Emit(SpillCode(m, e[1], Footprint(e)) \o <<i>>)
  PROVE  LinkageInductive'
<1>1. /\ Counted(m) /\ Reaches(program, Declared(m), code, m) /\ m.output = 0
      /\ \A j \in DOMAIN program : IsDescriptor(program[j].descriptor)
  BY Assembled
<1>2. code' = code \o (SpillCode(m, e[1], Footprint(e)) \o <<i>>)
  BY DEF Emit
<1>3. Reaches(program, Declared(m'), code', m') /\ SameScope(m, m')
  BY <1>1, <1>2, EffectReaches
<1>4. m'.output = 0
  BY <1>1, <1>3 DEF SameScope
<1> QED BY <1>3, <1>4, RequestServed

(* An instruction on the registers.                                        *)
LEMMA AssembleOperationKeeps ==
  ASSUME LinkageInductive, AssembleOperation
  PROVE  LinkageInductive'
<1> DEFINE e == Request.effect
           i == Fpu(e[1], e[2])
<1>1. /\ Assembling /\ Request.kind = "operate" /\ Operate(e) /\ Proceed
      /\ Emit(SpillCode(m, e[1], Footprint(e)) \o <<i>>)
  BY DEF AssembleOperation, Requested
<1>2. e \in Effects
  BY <1>1, RequestTyped DEF CompilerRequests
<1>3. e[1] \in Nat /\ e[2] \in Nat /\ e = <<e[1], e[2]>>
  BY <1>2 DEF Effects
<1> HIDE DEF e
<1>4. /\ mode \in {"rvalue", "store"} /\ e[1] <= Excess(m) /\ m' = ApplyEffect(m, e)
      /\ mode' \in {"rvalue", "store"}
  BY <1>1 DEF Operate, InBody, AfterOperation
<1>5. Inductive /\ Counted(m)
  BY <1>1, <1>4, Assembled
<1>6. Inductive'
  BY <1>1, <1>2, <1>5, NextInductive DEF Next
<1>7. Servable(m, e[1], e[2], Footprint(e))
  BY <1>2, <1>4, <1>5, EffectServable
<1>8. i \in Instructions /\ i.op = "fpu" /\ e = Effect(i)
  BY <1>3 DEF Fpu, Instructions, Effect
<1> HIDE DEF i
<1> QED BY <1>1, <1>4, <1>6, <1>7, <1>8, EffectKeeps

(* A load from or a store to a local variable.                             *)
LEMMA AssembleAccessKeeps ==
  ASSUME LinkageInductive, AssembleLoad \/ AssembleStore
  PROVE  LinkageInductive'
<1> DEFINE op == IF AssembleLoad THEN "load" ELSE "store"
           i == Access(op, Request.slot)
           e == IF AssembleLoad THEN <<0, 1>> ELSE <<1, 0>>
<1>1. /\ Assembling /\ Request.kind \in {"load", "store"} /\ Proceed /\ Request.slot < m.locals
  BY DEF AssembleLoad, AssembleStore, Requested
<1>2. Request.slot \in Nat
  BY <1>1, RequestTyped DEF CompilerRequests
<1>3. /\ mode \in {"rvalue", "store"} /\ mode' \in {"rvalue", "store"} /\ e[1] <= Excess(m)
      /\ m' = ApplyEffect(m, e)
      /\ Next
      /\ Emit(SpillCode(m, e[1], Footprint(e)) \o <<i>>)
  <2>1. CASE AssembleLoad
    <3>1. <<0, 1>> \in Effects
      BY DEF Effects
    <3>2. Operate(<<0, 1>>) /\ Emit(SpillCode(m, 0, 1) \o << Access("load", Request.slot) >>)
      BY <2>1 DEF AssembleLoad
    <3>3. Next
      BY <3>1, <3>2 DEF Next
    <3>4. Footprint(<<0, 1>>) = 1
      BY DEF Footprint, Larger
    <3> QED BY <2>1, <3>2, <3>3, <3>4 DEF Operate, InBody, AfterOperation
  <2>2. CASE ~AssembleLoad
    <3>1. Store /\ Emit(SpillCode(m, 1, 1) \o << Access("store", Request.slot) >>)
      BY <2>2 DEF AssembleStore
    <3>2. Next
      BY <3>1 DEF Next
    <3>3. Footprint(<<1, 0>>) = 1
      BY DEF Footprint, Larger
    <3>4. 1 <= Excess(m) /\ mode \in {"rvalue", "store"} /\ mode' \in {"rvalue", "store"}
          /\ m' = ApplyEffect(m, <<1, 0>>)
      <4>1. Excess(m) \in Nat
        <5>1. mode # "left"
          BY <3>1 DEF Store, InBody
        <5> QED BY <1>1, <5>1, Assembled
      <4> QED BY <3>1, <4>1 DEF Store, InBody
    <3> QED BY <2>2, <3>1, <3>2, <3>3, <3>4
  <2> QED BY <2>1, <2>2
<1>4. Inductive /\ Counted(m)
  BY <1>1, <1>3, Assembled
<1>5. Inductive'
  BY <1>3, <1>4, NextInductive
<1>6. i \in Instructions /\ i.op \in {"load", "store"} /\ i.slot < m.locals /\ e = Effect(i)
  BY <1>1, <1>2 DEF Access, Instructions, Effect
<1>7. Servable(m, e[1], e[2], Footprint(e))
  BY <1>3, <1>4, DepthAssumption DEF Servable, Footprint, Larger
<1> HIDE DEF i, e
<1> QED BY <1>1, <1>3, <1>5, <1>6, <1>7, EffectKeeps

(* The declaration of a local variable.                                    *)
LEMMA AssembleAllocaKeeps ==
  ASSUME LinkageInductive, AssembleAlloca
  PROVE  LinkageInductive'
<1>1. /\ Assembling /\ Alloca /\ Proceed
      /\ code' = code \o (SpillCode(m, 1, 1) \o << Access("alloca", m.locals) >>)
  BY DEF AssembleAlloca, Requested, Emit
<1>2. /\ mode \in {"rvalue", "declare"} /\ 1 <= Excess(m) /\ m.locals = m.frameUsed
      /\ m' = Allocated(m) /\ mode' \in {"rvalue", "declare"} /\ Next
  <2>1. mode # "left"
    BY <1>1 DEF Alloca, Declaring
  <2>2. Excess(m) \in Nat
    BY <1>1, <2>1, Assembled
  <2> QED BY <1>1, <2>2 DEF Alloca, Declaring, AfterDeclaration, Next
<1>3. /\ Inductive /\ Counted(m) /\ Reaches(program, Declared(m), code, m) /\ m.output = 0
      /\ \A j \in DOMAIN program : IsDescriptor(program[j].descriptor)
  BY <1>1, <1>2, Assembled
<1>4. Inductive'
  BY <1>2, <1>3, NextInductive
<1>5. Reaches(program, Declared(m'), code', m')
  BY <1>1, <1>2, <1>3, AllocaReaches
<1>6. m'.output = 0
  BY <1>2, <1>3, AllocatedFields
<1> QED BY <1>1, <1>2, <1>4, <1>5, <1>6, RequestServed

(* A call to a function assembled before.                                  *)
LEMMA AssembleCallKeeps ==
  ASSUME LinkageInductive, NEW x \in DOMAIN program, AssembleCall(x)
  PROVE  LinkageInductive'
<1> DEFINE f == program[x].descriptor
<1>1. /\ Assembling /\ Call(f) /\ Proceed /\ code' = code \o CallCode(m, x, f)
  BY DEF AssembleCall, Requested, Emit
<1>2. /\ mode = "rvalue" /\ mode' = "rvalue" /\ brackets # <<>> /\ brackets' = brackets
      /\ f.arity <= Excess(m) /\ m' = Called(m, f)
  BY <1>1 DEF Call
<1>3. /\ Inductive /\ Counted(m) /\ Reaches(program, Declared(m), code, m) /\ m.output = 0
      /\ x \in Nat /\ \A j \in DOMAIN program : IsDescriptor(program[j].descriptor)
  BY <1>1, <1>2, Assembled
<1>4. Counted(m') /\ m'.locals = m.locals /\ m'.arity = m.arity
  BY <1>2, <1>3, CalledFields
<1>5. Inductive'
  BY <1>2, <1>3, <1>4, SameBrackets
<1>6. Reaches(program, Declared(m'), code', m') /\ m'.output = 0
  BY <1>1, <1>2, <1>3, CallReaches
<1> QED BY <1>1, <1>2, <1>5, <1>6, RequestServed

(* An opening bracket.                                                     *)
LEMMA AssembleBraKeeps ==
  ASSUME LinkageInductive, AssembleBra
  PROVE  LinkageInductive'
<1>1. /\ Assembling /\ Bra /\ Proceed /\ code' = code \o << Shift("bra", m.locals) >>
  BY DEF AssembleBra, Requested, Emit
<1>2. mode = "rvalue" /\ mode' = "rvalue" /\ Excess(m) = 0 /\ m' = m /\ Next
  BY <1>1 DEF Bra, AtStatement, Next
<1>3. /\ Inductive /\ Counted(m) /\ Reaches(program, Declared(m), code, m) /\ m.output = 0
  BY <1>1, <1>2, Assembled
<1>4. Inductive'
  BY <1>2, <1>3, NextInductive
<1>5. Reaches(program, Declared(m'), code', m')
  BY <1>1, <1>2, <1>3, BraReaches
<1> QED BY <1>1, <1>2, <1>3, <1>4, <1>5, RequestServed

(* The innermost bracket.                                                  *)
LEMMA InnermostBracket ==
  ASSUME Inductive, Len(brackets) >= 1
  PROVE  /\ Last(brackets) = brackets[Len(brackets)] /\ Last(brackets) \in Nat
         /\ m.arity <= Last(brackets) /\ Last(brackets) <= m.locals
<1>1. brackets \in Seq(Nat) /\ Len(brackets) \in DOMAIN brackets
  BY DEF Inductive, TypeOK
<1>2. Last(brackets) = brackets[Len(brackets)]
  BY DEF Last
<1> QED BY <1>1, <1>2 DEF Inductive, BracketsNested

(* The bracket that closes the innermost one but for that of the body.     *)
LEMMA AssembleKetKeeps ==
  ASSUME LinkageInductive, AssembleKet
  PROVE  LinkageInductive'
<1> DEFINE outer == Last(brackets)
<1>1. /\ Assembling /\ Ket /\ Proceed /\ code' = code \o << Shift("ket", m.locals - outer) >>
  BY DEF AssembleKet, Requested, Emit
<1>2. /\ mode = "rvalue" /\ mode' = "rvalue" /\ Excess(m) = 0 /\ Len(brackets) > 1
      /\ m' = Closed(m, m.locals - brackets[Len(brackets)]) /\ Next
  BY <1>1 DEF Ket, AtStatement, CloseBracket, Next
<1>3. /\ Inductive /\ Counted(m) /\ Reaches(program, Declared(m), code, m) /\ m.output = 0
  BY <1>1, <1>2, Assembled
<1>4. Inductive'
  BY <1>2, <1>3, NextInductive
<1>5. /\ outer = brackets[Len(brackets)] /\ outer \in Nat /\ m.arity <= outer
      /\ outer <= m.locals
  <2>1. Len(brackets) >= 1
    BY <1>2, <1>3 DEF Inductive, TypeOK
  <2> QED BY <1>3, <2>1, InnermostBracket
<1>6. m.output <= m.clobbered
  BY <1>3, CountedTyped
<1> HIDE DEF outer
<1>7. Reaches(program, Declared(m'), code', m') /\ m'.output = m.output
  BY <1>1, <1>2, <1>3, <1>5, <1>6, KetReaches
<1> QED BY <1>1, <1>2, <1>3, <1>4, <1>7, RequestServed

(* The return: the results stay on the registers.                          *)
LEMMA AssembleRetKeeps ==
  ASSUME LinkageInductive, AssembleRet
  PROVE  LinkageInductive'
<1> DEFINE n == Excess(m)
<1>1. /\ Assembling /\ Ret /\ Proceed
      /\ code' = code \o (SpillCode(m, n, n) \o << Shift("ret", n) >>)
  BY DEF AssembleRet, Requested, Emit
<1>2. mode = "rvalue" /\ mode' = "returned" /\ m' = Returned(m, n) /\ n <= DEPTH /\ Next
  BY <1>1 DEF Ret, Returning, Next
<1>3. /\ Inductive /\ Counted(m) /\ Reaches(program, Declared(m), code, m) /\ m.output = 0
      /\ n \in Nat /\ \A j \in DOMAIN program : IsDescriptor(program[j].descriptor)
  BY <1>1, <1>2, Assembled
<1>4. Inductive'
  BY <1>2, <1>3, NextInductive
<1>5. 1 <= n
  BY <1>1, <1>3 DEF Ret, Returning
<1>6. Reaches(program, Declared(m'), code', m') /\ m'.climbing = m'.sp
  BY <1>1, <1>2, <1>3, <1>5, RetReaches
<1> QED BY <1>1, <1>2, <1>4, <1>6, RequestServed

(* The function is over, and joins the program.                            *)
LEMMA AssembleLeaveKeeps ==
  ASSUME LinkageInductive, AssembleLeave
  PROVE  LinkageInductive'
<1> DEFINE outer == Last(brackets)
           recorded == code \o << Shift("ket", m.locals - outer) >>
           f == [descriptor |-> AsDescriptor', code |-> recorded]
<1>1. /\ Assembling /\ Leave /\ script' = Tail(script) /\ program' = Append(program, f)
      /\ phase' = phase /\ chain' = chain /\ vm' = vm
  BY DEF AssembleLeave, Requested
<1>2. /\ mode = "returned" /\ mode' = "left"
      /\ m' = Closed(m, m.locals - brackets[Len(brackets)]) /\ Next
  BY <1>1 DEF Leave, CloseBracket, Next
<1>3. /\ Inductive /\ Counted(m) /\ Reaches(program, Declared(m), code, m) /\ m.climbing = m.sp
  BY <1>1, <1>2, Assembled
<1>4. Len(brackets) = 1 /\ Excess(m) = 0 /\ brackets[1] = m.arity /\ m.output <= m.clobbered
  <2>1. Len(brackets) = 1 /\ Excess(m) = 0 /\ m.output <= m.clobbered
    BY <1>2, <1>3 DEF Inductive, BodyBracket, ResultsRecorded
  <2>2. brackets # <<>>
    BY <2>1
  <2> QED BY <1>3, <2>1, <2>2 DEF Inductive, BodyBracket
<1>5. outer = m.arity /\ outer \in Nat /\ outer <= m.locals
      /\ m' = Closed(m, m.locals - outer)
  BY <1>2, <1>3, <1>4, InnermostBracket
<1>6. /\ Reaches(program, Declared(m'), recorded, m') /\ recorded \in Seq(Instructions)
      /\ m'.used = 0 /\ m'.frameUsed = outer /\ m'.sp = m.sp /\ m'.climbing = m.climbing
      /\ Declared(m') = Declared(m)
  <2> HIDE DEF outer
  <2> QED BY <1>3, <1>4, <1>5, KetReaches
<1>7. AsDescriptor' = Declared(m') /\ m'.arity = m.arity
  BY <1>6 DEF AsDescriptor, Declared
<1>8. IsDescriptor(Declared(m'))
  <2>1. Inductive'
    BY <1>2, <1>3, NextInductive
  <2>2. LeaveAssertions'
    BY <2>1, InductiveLeaves, PTL
  <2>3. IsDescriptor(AsDescriptor')
    BY <1>2, <2>2 DEF LeaveAssertions, IsDescriptor, AsDescriptor
  <2> QED BY <1>7, <2>3
<1>9. PICK u : Traced(program, Declared(m'), recorded, u) /\ u[Len(u)] = m'
  BY <1>6 DEF Reaches
<1> HIDE DEF recorded, outer
<1>10. f.descriptor = Declared(m') /\ f.code = recorded
  BY <1>7
<1>11. f \in [descriptor: Descriptor, code: Seq(Instructions)]
  BY <1>6, <1>8, <1>10 DEF IsDescriptor
<1> HIDE DEF f
<1>12. Finished(f.descriptor, m')
  BY <1>3, <1>5, <1>6, <1>7, <1>10 DEF Finished
<1>13. FunctionTraced(program, f, u)
  BY <1>9, <1>10, <1>12 DEF FunctionTraced
<1>14. Linked(program')
  BY <1>1, <1>8, <1>10, <1>11, <1>13, LinkedAppend DEF LinkageInductive
<1>15. script' \in Seq(CompilerRequests) /\ phase = "assembling"
  BY <1>1, RequestTyped DEF Assembling
<1> QED BY <1>1, <1>2, <1>14, <1>15 DEF LinkageInductive, InProgress

-----------------------------------------------------------------------------
(* Execution.                                                              *)

(* The call itself does not change from one instruction to the next.       *)
SameCall(c, c2) == c2.function = c.function /\ c2.fp = c.fp /\ c2.held = c.held

(* The innermost call went on, the calls that wait for it did not.         *)
LEMMA TopMoves ==
  ASSUME NEW p, NEW ch, NEW machine, CallsNested(p, ch, machine),
         NEW c \in Calls, SameCall(ch[Len(ch)], c), NEW s, Active(p, Size(p, ch), c, s),
         NEW machine2 \in Machines, Agrees(c, s, machine2)
  PROVE  CallsNested(p, [ch EXCEPT ![Len(ch)] = c], machine2)
<1> DEFINE n == Len(ch)
           ch2 == [ch EXCEPT ![n] = c]
<1>1. /\ ch \in Seq(Calls) /\ ch # <<>> /\ ch[1].fp = 0 /\ ch[1].held = 0
      /\ \A i \in DOMAIN ch :
           \E r : /\ Active(p, Size(p, ch), ch[i], r)
                  /\ IF i = Len(ch) THEN Agrees(ch[i], r, machine)
                                    ELSE Suspended(p, ch[i], r, ch[i + 1])
  BY DEF CallsNested
<1>2. n \in Nat /\ n >= 1 /\ DOMAIN ch = 1 .. n
  BY <1>1
<1>3. /\ ch2 \in Seq(Calls) /\ Len(ch2) = n /\ DOMAIN ch2 = 1 .. n /\ ch2 # <<>>
      /\ ch2[n] = c /\ \A i \in 1 .. n : i # n => ch2[i] = ch[i]
  BY <1>1, <1>2
<1>4. \A i \in 1 .. n : SameCall(ch[i], ch2[i])
  BY <1>2, <1>3 DEF SameCall
<1>5. ch2[1].fp = 0 /\ ch2[1].held = 0 /\ Size(p, ch2) = Size(p, ch)
  BY <1>1, <1>2, <1>4 DEF SameCall, Size
<1> HIDE DEF ch2
<1>6. ASSUME NEW i \in 1 .. n
      PROVE  \E r : /\ Active(p, Size(p, ch2), ch2[i], r)
                    /\ IF i = Len(ch2) THEN Agrees(ch2[i], r, machine2)
                                       ELSE Suspended(p, ch2[i], r, ch2[i + 1])
  <2>1. CASE i = n
    BY <1>3, <1>5, <2>1
  <2>2. CASE i # n
    <3>1. PICK r : Active(p, Size(p, ch), ch[i], r) /\ Suspended(p, ch[i], r, ch[i + 1])
      BY <1>1, <1>2, <2>2
    <3>2. i + 1 \in 1 .. n
      <4>1. n \in Nat
        BY <1>2
      <4> HIDE DEF n
      <4> QED BY <2>2, <4>1
    <3>4. SameCall(ch[i + 1], ch2[i + 1])
      BY <1>4, <3>2
    <3>3. Suspended(p, ch[i], r, ch2[i + 1])
      BY <3>1, <3>4 DEF Suspended, SameCall
    <3> QED BY <1>3, <1>5, <2>2, <3>1, <3>3
  <2> QED BY <2>1, <2>2
<1> QED BY <1>3, <1>5, <1>6 DEF CallsNested, ch2, n

(* The innermost call is at an instruction, with the counters s before it  *)
(* and t after it.                                                         *)
Before(s, t) ==
  LET d == Descr(Top.function)
  IN  /\ Top \in Calls /\ Top = chain[Len(chain)] /\ Top.function \in DOMAIN program
      /\ IsDescriptor(d) /\ Instr \in Instructions
      /\ Fits(d, s) /\ Fits(d, t) /\ Executable(program, d, s, Instr, t)
      /\ Agrees(Top, s, vm) /\ Top.tsp = s.sp
      /\ Top.held + CalleeClobbers(d) <= DEPTH
      /\ Top.fp + d.frameClobbered <= StackSize
      /\ \A c \in Calls : SameCall(Top, c) /\ c.pc = Top.pc + 1 /\ c.tsp = t.sp
                            => Active(program, StackSize, c, t)

(* Such counters there are, as the invariant says.                         *)
LEMMA ExecutionStep ==
  ASSUME LinkageInductive, Running, ~AtEnd
  PROVE  \E s, t : Before(s, t)
<1> DEFINE n == Len(chain)
           f == program[Top.function]
           d == f.descriptor
<1>1. CallsNested(program, chain, vm) /\ Linked(program)
  BY DEF LinkageInductive, Running
<1>2. chain \in Seq(Calls) /\ chain # <<>>
  BY <1>1 DEF CallsNested
<1>3. n \in DOMAIN chain /\ Top = chain[n] /\ Top \in Calls
  BY <1>2 DEF Top, Last
<1>4. StackSize = Size(program, chain)
  BY DEF StackSize, Size, Descr
<1>5. PICK s : Active(program, StackSize, Top, s) /\ Agrees(Top, s, vm)
  BY <1>1, <1>3, <1>4 DEF CallsNested
<1>6. /\ Top.function \in DOMAIN program /\ Top.tsp = s.sp
      /\ Top.held + CalleeClobbers(d) <= DEPTH /\ Top.fp + d.frameClobbered <= StackSize
  BY <1>5 DEF Active
<1>7. PICK u : FunctionTraced(program, f, u) /\ Top.pc \in 1 .. Len(u) /\ s = u[Top.pc]
  BY <1>5 DEF Active
<1>8. IsDescriptor(d) /\ Top.pc \in Nat
  BY <1>1, <1>3, <1>6, LinkedFacts DEF Calls
<1>9. /\ f.code \in Seq(Instructions) /\ Len(u) = Len(f.code) + 1
      /\ \A k \in 1 .. Len(u) : Fits(d, u[k])
      /\ \A k \in 1 .. Len(f.code) : Stepped(program, d, u[k], f.code[k], u[k + 1])
  BY <1>7 DEF FunctionTraced, Traced
<1>10. Top.pc \in 1 .. Len(f.code) /\ Top.pc + 1 \in 1 .. Len(u)
  BY <1>7, <1>8, <1>9 DEF AtEnd
<1> DEFINE t == u[Top.pc + 1]
<1>11. Instr = f.code[Top.pc]
  BY DEF Instr
<1> HIDE DEF f
<1>12. /\ Fits(d, s) /\ Fits(d, t) /\ Instr \in Instructions
       /\ Executable(program, d, s, Instr, t)
  BY <1>7, <1>9, <1>10, <1>11 DEF Stepped
<1>13. ASSUME NEW c \in Calls, SameCall(Top, c), c.pc = Top.pc + 1, c.tsp = t.sp
       PROVE  Active(program, StackSize, c, t)
  BY <1>6, <1>7, <1>10, <1>13 DEF Active, SameCall, f
<1>14. Descr(Top.function) = d
  BY DEF Descr, f
<1> HIDE DEF t, d
<1>15. Before(s, t)
  BY <1>3, <1>5, <1>6, <1>8, <1>12, <1>13, <1>14 DEF Before
<1> QED BY <1>15

(* The numbers of that step.                                               *)
LEMMA StepNumbers ==
  ASSUME LinkageInductive, Running, NEW s, NEW t, Before(s, t)
  PROVE  LET d == Descr(Top.function)
         IN  /\ Top.fp \in Nat /\ Top.held \in Nat /\ Top.pc \in Nat /\ Top.tsp \in Nat
             /\ s.used \in Nat /\ s.output \in Nat /\ s.frameUsed \in Nat /\ s.sp \in Nat
             /\ t.used \in Nat /\ t.output \in Nat /\ t.frameUsed \in Nat /\ t.sp \in Nat
             /\ d.clobbered \in Nat /\ d.frameClobbered \in Nat /\ DEPTH \in Nat
             /\ StackSize \in Nat
             /\ Top.held + d.clobbered <= DEPTH
             /\ Frameless(d) \/ Top.held = 0
             /\ s.used + s.output <= d.clobbered /\ t.used + t.output <= d.clobbered
             /\ Top.held + (s.used + s.output) <= DEPTH
             /\ Top.held + (t.used + t.output) <= DEPTH
             /\ Top.fp + s.frameUsed <= StackSize /\ Top.fp + t.frameUsed <= StackSize
             /\ s.frameUsed <= StackSize - Top.fp
             /\ vm \in Machines /\ chain \in Seq(Calls) /\ Len(chain) \in DOMAIN chain
<1> DEFINE d == Descr(Top.function)
<1>1. /\ Top \in Calls /\ IsDescriptor(d) /\ Fits(d, s) /\ Fits(d, t)
      /\ Top.held + CalleeClobbers(d) <= DEPTH /\ Top.fp + d.frameClobbered <= StackSize
  BY DEF Before
<1>2. CallsNested(program, chain, vm) /\ Linked(program)
  BY DEF LinkageInductive, Running
<1>3. vm \in Machines /\ chain \in Seq(Calls) /\ Len(chain) \in DOMAIN chain /\ 1 \in DOMAIN chain
  BY <1>2 DEF CallsNested
<1>4. StackSize \in Nat
  <2>1. chain[1].function \in DOMAIN program
    BY <1>2, <1>3 DEF CallsNested, Active
  <2>2. IsDescriptor(Descr(chain[1].function))
    BY <1>2, <2>1, LinkedFacts DEF Descr
  <2> QED BY <2>2, CalleeFacts DEF StackSize
<1> HIDE DEF d
<1>5. /\ Top.fp \in Nat /\ Top.held \in Nat /\ Top.pc \in Nat /\ Top.tsp \in Nat
      /\ d.clobbered \in Nat /\ d.frameClobbered \in Nat /\ DEPTH \in Nat
  BY <1>1, CalleeFacts, DepthAssumption DEF Calls
<1>6. /\ s.used \in Nat /\ s.output \in Nat /\ s.frameUsed \in Nat /\ s.sp \in Nat
      /\ t.used \in Nat /\ t.output \in Nat /\ t.frameUsed \in Nat /\ t.sp \in Nat
      /\ s.used + s.output <= d.clobbered /\ t.used + t.output <= d.clobbered
      /\ s.frameUsed <= d.frameClobbered /\ t.frameUsed <= d.frameClobbered
  BY <1>1 DEF Fits, MonitorState
<1>7. Top.held + d.clobbered <= DEPTH /\ (Frameless(d) \/ Top.held = 0)
  <2>1. d.clobbered <= DEPTH
    BY <1>1 DEF IsDescriptor
  <2> QED BY <1>1, <1>5, <2>1 DEF CalleeClobbers
<1>8. Top.held + (s.used + s.output) <= DEPTH /\ Top.held + (t.used + t.output) <= DEPTH
  BY <1>5, <1>6, <1>7
<1>9. Top.fp + s.frameUsed <= StackSize /\ Top.fp + t.frameUsed <= StackSize
      /\ s.frameUsed <= StackSize - Top.fp
  BY <1>1, <1>4, <1>5, <1>6
<1> QED BY <1>3, <1>4, <1>5, <1>6, <1>7, <1>8, <1>9 DEF d

(* Nothing is assembled while a function is executed.                      *)
LEMMA AssemblyKept ==
  ASSUME LinkageInductive, UNCHANGED assemblerVars
  PROVE  InProgress' /\ Linked(program') /\ script' \in Seq(CompilerRequests)
<1>1. /\ program' = program /\ m' = m /\ brackets' = brackets /\ mode' = mode /\ code' = code
      /\ script' = script
  BY DEF assemblerVars
<1>2. Inductive => Inductive'
  BY <1>1, NextInductive DEF vars
<1>3. InProgress'
  BY <1>1, <1>2 DEF LinkageInductive, InProgress
<1> QED BY <1>1, <1>3 DEF LinkageInductive

(* After an instruction other than a call.                                 *)
LEMMA StepTaken ==
  ASSUME LinkageInductive, Running, NEW s, NEW t, Before(s, t),
         NEW c \in Calls, SameCall(Top, c), c.pc = Top.pc + 1, c.tsp = t.sp,
         chain' = [chain EXCEPT ![Len(chain)] = c], vm' \in Machines, Agrees(c, t, vm'),
         UNCHANGED <<assemblerVars, phase>>
  PROVE  LinkageInductive'
<1>1. CallsNested(program, chain, vm) /\ phase = "running"
  BY DEF LinkageInductive, Running
<1>2. /\ Active(program, StackSize, c, t) /\ SameCall(chain[Len(chain)], c)
  BY DEF Before
<1>3. StackSize = Size(program, chain)
  BY DEF StackSize, Size, Descr
<1>4. CallsNested(program, chain', vm')
  BY <1>1, <1>2, <1>3, TopMoves
<1>5. InProgress' /\ Linked(program') /\ script' \in Seq(CompilerRequests)
      /\ program' = program /\ phase' = phase
  BY AssemblyKept DEF assemblerVars
<1>6. vm'.fault = FALSE
  BY DEF Machines
<1> QED BY <1>1, <1>4, <1>5, <1>6 DEF LinkageInductive

(* After an instruction that leaves the stack pointer alone.               *)
LEMMA Continues ==
  ASSUME LinkageInductive, Running, NEW s, NEW t, Before(s, t), t.sp = s.sp,
         NEW accepted, accepted = TRUE, NEW machine \in Machines, Agrees(Top, t, machine),
         Continue(accepted, machine)
  PROVE  LinkageInductive'
<1> DEFINE c == [Top EXCEPT !.pc = @ + 1]
<1>1. /\ vm' = [machine EXCEPT !.fault = ~accepted]
      /\ chain' = [chain EXCEPT ![Len(chain)].pc = @ + 1]
      /\ UNCHANGED <<assemblerVars, phase>>
  BY DEF Continue
<1>2. vm' = machine
  BY <1>1 DEF Machines
<1>3. Top \in Calls /\ Top = chain[Len(chain)] /\ Top.tsp = s.sp
  BY DEF Before
<1>4. Top.pc + 1 \in Nat
  BY <1>3 DEF Calls
<1>5. /\ c \in Calls /\ c.pc = Top.pc + 1 /\ c.tsp = Top.tsp /\ SameCall(Top, c)
  BY <1>3, <1>4 DEF Calls, SameCall
<1>6. chain' = [chain EXCEPT ![Len(chain)] = c]
  BY <1>1, <1>3
<1> HIDE DEF c
<1>7. Agrees(c, t, vm')
  BY <1>2, <1>5 DEF Agrees, SameCall
<1> QED BY <1>1, <1>2, <1>3, <1>5, <1>6, <1>7, StepTaken

(* The operands are on the registers, and there is room for the results.   *)
LEMMA ExecuteFpuKeeps ==
  ASSUME LinkageInductive, ExecuteFpu
  PROVE  LinkageInductive'
<1> DEFINE left == vm.regs - Instr.consumed
           machine == [vm EXCEPT !.regs = left + Instr.produced]
<1>1. /\ Running /\ ~AtEnd /\ Instr.op = "fpu"
      /\ Continue(left >= 0 /\ left + Instr.produced <= DEPTH, machine)
  BY DEF ExecuteFpu, Executing
<1>2. PICK s, t : Before(s, t)
  BY <1>1, ExecutionStep
<1>3. /\ Top.held \in Nat /\ s.used \in Nat /\ s.output \in Nat /\ DEPTH \in Nat
      /\ Top.held + (t.used + t.output) <= DEPTH /\ vm \in Machines
  BY <1>1, <1>2, StepNumbers
<1>4. /\ Instr.consumed <= s.used /\ t.used = (s.used - Instr.consumed) + Instr.produced
      /\ t.frameUsed = s.frameUsed /\ t.sp = s.sp /\ t.output = s.output
  BY <1>1, <1>2 DEF Before, Executable, Leaves
<1>5. Instr.consumed \in Nat /\ Instr.produced \in Nat
  BY <1>1, <1>2 DEF Before, Instructions
<1>6. /\ vm.regs = Top.held + (s.used + s.output) /\ vm.used = Top.fp + s.frameUsed
      /\ vm.sp = Top.fp + s.sp /\ (s.output > 0 => vm.output = s.output)
  BY <1>2 DEF Before, Agrees
<1>7. /\ left >= 0 /\ left + Instr.produced = Top.held + (t.used + t.output)
      /\ left + Instr.produced \in Nat
  BY <1>3, <1>4, <1>5, <1>6
<1>8. machine \in Machines /\ machine.regs = left + Instr.produced /\ machine.used = vm.used
      /\ machine.sp = vm.sp /\ machine.output = vm.output
  BY <1>3, <1>7 DEF Machines
<1>9. Agrees(Top, t, machine)
  BY <1>4, <1>6, <1>7, <1>8 DEF Agrees
<1>10. (left >= 0 /\ left + Instr.produced <= DEPTH) = TRUE
  BY <1>3, <1>7
<1> HIDE DEF machine, left
<1> QED BY <1>1, <1>2, <1>4, <1>8, <1>9, <1>10, Continues

(* There is a register to load to.                                         *)
LEMMA ExecuteLoadKeeps ==
  ASSUME LinkageInductive, ExecuteLoad
  PROVE  LinkageInductive'
<1> DEFINE machine == [vm EXCEPT !.regs = @ + 1]
<1>1. /\ Running /\ ~AtEnd /\ Instr.op = "load"
      /\ Continue(Addressable(Instr.slot) /\ vm.regs < DEPTH, machine)
  BY DEF ExecuteLoad, Executing
<1>2. PICK s, t : Before(s, t)
  BY <1>1, ExecutionStep
<1>3. /\ Top.held \in Nat /\ s.used \in Nat /\ s.output \in Nat /\ DEPTH \in Nat
      /\ s.frameUsed \in Nat /\ StackSize \in Nat /\ Top.fp \in Nat
      /\ Top.held + (t.used + t.output) <= DEPTH /\ vm \in Machines
      /\ s.frameUsed <= StackSize - Top.fp
  BY <1>1, <1>2, StepNumbers
<1>4. /\ Instr.slot < s.frameUsed /\ t.used = s.used + 1
      /\ t.frameUsed = s.frameUsed /\ t.sp = s.sp /\ t.output = s.output
  BY <1>1, <1>2 DEF Before, Executable, Leaves
<1>5. Instr.slot \in Nat
  BY <1>1, <1>2 DEF Before, Instructions
<1>6. /\ vm.regs = Top.held + (s.used + s.output) /\ vm.used = Top.fp + s.frameUsed
      /\ vm.sp = Top.fp + s.sp /\ (s.output > 0 => vm.output = s.output)
  BY <1>2 DEF Before, Agrees
<1>7. /\ vm.regs + 1 = Top.held + (t.used + t.output) /\ vm.regs < DEPTH /\ vm.regs + 1 \in Nat
  <2>1. vm.regs \in Nat /\ vm.regs + 1 = Top.held + (t.used + t.output)
    BY <1>3, <1>4, <1>6
  <2> QED BY <2>1, <1>3
<1>8. machine \in Machines /\ machine.regs = vm.regs + 1 /\ machine.used = vm.used
      /\ machine.sp = vm.sp /\ machine.output = vm.output
  BY <1>3, <1>7 DEF Machines
<1>9. Agrees(Top, t, machine)
  BY <1>4, <1>6, <1>7, <1>8 DEF Agrees
<1>10. Addressable(Instr.slot)
  BY <1>3, <1>4, <1>5 DEF Addressable
<1>11. (Addressable(Instr.slot) /\ vm.regs < DEPTH) = TRUE
  BY <1>7, <1>10
<1> HIDE DEF machine
<1> QED BY <1>1, <1>2, <1>4, <1>8, <1>9, <1>11, Continues

(* There is a register to store, and a slot of the stack to store it to.   *)
LEMMA ExecuteStoreKeeps ==
  ASSUME LinkageInductive, ExecuteStore
  PROVE  LinkageInductive'
<1> DEFINE used == IF Instr.op = "alloca" THEN vm.used + 1 ELSE vm.used
           machine == [vm EXCEPT !.regs = @ - 1,
                                 !.used = IF Instr.op = "alloca" THEN @ + 1 ELSE @]
<1>1. /\ Running /\ ~AtEnd /\ Instr.op \in {"store", "alloca"}
      /\ Continue(Addressable(Instr.slot) /\ vm.regs > 0, machine)
  BY DEF ExecuteStore, Executing
<1>2. PICK s, t : Before(s, t)
  BY <1>1, ExecutionStep
<1>3. /\ Top.held \in Nat /\ s.used \in Nat /\ s.output \in Nat
      /\ s.frameUsed \in Nat /\ t.frameUsed \in Nat /\ StackSize \in Nat /\ Top.fp \in Nat
      /\ Top.fp + t.frameUsed <= StackSize /\ Top.fp + s.frameUsed <= StackSize
      /\ vm \in Machines
  BY <1>1, <1>2, StepNumbers
<1>4. /\ Instr.slot < t.frameUsed \/ Instr.slot < s.frameUsed
      /\ 1 <= s.used /\ t.used = s.used - 1
      /\ t.frameUsed = IF Instr.op = "alloca" THEN s.frameUsed + 1 ELSE s.frameUsed
      /\ t.sp = s.sp /\ t.output = s.output
  <2>1. CASE Instr.op = "store"
    BY <1>2, <2>1 DEF Before, Executable, Leaves
  <2>2. CASE Instr.op = "alloca"
    <3>1. Instr.slot = s.frameUsed /\ t.frameUsed = s.frameUsed + 1
          /\ 1 <= s.used /\ t.used = s.used - 1 /\ t.sp = s.sp /\ t.output = s.output
      BY <1>2, <2>2 DEF Before, Executable, Leaves
    <3> QED BY <1>3, <2>2, <3>1
  <2> QED BY <1>1, <2>1, <2>2
<1>5. Instr.slot \in Nat
  BY <1>1, <1>2 DEF Before, Instructions
<1>6. /\ vm.regs = Top.held + (s.used + s.output) /\ vm.used = Top.fp + s.frameUsed
      /\ vm.sp = Top.fp + s.sp /\ (s.output > 0 => vm.output = s.output)
  BY <1>2 DEF Before, Agrees
<1>7. /\ vm.regs - 1 = Top.held + (t.used + t.output) /\ vm.regs > 0 /\ vm.regs - 1 \in Nat
      /\ used = Top.fp + t.frameUsed /\ used \in Nat
  BY <1>3, <1>4, <1>6
<1>8. machine \in Machines /\ machine.regs = vm.regs - 1 /\ machine.used = used
      /\ machine.sp = vm.sp /\ machine.output = vm.output
  BY <1>3, <1>7 DEF Machines
<1> HIDE DEF machine, used
<1>9. Agrees(Top, t, machine)
  BY <1>4, <1>6, <1>7, <1>8 DEF Agrees
<1>10. Addressable(Instr.slot)
  BY <1>3, <1>4, <1>5 DEF Addressable
<1>11. (Addressable(Instr.slot) /\ vm.regs > 0) = TRUE
  BY <1>7, <1>10
<1> QED BY <1>1, <1>2, <1>4, <1>8, <1>9, <1>11, Continues

(* The slots to reload are the last ones in use.                           *)
LEMMA ExecuteReloadKeeps ==
  ASSUME LinkageInductive, ExecuteReload
  PROVE  LinkageInductive'
<1> DEFINE machine == [vm EXCEPT !.regs = @ + Instr.n, !.used = Top.fp + Instr.to]
           accepted == /\ Instr.to + Instr.n = vm.used - Top.fp
                       /\ Addressable(Instr.to + Instr.n - 1)
                       /\ vm.regs + Instr.n <= DEPTH
<1>1. Running /\ ~AtEnd /\ Instr.op = "fld" /\ Continue(accepted, machine)
  BY DEF ExecuteReload, Executing
<1>2. PICK s, t : Before(s, t)
  BY <1>1, ExecutionStep
<1>3. /\ Top.held \in Nat /\ s.used \in Nat /\ s.output \in Nat /\ DEPTH \in Nat
      /\ s.frameUsed \in Nat /\ StackSize \in Nat /\ Top.fp \in Nat
      /\ Top.held + (t.used + t.output) <= DEPTH /\ vm \in Machines
      /\ s.frameUsed <= StackSize - Top.fp
  BY <1>1, <1>2, StepNumbers
<1>4. /\ Instr.to + Instr.n = s.frameUsed /\ 1 <= Instr.n /\ t.used = s.used + Instr.n
      /\ t.frameUsed = Instr.to /\ t.sp = s.sp /\ t.output = s.output
  BY <1>1, <1>2 DEF Before, Executable, Leaves
<1>5. Instr.to \in Nat /\ Instr.n \in Nat
  BY <1>1, <1>2 DEF Before, Instructions
<1>6. /\ vm.regs = Top.held + (s.used + s.output) /\ vm.used = Top.fp + s.frameUsed
      /\ vm.sp = Top.fp + s.sp /\ (s.output > 0 => vm.output = s.output)
  BY <1>2 DEF Before, Agrees
<1>7. /\ vm.regs + Instr.n = Top.held + (t.used + t.output) /\ vm.regs + Instr.n \in Nat
      /\ Top.fp + Instr.to \in Nat
  BY <1>3, <1>4, <1>5, <1>6
<1>8. machine \in Machines /\ machine.regs = vm.regs + Instr.n
      /\ machine.used = Top.fp + Instr.to /\ machine.sp = vm.sp /\ machine.output = vm.output
  BY <1>3, <1>7 DEF Machines
<1>9. Agrees(Top, t, machine)
  BY <1>4, <1>6, <1>7, <1>8 DEF Agrees
<1>10. accepted = TRUE
  <2>1. Addressable(Instr.to + Instr.n - 1)
    BY <1>3, <1>4, <1>5 DEF Addressable
  <2> QED BY <2>1, <1>3, <1>4, <1>6, <1>7
<1> HIDE DEF machine, accepted
<1> QED BY <1>1, <1>2, <1>4, <1>8, <1>9, <1>10, Continues

(* The frame has room for the registers that are spilled.                  *)
LEMMA ExecuteSpillKeeps ==
  ASSUME LinkageInductive, ExecuteSpill
  PROVE  LinkageInductive'
<1> DEFINE machine == [vm EXCEPT !.regs = @ - Instr.n, !.used = Top.fp + Instr.to]
           accepted == /\ Instr.to - Instr.n = vm.used - Top.fp
                       /\ Addressable(Instr.to - 1)
                       /\ vm.regs >= Instr.n
<1>1. Running /\ ~AtEnd /\ Instr.op = "fstp" /\ Continue(accepted, machine)
  BY DEF ExecuteSpill, Executing
<1>2. PICK s, t : Before(s, t)
  BY <1>1, ExecutionStep
<1>3. /\ Top.held \in Nat /\ s.used \in Nat /\ s.output \in Nat
      /\ s.frameUsed \in Nat /\ t.frameUsed \in Nat /\ StackSize \in Nat /\ Top.fp \in Nat
      /\ Top.fp + t.frameUsed <= StackSize /\ vm \in Machines
  BY <1>1, <1>2, StepNumbers
<1>4. /\ Instr.to = s.frameUsed + Instr.n /\ 1 <= Instr.n /\ Instr.n <= s.used
      /\ t.used = s.used - Instr.n
      /\ t.frameUsed = Instr.to /\ t.sp = s.sp /\ t.output = s.output
  BY <1>1, <1>2 DEF Before, Executable, Leaves
<1>5. Instr.to \in Nat /\ Instr.n \in Nat
  BY <1>1, <1>2 DEF Before, Instructions
<1>6. /\ vm.regs = Top.held + (s.used + s.output) /\ vm.used = Top.fp + s.frameUsed
      /\ vm.sp = Top.fp + s.sp /\ (s.output > 0 => vm.output = s.output)
  BY <1>2 DEF Before, Agrees
<1>7. /\ vm.regs - Instr.n = Top.held + (t.used + t.output) /\ vm.regs - Instr.n \in Nat
      /\ Top.fp + Instr.to \in Nat /\ vm.regs >= Instr.n
  BY <1>3, <1>4, <1>5, <1>6
<1>8. machine \in Machines /\ machine.regs = vm.regs - Instr.n
      /\ machine.used = Top.fp + Instr.to /\ machine.sp = vm.sp /\ machine.output = vm.output
  BY <1>3, <1>7 DEF Machines
<1>9. Agrees(Top, t, machine)
  BY <1>4, <1>6, <1>7, <1>8 DEF Agrees
<1>10. accepted = TRUE
  <2>1. Addressable(Instr.to - 1)
    BY <1>3, <1>4, <1>5 DEF Addressable
  <2> QED BY <2>1, <1>3, <1>4, <1>5, <1>6, <1>7
<1> HIDE DEF machine, accepted
<1> QED BY <1>1, <1>2, <1>4, <1>8, <1>9, <1>10, Continues

(* The assertion bra and ket make on the registers only marks the machine. *)
LEMMA ExecuteBracketKeeps ==
  ASSUME LinkageInductive, ExecuteBracket
  PROVE  LinkageInductive'
<1> DEFINE stale == vm.stale \/ ~HeadTail(Descr(Top.function), vm.output, vm.regs)
           machine == [vm EXCEPT !.used = IF Instr.op = "bra" THEN @ ELSE @ - Instr.n,
                                 !.stale = @ \/ ~HeadTail(Descr(Top.function), vm.output, vm.regs)]
           used == IF Instr.op = "bra" THEN vm.used ELSE vm.used - Instr.n
           accepted == IF Instr.op = "bra" THEN vm.used - Top.fp = Instr.n
                       ELSE Instr.n <= vm.used - Top.fp
<1>1. Running /\ ~AtEnd /\ Instr.op \in {"bra", "ket"} /\ Continue(accepted, machine)
  BY DEF ExecuteBracket, Executing
<1>2. PICK s, t : Before(s, t)
  BY <1>1, ExecutionStep
<1>3. /\ s.frameUsed \in Nat /\ t.frameUsed \in Nat /\ Top.fp \in Nat /\ vm \in Machines
  BY <1>1, <1>2, StepNumbers
<1>4. /\ Instr.n <= s.frameUsed /\ (Instr.op = "bra" => Instr.n = s.frameUsed)
      /\ t.frameUsed = IF Instr.op = "bra" THEN s.frameUsed ELSE s.frameUsed - Instr.n
      /\ t.used = s.used /\ t.sp = s.sp /\ t.output = s.output
  <2>1. CASE Instr.op = "bra"
    BY <1>2, <1>3, <2>1 DEF Before, Executable, Leaves
  <2>2. CASE Instr.op = "ket"
    BY <1>2, <2>2 DEF Before, Executable, Leaves
  <2> QED BY <1>1, <2>1, <2>2
<1>5. Instr.n \in Nat
  BY <1>1, <1>2 DEF Before, Instructions
<1>6. /\ vm.regs = Top.held + (s.used + s.output) /\ vm.used = Top.fp + s.frameUsed
      /\ vm.sp = Top.fp + s.sp /\ (s.output > 0 => vm.output = s.output)
  BY <1>2 DEF Before, Agrees
<1>7. used = Top.fp + t.frameUsed /\ used \in Nat /\ stale \in BOOLEAN
  <2>1. used = Top.fp + t.frameUsed /\ used \in Nat
    BY <1>3, <1>4, <1>5, <1>6
  <2>2. stale \in BOOLEAN
    OBVIOUS
  <2> QED BY <2>1, <2>2
<1>8. /\ machine \in Machines /\ machine.used = used /\ machine.regs = vm.regs
      /\ machine.sp = vm.sp /\ machine.output = vm.output
  <2> HIDE DEF stale, used
  <2>1. machine = [vm EXCEPT !.used = used, !.stale = stale]
    BY <1>3 DEF Machines, stale, used
  <2> QED BY <2>1, <1>3, <1>7 DEF Machines
<1> HIDE DEF machine, used, stale
<1>9. Agrees(Top, t, machine)
  BY <1>4, <1>6, <1>7, <1>8 DEF Agrees
<1>10. accepted = TRUE
  BY <1>3, <1>4, <1>5, <1>6
<1> HIDE DEF accepted
<1> QED BY <1>1, <1>2, <1>4, <1>8, <1>9, <1>10, Continues

(* The registers in use are the results.                                   *)
LEMMA ExecuteRetKeeps ==
  ASSUME LinkageInductive, ExecuteRet
  PROVE  LinkageInductive'
<1> DEFINE d == Descr(Top.function)
           machine == [vm EXCEPT !.output = Instr.n]
<1>1. Running /\ ~AtEnd /\ Instr.op = "ret"
      /\ Continue(HeadTail(Descr(Top.function), Instr.n, vm.regs), machine)
  BY DEF ExecuteRet, Executing
<1>2. PICK s, t : Before(s, t)
  BY <1>1, ExecutionStep
<1>3. /\ Top.held \in Nat /\ s.used \in Nat /\ DEPTH \in Nat /\ d.clobbered \in Nat
      /\ t.used + t.output <= d.clobbered /\ Top.held + d.clobbered <= DEPTH
      /\ (Frameless(d) \/ Top.held = 0) /\ vm \in Machines
  BY <1>1, <1>2, StepNumbers
<1>4. /\ s.output = 0 /\ Instr.n = s.used /\ t.used = 0 /\ t.frameUsed = s.frameUsed
      /\ t.sp = s.sp /\ t.output = Instr.n
  BY <1>1, <1>2 DEF Before, Executable, Leaves
<1>5. /\ vm.regs = Top.held + (s.used + s.output) /\ vm.used = Top.fp + s.frameUsed
      /\ vm.sp = Top.fp + s.sp
  BY <1>2 DEF Before, Agrees
<1> HIDE DEF d
<1>6. HeadTail(d, Instr.n, vm.regs)
  BY <1>3, <1>4, <1>5 DEF HeadTail
<1>7. machine \in Machines /\ machine.regs = vm.regs /\ machine.used = vm.used
      /\ machine.sp = vm.sp /\ machine.output = Instr.n
  BY <1>3, <1>4 DEF Machines
<1> HIDE DEF machine
<1>8. Agrees(Top, t, machine)
  <2>1. vm.regs = Top.held + (t.used + t.output)
    BY <1>3, <1>4, <1>5
  <2> QED BY <2>1, <1>4, <1>5, <1>7 DEF Agrees
<1>9. HeadTail(Descr(Top.function), Instr.n, vm.regs) = TRUE
  BY <1>6 DEF d, HeadTail
<1> QED BY <1>1, <1>2, <1>4, <1>7, <1>8, <1>9, Continues

(* sp_inc and sp_dec stay within the part of the frame that is used.       *)
LEMMA ShiftFacts ==
  ASSUME LinkageInductive, ExecuteShift
  PROVE  \E s, t :
           LET n == IF Instr.op = "sp_inc" THEN Instr.n ELSE - Instr.n
           IN  /\ Before(s, t) /\ Running /\ n \in Int /\ t.sp = s.sp + n
               /\ t.used = s.used /\ t.frameUsed = s.frameUsed /\ t.output = s.output
               /\ Top.fp <= vm.sp + n /\ vm.sp + n <= vm.used /\ vm.sp + n \in Nat
               /\ vm.sp + n = Top.fp + t.sp /\ vm.sp + n <= StackSize
<1>1. /\ Running /\ ~AtEnd /\ Instr.op \in {"sp_inc", "sp_dec"}
  BY DEF ExecuteShift, Executing
<1>2. PICK s, t : Before(s, t)
  BY <1>1, ExecutionStep
<1> DEFINE n == IF Instr.op = "sp_inc" THEN Instr.n ELSE - Instr.n
<1>3. /\ Top.fp \in Nat /\ s.sp \in Nat /\ s.frameUsed \in Nat /\ t.sp \in Nat
      /\ StackSize \in Nat /\ Top.fp + s.frameUsed <= StackSize
  BY <1>1, <1>2, StepNumbers
<1>4. Instr.n \in Nat
  BY <1>1, <1>2 DEF Before, Instructions
<1>5. /\ n \in Int /\ t.sp = s.sp + n /\ t.sp <= s.frameUsed
      /\ t.used = s.used /\ t.frameUsed = s.frameUsed /\ t.output = s.output
  <2>1. CASE Instr.op = "sp_inc"
    BY <1>2, <1>4, <2>1 DEF Before, Executable, Leaves
  <2>2. CASE Instr.op = "sp_dec"
    <3>1. /\ t.sp = s.sp - Instr.n /\ t.sp <= s.frameUsed
          /\ t.used = s.used /\ t.frameUsed = s.frameUsed /\ t.output = s.output
      BY <1>2, <2>2 DEF Before, Executable, Leaves
    <3>2. n = - Instr.n
      BY <2>2
    <3> HIDE DEF n
    <3> QED BY <1>3, <1>4, <3>1, <3>2
  <2> QED BY <1>1, <2>1, <2>2
<1>6. vm.used = Top.fp + s.frameUsed /\ vm.sp = Top.fp + s.sp
  BY <1>2 DEF Before, Agrees
<1> HIDE DEF n
<1>7. /\ vm.sp + n = Top.fp + t.sp /\ Top.fp <= vm.sp + n /\ vm.sp + n <= vm.used
      /\ vm.sp + n \in Nat /\ vm.sp + n <= StackSize
  BY <1>3, <1>5, <1>6
<1> QED BY <1>1, <1>2, <1>5, <1>7 DEF n

(* The stack pointer is moved, and ecx with it.                            *)
LEMMA ExecuteShiftKeeps ==
  ASSUME LinkageInductive, ExecuteShift
  PROVE  LinkageInductive'
<1> DEFINE n == IF Instr.op = "sp_inc" THEN Instr.n ELSE - Instr.n
           ecx == (vm.ecx + n) % Word
           c == [Top EXCEPT !.pc = @ + 1, !.tsp = @ + n]
<1>1. PICK s, t : /\ Before(s, t) /\ Running /\ n \in Int /\ t.sp = s.sp + n
                  /\ t.used = s.used /\ t.frameUsed = s.frameUsed /\ t.output = s.output
                  /\ Top.fp <= vm.sp + n /\ vm.sp + n <= vm.used /\ vm.sp + n \in Nat
                  /\ vm.sp + n = Top.fp + t.sp
  BY ShiftFacts
<1>2. /\ vm' = [vm EXCEPT !.sp = @ + n, !.ecx = (@ + n) % Word,
                          !.fault = ~(Top.fp <= vm.sp + n /\ vm.sp + n <= vm.used)]
      /\ chain' = [chain EXCEPT ![Len(chain)].pc = @ + 1, ![Len(chain)].tsp = @ + n]
      /\ UNCHANGED <<assemblerVars, phase>>
  BY DEF ExecuteShift
<1>3. /\ vm \in Machines /\ t.sp \in Nat /\ Len(chain) \in DOMAIN chain
  BY <1>1, StepNumbers
<1>4. Top \in Calls /\ Top = chain[Len(chain)] /\ Top.tsp = s.sp
  BY <1>1 DEF Before
<1>5. ecx \in Int
  BY <1>1, <1>3, AddressAssumption DEF Machines
<1> HIDE DEF n
<1>6. (~(Top.fp <= vm.sp + n /\ vm.sp + n <= vm.used)) = FALSE
  BY <1>1
<1>7. vm' = [vm EXCEPT !.sp = vm.sp + n, !.ecx = ecx, !.fault = FALSE]
  BY <1>2, <1>3, <1>6 DEF Machines
<1> HIDE DEF ecx
<1>8. /\ vm' \in Machines /\ vm'.sp = vm.sp + n /\ vm'.regs = vm.regs /\ vm'.used = vm.used
      /\ vm'.output = vm.output
  BY <1>1, <1>3, <1>5, <1>7 DEF Machines
<1>9. Top.pc + 1 \in Nat /\ Top.tsp + n \in Nat
  BY <1>1, <1>3, <1>4 DEF Calls
<1>10. c \in Calls /\ c.pc = Top.pc + 1 /\ c.tsp = t.sp /\ SameCall(Top, c)
  BY <1>1, <1>4, <1>9 DEF Calls, SameCall
<1>11. chain' = [chain EXCEPT ![Len(chain)] = c]
  BY <1>2, <1>3, <1>4 DEF Calls
<1> HIDE DEF c
<1>12. Agrees(c, t, vm')
  BY <1>1, <1>8, <1>10 DEF Before, Agrees, SameCall
<1> QED BY <1>1, <1>2, <1>8, <1>10, <1>11, <1>12, StepTaken

(* The innermost call waits for a new one.                                 *)
LEMMA CallPushed ==
  ASSUME NEW p, NEW ch, NEW machine, CallsNested(p, ch, machine),
         NEW c \in Calls, SameCall(ch[Len(ch)], c), NEW t, Active(p, Size(p, ch), c, t),
         NEW e \in Calls, Suspended(p, c, t, e), NEW s, Active(p, Size(p, ch), e, s),
         NEW machine2 \in Machines, Agrees(e, s, machine2)
  PROVE  CallsNested(p, [ch EXCEPT ![Len(ch)] = c] \o <<e>>, machine2)
<1> DEFINE n == Len(ch)
           ch1 == [ch EXCEPT ![n] = c]
           ch2 == ch1 \o <<e>>
<1>1. /\ ch \in Seq(Calls) /\ ch # <<>> /\ ch[1].fp = 0 /\ ch[1].held = 0
      /\ \A i \in DOMAIN ch :
           \E r : /\ Active(p, Size(p, ch), ch[i], r)
                  /\ IF i = Len(ch) THEN Agrees(ch[i], r, machine)
                                    ELSE Suspended(p, ch[i], r, ch[i + 1])
  BY DEF CallsNested
<1>2. n \in Nat /\ n >= 1 /\ DOMAIN ch = 1 .. n
  BY <1>1
<1>3. /\ ch1 \in Seq(Calls) /\ Len(ch1) = n
      /\ ch1[n] = c /\ \A i \in 1 .. n : i # n => ch1[i] = ch[i]
  BY <1>1, <1>2
<1> HIDE DEF ch1, n
<1>4. /\ ch2 \in Seq(Calls) /\ Len(ch2) = n + 1 /\ ch2[n + 1] = e
      /\ \A i \in 1 .. n : ch2[i] = ch1[i]
  BY <1>3, OneMore
<1>5. DOMAIN ch2 = 1 .. n + 1 /\ ch2 # <<>> /\ ch2[n] = c
  BY <1>2, <1>3, <1>4
<1> HIDE DEF ch2
<1>6. \A i \in 1 .. n : SameCall(ch[i], ch2[i])
  BY <1>2, <1>3, <1>4 DEF SameCall
<1>7. ch2[1].fp = 0 /\ ch2[1].held = 0 /\ Size(p, ch2) = Size(p, ch)
  BY <1>1, <1>2, <1>6 DEF SameCall, Size
<1>8. ASSUME NEW i \in 1 .. n + 1
      PROVE  \E r : /\ Active(p, Size(p, ch2), ch2[i], r)
                    /\ IF i = Len(ch2) THEN Agrees(ch2[i], r, machine2)
                                       ELSE Suspended(p, ch2[i], r, ch2[i + 1])
  <2>1. CASE i = n + 1
    BY <1>4, <1>7, <2>1
  <2>2. CASE i = n
    <3>1. i # Len(ch2) /\ ch2[i] = c /\ ch2[i + 1] = e
      BY <1>2, <1>4, <1>5, <2>2
    <3> QED BY <1>7, <3>1
  <2>3. CASE i # n /\ i # n + 1
    <3>1. i \in 1 .. n /\ i + 1 \in 1 .. n /\ i # n + 1
      BY <1>2, <2>3
    <3>2. PICK r : Active(p, Size(p, ch), ch[i], r) /\ Suspended(p, ch[i], r, ch[i + 1])
      BY <1>1, <1>2, <2>3, <3>1 DEF n
    <3>3. SameCall(ch[i + 1], ch2[i + 1]) /\ ch2[i] = ch[i]
      BY <1>3, <1>4, <1>6, <2>3, <3>1
    <3>4. Suspended(p, ch[i], r, ch2[i + 1])
      BY <3>2, <3>3 DEF Suspended, SameCall
    <3> QED BY <1>4, <1>7, <3>1, <3>2, <3>3, <3>4
  <2> QED BY <2>1, <2>2, <2>3
<1> QED BY <1>4, <1>5, <1>7, <1>8 DEF CallsNested, ch2, ch1, n

(* The innermost call is over, and the one that waits for it goes on.      *)
LEMMA CallPopped ==
  ASSUME NEW p, NEW ch, NEW machine, CallsNested(p, ch, machine), Len(ch) > 1,
         NEW s, Active(p, Size(p, ch), ch[Len(ch) - 1], s),
         NEW machine2 \in Machines, Agrees(ch[Len(ch) - 1], s, machine2)
  PROVE  CallsNested(p, Front(ch), machine2)
<1> DEFINE n == Len(ch)
           ch2 == Front(ch)
<1>1. /\ ch \in Seq(Calls) /\ ch # <<>> /\ ch[1].fp = 0 /\ ch[1].held = 0
      /\ \A i \in DOMAIN ch :
           \E r : /\ Active(p, Size(p, ch), ch[i], r)
                  /\ IF i = Len(ch) THEN Agrees(ch[i], r, machine)
                                    ELSE Suspended(p, ch[i], r, ch[i + 1])
  BY DEF CallsNested
<1>2. n \in Nat /\ n > 1 /\ DOMAIN ch = 1 .. n
  BY <1>1
<1>3. /\ ch2 \in Seq(Calls) /\ Len(ch2) = n - 1 /\ \A i \in 1 .. n - 1 : ch2[i] = ch[i]
  <2>1. Len(ch) >= 1
    BY <1>2
  <2> QED BY <1>1, <2>1, FrontOfSequence DEF Front
<1> HIDE DEF ch2, n
<1>4. /\ DOMAIN ch2 = 1 .. n - 1 /\ ch2 # <<>> /\ 1 \in 1 .. n - 1
      /\ \A i \in 1 .. n - 1 : i \in 1 .. n /\ i # n
  BY <1>2, <1>3
<1>5. ch2[1] = ch[1] /\ Size(p, ch2) = Size(p, ch)
  BY <1>3, <1>4 DEF Size
<1>6. ASSUME NEW i \in 1 .. n - 1
      PROVE  \E r : /\ Active(p, Size(p, ch2), ch2[i], r)
                    /\ IF i = Len(ch2) THEN Agrees(ch2[i], r, machine2)
                                       ELSE Suspended(p, ch2[i], r, ch2[i + 1])
  <2>1. CASE i = n - 1
    BY <1>3, <1>5, <2>1 DEF n
  <2>2. CASE i # n - 1
    <3>1. i + 1 \in 1 .. n - 1 /\ i # Len(ch2)
      BY <1>2, <1>3, <2>2
    <3>2. PICK r : Active(p, Size(p, ch), ch[i], r) /\ Suspended(p, ch[i], r, ch[i + 1])
      BY <1>1, <1>2, <1>4 DEF n
    <3> QED BY <1>3, <1>5, <3>1, <3>2
  <2> QED BY <2>1, <2>2
<1> QED BY <1>1, <1>3, <1>4, <1>5, <1>6 DEF CallsNested, ch2

(* A function is entered with empty registers and its arguments in the     *)
(* frame.                                                                  *)
LEMMA CallBegins ==
  ASSUME NEW p, Linked(p), NEW x \in DOMAIN p, NEW size, NEW e \in Calls,
         e.function = x, e.pc = 1, e.tsp = 0,
         e.held + CalleeClobbers(p[x].descriptor) <= DEPTH,
         e.fp + p[x].descriptor.frameClobbered <= size
  PROVE  Active(p, size, e, Entered(p[x].descriptor.arity))
<1>1. PICK u : FunctionTraced(p, p[x], u)
  BY DEF Linked
<1>2. u[1] = Entered(p[x].descriptor.arity) /\ Len(u) = Len(p[x].code) + 1
      /\ p[x].code \in Seq(Instructions)
  BY <1>1 DEF FunctionTraced, Traced
<1>3. 1 \in 1 .. Len(u)
  BY <1>2
<1>4. Entered(p[x].descriptor.arity).sp = 0
  BY DEF Entered
<1> QED BY <1>1, <1>2, <1>3, <1>4 DEF Active

(* A call finds free registers, its arguments and its part of the frame.   *)
LEMMA ExecuteCallKeeps ==
  ASSUME LinkageInductive, ExecuteCall
  PROVE  LinkageInductive'
<1> DEFINE x == Instr.function
           f == program[x].descriptor
           d == Descr(Top.function)
           c == AfterCall(Top, Instr.climbing)
           e == [function |-> x, pc |-> 1, fp |-> vm.sp, tsp |-> 0, held |-> vm.regs]
           enterable == Enterable(f, StackSize, vm.sp, vm.used, vm.regs)
           r == Entered(f.arity)
<1>1. /\ Running /\ ~AtEnd /\ Instr.op = "call"
      /\ chain' = Append(Front(chain), c) \o <<e>>
      /\ vm' = [vm EXCEPT !.output = 0, !.fault = ~enterable]
      /\ UNCHANGED <<assemblerVars, phase>>
  BY DEF ExecuteCall, Executing, Descr
<1>2. PICK s, t : Before(s, t)
  BY <1>1, ExecutionStep
<1>3. /\ Top.fp \in Nat /\ Top.held \in Nat /\ Top.pc \in Nat /\ Top.tsp \in Nat
      /\ s.used \in Nat /\ s.frameUsed \in Nat /\ s.sp \in Nat /\ t.sp \in Nat
      /\ d.clobbered \in Nat /\ d.frameClobbered \in Nat /\ DEPTH \in Nat /\ StackSize \in Nat
      /\ Top.held + d.clobbered <= DEPTH
      /\ vm \in Machines /\ chain \in Seq(Calls) /\ Len(chain) \in DOMAIN chain
  BY <1>1, <1>2, StepNumbers
<1>4. /\ x \in DOMAIN program /\ Instr.climbing = f.climbing
      /\ s.output = 0 /\ s.frameUsed = s.sp + f.arity
      /\ s.sp + f.frameClobbered <= d.frameClobbered
      /\ s.used + CalleeClobbers(f) <= d.clobbered
      /\ t.used = s.used + f.output /\ t.frameUsed = s.sp /\ t.sp = s.sp + f.climbing
      /\ t.output = 0
  BY <1>1, <1>2 DEF Before, Executable, Leaves
<1>5. /\ Top \in Calls /\ Top = chain[Len(chain)] /\ Top.tsp = s.sp
      /\ Top.function \in DOMAIN program /\ Top.fp + d.frameClobbered <= StackSize
  BY <1>2 DEF Before
<1>6. /\ vm.regs = Top.held + (s.used + s.output) /\ vm.used = Top.fp + s.frameUsed
      /\ vm.sp = Top.fp + s.sp
  BY <1>2 DEF Before, Agrees
<1>7. CallsNested(program, chain, vm) /\ Linked(program) /\ Size(program, chain) = StackSize
  BY <1>1 DEF LinkageInductive, Running, Size, StackSize, Descr
<1>8. /\ IsDescriptor(f) /\ x \in Nat /\ f.arity \in Nat /\ f.output \in Nat
      /\ f.clobbered \in Nat
      /\ f.frameClobbered \in Nat /\ f.climbing \in Nat /\ CalleeClobbers(f) \in Nat
      /\ CalleeClobbers(f) = IF Frameless(f) THEN f.clobbered ELSE DEPTH
  BY <1>4, <1>7, LinkedFacts, CalleeFacts DEF CalleeClobbers
<1> HIDE DEF d, f, x
<1>9. /\ vm.regs \in Nat /\ vm.sp \in Nat
      /\ vm.regs + CalleeClobbers(f) <= DEPTH
      /\ vm.sp + f.frameClobbered <= StackSize
      /\ vm.sp + f.frameClobbered <= Top.fp + d.frameClobbered
      /\ vm.sp <= vm.used /\ vm.used - vm.sp = f.arity
      /\ vm.regs + f.output = Top.held + t.used
      /\ vm.used = vm.sp + f.arity
  <2>1. /\ Top.fp \in Nat /\ Top.held \in Nat /\ s.used \in Nat /\ s.sp \in Nat
        /\ d.clobbered \in Nat /\ d.frameClobbered \in Nat /\ DEPTH \in Nat
        /\ StackSize \in Nat /\ Top.held + d.clobbered <= DEPTH
    BY <1>3
  <2>2. /\ f.arity \in Nat /\ f.output \in Nat /\ f.frameClobbered \in Nat
        /\ CalleeClobbers(f) \in Nat
    BY <1>8
  <2>3. /\ vm.regs = Top.held + s.used /\ vm.sp = Top.fp + s.sp
        /\ vm.used = Top.fp + (s.sp + f.arity)
    BY <1>4, <1>6, <2>1
  <2>4. Top.fp + d.frameClobbered <= StackSize
    BY <1>5
  <2>5. /\ s.sp + f.frameClobbered <= d.frameClobbered
        /\ s.used + CalleeClobbers(f) <= d.clobbered /\ t.used = s.used + f.output
    BY <1>4
  <2>6. vm.regs \in Nat /\ vm.regs + CalleeClobbers(f) <= DEPTH
        /\ vm.regs + f.output = Top.held + t.used
    BY <2>1, <2>2, <2>3, <2>5
  <2>7. /\ vm.sp \in Nat /\ vm.sp + f.frameClobbered <= StackSize
        /\ vm.sp + f.frameClobbered <= Top.fp + d.frameClobbered
    BY <2>1, <2>2, <2>3, <2>4, <2>5
  <2>8. vm.sp <= vm.used /\ vm.used - vm.sp = f.arity /\ vm.used = vm.sp + f.arity
    BY <2>1, <2>2, <2>3
  <2> QED BY <2>6, <2>7, <2>8
<1>10. enterable = TRUE
  <2>1. HeadTail(f, 0, vm.regs)
    <3>1. CASE Frameless(f)
      <4>1. /\ vm.regs + f.clobbered <= DEPTH /\ vm.regs \in Nat /\ f.clobbered \in Nat
            /\ DEPTH \in Nat
        BY <1>3, <1>8, <1>9, <3>1
      <4>2. 0 <= f.clobbered /\ 0 <= vm.regs /\ f.clobbered - 0 <= DEPTH - vm.regs
        BY <4>1
      <4> QED BY <3>1, <4>2 DEF HeadTail
    <3>2. CASE ~Frameless(f)
      BY <1>3, <1>8, <1>9, <3>2 DEF HeadTail
    <3> QED BY <3>1, <3>2
  <2> QED BY <1>9, <2>1 DEF Enterable
<1> HIDE DEF enterable
<1>11. /\ vm' \in Machines /\ vm'.regs = vm.regs /\ vm'.used = vm.used /\ vm'.sp = vm.sp
       /\ vm'.output = 0
  BY <1>1, <1>3, <1>10 DEF Machines
<1>12. /\ c \in Calls /\ SameCall(Top, c) /\ c.pc = Top.pc + 1 /\ c.tsp = t.sp
  <2>1. c = [Top EXCEPT !.pc = Top.pc + 1, !.tsp = t.sp]
    BY <1>4, <1>5 DEF AfterCall, Calls
  <2>2. Top.pc + 1 \in Nat
    BY <1>3
  <2> HIDE DEF c
  <2> QED BY <1>3, <1>5, <2>1, <2>2 DEF Calls, SameCall
<1>13. Active(program, StackSize, c, t)
  BY <1>2, <1>12 DEF Before
<1>14. /\ e \in Calls /\ e.function = x /\ e.pc = 1 /\ e.tsp = 0 /\ e.fp = vm.sp
       /\ e.held = vm.regs
  BY <1>8, <1>9 DEF Calls
<1> HIDE DEF c, e
<1>15. Suspended(program, c, t, e)
  <2>1. program[e.function].descriptor = f /\ program[c.function].descriptor = d
    BY <1>12, <1>14 DEF f, d, x, SameCall, Descr
  <2>2. /\ e.fp = c.fp + t.frameUsed /\ t.sp = t.frameUsed + f.climbing
        /\ e.held + f.output = c.held + t.used /\ t.output = 0
        /\ e.fp + f.frameClobbered <= c.fp + d.frameClobbered
    BY <1>4, <1>6, <1>9, <1>12, <1>14 DEF SameCall
  <2> QED BY <2>1, <2>2 DEF Suspended
<1>16. Active(program, StackSize, e, r)
  BY <1>4, <1>7, <1>9, <1>14, CallBegins DEF f
<1>17. Agrees(e, r, vm')
  <2>1. /\ r.used = 0 /\ r.output = 0 /\ r.frameUsed = f.arity /\ r.sp = 0
    BY DEF Entered
  <2>2. /\ vm.regs = vm.regs + (0 + 0) /\ vm.used = vm.sp + f.arity /\ vm.sp = vm.sp + 0
    BY <1>9
  <2> QED BY <1>11, <1>14, <2>1, <2>2 DEF Agrees
<1> HIDE DEF r
<1>18. Append(Front(chain), c) = [chain EXCEPT ![Len(chain)] = c]
  <2> DEFINE n == Len(chain)
             front == Front(chain)
             a == Append(front, c)
             b == [chain EXCEPT ![n] = c]
  <2>1. n \in Nat /\ n >= 1
    BY <1>3
  <2>2. front \in Seq(Calls) /\ Len(front) = n - 1 /\ \A i \in 1 .. n - 1 : front[i] = chain[i]
    BY <1>3, <2>1, FrontOfSequence DEF Front
  <2> HIDE DEF front
  <2>3. /\ a \in Seq(Calls) /\ Len(a) = (n - 1) + 1 /\ \A i \in 1 .. n - 1 : a[i] = front[i]
        /\ a[(n - 1) + 1] = c
    BY <1>12, <2>2, AppendProperties
  <2>4. b \in Seq(Calls) /\ Len(b) = n /\ \A i \in 1 .. n : b[i] = IF i = n THEN c ELSE chain[i]
    BY <1>3, <1>12, <2>1
  <2> HIDE DEF a, b, n
  <2>5. (n - 1) + 1 = n /\ \A i \in 1 .. n : i = n \/ i \in 1 .. n - 1
    BY <2>1
  <2>6. \A i \in 1 .. n : a[i] = b[i]
    BY <2>2, <2>3, <2>4, <2>5
  <2>7. a = b
    BY <2>3, <2>4, <2>5, <2>6, SeqEqual
  <2> QED BY <2>7 DEF a, b, n, front
<1>19. CallsNested(program, chain', vm')
  BY <1>1, <1>5, <1>7, <1>11, <1>12, <1>13, <1>14, <1>15, <1>16, <1>17, <1>18, CallPushed
<1>20. InProgress' /\ Linked(program') /\ script' \in Seq(CompilerRequests)
       /\ program' = program /\ phase' = phase
  BY <1>1, AssemblyKept DEF assemblerVars
<1>21. vm'.fault = FALSE /\ phase = "running"
  BY <1>1, <1>11 DEF Machines, Running
<1> QED BY <1>19, <1>20, <1>21 DEF LinkageInductive

(* A function is called from outside.                                      *)
LEMMA StartKeeps ==
  ASSUME LinkageInductive, NEW x \in DOMAIN program, Start(x)
  PROVE  LinkageInductive'
<1> DEFINE f == program[x].descriptor
           e == [function |-> x, pc |-> 1, fp |-> 0, tsp |-> 0, held |-> 0]
           enterable == Enterable(f, f.frameClobbered, 0, f.arity, 0)
           r == Entered(f.arity)
<1>1. /\ phase' = "running" /\ chain' = <<e>>
      /\ vm' = [sp |-> 0, used |-> f.arity, regs |-> 0, output |-> 0,
                ecx |-> StackBase, stale |-> FALSE, fault |-> ~enterable]
      /\ UNCHANGED assemblerVars
  BY DEF Start, Descr
<1>2. Linked(program)
  BY DEF LinkageInductive
<1>3. /\ IsDescriptor(f) /\ x \in Nat /\ f.arity \in Nat /\ f.clobbered \in Nat
      /\ f.frameClobbered \in Nat /\ CalleeClobbers(f) \in Nat /\ CalleeClobbers(f) <= DEPTH
      /\ DEPTH \in Nat /\ f.arity <= f.frameClobbered /\ f.clobbered <= DEPTH
  BY <1>2, LinkedFacts, CalleeFacts, DepthAssumption DEF IsDescriptor
<1> HIDE DEF f
<1>4. enterable = TRUE
  BY <1>3 DEF Enterable, HeadTail
<1> HIDE DEF enterable
<1>5. /\ vm' \in Machines /\ vm'.regs = 0 /\ vm'.used = f.arity /\ vm'.sp = 0
  <2>1. (~enterable) = FALSE
    BY <1>4
  <2>2. StackBase \in Int
    BY AddressAssumption
  <2> QED BY <1>1, <1>3, <2>1, <2>2 DEF Machines
<1>6. e \in Calls /\ e.function = x /\ e.pc = 1 /\ e.fp = 0 /\ e.tsp = 0 /\ e.held = 0
  BY <1>3 DEF Calls
<1> HIDE DEF e
<1>7. Active(program, f.frameClobbered, e, r)
  <2>1. e.held + CalleeClobbers(f) <= DEPTH /\ e.fp + f.frameClobbered <= f.frameClobbered
    BY <1>3, <1>6
  <2> QED BY <1>2, <1>6, <2>1, CallBegins DEF f
<1>8. Agrees(e, r, vm')
  <2>1. /\ r.used = 0 /\ r.output = 0 /\ r.frameUsed = f.arity /\ r.sp = 0
    BY DEF Entered
  <2>2. 0 = 0 + (0 + 0) /\ f.arity = 0 + f.arity /\ 0 = 0 + 0
    BY <1>3
  <2> QED BY <1>5, <1>6, <2>1, <2>2 DEF Agrees
<1>9. CallsNested(program, chain', vm')
  <2>1. chain' \in Seq(Calls) /\ Len(chain') = 1 /\ chain'[1] = e /\ DOMAIN chain' = {1}
        /\ chain' # <<>>
    BY <1>1, <1>6
  <2>2. Size(program, chain') = f.frameClobbered
    BY <1>6, <2>1 DEF Size, f
  <2> QED BY <1>5, <1>6, <1>7, <1>8, <2>1, <2>2 DEF CallsNested
<1>10. InProgress' /\ Linked(program') /\ script' \in Seq(CompilerRequests)
       /\ program' = program
  BY <1>1, AssemblyKept DEF assemblerVars
<1>11. vm'.fault = FALSE
  BY <1>5 DEF Machines
<1> QED BY <1>1, <1>9, <1>10, <1>11 DEF LinkageInductive

(* A function is over: what its descriptor promises is what its caller     *)
(* finds, and there the caller goes on.                                    *)
LEMMA ReturnKeeps ==
  ASSUME LinkageInductive, Return
  PROVE  LinkageInductive'
<1> DEFINE n == Len(chain)
           d == Descr(Top.function)
           accepted == /\ vm.output = d.output
                       /\ vm.used - Top.fp = d.arity
                       /\ vm.sp - Top.fp = d.climbing
                       /\ HeadTail(d, d.output, vm.regs)
                       /\ Len(chain) = 1 => vm.regs = d.output
<1>1. /\ Running /\ AtEnd /\ chain' = Front(chain)
      /\ vm' = [vm EXCEPT !.used = Top.fp, !.fault = ~accepted]
      /\ phase' = IF Len(chain) = 1 THEN "done" ELSE "running"
      /\ UNCHANGED assemblerVars
  BY DEF Return
<1>2. CallsNested(program, chain, vm) /\ Linked(program)
  BY <1>1 DEF LinkageInductive, Running
<1>3. /\ chain \in Seq(Calls) /\ chain # <<>> /\ chain[1].held = 0 /\ vm \in Machines
      /\ n \in Nat /\ n >= 1 /\ DOMAIN chain = 1 .. n
  BY <1>2 DEF CallsNested
<1>4. Top = chain[n] /\ Top \in Calls
  BY <1>3 DEF Top, Last
<1>5. PICK s : Active(program, Size(program, chain), Top, s) /\ Agrees(Top, s, vm)
  BY <1>2, <1>3, <1>4 DEF CallsNested
<1>6. Top.function \in DOMAIN program /\ Top.held + CalleeClobbers(d) <= DEPTH
  BY <1>5 DEF Active, Descr
<1>7. PICK u : /\ FunctionTraced(program, program[Top.function], u)
               /\ Top.pc \in 1 .. Len(u) /\ s = u[Top.pc]
  BY <1>5 DEF Active
<1>8. Len(u) = Len(program[Top.function].code) + 1 /\ Len(u) \in Nat
      /\ Len(program[Top.function].code) \in Nat
      /\ Finished(d, u[Len(u)])
  BY <1>7 DEF FunctionTraced, Traced, Descr
<1>9. Finished(d, s)
  <2>1. Top.pc > Len(program[Top.function].code) /\ Top.pc \in Nat
    BY <1>1, <1>4 DEF AtEnd, Calls
  <2>2. Top.pc = Len(u)
    BY <1>7, <1>8, <2>1
  <2> QED BY <1>7, <1>8, <2>2
<1>10. IsDescriptor(d)
  BY <1>2, <1>6, LinkedFacts DEF Descr
<1>11. /\ d.arity \in Nat /\ d.output \in Nat /\ d.clobbered \in Nat /\ d.climbing \in Nat
       /\ d.output >= 1 /\ d.output <= d.clobbered /\ DEPTH \in Nat
       /\ Top.fp \in Nat /\ Top.held \in Nat
  BY <1>4, <1>10, CalleeFacts, DepthAssumption DEF Calls, IsDescriptor
<1>12. s.used = 0 /\ s.output = d.output /\ s.frameUsed = d.arity /\ s.sp = d.climbing
  BY <1>9 DEF Finished, Declared
<1>13. (Frameless(d) /\ Top.held + d.clobbered <= DEPTH) \/ (~Frameless(d) /\ Top.held = 0)
  BY <1>6, <1>11 DEF CalleeClobbers
<1> HIDE DEF d
<1>14. /\ vm.output = d.output /\ vm.regs = Top.held + d.output
       /\ vm.used = Top.fp + d.arity /\ vm.sp = Top.fp + d.climbing
  BY <1>5, <1>11, <1>12 DEF Agrees
<1>15. accepted = TRUE
  <2>1. vm.used - Top.fp = d.arity /\ vm.sp - Top.fp = d.climbing
    BY <1>11, <1>14
  <2>2. HeadTail(d, d.output, vm.regs)
    BY <1>11, <1>13, <1>14 DEF HeadTail
  <2>3. Len(chain) = 1 => vm.regs = d.output
    BY <1>3, <1>4, <1>11, <1>14
  <2> QED BY <1>14, <2>1, <2>2, <2>3
<1> HIDE DEF accepted
<1>16. vm' \in Machines /\ vm'.used = Top.fp /\ vm'.regs = vm.regs /\ vm'.sp = vm.sp
       /\ vm'.fault = FALSE
  BY <1>1, <1>3, <1>11, <1>15 DEF Machines
<1>17. InProgress' /\ Linked(program') /\ script' \in Seq(CompilerRequests)
       /\ program' = program
  BY <1>1, AssemblyKept DEF assemblerVars
<1>18. CASE n = 1
  <2>1. phase' = "done" /\ chain' = <<>>
    BY <1>1, <1>3, <1>18 DEF Front
  <2> QED BY <1>16, <1>17, <2>1 DEF LinkageInductive
<1>19. CASE n > 1
  <2> DEFINE c == chain[n - 1]
  <2>1. phase' = "running"
    BY <1>1, <1>3, <1>19
  <2>2. DOMAIN chain = 1 .. n /\ n \in Nat /\ n > 1
    BY <1>3, <1>19
  <2>3. \A k \in Nat : k > 1 => k - 1 \in 1 .. k /\ k - 1 # k /\ (k - 1) + 1 = k
    OBVIOUS
  <2>4. n - 1 \in 1 .. n /\ n - 1 # n /\ (n - 1) + 1 = n
    BY <2>2, <2>3
  <2>5. PICK r : Active(program, Size(program, chain), c, r) /\ Suspended(program, c, r, Top)
    BY <1>2, <1>3, <1>4, <2>4 DEF CallsNested
  <2>6. n - 1 \in DOMAIN chain
    BY <2>4, <2>2
  <2>7. c \in Calls
    BY <1>3, <2>6
  <2> HIDE DEF c
  <2>8. /\ c.fp \in Nat /\ c.held \in Nat
        /\ r.used \in Nat /\ r.frameUsed \in Nat /\ r.sp \in Nat
    BY <2>5, <2>7 DEF Active, FunctionTraced, Traced, Fits, MonitorState, Calls
  <2>9. /\ Top.fp = c.fp + r.frameUsed /\ r.sp = r.frameUsed + d.climbing
        /\ Top.held + d.output = c.held + r.used /\ r.output = 0
    BY <2>5 DEF Suspended, d, Descr
  <2>10. Agrees(c, r, vm')
    BY <1>11, <1>14, <1>16, <2>8, <2>9 DEF Agrees
  <2>11. CallsNested(program, chain', vm')
    BY <1>1, <1>2, <1>16, <1>19, <2>5, <2>10, CallPopped DEF c
  <2> QED BY <1>16, <1>17, <2>11, <2>1 DEF LinkageInductive
<1> QED BY <1>3, <1>18, <1>19

(* A function that calls one that is not there is not compiled.            *)
LEMMA RejectKeeps ==
  ASSUME LinkageInductive, Reject
  PROVE  LinkageInductive'
<1>1. phase' = "rejected" /\ phase = "assembling" /\ UNCHANGED <<assemblerVars, chain, vm>>
  BY DEF Reject, Requested, Assembling
<1>2. InProgress' /\ Linked(program') /\ script' \in Seq(CompilerRequests)
  BY <1>1, AssemblyKept
<1> QED BY <1>1, <1>2 DEF LinkageInductive

(* At first there is no function and no call.                              *)
LEMMA InitLinkage ==
  ASSUME LinkageInit
  PROVE  LinkageInductive
<1>1. Linked(<<>>)
  BY DEF Linked
<1> QED BY <1>1 DEF LinkageInit, LinkageInductive, InProgress

(* Every step of the assembler and of the machine.                         *)
LEMMA NextLinkage ==
  ASSUME LinkageInductive, [LinkageNext]_linkageVars
  PROVE  LinkageInductive'
<1>1. CASE \E body \in Bodies : Enter(body)
  BY <1>1, EnterKeeps
<1>2. CASE AssembleOperation
  BY <1>2, AssembleOperationKeeps
<1>3. CASE AssembleLoad \/ AssembleStore
  BY <1>3, AssembleAccessKeeps
<1>4. CASE AssembleAlloca
  BY <1>4, AssembleAllocaKeeps
<1>5. CASE \E x \in DOMAIN program : AssembleCall(x)
  BY <1>5, AssembleCallKeeps
<1>6. CASE \E x \in DOMAIN program : Start(x)
  BY <1>6, StartKeeps
<1>7. CASE AssembleBra
  BY <1>7, AssembleBraKeeps
<1>8. CASE AssembleKet
  BY <1>8, AssembleKetKeeps
<1>9. CASE AssembleRet
  BY <1>9, AssembleRetKeeps
<1>10. CASE AssembleLeave
  BY <1>10, AssembleLeaveKeeps
<1>11. CASE Reject
  BY <1>11, RejectKeeps
<1>12. CASE Execute
  BY <1>12, ExecuteFpuKeeps, ExecuteLoadKeeps, ExecuteStoreKeeps, ExecuteReloadKeeps,
     ExecuteSpillKeeps, ExecuteShiftKeeps, ExecuteCallKeeps, ExecuteBracketKeeps,
     ExecuteRetKeeps, ReturnKeeps
     DEF Execute
<1>13. CASE UNCHANGED linkageVars
  <2>1. UNCHANGED assemblerVars /\ phase' = phase /\ chain' = chain /\ vm' = vm
        /\ program' = program
    BY <1>13 DEF linkageVars, assemblerVars
  <2>2. InProgress' /\ Linked(program') /\ script' \in Seq(CompilerRequests)
    BY <2>1, AssemblyKept
  <2> QED BY <2>1, <2>2 DEF LinkageInductive
<1> QED BY <1>1, <1>2, <1>3, <1>4, <1>5, <1>6, <1>7, <1>8, <1>9, <1>10, <1>11, <1>12, <1>13
        DEF LinkageNext

(* The counters of the monitor describe the machine at every instruction   *)
(* it executes, and those of a caller what it finds after the call.        *)
THEOREM LinkageInductiveHolds == LinkageSpec => []LinkageInductive
<1>1. LinkageInit => LinkageInductive
  BY InitLinkage
<1>2. LinkageInductive /\ [LinkageNext]_linkageVars => LinkageInductive'
  BY NextLinkage
<1> QED BY <1>1, <1>2, PTL DEF LinkageSpec

(* What an instruction takes from the registers is its function's own.     *)
LEMMA ConsumedOwn ==
  ASSUME LinkageInductive, Running, NEW s, NEW t, Before(s, t)
  PROVE  Consumed <= s.used + s.output
<1>1. s.used \in Nat /\ s.output \in Nat
  BY StepNumbers
<1>2. Instr \in Instructions /\ Executable(program, Descr(Top.function), s, Instr, t)
  BY DEF Before
<1>3. Instr.op = "fpu" => Instr.consumed <= s.used
  BY <1>2 DEF Executable
<1>4. Instr.op \in {"store", "alloca"} => 1 <= s.used
  BY <1>2 DEF Executable
<1>5. Instr.op = "fstp" => Instr.n <= s.used
  BY <1>2 DEF Executable
<1>6. Instr.op = "ret" => Instr.n = s.used
  BY <1>2 DEF Executable
<1>7. CASE Instr.op = "fpu"
  <2>1. Consumed = Instr.consumed /\ Instr.consumed \in Nat
    BY <1>2, <1>7 DEF Consumed, Instructions
  <2> QED BY <1>1, <1>3, <1>7, <2>1
<1>8. CASE Instr.op \in {"store", "alloca"}
  <2>1. Consumed = 1
    BY <1>8 DEF Consumed
  <2> QED BY <1>1, <1>4, <1>8, <2>1
<1>9. CASE Instr.op \in {"fstp", "ret"}
  <2>1. Consumed = Instr.n /\ Instr.n \in Nat
    BY <1>2, <1>9 DEF Consumed, Instructions
  <2> QED BY <1>1, <1>5, <1>6, <1>9, <2>1
<1>10. CASE Instr.op \notin {"fpu", "store", "alloca", "fstp", "ret"}
  <2>1. Consumed = 0
    BY <1>10 DEF Consumed
  <2> QED BY <1>1, <2>1
<1> QED BY <1>7, <1>8, <1>9, <1>10

(* A function neither consumes a register of its caller nor uses more      *)
(* registers than its descriptor says.                                     *)
LEMMA OwnRegisters ==
  ASSUME LinkageInductive
  PROVE  RegistersAreOwn
<1> SUFFICES ASSUME Running, ~AtEnd
             PROVE  /\ Consumed <= vm.regs - Top.held
                    /\ vm.regs - Top.held <= Descr(Top.function).clobbered
  BY DEF RegistersAreOwn
<1>1. PICK s, t : Before(s, t)
  BY ExecutionStep
<1>2. Consumed <= s.used + s.output
  BY <1>1, ConsumedOwn
<1>3. vm.regs = Top.held + (s.used + s.output)
  BY <1>1 DEF Before, Agrees
<1>4. /\ Top.held \in Nat /\ s.used \in Nat /\ s.output \in Nat
      /\ s.used + s.output <= Descr(Top.function).clobbered
  BY <1>1, StepNumbers
<1>5. vm.regs - Top.held = s.used + s.output
  BY <1>3, <1>4
<1> QED BY <1>2, <1>4, <1>5

(* A callee's frame lies within its caller's, and the innermost call uses  *)
(* no slot beyond its own frame.                                           *)
LEMMA NestedFrames ==
  ASSUME LinkageInductive
  PROVE  FramesNested
<1> DEFINE end(j) == chain[j].fp + Descr(chain[j].function).frameClobbered
<1> SUFFICES ASSUME NEW i \in DOMAIN chain
             PROVE  /\ i > 1 => end(i) <= end(i - 1) /\ chain[i - 1].fp <= chain[i].fp
                    /\ i = Len(chain) => vm.used <= end(i)
  BY DEF FramesNested
<1>1. CallsNested(program, chain, vm) /\ Linked(program)
  BY DEF LinkageInductive
<1>2. /\ chain \in Seq(Calls)
      /\ \A j \in DOMAIN chain :
           \E s : /\ Active(program, Size(program, chain), chain[j], s)
                  /\ IF j = Len(chain) THEN Agrees(chain[j], s, vm)
                                       ELSE Suspended(program, chain[j], s, chain[j + 1])
  BY <1>1 DEF CallsNested
<1>3. ASSUME NEW j \in DOMAIN chain, NEW s, Active(program, Size(program, chain), chain[j], s)
      PROVE  /\ chain[j].fp \in Nat /\ s.frameUsed \in Nat
             /\ Descr(chain[j].function).frameClobbered \in Nat
             /\ s.frameUsed <= Descr(chain[j].function).frameClobbered
  <2>1. chain[j] \in Calls
    BY <1>2
  <2>2. PICK u : FunctionTraced(program, program[chain[j].function], u)
                 /\ chain[j].pc \in 1 .. Len(u) /\ s = u[chain[j].pc]
    BY <1>3 DEF Active
  <2>3. Fits(Descr(chain[j].function), s)
    BY <2>2 DEF FunctionTraced, Traced, Descr
  <2>4. IsDescriptor(Descr(chain[j].function))
    BY <1>1, <1>3, LinkedFacts DEF Active, Descr
  <2> QED BY <2>1, <2>3, <2>4, CalleeFacts DEF Calls, Fits, MonitorState
<1>4. ASSUME i > 1 PROVE end(i) <= end(i - 1) /\ chain[i - 1].fp <= chain[i].fp
  <2>1. i - 1 \in DOMAIN chain /\ i - 1 # Len(chain) /\ (i - 1) + 1 = i
    BY <1>2, <1>4
  <2>2. PICK s : Active(program, Size(program, chain), chain[i - 1], s)
                 /\ Suspended(program, chain[i - 1], s, chain[i])
    BY <1>2, <2>1
  <2>3. /\ chain[i].fp = chain[i - 1].fp + s.frameUsed
        /\ end(i) <= end(i - 1)
    BY <2>2 DEF Suspended, Descr
  <2> QED BY <1>3, <2>1, <2>2, <2>3
<1>5. ASSUME i = Len(chain) PROVE vm.used <= end(i)
  <2>1. PICK s : Active(program, Size(program, chain), chain[i], s) /\ Agrees(chain[i], s, vm)
    BY <1>2, <1>5
  <2>2. vm.used = chain[i].fp + s.frameUsed
    BY <2>1 DEF Agrees
  <2> QED BY <1>3, <2>1, <2>2
<1> QED BY <1>4, <1>5

-----------------------------------------------------------------------------
(* Addresses of the translated code.                                       *)

(* The remainder of a number that is small enough.                         *)
LEMMA ModSmall ==
  ASSUME NEW n \in Nat \ {0}, NEW k \in Nat, k < n
  PROVE  k % n = k
  OBVIOUS

(* Only sp_inc and sp_dec move the stack pointers.                         *)
LEMMA PointersRest ==
  ASSUME vm \in Machines, Execute, ~ExecuteShift
  PROVE  vm'.ecx = vm.ecx /\ vm'.sp = vm.sp
<1>1. CASE ExecuteFpu
  BY <1>1 DEF ExecuteFpu, Continue, Machines
<1>2. CASE ExecuteLoad
  BY <1>2 DEF ExecuteLoad, Continue, Machines
<1>3. CASE ExecuteStore
  BY <1>3 DEF ExecuteStore, Continue, Machines
<1>4. CASE ExecuteReload
  BY <1>4 DEF ExecuteReload, Continue, Machines
<1>5. CASE ExecuteSpill
  BY <1>5 DEF ExecuteSpill, Continue, Machines
<1>6. CASE ExecuteCall
  BY <1>6 DEF ExecuteCall, Machines
<1>7. CASE ExecuteBracket
  BY <1>7 DEF ExecuteBracket, Continue, Machines
<1>8. CASE ExecuteRet
  BY <1>8 DEF ExecuteRet, Continue, Machines
<1>9. CASE Return
  BY <1>9 DEF Return, Machines
<1> QED BY <1>1, <1>2, <1>3, <1>4, <1>5, <1>6, <1>7, <1>8, <1>9 DEF Execute

(* As long as the stack lies below Word, ecx goes where sp goes.           *)
LEMMA ShiftAddresses ==
  ASSUME LinkageInductive, ExecuteShift, StackIsLow, vm.ecx = StackBase + vm.sp
  PROVE  vm'.ecx = StackBase + vm'.sp
<1> DEFINE n == IF Instr.op = "sp_inc" THEN Instr.n ELSE - Instr.n
<1>1. /\ n \in Int /\ vm.sp + n \in Nat /\ vm.sp + n <= StackSize /\ Running
  BY ShiftFacts
<1>2. CallsNested(program, chain, vm)
  BY <1>1 DEF LinkageInductive, Running
<1>3. vm \in Machines /\ 1 \in DOMAIN chain
  BY <1>2 DEF CallsNested
<1>4. chain[1].function \in DOMAIN program
  BY <1>2, <1>3 DEF CallsNested, Active
<1>5. StackSize \in Nat /\ StackBase + StackSize < Word
  <2>1. IsDescriptor(Descr(chain[1].function))
    BY <1>4, LinkedFacts DEF LinkageInductive, Descr
  <2> QED BY <1>4, <2>1, CalleeFacts DEF StackIsLow, StackSize
<1>6. vm'.sp = vm.sp + n /\ vm'.ecx = (vm.ecx + n) % Word
  BY <1>3 DEF ExecuteShift, Machines
<1> HIDE DEF n
<1>7. vm.ecx + n = StackBase + (vm.sp + n)
  BY <1>1, <1>3, AddressAssumption DEF Machines
<1>8. StackBase + (vm.sp + n) \in Nat /\ StackBase + (vm.sp + n) < Word
  BY <1>1, <1>5, AddressAssumption
<1> QED BY <1>6, <1>7, <1>8, ModSmall, AddressAssumption

(* Where ecx points to, step by step.                                      *)
LEMMA NextAddressing ==
  ASSUME LinkageInductive, Addressing, [LinkageNext]_linkageVars
  PROVE  Addressing'
<1> SUFFICES ASSUME phase' = "running", StackIsLow'
             PROVE  vm'.ecx = StackBase + vm'.sp
  BY DEF Addressing
<1>1. ASSUME program' = program PROVE StackIsLow
  BY <1>1 DEF StackIsLow, Descr
<1>2. CASE phase # "running"
  <2>1. PICK x \in DOMAIN program : Start(x)
    BY <1>2 DEF LinkageNext, Enter, AssembleOperation, AssembleLoad, AssembleStore,
       AssembleAlloca, AssembleCall, AssembleBra, AssembleKet, AssembleRet, AssembleLeave,
       Reject, Proceed, Execute, ExecuteFpu, ExecuteLoad, ExecuteStore, ExecuteReload,
       ExecuteSpill, ExecuteShift, ExecuteCall, ExecuteBracket, ExecuteRet, Return,
       Executing, Running, linkageVars
  <2>2. vm'.ecx = StackBase /\ vm'.sp = 0
    BY <2>1 DEF Start
  <2> QED BY <2>2, AddressAssumption
<1>3. CASE phase = "running"
  <2>1. vm \in Machines
    BY <1>3 DEF LinkageInductive, CallsNested
  <2>2. Execute \/ UNCHANGED linkageVars
    BY <1>3 DEF LinkageNext, Enter, AssembleOperation, AssembleLoad, AssembleStore,
       AssembleAlloca, AssembleCall, Start, AssembleBra, AssembleKet, AssembleRet,
       AssembleLeave, Reject, Requested, Assembling
  <2>3. program' = program
    BY <2>2 DEF Execute, ExecuteFpu, ExecuteLoad, ExecuteStore, ExecuteReload,
       ExecuteSpill, ExecuteShift, ExecuteCall, ExecuteBracket, ExecuteRet, Return,
       Continue, assemblerVars, linkageVars
  <2>4. vm.ecx = StackBase + vm.sp /\ StackIsLow
    BY <1>1, <1>3, <2>3 DEF Addressing
  <2>5. CASE ExecuteShift
    BY <2>4, <2>5, ShiftAddresses
  <2>6. CASE Execute /\ ~ExecuteShift
    BY <2>1, <2>4, <2>6, PointersRest
  <2>7. CASE UNCHANGED linkageVars
    BY <2>4, <2>7 DEF linkageVars
  <2> QED BY <2>2, <2>5, <2>6, <2>7
<1> QED BY <1>2, <1>3

(* Interpreter and translated code address the same slots.                 *)
LEMMA SameAddresses ==
  ASSUME LinkageInductive, Addressing, StackIsLow
  PROVE  AddressesAgree
<1> SUFFICES ASSUME phase = "running"
             PROVE  vm.ecx - Top.tsp = StackBase + Top.fp
  BY DEF AddressesAgree
<1>1. CallsNested(program, chain, vm)
  BY DEF LinkageInductive
<1>2. chain \in Seq(Calls) /\ chain # <<>>
  BY <1>1 DEF CallsNested
<1>3. Len(chain) \in DOMAIN chain /\ Top = chain[Len(chain)] /\ Top \in Calls
  BY <1>2 DEF Top, Last
<1>4. PICK s : Active(program, Size(program, chain), Top, s) /\ Agrees(Top, s, vm)
  BY <1>1, <1>3 DEF CallsNested
<1>5. Top.tsp = s.sp /\ vm.sp = Top.fp + s.sp /\ vm.ecx = StackBase + vm.sp
  BY <1>4 DEF Active, Agrees, Addressing
<1>6. Top.fp \in Nat /\ Top.tsp \in Nat
  BY <1>3 DEF Calls
<1> QED BY <1>5, <1>6, AddressAssumption

-----------------------------------------------------------------------------
(* monitor::check()                                                        *)

(* Among numbers there is a smallest one.                                  *)
LEMMA Smallest ==
  ASSUME NEW T \in SUBSET Nat, T # {}
  PROVE  \E k \in T : \A j \in T : ~(j < k)
<1>1. \E k \in T : \A j \in T : ~(<<j, k>> \in OpToRel(<, Nat))
  BY NatLessThanWellFounded, WFMin
<1> QED BY <1>1 DEF OpToRel

(* What Replayed makes of the function that is computed so far.            *)
Replaying(p, arity, c, done, k) ==
  IF k = 0 THEN << <<>>, Entered(arity) >>
  ELSE LET before == done[k - 1]
           r      == Replay(p, before[2], c[k])
       IN  << before[1] \o r[1] \o << c[k] >>, r[2] >>

(* Verified once more, the code of a function is recorded as it stands.    *)
LEMMA ReplayedCode ==
  ASSUME NEW p, NEW f, NEW u, FunctionTraced(p, f, u)
  PROVE  Replayed(p, f.descriptor.arity, f.code) = <<f.code, u[Len(u)]>>
<1> DEFINE arity == f.descriptor.arity
           c == f.code
           n == Len(c)
           Is(g) == g = [k \in 0 .. n |-> Replaying(p, arity, c, g, k)]
           t == [k \in 0 .. n |-> <<SubSeq(c, 1, k), u[k + 1]>>]
           g == CHOOSE h : Is(h)
           Wrong == {k \in 0 .. n : g[k] # t[k]}
<1>1. /\ c \in Seq(Instructions) /\ n \in Nat /\ Len(u) = n + 1 /\ u[1] = Entered(arity)
      /\ \A k \in 1 .. n : Stepped(p, f.descriptor, u[k], c[k], u[k + 1])
  BY DEF FunctionTraced, Traced
<1> HIDE DEF c, n
<1>2. t[0] = << <<>>, Entered(arity) >> /\ t[n] = <<c, u[n + 1]>>
  <2>1. SubSeq(c, 1, 0) = <<>> /\ SubSeq(c, 1, n) = c
    BY <1>1, SubSeqEmpty, SubSeqFull DEF n
  <2> QED BY <1>1, <2>1
<1>3. ASSUME NEW k \in 1 .. n
      PROVE  Replaying(p, arity, c, t, k) = t[k]
  <2>1. k - 1 \in 0 .. n /\ (k - 1) + 1 = k /\ k # 0 /\ k \in 0 .. n
    BY <1>1
  <2>2. t[k - 1] = <<SubSeq(c, 1, k - 1), u[k]>> /\ t[k] = <<SubSeq(c, 1, k), u[k + 1]>>
    BY <2>1
  <2>3. Replay(p, u[k], c[k]) = << <<>>, u[k + 1] >> /\ c[k] \in Instructions
    BY <1>1 DEF Stepped
  <2>4. SubSeq(c, 1, k - 1) \in Seq(Instructions)
    BY <1>1, <2>1, SubSeqProperties DEF n
  <2>5. SubSeq(c, 1, k - 1) \o <<>> = SubSeq(c, 1, k - 1)
    BY <2>4
  <2>6. SubSeq(c, 1, k) = SubSeq(c, 1, k - 1) \o <<c[k]>>
    BY <1>1, SubSeqRecursiveSecond DEF n
  <2> HIDE DEF t
  <2>7. t[k - 1][1] = SubSeq(c, 1, k - 1) /\ t[k - 1][2] = u[k]
    BY <2>2
  <2>8. Replaying(p, arity, c, t, k)
          = << t[k - 1][1] \o Replay(p, t[k - 1][2], c[k])[1] \o <<c[k]>>,
               Replay(p, t[k - 1][2], c[k])[2] >>
    BY <2>1 DEF Replaying
  <2>9. Replaying(p, arity, c, t, k) = <<SubSeq(c, 1, k - 1) \o <<>> \o <<c[k]>>, u[k + 1]>>
    BY <2>3, <2>7, <2>8
  <2> QED BY <2>2, <2>5, <2>6, <2>9
<1>4. \A k \in 0 .. n : Replaying(p, arity, c, t, k) = t[k]
  <2>1. Replaying(p, arity, c, t, 0) = t[0]
    BY <1>2 DEF Replaying
  <2>2. \A k \in 0 .. n : k = 0 \/ k \in 1 .. n
    BY <1>1
  <2> QED BY <1>3, <2>1, <2>2
<1>5. Is(t)
  BY <1>4
<1>6. Is(g)
  BY <1>5
<1>7. Replayed(p, arity, c) = g[n]
  BY DEF Replayed, Replaying, n
<1> HIDE DEF g
<1>8. \A k \in 0 .. n : g[k] = Replaying(p, arity, c, g, k)
  BY <1>6
<1> HIDE DEF t
<1>9. Wrong = {}
  <2> SUFFICES ASSUME Wrong # {} PROVE FALSE
    OBVIOUS
  <2>1. Wrong \in SUBSET Nat
    OBVIOUS
  <2>2. PICK k \in Wrong : \A j \in Wrong : ~(j < k)
    BY <2>1, Smallest
  <2>3. k \in 0 .. n /\ g[k] # t[k]
    BY <2>2
  <2>4. CASE k = 0
    BY <1>2, <1>8, <2>3, <2>4 DEF Replaying
  <2>5. CASE k # 0
    <3>1. k - 1 \in 0 .. n /\ k - 1 < k /\ k \in 1 .. n
      BY <1>1, <2>3, <2>5
    <3>2. g[k - 1] = t[k - 1]
      BY <2>2, <3>1
    <3>3. Replaying(p, arity, c, g, k) = Replaying(p, arity, c, t, k)
      BY <3>2, <2>5 DEF Replaying
    <3> QED BY <1>3, <1>8, <2>3, <3>1, <3>3
  <2> QED BY <2>4, <2>5
<1>10. g[n] = t[n]
  <2>1. n \in 0 .. n
    BY <1>1
  <2> QED BY <1>9, <2>1
<1> QED BY <1>1, <1>2, <1>7, <1>10 DEF c

(* monitor::check() accepts every function that was assembled.             *)
LEMMA ChecksSucceed ==
  ASSUME LinkageInductive
  PROVE  CheckSucceeds
<1> SUFFICES ASSUME NEW i \in DOMAIN program
             PROVE  LET r == Replayed(program, Descr(i).arity, program[i].code)
                    IN  r[1] = program[i].code /\ Descr(i) = Declared(r[2])
  BY DEF CheckSucceeds, Declared
<1>1. PICK u : FunctionTraced(program, program[i], u)
  BY DEF LinkageInductive, Linked
<1>2. Finished(Descr(i), u[Len(u)])
  BY <1>1 DEF FunctionTraced, Descr
<1>3. Replayed(program, Descr(i).arity, program[i].code) = <<program[i].code, u[Len(u)]>>
  BY <1>1, ReplayedCode DEF Descr
<1> QED BY <1>2, <1>3 DEF Finished

-----------------------------------------------------------------------------
(* What the invariant says of programs.                                    *)

(* No assertion of the interpreter fails and no instruction is refused,    *)
(* whatever functions are assembled and whichever is called.               *)
THEOREM MachineAcceptsHolds == LinkageSpec => []MachineAccepts
<1>1. LinkageInductive => MachineAccepts
  BY DEF LinkageInductive, MachineAccepts
<1> QED BY <1>1, LinkageInductiveHolds, PTL

(* Every frame lies within its caller's, and no call leaves its own.       *)
THEOREM FramesNestedHolds == LinkageSpec => []FramesNested
<1>1. LinkageInductive => FramesNested
  BY NestedFrames
<1> QED BY <1>1, LinkageInductiveHolds, PTL

(* A function uses as many registers as its descriptor says, and none of   *)
(* its caller's.                                                           *)
THEOREM RegistersAreOwnHolds == LinkageSpec => []RegistersAreOwn
<1>1. LinkageInductive => RegistersAreOwn
  BY OwnRegisters
<1> QED BY <1>1, LinkageInductiveHolds, PTL

(* The assertion of assembler::leave on monitor::check() never fails.      *)
THEOREM CheckSucceedsHolds == LinkageSpec => []CheckSucceeds
<1>1. LinkageInductive => CheckSucceeds
  BY ChecksSucceed
<1> QED BY <1>1, LinkageInductiveHolds, PTL

(* Where the stack lies low enough, ecx points to the slot that the        *)
(* interpreter's stack pointer names.                                      *)
THEOREM AddressingHolds == LinkageSpec => []Addressing
<1>1. LinkageInit => Addressing
  BY DEF LinkageInit, Addressing
<1>2. LinkageInductive /\ Addressing /\ [LinkageNext]_linkageVars => Addressing'
  BY NextAddressing
<1> QED BY <1>1, <1>2, LinkageInductiveHolds, PTL DEF LinkageSpec

(* Interpreter and translated code address the same slots in a stack that  *)
(* lies below Word; elsewhere they do not, as the run linkage_high shows.  *)
THEOREM AddressesAgreeHolds == LinkageSpec => [](StackIsLow => AddressesAgree)
<1>1. LinkageInductive /\ Addressing => (StackIsLow => AddressesAgree)
  BY SameAddresses
<1> QED BY <1>1, LinkageInductiveHolds, AddressingHolds, PTL

-----------------------------------------------------------------------------
(* Every execution ends.                                                   *)

(* The code c calls only functions of the first n.                         *)
CallsAmong(c, n) ==
  /\ \E S : c \in Seq(S)
  /\ \A k \in DOMAIN c : c[k].op = "call" => c[k].function \in 1 .. n

(* Every function calls only functions assembled before it.                *)
CodeDescends ==
  /\ \A i \in DOMAIN program : CallsAmong(program[i].code, i - 1)
  /\ CallsAmong(code, Len(program))

(* In the chain of calls each function comes before that of its caller, and *)
(* so the chain has no more calls than there are functions.                *)
ChainDescends ==
  \A i \in DOMAIN chain :
    /\ chain[i].function + i <= Len(program) + 1
    /\ \A j \in DOMAIN chain : i < j => chain[j].function < chain[i].function

CallsDescend == CodeDescends /\ ChainDescends

(* The instructions that the active call of function i has before it in    *)
(* the calls ch, and its end; 0 if there is no such call.                  *)
Left(ch, i) ==
  IF \E j \in DOMAIN ch : ch[j].function = i
  THEN Len(program[i].code) + 2 - ch[CHOOSE j \in DOMAIN ch : ch[j].function = i].pc
  ELSE 0

(* What is left of the execution: for each function a natural number.      *)
LeftNatural == \A i \in DOMAIN program : Left(chain, i) \in Nat

(* Less is left for some function, and as much as before for all functions *)
(* assembled after it.                                                     *)
LessLeft(ch, ch2) ==
  \E i \in DOMAIN program :
    /\ Left(ch2, i) < Left(ch, i)
    /\ \A j \in i + 1 .. Len(program) : Left(ch2, j) = Left(ch, j)

(* A list over some set is one over any larger set.                        *)
LEMMA ListWidened ==
  ASSUME NEW S, NEW T, S \subseteq T, NEW s \in Seq(S)
  PROVE  s \in Seq(T)
<1>1. Len(s) \in Nat /\ s \in [1 .. Len(s) -> T]
  OBVIOUS
<1>2. \A n \in Nat : [1 .. n -> T] \subseteq Seq(T)
  OBVIOUS
<1> QED BY <1>1, <1>2

(* Two pieces of code in a row.                                            *)
LEMMA CallsOfBoth ==
  ASSUME NEW c, NEW x, NEW n, CallsAmong(c, n), CallsAmong(x, n)
  PROVE  CallsAmong(c \o x, n)
<1>1. PICK S : c \in Seq(S)
  BY DEF CallsAmong
<1>2. PICK T : x \in Seq(T)
  BY DEF CallsAmong
<1> DEFINE U == S \cup T
<1>3. c \in Seq(U) /\ x \in Seq(U)
  <2>1. S \subseteq U /\ T \subseteq U
    OBVIOUS
  <2> HIDE DEF U
  <2> QED BY <1>1, <1>2, <2>1, ListWidened
<1> HIDE DEF U
<1>4. /\ c \o x \in Seq(U) /\ Len(c \o x) = Len(c) + Len(x)
      /\ \A i \in 1 .. Len(c) + Len(x) :
           (c \o x)[i] = IF i <= Len(c) THEN c[i] ELSE x[i - Len(c)]
  BY <1>3, ConcatProperties
<1>5. /\ Len(c) \in Nat /\ Len(x) \in Nat /\ DOMAIN c = 1 .. Len(c) /\ DOMAIN x = 1 .. Len(x)
      /\ DOMAIN (c \o x) = 1 .. Len(c) + Len(x)
  BY <1>3, <1>4
<1>6. ASSUME NEW k \in 1 .. Len(c) + Len(x)
      PROVE  (c \o x)[k].op = "call" => (c \o x)[k].function \in 1 .. n
  <2>1. CASE k <= Len(c)
    <3>1. k \in DOMAIN c
      BY <1>5, <2>1
    <3>2. (c \o x)[k] = c[k]
      BY <1>4, <2>1
    <3> QED BY <3>1, <3>2 DEF CallsAmong
  <2>2. CASE ~(k <= Len(c))
    <3>1. k - Len(c) \in DOMAIN x
      BY <1>5, <2>2
    <3>2. (c \o x)[k] = x[k - Len(c)]
      BY <1>4, <2>2
    <3> QED BY <3>1, <3>2 DEF CallsAmong
  <2> QED BY <2>1, <2>2
<1> QED BY <1>4, <1>5, <1>6 DEF CallsAmong

(* One instruction, and none.                                              *)
LEMMA CallsOfOne ==
  ASSUME NEW n, NEW e, e.op = "call" => e.function \in 1 .. n
  PROVE  CallsAmong(<<e>>, n) /\ CallsAmong(<<>>, n)
<1>1. <<e>> \in Seq({e}) /\ <<>> \in Seq({e})
  OBVIOUS
<1>2. DOMAIN <<e>> = {1} /\ <<e>>[1] = e
  OBVIOUS
<1>3. CallsAmong(<<e>>, n)
  BY <1>1, <1>2 DEF CallsAmong
<1>4. CallsAmong(<<>>, n)
  BY <1>1 DEF CallsAmong
<1> QED BY <1>3, <1>4

(* Spill code, and what moves the stack pointer, calls nothing.            *)
LEMMA CallsOfSpill ==
  ASSUME NEW n, NEW s, NEW a, NEW b, NEW f
  PROVE  CallsAmong(SpillCode(s, a, b), n) /\ CallsAmong(StackPointerCode(s, f), n)
<1>1. \A op \in {"fld", "fstp"} : \A to, k : CallsAmong(<<Move(op, to, k)>>, n)
  <2> SUFFICES ASSUME NEW op \in {"fld", "fstp"}, NEW to, NEW k
               PROVE  CallsAmong(<<Move(op, to, k)>>, n)
    OBVIOUS
  <2>1. Move(op, to, k).op # "call"
    BY DEF Move
  <2> HIDE DEF Move
  <2> QED BY <2>1, CallsOfOne
<1>2. \A op \in {"sp_inc", "sp_dec"} : \A k : CallsAmong(<<Shift(op, k)>>, n)
  <2> SUFFICES ASSUME NEW op \in {"sp_inc", "sp_dec"}, NEW k
               PROVE  CallsAmong(<<Shift(op, k)>>, n)
    OBVIOUS
  <2>1. Shift(op, k).op # "call"
    BY DEF Shift
  <2> QED BY <2>1, CallsOfOne
<1>3. CallsAmong(<<>>, n)
  BY <1>1, CallsOfOne DEF CallsAmong
<1> QED BY <1>1, <1>2, <1>3 DEF SpillCode, StackPointerCode

(* More functions to call.                                                 *)
LEMMA CallsAmongMore ==
  ASSUME NEW c, NEW n \in Nat, NEW k \in Nat, n <= k, CallsAmong(c, n)
  PROVE  CallsAmong(c, k)
  BY DEF CallsAmong

(* What is emitted for a request other than a call calls nothing.          *)
LEMMA CallsOfRequest ==
  ASSUME NEW n, NEW s, NEW a, NEW b, NEW e, e.op # "call"
  PROVE  CallsAmong(SpillCode(s, a, b) \o <<e>>, n)
<1>1. CallsAmong(SpillCode(s, a, b), n)
  BY CallsOfSpill
<1>2. CallsAmong(<<e>>, n)
  BY CallsOfOne
<1> QED BY <1>1, <1>2, CallsOfBoth

(* More code for the function being assembled.                             *)
LEMMA EmitDescends ==
  ASSUME CodeDescends, program' = program, NEW x, CallsAmong(x, Len(program)), Emit(x)
  PROVE  CodeDescends'
<1>1. CallsAmong(code', Len(program))
  BY CallsOfBoth DEF Emit, CodeDescends
<1> QED BY <1>1 DEF CodeDescends

(* The callee of a request is one of the functions there are.              *)
LEMMA AssembleCallDescends ==
  ASSUME LinkageInductive, CodeDescends, NEW i \in DOMAIN program, AssembleCall(i)
  PROVE  CodeDescends'
<1> DEFINE f == program[i].descriptor
           e == [op |-> "call", function |-> i, climbing |-> f.climbing]
           n == Len(program)
<1>1. i \in 1 .. n
  BY DEF LinkageInductive, Linked
<1>2. CallsAmong(<<e>>, n)
  BY <1>1, CallsOfOne
<1>3. CallsAmong(SpillCode(m, 0, CalleeClobbers(f)), n) /\ CallsAmong(StackPointerCode(m, f), n)
  BY CallsOfSpill
<1>4. CallsAmong(CallCode(m, i, f), n)
  BY <1>2, <1>3, CallsOfBoth DEF CallCode
<1>5. Emit(CallCode(m, i, f)) /\ program' = program
  BY DEF AssembleCall, Proceed
<1> QED BY <1>4, <1>5, EmitDescends

(* Any other request, and the end of a function.                           *)
LEMMA AssemblyDescends ==
  ASSUME LinkageInductive, CodeDescends,
         \/ \E body \in Bodies : Enter(body)
         \/ AssembleOperation \/ AssembleLoad \/ AssembleStore \/ AssembleAlloca
         \/ AssembleBra \/ AssembleKet \/ AssembleRet
  PROVE  CodeDescends'
<1>1. CASE \E body \in Bodies : Enter(body)
  <2>1. program' = program /\ code' = <<>>
    BY <1>1 DEF Enter
  <2>2. CallsAmong(<<>>, Len(program))
    BY CallsOfOne, (Fpu(0, 0)).op # "call" DEF Fpu
  <2> QED BY <2>1, <2>2 DEF CodeDescends
<1>2. CASE AssembleOperation
  <2> DEFINE e == Fpu(Request.effect[1], Request.effect[2])
  <2>1. /\ program' = program
        /\ Emit(SpillCode(m, Request.effect[1], Footprint(Request.effect)) \o <<e>>)
    BY <1>2 DEF AssembleOperation, Proceed
  <2>2. e.op # "call"
    BY DEF Fpu
  <2> QED BY <2>1, <2>2, CallsOfRequest, EmitDescends
<1>3. ASSUME NEW op \in {"load", "store", "alloca"}, NEW slot, NEW a,
             program' = program, Emit(SpillCode(m, a, 1) \o << Access(op, slot) >>)
      PROVE  CodeDescends'
  <2>1. Access(op, slot).op # "call"
    BY DEF Access
  <2> QED BY <1>3, <2>1, CallsOfRequest, EmitDescends
<1>4. CASE AssembleLoad
  BY <1>3, <1>4 DEF AssembleLoad, Proceed
<1>5. CASE AssembleStore
  BY <1>3, <1>5 DEF AssembleStore, Proceed
<1>6. CASE AssembleAlloca
  BY <1>3, <1>6 DEF AssembleAlloca, Proceed
<1>7. ASSUME NEW op \in {"bra", "ket", "ret"}, NEW n
      PROVE  CallsAmong(<< Shift(op, n) >>, Len(program))
  <2>1. Shift(op, n).op # "call"
    BY DEF Shift
  <2> QED BY <2>1, CallsOfOne
<1>8. CASE AssembleBra
  BY <1>7, <1>8, EmitDescends DEF AssembleBra, Proceed
<1>9. CASE AssembleKet
  BY <1>7, <1>9, EmitDescends DEF AssembleKet, Proceed
<1>10. CASE AssembleRet
  <2>1. CallsAmong(SpillCode(m, Excess(m), Excess(m)) \o << Shift("ret", Excess(m)) >>,
                   Len(program))
    BY <1>7, CallsOfSpill, CallsOfBoth
  <2> QED BY <1>10, <2>1, EmitDescends DEF AssembleRet, Proceed
<1> QED BY <1>1, <1>2, <1>4, <1>5, <1>6, <1>8, <1>9, <1>10

(* What was assembled becomes a function that calls those before it.       *)
LEMMA LeaveDescends ==
  ASSUME LinkageInductive, CodeDescends, AssembleLeave
  PROVE  CodeDescends'
<1> DEFINE e == Shift("ket", m.locals - Last(brackets))
           recorded == code \o <<e>>
           f == [descriptor |-> AsDescriptor', code |-> recorded]
           n == Len(program)
<1>1. program' = Append(program, f) /\ code' = <<>>
  BY DEF AssembleLeave
<1>2. program \in Seq([descriptor: Descriptor, code: Seq(Instructions)]) /\ Linked(program')
  BY AssembleLeaveKeeps DEF LinkageInductive, Linked
<1>3. n \in Nat /\ DOMAIN program = 1 .. n
  BY <1>2
<1> HIDE DEF f
<1>4. Len(program') = n + 1 /\ DOMAIN program' = 1 .. n + 1
      /\ program'[n + 1] = f /\ \A j \in 1 .. n : program'[j] = program[j]
  <2>1. program' \in Seq([descriptor: Descriptor, code: Seq(Instructions)])
    BY <1>2 DEF Linked
  <2> QED BY <1>1, <1>2, <2>1
<1>5. f.code = recorded
  BY DEF f
<1>6. e.op # "call"
  BY DEF Shift
<1>7. CallsAmong(recorded, n) /\ CallsAmong(<<>>, n + 1)
  <2>1. CallsAmong(<<e>>, n)
    BY <1>6, CallsOfOne
  <2>2. CallsAmong(<<>>, n + 1)
    BY <1>6, CallsOfOne
  <2> QED BY <2>1, <2>2, CallsOfBoth DEF CodeDescends
<1> HIDE DEF n, recorded
<1>8. ASSUME NEW j \in 1 .. n + 1 PROVE CallsAmong(program'[j].code, j - 1)
  <2>1. CASE j \in 1 .. n
    BY <1>3, <1>4, <2>1 DEF CodeDescends
  <2>2. CASE j = n + 1
    BY <1>3, <1>4, <1>5, <1>7, <2>2
  <2> QED BY <1>3, <2>1, <2>2
<1> QED BY <1>1, <1>4, <1>7, <1>8 DEF CodeDescends

(* The calls in progress.                                                  *)
LEMMA CallsInProgress ==
  ASSUME LinkageInductive, Running
  PROVE  /\ chain \in Seq(Calls) /\ Len(chain) \in Nat /\ Len(chain) >= 1
         /\ DOMAIN chain = 1 .. Len(chain) /\ Top = chain[Len(chain)]
         /\ Len(program) \in Nat /\ DOMAIN program = 1 .. Len(program)
         /\ \A i \in DOMAIN chain :
              /\ chain[i].function \in 1 .. Len(program)
              /\ chain[i].pc \in 1 .. Len(program[chain[i].function].code) + 1
              /\ Len(program[chain[i].function].code) \in Nat
<1>1. CallsNested(program, chain, vm) /\ Linked(program)
  BY DEF LinkageInductive, Running
<1>2. chain \in Seq(Calls) /\ chain # <<>>
  BY <1>1 DEF CallsNested
<1>3. Len(program) \in Nat /\ DOMAIN program = 1 .. Len(program)
  BY <1>1 DEF Linked
<1>4. ASSUME NEW i \in DOMAIN chain
      PROVE  /\ chain[i].function \in 1 .. Len(program)
             /\ chain[i].pc \in 1 .. Len(program[chain[i].function].code) + 1
             /\ Len(program[chain[i].function].code) \in Nat
  <2>1. PICK s : Active(program, Size(program, chain), chain[i], s)
    BY <1>1 DEF CallsNested
  <2>2. PICK u : /\ FunctionTraced(program, program[chain[i].function], u)
                 /\ chain[i].pc \in 1 .. Len(u)
    BY <2>1 DEF Active
  <2>3. /\ program[chain[i].function].code \in Seq(Instructions)
        /\ Len(u) = Len(program[chain[i].function].code) + 1
    BY <2>2 DEF FunctionTraced, Traced
  <2> QED BY <1>3, <2>1, <2>2, <2>3 DEF Active
<1> QED BY <1>2, <1>3, <1>4 DEF Top, Last

(* The calls ch2 are ch, the innermost one instruction further.            *)
Advanced(ch, ch2) ==
  /\ DOMAIN ch2 = DOMAIN ch
  /\ \A i \in DOMAIN ch :
       /\ ch2[i].function = ch[i].function
       /\ ch2[i].pc = IF i = Len(ch) THEN ch[i].pc + 1 ELSE ch[i].pc

(* The calls ch2 are ch, the innermost waiting for a new one of x.         *)
CallAdded(ch, ch2, x) ==
  /\ DOMAIN ch2 = 1 .. Len(ch) + 1
  /\ \A i \in DOMAIN ch :
       /\ ch2[i].function = ch[i].function
       /\ ch2[i].pc = IF i = Len(ch) THEN ch[i].pc + 1 ELSE ch[i].pc
  /\ ch2[Len(ch) + 1].function = x /\ ch2[Len(ch) + 1].pc = 1

(* Most instructions only bring the innermost call one further.            *)
LEMMA ExecuteAdvances ==
  ASSUME LinkageInductive,
         \/ ExecuteFpu \/ ExecuteLoad \/ ExecuteStore \/ ExecuteReload \/ ExecuteSpill
         \/ ExecuteShift \/ ExecuteBracket \/ ExecuteRet
  PROVE  Running /\ Advanced(chain, chain') /\ UNCHANGED <<program, code>>
<1>1. Running /\ UNCHANGED <<program, code>>
  BY DEF ExecuteFpu, ExecuteLoad, ExecuteStore, ExecuteReload, ExecuteSpill, ExecuteShift,
         ExecuteBracket, ExecuteRet, Executing, Continue, assemblerVars
<1>2. chain \in Seq(Calls) /\ Len(chain) \in DOMAIN chain
  BY <1>1, CallsInProgress
<1> DEFINE n == Len(chain)
<1>3. ASSUME chain'[n].function = chain[n].function, chain'[n].pc = chain[n].pc + 1,
             DOMAIN chain' = DOMAIN chain,
             \A i \in DOMAIN chain : i # n => chain'[i] = chain[i]
      PROVE  Advanced(chain, chain')
  BY <1>3 DEF Advanced
<1>5. chain[n] \in Calls
  BY <1>2
<1>6. CASE chain' = [chain EXCEPT ![n].pc = @ + 1]
  <2> DEFINE c == [chain[n] EXCEPT !.pc = @ + 1]
  <2>1. c.function = chain[n].function /\ c.pc = chain[n].pc + 1
    BY <1>5 DEF Calls
  <2>2. chain' = [chain EXCEPT ![n] = c]
    BY <1>6
  <2> HIDE DEF c, n
  <2>3. DOMAIN chain' = DOMAIN chain /\ \A i \in DOMAIN chain : i # n => chain'[i] = chain[i]
    BY <1>2, <2>2
  <2>4. chain'[n] = c
    BY <1>2, <2>2 DEF n
  <2> QED BY <1>1, <1>3, <2>1, <2>3, <2>4
<1>4. CASE ExecuteShift
  <2>1. PICK k : chain' = [chain EXCEPT ![Len(chain)].pc = @ + 1, ![Len(chain)].tsp = @ + k]
    BY <1>4 DEF ExecuteShift
  <2> DEFINE c == [chain[Len(chain)] EXCEPT !.pc = @ + 1, !.tsp = @ + k]
  <2>2. c.function = chain[Len(chain)].function /\ c.pc = chain[Len(chain)].pc + 1
    BY <1>5 DEF Calls
  <2>3. chain' = [chain EXCEPT ![Len(chain)] = c]
    BY <1>2, <1>5, <2>1 DEF Calls
  <2> HIDE DEF c
  <2>4. /\ DOMAIN chain' = DOMAIN chain /\ chain'[Len(chain)] = c
        /\ \A i \in DOMAIN chain : i # Len(chain) => chain'[i] = chain[i]
    BY <1>2, <2>3
  <2> QED BY <1>1, <1>3, <2>2, <2>4
<1> QED BY <1>1, <1>4, <1>6 DEF ExecuteFpu, ExecuteLoad, ExecuteStore, ExecuteReload, ExecuteSpill,
        ExecuteBracket, ExecuteRet, Continue

(* A call of a function assembled before the caller.                       *)
LEMMA ExecuteDeepens ==
  ASSUME LinkageInductive, CodeDescends, ExecuteCall
  PROVE  /\ Running /\ UNCHANGED <<program, code>>
         /\ \E x : CallAdded(chain, chain', x) /\ x \in 1 .. Top.function - 1
<1> DEFINE n == Len(chain)
           x == Instr.function
           c == AfterCall(Top, Instr.climbing)
           e == [function |-> x, pc |-> 1, fp |-> vm.sp, tsp |-> 0, held |-> vm.regs]
           callers == Append(Front(chain), c)
<1>1. /\ Running /\ ~AtEnd /\ Instr.op = "call" /\ UNCHANGED <<program, code>>
      /\ chain' = callers \o <<e>>
  BY DEF ExecuteCall, Executing, assemblerVars
<1>2. /\ chain \in Seq(Calls) /\ n \in Nat /\ n >= 1 /\ DOMAIN chain = 1 .. n /\ Top = chain[n]
      /\ Top.function \in DOMAIN program /\ Top.function \in Nat
      /\ Top.pc \in 1 .. Len(program[Top.function].code) + 1
      /\ Len(program[Top.function].code) \in Nat
  BY <1>1, CallsInProgress
<1>3. x \in 1 .. Top.function - 1
  <2>1. Top.pc \in 1 .. Len(program[Top.function].code)
    BY <1>1, <1>2 DEF AtEnd
  <2>2. CallsAmong(program[Top.function].code, Top.function - 1)
    BY <1>2 DEF CodeDescends
  <2>3. Instr = program[Top.function].code[Top.pc]
    BY DEF Instr
  <2>4. Top.pc \in DOMAIN program[Top.function].code
    BY <2>1, <2>2 DEF CallsAmong
  <2> QED BY <1>1, <2>2, <2>3, <2>4 DEF CallsAmong
<1>4. c.function = Top.function /\ c.pc = Top.pc + 1
  BY <1>2 DEF AfterCall, Calls
<1>5. e.function = x /\ e.pc = 1
  OBVIOUS
<1> DEFINE S == Calls \cup {c, e}
<1>6. chain \in Seq(S) /\ c \in S /\ e \in S
  <2>1. Calls \subseteq S
    OBVIOUS
  <2> HIDE DEF S
  <2>2. chain \in Seq(S)
    BY <1>2, <2>1, ListWidened
  <2> QED BY <2>2 DEF S
<1> HIDE DEF S, c, e, x
<1>7. Front(chain) \in Seq(S) /\ Len(Front(chain)) = n - 1
      /\ \A i \in 1 .. n - 1 : Front(chain)[i] = chain[i]
  BY <1>2, <1>6, FrontOfSequence DEF Front
<1>8. callers \in Seq(S) /\ Len(callers) = n /\ callers[n] = c
      /\ \A i \in 1 .. n - 1 : callers[i] = chain[i]
  <2>1. /\ callers \in Seq(S) /\ Len(callers) = (n - 1) + 1 /\ callers[(n - 1) + 1] = c
        /\ \A i \in 1 .. n - 1 : callers[i] = Front(chain)[i]
    BY <1>6, <1>7, AppendProperties
  <2>2. (n - 1) + 1 = n
    BY <1>2
  <2> QED BY <1>7, <2>1, <2>2
<1> HIDE DEF callers, n
<1>9. /\ chain' \in Seq(S) /\ Len(chain') = n + 1 /\ chain'[n + 1] = e
      /\ \A i \in 1 .. n : chain'[i] = callers[i]
  BY <1>1, <1>6, <1>8, OneMore
<1>10. DOMAIN chain' = 1 .. n + 1
  BY <1>9
<1>11. ASSUME NEW i \in 1 .. n
       PROVE  /\ chain'[i].function = chain[i].function
              /\ chain'[i].pc = IF i = n THEN chain[i].pc + 1 ELSE chain[i].pc
  <2>1. CASE i = n
    BY <1>2, <1>4, <1>8, <1>9, <2>1
  <2>2. CASE i # n
    <3>1. i \in 1 .. n - 1
      BY <1>2, <2>2
    <3> QED BY <1>8, <1>9, <2>2, <3>1
  <2> QED BY <2>1, <2>2
<1>12. CallAdded(chain, chain', x)
  BY <1>2, <1>5, <1>9, <1>10, <1>11 DEF CallAdded, n
<1> QED BY <1>1, <1>3, <1>12

(* The innermost call is over.                                             *)
LEMMA ReturnShortens ==
  ASSUME LinkageInductive, Return
  PROVE  /\ Running /\ UNCHANGED <<program, code>> /\ DOMAIN chain' = 1 .. Len(chain) - 1
         /\ \A i \in 1 .. Len(chain) - 1 : chain'[i] = chain[i]
<1>1. Running /\ UNCHANGED <<program, code>> /\ chain' = Front(chain)
  BY DEF Return, assemblerVars
<1>2. chain \in Seq(Calls) /\ Len(chain) >= 1
  BY <1>1, CallsInProgress
<1>3. Front(chain) \in Seq(Calls) /\ Len(Front(chain)) = Len(chain) - 1
      /\ \A i \in 1 .. Len(chain) - 1 : Front(chain)[i] = chain[i]
  BY <1>2, FrontOfSequence DEF Front
<1> QED BY <1>1, <1>3

(* An execution begins with one call, and each step leaves the functions in *)
(* the chain in the order of the program.                                  *)
LEMMA ChainKept ==
  ASSUME LinkageInductive, CallsDescend, Execute
  PROVE  CallsDescend'
<1>1. CASE \/ ExecuteFpu \/ ExecuteLoad \/ ExecuteStore \/ ExecuteReload \/ ExecuteSpill
           \/ ExecuteShift \/ ExecuteBracket \/ ExecuteRet
  <2>1. Advanced(chain, chain') /\ UNCHANGED <<program, code>>
    BY <1>1, ExecuteAdvances
  <2> QED BY <2>1 DEF CallsDescend, CodeDescends, ChainDescends, Advanced
<1>2. CASE ExecuteCall
  <2>1. PICK x \in 1 .. Top.function - 1 : CallAdded(chain, chain', x)
    BY <1>2, ExecuteDeepens DEF CallsDescend
  <2>2. Running /\ UNCHANGED <<program, code>>
    BY <1>2, ExecuteDeepens DEF CallsDescend
  <2> DEFINE n == Len(chain)
             size == Len(program)
  <2>3. /\ n \in Nat /\ n >= 1 /\ DOMAIN chain = 1 .. n /\ Top = chain[n] /\ size \in Nat
        /\ \A i \in 1 .. n : chain[i].function \in Nat
    BY <2>2, CallsInProgress
  <2>4. /\ DOMAIN chain' = 1 .. n + 1 /\ chain'[n + 1].function = x
        /\ \A i \in 1 .. n : chain'[i].function = chain[i].function
    BY <2>1, <2>3 DEF CallAdded
  <2>5. \A i \in 1 .. n : /\ chain[i].function + i <= size + 1
                          /\ \A j \in 1 .. n : i < j => chain[j].function < chain[i].function
    BY <2>3 DEF CallsDescend, ChainDescends
  <2> HIDE DEF n, size
  <2>6. x \in Nat /\ x < chain[n].function
    BY <2>3
  <2>7. x + (n + 1) <= size + 1
    BY <2>3, <2>5, <2>6
  <2>8. \A i \in 1 .. n : x < chain[i].function
    BY <2>3, <2>5, <2>6
  <2>9. ASSUME NEW i \in 1 .. n + 1
        PROVE  /\ chain'[i].function + i <= size + 1
               /\ \A j \in 1 .. n + 1 : i < j => chain'[j].function < chain'[i].function
    <3>1. CASE i = n + 1
      BY <2>3, <2>4, <2>7, <3>1
    <3>2. CASE i \in 1 .. n
      <4>1. ASSUME NEW j \in 1 .. n + 1, i < j PROVE chain'[j].function < chain'[i].function
        <5>1. CASE j = n + 1
          BY <2>4, <2>8, <3>2, <5>1
        <5>2. CASE j \in 1 .. n
          BY <2>4, <2>5, <3>2, <4>1, <5>2
        <5> QED BY <2>3, <5>1, <5>2
      <4> QED BY <2>4, <2>5, <3>2, <4>1
    <3> QED BY <2>3, <3>1, <3>2
  <2> QED BY <2>2, <2>4, <2>9 DEF CallsDescend, CodeDescends, ChainDescends, size
<1>3. CASE Return
  <2>1. /\ Running /\ UNCHANGED <<program, code>> /\ DOMAIN chain' = 1 .. Len(chain) - 1
        /\ \A i \in 1 .. Len(chain) - 1 : chain'[i] = chain[i]
    BY <1>3, ReturnShortens
  <2>2. Len(chain) \in Nat /\ DOMAIN chain = 1 .. Len(chain)
    BY <2>1, CallsInProgress
  <2>3. 1 .. Len(chain) - 1 \subseteq DOMAIN chain
    BY <2>2
  <2> QED BY <2>1, <2>3 DEF CallsDescend, CodeDescends, ChainDescends
<1> QED BY <1>1, <1>2, <1>3 DEF Execute

(* Every step of the assembler and of the machine.                         *)
LEMMA NextDescends ==
  ASSUME LinkageInductive, CallsDescend, [LinkageNext]_linkageVars
  PROVE  CallsDescend'
<1>1. CASE \/ \E body \in Bodies : Enter(body)
           \/ AssembleOperation \/ AssembleLoad \/ AssembleStore \/ AssembleAlloca
           \/ AssembleBra \/ AssembleKet \/ AssembleRet
  <2>1. phase = "assembling" /\ UNCHANGED chain
    BY <1>1 DEF Enter, AssembleOperation, AssembleLoad, AssembleStore, AssembleAlloca,
       AssembleBra, AssembleKet, AssembleRet, Requested, Assembling, Proceed
  <2>2. CodeDescends'
    BY <1>1, AssemblyDescends DEF CallsDescend
  <2>3. chain' = <<>>
    BY <2>1 DEF LinkageInductive
  <2> QED BY <2>2, <2>3 DEF CallsDescend, ChainDescends
<1>2. CASE \E i \in DOMAIN program : AssembleCall(i)
  <2>1. phase = "assembling" /\ UNCHANGED chain
    BY <1>2 DEF AssembleCall, Requested, Assembling, Proceed
  <2>2. CodeDescends'
    BY <1>2, AssembleCallDescends DEF CallsDescend
  <2>3. chain' = <<>>
    BY <2>1 DEF LinkageInductive
  <2> QED BY <2>2, <2>3 DEF CallsDescend, ChainDescends
<1>3. CASE AssembleLeave
  <2>1. phase = "assembling" /\ UNCHANGED chain
    BY <1>3 DEF AssembleLeave, Requested, Assembling
  <2>2. CodeDescends'
    BY <1>3, LeaveDescends DEF CallsDescend
  <2>3. chain' = <<>>
    BY <2>1 DEF LinkageInductive
  <2> QED BY <2>2, <2>3 DEF CallsDescend, ChainDescends
<1>4. ASSUME NEW x \in DOMAIN program, Start(x) PROVE CallsDescend'
  <2> DEFINE e == [function |-> x, pc |-> 1, fp |-> 0, tsp |-> 0, held |-> 0]
  <2>1. chain' = <<e>> /\ UNCHANGED <<program, code>>
    BY <1>4 DEF Start, assemblerVars
  <2>2. e.function = x /\ x \in 1 .. Len(program) /\ Len(program) \in Nat
    BY DEF LinkageInductive, Linked
  <2> HIDE DEF e
  <2>3. DOMAIN chain' = {1} /\ chain'[1] = e
    BY <2>1
  <2> QED BY <2>1, <2>2, <2>3 DEF CallsDescend, CodeDescends, ChainDescends
<1>5. CASE Reject \/ UNCHANGED linkageVars
  <2>1. UNCHANGED <<program, code, chain>>
    BY <1>5 DEF Reject, linkageVars, assemblerVars
  <2> QED BY <2>1 DEF CallsDescend, CodeDescends, ChainDescends
<1>6. CASE Execute
  BY <1>6, ChainKept
<1> QED BY <1>1, <1>2, <1>3, <1>4, <1>5, <1>6 DEF LinkageNext

(* The n calls ch are of different functions, in that order.               *)
Descending(ch, n) ==
  /\ n \in Nat /\ DOMAIN ch = 1 .. n /\ \A i \in 1 .. n : ch[i].function \in Nat
  /\ \A i, j \in 1 .. n : i < j => ch[j].function < ch[i].function

(* What is left of a function whose call is in progress.                   *)
LEMMA LeftAt ==
  ASSUME NEW ch, NEW n, Descending(ch, n)
  PROVE  \A k \in 1 .. n :
           Left(ch, ch[k].function) = Len(program[ch[k].function].code) + 2 - ch[k].pc
<1>1. ASSUME NEW i \in 1 .. n, NEW j \in 1 .. n, ch[i].function = ch[j].function PROVE i = j
  <2>1. i < j \/ i = j \/ j < i
    BY DEF Descending
  <2> QED BY <1>1, <2>1 DEF Descending
<1>2. ASSUME NEW k \in 1 .. n
      PROVE  Left(ch, ch[k].function) = Len(program[ch[k].function].code) + 2 - ch[k].pc
  <2> DEFINE j == CHOOSE j \in DOMAIN ch : ch[j].function = ch[k].function
  <2>1. k \in DOMAIN ch /\ DOMAIN ch = 1 .. n
    BY DEF Descending
  <2>2. j \in DOMAIN ch /\ ch[j].function = ch[k].function
    BY <2>1
  <2>3. j = k
    BY <1>1, <2>1, <2>2
  <2> HIDE DEF j
  <2>4. Left(ch, ch[k].function) = Len(program[ch[k].function].code) + 2 - ch[j].pc
    BY <2>1 DEF Left, j
  <2> QED BY <2>3, <2>4
<1> QED BY <1>2

(* As much is left of a function that is called in the same place or not   *)
(* at all.                                                                 *)
LEMMA LeftSame ==
  ASSUME NEW ch, NEW n, Descending(ch, n), NEW ch2, NEW n2, Descending(ch2, n2), NEW i,
         \A k \in 1 .. n : ch[k].function = i =>
           k \in 1 .. n2 /\ ch2[k].function = i /\ ch2[k].pc = ch[k].pc,
         \A k \in 1 .. n2 : ch2[k].function = i => k \in 1 .. n /\ ch[k].function = i
  PROVE  Left(ch2, i) = Left(ch, i)
<1>1. CASE \E k \in 1 .. n : ch[k].function = i
  <2>1. PICK k \in 1 .. n : ch[k].function = i
    BY <1>1
  <2>2. k \in 1 .. n2 /\ ch2[k].function = i /\ ch2[k].pc = ch[k].pc
    BY <2>1
  <2>3. Left(ch, i) = Len(program[i].code) + 2 - ch[k].pc
    BY <2>1, LeftAt
  <2>4. Left(ch2, i) = Len(program[i].code) + 2 - ch2[k].pc
    BY <2>2, LeftAt
  <2> QED BY <2>2, <2>3, <2>4
<1>2. CASE ~ \E k \in 1 .. n : ch[k].function = i
  <2>1. ~ \E k \in 1 .. n2 : ch2[k].function = i
    BY <1>2
  <2> QED BY <1>2, <2>1 DEF Left, Descending
<1> QED BY <1>1, <1>2

(* Of the functions of the calls in progress something is left, of the     *)
(* others nothing.                                                         *)
LEMMA SomethingLeft ==
  ASSUME LinkageInductive, CallsDescend
  PROVE  LeftNatural /\ (Running => Descending(chain, Len(chain)))
<1>1. Running => Descending(chain, Len(chain))
  BY CallsInProgress DEF CallsDescend, ChainDescends, Descending
<1>2. ASSUME NEW i \in DOMAIN program PROVE Left(chain, i) \in Nat
  <2>1. CASE \E k \in DOMAIN chain : chain[k].function = i
    <3>1. Running
      BY <2>1 DEF LinkageInductive, Running
    <3>2. PICK k \in 1 .. Len(chain) : chain[k].function = i
      BY <2>1, <3>1, CallsInProgress
    <3>3. /\ chain[k].pc \in 1 .. Len(program[i].code) + 1
          /\ Len(program[i].code) \in Nat
      BY <3>1, <3>2, CallsInProgress
    <3>4. Left(chain, i) = Len(program[i].code) + 2 - chain[k].pc
      BY <1>1, <3>1, <3>2, LeftAt
    <3> QED BY <3>3, <3>4
  <2>2. CASE ~ \E k \in DOMAIN chain : chain[k].function = i
    BY <2>2 DEF Left
  <2> QED BY <2>1, <2>2
<1> QED BY <1>1, <1>2 DEF LeftNatural

(* Each step of an execution leaves less of the innermost call's function; *)
(* a call adds only to what is left of a function assembled before it.     *)
LEMMA ExecuteLessens ==
  ASSUME LinkageInductive, CallsDescend, Execute
  PROVE  LessLeft(chain, chain')
<1> DEFINE n == Len(chain)
           x == Top.function
           size == Len(program[x].code)
<1>1. Running /\ UNCHANGED program
  BY ExecuteAdvances, ExecuteDeepens, ReturnShortens DEF Execute, CallsDescend
<1>2. /\ n \in Nat /\ n >= 1 /\ DOMAIN chain = 1 .. n /\ Top = chain[n]
      /\ x \in 1 .. Len(program) /\ x \in DOMAIN program /\ Top.pc \in 1 .. size + 1 /\ size \in Nat
  BY <1>1, CallsInProgress
<1>3. Descending(chain, n)
  BY <1>1, SomethingLeft
<1>4. \A j \in 1 .. n - 1 : chain[j].function > x
  BY <1>2, <1>3 DEF Descending
<1>5. \A n2 \in Nat : /\ DOMAIN chain' = 1 .. n2
                      /\ \A i \in 1 .. n2 : chain'[i].function \in Nat
                     => Descending(chain', n2)
  <2>1. CallsDescend'
    BY ChainKept
  <2> QED BY <2>1 DEF CallsDescend, ChainDescends, Descending
<1> HIDE DEF n, size
<1>6. Left(chain, x) = size + 2 - Top.pc
  BY <1>2, <1>3, LeftAt DEF size
<1>7. SUFFICES /\ Left(chain', x) < Left(chain, x)
               /\ \A i \in x + 1 .. Len(program) : Left(chain', i) = Left(chain, i)
  BY <1>2 DEF LessLeft
<1>8. CASE \/ ExecuteFpu \/ ExecuteLoad \/ ExecuteStore \/ ExecuteReload \/ ExecuteSpill
           \/ ExecuteShift \/ ExecuteBracket \/ ExecuteRet
  <2>1. Advanced(chain, chain')
    BY <1>8, ExecuteAdvances
  <2>2. DOMAIN chain' = 1 .. n /\ \A i \in 1 .. n : chain'[i].function = chain[i].function
    BY <1>2, <2>1 DEF Advanced
  <2>3. \A i \in 1 .. n : chain'[i].pc = IF i = n THEN chain[i].pc + 1 ELSE chain[i].pc
    BY <1>2, <2>1 DEF Advanced, n
  <2>4. Descending(chain', n)
    BY <1>2, <1>3, <1>5, <2>2 DEF Descending
  <2>5. Left(chain', x) = size + 2 - (Top.pc + 1)
    BY <1>2, <2>2, <2>3, <2>4, LeftAt DEF size
  <2>6. ASSUME NEW i \in x + 1 .. Len(program) PROVE Left(chain', i) = Left(chain, i)
    <3>1. i # chain[n].function
      BY <1>2
    <3>2. \A k \in 1 .. n : chain[k].function = i =>
            k \in 1 .. n /\ chain'[k].function = i /\ chain'[k].pc = chain[k].pc
      BY <2>2, <2>3, <3>1
    <3>3. \A k \in 1 .. n : chain'[k].function = i => k \in 1 .. n /\ chain[k].function = i
      BY <2>2
    <3> QED BY <1>3, <2>4, <3>2, <3>3, LeftSame
  <2> QED BY <1>2, <1>6, <2>5, <2>6
<1>9. CASE ExecuteCall
  <2>1. PICK y \in 1 .. x - 1 : CallAdded(chain, chain', y)
    BY <1>9, ExecuteDeepens DEF CallsDescend
  <2>2. /\ DOMAIN chain' = 1 .. n + 1 /\ \A i \in 1 .. n : chain'[i].function = chain[i].function
        /\ chain'[n + 1].function = y
    BY <1>2, <2>1 DEF CallAdded, n
  <2>3. \A i \in 1 .. n : chain'[i].pc = IF i = n THEN chain[i].pc + 1 ELSE chain[i].pc
    BY <1>2, <2>1 DEF CallAdded, n
  <2>4. Descending(chain', n + 1)
    <3>1. n + 1 \in Nat /\ \A i \in 1 .. n + 1 : i \in 1 .. n \/ i = n + 1
      BY <1>2
    <3>2. \A i \in 1 .. n + 1 : chain'[i].function \in Nat
      BY <1>3, <2>2, <3>1 DEF Descending
    <3> QED BY <1>5, <2>2, <3>1, <3>2
  <2>5. Left(chain', x) = size + 2 - (Top.pc + 1)
    <3>1. n \in 1 .. n + 1 /\ n \in 1 .. n
      BY <1>2
    <3>2. chain'[n].function = x /\ chain'[n].pc = Top.pc + 1
      BY <1>2, <2>2, <2>3, <3>1
    <3> QED BY <2>4, <3>1, <3>2, LeftAt DEF size
  <2>6. ASSUME NEW i \in x + 1 .. Len(program) PROVE Left(chain', i) = Left(chain, i)
    <3>1. i # chain[n].function /\ i # y
      BY <1>2
    <3>2. \A k \in 1 .. n : k \in 1 .. n + 1
      BY <1>2
    <3>3. \A k \in 1 .. n + 1 : k \in 1 .. n \/ k = n + 1
      BY <1>2
    <3>4. \A k \in 1 .. n : chain[k].function = i =>
            k \in 1 .. n + 1 /\ chain'[k].function = i /\ chain'[k].pc = chain[k].pc
      BY <2>2, <2>3, <3>1, <3>2
    <3>5. \A k \in 1 .. n + 1 : chain'[k].function = i => k \in 1 .. n /\ chain[k].function = i
      BY <2>2, <3>1, <3>3
    <3> QED BY <1>3, <2>4, <3>4, <3>5, LeftSame
  <2> QED BY <1>2, <1>6, <2>5, <2>6
<1>10. CASE Return
  <2>1. DOMAIN chain' = 1 .. n - 1 /\ \A i \in 1 .. n - 1 : chain'[i] = chain[i]
    BY <1>10, ReturnShortens DEF n
  <2>2. Descending(chain', n - 1)
    <3>1. n - 1 \in Nat /\ 1 .. n - 1 \subseteq 1 .. n
      BY <1>2
    <3> QED BY <1>3, <1>5, <2>1, <3>1 DEF Descending
  <2>3. Left(chain', x) = 0
    BY <1>2, <1>4, <2>1 DEF Left
  <2>4. ASSUME NEW i \in x + 1 .. Len(program) PROVE Left(chain', i) = Left(chain, i)
    <3>1. i # chain[n].function
      BY <1>2
    <3>2. \A k \in 1 .. n : k = n \/ k \in 1 .. n - 1
      BY <1>2
    <3>3. \A k \in 1 .. n - 1 : k \in 1 .. n
      BY <1>2
    <3>4. \A k \in 1 .. n : chain[k].function = i =>
            k \in 1 .. n - 1 /\ chain'[k].function = i /\ chain'[k].pc = chain[k].pc
      BY <2>1, <3>1, <3>2
    <3>5. \A k \in 1 .. n - 1 : chain'[k].function = i => k \in 1 .. n /\ chain[k].function = i
      BY <2>1, <3>3
    <3> QED BY <1>3, <2>2, <3>4, <3>5, LeftSame
  <2> QED BY <1>2, <1>6, <2>3, <2>4
<1> QED BY <1>8, <1>9, <1>10 DEF Execute

(* There is no recursion: a function's code calls only functions assembled *)
(* before it, and the chain of calls is never longer than the program.     *)
THEOREM CallsDescendHolds == LinkageSpec => [](CallsDescend /\ Len(chain) <= Len(program))
<1>1. LinkageInit => CallsDescend
  <2>1. CallsAmong(<<>>, Len(program))
    BY CallsOfOne, Fpu(0, 0).op # "call" DEF Fpu
  <2> QED BY <2>1 DEF LinkageInit, CallsDescend, CodeDescends, ChainDescends
<1>2. LinkageInductive /\ CallsDescend /\ [LinkageNext]_linkageVars => CallsDescend'
  BY NextDescends
<1>3. LinkageInductive /\ CallsDescend => Len(chain) <= Len(program)
  <2> SUFFICES ASSUME LinkageInductive, CallsDescend PROVE Len(chain) <= Len(program)
    OBVIOUS
  <2>1. CASE Running
    BY <2>1, CallsInProgress DEF CallsDescend, ChainDescends
  <2>2. CASE ~Running
    BY <2>2 DEF LinkageInductive, Linked, Running
  <2> QED BY <2>1, <2>2
<1> QED BY <1>1, <1>2, <1>3, LinkageInductiveHolds, PTL DEF LinkageSpec

(* Every step of an execution leaves less of it, in the lexicographic      *)
(* order of what is left of the functions, last function first: there is   *)
(* no infinite execution.                                                  *)
THEOREM ExecutionDescends ==
  LinkageSpec => []LeftNatural /\ [][Execute => LessLeft(chain, chain')]_linkageVars
<1>1. LinkageInductive /\ CallsDescend => LeftNatural
  BY SomethingLeft
<1>2. LinkageInductive /\ CallsDescend /\ [LinkageNext]_linkageVars
        => [Execute => LessLeft(chain, chain')]_linkageVars
  BY ExecuteLessens
<1> QED BY <1>1, <1>2, LinkageInductiveHolds, CallsDescendHolds, PTL DEF LinkageSpec

=============================================================================
