---------------------------- MODULE MonitorProofs ----------------------------
(***************************************************************************)
(* What module Monitor states, proved for every number of registers from   *)
(* three on, every set of callees that function::leave accepts, and all    *)
(* bounds.                                                                 *)
(***************************************************************************)
EXTENDS Monitor, SequenceTheorems, TLAPS

(* The counters of a monitor between two requests.                         *)
Counted(s) ==
  /\ s \in MonitorState
  /\ s.used <= s.clobbered /\ s.clobbered <= DEPTH
  /\ s.arity <= s.locals /\ s.locals <= s.frameUsed
  /\ s.frameUsed <= s.frameClobbered
  /\ s.sp <= s.frameClobbered

(* A request adjust can serve: no more operands than there are temporaries *)
(* and no more registers than the machine has.                             *)
Servable(s, consumed, produced, clobbered) ==
  /\ consumed \in Nat /\ produced \in Nat /\ clobbered \in Nat
  /\ consumed <= clobbered /\ produced <= clobbered /\ clobbered <= DEPTH
  /\ consumed <= Excess(s)

(* What no adjust changes.                                                 *)
SameScope(s, t) ==
  /\ t.locals = s.locals /\ t.arity = s.arity /\ t.sp = s.sp
  /\ t.climbing = s.climbing /\ t.output = s.output

(* The counters of the monitor are naturals in their order. *)
LEMMA CountedTyped ==
  ASSUME NEW s, Counted(s)
  PROVE  /\ s.used \in Nat /\ s.frameUsed \in Nat /\ s.locals \in Nat /\ s.clobbered \in Nat
         /\ s.frameClobbered \in Nat /\ s.used <= s.clobbered /\ s.clobbered <= DEPTH
         /\ s.locals <= s.frameUsed /\ s.frameUsed <= s.frameClobbered
         /\ Excess(s) \in Nat /\ Excess(s) = (s.frameUsed - s.locals) + s.used
  BY DEF Counted, MonitorState, Excess

-----------------------------------------------------------------------------
(* update_stack_depth raises frame_clobbered_ to the frame in use and      *)
(* changes nothing else.                                                   *)
LEMMA DeepenedFields ==
  ASSUME NEW s \in MonitorState, NEW additional \in Nat
  PROVE  LET t == Deepened(s, additional)
         IN  /\ t \in MonitorState
             /\ SameScope(s, t) /\ t.used = s.used
             /\ t.frameUsed = s.frameUsed /\ t.clobbered = s.clobbered
             /\ s.frameClobbered <= t.frameClobbered
             /\ s.frameUsed + additional <= t.frameClobbered
             /\ \/ t.frameClobbered = s.frameClobbered
                \/ t.frameClobbered = s.frameUsed + additional
  BY DEF Deepened, Larger, MonitorState, SameScope

(* The end of adjust: the registers after the instruction, and the record  *)
(* of how many were touched.                                               *)
LEMMA SettledFields ==
  ASSUME NEW s \in MonitorState,
         NEW consumed \in Nat, NEW produced \in Nat, NEW clobbered \in Nat,
         consumed <= s.used, produced <= clobbered,
         (s.used - consumed) + clobbered <= DEPTH,
         s.clobbered <= DEPTH
  PROVE  LET t == Settled(s, consumed, produced, clobbered)
         IN  /\ t \in MonitorState
             /\ SameScope(s, t)
             /\ t.used = (s.used - consumed) + produced
             /\ t.used <= t.clobbered /\ t.clobbered <= DEPTH
             /\ clobbered <= t.clobbered
             /\ t.frameUsed = s.frameUsed
             /\ s.frameClobbered <= t.frameClobbered
             /\ t.frameUsed <= t.frameClobbered
<1> DEFINE u == [s EXCEPT !.used = (@ - consumed) + produced,
                          !.clobbered = Larger(@, (s.used - consumed) + clobbered)]
<1>1. /\ s.used \in Nat /\ s.clobbered \in Nat
      /\ (s.used - consumed) + produced \in Nat
      /\ (s.used - consumed) + clobbered \in Nat
      /\ DEPTH \in Nat
  BY DepthAssumption DEF MonitorState
<1>2. /\ u \in MonitorState
      /\ SameScope(s, u)
      /\ u.used = (s.used - consumed) + produced
      /\ u.clobbered = Larger(s.clobbered, (s.used - consumed) + clobbered)
      /\ u.frameUsed = s.frameUsed /\ u.frameClobbered = s.frameClobbered
  BY <1>1 DEF MonitorState, SameScope, Larger
<1>3. /\ u.used <= u.clobbered /\ u.clobbered <= DEPTH
      /\ clobbered <= u.clobbered
  BY <1>1, <1>2 DEF Larger
<1>4. Settled(s, consumed, produced, clobbered) = Deepened(u, 0)
  BY DEF Settled
<1>5. LET t == Deepened(u, 0)
      IN  /\ t \in MonitorState
          /\ SameScope(u, t) /\ t.used = u.used
          /\ t.frameUsed = u.frameUsed /\ t.clobbered = u.clobbered
          /\ u.frameClobbered <= t.frameClobbered
          /\ u.frameUsed + 0 <= t.frameClobbered
  BY <1>2, DeepenedFields
<1>6. u.frameUsed + 0 = u.frameUsed
  BY <1>2 DEF MonitorState
<1> HIDE DEF u
<1> QED
  BY <1>2, <1>3, <1>4, <1>5, <1>6 DEF SameScope

(* An operand missing from the registers and a register missing for the    *)
(* result exclude each other: adjust's assertion.                          *)
LEMMA OneShortage ==
  ASSUME NEW s, Counted(s),
         NEW consumed, NEW produced, NEW clobbered,
         Servable(s, consumed, produced, clobbered)
  PROVE  ~(Deficient(s, consumed) /\ Overfull(s, consumed, clobbered))
  BY DepthAssumption DEF Counted, Servable, MonitorState, Deficient, Overfull

(* The counters after adjust's spill code, reloading.                      *)
LEMMA ReloadedFields ==
  ASSUME NEW s, Counted(s),
         NEW consumed, NEW produced, NEW clobbered,
         Servable(s, consumed, produced, clobbered),
         Deficient(s, consumed)
  PROVE  LET n == Shortage(s, consumed)
             b == Reloaded(s, s.frameUsed - n, n)
         IN  /\ Counted(b) /\ SameScope(s, b)
             /\ b.used = consumed /\ b.frameUsed = s.frameUsed - n
             /\ n \in Nat /\ n <= s.frameUsed - s.locals
             /\ s.frameClobbered <= b.frameClobbered
<1> DEFINE n == Shortage(s, consumed)
           u == [s EXCEPT !.frameUsed = s.frameUsed - n]
<1>1. /\ n \in Nat /\ 0 < n /\ n <= s.frameUsed - s.locals
      /\ s.used + n = consumed /\ consumed <= DEPTH
  BY DepthAssumption DEF Counted, Servable, MonitorState, Deficient, Shortage, Excess
<1>2. s.frameUsed - n \in Nat
  BY <1>1 DEF Counted, MonitorState
<1>3. /\ u \in MonitorState /\ SameScope(s, u)
      /\ u.used = s.used /\ u.clobbered = s.clobbered
      /\ u.frameUsed = s.frameUsed - n /\ u.frameClobbered = s.frameClobbered
  BY <1>2 DEF Counted, MonitorState, SameScope
<1> HIDE DEF u, n
<1>4. /\ 0 <= u.used /\ u.clobbered <= DEPTH /\ (u.used - 0) + n <= DEPTH
  BY <1>1, <1>3, DepthAssumption DEF Counted, MonitorState
<1> DEFINE t == Settled(u, 0, n, n)
<1>5. /\ t \in MonitorState /\ SameScope(u, t)
      /\ t.used = (u.used - 0) + n
      /\ t.used <= t.clobbered /\ t.clobbered <= DEPTH
      /\ t.frameUsed = u.frameUsed
      /\ u.frameClobbered <= t.frameClobbered
      /\ t.frameUsed <= t.frameClobbered
  BY <1>1, <1>3, <1>4, SettledFields
<1> HIDE DEF t
<1>6. t = Reloaded(s, s.frameUsed - n, n)
  BY DEF t, u, Reloaded
<1>7. Counted(t) /\ SameScope(s, t) /\ t.used = consumed
      /\ t.frameUsed = s.frameUsed - n /\ s.frameClobbered <= t.frameClobbered
  BY <1>1, <1>2, <1>3, <1>5 DEF Counted, MonitorState, SameScope
<1> QED
  BY <1>1, <1>6, <1>7 DEF n

(* The counters after adjust's spill code, spilling.                       *)
LEMMA SpilledFields ==
  ASSUME NEW s, Counted(s),
         NEW consumed, NEW produced, NEW clobbered,
         Servable(s, consumed, produced, clobbered),
         Overfull(s, consumed, clobbered)
  PROVE  LET n == Surplus(s, consumed, clobbered)
             b == Spilled(s, s.frameUsed + n, n)
         IN  /\ Counted(b) /\ SameScope(s, b)
             /\ b.used = s.used - n /\ b.frameUsed = s.frameUsed + n
             /\ n \in Nat /\ n <= s.used - consumed
             /\ (b.used - consumed) + clobbered = DEPTH
             /\ s.frameClobbered <= b.frameClobbered
<1> DEFINE n == Surplus(s, consumed, clobbered)
           u == [s EXCEPT !.frameUsed = s.frameUsed + n]
<1>1. /\ n \in Nat /\ 0 < n /\ n <= s.used - consumed /\ n <= s.used
      /\ ((s.used - n) - consumed) + clobbered = DEPTH
  BY DepthAssumption DEF Counted, Servable, MonitorState, Overfull, Surplus
<1>2. s.frameUsed + n \in Nat /\ s.frameUsed <= s.frameUsed + n
  BY <1>1 DEF Counted, MonitorState
<1>3. /\ u \in MonitorState /\ SameScope(s, u)
      /\ u.used = s.used /\ u.clobbered = s.clobbered
      /\ u.frameUsed = s.frameUsed + n /\ u.frameClobbered = s.frameClobbered
  BY <1>2 DEF Counted, MonitorState, SameScope
<1> HIDE DEF u, n
<1>4. /\ n <= u.used /\ 0 <= n /\ u.clobbered <= DEPTH
      /\ (u.used - n) + n <= DEPTH
  BY <1>1, <1>3, DepthAssumption DEF Counted, MonitorState
<1> DEFINE t == Settled(u, n, 0, n)
<1>5. /\ t \in MonitorState /\ SameScope(u, t)
      /\ t.used = (u.used - n) + 0
      /\ t.used <= t.clobbered /\ t.clobbered <= DEPTH
      /\ t.frameUsed = u.frameUsed
      /\ u.frameClobbered <= t.frameClobbered
      /\ t.frameUsed <= t.frameClobbered
  BY <1>1, <1>3, <1>4, SettledFields
<1> HIDE DEF t
<1>6. t = Spilled(s, s.frameUsed + n, n)
  BY DEF t, u, Spilled
<1>7. /\ Counted(t) /\ SameScope(s, t) /\ t.used = s.used - n
      /\ t.frameUsed = s.frameUsed + n
      /\ s.frameClobbered <= t.frameClobbered
      /\ (t.used - consumed) + clobbered = DEPTH
  BY <1>1, <1>2, <1>3, <1>5 DEF Counted, MonitorState, SameScope
<1> QED
  BY <1>1, <1>6, <1>7 DEF n

(* adjust calls itself for the fld and fstp of its spill code.  The nested *)
(* call moves nothing: the reload finds the registers free, the spill      *)
(* finds the values in registers.  This justifies Reloaded and Spilled.    *)
LEMMA ReloadNeverSpills ==
  ASSUME NEW s, Counted(s),
         NEW consumed, NEW produced, NEW clobbered,
         Servable(s, consumed, produced, clobbered)
  PROVE  /\ Deficient(s, consumed) =>
              LET n == Shortage(s, consumed)
                  u == [s EXCEPT !.frameUsed = s.frameUsed - n]
              IN  Adjusted(u, 0, n, n) = Reloaded(s, s.frameUsed - n, n)
         /\ Overfull(s, consumed, clobbered) =>
              LET n == Surplus(s, consumed, clobbered)
                  u == [s EXCEPT !.frameUsed = s.frameUsed + n]
              IN  Adjusted(u, n, 0, n) = Spilled(s, s.frameUsed + n, n)
<1> DEFINE short == Shortage(s, consumed)
           over == Surplus(s, consumed, clobbered)
           u(f) == [s EXCEPT !.frameUsed = f]
<1>1. \A f : u(f).used = s.used
  BY DEF Counted, MonitorState
<1>2. \A f : Settled(u(f), 0, short, short) = Reloaded(s, f, short)
             /\ Settled(u(f), over, 0, over) = Spilled(s, f, over)
  BY DEF Reloaded, Spilled
<1> HIDE DEF u
<1>3. ASSUME Deficient(s, consumed), NEW f
      PROVE  Adjusted(u(f), 0, short, short) = Reloaded(s, f, short)
  <2>1. ~Deficient(u(f), 0) /\ ~Overfull(u(f), 0, short)
    BY <1>1, <1>3, DepthAssumption
    DEF Counted, Servable, MonitorState, Deficient, Overfull, Shortage
  <2> QED  BY <1>2, <2>1 DEF Adjusted, Balanced
<1>4. ASSUME Overfull(s, consumed, clobbered), NEW f
      PROVE  Adjusted(u(f), over, 0, over) = Spilled(s, f, over)
  <2>1. ~Deficient(u(f), over) /\ ~Overfull(u(f), over, over)
    BY <1>1, <1>4, DepthAssumption
    DEF Counted, Servable, MonitorState, Deficient, Overfull, Surplus
  <2> QED  BY <1>2, <2>1 DEF Adjusted, Balanced
<1> QED  BY <1>3, <1>4 DEF u

(* The counters after the spill code: the same temporaries, and now the    *)
(* operands are in registers and the result fits above them.               *)
LEMMA BalancedFields ==
  ASSUME NEW s, Counted(s),
         NEW consumed, NEW produced, NEW clobbered,
         Servable(s, consumed, produced, clobbered)
  PROVE  LET b == Balanced(s, consumed, clobbered)
         IN  /\ Counted(b) /\ SameScope(s, b)
             /\ Excess(b) = Excess(s)
             /\ consumed <= b.used
             /\ (b.used - consumed) + clobbered <= DEPTH
             /\ ~Deficient(b, consumed) /\ ~Overfull(b, consumed, clobbered)
             /\ s.frameClobbered <= b.frameClobbered
<1> DEFINE b == Balanced(s, consumed, clobbered)
<1>1. ~(Deficient(s, consumed) /\ Overfull(s, consumed, clobbered))
  BY OneShortage
<1>2. CASE Deficient(s, consumed)
  <2> DEFINE n == Shortage(s, consumed)
  <2>1. b = Reloaded(s, s.frameUsed - n, n)
    BY <1>1, <1>2 DEF Balanced
  <2>2. /\ Counted(b) /\ SameScope(s, b)
        /\ b.used = consumed /\ b.frameUsed = s.frameUsed - n /\ n \in Nat
        /\ s.frameClobbered <= b.frameClobbered
    BY <1>2, <2>1, ReloadedFields
  <2>3. s.used + n = consumed
    BY DEF Shortage, Counted, Servable, MonitorState
  <2> HIDE DEF b, n
  <2>4. /\ Excess(b) = Excess(s)
        /\ consumed <= b.used /\ (b.used - consumed) + clobbered <= DEPTH
        /\ ~Deficient(b, consumed) /\ ~Overfull(b, consumed, clobbered)
    BY <2>2, <2>3, DepthAssumption
    DEF Counted, Servable, MonitorState, SameScope, Excess, Deficient, Overfull
  <2> QED  BY <2>2, <2>4 DEF b
<1>3. CASE Overfull(s, consumed, clobbered)
  <2> DEFINE n == Surplus(s, consumed, clobbered)
  <2>1. b = Spilled(s, s.frameUsed + n, n)
    BY <1>1, <1>3 DEF Balanced
  <2>2. /\ Counted(b) /\ SameScope(s, b)
        /\ b.used = s.used - n /\ b.frameUsed = s.frameUsed + n
        /\ n \in Nat /\ n <= s.used - consumed
        /\ (b.used - consumed) + clobbered = DEPTH
        /\ s.frameClobbered <= b.frameClobbered
    BY <1>3, <2>1, SpilledFields
  <2> HIDE DEF b, n
  <2>3. /\ Excess(b) = Excess(s)
        /\ consumed <= b.used /\ (b.used - consumed) + clobbered <= DEPTH
        /\ ~Deficient(b, consumed) /\ ~Overfull(b, consumed, clobbered)
    BY <2>2, DepthAssumption
    DEF Counted, Servable, MonitorState, SameScope, Excess, Deficient, Overfull
  <2> QED  BY <2>2, <2>3 DEF b
<1>4. CASE ~Deficient(s, consumed) /\ ~Overfull(s, consumed, clobbered)
  <2>1. b = s
    BY <1>4 DEF Balanced
  <2>2. /\ consumed <= s.used /\ (s.used - consumed) + clobbered <= DEPTH
        /\ s.frameClobbered <= s.frameClobbered
    BY <1>4, DepthAssumption
    DEF Counted, Servable, MonitorState, Deficient, Overfull
  <2> QED  BY <1>4, <2>1, <2>2 DEF SameScope
<1> QED  BY <1>2, <1>3, <1>4

(* A whole adjust.                                                         *)
LEMMA AdjustedFields ==
  ASSUME NEW s, Counted(s),
         NEW consumed, NEW produced, NEW clobbered,
         Servable(s, consumed, produced, clobbered)
  PROVE  LET t == Adjusted(s, consumed, produced, clobbered)
         IN  /\ Counted(t) /\ SameScope(s, t)
             /\ Excess(t) = (Excess(s) - consumed) + produced
             /\ clobbered <= t.clobbered
             /\ s.frameClobbered <= t.frameClobbered
<1> DEFINE b == Balanced(s, consumed, clobbered)
           t == Settled(b, consumed, produced, clobbered)
<1>1. /\ Counted(b) /\ SameScope(s, b)
      /\ Excess(b) = Excess(s)
      /\ consumed <= b.used
      /\ (b.used - consumed) + clobbered <= DEPTH
      /\ s.frameClobbered <= b.frameClobbered
  BY BalancedFields
<1> HIDE DEF b
<1>2. /\ t \in MonitorState
      /\ SameScope(b, t)
      /\ t.used = (b.used - consumed) + produced
      /\ t.used <= t.clobbered /\ t.clobbered <= DEPTH
      /\ clobbered <= t.clobbered
      /\ t.frameUsed = b.frameUsed
      /\ b.frameClobbered <= t.frameClobbered
      /\ t.frameUsed <= t.frameClobbered
  BY <1>1, SettledFields DEF Counted, Servable
<1>3. t = Adjusted(s, consumed, produced, clobbered)
  BY DEF Adjusted, b
<1> HIDE DEF t
<1>4. /\ Counted(t) /\ SameScope(s, t) /\ s.frameClobbered <= t.frameClobbered
  BY <1>1, <1>2 DEF Counted, MonitorState, SameScope
<1>5. Excess(t) = (Excess(b) - consumed) + produced
  BY <1>1, <1>2 DEF Counted, MonitorState, SameScope, Excess, Servable
<1> QED  BY <1>1, <1>2, <1>3, <1>4, <1>5

(* The counters of the instruction, from those after the spill code.       *)
LEMMA SettledCounters ==
  ASSUME NEW b, Counted(b), NEW c \in Nat, NEW p \in Nat, NEW k \in Nat,
         c <= b.used, p <= k, c <= k, (b.used - c) + k <= DEPTH
  PROVE  LET t == Settled(b, c, p, k)
         IN  /\ Counted(t) /\ t.used = (b.used - c) + p /\ t.frameUsed = b.frameUsed
             /\ t.locals = b.locals /\ b.frameClobbered <= t.frameClobbered
             /\ b.clobbered <= t.clobbered /\ (b.used - c) + k <= t.clobbered
<1> DEFINE t == Settled(b, c, p, k)
           u == [b EXCEPT !.used = (b.used - c) + p,
                          !.clobbered = Larger(b.clobbered, (b.used - c) + k)]
<1>1. b \in MonitorState /\ b.clobbered \in Nat /\ b.used \in Nat /\ DEPTH \in Nat
      /\ b.used <= b.clobbered /\ b.clobbered <= DEPTH
      /\ b.arity <= b.locals /\ b.locals <= b.frameUsed
      /\ b.frameUsed <= b.frameClobbered /\ b.sp <= b.frameClobbered
  BY DepthAssumption DEF Counted, MonitorState
<1>2. /\ (b.used - c) + p \in Nat /\ (b.used - c) + k \in Nat
      /\ (b.used - c) + p <= (b.used - c) + k
      /\ Larger(b.clobbered, (b.used - c) + k) \in Nat
      /\ b.clobbered <= Larger(b.clobbered, (b.used - c) + k)
      /\ (b.used - c) + k <= Larger(b.clobbered, (b.used - c) + k)
      /\ Larger(b.clobbered, (b.used - c) + k) <= DEPTH
  BY <1>1 DEF Larger
<1>3. u \in MonitorState /\ u.used = (b.used - c) + p
      /\ u.clobbered = Larger(b.clobbered, (b.used - c) + k) /\ u.frameClobbered = b.frameClobbered
      /\ u.locals = b.locals /\ u.arity = b.arity /\ u.frameUsed = b.frameUsed /\ u.sp = b.sp
  BY <1>1, <1>2 DEF MonitorState
<1>4. t = Deepened(u, 0)
  BY DEF Settled
<1> HIDE DEF u
<1>5. /\ t \in MonitorState /\ SameScope(u, t) /\ t.used = u.used
      /\ t.frameUsed = u.frameUsed /\ t.clobbered = u.clobbered
      /\ u.frameClobbered <= t.frameClobbered
  BY <1>3, <1>4, DeepenedFields
<1> HIDE DEF t
<1>6. Counted(t)
  BY <1>1, <1>2, <1>3, <1>5 DEF Counted, SameScope, MonitorState
<1> QED BY <1>2, <1>3, <1>5, <1>6 DEF t, SameScope

(* Spilling and reloading declare no fewer registers than before. *)
LEMMA BalancedClobbers ==
  ASSUME NEW s, Counted(s), NEW c \in Nat, NEW k \in Nat
  PROVE  s.clobbered <= Balanced(s, c, k).clobbered
<1>1. ASSUME NEW a \in Nat, NEW x \in Int PROVE a <= Larger(a, x)
  BY <1>1 DEF Larger
<1>2. s \in MonitorState /\ s.used \in Nat /\ s.clobbered \in Nat /\ DEPTH \in Nat
  BY DepthAssumption DEF Counted, MonitorState
<1>3. ASSUME NEW to, NEW n \in Int
      PROVE  s.clobbered <= Settled([s EXCEPT !.frameUsed = to], n, 0, n).clobbered
             /\ s.clobbered <= Settled([s EXCEPT !.frameUsed = to], 0, n, n).clobbered
  <2>1. /\ Settled([s EXCEPT !.frameUsed = to], n, 0, n).clobbered = Larger(s.clobbered, (s.used - n) + n)
        /\ Settled([s EXCEPT !.frameUsed = to], 0, n, n).clobbered = Larger(s.clobbered, (s.used - 0) + n)
    BY <1>2 DEF Settled, Deepened, MonitorState
  <2> QED BY <2>1, <1>1, <1>2
<1>4. Shortage(s, c) \in Int /\ Surplus(s, c, k) \in Int
  BY <1>2 DEF Shortage, Surplus
<1>5. s.clobbered <= Reloaded(s, s.frameUsed - Shortage(s, c), Shortage(s, c)).clobbered
  BY <1>3, <1>4 DEF Reloaded
<1>6. s.clobbered <= Spilled(s, s.frameUsed + Surplus(s, c, k), Surplus(s, c, k)).clobbered
  BY <1>3, <1>4 DEF Spilled
<1>7. s.clobbered <= s.clobbered
  BY <1>2
<1> QED BY <1>5, <1>6, <1>7 DEF Balanced

-----------------------------------------------------------------------------
(* Requests of the compiler.                                               *)

(* What the assertions of function::leave say of every callee.             *)
LEMMA CalleeFacts ==
  ASSUME NEW f, IsDescriptor(f)
  PROVE  /\ f.arity \in Nat /\ f.output \in Nat /\ f.clobbered \in Nat
         /\ f.frameClobbered \in Nat /\ f.climbing \in Nat
         /\ 1 <= f.output /\ f.climbing <= f.frameClobbered
         /\ CalleeClobbers(f) \in Nat
         /\ f.output <= CalleeClobbers(f) /\ CalleeClobbers(f) <= DEPTH
         /\ CalleeClobbers(f) # DEPTH => f.arity = 0
  BY DepthAssumption DEF IsDescriptor, Descriptor, CalleeClobbers, Frameless

(* adjust can serve an instruction whose operands are there.               *)
LEMMA EffectServable ==
  ASSUME NEW s, Counted(s), NEW e \in Effects, e[1] <= Excess(s)
  PROVE  Servable(s, e[1], e[2], Footprint(e))
  BY DepthAssumption DEF Effects, Servable, Footprint, Larger

(* adjust can serve fld st(i) of a value that exists.                      *)
LEMMA DupServable ==
  ASSUME NEW s, Counted(s), NEW i \in {0, 1}, i < Excess(s)
  PROVE  LET e == DupEffect(s, i)
         IN  /\ Servable(s, e[1], e[2], Footprint(e))
             /\ e[2] = e[1] + 1
<1>1. CASE Near(s, i)
  <2>1. DupEffect(s, i) = <<i + 1, i + 2>> /\ i + 1 <= s.used
    BY <1>1 DEF DupEffect, Near, Counted, MonitorState
  <2> QED  BY <2>1, DepthAssumption
           DEF Servable, Footprint, Larger, Excess, Counted, MonitorState
<1>2. CASE ~Near(s, i)
  <2>1. DupEffect(s, i) = <<0, 1>>
    BY <1>2 DEF DupEffect
  <2> QED  BY <2>1, DepthAssumption
           DEF Servable, Footprint, Larger, Excess, Counted, MonitorState
<1> QED  BY <1>1, <1>2

(* adjust can serve fstp st(i) of a value that exists.                     *)
LEMMA DropServable ==
  ASSUME NEW s, Counted(s), NEW i \in {0, 1}, i < Excess(s)
  PROVE  LET e == DropEffect(s, i)
         IN  /\ Servable(s, e[1], e[2], Footprint(e))
             /\ e[1] = e[2] + 1
<1>1. CASE i = 0 \/ ~Near(s, i)
  <2>1. DropEffect(s, i) = <<1, 0>> /\ 1 <= Excess(s)
    BY <1>1 DEF DropEffect, Excess, Counted, MonitorState
  <2> QED  BY <2>1, DepthAssumption DEF Servable, Footprint, Larger
<1>2. CASE ~(i = 0 \/ ~Near(s, i))
  <2>1. DropEffect(s, i) = <<s.used, s.used - 1>> /\ 1 < s.used
    BY <1>2 DEF DropEffect, Near, Counted, MonitorState
  <2>2. /\ s.used - 1 \in Nat /\ s.used \in Nat /\ s.used <= DEPTH
        /\ s.used <= Excess(s) /\ s.used = (s.used - 1) + 1
    BY <2>1, DepthAssumption DEF Excess, Counted, MonitorState
  <2> QED  BY <2>1, <2>2 DEF Servable, Footprint, Larger
<1> QED  BY <1>1, <1>2

(* adjust can serve every request the compiler may make.                   *)
LEMMA RequestsServable ==
  ASSUME Counted(m)
  PROVE  \A r \in Requests : Servable(m, r[1], r[2], r[3])
<1> SUFFICES ASSUME NEW r \in Requests
             PROVE  Servable(m, r[1], r[2], r[3])
  OBVIOUS
<1>1. \/ \E e \in Effects : e[1] <= Excess(m) /\ r = <<e[1], e[2], Footprint(e)>>
      \/ \E i \in {0, 1} : i < Excess(m)
            /\ LET e == DupEffect(m, i) IN r = <<e[1], e[2], Footprint(e)>>
      \/ \E i \in {0, 1} : i < Excess(m)
            /\ LET e == DropEffect(m, i) IN r = <<e[1], e[2], Footprint(e)>>
      \/ Excess(m) \in 1 .. DEPTH
           /\ LET e == <<Excess(m), 0>> IN r = <<e[1], e[2], Footprint(e)>>
      \/ \E f \in Callees : r = <<0, f.output, CalleeClobbers(f)>>
  BY ZenonT(60) DEF Requests
<1>2. Excess(m) \in Nat
  BY DEF Counted, MonitorState, Excess
<1>3. CASE Excess(m) \in 1 .. DEPTH /\ r = <<Excess(m), 0, Footprint(<<Excess(m), 0>>)>>
  BY <1>2, <1>3, DepthAssumption DEF Servable, Footprint, Larger
<1>4. CASE \E f \in Callees : r = <<0, f.output, CalleeClobbers(f)>>
  BY <1>2, <1>4, CalleesAssumption, CalleeFacts DEF Servable
<1> QED
  BY <1>1, <1>3, <1>4, EffectServable, DupServable, DropServable

-----------------------------------------------------------------------------
(* The composite operations.                                               *)

(* A call leaves the caller's locals and deeper temporaries alone: the     *)
(* arguments, and only they, leave the frame.                              *)
LEMMA CalledFields ==
  ASSUME NEW s, Counted(s), NEW f, IsDescriptor(f), f.arity <= Excess(s)
  PROVE  LET t == Called(s, f)
         IN  /\ Counted(t)
             /\ t.locals = s.locals /\ t.arity = s.arity
             /\ t.output = s.output /\ t.climbing = s.climbing
             /\ Excess(t) = (Excess(s) - f.arity) + f.output
             /\ s.locals <= CallBase(s, f)
             /\ CallBase(s, f) + f.frameClobbered <= t.frameClobbered
             /\ Balanced(s, 0, CalleeClobbers(f)).used + CalleeClobbers(f) <= DEPTH
<1> DEFINE k == CalleeClobbers(f)
           b == Balanced(s, 0, k)
           u == Adjusted(s, 0, f.output, k)
           base == CallBase(s, f)
           v == [u EXCEPT !.frameUsed = base, !.sp = base + f.climbing]
           t == Deepened(v, f.frameClobbered)
<1>1. /\ f.arity \in Nat /\ f.output \in Nat /\ f.frameClobbered \in Nat
      /\ f.climbing \in Nat /\ f.climbing <= f.frameClobbered
      /\ k \in Nat /\ f.output <= k /\ k <= DEPTH
      /\ k # DEPTH => f.arity = 0
  BY CalleeFacts
<1>2. Excess(s) \in Nat
  BY DEF Excess, Counted, MonitorState
<1>3. Servable(s, 0, f.output, k)
  BY <1>1, <1>2 DEF Servable
<1>4. /\ Counted(b) /\ SameScope(s, b) /\ Excess(b) = Excess(s)
      /\ 0 <= b.used /\ (b.used - 0) + k <= DEPTH
  BY <1>3, BalancedFields
<1>5. /\ Counted(u) /\ SameScope(s, u)
      /\ Excess(u) = (Excess(s) - 0) + f.output
  BY <1>3, AdjustedFields
<1>6. u.frameUsed = b.frameUsed /\ u.used = (b.used - 0) + f.output
  <2>1. u = Settled(b, 0, f.output, k)
    BY DEF Adjusted
  <2>2. b \in MonitorState /\ b.clobbered <= DEPTH
    BY <1>4 DEF Counted
  <2> HIDE DEF b, u, k
  <2> QED  BY <1>1, <1>4, <2>1, <2>2, SettledFields
<1>7. base = u.frameUsed - f.arity
  BY DEF CallBase
<1> HIDE DEF b, u, base, k
<1>8. base \in Nat /\ s.locals <= base /\ base = u.frameUsed - f.arity
  BY <1>1, <1>2, <1>4, <1>5, <1>6, <1>7, DepthAssumption
  DEF Counted, MonitorState, SameScope, Excess
<1>9. base + f.climbing \in Nat
  BY <1>1, <1>8
<1>10. /\ v \in MonitorState /\ v.used = u.used /\ v.clobbered = u.clobbered
       /\ v.locals = u.locals /\ v.arity = u.arity /\ v.output = u.output
       /\ v.climbing = u.climbing /\ v.frameUsed = base
       /\ v.sp = base + f.climbing /\ v.frameClobbered = u.frameClobbered
  BY <1>5, <1>8, <1>9 DEF Counted, MonitorState
<1> HIDE DEF v
<1>11. /\ t \in MonitorState /\ SameScope(v, t) /\ t.used = v.used
       /\ t.frameUsed = v.frameUsed /\ t.clobbered = v.clobbered
       /\ v.frameUsed + f.frameClobbered <= t.frameClobbered
  BY <1>1, <1>10, DeepenedFields
<1>12. t = Called(s, f)
  BY DEF Called, t, v, u, k, base
<1> HIDE DEF t
<1>13. Counted(t)
  BY <1>1, <1>5, <1>8, <1>10, <1>11 DEF Counted, MonitorState, SameScope
<1>14. Excess(t) = (Excess(s) - f.arity) + f.output
  BY <1>1, <1>5, <1>8, <1>10, <1>11
  DEF Counted, MonitorState, SameScope, Excess
<1>15. /\ t.locals = s.locals /\ t.arity = s.arity
       /\ t.output = s.output /\ t.climbing = s.climbing
  BY <1>5, <1>10, <1>11 DEF SameScope
<1>16. /\ s.locals <= base /\ base + f.frameClobbered <= t.frameClobbered
       /\ b.used + k <= DEPTH
  <2>1. b.used \in Nat /\ k \in Nat
    BY <1>1, <1>4 DEF Counted, MonitorState
  <2> QED  BY <1>4, <1>8, <1>10, <1>11, <2>1, DepthAssumption
<1> QED  BY <1>12, <1>13, <1>14, <1>15, <1>16 DEF b, k, base

(* The counters of a call.                                                 *)
LEMMA CalledCounters ==
  ASSUME NEW s, Counted(s), NEW f, IsDescriptor(f), f.arity <= Excess(s)
  PROVE  LET k == CalleeClobbers(f)
             b == Balanced(s, 0, k)
             t == Called(s, f)
         IN  /\ Servable(s, 0, f.output, k)
             /\ t.used = b.used + f.output /\ t.frameUsed = CallBase(s, f)
             /\ CallBase(s, f) = b.frameUsed - f.arity
             /\ b.frameClobbered <= t.frameClobbered /\ b.clobbered <= t.clobbered
             /\ b.used + k <= t.clobbered /\ t.sp = CallBase(s, f) + f.climbing
<1> DEFINE k == CalleeClobbers(f)
           b == Balanced(s, 0, k)
           u == Adjusted(s, 0, f.output, k)
           base == CallBase(s, f)
           v == [u EXCEPT !.frameUsed = base, !.sp = base + f.climbing]
           t == Called(s, f)
<1>1. /\ f.arity \in Nat /\ f.output \in Nat /\ f.frameClobbered \in Nat /\ f.climbing \in Nat
      /\ k \in Nat /\ f.output <= k /\ k <= DEPTH
  BY CalleeFacts
<1>2. Excess(s) \in Nat
  BY CountedTyped
<1>3. Servable(s, 0, f.output, k)
  BY <1>1, <1>2 DEF Servable
<1>4. /\ Counted(b) /\ 0 <= b.used /\ (b.used - 0) + k <= DEPTH
  BY <1>3, BalancedFields
<1>5. b.used \in Nat /\ b.frameClobbered \in Nat /\ b.clobbered \in Nat
  BY <1>4, CountedTyped
<1>6. /\ Counted(u) /\ u.used = (b.used - 0) + f.output /\ u.frameUsed = b.frameUsed
      /\ b.frameClobbered <= u.frameClobbered /\ b.clobbered <= u.clobbered
      /\ (b.used - 0) + k <= u.clobbered
  <2> DEFINE c == 0  p == f.output
  <2>1. c \in Nat /\ p \in Nat /\ k \in Nat /\ c <= b.used /\ p <= k /\ c <= k /\ (b.used - c) + k <= DEPTH
        /\ u = Settled(b, c, p, k)
    BY <1>1, <1>4, <1>5 DEF Adjusted
  <2> HIDE DEF c, p, k, b, u
  <2>2. /\ Counted(u) /\ u.used = (b.used - c) + p /\ u.frameUsed = b.frameUsed
        /\ b.frameClobbered <= u.frameClobbered /\ b.clobbered <= u.clobbered
        /\ (b.used - c) + k <= u.clobbered
    BY <2>1, <1>4, SettledCounters
  <2> QED BY <2>2 DEF c, p
<1>7. base = u.frameUsed - f.arity
  BY DEF CallBase
<1>8. base \in Nat
  <2>1. s.locals <= base /\ s.locals \in Nat
    BY CalledFields, CountedTyped
  <2>2. u.frameUsed \in Nat
    BY <1>6, CountedTyped
  <2> HIDE DEF base
  <2> QED BY <2>1, <2>2, <1>1, <1>7
<1> HIDE DEF b, u, base, k
<1>9. base + f.climbing \in Nat
  BY <1>1, <1>8
<1>10. /\ v \in MonitorState /\ v.used = u.used /\ v.clobbered = u.clobbered
       /\ v.frameUsed = base /\ v.frameClobbered = u.frameClobbered
       /\ v.sp = base + f.climbing
  BY <1>6, <1>8, <1>9 DEF Counted, MonitorState
<1>11. t = Deepened(v, f.frameClobbered)
  BY DEF Called, v, u, base, k
<1> HIDE DEF v, t
<1>12. /\ t.used = v.used /\ t.frameUsed = v.frameUsed /\ t.clobbered = v.clobbered
       /\ v.frameClobbered <= t.frameClobbered /\ t \in MonitorState
       /\ t.sp = base + f.climbing
  BY <1>1, <1>10, <1>11, DeepenedFields DEF SameScope
<1>13. t.used = b.used + f.output /\ b.used + k <= t.clobbered
  BY <1>1, <1>5, <1>6, <1>10, <1>12
<1>14. b.frameClobbered <= t.frameClobbered
  BY <1>5, <1>6, <1>10, <1>12 DEF MonitorState
<1>15. b.clobbered <= t.clobbered /\ t.frameUsed = base /\ base = b.frameUsed - f.arity
  BY <1>6, <1>7, <1>10, <1>12
<1> QED BY <1>3, <1>12, <1>13, <1>14, <1>15 DEF k, b, base, t

(* A declaration turns the top temporary into the newest local variable.   *)
LEMMA AllocatedFields ==
  ASSUME NEW s, Counted(s), s.locals = s.frameUsed, 1 <= Excess(s)
  PROVE  LET t == Allocated(s)
         IN  /\ Counted(t)
             /\ t.locals = s.locals + 1 /\ t.arity = s.arity
             /\ t.output = s.output /\ t.climbing = s.climbing
             /\ Excess(t) = Excess(s) - 1
<1> DEFINE u == Adjusted(s, 1, 0, 1)
           v == [u EXCEPT !.locals = @ + 1, !.frameUsed = @ + 1]
           t == Deepened(v, 0)
<1>1. Servable(s, 1, 0, 1)
  BY DepthAssumption DEF Servable
<1>2. /\ Counted(u) /\ SameScope(s, u)
      /\ Excess(u) = (Excess(s) - 1) + 0
  BY <1>1, AdjustedFields
<1> HIDE DEF u
<1>3. u.locals + 1 \in Nat /\ u.frameUsed + 1 \in Nat
  BY <1>2 DEF Counted, MonitorState
<1>4. /\ v \in MonitorState /\ v.used = u.used /\ v.clobbered = u.clobbered
      /\ v.locals = u.locals + 1 /\ v.arity = u.arity /\ v.output = u.output
      /\ v.climbing = u.climbing /\ v.frameUsed = u.frameUsed + 1
      /\ v.sp = u.sp /\ v.frameClobbered = u.frameClobbered
  BY <1>2, <1>3 DEF Counted, MonitorState
<1> HIDE DEF v
<1>5. /\ t \in MonitorState /\ SameScope(v, t) /\ t.used = v.used
      /\ t.frameUsed = v.frameUsed /\ t.clobbered = v.clobbered
      /\ v.frameClobbered <= t.frameClobbered
      /\ v.frameUsed + 0 <= t.frameClobbered
  BY <1>4, DeepenedFields
<1>6. t = Allocated(s)
  BY DEF Allocated, t, v, u
<1> HIDE DEF t
<1>7. Counted(t)
  BY <1>2, <1>4, <1>5 DEF Counted, MonitorState, SameScope
<1>8. Excess(t) = Excess(s) - 1
  BY <1>2, <1>4, <1>5 DEF Counted, MonitorState, SameScope, Excess
<1> QED  BY <1>2, <1>4, <1>5, <1>6, <1>7, <1>8 DEF SameScope

(* A closed bracket takes its locals from the frame and nothing else.      *)
LEMMA ClosedFields ==
  ASSUME NEW s, Counted(s), Excess(s) = 0,
         NEW outer \in Nat, s.arity <= outer, outer <= s.locals
  PROVE  LET t == Closed(s, s.locals - outer)
         IN  /\ Counted(t)
             /\ t.locals = outer /\ t.arity = s.arity /\ Excess(t) = 0
             /\ t.output = s.output /\ t.climbing = s.climbing
             /\ t.clobbered = s.clobbered /\ t.frameClobbered = s.frameClobbered
<1> DEFINE t == [s EXCEPT !.frameUsed = outer, !.locals = outer]
<1>1. /\ s.frameUsed \in Nat /\ s.locals \in Nat /\ s.used \in Nat
      /\ s.arity \in Nat /\ s.frameClobbered \in Nat
      /\ s.locals <= s.frameUsed /\ s.frameUsed <= s.frameClobbered
  BY DEF Counted, MonitorState
<1>2. /\ s.frameUsed = s.locals /\ s.used = 0
      /\ s.frameUsed - (s.locals - outer) = outer
      /\ outer <= s.frameClobbered
  BY <1>1 DEF Excess
<1>3. t = Closed(s, s.locals - outer)
  BY <1>2 DEF Closed
<1>4. /\ t \in MonitorState /\ t.frameUsed = outer /\ t.locals = outer
      /\ t.used = 0 /\ t.sp = s.sp
      /\ t.arity = s.arity /\ t.output = s.output /\ t.climbing = s.climbing
      /\ t.clobbered = s.clobbered /\ t.frameClobbered = s.frameClobbered
  BY <1>2 DEF Counted, MonitorState
<1> HIDE DEF t
<1>5. Counted(t) /\ Excess(t) = 0
  BY <1>2, <1>4 DEF Counted, Excess
<1> QED  BY <1>3, <1>4, <1>5

(* ret leaves the results on the registers and counts them as gone.        *)
LEMMA ReturnedFields ==
  ASSUME NEW s, Counted(s), NEW count \in Nat,
         count = Excess(s), 1 <= count, count <= DEPTH
  PROVE  LET t == Returned(s, count)
         IN  /\ Counted(t)
             /\ t.locals = s.locals /\ t.arity = s.arity /\ Excess(t) = 0
             /\ t.output = count /\ count <= t.clobbered
             /\ t.climbing <= t.frameClobbered
<1> DEFINE u == [s EXCEPT !.output = count, !.climbing = s.sp]
           t == Adjusted(u, count, 0, count)
<1>1. /\ Counted(u) /\ u.locals = s.locals /\ u.arity = s.arity
      /\ u.output = count /\ u.climbing = u.sp /\ Excess(u) = count
  BY DEF Counted, MonitorState, Excess
<1> HIDE DEF u
<1>2. Servable(u, count, 0, count)
  BY <1>1 DEF Servable
<1>3. /\ Counted(t) /\ SameScope(u, t)
      /\ Excess(t) = (Excess(u) - count) + 0
      /\ count <= t.clobbered
  BY <1>1, <1>2, AdjustedFields
<1>4. t = Returned(s, count)
  BY DEF Returned, u
<1> HIDE DEF t
<1> QED  BY <1>1, <1>3, <1>4 DEF Counted, MonitorState, SameScope

-----------------------------------------------------------------------------
(* The invariant.                                                          *)

(* The invariant, in the terms of the lemmas on the counters.              *)
LEMMA InductiveCounted ==
  Inductive <=> /\ Counted(m) /\ brackets \in Seq(Nat) /\ mode \in Modes
                /\ BracketsNested /\ BodyBracket /\ ResultsRecorded
  BY DEF Inductive, TypeOK, Counted, RegisterBudget, FrameLayout

(* A step that leaves the brackets and the locals alone, before ret.       *)
LEMMA SameBrackets ==
  ASSUME Inductive, Counted(m'), m'.locals = m.locals, m'.arity = m.arity,
         brackets # <<>>, UNCHANGED brackets,
         mode' \in {"rvalue", "declare", "store", "aborted"}
  PROVE  Inductive'
<1>1. brackets' \in Seq(Nat) /\ mode' \in Modes
  BY DEF Inductive, TypeOK, Modes
<1>2. BracketsNested'
  BY DEF Inductive, BracketsNested
<1>3. BodyBracket' /\ ResultsRecorded'
  BY DEF Inductive, BodyBracket, ResultsRecorded
<1>4. TypeOK' /\ RegisterBudget' /\ FrameLayout'
  BY <1>1 DEF Counted, TypeOK, RegisterBudget, FrameLayout
<1> QED  BY <1>2, <1>3, <1>4 DEF Inductive

(* assembler::enter establishes the invariant.                             *)
LEMMA InitInductive == Init => Inductive
<1> SUFFICES ASSUME Init PROVE Inductive
  OBVIOUS
<1>1. PICK arity \in Arities : m = Entered(arity)
  BY DEF Init
<1>2. arity \in Nat
  BY BoundsAssumption
<1>3. Counted(m) /\ m.locals = m.arity /\ Excess(m) = 0
  BY <1>1, <1>2, DepthAssumption DEF Entered, Counted, MonitorState, Excess
<1>4. brackets = <<>> /\ mode = "rvalue" /\ brackets \in Seq(Nat)
  BY DEF Init
<1>5. BracketsNested
  BY <1>4 DEF BracketsNested
<1>6. BodyBracket /\ ResultsRecorded /\ mode \in Modes
  BY <1>3, <1>4 DEF BodyBracket, ResultsRecorded, Modes
<1> QED  BY <1>3, <1>4, <1>5, <1>6, InductiveCounted

(* An instruction leaves the locals and the parameters alone.              *)
LEMMA ApplyEffectFields ==
  ASSUME Counted(m), NEW e, Servable(m, e[1], e[2], Footprint(e)),
         m' = ApplyEffect(m, e)
  PROVE  Counted(m') /\ m'.locals = m.locals /\ m'.arity = m.arity
  BY AdjustedFields DEF ApplyEffect, SameScope

(* The newest local variable belongs to the innermost bracket.             *)
LEMMA AllocaInductive ==
  ASSUME Inductive, Alloca
  PROVE  Inductive'
<1>1. Counted(m) /\ 1 <= Excess(m) /\ m.locals = m.frameUsed
  BY InductiveCounted DEF Alloca, Declaring, Counted, MonitorState, Excess
<1>2. /\ Counted(m') /\ m'.locals = m.locals + 1 /\ m'.arity = m.arity
  BY <1>1, AllocatedFields DEF Alloca
<1>3. /\ brackets' = brackets /\ brackets # <<>> /\ brackets \in Seq(Nat)
      /\ mode' \in {"rvalue", "declare"}
  BY DEF Alloca, Declaring, AfterDeclaration, Inductive, TypeOK
<1>4. BracketsNested'
  <2>1. /\ m.locals \in Nat /\ m.arity \in Nat
        /\ \A i \in DOMAIN brackets : brackets[i] \in Nat
    BY <1>1, <1>3 DEF Counted, MonitorState
  <2> QED  BY <1>2, <1>3, <2>1 DEF Inductive, BracketsNested
<1>5. BodyBracket' /\ ResultsRecorded' /\ mode' \in Modes
  BY <1>2, <1>3 DEF Inductive, BodyBracket, ResultsRecorded, Modes
<1>6. TypeOK' /\ RegisterBudget' /\ FrameLayout'
  BY <1>2, <1>3, <1>5 DEF Counted, TypeOK, RegisterBudget, FrameLayout
<1> QED  BY <1>4, <1>5, <1>6 DEF Inductive

(* A bracket opened remembers the locals in scope.                         *)
LEMMA BraInductive ==
  ASSUME Inductive, Bra
  PROVE  Inductive'
<1>1. /\ Counted(m) /\ m' = m /\ m.locals \in Nat /\ m.arity \in Nat
      /\ m.arity <= m.locals
  BY InductiveCounted DEF Bra, Counted, MonitorState
<1>2. /\ brackets \in Seq(Nat) /\ brackets' = Append(brackets, m.locals)
      /\ mode = "rvalue" /\ mode' = "rvalue"
  BY DEF Bra, AtStatement, Inductive, TypeOK
<1>3. /\ brackets' \in Seq(Nat) /\ Len(brackets') = Len(brackets) + 1
      /\ \A i \in 1 .. Len(brackets) : brackets'[i] = brackets[i]
      /\ brackets'[Len(brackets) + 1] = m.locals
  BY <1>1, <1>2
<1>4. BracketsNested'
  <2>1. \A i \in DOMAIN brackets :
          /\ m.arity <= brackets[i] /\ brackets[i] <= m.locals
          /\ \A j \in DOMAIN brackets : i < j => brackets[i] <= brackets[j]
    BY DEF Inductive, BracketsNested
  <2>2. DOMAIN brackets' = 1 .. Len(brackets) + 1 /\ Len(brackets) \in Nat
        /\ DOMAIN brackets = 1 .. Len(brackets)
    BY <1>2, <1>3
  <2>3. \A i \in 1 .. Len(brackets) : brackets[i] \in Nat /\ i < Len(brackets) + 1
    BY <1>2
  <2>4. \A i \in DOMAIN brackets' : m.arity <= brackets'[i] /\ brackets'[i] <= m.locals
    BY <1>1, <1>3, <2>1, <2>2
  <2>5. ASSUME NEW i \in DOMAIN brackets', NEW j \in DOMAIN brackets', i < j
        PROVE  brackets'[i] <= brackets'[j]
    <3>1. i \in 1 .. Len(brackets)
      BY <2>2, <2>5
    <3>2. CASE j \in 1 .. Len(brackets)
      BY <1>3, <2>1, <2>2, <2>5, <3>1, <3>2
    <3>3. CASE j = Len(brackets) + 1
      BY <1>3, <2>1, <2>2, <3>1, <3>3
    <3> QED  BY <2>2, <3>2, <3>3
  <2> QED  BY <1>1, <2>4, <2>5 DEF BracketsNested
<1>5. BodyBracket'
  <2>1. CASE brackets = <<>>
    BY <1>1, <1>2, <1>3, <2>1 DEF Inductive, BodyBracket
  <2>2. CASE brackets # <<>>
    <3>1. 1 \in 1 .. Len(brackets)
      BY <1>2, <2>2
    <3> QED  BY <1>1, <1>2, <1>3, <2>2, <3>1 DEF Inductive, BodyBracket
  <2> QED  BY <2>1, <2>2
<1>6. ResultsRecorded' /\ TypeOK' /\ RegisterBudget' /\ FrameLayout'
  BY <1>1, <1>2, <1>3
  DEF Inductive, ResultsRecorded, TypeOK, RegisterBudget, FrameLayout, Modes
<1> QED  BY <1>4, <1>5, <1>6 DEF Inductive

(* What is left of the brackets when the innermost one is popped.          *)
LEMMA FrontOfSequence ==
  ASSUME NEW S, NEW seq \in Seq(S), Len(seq) >= 1
  PROVE  LET front == SubSeq(seq, 1, Len(seq) - 1)
         IN  /\ front \in Seq(S) /\ Len(front) = Len(seq) - 1
             /\ \A i \in 1 .. Len(seq) - 1 : front[i] = seq[i]
<1> DEFINE n == Len(seq) - 1
           front == SubSeq(seq, 1, n)
<1>1. n \in Nat /\ \A i \in 1 .. n : seq[i] \in S
  OBVIOUS
<1> HIDE DEF n
<1>2. /\ front \in Seq(S)
      /\ Len(front) = IF 1 <= n THEN n - 1 + 1 ELSE 0
      /\ \A i \in 1 .. n - 1 + 1 : front[i] = seq[1 + i - 1]
  BY <1>1, SubSeqProperties
<1>3. /\ (IF 1 <= n THEN n - 1 + 1 ELSE 0) = n
      /\ n - 1 + 1 = n
      /\ \A i \in 1 .. n : 1 + i - 1 = i
  BY <1>1
<1> HIDE DEF front
<1>4. Len(front) = n /\ \A i \in 1 .. n : front[i] = seq[i]
  BY <1>2, <1>3
<1> QED  BY <1>2, <1>4 DEF front, n

(* ket takes the innermost bracket off and returns to its locals.          *)
LEMMA CloseBracketInductive ==
  ASSUME Inductive, brackets # <<>>, Excess(m) = 0, CloseBracket,
         \/ mode = "rvalue" /\ mode' = "rvalue" /\ Len(brackets) > 1
         \/ mode = "returned" /\ mode' = "left"
  PROVE  Inductive'
<1> DEFINE n == Len(brackets)
           outer == brackets[n]
<1>1. /\ Counted(m) /\ brackets \in Seq(Nat) /\ n \in Nat /\ n >= 1
      /\ n \in DOMAIN brackets /\ outer \in Nat
  BY InductiveCounted
<1>2. m.arity <= outer /\ outer <= m.locals
  BY <1>1 DEF Inductive, BracketsNested
<1>3. /\ m' = Closed(m, m.locals - outer)
      /\ brackets' = SubSeq(brackets, 1, n - 1)
  BY DEF CloseBracket
<1> HIDE DEF outer
<1>4. /\ Counted(m') /\ m'.locals = outer /\ m'.arity = m.arity
      /\ Excess(m') = 0
      /\ m'.output = m.output /\ m'.climbing = m.climbing
      /\ m'.clobbered = m.clobbered /\ m'.frameClobbered = m.frameClobbered
  BY <1>1, <1>2, <1>3, ClosedFields
<1>5. /\ brackets' \in Seq(Nat) /\ Len(brackets') = n - 1
      /\ \A i \in 1 .. n - 1 : brackets'[i] = brackets[i]
  BY <1>1, <1>3, FrontOfSequence
<1>6. BracketsNested'
  <2>1. \A i \in DOMAIN brackets :
          /\ m.arity <= brackets[i]
          /\ \A j \in DOMAIN brackets : i < j => brackets[i] <= brackets[j]
    BY DEF Inductive, BracketsNested
  <2>2. /\ DOMAIN brackets' = 1 .. n - 1 /\ DOMAIN brackets = 1 .. n
        /\ \A i \in 1 .. n - 1 : i < n /\ i \in 1 .. n
    BY <1>1, <1>5
  <2> QED  BY <1>1, <1>4, <1>5, <2>1, <2>2 DEF BracketsNested, outer
<1>7. BodyBracket' /\ ResultsRecorded' /\ mode' \in Modes
  <2>1. CASE mode = "rvalue" /\ mode' = "rvalue" /\ n > 1
    <3>1. brackets' # <<>> /\ brackets'[1] = brackets[1]
      BY <1>1, <1>5, <2>1
    <3> QED  BY <1>4, <2>1, <3>1 DEF Inductive, BodyBracket, ResultsRecorded, Modes
  <2>2. CASE mode = "returned" /\ mode' = "left"
    <3>1. n = 1 /\ outer = m.arity
      BY <2>2 DEF Inductive, BodyBracket, outer
    <3>2. brackets' = <<>>
      BY <1>1, <1>5, <3>1
    <3> QED  BY <1>4, <2>2, <3>1, <3>2 DEF Inductive, BodyBracket, ResultsRecorded, Modes
  <2> QED  BY <2>1, <2>2
<1>8. TypeOK' /\ RegisterBudget' /\ FrameLayout'
  BY <1>4, <1>5, <1>7 DEF Counted, TypeOK, RegisterBudget, FrameLayout
<1> QED  BY <1>6, <1>7, <1>8 DEF Inductive

(* ret pops the results and records their number.                          *)
LEMMA RetInductive ==
  ASSUME Inductive, Ret
  PROVE  Inductive'
<1>1. /\ Counted(m) /\ Excess(m) \in Nat /\ 1 <= Excess(m) /\ Excess(m) <= DEPTH
      /\ m' = Returned(m, Excess(m)) /\ brackets' = brackets
      /\ Len(brackets) = 1 /\ mode' = "returned"
  BY InductiveCounted DEF Ret, Returning, Counted, MonitorState, Excess
<1>2. /\ Counted(m') /\ m'.locals = m.locals /\ m'.arity = m.arity
      /\ Excess(m') = 0
      /\ m'.output = Excess(m) /\ Excess(m) <= m'.clobbered
      /\ m'.climbing <= m'.frameClobbered
  BY <1>1, ReturnedFields
<1>3. BracketsNested' /\ BodyBracket' /\ ResultsRecorded'
  BY <1>1, <1>2 DEF Inductive, BracketsNested, BodyBracket, ResultsRecorded
<1>4. TypeOK' /\ RegisterBudget' /\ FrameLayout'
  BY <1>1, <1>2 DEF Inductive, Counted, TypeOK, RegisterBudget, FrameLayout, Modes
<1> QED  BY <1>3, <1>4 DEF Inductive

(* Every request of the compiler preserves the invariant.                  *)
LEMMA NextInductive == Inductive /\ [Next]_vars => Inductive'
<1> SUFFICES ASSUME Inductive, [Next]_vars PROVE Inductive'
  OBVIOUS
<1>1. Counted(m) /\ mode \in Modes
  BY InductiveCounted
<1>2. ASSUME NEW e \in Effects, Operate(e) PROVE Inductive'
  <2>1. Servable(m, e[1], e[2], Footprint(e))
    BY <1>1, <1>2, EffectServable DEF Operate
  <2>2. Counted(m') /\ m'.locals = m.locals /\ m'.arity = m.arity
    BY <1>1, <1>2, <2>1, ApplyEffectFields DEF Operate
  <2> QED  BY <1>2, <2>2, SameBrackets DEF Operate, InBody, AfterOperation
<1>3. ASSUME NEW i \in {0, 1}, Dup(i) PROVE Inductive'
  <2>1. LET e == DupEffect(m, i) IN Servable(m, e[1], e[2], Footprint(e))
    BY <1>1, <1>3, DupServable DEF Dup
  <2>2. Counted(m') /\ m'.locals = m.locals /\ m'.arity = m.arity
    BY <1>1, <1>3, <2>1, ApplyEffectFields DEF Dup
  <2> QED  BY <1>3, <2>2, SameBrackets DEF Dup, InBody
<1>4. ASSUME NEW i \in {0, 1}, Drop(i) PROVE Inductive'
  <2>1. LET e == DropEffect(m, i) IN Servable(m, e[1], e[2], Footprint(e))
    BY <1>1, <1>4, DropServable DEF Drop
  <2>2. Counted(m') /\ m'.locals = m.locals /\ m'.arity = m.arity
    BY <1>1, <1>4, <2>1, ApplyEffectFields DEF Drop
  <2> QED  BY <1>4, <2>2, SameBrackets DEF Drop, InBody, AfterOperation
<1>5. ASSUME Store \/ AllocaDummy PROVE Inductive'
  <2>1. /\ Excess(m) >= 1 /\ m' = ApplyEffect(m, <<1, 0>>)
        /\ brackets # <<>> /\ UNCHANGED brackets
        /\ mode' \in {"rvalue", "store", "declare"}
    BY <1>5 DEF Store, AllocaDummy, InBody, Declaring, AfterDeclaration
  <2>2. Servable(m, 1, 0, 1)
    BY <1>1, <2>1, DepthAssumption DEF Servable, Excess, Counted, MonitorState
  <2>3. Counted(m') /\ m'.locals = m.locals /\ m'.arity = m.arity
    BY <1>1, <2>1, <2>2, ApplyEffectFields DEF Footprint, Larger
  <2> QED  BY <2>1, <2>3, SameBrackets
<1>6. ASSUME AllocaAborts \/ RetAborts PROVE Inductive'
  <2>1. m' = m /\ UNCHANGED brackets /\ brackets # <<>> /\ mode' = "aborted"
    BY <1>6 DEF AllocaAborts, RetAborts, Declaring, Returning
  <2> QED  BY <1>1, <2>1, SameBrackets
<1>7. ASSUME NEW f \in Callees, Call(f) PROVE Inductive'
  <2>1. Counted(m') /\ m'.locals = m.locals /\ m'.arity = m.arity
    BY <1>1, <1>7, CalleesAssumption, CalledFields DEF Call
  <2> QED  BY <1>7, <2>1, SameBrackets DEF Call
<1>8. ASSUME Ket PROVE Inductive'
  BY <1>8, CloseBracketInductive DEF Ket, AtStatement
<1>9. ASSUME Leave PROVE Inductive'
  <2>1. Len(brackets) = 1 /\ Excess(m) = 0
    BY <1>9 DEF Leave, Inductive, BodyBracket, ResultsRecorded
  <2> QED  BY <1>9, <2>1, CloseBracketInductive DEF Leave
<1>10. CASE UNCHANGED vars
  BY <1>10 DEF vars, Inductive, TypeOK, RegisterBudget, FrameLayout,
     BracketsNested, BodyBracket, ResultsRecorded
<1> QED
  BY <1>2, <1>3, <1>4, <1>5, <1>6, <1>7, <1>8, <1>9, <1>10,
     AllocaInductive, BraInductive, RetInductive DEF Next

(* The invariant holds of every function the compiler assembles.           *)
THEOREM InductiveHolds == Spec => []Inductive
  BY InitInductive, NextInductive, PTL DEF Spec

-----------------------------------------------------------------------------
(* What Monitor states.                                                    *)

(* The counters stay natural numbers: no subtraction in adjust or ket goes *)
(* below zero (they are unsigned in the source).                           *)
THEOREM TypeCorrect == Spec => []TypeOK
<1>1. Inductive => TypeOK
  BY DEF Inductive
<1> QED  BY <1>1, InductiveHolds, PTL

(* clobbered_ counts the registers in use and fits the register stack.     *)
THEOREM RegistersFit == Spec => []RegisterBudget
<1>1. Inductive => RegisterBudget
  BY DEF Inductive
<1> QED  BY <1>1, InductiveHolds, PTL

(* frame_clobbered_ covers arguments, locals, spilled temporaries and the  *)
(* stack pointer, in this order.                                           *)
THEOREM FrameIsLaidOut == Spec => []FrameLayout
<1>1. Inductive => FrameLayout
  BY DEF Inductive
<1> QED  BY <1>1, InductiveHolds, PTL

(* Brackets remember nested prefixes of the locals.                        *)
THEOREM BracketsAreNested == Spec => []BracketsNested
<1>1. Inductive => BracketsNested
  BY DEF Inductive
<1> QED  BY <1>1, InductiveHolds, PTL

(* No assertion inside adjust fails, whatever the compiler asks for.       *)
THEOREM AdjustNeverAsserts == Spec => []AdjustAssertions
<1>1. Inductive => AdjustAssertions
  <2> SUFFICES ASSUME Inductive, NEW r \in Requests
               PROVE  LET s == Balanced(m, r[1], r[3])
                      IN  /\ r[3] <= DEPTH
                          /\ ~(Deficient(m, r[1]) /\ Overfull(m, r[1], r[3]))
                          /\ s.locals <= s.frameUsed
                          /\ r[1] <= s.used
                          /\ (s.used - r[1]) + r[3] <= DEPTH
    BY DEF AdjustAssertions
  <2>1. Counted(m) /\ Servable(m, r[1], r[2], r[3])
    BY InductiveCounted, RequestsServable
  <2>2. ~(Deficient(m, r[1]) /\ Overfull(m, r[1], r[3]))
    BY <2>1, OneShortage
  <2>3. LET s == Balanced(m, r[1], r[3])
        IN  Counted(s) /\ r[1] <= s.used /\ (s.used - r[1]) + r[3] <= DEPTH
    BY <2>1, BalancedFields
  <2> QED  BY <2>1, <2>2, <2>3 DEF Servable, Counted
<1> QED  BY <1>1, InductiveHolds, PTL

(* No assertion inside adjust_stack_pointer fails, and callees get the      *)
(* arguments, the frame and the registers their descriptors ask for.       *)
THEOREM CalleesAreServed == Spec => []CallAssertions
<1>1. Inductive => CallAssertions
  <2> SUFFICES ASSUME Inductive, NEW f \in Callees, f.arity <= Excess(m)
               PROVE  /\ m.locals <= CallBase(m, f)
                      /\ CallBase(m, f) + f.frameClobbered
                           <= Called(m, f).frameClobbered
                      /\ Balanced(m, 0, CalleeClobbers(f)).used
                           + CalleeClobbers(f) <= DEPTH
    BY DEF CallAssertions
  <2>1. Counted(m)
    BY InductiveCounted
  <2> QED  BY <2>1, CalleesAssumption, CalledFields
<1> QED  BY <1>1, InductiveHolds, PTL

(* Whatever an adjust spills or reloads, excess() counts the operands of   *)
(* the statement.                                                          *)
THEOREM SpillingIsInvisible == Spec => []SpillInvisible
<1>1. Inductive => SpillInvisible
  <2> SUFFICES ASSUME Inductive, NEW r \in Requests
               PROVE  Excess(Adjusted(m, r[1], r[2], r[3]))
                        = (Excess(m) - r[1]) + r[2]
    BY DEF SpillInvisible
  <2>1. Counted(m) /\ Servable(m, r[1], r[2], r[3])
    BY InductiveCounted, RequestsServable
  <2> QED  BY <2>1, AdjustedFields
<1> QED  BY <1>1, InductiveHolds, PTL

(* The replay of monitor::check() needs no spill code of its own.          *)
THEOREM ReplayNeedsNoSpill == Spec => []ReplayStable
<1>1. Inductive => ReplayStable
  <2> SUFFICES ASSUME Inductive, NEW r \in Requests
               PROVE  LET s == Balanced(m, r[1], r[3])
                      IN  ~Deficient(s, r[1]) /\ ~Overfull(s, r[1], r[3])
    BY DEF ReplayStable
  <2>1. Counted(m) /\ Servable(m, r[1], r[2], r[3])
    BY InductiveCounted, RequestsServable
  <2> QED  BY <2>1, BalancedFields
<1> QED  BY <1>1, InductiveHolds, PTL

(* The invariant contains what function::leave asserts.                    *)
LEMMA InductiveLeaves == Inductive => LeaveAssertions
<1> SUFFICES ASSUME Inductive, mode = "left"
             PROVE  /\ IsDescriptor(AsDescriptor)
                    /\ brackets = <<>>
                    /\ m.locals = m.arity /\ Excess(m) = 0
  BY DEF LeaveAssertions
<1>1. Counted(m)
  BY InductiveCounted
<1>2. /\ brackets = <<>> /\ m.locals = m.arity /\ Excess(m) = 0
      /\ 1 <= m.output /\ m.output <= m.clobbered
      /\ m.climbing <= m.frameClobbered
  BY DEF Inductive, BodyBracket, ResultsRecorded
<1>3. AsDescriptor \in Descriptor
  BY <1>1 DEF AsDescriptor, Descriptor, Counted, MonitorState
<1>4. IsDescriptor(AsDescriptor)
  BY <1>1, <1>2, <1>3, DepthAssumption
  DEF IsDescriptor, AsDescriptor, Counted, MonitorState
<1> QED  BY <1>2, <1>4

(* A finished function satisfies function::leave: it may be a callee.      *)
THEOREM FinishedFunctionIsCallee == Spec => []LeaveAssertions
  BY InductiveLeaves, InductiveHolds, PTL

=============================================================================
