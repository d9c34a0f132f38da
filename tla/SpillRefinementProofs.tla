------------------------ MODULE SpillRefinementProofs ------------------------
(***************************************************************************)
(* What the assembler emits behaves as the function body does on an        *)
(* operand stack of unlimited depth: SpillMachine implements OperandStack,  *)
(* for all dimensions of the machine.                                      *)
(***************************************************************************)
EXTENDS SpillMachineProofs, SequenceTheorems

(* The abstract state.                                                     *)
Locals == [x \in 1 .. m.locals |-> h.frame[x - 1]]

Phase == IF mode \in {"returned", "left", "aborted"} THEN mode ELSE "running"

(* The operands of counters s and machine g.                               *)
Stack(s, g) ==
  [j \in 1 .. Excess(s) |-> Operand(g, s.used, s.frameUsed, s.locals, j)]

(* The operands of the present state.                                      *)
LEMMA OperandsStack == Operands = Stack(m, h)
  BY DEF Operands, Stack, Operand, Excess

-----------------------------------------------------------------------------
(* Sequences.                                                              *)

(* A list made element by element is a sequence.                           *)
LEMMA ListTyped ==
  ASSUME NEW V, NEW n \in Nat, NEW f, f = [j \in 1 .. n |-> f[j]], \A j \in 1 .. n : f[j] \in V
  PROVE  f \in Seq(V) /\ Len(f) = n /\ DOMAIN f = 1 .. n
<1>1. f \in [1 .. n -> V]
  OBVIOUS
<1>2. f \in Seq(V)
  BY <1>1, SeqDef
<1> QED BY <1>1, <1>2, LenProperties

(* When the newest n of s are replaced.                                    *)
LEMMA Replaced ==
  ASSUME NEW V, NEW s \in Seq(V), NEW u \in Seq(V), NEW new \in Seq(V),
         NEW n \in Nat, n <= Len(s), Len(u) = (Len(s) - n) + Len(new),
         \A j \in 1 .. Len(s) - n : u[j] = s[j],
         \A j \in 1 .. Len(new) : u[(Len(s) - n) + j] = new[j]
  PROVE  u = SubSeq(s, 1, Len(s) - n) \o new
<1> DEFINE l == Len(s) - n
           old == SubSeq(s, 1, l)
           r == old \o new
<1>1. Len(s) \in Nat /\ l \in Nat /\ l <= Len(s) /\ Len(new) \in Nat
  BY LenProperties
<1>2. \A i \in 1 .. l : s[i] \in V
  BY <1>1, ElementOfSeq
<1> HIDE DEF l
<1>3. /\ old \in Seq(V) /\ Len(old) = l
      /\ \A i \in 1 .. l : old[i] = s[i]
  <2>1. 1 \in Int /\ l \in Int
    BY <1>1
  <2>2. /\ old \in Seq(V) /\ Len(old) = IF 1 <= l THEN l - 1 + 1 ELSE 0
        /\ \A i \in 1 .. l - 1 + 1 : old[i] = s[1 + i - 1]
    BY <2>1, <1>2, SubSeqProperties
  <2> HIDE DEF old
  <2>3. l - 1 + 1 = l /\ (~ (1 <= l) => l = 0) /\ \A i \in 1 .. l : 1 + i - 1 = i
    BY <1>1
  <2> QED BY <2>2, <2>3, <1>1
<1> HIDE DEF old
<1>4. /\ r \in Seq(V) /\ Len(r) = l + Len(new)
      /\ \A i \in 1 .. l + Len(new) : r[i] = IF i <= l THEN old[i] ELSE new[i - l]
  <2>1. old \in Seq(V) /\ new \in Seq(V)
    BY <1>3
  <2>2. /\ old \o new \in Seq(V) /\ Len(old \o new) = Len(old) + Len(new)
        /\ \A i \in 1 .. Len(old) + Len(new) :
             (old \o new)[i] = IF i <= Len(old) THEN old[i] ELSE new[i - Len(old)]
    BY ONLY <2>1, ConcatProperties
  <2> HIDE DEF r
  <2>3. r = old \o new
    BY DEF r
  <2> QED BY <2>2, <2>3, <1>3
<1> HIDE DEF r
<1>5. ASSUME NEW i \in 1 .. Len(u) PROVE u[i] = r[i]
  <2>1. Len(u) = l + Len(new)
    BY DEF l
  <2>2. CASE i <= l
    <3>1. i \in 1 .. l /\ i \in 1 .. l + Len(new)
      BY <2>1, <2>2, <1>1
    <3> QED BY <2>2, <3>1, <1>3, <1>4 DEF l
  <2>3. CASE ~ (i <= l)
    <3>1. i - l \in 1 .. Len(new) /\ l + (i - l) = i /\ i \in 1 .. l + Len(new)
      BY <2>1, <2>3, <1>1
    <3>2. u[l + (i - l)] = new[i - l]
      BY <3>1 DEF l
    <3> QED BY <2>3, <3>1, <3>2, <1>4
  <2> QED BY <2>2, <2>3
<1>6. Len(u) = Len(r)
  BY <1>4 DEF l
<1>7. u = r
  BY <1>4, <1>5, <1>6, SeqEqual
<1> QED BY <1>7 DEF r, old, l

(* The newest but one replaced by itself.                                  *)
LEMMA OneBelow ==
  ASSUME NEW V, NEW s \in Seq(V), NEW b \in V, NEW v \in V, 2 <= Len(s), b = s[Len(s) - 1]
  PROVE  SubSeq(s, 1, Len(s) - 2) \o <<b, v>> = SubSeq(s, 1, Len(s) - 1) \o <<v>>
<1> DEFINE l == Len(s) - 2
           old == SubSeq(s, 1, l)
           u == old \o <<b, v>>
<1>1. Len(s) \in Nat /\ l \in Nat /\ l + 1 = Len(s) - 1
  BY LenProperties
<1>2. /\ \A i \in 1 .. l : s[i] \in V
      /\ <<b, v>> \in Seq(V) /\ Len(<<b, v>>) = 2 /\ <<b, v>>[1] = b /\ <<b, v>>[2] = v
      /\ <<v>> \in Seq(V) /\ Len(<<v>>) = 1 /\ <<v>>[1] = v
  BY <1>1, ElementOfSeq
<1> HIDE DEF l
<1>3. old \in Seq(V) /\ Len(old) = l /\ \A i \in 1 .. l : old[i] = s[i]
  <2>1. 1 \in Int /\ l \in Int
    BY <1>1
  <2>2. /\ old \in Seq(V) /\ Len(old) = IF 1 <= l THEN l - 1 + 1 ELSE 0
        /\ \A i \in 1 .. l - 1 + 1 : old[i] = s[1 + i - 1]
    BY <2>1, <1>2, SubSeqProperties
  <2> HIDE DEF old
  <2>3. l - 1 + 1 = l /\ (~ (1 <= l) => l = 0) /\ \A i \in 1 .. l : 1 + i - 1 = i
    BY <1>1
  <2> QED BY <2>2, <2>3, <1>1
<1> HIDE DEF old
<1> DEFINE pair == <<b, v>>
<1>4. /\ u \in Seq(V) /\ Len(u) = l + 2
      /\ \A i \in 1 .. l + 2 : u[i] = IF i <= l THEN old[i] ELSE pair[i - l]
  <2>1. old \in Seq(V) /\ pair \in Seq(V) /\ u = old \o pair /\ Len(pair) = 2
    BY <1>2, <1>3
  <2> HIDE DEF u, pair
  <2>2. /\ old \o pair \in Seq(V) /\ Len(old \o pair) = Len(old) + Len(pair)
        /\ \A i \in 1 .. Len(old) + Len(pair) :
             (old \o pair)[i] = IF i <= Len(old) THEN old[i] ELSE pair[i - Len(old)]
    BY ONLY <2>1, ConcatProperties
  <2> QED BY <2>1, <2>2, <1>3
<1> DEFINE n == 1  new == <<v>>
<1>5. pair[1] = b /\ pair[2] = v /\ new[1] = v /\ new \in Seq(V) /\ Len(new) = 1 /\ n = 1
  BY <1>2
<1> HIDE DEF u, pair, new, n
<1>6. /\ n \in Nat /\ n <= Len(s) /\ Len(u) = (Len(s) - n) + Len(new)
      /\ \A j \in 1 .. Len(s) - n : u[j] = s[j]
      /\ \A j \in 1 .. Len(new) : u[(Len(s) - n) + j] = new[j]
  <2>1. n \in Nat /\ n <= Len(s) /\ Len(u) = (Len(s) - n) + Len(new) /\ Len(s) - n = l + 1
    BY <1>1, <1>4, <1>5 DEF l
  <2>2. ASSUME NEW j \in 1 .. l + 1 PROVE u[j] = s[j]
    <3>1. CASE j <= l
      BY <3>1, <1>1, <1>3, <1>4
    <3>2. CASE ~ (j <= l)
      <4>1. j = l + 1 /\ j - l = 1 /\ j \in 1 .. l + 2
        BY <3>2, <1>1
      <4> QED BY <4>1, <3>2, <1>1, <1>4, <1>5
    <3> QED BY <3>1, <3>2
  <2>3. u[(l + 1) + 1] = v
    <3>1. (l + 1) + 1 \in 1 .. l + 2 /\ ~ ((l + 1) + 1 <= l) /\ ((l + 1) + 1) - l = 2
      BY <1>1
    <3> QED BY <3>1, <1>4, <1>5
  <2>4. \A j \in 1 .. Len(new) : j = 1
    BY <1>5
  <2> QED BY <2>1, <2>2, <2>3, <2>4, <1>5
<1>7. u = SubSeq(s, 1, Len(s) - n) \o new
  <2>1. /\ s \in Seq(V) /\ u \in Seq(V) /\ new \in Seq(V)
        /\ n \in Nat /\ n <= Len(s) /\ Len(u) = (Len(s) - n) + Len(new)
        /\ \A j \in 1 .. Len(s) - n : u[j] = s[j]
        /\ \A j \in 1 .. Len(new) : u[(Len(s) - n) + j] = new[j]
    BY <1>4, <1>5, <1>6
  <2> QED BY ONLY <2>1, Replaced
<1> QED BY <1>7 DEF u, old, l, pair, n, new

-----------------------------------------------------------------------------
(* The operands after an instruction.                                      *)

(* Positions: `spilled` operands in the frame, `used` in registers, of     *)
(* which an instruction that asked for c and p of k takes n and leaves q.  *)
LEMMA Positions ==
  ASSUME NEW D \in Nat, NEW spilled \in Nat, NEW used \in Nat, NEW c \in Nat, NEW p \in Nat, NEW k \in Nat,
         NEW n \in Nat, NEW q \in Nat, n <= c, c <= used, c <= k, p <= k, p = q + (c - n), (used - c) + k <= D
  PROVE  /\ (used - c) + p = (used - n) + q
         /\ \A j \in 1 .. (spilled + used) - n :
              ~ (j <= spilled) => LET i == ((spilled + used) - n + q) - j
                                  IN  /\ i \in 0 .. D - 1 /\ q <= i /\ (i - q) + n < D
                                      /\ (i - q) + n = (spilled + used) - j
         /\ \A j \in 1 .. q : LET x == ((spilled + used) - n) + j
                              IN  /\ x \in 1 .. ((spilled + used) - n) + q /\ ~ (x <= spilled)
                                  /\ (((spilled + used) - n) + q) - x = q - j
         /\ \A i \in 0 .. n - 1 : LET x == (spilled + used) - i
                                  IN  /\ x \in 1 .. spilled + used /\ ~ (x <= spilled)
                                      /\ (spilled + used) - x = i
<1>1. (used - c) + p = (used - n) + q /\ (used - n) + q <= D
  OBVIOUS
<1>2. ASSUME NEW j \in 1 .. (spilled + used) - n, ~ (j <= spilled)
      PROVE  LET i == ((spilled + used) - n + q) - j
             IN  /\ i \in 0 .. D - 1 /\ q <= i /\ (i - q) + n < D
                 /\ (i - q) + n = (spilled + used) - j
  <2>1. j \in Nat /\ j > spilled /\ j <= (spilled + used) - n /\ n \in Nat /\ n <= used /\ used <= D
    BY <1>2
  <2> DEFINE i == ((spilled + used) - n + q) - j
             e == spilled + used
  <2>2. e - j < used /\ e - j >= n /\ i = (e - j - n) + q
    BY <2>1
  <2>3. i >= q /\ i < (used - n) + q
    BY <2>1, <2>2
  <2> HIDE DEF i, e
  <2>4. i \in Int /\ e - j \in Int /\ e \in Int
    BY <2>1 DEF i, e
  <2>5. i \in 0 .. D - 1 /\ (i - q) + n = e - j /\ e - j < D
    BY <2>1, <2>2, <2>3, <2>4, <1>1
  <2> QED BY <2>3, <2>5, <2>4 DEF i, e
<1>3. ASSUME NEW j \in 1 .. q
      PROVE  LET x == ((spilled + used) - n) + j
             IN  /\ x \in 1 .. ((spilled + used) - n) + q /\ ~ (x <= spilled)
                 /\ (((spilled + used) - n) + q) - x = q - j
  OBVIOUS
<1>4. ASSUME NEW i \in 0 .. n - 1
      PROVE  LET x == (spilled + used) - i
             IN  /\ x \in 1 .. spilled + used /\ ~ (x <= spilled)
                 /\ (spilled + used) - x = i
  OBVIOUS
<1> QED BY <1>1, <1>2, <1>3, <1>4

(* Operands and locals after the spill code and an instruction that takes   *)
(* n values from the registers, leaves q and may write the slot y: those    *)
(* it took were the newest, those it left are, and the others stand.        *)
Moved(s, g, t, r, taken, n, q, y) ==
  LET e == Excess(s)
  IN  /\ n <= e /\ Excess(t) = (e - n) + q /\ t.locals = s.locals
      /\ \A j \in 1 .. e - n : s.locals + j - 1 # y => Stack(t, r)[j] = Stack(s, g)[j]
      /\ \A j \in 1 .. q : Stack(t, r)[(e - n) + j] = r.fpu[q - j]
      /\ \A i \in 0 .. n - 1 : taken.fpu[i] = Stack(s, g)[e - i]
      /\ \A x \in 0 .. s.locals - 1 : x # y => r.frame[x] = g.frame[x]

(* An instruction moves no operand but those it takes and leaves.          *)
LEMMA InstructionMoves ==
  ASSUME Counted(m), m.locals + Excess(m) <= FrameSize,
         NEW c, NEW p, NEW k, Servable(m, c, p, k),
         NEW g, Ready(Balanced(m, c, k), c, k, g),
         NEW n \in Nat, NEW q \in Nat, n <= c, p = q + (c - n), NEW y,
         NEW r, Executes(g, Balanced(m, c, k).frameClobbered, n, q, y, r)
  PROVE  Moved(m, h, Adjusted(m, c, p, k), r, g, n, q, y)
<1> DEFINE b == Balanced(m, c, k)
           t == Adjusted(m, c, p, k)
           e == Excess(m)
           base == m.locals
           used == b.used
           slots == b.frameUsed
           spilled == slots - base
<1>1. /\ Counted(b) /\ SameScope(m, b) /\ used \in Nat /\ slots \in Nat /\ base \in Nat
      /\ Holding(g, used, slots, b.frameClobbered) /\ b.frameClobbered \in Nat
      /\ c <= used /\ (used - c) + k <= DEPTH /\ used <= DEPTH /\ base <= slots
      /\ Keeps(base, h, m.used, m.frameUsed, g, used, slots)
  BY DEF Ready, SpillCodeDone
<1>2. c \in Nat /\ p \in Nat /\ k \in Nat /\ c <= k /\ p <= k
  BY DEF Servable
<1>3. e \in Nat /\ e = (m.frameUsed - base) + m.used
  BY CountedTyped
<1>4. e = spilled + used /\ spilled \in Nat
  <2>1. spilled + used = (m.frameUsed - base) + m.used
    BY <1>1 DEF Keeps
  <2> QED BY <2>1, <1>1, <1>3
<1>5. t = Settled(b, c, p, k)
  BY DEF Adjusted
<1>6. t.used = (used - c) + p /\ t.frameUsed = slots /\ t.locals = base
  <2>1. /\ Counted(b) /\ c \in Nat /\ p \in Nat /\ k \in Nat /\ c <= b.used /\ p <= k /\ c <= k
        /\ (b.used - c) + k <= DEPTH
    BY <1>1, <1>2
  <2> HIDE DEF b
  <2>2. LET u == Settled(b, c, p, k)
        IN  u.used = (b.used - c) + p /\ u.frameUsed = b.frameUsed /\ u.locals = b.locals
    BY <2>1, SettledCounters
  <2>3. b.locals = base
    BY <1>1 DEF SameScope
  <2> HIDE DEF t
  <2> QED BY <2>2, <2>3, <1>5
<1>7. /\ r.stackUsed = slots
      /\ \A i \in F!Registers : q <= i /\ (i - q) + n < DEPTH => r.fpu[i] = g.fpu[(i - q) + n]
      /\ \A x \in Slots : x < slots /\ x # y => r.frame[x] = g.frame[x]
  <2> DEFINE deep == b.frameClobbered
  <2>1. Executes(g, deep, n, q, y, r) /\ Holding(g, used, slots, deep)
    BY <1>1
  <2> HIDE DEF used, slots, deep, b
  <2>2. g.stackUsed = slots
    BY <2>1 DEF Holding
  <2> QED BY <2>1, <2>2 DEF Executes
<1> HIDE DEF b, t, e
<1> HIDE DEF used, slots, base
<1>8. Stack(m, h) = [j \in 1 .. e |-> Operand(h, m.used, m.frameUsed, base, j)]
  BY DEF Stack, e, base
<1>9. \A j \in 1 .. e : Stack(m, h)[j] = IF j <= spilled THEN g.frame[base + j - 1] ELSE g.fpu[(spilled + used) - j]
  <2>1. \A j \in 1 .. e : Operand(g, used, slots, base, j) = Operand(h, m.used, m.frameUsed, base, j)
    BY <1>1, <1>3 DEF Keeps
  <2> QED BY <2>1, <1>8 DEF Operand
<1>10. Excess(t) = (e - n) + q
  BY <1>1, <1>2, <1>4, <1>6 DEF Excess
<1>11. \A j \in 1 .. (e - n) + q :
         Stack(t, r)[j] = IF j <= spilled THEN r.frame[base + j - 1] ELSE r.fpu[((e - n) + q) - j]
  <2>1. Stack(t, r) = [j \in 1 .. (e - n) + q |-> Operand(r, t.used, slots, base, j)]
    BY <1>6, <1>10 DEF Stack
  <2>2. (slots - base) + t.used = (e - n) + q
    BY <1>1, <1>2, <1>4, <1>6
  <2> QED BY <2>1, <2>2 DEF Operand
<1> DEFINE D == DEPTH
<1>12. D \in Nat /\ F!Registers = 0 .. D - 1 /\ FrameSize \in Nat /\ Slots = 0 .. FrameSize - 1
  BY RegistersTyped
<1>13. slots <= FrameSize
  <2>1. base + e <= FrameSize
    BY DEF base, e
  <2> QED BY <2>1, <1>1, <1>3, <1>4, <1>12
<1> HIDE DEF spilled
<1>14. /\ \A j \in 1 .. e - n :
             ~ (j <= spilled) => LET i == (e - n + q) - j
                                 IN  /\ i \in 0 .. D - 1 /\ q <= i /\ (i - q) + n < D
                                     /\ (i - q) + n = e - j
       /\ \A j \in 1 .. q : LET x == (e - n) + j
                            IN  /\ x \in 1 .. (e - n) + q /\ ~ (x <= spilled)
                                /\ ((e - n) + q) - x = q - j
       /\ \A i \in 0 .. n - 1 : LET x == e - i
                                IN  /\ x \in 1 .. e /\ ~ (x <= spilled)
                                    /\ e - x = i
  <2>1. e = spilled + used
    BY <1>4
  <2>2. (used - c) + k <= D
    BY <1>1
  <2> HIDE DEF D
  <2> QED BY <2>1, <2>2, <1>1, <1>2, <1>4, <1>12, Positions
<1>15. ASSUME NEW j \in 1 .. e - n, base + j - 1 # y PROVE Stack(t, r)[j] = Stack(m, h)[j]
  <2>1. j \in 1 .. e /\ j \in 1 .. (e - n) + q
    BY <1>3
  <2>2. CASE j <= spilled
    <3>1. base + j - 1 \in Slots /\ base + j - 1 < slots
      BY <2>1, <2>2, <1>1, <1>12, <1>13 DEF spilled
    <3> QED BY <3>1, <2>1, <2>2, <1>7, <1>9, <1>11, <1>15
  <2>3. CASE ~ (j <= spilled)
    <3> DEFINE i == (e - n + q) - j
    <3>1. i \in F!Registers /\ q <= i /\ (i - q) + n < DEPTH /\ (i - q) + n = e - j
      BY <2>3, <1>12, <1>14
    <3> HIDE DEF i
    <3>2. r.fpu[i] = g.fpu[e - j]
      BY <3>1, <1>7
    <3>3. Stack(t, r)[j] = r.fpu[i] /\ Stack(m, h)[j] = g.fpu[e - j]
      BY <2>1, <2>3, <1>4, <1>9, <1>11 DEF i
    <3> QED BY <3>2, <3>3
  <2> QED BY <2>2, <2>3
<1>16. ASSUME NEW j \in 1 .. q PROVE Stack(t, r)[(e - n) + j] = r.fpu[q - j]
  BY <1>11, <1>14
<1>17. ASSUME NEW i \in 0 .. n - 1 PROVE g.fpu[i] = Stack(m, h)[e - i]
  BY <1>4, <1>9, <1>14
<1>18. ASSUME NEW x \in 0 .. base - 1, x # y PROVE r.frame[x] = h.frame[x]
  <2>1. x \in Slots /\ x < slots /\ x < base
    BY <1>1, <1>12, <1>13
  <2> QED BY <2>1, <1>1, <1>7, <1>18 DEF Keeps
<1>19. n <= e
  BY <1>1, <1>2, <1>4
<1> QED BY <1>6, <1>10, <1>15, <1>16, <1>17, <1>18, <1>19 DEF Moved, e, base, t

-----------------------------------------------------------------------------
(* From the machine to the operand stack.                                  *)

(* The operands are numbers, as many as excess() says.                     *)
LEMMA StackOf ==
  ASSUME NEW s, NEW g, Counted(s), Carries(s, s.used, g), s.locals + Excess(s) <= FrameSize
  PROVE  /\ Excess(s) \in Nat
         /\ Stack(s, g) \in Seq(Val) /\ Len(Stack(s, g)) = Excess(s) /\ DOMAIN Stack(s, g) = 1 .. Excess(s)
<1> DEFINE e == Excess(s)
           used == s.used
           slots == s.frameUsed
           base == s.locals
           deep == s.frameClobbered
<1>1. /\ used \in Nat /\ slots \in Nat /\ base \in Nat /\ deep \in Nat /\ e \in Nat /\ base <= slots
      /\ e = (slots - base) + used /\ used <= DEPTH /\ base + e <= FrameSize
  <2>1. /\ used \in Nat /\ slots \in Nat /\ base \in Nat /\ deep \in Nat /\ e \in Nat /\ base <= slots
        /\ s.clobbered \in Nat /\ used <= s.clobbered /\ s.clobbered <= DEPTH /\ e = (slots - base) + used
    BY CountedTyped
  <2>2. used <= DEPTH
    BY <2>1, RegistersTyped
  <2> QED BY <2>1, <2>2
<1>2. Holding(g, used, slots, deep)
  BY DEF Carries
<1>3. Stack(s, g) = [j \in 1 .. e |-> Operand(g, used, slots, base, j)]
  BY DEF Stack
<1> HIDE DEF e, used, slots, base, deep
<1>4. /\ \A i \in F!Registers : i < used => g.fpu[i] \in Val
      /\ \A x \in Slots : x < slots => g.frame[x] \in Val
  BY <1>1, <1>2, HoldingParts
<1>5. ASSUME NEW j \in 1 .. e PROVE Operand(g, used, slots, base, j) \in Val
  <2>1. CASE j <= slots - base
    <3>1. base + j - 1 \in Slots /\ base + j - 1 < slots
      BY <1>1, <2>1, RegistersTyped
    <3> QED BY <2>1, <3>1, <1>4 DEF Operand
  <2>2. CASE ~ (j <= slots - base)
    <3> DEFINE i == ((slots - base) + used) - j
    <3>1. i \in F!Registers /\ i < used
      BY <1>1, <2>2, RegistersTyped
    <3> HIDE DEF i
    <3>2. g.fpu[i] \in Val
      BY <3>1, <1>4
    <3> QED BY <2>2, <3>2 DEF Operand, i
  <2> QED BY <2>1, <2>2
<1> DEFINE f == Stack(s, g)
<1>6. f = [j \in 1 .. e |-> f[j]] /\ \A j \in 1 .. e : f[j] \in Val
  BY <1>3, <1>5
<1> HIDE DEF f
<1>7. f \in Seq(Val) /\ Len(f) = e /\ DOMAIN f = 1 .. e
  BY <1>1, <1>6, ListTyped
<1> QED BY <1>1, <1>7 DEF f, e

(* Those of the state, before and after a step.                            *)
LEMMA OperandsTyped ==
  ASSUME MachineInductive, Running
  PROVE  /\ Counted(m) /\ m.locals \in Nat /\ Excess(m) \in Nat /\ m.locals + Excess(m) <= FrameSize
         /\ m.locals <= FrameSize
         /\ Operands \in Seq(Val) /\ Len(Operands) = Excess(m)
<1>1. Counted(m) /\ Carries(m, m.used, h) /\ m.locals <= MaxLocals /\ Excess(m) <= MaxExcess
  BY InductiveCounted DEF MachineInductive, Running, OnTop, WithinBounds
<1>2. m.locals \in Nat /\ Excess(m) \in Nat
  BY <1>1, CountedTyped
<1>3. m.locals + Excess(m) <= FrameSize /\ m.locals <= FrameSize
  BY <1>1, <1>2, BoundsAssumption, FrameAssumption
<1> QED BY <1>1, <1>2, <1>3, StackOf, OperandsStack

(* The same after a step.                                                  *)
LEMMA OperandsTypedNext ==
  ASSUME MachineInductive', Running'
  PROVE  /\ Counted(m') /\ m'.locals \in Nat /\ Excess(m') \in Nat /\ m'.locals + Excess(m') <= FrameSize
         /\ Operands' = Stack(m', h') /\ Operands' \in Seq(Val) /\ Len(Operands') = Excess(m')
<1>1. Counted(m') /\ Carries(m', m'.used, h') /\ m'.locals <= MaxLocals /\ Excess(m') <= MaxExcess
  <2>1. Counted(m')
    BY DEF MachineInductive, Inductive, TypeOK, Counted, RegisterBudget, FrameLayout
  <2> QED BY <2>1 DEF MachineInductive, Running, OnTop, WithinBounds
<1>2. m'.locals \in Nat /\ Excess(m') \in Nat
  BY <1>1, CountedTyped
<1>3. m'.locals + Excess(m') <= FrameSize
  BY <1>1, <1>2, BoundsAssumption, FrameAssumption
<1>4. Operands' = Stack(m', h')
  BY DEF Operands, Stack, Operand, Excess
<1> QED BY <1>1, <1>2, <1>3, <1>4, StackOf

(* Where the compiler is, seen from the abstract function body.            *)
InStatement == mode \in {"rvalue", "declare", "store"}

(* The newest n operands are replaced by those of `new`.                   *)
Replaces(n, new) ==
  /\ n <= Len(Operands)
  /\ Operands' = SubSeq(Operands, 1, Len(Operands) - n) \o new

(* A step of the machine within a statement replaces operands.             *)
LEMMA MovedReplaces ==
  ASSUME MachineInductive, Running, MachineInductive', Running', NEW g, NEW n \in Nat, NEW new \in Seq(Val),
         NEW q \in Nat, q = Len(new), NEW y, Moved(m, h, m', h', g, n, q, y),
         \A j \in 1 .. q : h'.fpu[q - j] = new[j],
         \A j \in 1 .. Excess(m) - n : m.locals + j - 1 # y
  PROVE  Replaces(n, new)
<1>1. /\ Operands \in Seq(Val) /\ Len(Operands) = Excess(m) /\ Operands = Stack(m, h)
      /\ Operands' \in Seq(Val) /\ Len(Operands') = Excess(m') /\ Operands' = Stack(m', h')
      /\ Excess(m) \in Nat
  BY OperandsTyped, OperandsTypedNext, OperandsStack
<1> DEFINE e == Excess(m)
           s == Operands
           u == Operands'
<1>2. /\ n <= e /\ Excess(m') = (e - n) + q
      /\ \A j \in 1 .. e - n : u[j] = s[j]
      /\ \A j \in 1 .. q : u[(e - n) + j] = new[j]
  BY <1>1 DEF Moved
<1>3. s \in Seq(Val) /\ u \in Seq(Val) /\ Len(s) = e /\ Len(u) = (e - n) + q
  BY <1>1, <1>2
<1> HIDE DEF s, u, e
<1>4. u = SubSeq(s, 1, Len(s) - n) \o new
  <2>1. /\ s \in Seq(Val) /\ u \in Seq(Val) /\ new \in Seq(Val) /\ n \in Nat /\ n <= Len(s)
        /\ Len(u) = (Len(s) - n) + Len(new)
        /\ \A j \in 1 .. Len(s) - n : u[j] = s[j]
        /\ \A j \in 1 .. Len(new) : u[(Len(s) - n) + j] = new[j]
    BY <1>2, <1>3
  <2> QED BY ONLY <2>1, Replaced
<1> QED BY <1>2, <1>3, <1>4 DEF Replaces, s, u

(* The local variables stay, but for the one in slot y.                    *)
LEMMA MovedLocals ==
  ASSUME MachineInductive, Running, NEW g, NEW n, NEW q, NEW y, Moved(m, h, m', h', g, n, q, y)
  PROVE  /\ DOMAIN Locals = 1 .. m.locals /\ DOMAIN Locals' = 1 .. m.locals
         /\ \A x \in 1 .. m.locals : x - 1 # y => Locals'[x] = Locals[x]
         /\ (\A x \in 1 .. m.locals : x - 1 # y) => Locals' = Locals
<1>1. m.locals \in Nat
  BY OperandsTyped
<1>2. m'.locals = m.locals /\ \A x \in 0 .. m.locals - 1 : x # y => h'.frame[x] = h.frame[x]
  BY DEF Moved
<1>3. \A x \in 1 .. m.locals : x - 1 \in 0 .. m.locals - 1
  BY <1>1
<1> QED BY <1>2, <1>3 DEF Locals

(* A step within a statement that replaces operands.                       *)
LEMMA ReplaceMaps ==
  ASSUME InStatement, InStatement', brackets' = brackets, NEW n, NEW new, Replaces(n, new)
  PROVE  Abstract!Replace(n, new) /\ Abstract!Holds(n) /\ Phase = "running"
<1>1. Phase = "running" /\ Phase' = "running" /\ Results = <<>> /\ Results' = <<>>
  BY DEF InStatement, Phase, Results
<1>2. n <= Len(Operands) => Len(Operands) >= n
  OBVIOUS
<1> QED BY <1>1, <1>2 DEF Abstract!Replace, Abstract!Holds, Replaces, Phase

-----------------------------------------------------------------------------
(* The instructions with a fixed footprint.                                *)

(* What they do to the operand stack, once it is known what they leave on   *)
(* the registers.                                                          *)
LEMMA DoneReplaces ==
  ASSUME MachineInductive, NEW e, NEW c, NEW p, NEW k, NEW y, y = -1, Done(e, c, p, k, y)
  PROVE  /\ MachineInductive' /\ Running /\ Running' /\ Locals' = Locals
         /\ \A i \in 0 .. c - 1 : After(e).fpu[i] = Abstract!Top(i) /\ Abstract!Top(i) \in Val
         /\ \A new \in Seq(Val) :
              Len(new) = p /\ (\A j \in 1 .. p : h'.fpu[p - j] = new[j])
                => Abstract!Replace(c, new) /\ Abstract!Holds(c) /\ Phase = "running"
<1>1. MachineInductive'
  BY DoneKeeps
<1>2. /\ Running /\ Running' /\ InStatement /\ InStatement' /\ brackets' = brackets
      /\ m' = Adjusted(m, c, p, k)
  BY DEF Done, OperateReady, Operate, InBody, AfterOperation, Running, InStatement, ApplyEffect
<1>3. Servable(m, c, p, k) /\ Ready(Balanced(m, c, k), c, k, After(e))
      /\ Executes(After(e), Balanced(m, c, k).frameClobbered, c, p, y, h')
  BY OperateServed DEF Done
<1>4. c \in Nat /\ p \in Nat /\ k \in Nat
  BY <1>3 DEF Servable
<1>5. /\ Counted(m) /\ m.locals \in Nat /\ Excess(m) \in Nat /\ m.locals + Excess(m) <= FrameSize
      /\ Operands \in Seq(Val) /\ Len(Operands) = Excess(m) /\ Operands = Stack(m, h)
  BY <1>2, OperandsTyped, OperandsStack
<1> DEFINE g == After(e)
<1>6. Ready(Balanced(m, c, k), c, k, g) /\ Executes(g, Balanced(m, c, k).frameClobbered, c, p, y, h')
  BY <1>3
<1> HIDE DEF g
<1>7. Moved(m, h, m', h', g, c, p, y)
  <2>1. c <= c /\ p = p + (c - c)
    BY <1>4
  <2>2. Moved(m, h, Adjusted(m, c, p, k), h', g, c, p, y)
    BY <2>1, <1>3, <1>4, <1>5, <1>6, InstructionMoves
  <2> QED BY <2>2, <1>2
<1>8. \A j \in 1 .. Excess(m) - c : m.locals + j - 1 # y
  BY <1>5
<1>9. \A x \in 1 .. m.locals : x - 1 # y
  BY <1>5
<1>10. Locals' = Locals
  BY <1>2, <1>7, <1>9, MovedLocals
<1>11. \A i \in 0 .. c - 1 : g.fpu[i] = Operands[Len(Operands) - i] /\ Operands[Len(Operands) - i] \in Val
  <2>1. c <= Excess(m) /\ \A i \in 0 .. c - 1 : g.fpu[i] = Stack(m, h)[Excess(m) - i]
    BY <1>7 DEF Moved
  <2>2. \A i \in 0 .. c - 1 : Excess(m) - i \in 1 .. Excess(m)
    BY <2>1, <1>4, <1>5
  <2>3. \A j \in 1 .. Len(Operands) : Operands[j] \in Val
    BY <1>5, ElementOfSeq
  <2> QED BY <2>1, <2>2, <2>3, <1>5
<1>12. ASSUME NEW new \in Seq(Val), Len(new) = p, \A j \in 1 .. p : h'.fpu[p - j] = new[j]
       PROVE  Abstract!Replace(c, new) /\ Abstract!Holds(c) /\ Phase = "running"
  <2>1. Replaces(c, new)
    BY <1>1, <1>2, <1>4, <1>7, <1>8, <1>12, MovedReplaces
  <2> QED BY <2>1, <1>2, ReplaceMaps
<1> QED BY <1>1, <1>2, <1>10, <1>11, <1>12 DEF g, Abstract!Top

(* One or two results.                                                     *)
LEMMA Lists ==
  /\ \A v \in Val : <<v>> \in Seq(Val) /\ Len(<<v>>) = 1 /\ <<v>>[1] = v
  /\ \A v, w \in Val : <<v, w>> \in Seq(Val) /\ Len(<<v, w>>) = 2 /\ <<v, w>>[1] = v /\ <<v, w>>[2] = w
  OBVIOUS

(* An instruction that leaves one value.                                   *)
LEMMA OneLeft ==
  ASSUME MachineInductive, NEW e, NEW c, NEW k, NEW y, y = -1, Done(e, c, 1, k, y), NEW v \in Val, h'.fpu[0] = v
  PROVE  Abstract!Replace(c, <<v>>) /\ Abstract!Holds(c) /\ Phase = "running" /\ Locals' = Locals
<1> DEFINE new == <<v>>  p == 1
<1>1. new \in Seq(Val) /\ Len(new) = p /\ \A j \in 1 .. p : h'.fpu[p - j] = new[j]
  BY Lists
<1>2. Done(e, c, p, k, y)
  OBVIOUS
<1> HIDE DEF new, p
<1>3. Abstract!Replace(c, new) /\ Abstract!Holds(c) /\ Phase = "running" /\ Locals' = Locals
  BY <1>1, <1>2, DoneReplaces
<1> QED BY <1>3 DEF new

(* An instruction that leaves two values.                                  *)
LEMMA TwoLeft ==
  ASSUME MachineInductive, NEW e, NEW c, NEW k, NEW y, y = -1, Done(e, c, 2, k, y), NEW v \in Val, NEW w \in Val,
         h'.fpu[1] = v, h'.fpu[0] = w
  PROVE  Abstract!Replace(c, <<v, w>>) /\ Abstract!Holds(c) /\ Phase = "running" /\ Locals' = Locals
<1> DEFINE new == <<v, w>>  p == 2
<1>1. new \in Seq(Val) /\ Len(new) = p /\ \A j \in 1 .. p : h'.fpu[p - j] = new[j]
  <2>1. new \in Seq(Val) /\ Len(new) = p /\ new[1] = v /\ new[2] = w
    BY Lists
  <2>2. \A j \in 1 .. p : j = 1 \/ j = 2
    OBVIOUS
  <2> HIDE DEF new
  <2> QED BY <2>1, <2>2
<1>2. Done(e, c, p, k, y)
  OBVIOUS
<1> HIDE DEF new, p
<1>3. Abstract!Replace(c, new) /\ Abstract!Holds(c) /\ Phase = "running" /\ Locals' = Locals
  BY <1>1, <1>2, DoneReplaces
<1> QED BY <1>3 DEF new

(* Local variables are numbers.                                            *)
LEMMA LocalsTyped ==
  ASSUME MachineInductive, Running
  PROVE  /\ DOMAIN Locals = 1 .. m.locals
         /\ \A x \in LocalSlots : /\ x \in Nat /\ x \in Slots /\ x + 1 \in DOMAIN Locals
                                  /\ Locals[x + 1] = h.frame[x] /\ h.frame[x] \in Val
<1>1. /\ Counted(m) /\ m.locals \in Nat /\ m.locals <= FrameSize
  BY OperandsTyped
<1>2. Holding(h, m.used, m.frameUsed, m.frameClobbered)
  BY DEF MachineInductive, Running, OnTop, Carries
<1>3. m.used \in Nat /\ m.frameUsed \in Nat /\ m.frameClobbered \in Nat /\ m.locals <= m.frameUsed
  BY <1>1, CountedTyped
<1>4. \A x \in Slots : x < m.frameUsed => h.frame[x] \in Val
  BY <1>2, <1>3, HoldingParts
<1>5. ASSUME NEW x \in LocalSlots
      PROVE  /\ x \in Nat /\ x \in Slots /\ x < m.frameUsed
             /\ x + 1 \in 1 .. m.locals /\ (x + 1) - 1 = x
  BY <1>1, <1>3, RegistersTyped DEF LocalSlots
<1>6. DOMAIN Locals = 1 .. m.locals /\ \A z \in 1 .. m.locals : Locals[z] = h.frame[z - 1]
  BY DEF Locals
<1> QED BY <1>4, <1>5, <1>6

(* A constant loaded is a value pushed.                                    *)
LEMMA ConstMaps ==
  ASSUME MachineInductive, NEW v \in Val, Const(v)
  PROVE  Abstract!Push
<1> DEFINE e == <<0, 1>>  c == 0  k == 1  y == -1
<1>1. Done(e, c, 1, k, y) /\ h'.fpu[0] = v /\ y = -1
  BY ConstDone
<1> HIDE DEF e, c, k, y
<1>2. Abstract!Replace(c, <<v>>) /\ Locals' = Locals
  BY <1>1, OneLeft
<1> QED BY <1>2 DEF Abstract!Push, Locals, c

(* fld of a local variable pushes its value.                               *)
LEMMA LoadMaps ==
  ASSUME MachineInductive, NEW x \in LocalSlots, Load(x)
  PROVE  Abstract!Load
<1> DEFINE e == <<0, 1>>  c == 0  k == 1  y == -1  v == h.frame[x]
<1>1. Done(e, c, 1, k, y) /\ h'.fpu[0] = v /\ y = -1
  BY LoadDone
<1> HIDE DEF e, c, k, y
<1>2. Running
  BY <1>1, DoneReplaces
<1>3. x + 1 \in DOMAIN Locals /\ Locals[x + 1] = v /\ v \in Val
  BY <1>2, LocalsTyped
<1>4. Abstract!Replace(c, <<v>>) /\ Locals' = Locals
  BY <1>1, <1>3, OneLeft
<1> HIDE DEF v
<1>5. \E z \in DOMAIN Locals : Abstract!Replace(c, <<Locals[z]>>)
  BY <1>3, <1>4
<1> QED BY <1>4, <1>5 DEF Abstract!Load, Locals, c

(* fchs, fabs, fsqrt and the like replace the newest operand.              *)
LEMMA ApplyMaps ==
  ASSUME MachineInductive, UnaryOp
  PROVE  Abstract!Apply
<1> DEFINE e == <<1, 1>>  c == 1  k == 1  y == -1  a == After(e).fpu[0]  v == Unary(a)
<1>1. Done(e, c, 1, k, y) /\ h'.fpu[0] = v /\ y = -1
  BY UnaryDone
<1>2. 0 \in 0 .. c - 1
  OBVIOUS
<1> HIDE DEF e, c, k, y
<1>3. a = Abstract!Top(0) /\ a \in Val
  BY <1>1, <1>2, DoneReplaces
<1> HIDE DEF a
<1>4. v \in Val
  BY <1>3, ValuesAssumption
<1> HIDE DEF v
<1>5. Abstract!Replace(c, <<v>>) /\ Abstract!Holds(c) /\ Locals' = Locals
  BY <1>1, <1>4, OneLeft
<1>6. v = Unary(Abstract!Top(0))
  BY <1>3 DEF v
<1> QED BY <1>5, <1>6 DEF Abstract!Apply, Locals, c

(* fadd, fsub and the like with a local variable in memory.                *)
LEMMA ApplyLocalMaps ==
  ASSUME MachineInductive, NEW x \in LocalSlots, MemoryOp(x)
  PROVE  Abstract!ApplyLocal
<1> DEFINE e == <<1, 1>>  c == 1  k == 1  y == -1  a == After(e).fpu[0]  w == h.frame[x]  v == Binary(a, w)
<1>1. Done(e, c, 1, k, y) /\ h'.fpu[0] = v /\ y = -1
  BY MemoryDone
<1>2. 0 \in 0 .. c - 1
  OBVIOUS
<1> HIDE DEF e, c, k, y
<1>3. a = Abstract!Top(0) /\ a \in Val /\ Running
  BY <1>1, <1>2, DoneReplaces
<1>4. x + 1 \in DOMAIN Locals /\ Locals[x + 1] = w /\ w \in Val
  BY <1>3, LocalsTyped
<1> HIDE DEF a, w
<1>5. v \in Val
  BY <1>3, <1>4, ValuesAssumption
<1> HIDE DEF v
<1>6. Abstract!Replace(c, <<v>>) /\ Abstract!Holds(c) /\ Locals' = Locals
  BY <1>1, <1>5, OneLeft
<1>7. v = Binary(Abstract!Top(0), Locals[x + 1])
  BY <1>3, <1>4 DEF v
<1>8. \E z \in DOMAIN Locals : Abstract!Replace(c, <<Binary(Abstract!Top(0), Locals[z])>>)
  BY <1>4, <1>6, <1>7
<1> QED BY <1>6, <1>8 DEF Abstract!ApplyLocal, Locals, c

(* fxch exchanges the two newest operands.                                 *)
LEMMA ExchangeMaps ==
  ASSUME MachineInductive, Fxch
  PROVE  Abstract!Exchange
<1> DEFINE e == <<2, 2>>  c == 2  k == 2  y == -1  a == After(e).fpu[0]  b == After(e).fpu[1]
<1>1. Done(e, c, 2, k, y) /\ h'.fpu[0] = b /\ h'.fpu[1] = a /\ y = -1
  BY FxchDone
<1>2. 0 \in 0 .. c - 1 /\ 1 \in 0 .. c - 1
  OBVIOUS
<1> HIDE DEF e, c, k, y
<1>3. a = Abstract!Top(0) /\ a \in Val /\ b = Abstract!Top(1) /\ b \in Val
  BY <1>1, <1>2, DoneReplaces
<1> HIDE DEF a, b
<1>4. Abstract!Replace(c, <<a, b>>) /\ Abstract!Holds(c) /\ Locals' = Locals
  BY <1>1, <1>3, TwoLeft
<1> QED BY <1>3, <1>4 DEF Abstract!Exchange, Locals, c

(* fprem and the like leave ST(1) where it is: one value is replaced.      *)
LEMMA CombineMaps ==
  ASSUME MachineInductive, CombineOp
  PROVE  Abstract!Combine
<1> DEFINE e == <<2, 2>>  c == 2  k == 2  y == -1  a == After(e).fpu[0]  b == After(e).fpu[1]
           v == Binary(a, b)
<1>1. Done(e, c, 2, k, y) /\ h'.fpu[0] = v /\ h'.fpu[1] = b /\ y = -1
  BY CombineDone
<1>2. 0 \in 0 .. c - 1 /\ 1 \in 0 .. c - 1
  OBVIOUS
<1> HIDE DEF e, c, k, y
<1>3. a = Abstract!Top(0) /\ a \in Val /\ b = Abstract!Top(1) /\ b \in Val /\ Running
  BY <1>1, <1>2, DoneReplaces
<1> HIDE DEF a, b
<1>4. v \in Val
  BY <1>3, ValuesAssumption
<1>5. v = Binary(Abstract!Top(0), Abstract!Top(1))
  BY <1>3
<1> HIDE DEF v
<1>6. Abstract!Replace(c, <<b, v>>) /\ Abstract!Holds(c) /\ Locals' = Locals
  BY <1>1, <1>3, <1>4, TwoLeft
<1>7. Abstract!Replace(1, <<v>>)
  <2>1. Operands \in Seq(Val) /\ 2 <= Len(Operands) /\ b = Operands[Len(Operands) - 1]
    <3>1. Operands \in Seq(Val) /\ b = Operands[Len(Operands) - 1]
      BY <1>3, OperandsTyped DEF Abstract!Top
    <3>2. 2 <= Len(Operands)
      BY <1>6, <3>1 DEF Abstract!Holds, c
    <3> QED BY <3>1, <3>2
  <2> DEFINE s == Operands
  <2>2. SubSeq(s, 1, Len(s) - 2) \o <<b, v>> = SubSeq(s, 1, Len(s) - 1) \o <<v>>
    <3>1. s \in Seq(Val) /\ b \in Val /\ v \in Val /\ 2 <= Len(s) /\ b = s[Len(s) - 1]
      BY <2>1, <1>3, <1>4
    <3> HIDE DEF s
    <3> QED BY ONLY <3>1, OneBelow
  <2> QED BY <2>2, <1>6 DEF Abstract!Replace, c
<1> QED BY <1>5, <1>6, <1>7 DEF Abstract!Combine, Locals, c

(* fadd, fsub, fpatan and the like make one operand of two.                *)
LEMMA ReduceMaps ==
  ASSUME MachineInductive, BinaryOp
  PROVE  Abstract!Reduce
<1> DEFINE e == <<2, 1>>  c == 2  k == 2  y == -1  a == After(e).fpu[0]  b == After(e).fpu[1]
           v == Binary(b, a)
<1>1. Done(e, c, 1, k, y) /\ h'.fpu[0] = v /\ y = -1
  BY BinaryDone
<1>2. 0 \in 0 .. c - 1 /\ 1 \in 0 .. c - 1
  OBVIOUS
<1> HIDE DEF e, c, k, y
<1>3. a = Abstract!Top(0) /\ a \in Val /\ b = Abstract!Top(1) /\ b \in Val
  BY <1>1, <1>2, DoneReplaces
<1> HIDE DEF a, b
<1>4. v \in Val
  BY <1>3, ValuesAssumption
<1>5. v = Binary(Abstract!Top(1), Abstract!Top(0))
  BY <1>3
<1> HIDE DEF v
<1>6. Abstract!Replace(c, <<v>>) /\ Abstract!Holds(c) /\ Locals' = Locals
  BY <1>1, <1>4, OneLeft
<1> QED BY <1>5, <1>6 DEF Abstract!Reduce, Locals, c

(* fsincos, fptan and fxtract make two operands of one.                    *)
LEMMA SplitMaps ==
  ASSUME MachineInductive, SplitOp
  PROVE  Abstract!Split
<1> DEFINE e == <<1, 2>>  c == 1  k == 2  y == -1  a == After(e).fpu[0]  v == Unary(a)  w == Second(a)
<1>1. Done(e, c, 2, k, y) /\ h'.fpu[0] = w /\ h'.fpu[1] = v /\ y = -1
  BY SplitDone
<1>2. 0 \in 0 .. c - 1
  OBVIOUS
<1> HIDE DEF e, c, k, y
<1>3. a = Abstract!Top(0) /\ a \in Val
  BY <1>1, <1>2, DoneReplaces
<1> HIDE DEF a
<1>4. v \in Val /\ w \in Val
  BY <1>3, ValuesAssumption
<1>5. v = Unary(Abstract!Top(0)) /\ w = Second(Abstract!Top(0))
  BY <1>3
<1> HIDE DEF v, w
<1>6. Abstract!Replace(c, <<v, w>>) /\ Abstract!Holds(c) /\ Locals' = Locals
  BY <1>1, <1>4, TwoLeft
<1> QED BY <1>5, <1>6 DEF Abstract!Split, Locals, c

-----------------------------------------------------------------------------
(* The instructions that reach for an operand where it is.                 *)

(* Operands after a step that asked for c and p of k, of which it took n   *)
(* and left q.                                                             *)
LEMMA DoesMoves ==
  ASSUME MachineInductive, Running, NEW c, NEW p, NEW k, Servable(m, c, p, k),
         Ready(Balanced(m, c, k), c, k, SpillCode(c, k)), m' = Adjusted(m, c, p, k),
         NEW n \in Nat, NEW q \in Nat, n <= c, p = q + (c - n), NEW y,
         Executes(SpillCode(c, k), Balanced(m, c, k).frameClobbered, n, q, y, h')
  PROVE  Moved(m, h, m', h', SpillCode(c, k), n, q, y)
<1>1. Counted(m) /\ m.locals + Excess(m) <= FrameSize
  BY OperandsTyped
<1> QED BY <1>1, InstructionMoves

(* The newest operand but i.                                               *)
LEMMA OperandTop ==
  ASSUME MachineInductive, Running, NEW i \in Nat, i < Excess(m)
  PROVE  /\ Abstract!Top(i) = Stack(m, h)[Excess(m) - i] /\ Abstract!Top(i) \in Val
         /\ Excess(m) - i \in 1 .. Excess(m)
<1>1. Operands \in Seq(Val) /\ Len(Operands) = Excess(m) /\ Operands = Stack(m, h) /\ Excess(m) \in Nat
  BY OperandsTyped, OperandsStack
<1>2. Excess(m) - i \in 1 .. Excess(m)
  BY <1>1
<1>3. \A j \in 1 .. Len(Operands) : Operands[j] \in Val
  BY <1>1, ElementOfSeq
<1> QED BY <1>1, <1>2, <1>3 DEF Abstract!Top

(* A spilled operand is in the frame, at the offset the monitor says.      *)
LEMMA FarOperand ==
  ASSUME MachineInductive, Running, NEW i \in {0, 1}, i < Excess(m), ~ Near(m, i)
  PROVE  h.frame[FarOffset(m, i)] = Abstract!Top(i)
<1> DEFINE e == Excess(m)  used == m.used  slots == m.frameUsed  base == m.locals  j == e - i
<1>1. Counted(m) /\ i \in Nat /\ j \in 1 .. e /\ Abstract!Top(i) = Stack(m, h)[j]
  BY OperandsTyped, OperandTop
<1>2. used \in Nat /\ slots \in Nat /\ base \in Nat /\ e = (slots - base) + used
  BY <1>1, CountedTyped
<1>3. ~ (i < used) /\ FarOffset(m, i) = (slots + used) - (i + 1)
  BY DEF Near, FarOffset
<1>4. Stack(m, h)[j] = Operand(h, used, slots, base, j)
  BY <1>1 DEF Stack
<1> DEFINE x == FarOffset(m, i)
<1>5. j = ((slots - base) + used) - i /\ x = (slots + used) - (i + 1)
  BY <1>2, <1>3
<1> HIDE DEF e, used, slots, base, j, x
<1>6. j <= slots - base /\ base + j - 1 = x
  BY <1>1, <1>2, <1>3, <1>5
<1> QED BY <1>1, <1>4, <1>6 DEF Operand, x

(* fld st(i).                                                              *)
LEMMA CopyMaps ==
  ASSUME MachineInductive, NEW i \in {0, 1}, FldSt(i), [Next]_vars
  PROVE  Abstract!Copy(i)
<1> DEFINE d == DupEffect(m, i)  c == d[1]  p == d[2]  k == Footprint(d)  g == SpillCode(c, k)
<1>1. /\ Fetches(i) /\ Running /\ Running' /\ i < Excess(m) /\ MachineInductive' /\ i \in Nat
      /\ InStatement /\ InStatement' /\ brackets' = brackets
  <2>1. /\ Fetches(i) /\ Running /\ Running' /\ i < Excess(m) /\ MachineInductive'
    BY FldKeeps
  <2> QED BY <2>1 DEF FldSt, Dup, InBody, InStatement
<1>2. /\ Servable(m, c, p, k) /\ Ready(Balanced(m, c, k), c, k, g) /\ m' = Adjusted(m, c, p, k) /\ p = c + 1
      /\ Executes(g, Balanced(m, c, k).frameClobbered, c, p, -1, h')
      /\ Executes(g, Balanced(m, c, k).frameClobbered, 0, 1, -1, h')
      /\ Near(m, i) => h'.fpu[0] = g.fpu[i] /\ c = i + 1
      /\ ~ Near(m, i) => h'.fpu[0] = h.frame[FarOffset(m, i)]
  BY <1>1 DEF Fetches, Does, DupEffect
<1>3. c \in Nat /\ p \in Nat
  BY <1>2 DEF Servable
<1> DEFINE v == Abstract!Top(i)  y == -1  none == 0  one == 1
<1>4. v \in Val /\ v = Stack(m, h)[Excess(m) - i] /\ y = -1
  BY <1>1, OperandTop
<1> HIDE DEF c, p, k, v, y
<1>5. Moved(m, h, m', h', g, none, one, y)
  <2>1. none \in Nat /\ one \in Nat /\ none <= c /\ p = one + (c - none) /\ Executes(g, Balanced(m, c, k).frameClobbered, none, one, y, h')
    BY <1>2, <1>3, <1>4
  <2> HIDE DEF none, one
  <2> QED BY <2>1, <1>1, <1>2, DoesMoves
<1>6. h'.fpu[0] = v
  <2>1. CASE Near(m, i)
    <3>1. Moved(m, h, m', h', g, c, p, y)
      <4>1. c <= c /\ p = p + (c - c) /\ Executes(g, Balanced(m, c, k).frameClobbered, c, p, y, h')
        BY <1>2, <1>3, <1>4
      <4> QED BY <4>1, <1>1, <1>2, <1>3, DoesMoves
    <3>2. i \in 0 .. c - 1
      BY <2>1, <1>1, <1>2
    <3>3. g.fpu[i] = Stack(m, h)[Excess(m) - i]
      BY <3>1, <3>2 DEF Moved
    <3> QED BY <2>1, <3>3, <1>2, <1>4
  <2>2. CASE ~ Near(m, i)
    BY <2>2, <1>1, <1>2, FarOperand DEF v
  <2> QED BY <2>1, <2>2
<1>7. /\ Operands \in Seq(Val) /\ Len(Operands) = Excess(m) /\ m.locals \in Nat /\ Excess(m) \in Nat
  BY <1>1, OperandsTyped
<1> DEFINE new == <<v>>
<1>8. new \in Seq(Val) /\ Len(new) = one /\ new[1] = v
  BY <1>4, Lists
<1>9. Replaces(none, new)
  <2>1. /\ none \in Nat /\ one \in Nat /\ one = Len(new)
        /\ \A j \in 1 .. one : h'.fpu[one - j] = new[j]
        /\ \A j \in 1 .. Excess(m) - none : m.locals + j - 1 # y
    BY <1>4, <1>6, <1>7, <1>8
  <2> HIDE DEF none, one, new, g
  <2>2. /\ MachineInductive /\ Running /\ MachineInductive' /\ Running' /\ new \in Seq(Val)
        /\ Moved(m, h, m', h', g, none, one, y)
    BY <1>1, <1>5, <1>8
  <2> QED BY ONLY <2>1, <2>2, MovedReplaces
<1>10. Abstract!Replace(0, <<v>>)
  <2> HIDE DEF new
  <2>1. Abstract!Replace(none, new)
    BY <1>1, <1>9, ReplaceMaps
  <2> QED BY <2>1 DEF new
<1>11. Locals' = Locals
  <2>1. \A x \in 1 .. m.locals : x - 1 # y
    BY <1>4, <1>7
  <2> HIDE DEF none, one
  <2> QED BY <2>1, <1>1, <1>5, MovedLocals
<1>12. Abstract!Holds(i + 1)
  BY <1>1, <1>7 DEF Abstract!Holds
<1> QED BY <1>10, <1>11, <1>12 DEF Abstract!Copy, Locals, v

(* A value popped from the registers was the newest operand.               *)
LEMMA PopTakes ==
  ASSUME MachineInductive, Running, NEW y, Does(1, 0, 1, y), m' = Adjusted(m, 1, 0, 1)
  PROVE  /\ Moved(m, h, m', h', SpillCode(1, 1), 1, 0, y)
         /\ SpillCode(1, 1).fpu[0] = Abstract!Top(0) /\ Abstract!Top(0) \in Val
<1> DEFINE c == 1  p == 0  k == 1  g == SpillCode(c, k)
<1>1. /\ Servable(m, c, p, k) /\ Ready(Balanced(m, c, k), c, k, g) /\ m' = Adjusted(m, c, p, k)
      /\ Executes(g, Balanced(m, c, k).frameClobbered, c, p, y, h')
      /\ c \in Nat /\ p \in Nat /\ c <= c /\ p = p + (c - c)
  BY DEF Does
<1> HIDE DEF c, p, k
<1>2. Moved(m, h, m', h', g, c, p, y)
  BY <1>1, DoesMoves
<1>3. Moved(m, h, m', h', SpillCode(1, 1), 1, 0, y)
  BY <1>2 DEF c, p, k
<1>4. Excess(m) \in Nat /\ 0 < Excess(m)
  BY <1>3, OperandsTyped DEF Moved
<1>5. SpillCode(1, 1).fpu[0] = Stack(m, h)[Excess(m) - 0]
  <2>1. 0 \in 0 .. 1 - 1
    OBVIOUS
  <2> QED BY <1>3, <2>1 DEF Moved
<1>6. Abstract!Top(0) = Stack(m, h)[Excess(m) - 0] /\ Abstract!Top(0) \in Val
  BY <1>4, OperandTop
<1> QED BY <1>3, <1>5, <1>6

(* Popping it drops that operand and no other.                             *)
LEMMA PopReplaces ==
  ASSUME MachineInductive, Running, InStatement, MachineInductive', Running', InStatement', brackets' = brackets,
         NEW y, Does(1, 0, 1, y), m' = Adjusted(m, 1, 0, 1),
         \A j \in 1 .. Excess(m) - 1 : m.locals + j - 1 # y
  PROVE  Abstract!Replace(1, <<>>) /\ Abstract!Holds(1)
<1> DEFINE n == 1  q == 0  new == <<>>  g == SpillCode(1, 1)
<1>1. Moved(m, h, m', h', g, n, q, y)
  BY PopTakes
<1>2. /\ n \in Nat /\ q \in Nat /\ new \in Seq(Val) /\ q = Len(new)
      /\ \A j \in 1 .. q : h'.fpu[q - j] = new[j]
      /\ \A j \in 1 .. Excess(m) - n : m.locals + j - 1 # y
  OBVIOUS
<1> HIDE DEF n, q, new, g
<1>3. Replaces(n, new)
  BY <1>1, <1>2, MovedReplaces
<1>4. Abstract!Replace(n, new) /\ Abstract!Holds(n)
  BY <1>3, ReplaceMaps
<1> QED BY <1>4 DEF n, new

(* fstp st(0), and a value of an assignment or a declaration bound to no   *)
(* name.                                                                   *)
LEMMA DropMaps ==
  ASSUME MachineInductive, FstpSt(0), [Next]_vars
  PROVE  Abstract!Discard
<1> DEFINE i == 0  x == FarOffset(m, i)  y == IF Near(m, i) THEN -1 ELSE x
<1>1. i \in {0, 1} /\ FstpSt(i) /\ i = 0
  OBVIOUS
<1> HIDE DEF i
<1>2. /\ Overwrites(i) /\ Running /\ Running' /\ i < Excess(m) /\ MachineInductive'
      /\ InStatement /\ InStatement' /\ brackets' = brackets
  <2>1. /\ Overwrites(i) /\ Running /\ Running' /\ i < Excess(m) /\ MachineInductive'
    BY <1>1, FstpKeeps
  <2> QED BY <2>1, <1>1 DEF FstpSt, Drop, InBody, InStatement, AfterOperation
<1>3. Does(1, 0, 1, y) /\ m' = Adjusted(m, 1, 0, 1)
  <2> DEFINE d == DropEffect(m, i)
  <2>1. d = <<1, 0>> /\ Does(1, 0, 1, y) /\ m' = Adjusted(m, d[1], d[2], Footprint(d))
    BY <1>1, <1>2 DEF Overwrites
  <2> HIDE DEF d
  <2>2. d[1] = 1 /\ d[2] = 0 /\ Footprint(d) = 1
    BY <2>1 DEF Footprint, Larger
  <2> QED BY <2>1, <2>2
<1>4. /\ m.locals \in Nat /\ Excess(m) \in Nat /\ Counted(m)
      /\ m.used \in Nat /\ m.frameUsed \in Nat /\ Excess(m) = (m.frameUsed - m.locals) + m.used
  BY <1>2, OperandsTyped, CountedTyped
<1>5. y < m.locals \/ y >= m.locals + (Excess(m) - 1)
  <2>1. CASE Near(m, i)
    BY <2>1, <1>4
  <2>2. CASE ~ Near(m, i)
    <3>1. y = (m.frameUsed + m.used) - 1
      BY <2>2, <1>1 DEF FarOffset
    <3> QED BY <3>1, <1>4
  <2> QED BY <2>1, <2>2
<1>6. y = -1 \/ y >= m.locals
  <2>1. CASE ~ Near(m, i)
    BY <2>1, <1>1, <1>2, FarSlot
  <2> QED BY <2>1
<1>7. y \in Int
  <2>1. CASE ~ Near(m, i)
    BY <2>1, <1>1, <1>2, FarSlot, RegistersTyped
  <2> QED BY <2>1
<1> HIDE DEF y, x
<1>8. \A j \in 1 .. Excess(m) - 1 : m.locals + j - 1 # y
  BY <1>4, <1>5, <1>7
<1>9. \A z \in 1 .. m.locals : z - 1 # y
  BY <1>4, <1>6, <1>7
<1>10. Abstract!Replace(1, <<>>) /\ Abstract!Holds(1)
  BY <1>2, <1>3, <1>8, PopReplaces
<1>11. Locals' = Locals
  BY <1>2, <1>3, <1>9, PopTakes, MovedLocals
<1> QED BY <1>10, <1>11 DEF Abstract!Discard, Locals

(* A value bound to no name is dropped.                                    *)
LEMMA DummyMaps ==
  ASSUME MachineInductive, AssignDummy \/ DeclareDummy, [Next]_vars
  PROVE  Abstract!Discard
<1> DEFINE y == -1
<1>1. Does(1, 0, 1, y) /\ MachineInductive' /\ y = -1
  BY DummyKeeps
<1>2. /\ Running /\ Running' /\ InStatement /\ InStatement' /\ brackets' = brackets /\ 1 <= Excess(m)
      /\ m' = ApplyEffect(m, <<1, 0>>)
  BY DEF AssignDummy, DeclareDummy, Store, AllocaDummy, Declaring, AfterDeclaration, InBody, Running, InStatement
<1>3. m' = Adjusted(m, 1, 0, 1)
  BY <1>2, PopServed
<1> HIDE DEF y
<1>4. m.locals \in Nat /\ Excess(m) \in Nat
  BY <1>2, OperandsTyped
<1>5. \A j \in 1 .. Excess(m) - 1 : m.locals + j - 1 # y
  BY <1>1, <1>4
<1>6. \A z \in 1 .. m.locals : z - 1 # y
  BY <1>1, <1>4
<1>7. Abstract!Replace(1, <<>>) /\ Abstract!Holds(1)
  BY <1>1, <1>2, <1>3, <1>5, PopReplaces
<1>8. Locals' = Locals
  BY <1>1, <1>2, <1>3, <1>6, PopTakes, MovedLocals
<1> QED BY <1>7, <1>8 DEF Abstract!Discard, Locals

(* When at most one operand is on the registers, one is there to be popped. *)
LEMMA OneOnTop ==
  ASSUME MachineInductive, Running, 1 <= Excess(m), m.used <= 1
  PROVE  Balanced(m, 1, 1).used = 1
<1> DEFINE c == 1  p == 0  k == 1  b == Balanced(m, c, k)
<1>1. /\ Counted(m) /\ m.used \in Nat /\ DEPTH \in Nat /\ DEPTH >= 3
      /\ Servable(m, c, p, k) /\ c \in Nat /\ k \in Nat /\ m.used <= c
  <2>1. Counted(m)
    BY OperandsTyped
  <2> QED BY <2>1, CountedTyped, DepthAssumption, PopServed
<1>2. CASE m.used = 1
  <2>1. c <= m.used /\ (m.used - c) + k <= DEPTH
    BY <1>1, <1>2
  <2> HIDE DEF c, k
  <2>2. b = m
    BY <2>1, <1>1, NothingMoves
  <2> QED BY <2>2, <1>2 DEF b, c, k
<1>3. CASE m.used = 0
  <2>1. Deficient(m, c) /\ ~ Overfull(m, c, k)
    BY <1>1, <1>3 DEF Deficient, Overfull
  <2>2. b = Reloaded(m, m.frameUsed - Shortage(m, c), Shortage(m, c))
    BY <2>1 DEF Balanced
  <2> HIDE DEF b, c, p, k
  <2>3. b.used = c
    BY <2>1, <2>2, <1>1, ReloadedFields
  <2> QED BY <2>3 DEF b, c, k
<1> QED BY <1>1, <1>2, <1>3

(* fstp st(1): the newest operand takes the place of the one below it.     *)
LEMMA SquashMaps ==
  ASSUME MachineInductive, FstpSt(1), [Next]_vars
  PROVE  Abstract!Squash
<1> DEFINE i == 1  v == Abstract!Top(0)  new == <<v>>  two == 2  one == 1
<1>1. i \in {0, 1} /\ FstpSt(i) /\ i = 1
  OBVIOUS
<1> HIDE DEF i
<1>2. /\ Overwrites(i) /\ Running /\ Running' /\ i < Excess(m) /\ MachineInductive'
      /\ InStatement /\ InStatement' /\ brackets' = brackets
  <2>1. /\ Overwrites(i) /\ Running /\ Running' /\ i < Excess(m) /\ MachineInductive'
    BY <1>1, FstpKeeps
  <2> QED BY <2>1, <1>1 DEF FstpSt, Drop, InBody, InStatement, AfterOperation
<1>3. /\ m.locals \in Nat /\ Excess(m) \in Nat /\ Counted(m) /\ 2 <= Excess(m)
      /\ m.used \in Nat /\ m.frameUsed \in Nat /\ Excess(m) = (m.frameUsed - m.locals) + m.used
      /\ Operands \in Seq(Val) /\ Len(Operands) = Excess(m) /\ Operands = Stack(m, h)
      /\ Operands' \in Seq(Val) /\ Len(Operands') = Excess(m') /\ Operands' = Stack(m', h')
  BY <1>1, <1>2, OperandsTyped, OperandsTypedNext, OperandsStack, CountedTyped
<1>4. v \in Val /\ v = Stack(m, h)[Excess(m) - 0]
  BY <1>2, <1>3, OperandTop
<1>5. new \in Seq(Val) /\ Len(new) = one /\ new[1] = v
  BY <1>4, Lists
<1> HIDE DEF v, new
<1>6. ASSUME Near(m, i) PROVE Replaces(two, new) /\ Locals' = Locals
  <2> DEFINE d == DropEffect(m, i)  c == d[1]  p == d[2]  k == Footprint(d)  g == SpillCode(c, k)  y == -1
  <2>1. /\ Does(c, p, k, y) /\ m' = Adjusted(m, c, p, k) /\ 2 <= c /\ c = p + 1 /\ g = h /\ y = -1
        /\ Executes(h, Balanced(m, c, k).frameClobbered, 2, 1, y, h')
        /\ h'.fpu[0] = h.fpu[0]
    BY <1>1, <1>2, <1>6 DEF Overwrites
  <2>2. /\ Servable(m, c, p, k) /\ Ready(Balanced(m, c, k), c, k, g) /\ m' = Adjusted(m, c, p, k)
        /\ Executes(g, Balanced(m, c, k).frameClobbered, two, one, y, h')
        /\ two \in Nat /\ one \in Nat /\ two <= c /\ p = one + (c - two)
    <3>1. Servable(m, c, p, k) /\ Ready(Balanced(m, c, k), c, k, g)
      BY <2>1 DEF Does
    <3>2. c \in Nat /\ p \in Nat
      BY <3>1 DEF Servable
    <3> HIDE DEF c, p, k, g, y
    <3> QED BY <3>1, <3>2, <2>1
  <2> HIDE DEF c, p, k, y, one, two
  <2>3. Moved(m, h, m', h', g, two, one, y)
    BY <1>2, <2>2, DoesMoves
  <2>4. h'.fpu[0] = v
    <3>1. g.fpu[0] = Stack(m, h)[Excess(m) - 0]
      <4>1. 0 \in 0 .. two - 1
        BY DEF two
      <4> QED BY <4>1, <2>3 DEF Moved
    <3> QED BY <3>1, <2>1, <1>4
  <2> HIDE DEF g
  <2>5. /\ \A j \in 1 .. one : h'.fpu[one - j] = new[j]
        /\ \A j \in 1 .. Excess(m) - two : m.locals + j - 1 # y
        /\ \A z \in 1 .. m.locals : z - 1 # y
    BY <2>1, <2>4, <1>3, <1>5 DEF one, two
  <2>6. Replaces(two, new)
    <3>1. /\ MachineInductive /\ Running /\ MachineInductive' /\ Running' /\ new \in Seq(Val) /\ one = Len(new)
          /\ Moved(m, h, m', h', g, two, one, y) /\ two \in Nat /\ one \in Nat
      BY <1>2, <1>5, <2>2, <2>3
    <3> QED BY ONLY <3>1, <2>5, MovedReplaces
  <2>7. Locals' = Locals
    BY <1>2, <2>3, <2>5, MovedLocals
  <2> QED BY <2>6, <2>7
<1>7. ASSUME ~ Near(m, i) PROVE Replaces(two, new) /\ Locals' = Locals
  <2> DEFINE x == FarOffset(m, i)  e == Excess(m)  g == SpillCode(1, 1)
             s == Stack(m, h)  u == Stack(m', h')
  <2>1. /\ Does(1, 0, 1, x) /\ m' = Adjusted(m, 1, 0, 1)
        /\ x < Balanced(m, 1, 1).frameUsed => h'.frame[x] = g.fpu[0]
    <3> DEFINE d == DropEffect(m, i)
    <3>1. /\ d = <<1, 0>> /\ Does(1, 0, 1, x) /\ m' = Adjusted(m, d[1], d[2], Footprint(d))
          /\ x < Balanced(m, 1, 1).frameUsed => h'.frame[x] = g.fpu[0]
      BY <1>1, <1>2, <1>7 DEF Overwrites
    <3> HIDE DEF d
    <3>2. d[1] = 1 /\ d[2] = 0 /\ Footprint(d) = 1
      BY <3>1 DEF Footprint, Larger
    <3> QED BY <3>1, <3>2
  <2>2. /\ x = (m.frameUsed + m.used) - 2 /\ m.used <= 1 /\ m.locals <= x
    <3>1. m.locals <= x
      BY <1>1, <1>2, <1>7, FarSlot
    <3>2. x = (m.frameUsed + m.used) - (1 + 1) /\ ~ (1 < m.used)
      BY <1>1, <1>7 DEF FarOffset, Near
    <3> HIDE DEF x
    <3> QED BY <3>1, <3>2, <1>3
  <2>3. x < Balanced(m, 1, 1).frameUsed
    <3> DEFINE b == Balanced(m, 1, 1)
    <3>1. b.used = 1
      BY <2>2, <1>2, <1>3, OneOnTop
    <3>2. /\ b.frameUsed \in Nat
          /\ (b.frameUsed - m.locals) + b.used = (m.frameUsed - m.locals) + m.used
      BY <2>1 DEF Does, Ready, SpillCodeDone, Keeps
    <3> HIDE DEF b, x
    <3>3. x < b.frameUsed
      <4> DEFINE base == m.locals  used == m.used  slots0 == m.frameUsed  slots == b.frameUsed  top == b.used
      <4>1. /\ base \in Nat /\ used \in Nat /\ slots0 \in Nat /\ slots \in Nat /\ top = 1
            /\ (slots - base) + top = (slots0 - base) + used /\ x = (slots0 + used) - 2
        BY <3>1, <3>2, <2>2, <1>3
      <4> HIDE DEF base, used, slots0, slots, top
      <4>2. x < slots
        BY <4>1
      <4> QED BY <4>2 DEF slots
    <3> QED BY <3>3 DEF b
  <2>4. Moved(m, h, m', h', g, 1, 0, x) /\ g.fpu[0] = v
    BY <1>2, <2>1, PopTakes DEF v
  <2>5. h'.frame[x] = v
    BY <2>1, <2>3, <2>4
  <2>6. /\ Excess(m') = (e - 1) + 0 /\ m'.locals = m.locals
        /\ \A j \in 1 .. e - 1 : m.locals + j - 1 # x => u[j] = s[j]
    BY <2>4 DEF Moved
  <2>61. /\ m.locals \in Nat /\ e \in Nat /\ 2 <= e /\ m.used \in Nat /\ m.frameUsed \in Nat
         /\ e = (m.frameUsed - m.locals) + m.used
         /\ s \in Seq(Val) /\ Len(s) = e /\ u \in Seq(Val) /\ Len(u) = (e - 1) + 0
         /\ s = Operands /\ u = Operands'
    BY <1>3, <2>6
  <2>62. \A j \in 1 .. Excess(m') : u[j] = Operand(h', m'.used, m'.frameUsed, m'.locals, j)
    BY DEF Stack
  <2> HIDE DEF x, g, e, s, u
  <2> DEFINE base == m.locals  used == m.used  slots0 == m.frameUsed
  <2>63. /\ base \in Nat /\ e \in Nat /\ 2 <= e /\ used \in Nat /\ slots0 \in Nat
         /\ e = (slots0 - base) + used /\ Len(u) = (e - 1) + 0
         /\ x = (slots0 + used) - 2 /\ used <= 1 /\ base <= x
    BY <2>2, <2>61
  <2>7. \A z \in 1 .. m.locals : z - 1 # x
    BY <2>2, <2>61
  <2>8. Locals' = Locals
    BY <1>2, <2>4, <2>7, MovedLocals
  <2>9. Len(u) = e - 1 /\ x = m.locals + (e - 1) - 1
    <3> HIDE DEF base, used, slots0
    <3>1. Len(u) = e - 1 /\ x = base + (e - 1) - 1
      BY <2>63
    <3> QED BY <3>1 DEF base
  <2>10. u[e - 1] = v
    <3> DEFINE t == m'  slots == t.frameUsed  j == e - 1
    <3>1. j \in 1 .. Excess(m') /\ u[j] = Operand(h', m'.used, slots, m'.locals, j)
      BY <2>6, <2>61, <2>62
    <3>2. slots = Balanced(m, 1, 1).frameUsed
      <4> DEFINE b == Balanced(m, 1, 1)  c == 1  p == 0  k == 1
      <4>1. /\ Counted(b) /\ c \in Nat /\ p \in Nat /\ k \in Nat /\ c <= b.used /\ p <= k /\ c <= k
            /\ (b.used - c) + k <= DEPTH
        BY <2>1 DEF Does, Ready
      <4>2. m' = Settled(b, c, p, k)
        BY <2>1 DEF Adjusted
      <4> HIDE DEF b, c, p, k
      <4>3. Settled(b, c, p, k).frameUsed = b.frameUsed
        BY <4>1, SettledCounters
      <4> QED BY <4>2, <4>3 DEF b
    <3>3. slots \in Nat
      BY <3>2, <2>1 DEF Does, Ready
    <3> HIDE DEF slots
    <3>4. j <= slots - m'.locals /\ m'.locals + j - 1 = x
      BY <3>2, <3>3, <2>3, <2>6, <2>9, <2>61
    <3> HIDE DEF j
    <3>5. u[j] = h'.frame[x]
      BY <3>1, <3>4 DEF Operand
    <3> QED BY <3>5, <2>5 DEF j
  <2>11. /\ \A j \in 1 .. e - 2 : u[j] = s[j]
         /\ \A j \in 1 .. 1 : u[(e - 2) + j] = new[j]
    <3>1. \A j \in 1 .. e - 2 : j \in 1 .. e - 1 /\ m.locals + j - 1 # x
      <4> HIDE DEF base
      <4>1. e \in Nat /\ 2 <= e /\ base \in Nat /\ x = base + (e - 1) - 1
        BY <2>9, <2>63 DEF base
      <4>2. \A j \in 1 .. e - 2 : j \in 1 .. e - 1 /\ base + j - 1 # x
        BY <4>1
      <4> QED BY <4>2 DEF base
    <3>2. (e - 2) + 1 = e - 1 /\ \A j \in 1 .. 1 : j = 1
      BY <2>61
    <3> QED BY <3>1, <3>2, <2>6, <2>10, <1>5
  <2>12. /\ s \in Seq(Val) /\ u \in Seq(Val) /\ new \in Seq(Val) /\ two \in Nat /\ two <= Len(s)
         /\ Len(u) = (Len(s) - two) + Len(new)
         /\ \A j \in 1 .. Len(s) - two : u[j] = s[j]
         /\ \A j \in 1 .. Len(new) : u[(Len(s) - two) + j] = new[j]
    <3>1. Len(s) = e /\ Len(u) = e - 1 /\ Len(new) = 1 /\ e \in Nat /\ 2 <= e
      BY <2>9, <2>61, <1>5
    <3>2. two \in Nat /\ two <= Len(s) /\ Len(u) = (Len(s) - two) + Len(new) /\ Len(s) - two = e - 2
      BY <3>1
    <3> QED BY <3>1, <3>2, <2>11, <2>61, <1>5
  <2>13. u = SubSeq(s, 1, Len(s) - two) \o new
    <3> HIDE DEF u, s, two
    <3> QED BY ONLY <2>12, Replaced
  <2>14. Replaces(two, new)
    BY <2>12, <2>13, <2>61 DEF Replaces
  <2> QED BY <2>8, <2>14
<1>8. Replaces(two, new) /\ Locals' = Locals
  BY <1>6, <1>7
<1>9. Abstract!Replace(2, <<v>>) /\ Abstract!Holds(2)
  <2>1. Abstract!Replace(two, new) /\ Abstract!Holds(two)
    <3> HIDE DEF two
    <3> QED BY <1>2, <1>8, ReplaceMaps
  <2> QED BY <2>1 DEF new
<1> QED BY <1>8, <1>9 DEF Abstract!Squash, Locals, v

-----------------------------------------------------------------------------
(* Local variables.                                                        *)

(* The local variables are a list of numbers, in and after the body.       *)
LEMMA LocalsList ==
  ASSUME MachineInductive
  PROVE  /\ Counted(m) /\ m.locals \in Nat /\ m.locals <= FrameSize
         /\ Locals \in Seq(Val) /\ Len(Locals) = m.locals /\ DOMAIN Locals = 1 .. m.locals
         /\ \A z \in 1 .. m.locals : Locals[z] = h.frame[z - 1] /\ z - 1 \in Slots
<1>1. Counted(m) /\ Carries(m, OnTop, h) /\ m.locals <= MaxLocals
  BY InductiveCounted DEF MachineInductive, WithinBounds
<1>2. /\ m.locals \in Nat /\ m.frameUsed \in Nat /\ m.frameClobbered \in Nat /\ OnTop \in Nat
      /\ m.locals <= m.frameUsed
  BY <1>1, CountedTyped DEF OnTop, Counted, MonitorState
<1>3. m.locals <= FrameSize /\ FrameSize \in Nat
  BY <1>1, <1>2, BoundsAssumption, FrameAssumption
<1>4. \A x \in Slots : x < m.frameUsed => h.frame[x] \in Val
  BY <1>1, <1>2, HoldingParts DEF Carries
<1>5. ASSUME NEW z \in 1 .. m.locals PROVE z - 1 \in Slots /\ z - 1 < m.frameUsed
  BY <1>2, <1>3, RegistersTyped
<1>6. \A z \in 1 .. m.locals : h.frame[z - 1] \in Val
  BY <1>4, <1>5
<1> DEFINE f == Locals  n == m.locals
<1>7. n \in Nat /\ f = [j \in 1 .. n |-> f[j]] /\ \A j \in 1 .. n : f[j] \in Val
  BY <1>2, <1>6 DEF Locals
<1>8. \A z \in 1 .. m.locals : Locals[z] = h.frame[z - 1]
  BY DEF Locals
<1> HIDE DEF f, n
<1>9. f \in Seq(Val) /\ Len(f) = n /\ DOMAIN f = 1 .. n
  BY <1>7, ListTyped
<1> QED BY <1>1, <1>2, <1>3, <1>5, <1>8, <1>9 DEF f, n

(* fstp to a local variable.                                               *)
LEMMA StoreMaps ==
  ASSUME MachineInductive, NEW x \in LocalSlots, Assign(x), [Next]_vars
  PROVE  Abstract!Store
<1> DEFINE v == Abstract!Top(0)  g == SpillCode(1, 1)
<1>1. Does(1, 0, 1, x) /\ MachineInductive'
  BY AssignKeeps
<1>2. /\ Running /\ Running' /\ InStatement /\ InStatement' /\ brackets' = brackets /\ 1 <= Excess(m)
      /\ m' = ApplyEffect(m, <<1, 0>>)
      /\ h' = StoreTo(After(<<1, 0>>), x, After(<<1, 0>>).stackUsed)
  BY DEF Assign, Store, InBody, Running, InStatement
<1>3. m' = Adjusted(m, 1, 0, 1)
  BY <1>2, PopServed
<1>4. /\ Counted(m) /\ m.locals \in Nat /\ Excess(m) \in Nat
      /\ x \in Nat /\ x \in Slots /\ x < m.locals /\ x + 1 \in DOMAIN Locals
      /\ m.frameClobbered \in Nat /\ m.locals <= m.frameClobbered
  BY <1>2, OperandsTyped, LocalsTyped, CountedTyped DEF LocalSlots
<1>5. \A j \in 1 .. Excess(m) - 1 : m.locals + j - 1 # x
  <2> DEFINE base == m.locals  e == Excess(m)
  <2>1. base \in Nat /\ e \in Nat /\ x \in Nat /\ x < base
    BY <1>4
  <2> HIDE DEF base, e
  <2>2. \A j \in 1 .. e - 1 : base + j - 1 # x
    BY <2>1
  <2> QED BY <2>2 DEF base, e
<1>6. Abstract!Replace(1, <<>>) /\ Abstract!Holds(1)
  BY <1>1, <1>2, <1>3, <1>5, PopReplaces
<1>7. Moved(m, h, m', h', g, 1, 0, x) /\ g.fpu[0] = v /\ v \in Val
  BY <1>1, <1>2, <1>3, PopTakes
<1>8. h'.frame[x] = v
  <2>1. x < m.frameClobbered
    BY <1>4
  <2>2. x < Balanced(m, 1, 1).frameUsed => h'.frame[x] = g.fpu[0]
    BY <1>2, <1>4, <2>1, StoreDoes
  <2>3. m.locals <= Balanced(m, 1, 1).frameUsed /\ Balanced(m, 1, 1).frameUsed \in Nat
    BY <1>1 DEF Does, Ready
  <2> QED BY <2>2, <2>3, <1>4, <1>7
<1> HIDE DEF v, g
<1>9. /\ DOMAIN Locals = 1 .. m.locals /\ DOMAIN Locals' = 1 .. m.locals
      /\ \A z \in 1 .. m.locals : z - 1 # x => Locals'[z] = Locals[z]
  BY <1>2, <1>7, MovedLocals
<1>10. Locals'[x + 1] = v
  <2>1. m'.locals = m.locals
    BY <1>7 DEF Moved
  <2>2. x + 1 \in 1 .. m.locals /\ (x + 1) - 1 = x
    BY <1>4
  <2> QED BY <2>1, <2>2, <1>8 DEF Locals
<1>11. Locals' = [Locals EXCEPT ![x + 1] = v]
  <2>1. \A z \in 1 .. m.locals : z = x + 1 \/ z - 1 # x
    BY <1>4
  <2>2. \A z \in 1 .. m.locals : Locals'[z] = [Locals EXCEPT ![x + 1] = v][z]
    BY <2>1, <1>9, <1>10
  <2>3. Locals' = [z \in 1 .. m.locals |-> Locals'[z]]
    BY <1>7 DEF Moved, Locals
  <2>4. [Locals EXCEPT ![x + 1] = v] = [z \in 1 .. m.locals |-> [Locals EXCEPT ![x + 1] = v][z]]
    BY <1>9
  <2> QED BY <2>2, <2>3, <2>4
<1>12. \E z \in DOMAIN Locals : Locals' = [Locals EXCEPT ![z] = Abstract!Top(0)]
  BY <1>4, <1>11 DEF v
<1> QED BY <1>6, <1>12 DEF Abstract!Store, Locals

(* alloca_: the newest operand becomes the newest local variable.          *)
LEMMA DeclareMaps ==
  ASSUME MachineInductive, Declare, [Next]_vars
  PROVE  Abstract!Declare
<1> DEFINE e == Excess(m)  n == 1  q == 0  new == <<>>  y == -1  v == Abstract!Top(0)  used == m.used  base == m.locals
<1>1. /\ MachineInductive' /\ h'.frame[m.locals] = h.fpu[0]
      /\ Running /\ Running' /\ m.frameUsed = m.locals /\ 1 <= m.used /\ m'.used = m.used - 1
      /\ m'.locals = m.locals + 1 /\ m'.frameUsed = m.frameUsed + 1
      /\ \A i \in F!Registers : i + 1 < DEPTH => h'.fpu[i] = h.fpu[i + 1]
      /\ \A z \in Slots : z < m.locals => h'.frame[z] = h.frame[z]
  BY DeclareKeeps
<1>2. InStatement /\ InStatement' /\ brackets' = brackets
  BY DEF Declare, Alloca, Declaring, AfterDeclaration, InStatement
<1>3. /\ Counted(m) /\ base \in Nat /\ e \in Nat /\ Operands = Stack(m, h) /\ Len(Operands) = e
      /\ Operands \in Seq(Val) /\ Operands' \in Seq(Val) /\ Operands' = Stack(m', h')
  BY <1>1, OperandsTyped, OperandsTypedNext, OperandsStack
<1>4. /\ used \in Nat /\ e = used /\ e >= 1 /\ Excess(m') = e - 1 /\ used <= DEPTH
  <2>1. m.used \in Nat /\ m.frameUsed \in Nat /\ m.clobbered \in Nat /\ m.used <= m.clobbered
        /\ m.clobbered <= DEPTH /\ Excess(m) = (m.frameUsed - m.locals) + m.used
    BY <1>3, CountedTyped
  <2>2. used <= DEPTH
    BY <2>1, RegistersTyped
  <2> QED BY <1>1, <1>3, <2>1, <2>2 DEF Excess
<1>5. \A j \in 1 .. e : Stack(m, h)[j] = h.fpu[e - j]
  <2>1. \A j \in 1 .. e : Stack(m, h)[j] = Operand(h, used, m.frameUsed, base, j)
    BY DEF Stack
  <2>2. (m.frameUsed - base) = 0 /\ \A j \in 1 .. e : ~ (j <= 0) /\ (0 + used) - j = e - j
    BY <1>1, <1>3, <1>4
  <2> QED BY <2>1, <2>2 DEF Operand
<1>6. \A j \in 1 .. e - 1 : Stack(m', h')[j] = h'.fpu[(e - 1) - j]
  <2>1. \A j \in 1 .. e - 1 : Stack(m', h')[j] = Operand(h', m'.used, m'.frameUsed, m'.locals, j)
    BY <1>4 DEF Stack
  <2>2. (m'.frameUsed - m'.locals) = 0 /\ m'.used = e - 1 /\ \A j \in 1 .. e - 1 : ~ (j <= 0) /\ (0 + (e - 1)) - j = (e - 1) - j
    BY <1>1, <1>3, <1>4
  <2> QED BY <2>1, <2>2 DEF Operand
<1>7. ASSUME NEW j \in 1 .. e - 1 PROVE Stack(m', h')[j] = Stack(m, h)[j]
  <2> DEFINE i == (e - 1) - j
  <2>1. i \in F!Registers /\ i + 1 < DEPTH /\ i + 1 = e - j /\ j \in 1 .. e
    BY <1>4, RegistersTyped
  <2> QED BY <2>1, <1>1, <1>5, <1>6
<1>8. v \in Val /\ v = h.fpu[0]
  <2>1. v = Stack(m, h)[e - 0] /\ v \in Val
    BY <1>1, <1>4, OperandTop
  <2>2. e - 0 \in 1 .. e /\ e - (e - 0) = 0
    BY <1>4
  <2> QED BY <2>1, <2>2, <1>5
<1> DEFINE s == Operands  u == Operands'
<1>9. /\ s \in Seq(Val) /\ u \in Seq(Val) /\ new \in Seq(Val) /\ n \in Nat /\ n <= Len(s)
      /\ Len(u) = (Len(s) - n) + Len(new)
      /\ \A j \in 1 .. Len(s) - n : u[j] = s[j]
      /\ \A j \in 1 .. Len(new) : u[(Len(s) - n) + j] = new[j]
  <2>1. Len(s) = e /\ Len(u) = e - 1 /\ Len(new) = 0
    BY <1>1, <1>3, <1>4, OperandsTypedNext
  <2> QED BY <2>1, <1>3, <1>4, <1>7
<1> HIDE DEF s, u, n, new
<1>10. u = SubSeq(s, 1, Len(s) - n) \o new
  BY ONLY <1>9, Replaced
<1>11. Abstract!Replace(n, new) /\ Abstract!Holds(n)
  <2>1. Replaces(n, new)
    BY <1>9, <1>10 DEF Replaces, s, u
  <2> QED BY <2>1, <1>2, ReplaceMaps
<1> HIDE DEF v, base
<1>12. Locals' = Append(Locals, v)
  <2> DEFINE f == Locals  r == Locals'  w == Append(f, v)  k == base + 1
  <2>1. /\ f \in Seq(Val) /\ Len(f) = base /\ base <= FrameSize
        /\ \A z \in 1 .. base : f[z] = h.frame[z - 1] /\ z - 1 \in Slots
    BY LocalsList DEF base
  <2>2. r = [z \in 1 .. k |-> h'.frame[z - 1]]
    BY <1>1 DEF Locals, base
  <2>3. ASSUME NEW z \in 1 .. base PROVE r[z] = f[z]
    <3>1. z \in 1 .. k /\ z - 1 < base
      BY <1>3
    <3> QED BY <3>1, <2>1, <2>2, <1>1 DEF base
  <2>4. r[k] = v
    <3>1. k \in 1 .. k /\ k - 1 = base
      BY <1>3
    <3> QED BY <3>1, <2>2, <1>1, <1>8 DEF base
  <2> HIDE DEF f, r
  <2>5. /\ w \in Seq(Val) /\ Len(w) = base + 1 /\ w[base + 1] = v
        /\ \A z \in 1 .. base : w[z] = f[z]
    BY <2>1, <1>8, AppendProperties
  <2>6. k \in Nat /\ \A z \in 1 .. k : z \in 1 .. base \/ z = k
    BY <1>3
  <2>7. \A z \in 1 .. k : r[z] = w[z]
    BY <2>3, <2>4, <2>5, <2>6
  <2>8. \A z \in 1 .. k : r[z] \in Val
    BY <2>5, <2>6, <2>7, ElementOfSeq
  <2>9. r \in Seq(Val) /\ Len(r) = k
    <3>1. r = [z \in 1 .. k |-> r[z]]
      BY <2>2
    <3> HIDE DEF k
    <3> QED BY <3>1, <2>6, <2>8, ListTyped
  <2> HIDE DEF w
  <2>10. r = w
    BY <2>5, <2>7, <2>9, SeqEqual
  <2> QED BY <2>10 DEF r, w, f
<1> QED BY <1>11, <1>12 DEF Abstract!Declare, Locals, n, new, v

-----------------------------------------------------------------------------
(* Between statements.                                                     *)

(* No operands.                                                            *)
LEMMA NoOperands ==
  ASSUME NEW s, NEW g, Excess(s) = 0
  PROVE  Stack(s, g) = <<>>
<1> DEFINE f == Stack(s, g)  n == 0
<1>1. n \in Nat /\ f = [j \in 1 .. n |-> f[j]] /\ \A j \in 1 .. n : f[j] \in Val
  BY DEF Stack
<1> HIDE DEF f, n
<1>2. f \in Seq(Val) /\ Len(f) = n
  BY <1>1, ListTyped
<1>3. f = <<>>
  <2>1. <<>> \in Seq(Val) /\ Len(<<>>) = 0
    BY EmptySeq
  <2>2. Len(f) = 0
    BY <1>2 DEF n
  <2>3. \A i \in 1 .. Len(f) : f[i] = <<>>[i]
    BY <2>2
  <2> QED BY <1>2, <2>1, <2>2, <2>3, SeqEqual
<1> QED BY <1>3 DEF f

(* A block opens between statements.                                       *)
LEMMA OpenMaps ==
  ASSUME MachineInductive, OpenBlock
  PROVE  Abstract!Open
<1>1. /\ mode = "rvalue" /\ Excess(m) = 0 /\ brackets' = Append(brackets, m.locals)
      /\ m' = m /\ mode' = mode /\ h' = h
  BY DEF OpenBlock, Bra, AtStatement
<1>2. Operands = <<>>
  BY <1>1, NoOperands, OperandsStack
<1>3. Operands' = Operands /\ Locals' = Locals /\ Results' = Results /\ Phase' = Phase /\ Phase = "running"
  BY <1>1 DEF Operands, Excess, Locals, Results, Phase
<1>4. Len(Locals) = m.locals
  BY LocalsList
<1> QED BY <1>1, <1>2, <1>3, <1>4 DEF Abstract!Open, Locals, Phase

(* The local variables of a closed bracket leave.                          *)
LEMMA BracketCloses ==
  ASSUME MachineInductive, CloseBlock \/ LeaveFunction, [Next]_vars
  PROVE  /\ Operands = <<>> /\ Operands' = <<>> /\ brackets # <<>>
         /\ Locals' = SubSeq(Locals, 1, brackets[Len(brackets)])
         /\ h'.fpu = h.fpu /\ m'.output = m.output
<1> DEFINE outer == brackets[Len(brackets)]
<1>1. /\ MachineInductive' /\ Excess(m) = 0 /\ Excess(m') = 0 /\ brackets # <<>>
      /\ outer \in Nat /\ outer <= m.locals /\ m'.locals = outer /\ m'.output = m.output
      /\ h'.fpu = h.fpu /\ \A z \in Slots : z < outer => h'.frame[z] = h.frame[z]
  BY CloseKeeps
<1>2. Operands = <<>> /\ Operands' = <<>>
  <2>1. Operands' = Stack(m', h')
    BY DEF Operands, Stack, Operand, Excess
  <2>2. Stack(m', h') = <<>>
    BY <1>1, NoOperands
  <2> QED BY <1>1, <2>1, <2>2, NoOperands, OperandsStack
<1> HIDE DEF outer
<1>3. Locals' = SubSeq(Locals, 1, outer)
  <2> DEFINE f == Locals  r == Locals'  w == SubSeq(f, 1, outer)
  <2>1. /\ f \in Seq(Val) /\ Len(f) = m.locals /\ m.locals \in Nat
        /\ \A z \in 1 .. m.locals : f[z] = h.frame[z - 1] /\ z - 1 \in Slots
    BY LocalsList
  <2>2. r = [z \in 1 .. outer |-> h'.frame[z - 1]]
    BY <1>1 DEF Locals
  <2>3. \A z \in 1 .. outer : z \in 1 .. m.locals /\ z - 1 < outer
    BY <1>1, <2>1
  <2>4. \A z \in 1 .. outer : r[z] = f[z]
    BY <1>1, <2>1, <2>2, <2>3
  <2> HIDE DEF f, r
  <2>5. \A z \in 1 .. outer : f[z] \in Val
    BY <2>1, <2>3, ElementOfSeq
  <2>6. /\ w \in Seq(Val) /\ Len(w) = IF 1 <= outer THEN outer - 1 + 1 ELSE 0
        /\ \A i \in 1 .. outer - 1 + 1 : w[i] = f[1 + i - 1]
    <3>1. 1 \in Int /\ outer \in Int
      BY <1>1
    <3> QED BY <3>1, <2>5, SubSeqProperties
  <2> HIDE DEF w
  <2>7. outer - 1 + 1 = outer /\ (~ (1 <= outer) => outer = 0) /\ \A i \in 1 .. outer : 1 + i - 1 = i
    BY <1>1
  <2>8. Len(w) = outer /\ \A z \in 1 .. outer : w[z] = r[z]
    BY <2>4, <2>6, <2>7
  <2>9. r \in Seq(Val) /\ Len(r) = outer
    <3>1. r = [z \in 1 .. outer |-> r[z]] /\ \A z \in 1 .. outer : r[z] \in Val
      BY <2>2, <2>4, <2>5
    <3> QED BY <3>1, <1>1, ListTyped
  <2>10. r = w
    BY <2>6, <2>8, <2>9, SeqEqual
  <2> QED BY <2>10 DEF r, w, f
<1> QED BY <1>1, <1>2, <1>3 DEF outer

(* The end of a block.                                                     *)
LEMMA CloseMaps ==
  ASSUME MachineInductive, CloseBlock, [Next]_vars
  PROVE  Phase = "running" /\ Len(brackets) > 1 /\ Abstract!Close("running")
<1>1. /\ Operands = <<>> /\ Operands' = <<>> /\ brackets # <<>>
      /\ Locals' = SubSeq(Locals, 1, brackets[Len(brackets)])
  BY BracketCloses
<1>2. /\ mode = "rvalue" /\ mode' = mode /\ Len(brackets) > 1
      /\ brackets' = SubSeq(brackets, 1, Len(brackets) - 1)
  BY DEF CloseBlock, Ket, AtStatement, CloseBracket
<1>3. Phase = "running" /\ Phase' = "running" /\ Results' = Results
  BY <1>2 DEF Phase, Results
<1> QED BY <1>1, <1>2, <1>3 DEF Abstract!Close, Locals, Phase

(* The end of the function body: its results stay.                         *)
LEMMA LeaveMaps ==
  ASSUME MachineInductive, LeaveFunction, [Next]_vars
  PROVE  Phase = "returned" /\ Abstract!Close("left")
<1>1. /\ Operands = <<>> /\ Operands' = <<>> /\ brackets # <<>>
      /\ Locals' = SubSeq(Locals, 1, brackets[Len(brackets)])
      /\ h'.fpu = h.fpu /\ m'.output = m.output
  BY BracketCloses
<1>2. mode = "returned" /\ mode' = "left" /\ brackets' = SubSeq(brackets, 1, Len(brackets) - 1)
  BY DEF LeaveFunction, Leave, CloseBracket
<1>3. Phase = "returned" /\ Phase' = "left" /\ Results' = Results
  BY <1>1, <1>2 DEF Phase, Results
<1> QED BY <1>1, <1>2, <1>3 DEF Abstract!Close, Locals, Phase

(* ret: the operands are the results.                                      *)
LEMMA ReturnMaps ==
  ASSUME MachineInductive, Return, [Next]_vars
  PROVE  Abstract!Return
<1> DEFINE n == Excess(m)  b == Balanced(m, n, n)  base == m.locals
<1>1. /\ mode = "rvalue" /\ mode' = "returned" /\ Len(brackets) = 1 /\ n >= 1 /\ brackets' = brackets /\ Running
  BY DEF Return, Ret, Returning, Running
<1>2. /\ h' = SpillCode(n, n) /\ b.used = n /\ b.frameUsed = base /\ Ready(b, n, n, h')
      /\ m'.output = n /\ m'.locals = base /\ Excess(m') = 0
  BY ReturnKeeps
<1>3. /\ n \in Nat /\ base \in Nat /\ Operands = Stack(m, h) /\ Len(Operands) = n /\ Counted(m)
  BY <1>1, OperandsTyped, OperandsStack
<1>4. n = (m.frameUsed - base) + m.used
  BY <1>3, CountedTyped
<1>5. /\ \A j \in 1 .. n : Operand(h', n, base, base, j) = Operand(h, m.used, m.frameUsed, base, j)
      /\ \A x \in Slots : x < base => h'.frame[x] = h.frame[x]
  BY <1>2, <1>4 DEF Ready, SpillCodeDone, Keeps
<1> HIDE DEF b
<1>6. Operands = [j \in 1 .. n |-> h'.fpu[n - j]]
  <2>1. Operands = [j \in 1 .. n |-> Operand(h, m.used, m.frameUsed, base, j)]
    BY <1>3 DEF Stack
  <2> HIDE DEF n, base
  <2>2. \A j \in 1 .. n : ~ (j <= base - base) /\ ((base - base) + n) - j = n - j
    BY <1>3
  <2>3. \A j \in 1 .. n : Operand(h', n, base, base, j) = h'.fpu[n - j]
    BY <2>2 DEF Operand
  <2> QED BY <2>1, <2>3, <1>5
<1>7. Results' = [j \in 1 .. n |-> h'.fpu[n - j]]
  BY <1>1, <1>2 DEF Results
<1>8. Operands' = <<>>
  <2>1. Operands' = Stack(m', h')
    BY DEF Operands, Stack, Operand, Excess
  <2> QED BY <2>1, <1>2, NoOperands
<1>9. Locals' = Locals
  <2>1. \A z \in 1 .. base : z - 1 \in Slots /\ z - 1 < base
    BY <1>3, LocalsList
  <2> QED BY <2>1, <1>2, <1>5 DEF Locals
<1>10. Phase = "running" /\ Phase' = "returned"
  BY <1>1 DEF Phase
<1>11. Abstract!Holds(1)
  BY <1>1, <1>3 DEF Abstract!Holds
<1> QED BY <1>1, <1>6, <1>7, <1>8, <1>9, <1>10, <1>11 DEF Abstract!Return, Locals, Phase

(* An assertion of the assembler that fails ends the body.                 *)
LEMMA AbortMaps ==
  ASSUME MachineInductive, Abort
  PROVE  Abstract!GiveUp
<1>1. /\ mode \in {"rvalue", "declare"} /\ mode' = "aborted" /\ Excess(m) >= 1
      /\ m' = m /\ h' = h /\ brackets' = brackets /\ Running
  BY DEF Abort, AllocaAborts, RetAborts, Declaring, Returning, Running
<1>2. Operands' = Operands /\ Locals' = Locals /\ Results' = Results
  BY <1>1 DEF Operands, Excess, Locals, Results
<1>3. Phase = "running" /\ Phase' = "aborted"
  BY <1>1 DEF Phase
<1>4. Abstract!Holds(1)
  BY <1>1, OperandsTyped DEF Abstract!Holds
<1> QED BY <1>1, <1>2, <1>3, <1>4 DEF Abstract!GiveUp, Locals, Phase

(* Nothing happens.                                                        *)
LEMMA StutterMaps ==
  ASSUME UNCHANGED machineVars
  PROVE  UNCHANGED Abstract!vars
<1>1. m' = m /\ brackets' = brackets /\ mode' = mode /\ h' = h
  BY DEF machineVars
<1>2. Operands' = Operands /\ Locals' = Locals /\ Results' = Results /\ Phase' = Phase
  BY <1>1 DEF Operands, Excess, Locals, Results, Phase
<1> QED BY <1>1, <1>2 DEF Abstract!vars, Locals, Phase

(* The function starts with its arguments for local variables.             *)
LEMMA InitMaps == MachineInit => Abstract!Init
<1> SUFFICES ASSUME MachineInit PROVE Abstract!Init
  OBVIOUS
<1>1. MachineInductive
  BY InitKeeps
<1>2. brackets = <<>> /\ mode = "rvalue" /\ Excess(m) = 0
  <2>1. PICK arity \in Arities : m = Entered(arity) /\ brackets = <<>> /\ mode = "rvalue"
    BY DEF MachineInit, Init
  <2>2. m.used = 0 /\ m.frameUsed = arity /\ m.locals = arity /\ arity \in Nat
    BY <2>1, BoundsAssumption DEF Entered
  <2> QED BY <2>1, <2>2 DEF Excess
<1>3. Operands = <<>>
  BY <1>2, NoOperands, OperandsStack
<1>4. Locals \in Seq(Val)
  BY <1>1, LocalsList
<1> QED BY <1>2, <1>3, <1>4 DEF Abstract!Init, Locals, Results

-----------------------------------------------------------------------------
(* A call.                                                                 *)

(* Where the operands are: those the callee takes are in the frame, alone, *)
(* and those it leaves are on the registers.                               *)
LEMMA CallPositions ==
  ASSUME NEW D \in Nat, NEW base \in Nat, NEW slots \in Nat, NEW used \in Nat, NEW k \in Nat, NEW a \in Nat,
         NEW n \in Nat, NEW e \in Nat, e = (slots - base) + used, a <= e, base <= slots - a, used + k <= D,
         n <= k, used = 0 \/ a = 0
  PROVE  LET left == (e - a) + n
             kept == (slots - a) - base
         IN  /\ \A j \in 1 .. e - a : j <= kept =>
                  /\ base + j - 1 \in Nat /\ base + j - 1 < slots - a /\ j <= slots - base
             /\ \A j \in 1 .. e - a : ~ (j <= kept) =>
                  /\ ~ (j <= slots - base) /\ left - j \in 0 .. D - 1 /\ n <= left - j
                  /\ (left - j) - n = e - j /\ (left - j) - n < D - k
             /\ \A j \in 1 .. n : /\ ~ ((e - a) + j <= kept)
                                  /\ left - ((e - a) + j) = n - j /\ n - j \in 0 .. D - 1 /\ n - j < n
             /\ \A j \in 1 .. a : /\ (e - a) + j <= slots - base /\ (e - a) + j \in 1 .. e
                                  /\ base + ((e - a) + j) - 1 = (slots - a) + j - 1
<1> DEFINE left == (e - a) + n
           kept == (slots - a) - base
<1>1. used = 0 => kept = e - a
  OBVIOUS
<1>2. a = 0 => kept = slots - base
  OBVIOUS
<1>3. left \in Nat /\ kept \in Nat /\ kept <= e - a /\ kept <= slots - base /\ n <= D
  OBVIOUS
<1>4. ASSUME NEW j \in 1 .. e - a, j <= kept
      PROVE  /\ base + j - 1 \in Nat /\ base + j - 1 < slots - a /\ j <= slots - base
  BY <1>4
<1>5. ASSUME NEW j \in 1 .. e - a, ~ (j <= kept)
      PROVE  /\ ~ (j <= slots - base) /\ left - j \in 0 .. D - 1 /\ n <= left - j
             /\ (left - j) - n = e - j /\ (left - j) - n < D - k
  <2>1. a = 0 /\ kept = slots - base
    BY <1>1, <1>2, <1>5
  <2>2. e - j < used /\ e - j >= 0
    BY <2>1, <1>5
  <2> QED BY <2>1, <2>2, <1>5
<1>6. ASSUME NEW j \in 1 .. n
      PROVE  /\ ~ ((e - a) + j <= kept)
             /\ left - ((e - a) + j) = n - j /\ n - j \in 0 .. D - 1 /\ n - j < n
  BY <1>3
<1>7. ASSUME NEW j \in 1 .. a
      PROVE  /\ (e - a) + j <= slots - base /\ (e - a) + j \in 1 .. e
             /\ base + ((e - a) + j) - 1 = (slots - a) + j - 1
  <2>1. used = 0 /\ e = slots - base
    OBVIOUS
  <2> QED BY <2>1
<1> QED BY <1>4, <1>5, <1>6, <1>7

(* A call takes its arguments and leaves its results, in their order.      *)
LEMMA CallMaps ==
  ASSUME MachineInductive, NEW f \in Callees, Invoke(f), [Next]_vars
  PROVE  Abstract!Call(f)
<1> DEFINE k == CalleeClobbers(f)
           b == Balanced(m, 0, k)
           g == SpillCode(0, k)
           low == CallBase(m, f)
           n == f.output
           a == f.arity
           args == [j \in 1 .. a |-> g.frame[low + j - 1]]
           values == [j \in 1 .. n |-> Result(args, n + 1 - j)]
           base == m.locals
           slots == b.frameUsed
           used == b.used
           e == Excess(m)
           s == Operands
           u == Operands'
           taken == SubSeq(s, Len(s) - a + 1, Len(s))
           new == [j \in 1 .. n |-> Result(args, j)]
<1>1. /\ MachineInductive' /\ Calls(f) /\ Running /\ Running' /\ a <= e
      /\ InStatement /\ InStatement' /\ brackets' = brackets
  <2>1. MachineInductive' /\ Calls(f) /\ Running /\ Running' /\ a <= e
    BY InvokeKeeps
  <2> QED BY <2>1 DEF Invoke, Call, InStatement
<1>2. /\ Ready(b, 0, k, g) /\ low = slots - a /\ base <= low
      /\ m'.used = used + n /\ m'.frameUsed = low /\ m'.locals = base
      /\ Excess(m') = (e - a) + n /\ CallLeaves(g, h', k, values, n, low)
  BY <1>1 DEF Calls
<1>3. /\ a \in Nat /\ n \in Nat /\ k \in Nat /\ n <= k /\ k <= DEPTH /\ (k # DEPTH => a = 0)
  BY CalleesAssumption, CalleeFacts
<1>4. /\ base \in Nat /\ e \in Nat /\ base + e <= FrameSize /\ Counted(m)
      /\ s \in Seq(Val) /\ Len(s) = e /\ s = Stack(m, h)
      /\ u \in Seq(Val) /\ Len(u) = Excess(m') /\ u = Stack(m', h')
  BY <1>1, OperandsTyped, OperandsTypedNext, OperandsStack
<1>5. /\ used \in Nat /\ slots \in Nat /\ base <= slots /\ used + k <= DEPTH
      /\ Keeps(base, h, m.used, m.frameUsed, g, used, slots)
  <2>1. (used - 0) + k <= DEPTH /\ used \in Nat
    BY <1>2 DEF Ready
  <2> QED BY <2>1, <1>2, <1>3 DEF Ready, SpillCodeDone
<1>6. e = (slots - base) + used
  <2>1. e = (m.frameUsed - base) + m.used
    BY <1>4, CountedTyped
  <2> QED BY <2>1, <1>5 DEF Keeps
<1>7. used = 0 \/ a = 0
  BY <1>3, <1>5, RegistersTyped
<1>8. \A j \in 1 .. e : s[j] = Operand(g, used, slots, base, j)
  <2>1. \A j \in 1 .. e : s[j] = Operand(h, m.used, m.frameUsed, base, j)
    BY <1>4 DEF Stack
  <2>2. e = (m.frameUsed - base) + m.used
    BY <1>4, CountedTyped
  <2> QED BY <2>1, <2>2, <1>5 DEF Keeps
<1>9. \A j \in 1 .. (e - a) + n : u[j] = Operand(h', used + n, low, base, j)
  BY <1>2, <1>4 DEF Stack
<1> HIDE DEF k, b, g, low, n, a, base, slots, used, e, s, u, args, values
<1> DEFINE D == DEPTH
<1>10. D \in Nat /\ F!Registers = 0 .. D - 1 /\ Slots = 0 .. FrameSize - 1 /\ FrameSize \in Nat
  BY RegistersTyped
<1> DEFINE left == (e - a) + n  kept == low - base
<1>11. /\ \A j \in 1 .. e - a : j <= kept =>
            /\ base + j - 1 \in Nat /\ base + j - 1 < low /\ j <= slots - base
       /\ \A j \in 1 .. e - a : ~ (j <= kept) =>
            /\ ~ (j <= slots - base) /\ left - j \in 0 .. D - 1 /\ n <= left - j
            /\ (left - j) - n = e - j /\ (left - j) - n < D - k
       /\ \A j \in 1 .. n : /\ ~ ((e - a) + j <= kept)
                            /\ left - ((e - a) + j) = n - j /\ n - j \in 0 .. D - 1 /\ n - j < n
       /\ \A j \in 1 .. a : /\ (e - a) + j <= slots - base /\ (e - a) + j \in 1 .. e
                            /\ base + ((e - a) + j) - 1 = low + j - 1
  <2>1. /\ D \in Nat /\ base \in Nat /\ slots \in Nat /\ used \in Nat /\ k \in Nat /\ a \in Nat
        /\ n \in Nat /\ e \in Nat /\ e = (slots - base) + used /\ a <= e /\ base <= slots - a
        /\ used + k <= D /\ n <= k /\ (used = 0 \/ a = 0)
    BY <1>1, <1>2, <1>3, <1>4, <1>5, <1>6, <1>7, <1>10
  <2> HIDE DEF D, left, kept
  <2>2. left = (e - a) + n /\ kept = (slots - a) - base /\ low = slots - a
    BY <1>2 DEF left, kept
  <2> QED BY ONLY <2>1, <2>2, CallPositions
<1>12. /\ low \in Nat /\ left \in Nat /\ e - a \in Nat /\ (low - base) + (used + n) = left /\ slots <= FrameSize
  <2>1. /\ base \in Nat /\ slots \in Nat /\ used \in Nat /\ a \in Nat /\ low = slots - a
        /\ n \in Nat /\ e \in Nat /\ e = (slots - base) + used /\ a <= e /\ base <= low
        /\ base + e <= FrameSize /\ FrameSize \in Nat
    BY <1>1, <1>2, <1>3, <1>4, <1>5, <1>6, <1>10
  <2> QED BY ONLY <2>1
<1>c. kept = low - base /\ left = (e - a) + n
  OBVIOUS
<1> HIDE DEF left, kept
<1>13. ASSUME NEW j \in 1 .. e - a PROVE u[j] = s[j]
  <2>1. j \in 1 .. e /\ j \in 1 .. left
    <3>1. a \in Nat /\ n \in Nat /\ e \in Nat /\ e - a \in Nat /\ left = (e - a) + n
      BY <1>3, <1>4, <1>12, <1>c
    <3> QED BY ONLY <3>1, j \in 1 .. e - a
  <2>2. CASE j <= kept
    <3>1. base + j - 1 \in Slots /\ base + j - 1 < low /\ j <= slots - base
      <4>1. /\ base + j - 1 \in Nat /\ base + j - 1 < low /\ j <= slots - base
        BY <2>2, <1>11
      <4>2. /\ low \in Nat /\ low = slots - a /\ slots \in Nat /\ a \in Nat /\ slots <= FrameSize /\ FrameSize \in Nat
        BY <1>2, <1>3, <1>5, <1>10, <1>12
      <4> DEFINE x == base + j - 1
      <4>3. x \in Nat /\ x < low
        BY <4>1
      <4> HIDE DEF x
      <4>4. x \in 0 .. FrameSize - 1
        BY ONLY <4>2, <4>3
      <4> QED BY <4>1, <4>4, <1>10 DEF x
    <3>2. h'.frame[base + j - 1] = g.frame[base + j - 1]
      BY <3>1, <1>2 DEF CallLeaves
    <3> QED BY <2>1, <2>2, <3>1, <3>2, <1>8, <1>9, <1>c DEF Operand
  <2>3. CASE ~ (j <= kept)
    <3>1. /\ ~ (j <= slots - base) /\ left - j \in F!Registers /\ n <= left - j
          /\ (left - j) - n = e - j /\ (left - j) - n < DEPTH - k
      BY <2>3, <1>10, <1>11
    <3>2. h'.fpu[left - j] = g.fpu[e - j]
      BY <3>1, <1>2 DEF CallLeaves
    <3>3. u[j] = h'.fpu[left - j]
      BY <2>1, <2>3, <1>9, <1>12, <1>c DEF Operand
    <3>4. s[j] = g.fpu[e - j]
      BY <2>1, <3>1, <1>6, <1>8 DEF Operand
    <3> QED BY <3>2, <3>3, <3>4
  <2> QED BY <2>2, <2>3
<1>14. ASSUME NEW j \in 1 .. n PROVE u[(e - a) + j] = Result(args, j)
  <2> DEFINE x == (e - a) + j  i == n - j
  <2>1. x \in 1 .. left /\ ~ (x <= kept) /\ left - x = i /\ i \in F!Registers /\ i < n
    <3>1. /\ ~ (x <= kept) /\ left - x = i /\ i \in F!Registers /\ i < n
      BY <1>10, <1>11
    <3>2. a \in Nat /\ n \in Nat /\ e \in Nat /\ e - a \in Nat /\ left = (e - a) + n
      BY <1>3, <1>4, <1>12, <1>c
    <3>3. x \in 1 .. left
      BY ONLY <3>2, j \in 1 .. n
    <3> QED BY <3>1, <3>3
  <2>2. i + 1 \in 1 .. n /\ n + 1 - (i + 1) = j
    BY <1>3
  <2> HIDE DEF x, i
  <2>3. h'.fpu[i] = values[i + 1]
    BY <2>1, <1>2 DEF CallLeaves
  <2>4. values[i + 1] = Result(args, j)
    BY <2>2 DEF values
  <2>5. u[x] = h'.fpu[i]
    BY <2>1, <1>9, <1>12, <1>c DEF Operand
  <2> QED BY <2>3, <2>4, <2>5 DEF x
<1>15. ASSUME NEW j \in 1 .. a PROVE s[(e - a) + j] = args[j]
  <2>1. /\ (e - a) + j <= slots - base /\ (e - a) + j \in 1 .. e
        /\ base + ((e - a) + j) - 1 = low + j - 1
    BY <1>11
  <2> QED BY <2>1, <1>8 DEF args, Operand
<1>16. taken = args
  <2>1. /\ (e - a) + 1 \in Int /\ e \in Int /\ \A i \in (e - a) + 1 .. e : s[i] \in Val
    <3>1. \A i \in 1 .. Len(s) : s[i] \in Val
      BY <1>4, ElementOfSeq
    <3>2. \A i \in (e - a) + 1 .. e : i \in 1 .. Len(s)
      BY <1>4, <1>12
    <3> QED BY <3>1, <3>2, <1>4, <1>12
  <2> DEFINE first == (e - a) + 1
  <2>2. /\ taken \in Seq(Val) /\ Len(taken) = IF first <= e THEN e - first + 1 ELSE 0
        /\ \A i \in 1 .. e - first + 1 : taken[i] = s[first + i - 1]
    <3>1. taken = SubSeq(s, first, e)
      BY <1>4
    <3> HIDE DEF taken, first
    <3>2. first \in Int /\ e \in Int /\ \A i \in first .. e : s[i] \in Val
      BY <2>1 DEF first
    <3> QED BY <3>1, <3>2, SubSeqProperties
  <2> HIDE DEF taken
  <2>3. /\ e - first + 1 = a /\ (~ (first <= e) => a = 0)
        /\ \A i \in 1 .. a : first + i - 1 = (e - a) + i
    BY <1>3, <1>4
  <2> HIDE DEF first
  <2>4. Len(taken) = a /\ \A i \in 1 .. a : taken[i] = args[i]
    BY <2>2, <2>3, <1>15
  <2>5. \A i \in 1 .. a : args[i] \in Val
    BY <2>2, <2>4, ElementOfSeq
  <2>6. args \in Seq(Val) /\ Len(args) = a
    <3>1. args = [j \in 1 .. a |-> args[j]]
      BY DEF args
    <3> QED BY <3>1, <2>5, <1>3, ListTyped
  <2> QED BY <2>2, <2>4, <2>6, SeqEqual
<1>17. new \in Seq(Val) /\ Len(new) = n /\ \A j \in 1 .. n : new[j] = Result(args, j)
  <2>1. \A i \in 1 .. Len(u) : u[i] \in Val
    BY <1>4, ElementOfSeq
  <2>2. \A j \in 1 .. n : (e - a) + j \in 1 .. Len(u)
    BY <1>2, <1>3, <1>4, <1>12
  <2>3. \A j \in 1 .. n : Result(args, j) \in Val
    BY <2>1, <2>2, <1>14
  <2>4. new = [j \in 1 .. n |-> new[j]] /\ \A j \in 1 .. n : new[j] \in Val
    BY <2>3
  <2>5. \A j \in 1 .. n : new[j] = Result(args, j)
    OBVIOUS
  <2> HIDE DEF new
  <2> QED BY <2>4, <2>5, <1>3, ListTyped
<1> HIDE DEF new, taken
<1>18. Replaces(a, new)
  <2>1. /\ s \in Seq(Val) /\ u \in Seq(Val) /\ new \in Seq(Val) /\ a \in Nat /\ a <= Len(s)
        /\ Len(u) = (Len(s) - a) + Len(new)
        /\ \A j \in 1 .. Len(s) - a : u[j] = s[j]
        /\ \A j \in 1 .. Len(new) : u[(Len(s) - a) + j] = new[j]
    <3>1. Len(s) = e /\ Len(u) = (e - a) + n /\ Len(new) = n
      BY <1>2, <1>4, <1>17
    <3> QED BY <3>1, <1>1, <1>3, <1>4, <1>13, <1>14, <1>17
  <2>2. u = SubSeq(s, 1, Len(s) - a) \o new
    BY ONLY <2>1, Replaced
  <2> QED BY <2>1, <2>2 DEF Replaces, s, u
<1>19. Abstract!Replace(a, new) /\ Abstract!Holds(a)
  BY <1>1, <1>18, ReplaceMaps
<1>20. Locals' = Locals
  <2>1. \A z \in 1 .. base : z - 1 \in Slots /\ z - 1 < base
    BY <1>4, LocalsList DEF base
  <2>2. \A x \in Slots : x < base => x < low
    BY <1>2, <1>4, <1>10, <1>12
  <2>3. \A x \in Slots : x < base => g.frame[x] = h.frame[x]
    BY <1>5 DEF Keeps
  <2>4. \A z \in 1 .. base : h'.frame[z - 1] = h.frame[z - 1]
    BY <2>1, <2>2, <2>3, <1>2 DEF CallLeaves
  <2> QED BY <2>4, <1>2 DEF Locals, base
<1>21. new = [j \in 1 .. n |-> Result(taken, j)]
  BY <1>16 DEF new
<1> QED BY <1>19, <1>20, <1>21 DEF Abstract!Call, Locals, a, n, s, taken

-----------------------------------------------------------------------------
(* Every step.                                                             *)

(* Every step of the machine is one of the operand stack, or none.         *)
LEMMA MachineStepMaps ==
  ASSUME MachineInductive, [MachineNext]_machineVars
  PROVE  [Abstract!Next]_(Abstract!vars)
<1>1. [Next]_vars
  BY MachineSteps
<1>2. CASE \E v \in Val : Const(v)
  BY <1>2, ConstMaps DEF Abstract!Next
<1>3. ASSUME NEW x \in LocalSlots, Load(x) PROVE Abstract!Next
  BY <1>3, LoadMaps DEF Abstract!Next
<1>4. ASSUME NEW x \in LocalSlots, MemoryOp(x) PROVE Abstract!Next
  BY <1>4, ApplyLocalMaps DEF Abstract!Next
<1>5. ASSUME NEW x \in LocalSlots, Assign(x) PROVE Abstract!Next
  BY <1>1, <1>5, StoreMaps DEF Abstract!Next
<1>6. CASE UnaryOp
  BY <1>6, ApplyMaps DEF Abstract!Next
<1>7. CASE Fxch
  BY <1>7, ExchangeMaps DEF Abstract!Next
<1>8. CASE CombineOp
  BY <1>8, CombineMaps DEF Abstract!Next
<1>9. CASE BinaryOp
  BY <1>9, ReduceMaps DEF Abstract!Next
<1>10. CASE SplitOp
  BY <1>10, SplitMaps DEF Abstract!Next
<1>11. ASSUME NEW i \in {0, 1}, FldSt(i) PROVE Abstract!Next
  <2>1. Abstract!Copy(i)
    BY <1>1, <1>11, CopyMaps
  <2>2. CASE i = 0
    BY <2>1, <2>2 DEF Abstract!Next
  <2>3. CASE i = 1
    BY <2>1, <2>3 DEF Abstract!Next
  <2> QED BY <2>2, <2>3
<1>12. ASSUME NEW i \in {0, 1}, FstpSt(i) PROVE Abstract!Next
  <2>1. CASE i = 0
    BY <2>1, <1>1, <1>12, DropMaps DEF Abstract!Next
  <2>2. CASE i = 1
    BY <2>2, <1>1, <1>12, SquashMaps DEF Abstract!Next
  <2> QED BY <2>1, <2>2
<1>13. CASE AssignDummy \/ DeclareDummy
  BY <1>1, <1>13, DummyMaps DEF Abstract!Next
<1>14. CASE Declare
  BY <1>1, <1>14, DeclareMaps DEF Abstract!Next
<1>15. ASSUME NEW f \in Callees, Invoke(f) PROVE Abstract!Next
  BY <1>1, <1>15, CallMaps DEF Abstract!Next
<1>16. CASE OpenBlock
  BY <1>16, OpenMaps DEF Abstract!Next
<1>17. CASE CloseBlock
  BY <1>1, <1>17, CloseMaps DEF Abstract!Next, Phase
<1>18. CASE LeaveFunction
  BY <1>1, <1>18, LeaveMaps DEF Abstract!Next, Phase
<1>19. CASE Return
  BY <1>1, <1>19, ReturnMaps DEF Abstract!Next
<1>20. CASE Abort
  BY <1>20, AbortMaps DEF Abstract!Next
<1>21. CASE UNCHANGED machineVars
  BY <1>21, StutterMaps
<1> QED BY <1>2, <1>3, <1>4, <1>5, <1>6, <1>7, <1>8, <1>9, <1>10, <1>11, <1>12, <1>13, <1>14, <1>15,
           <1>16, <1>17, <1>18, <1>19, <1>20, <1>21 DEF MachineNext

(* The function body the assembler emits for DEPTH registers, with its     *)
(* spill code, behaves as on an operand stack of unlimited depth: no       *)
(* operand, argument or local variable is lost, reordered or overwritten,  *)
(* whatever the depth, the callees, the number of locals and of operands.  *)
THEOREM MachineImplementsStack == MachineSpec => Refinement
<1>1. MachineSpec => []MachineInductive
  BY MachineInductiveHolds
<1>2. MachineInit => Abstract!Init
  BY InitMaps
<1>3. MachineInductive /\ [MachineNext]_machineVars => [Abstract!Next]_(Abstract!vars)
  BY MachineStepMaps
<1> QED BY <1>1, <1>2, <1>3, PTL DEF MachineSpec, Refinement, Abstract!Spec

=============================================================================
