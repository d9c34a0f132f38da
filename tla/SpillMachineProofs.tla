-------------------------- MODULE SpillMachineProofs --------------------------
(***************************************************************************)
(* The code the assembler emits works on an operand stack of unlimited      *)
(* depth, whatever the number of registers: what SpillMachine checks on     *)
(* small machines, for all of them.                                        *)
(***************************************************************************)
EXTENDS SpillMachine, MonitorProofs, FiniteSetTheorems

(* The machine g is as the counters s say, with `top` values on registers: *)
(* the others are empty, the frame in use holds values, and no slot beyond *)
(* the declared frame was written.                                         *)
Holding(g, top, slots, deep) ==
  /\ g \in MachineState /\ ~ g.fault
  /\ g.stackUsed = slots
  /\ \A i \in F!Registers : /\ i < top => g.fpu[i] \in Val
                            /\ top <= i => g.fpu[i] \in F!Empty
  /\ \A x \in Slots : /\ x < slots => g.frame[x] \in Val
                      /\ deep <= x => g.frame[x] = Unwritten

Carries(s, top, g) == Holding(g, top, s.frameUsed, s.frameClobbered)

(* Unless all registers are declared, nothing was spilled, and those       *)
(* between the values in use and those that were in use before are fresh.  *)
FreshBetween(s, top, g) ==
  s.clobbered < DEPTH =>
    /\ s.frameUsed = s.locals
    /\ \A i \in F!Registers : top <= i /\ i < DEPTH - (s.clobbered - top) => g.fpu[i] = Fresh

(* The j-th operand, oldest first, when `base` slots hold local variables. *)
Operand(g, used, slots, base, j) ==
  IF j <= slots - base THEN g.frame[base + j - 1] ELSE g.fpu[((slots - base) + used) - j]

(* From g to r values moved between frame and registers: every operand and *)
(* every local variable is what it was.                                    *)
Keeps(base, g, used, slots, r, used2, slots2) ==
  /\ (slots2 - base) + used2 = (slots - base) + used
  /\ \A j \in 1 .. (slots - base) + used :
       Operand(r, used2, slots2, base, j) = Operand(g, used, slots, base, j)
  /\ \A x \in Slots : x < base => r.frame[x] = g.frame[x]

-----------------------------------------------------------------------------
(* The ring.                                                               *)

(* Positions on the ring are their own remainders. *)
LEMMA ModSmall ==
  ASSUME NEW D \in Nat \ {0}, NEW i \in 0 .. D - 1
  PROVE  i % D = i /\ (i + D) % D = i
  OBVIOUS

(* Either way round, registers move by n places.                           *)
LEMMA Turned ==
  ASSUME NEW fpu, NEW n \in 0 .. DEPTH
  PROVE  /\ F!TurnDown(fpu, n) = [i \in F!Registers |-> fpu[(i + n) % DEPTH]]
         /\ F!TurnUp(fpu, n) = [i \in F!Registers |-> fpu[(i + (DEPTH - n)) % DEPTH]]
<1>1. DEPTH - (DEPTH - n) = n
  BY DepthAssumption
<1> QED
  BY <1>1 DEF F!TurnDown, F!TurnUp, F!Fdecstp, F!Fincstp

(* What is known of every register is known of the ring.                   *)
IsRing(fpu) == fpu = [i \in F!Registers |-> fpu[i]]

(* What holds of every register of a ring types the ring. *)
LEMMA RingTyped ==
  ASSUME NEW fpu, IsRing(fpu), NEW S, \A i \in F!Registers : fpu[i] \in S
  PROVE  fpu \in [F!Registers -> S]
  BY DEF IsRing

(* Reloading turns the ring so that the values loaded come below those in   *)
(* use.                                                                    *)
BackInUse(fpu, loaded, used, consumed, turned, back) ==
  /\ IsRing(back)
  /\ \A i \in F!Registers :
       /\ i >= DEPTH - (consumed - used) => turned[i] = fpu[i - (DEPTH - consumed)]
       /\ used <= i /\ i < consumed => back[i] = loaded[(i - used) + 1]
       /\ ~ (used <= i /\ i < consumed) => back[i] = fpu[i]

(* Turned down past the operands it is to consume, given the reloaded      *)
(* values and turned back, the ring holds these beneath the values in use. *)
LEMMA RingReloaded ==
  ASSUME NEW fpu, NEW loaded, NEW used \in Nat, NEW consumed \in Nat,
         used < consumed, consumed <= DEPTH,
         NEW n, n = consumed - used,
         NEW turned, turned = F!TurnDown(fpu, consumed),
         NEW back, back = F!TurnDown(F!Pushed(turned, loaded, n), DEPTH - used)
  PROVE  BackInUse(fpu, loaded, used, consumed, turned, back)
<1> DEFINE pushed == F!Pushed(turned, loaded, n)
<1>0. DEPTH \in Nat \ {0} /\ n \in 1 .. DEPTH /\ F!Registers = 0 .. DEPTH - 1
  BY DepthAssumption DEF F!Registers
<1>1. turned = [i \in F!Registers |-> fpu[(i + consumed) % DEPTH]]
  BY Turned, <1>0
<1>2. F!TurnDown(pushed, DEPTH - used) = [i \in F!Registers |-> pushed[(i + (DEPTH - used)) % DEPTH]]
  <2>1. DEPTH - used \in 0 .. DEPTH
    BY <1>0
  <2> HIDE DEF pushed
  <2> QED BY ONLY Turned, <2>1
<1>3. \A i \in F!Registers : i >= DEPTH - n => turned[i] = fpu[i - (DEPTH - consumed)]
  <2> SUFFICES ASSUME NEW i \in F!Registers, i >= DEPTH - n
               PROVE  turned[i] = fpu[i - (DEPTH - consumed)]
    OBVIOUS
  <2>1. i - (DEPTH - consumed) \in 0 .. DEPTH - 1 /\ (i - (DEPTH - consumed)) + DEPTH = i + consumed
    BY <1>0
  <2>2. (i + consumed) % DEPTH = i - (DEPTH - consumed)
    BY <2>1, <1>0, ModSmall
  <2> QED BY <2>2, <1>1
<1>4. ASSUME NEW i \in F!Registers
      PROVE  pushed[(i + (DEPTH - used)) % DEPTH]
               = IF used <= i /\ i < consumed THEN loaded[(i - used) + 1] ELSE fpu[i]
  <2> DEFINE j == (i + (DEPTH - used)) % DEPTH
  <2>1. CASE i < used
    <3>1. i + (DEPTH - used) \in 0 .. DEPTH - 1
      BY <2>1, <1>0
    <3>2. j = i + (DEPTH - used)
      BY <3>1, <1>0, ModSmall
    <3>3. j \in F!Registers /\ ~ (j < n)
      BY <3>1, <3>2, <1>0, <2>1
    <3>4. pushed[j] = turned[j - n]
      BY <3>3, <1>0 DEF F!Pushed
    <3>5. j - n \in F!Registers /\ (j - n) + consumed = i + DEPTH
      BY <3>2, <3>3, <1>0
    <3>6. ((j - n) + consumed) % DEPTH = i
      BY <3>5, <1>0, ModSmall
    <3>7. turned[j - n] = fpu[i]
      BY <3>5, <3>6, <1>1
    <3> QED BY <3>4, <3>7, <2>1, <1>0
  <2>2. CASE used <= i
    <3>1. i - used \in 0 .. DEPTH - 1 /\ (i - used) + DEPTH = i + (DEPTH - used)
      BY <2>2, <1>0
    <3>2. j = i - used
      BY <3>1, <1>0, ModSmall
    <3>3. CASE i < consumed
      <4>1. j \in F!Registers /\ j < n
        BY <3>1, <3>2, <3>3, <1>0
      <4> QED BY <4>1, <3>2, <3>3, <2>2, <1>0 DEF F!Pushed
    <3>4. CASE ~ (i < consumed)
      <4>1. j \in F!Registers /\ ~ (j < n) /\ j - n \in F!Registers /\ (j - n) + consumed = i
        BY <3>1, <3>2, <3>4, <1>0
      <4>2. ((j - n) + consumed) % DEPTH = i
        BY <4>1, <1>0, ModSmall
      <4>3. pushed[j] = turned[j - n] /\ turned[j - n] = fpu[i]
        BY <4>1, <4>2, <1>1 DEF F!Pushed
      <4> QED BY <4>3, <3>4, <1>0
    <3> QED BY <3>3, <3>4
  <2> QED BY <2>1, <2>2, <1>0
<1>5. back = F!TurnDown(pushed, DEPTH - used)
  OBVIOUS
<1> HIDE DEF pushed
<1> QED BY <1>2, <1>3, <1>4, <1>5 DEF IsRing, BackInUse

(* Spilling turns the ring so that the deepest values are on top, and back *)
(* if any are left.                                                        *)
MovedOut(fpu, used, n, turned, back) ==
  /\ IsRing(back)
  /\ \A i \in 0 .. n - 1 : turned[i] = fpu[(used - n) + i]
  /\ \A i \in F!Registers :
       /\ i < used - n => back[i] = fpu[i]
       /\ used - n <= i => \/ back[i] = Stale
                           \/ \E j \in F!Registers : used <= j /\ back[i] = fpu[j]

(* Turned up by the registers not in use and the values to spill, freed of *)
(* these and turned back, the ring holds the values that remain in use.    *)
LEMMA RingSpilled ==
  ASSUME NEW fpu, NEW used \in Nat, NEW n \in Nat, NEW up \in Nat,
         1 <= n, n <= used, used <= DEPTH, up <= DEPTH, up = n + (DEPTH - used),
         NEW turned, turned = F!TurnUp(fpu, up),
         NEW popped, popped = F!Popped(turned, n),
         NEW back, back = IF used - n = 0 THEN popped ELSE F!TurnDown(popped, DEPTH - used)
  PROVE  MovedOut(fpu, used, n, turned, back)
<1>0. DEPTH \in Nat \ {0} /\ n \in 1 .. DEPTH /\ F!Registers = 0 .. DEPTH - 1
  BY DepthAssumption DEF F!Registers
<1>1. turned = [i \in F!Registers |-> fpu[(i + (DEPTH - up)) % DEPTH]]
  <2>1. up \in 0 .. DEPTH
    BY <1>0
  <2> QED BY Turned, <2>1
<1>2. popped = [i \in F!Registers |-> IF i < DEPTH - n THEN turned[i + n] ELSE Stale]
  BY DEF F!Popped
<1>3. \A i \in 0 .. n - 1 : turned[i] = fpu[(used - n) + i]
  <2> SUFFICES ASSUME NEW i \in 0 .. n - 1
               PROVE  turned[i] = fpu[(used - n) + i]
    OBVIOUS
  <2>1. i \in F!Registers /\ i + (DEPTH - up) = (used - n) + i /\ (used - n) + i \in 0 .. DEPTH - 1
    BY <1>0
  <2>2. ((used - n) + i) % DEPTH = (used - n) + i
    BY <2>1, <1>0, ModSmall
  <2> QED BY <2>1, <2>2, <1>1
<1>4. ASSUME NEW i \in F!Registers, i < DEPTH - n
      PROVE  popped[i] = fpu[(i + used) % DEPTH]
  <2>1. i + n \in F!Registers /\ (i + n) + (DEPTH - up) = i + used
    BY <1>0, <1>4
  <2> QED BY <2>1, <1>1, <1>2, <1>4
<1>5. used = n => popped = [i \in F!Registers |-> IF i < DEPTH - n THEN fpu[i + used] ELSE Stale]
  <2> SUFFICES ASSUME used = n, NEW i \in F!Registers
               PROVE  popped[i] = IF i < DEPTH - n THEN fpu[i + used] ELSE Stale
    BY <1>2
  <2>1. CASE i < DEPTH - n
    <3>1. i + used \in 0 .. DEPTH - 1
      BY <2>1, <1>0
    <3>2. (i + used) % DEPTH = i + used
      BY <3>1, <1>0, ModSmall
    <3> QED BY <3>2, <1>4, <2>1
  <2> QED BY <2>1, <1>2
<1>6. ASSUME NEW i \in F!Registers
      PROVE  popped[(i + (DEPTH - used)) % DEPTH]
               = IF used - n <= i /\ i < used THEN Stale ELSE fpu[i]
  <2> DEFINE j == (i + (DEPTH - used)) % DEPTH
  <2>1. CASE i < used
    <3>1. i + (DEPTH - used) \in 0 .. DEPTH - 1
      BY <2>1, <1>0
    <3>2. j = i + (DEPTH - used)
      BY <3>1, <1>0, ModSmall
    <3>3. j \in F!Registers /\ j + used = i + DEPTH /\ (j < DEPTH - n <=> i < used - n)
      BY <3>1, <3>2, <1>0
    <3>4. (j + used) % DEPTH = i
      BY <3>3, <1>0, ModSmall
    <3>5. CASE i < used - n
      <4>1. popped[j] = fpu[(j + used) % DEPTH]
        BY <3>3, <3>5, <1>4
      <4> QED BY <4>1, <3>4, <3>5, <1>0
    <3>6. CASE ~ (i < used - n)
      <4>1. popped[j] = Stale
        BY <3>3, <3>6, <1>2
      <4> QED BY <4>1, <3>6, <2>1, <1>0
    <3> QED BY <3>5, <3>6
  <2>2. CASE used <= i
    <3>1. i - used \in 0 .. DEPTH - 1 /\ (i - used) + DEPTH = i + (DEPTH - used)
      BY <2>2, <1>0
    <3>2. j = i - used
      BY <3>1, <1>0, ModSmall
    <3>3. j \in F!Registers /\ j + used = i /\ j < DEPTH - n
      BY <3>1, <3>2, <1>0
    <3>4. (j + used) % DEPTH = i
      BY <3>3, <1>0, ModSmall
    <3>5. popped[j] = fpu[(j + used) % DEPTH]
      BY <3>3, <1>4
    <3> QED BY <3>5, <3>4, <2>2, <1>0
  <2> QED BY <2>1, <2>2, <1>0
<1>7. F!TurnDown(popped, DEPTH - used) = [i \in F!Registers |-> popped[(i + (DEPTH - used)) % DEPTH]]
  <2>1. DEPTH - used \in 0 .. DEPTH
    BY <1>0
  <2> QED BY ONLY Turned, <2>1
<1>8. IsRing(popped) /\ IsRing(F!TurnDown(popped, DEPTH - used))
  BY <1>2, <1>7 DEF IsRing
<1>9. CASE used = n
  <2>1. back = popped
    BY <1>9
  <2>2. ASSUME NEW i \in F!Registers
        PROVE  back[i] = Stale \/ \E j \in F!Registers : used <= j /\ back[i] = fpu[j]
    <3>1. CASE i < DEPTH - n
      <4>1. i + used \in F!Registers /\ used <= i + used
        BY <1>0, <3>1, <1>9
      <4> QED BY <4>1, <3>1, <2>1, <1>5, <1>9
    <3> QED BY <3>1, <2>1, <1>5, <1>9
  <2>3. used - n = 0 /\ \A i \in F!Registers : ~ (i < 0)
    BY <1>0, <1>9
  <2> QED BY <2>1, <2>2, <2>3, <1>3, <1>8 DEF MovedOut
<1>10. CASE n < used
  <2>1. back = F!TurnDown(popped, DEPTH - used)
    BY <1>10
  <2>2. ASSUME NEW i \in F!Registers
        PROVE  /\ i < used - n => back[i] = fpu[i]
               /\ used - n <= i => \/ back[i] = Stale
                                   \/ \E j \in F!Registers : used <= j /\ back[i] = fpu[j]
    <3>1. back[i] = IF used - n <= i /\ i < used THEN Stale ELSE fpu[i]
      BY <2>1, <1>6, <1>7
    <3> QED BY <3>1, <1>0
  <2> QED BY <2>1, <2>2, <1>3, <1>8 DEF MovedOut
<1> QED BY <1>9, <1>10

-----------------------------------------------------------------------------
(* The spill code of adjust.                                               *)

(* The types of the machine's dimensions, from the assumptions on the *)
(* constants.                                                         *)
LEMMA RegistersTyped ==
  /\ DEPTH \in Nat \ {0} /\ F!Registers = 0 .. DEPTH - 1 /\ F!Empty = {Fresh, Stale}
  /\ FrameSize \in Nat /\ Slots = 0 .. FrameSize - 1
  BY DepthAssumption, FrameAssumption DEF F!Registers, F!Empty, Slots

(* The record of a machine: it is read one part at a time.                 *)
IsMachine(g) ==
  g = [fpu |-> g.fpu, frame |-> g.frame, stackUsed |-> g.stackUsed, fault |-> g.fault]

Sound(g) == IsMachine(g) /\ g.fault \in BOOLEAN /\ ~ g.fault

(* A machine of the right type without fault, field by field. *)
LEMMA MachineParts ==
  ASSUME NEW g
  PROVE  g \in MachineState /\ ~ g.fault <=>
           /\ Sound(g) /\ g.stackUsed \in Nat
           /\ g.fpu \in [F!Registers -> Val \cup F!Empty]
           /\ g.frame \in [Slots -> Val \cup {Unwritten, Junk}]
  BY DEF IsMachine, MachineState, Sound

(* Turning back, turn_back() in Assembler::adjust, moves registers only. *)
LEMMA TurnParts ==
  ASSUME NEW g, Sound(g), NEW used, NEW unused
  PROVE  LET r == TurnBack(g, used, unused)
         IN  /\ Sound(r) /\ r.fpu = IF used = 0 THEN g.fpu ELSE F!TurnDown(g.fpu, unused)
             /\ r.frame = g.frame /\ r.stackUsed = g.stackUsed
  BY DEF Sound, IsMachine, TurnBack

(* Values come back from the frame below those on the registers.           *)
LEMMA ReloadHolds ==
  ASSUME NEW g, NEW used \in Nat, NEW slots \in Nat, NEW deep \in Nat, NEW c \in Nat, NEW base \in Nat,
         Holding(g, used, slots, deep), used < c, c <= DEPTH, base + (c - used) <= slots,
         slots <= FrameSize, slots <= deep
  PROVE  LET n == c - used
             from == slots - n
             r == TurnBack(Reload([g EXCEPT !.fpu = F!TurnDown(@, c)], from, n), c, DEPTH - used)
         IN  Holding(r, c, from, deep) /\ Keeps(base, g, used, slots, r, c, from)
<1> DEFINE n == c - used
           from == slots - n
           turned == F!TurnDown(g.fpu, c)
           loaded == [j \in 1 .. n |-> g.frame[from + n - j]]
           pushed == F!Pushed(turned, loaded, n)
           back   == F!TurnDown(pushed, DEPTH - used)
           r == TurnBack(Reload([g EXCEPT !.fpu = F!TurnDown(@, c)], from, n), c, DEPTH - used)
<1>0. /\ n \in Nat /\ n # 0 /\ from \in Nat /\ from + n = slots /\ c # 0 /\ n = slots - from
      /\ DEPTH \in Nat \ {0} /\ F!Registers = 0 .. DEPTH - 1 /\ F!Empty = {Fresh, Stale}
      /\ FrameSize \in Nat /\ Slots = 0 .. FrameSize - 1
  BY RegistersTyped
<1>g. /\ Sound(g) /\ g.stackUsed = slots
      /\ g.fpu \in [F!Registers -> Val \cup F!Empty]
      /\ g.frame \in [Slots -> Val \cup {Unwritten, Junk}]
      /\ \A i \in F!Registers : /\ i < used => g.fpu[i] \in Val
                                /\ used <= i => g.fpu[i] \in F!Empty
      /\ \A x \in Slots : /\ x < slots => g.frame[x] \in Val
                          /\ deep <= x => g.frame[x] = Unwritten
  BY MachineParts DEF Holding
<1>4. /\ \A i \in F!Registers : i >= DEPTH - n => turned[i] = g.fpu[i - (DEPTH - c)]
      /\ IsRing(back)
      /\ \A i \in F!Registers :
           /\ used <= i /\ i < c => back[i] = loaded[(i - used) + 1]
           /\ ~ (used <= i /\ i < c) => back[i] = g.fpu[i]
  <2> DEFINE fpu == g.fpu
  <2>1. n = c - used /\ turned = F!TurnDown(fpu, c)
    OBVIOUS
  <2>2. back = F!TurnDown(F!Pushed(turned, loaded, n), DEPTH - used)
    OBVIOUS
  <2> HIDE DEF loaded, n, turned, pushed, back, fpu
  <2>3. BackInUse(fpu, loaded, used, c, turned, back)
    BY <2>1, <2>2, RingReloaded
  <2> QED BY <2>3 DEF BackInUse, n, fpu
<1>5. ~ F!PushFaults(turned, n)
  <2>1. ASSUME NEW i \in F!Registers, i >= DEPTH - n
        PROVE  turned[i] \in F!Empty
    <3>1. i - (DEPTH - c) \in F!Registers /\ used <= i - (DEPTH - c)
      BY <1>0, <2>1
    <3> QED BY <3>1, <1>4, <2>1, <1>g
  <2> QED BY <2>1 DEF F!PushFaults
<1>3. Sound(r) /\ r.fpu = back /\ r.frame = Forget(g.frame, from) /\ r.stackUsed = from
  <2> DEFINE t == [g EXCEPT !.fpu = turned]
             u == Reload(t, from, n)
  <2> HIDE DEF turned, n, from
  <2>1. Sound(t) /\ t.fpu = turned /\ t.frame = g.frame /\ t.stackUsed = slots
    BY <1>g DEF Sound, IsMachine
  <2> HIDE DEF t
  <2>2. u = Faulty([t EXCEPT !.fpu = pushed, !.frame = Forget(g.frame, from), !.stackUsed = from],
                   F!PushFaults(turned, n) \/ n # slots - from)
    BY <2>1 DEF Reload
  <2> HIDE DEF u, pushed
  <2>3. /\ Sound(u) /\ u.fpu = pushed
        /\ u.frame = Forget(g.frame, from) /\ u.stackUsed = from
    BY <2>1, <2>2, <1>0, <1>5 DEF Faulty, Sound, IsMachine
  <2>4. r = TurnBack(u, c, DEPTH - used)
    BY DEF u, t, turned
  <2> HIDE DEF r
  <2> QED BY <2>3, <2>4, <1>0, TurnParts
<1> HIDE DEF r, back
<1>6. \A i \in F!Registers :
        r.fpu[i] = IF used <= i /\ i < c THEN g.frame[(slots - 1) - (i - used)] ELSE g.fpu[i]
  <2> SUFFICES ASSUME NEW i \in F!Registers
               PROVE  r.fpu[i] = IF used <= i /\ i < c THEN g.frame[(slots - 1) - (i - used)]
                                                       ELSE g.fpu[i]
    OBVIOUS
  <2>1. CASE used <= i /\ i < c
    <3>1. (i - used) + 1 \in 1 .. n /\ from + n - ((i - used) + 1) = (slots - 1) - (i - used)
      BY <1>0, <2>1
    <3> HIDE DEF n, from
    <3>2. loaded[(i - used) + 1] = g.frame[(slots - 1) - (i - used)]
      BY <3>1
    <3> HIDE DEF loaded
    <3> QED BY <3>2, <2>1, <1>3, <1>4
  <2>2. CASE ~ (used <= i /\ i < c)
    BY <2>2, <1>3, <1>4
  <2> QED BY <2>1, <2>2
<1>7. \A x \in Slots : r.frame[x] = IF x >= from /\ g.frame[x] # Unwritten THEN Junk ELSE g.frame[x]
  <2> HIDE DEF from
  <2> QED BY <1>3 DEF Forget
<1>8. r.fpu \in [F!Registers -> Val \cup F!Empty]
      /\ \A i \in F!Registers : /\ i < c => r.fpu[i] \in Val
                                /\ c <= i => r.fpu[i] \in F!Empty
  <2>1. ASSUME NEW i \in F!Registers
        PROVE  /\ i < c => r.fpu[i] \in Val
               /\ c <= i => r.fpu[i] \in F!Empty
    <3>1. CASE used <= i /\ i < c
      <4>1. (slots - 1) - (i - used) \in Slots /\ (slots - 1) - (i - used) < slots
        BY <1>0, <3>1
      <4>2. r.fpu[i] = g.frame[(slots - 1) - (i - used)]
        BY <3>1, <1>6
      <4>3. r.fpu[i] \in Val
        BY <4>1, <4>2, <1>g
      <4> QED BY <4>3, <3>1, <1>0
    <3>2. CASE ~ (used <= i /\ i < c)
      <4>1. r.fpu[i] = g.fpu[i]
        BY <3>2, <1>6
      <4>2. i < used \/ (used <= i /\ ~ (i < c))
        BY <3>2, <1>0
      <4> QED BY <4>1, <4>2, <1>g, <1>0
    <3> QED BY <3>1, <3>2
  <2>2. \A i \in F!Registers : i < c \/ c <= i
    BY <1>0
  <2>3. \A i \in F!Registers : r.fpu[i] \in Val \cup F!Empty
    BY <2>1, <2>2
  <2> QED BY <2>1, <2>3, <1>3, <1>4, RingTyped
<1>9. r.frame \in [Slots -> Val \cup {Unwritten, Junk}]
  <2> HIDE DEF from
  <2> QED BY <1>g, <1>3 DEF Forget
<1>10. \A x \in Slots : /\ x < from => r.frame[x] = g.frame[x] /\ r.frame[x] \in Val
                        /\ deep <= x => r.frame[x] = Unwritten
  BY <1>7, <1>g, <1>0
<1>11. Holding(r, c, from, deep)
  <2> HIDE DEF from
  <2> QED BY <1>3, <1>8, <1>9, <1>10, <1>0, MachineParts DEF Holding
<1>12. ASSUME NEW j \in 1 .. (slots - base) + used
       PROVE  Operand(r, c, from, base, j) = Operand(g, used, slots, base, j)
  <2>0. /\ slots - base \in Nat /\ from - base = (slots - base) - n
        /\ (from - base) + c = (slots - base) + used
        /\ j \in Nat /\ 1 <= j /\ j <= (slots - base) + used
    BY <1>0
  <2> DEFINE i == ((slots - base) + used) - j
  <2>1. CASE j <= from - base
    <3>1. base + j - 1 \in Slots /\ base + j - 1 < from /\ j <= slots - base
      BY <2>1, <2>0, <1>0
    <3>2. r.frame[base + j - 1] = g.frame[base + j - 1]
      BY <3>1, <1>10
    <3> QED BY <3>1, <3>2, <2>1 DEF Operand
  <2>2. CASE ~ (j <= from - base) /\ j <= slots - base
    <3>1. i \in F!Registers /\ used <= i /\ i < c /\ (slots - 1) - (i - used) = base + j - 1
      BY <2>2, <2>0, <1>0
    <3>2. r.fpu[i] = g.frame[base + j - 1]
      <4>1. r.fpu[i] = g.frame[(slots - 1) - (i - used)]
        BY <3>1, <1>6
      <4> QED BY <4>1, <3>1
    <3>3. Operand(r, c, from, base, j) = r.fpu[i]
      BY <2>2, <2>0 DEF Operand
    <3> QED BY <3>2, <3>3, <2>2 DEF Operand
  <2>3. CASE ~ (j <= slots - base)
    <3>1. i \in F!Registers /\ i < used /\ ~ (j <= from - base)
      BY <2>3, <2>0, <1>0
    <3>2. r.fpu[i] = g.fpu[i]
      BY <3>1, <1>6
    <3>3. Operand(r, c, from, base, j) = r.fpu[i]
      BY <3>1, <2>0 DEF Operand
    <3> QED BY <3>2, <3>3, <2>3 DEF Operand
  <2> QED BY <2>1, <2>2, <2>3
<1>13. Keeps(base, g, used, slots, r, c, from)
  <2>1. (from - base) + c = (slots - base) + used
    BY <1>0
  <2>2. \A x \in Slots : x < base => r.frame[x] = g.frame[x]
    <3>1. \A x \in Slots : x < base => x < from
      BY <1>0
    <3> HIDE DEF from
    <3> QED BY <3>1, <1>10
  <2>3. \A j \in 1 .. (slots - base) + used :
          Operand(r, c, from, base, j) = Operand(g, used, slots, base, j)
    BY <1>12
  <2> HIDE DEF from
  <2> QED BY <2>1, <2>2, <2>3 DEF Keeps
<1> QED BY <1>11, <1>13 DEF r

(* Values move from below those in use to the top of the frame.            *)
LEMMA SpillHolds ==
  ASSUME NEW g, NEW used \in Nat, NEW slots \in Nat, NEW deep \in Nat, NEW n \in Nat,
         NEW up \in Nat, NEW base \in Nat, NEW deeper \in Nat,
         Holding(g, used, slots, deep), 1 <= n, n <= used, used <= DEPTH,
         up <= DEPTH, up = n + (DEPTH - used), base <= slots,
         slots + n <= FrameSize, deep <= deeper, slots + n <= deeper
  PROVE  LET to == slots + n
             r == TurnBack(Spill([g EXCEPT !.fpu = F!TurnUp(@, up)], to, n), used - n, DEPTH - used)
         IN  Holding(r, used - n, to, deeper) /\ Keeps(base, g, used, slots, r, used - n, to)
<1> DEFINE to == slots + n
           left == used - n
           turned == F!TurnUp(g.fpu, up)
           popped == F!Popped(turned, n)
           back   == IF used - n = 0 THEN popped ELSE F!TurnDown(popped, DEPTH - used)
           moved == [x \in Slots |-> IF x < to /\ x >= to - n THEN turned[to - 1 - x] ELSE g.frame[x]]
           r == TurnBack(Spill([g EXCEPT !.fpu = F!TurnUp(@, up)], to, n), used - n, DEPTH - used)
<1>0. /\ to \in Nat /\ left \in Nat /\ n = to - slots /\ left <= DEPTH /\ left <= used
      /\ DEPTH \in Nat \ {0} /\ F!Registers = 0 .. DEPTH - 1 /\ F!Empty = {Fresh, Stale}
      /\ FrameSize \in Nat /\ Slots = 0 .. FrameSize - 1
  BY RegistersTyped
<1>g. /\ Sound(g) /\ g.stackUsed = slots
      /\ g.fpu \in [F!Registers -> Val \cup F!Empty]
      /\ g.frame \in [Slots -> Val \cup {Unwritten, Junk}]
      /\ \A i \in F!Registers : /\ i < used => g.fpu[i] \in Val
                                /\ used <= i => g.fpu[i] \in F!Empty
      /\ \A x \in Slots : /\ x < slots => g.frame[x] \in Val
                          /\ deep <= x => g.frame[x] = Unwritten
  BY MachineParts DEF Holding
<1>4. /\ IsRing(back)
      /\ \A i \in 0 .. n - 1 : turned[i] = g.fpu[left + i]
      /\ \A i \in F!Registers :
           /\ i < left => back[i] = g.fpu[i]
           /\ left <= i => \/ back[i] = Stale
                           \/ \E j \in F!Registers : used <= j /\ back[i] = g.fpu[j]
  <2> DEFINE fpu == g.fpu
  <2>1. turned = F!TurnUp(fpu, up) /\ popped = F!Popped(turned, n)
    OBVIOUS
  <2>2. back = IF used - n = 0 THEN popped ELSE F!TurnDown(popped, DEPTH - used)
    OBVIOUS
  <2> HIDE DEF turned, popped, back, fpu
  <2>3. MovedOut(fpu, used, n, turned, back)
    BY <2>1, <2>2, RingSpilled
  <2> QED BY <2>3 DEF MovedOut, fpu
<1>5. \A i \in 0 .. n - 1 : turned[i] \in Val
  <2>1. \A i \in 0 .. n - 1 : left + i \in F!Registers /\ left + i < used
    BY <1>0
  <2> HIDE DEF turned, left
  <2> QED BY <2>1, <1>4, <1>g
<1>6. ~ F!PopFaults(turned, n)
  <2>1. \A i \in F!Registers : i < n => i \in 0 .. n - 1
    BY <1>0
  <2> HIDE DEF turned
  <2> QED BY <2>1, <1>5, <1>0, MarksAssumption DEF F!PopFaults
<1>3. Sound(r) /\ r.fpu = back /\ r.frame = moved /\ r.stackUsed = to
  <2> DEFINE t == [g EXCEPT !.fpu = turned]
             u == Spill(t, to, n)
  <2> HIDE DEF turned, to
  <2>1. Sound(t) /\ t.fpu = turned /\ t.frame = g.frame /\ t.stackUsed = slots
    BY <1>g DEF Sound, IsMachine
  <2> HIDE DEF t
  <2>2. u = Faulty([t EXCEPT !.fpu = popped, !.frame = moved, !.stackUsed = to],
                   F!PopFaults(turned, n) \/ n # to - slots)
    BY <2>1 DEF Spill
  <2> HIDE DEF u, popped, moved
  <2>3. /\ Sound(u) /\ u.fpu = popped
        /\ u.frame = moved /\ u.stackUsed = to
    BY <2>1, <2>2, <1>0, <1>6 DEF Faulty, Sound, IsMachine
  <2>4. r = TurnBack(u, used - n, DEPTH - used)
    BY DEF u, t, turned
  <2> HIDE DEF r
  <2> QED BY <2>3, <2>4, TurnParts
<1> HIDE DEF r, back
<1>7. \A x \in Slots : /\ x < slots => r.frame[x] = g.frame[x]
                       /\ slots <= x /\ x < to => r.frame[x] = g.fpu[(used - 1) - (x - slots)]
                       /\ to <= x => r.frame[x] = g.frame[x]
  <2> SUFFICES ASSUME NEW x \in Slots
               PROVE  /\ x < slots => r.frame[x] = g.frame[x]
                      /\ slots <= x /\ x < to => r.frame[x] = g.fpu[(used - 1) - (x - slots)]
                      /\ to <= x => r.frame[x] = g.frame[x]
    OBVIOUS
  <2>1. CASE slots <= x /\ x < to
    <3>1. (to - 1) - x \in 0 .. n - 1 /\ left + ((to - 1) - x) = (used - 1) - (x - slots)
          /\ x >= to - n /\ ~ (x < slots) /\ ~ (to <= x) /\ to - 1 - x = (to - 1) - x
      BY <2>1, <1>0
    <3> HIDE DEF turned, to, left
    <3>2. r.frame[x] = turned[(to - 1) - x]
      BY <3>1, <2>1, <1>3
    <3>3. turned[(to - 1) - x] = g.fpu[left + ((to - 1) - x)]
      BY <3>1, <1>4
    <3> QED BY <3>1, <3>2, <3>3
  <2>2. CASE ~ (slots <= x /\ x < to)
    <3>1. ~ (x < to /\ x >= to - n)
      BY <2>2, <1>0
    <3> HIDE DEF turned, to
    <3> QED BY <3>1, <2>2, <1>3
  <2> QED BY <2>1, <2>2
<1> HIDE DEF moved, popped, turned
<1>8. ASSUME NEW i \in F!Registers
      PROVE  /\ i < left => r.fpu[i] = g.fpu[i] /\ r.fpu[i] \in Val
             /\ left <= i => r.fpu[i] \in F!Empty
             /\ r.fpu[i] \in Val \cup F!Empty
  <2>1. i < left => i < used
    BY <1>0
  <2>2. /\ i < left \/ left <= i
        /\ ~ (i < left /\ left <= i)
    BY <1>0
  <2>3. Stale \in F!Empty
    BY <1>0
  <2> HIDE DEF left
  <2>4. CASE i < left
    <3>1. r.fpu[i] = g.fpu[i]
      BY <2>4, <1>3, <1>4
    <3> QED BY <3>1, <2>1, <2>2, <2>4, <1>g
  <2>5. CASE left <= i
    <3>1. r.fpu[i] = Stale \/ \E j \in F!Registers : used <= j /\ r.fpu[i] = g.fpu[j]
      BY <2>5, <1>3, <1>4
    <3>2. r.fpu[i] \in F!Empty
      BY <3>1, <2>3, <1>g
    <3> QED BY <3>2, <2>2, <2>5
  <2> QED BY <2>2, <2>4, <2>5
<1>9. r.fpu \in [F!Registers -> Val \cup F!Empty]
  BY <1>3, <1>4, <1>8, RingTyped
<1>10. ASSUME NEW x \in Slots
       PROVE  /\ x < to => r.frame[x] \in Val
              /\ deeper <= x => r.frame[x] = Unwritten
              /\ r.frame[x] \in Val \cup {Unwritten, Junk}
  <2>1. CASE slots <= x /\ x < to
    <3>1. (used - 1) - (x - slots) \in F!Registers /\ (used - 1) - (x - slots) < used
          /\ ~ (deeper <= x)
      BY <2>1, <1>0
    <3>2. r.frame[x] = g.fpu[(used - 1) - (x - slots)]
      BY <2>1, <1>7
    <3>3. r.frame[x] \in Val
      BY <3>1, <3>2, <1>g
    <3> QED BY <3>1, <3>3
  <2>2. CASE ~ (slots <= x /\ x < to)
    <3>1. x < slots \/ (to <= x /\ ~ (x < to))
      BY <2>2, <1>0
    <3>2. deeper <= x => deep <= x
      BY <1>0
    <3> HIDE DEF to
    <3>3. r.frame[x] = g.frame[x]
      BY <3>1, <1>7
    <3> QED BY <3>1, <3>2, <3>3, <1>g
  <2> QED BY <2>1, <2>2
<1>11. r.frame \in [Slots -> Val \cup {Unwritten, Junk}]
  <2>1. r.frame = [x \in Slots |-> r.frame[x]]
    BY <1>3 DEF moved
  <2> QED BY <2>1, <1>10
<1>12. Holding(r, left, to, deeper)
  <2>1. \A i \in F!Registers : /\ i < left => r.fpu[i] \in Val
                               /\ left <= i => r.fpu[i] \in F!Empty
    BY <1>8
  <2>2. \A x \in Slots : /\ x < to => r.frame[x] \in Val
                         /\ deeper <= x => r.frame[x] = Unwritten
    BY <1>10
  <2> HIDE DEF left, to
  <2> QED BY <1>0, <1>3, <1>9, <1>11, <2>1, <2>2, MachineParts DEF Holding
<1>13. ASSUME NEW j \in 1 .. (slots - base) + used
       PROVE  Operand(r, left, to, base, j) = Operand(g, used, slots, base, j)
  <2>0. /\ slots - base \in Nat /\ to - base = (slots - base) + n
        /\ (to - base) + left = (slots - base) + used
        /\ j \in Nat /\ 1 <= j /\ j <= (slots - base) + used
    BY <1>0
  <2> DEFINE i == ((slots - base) + used) - j
  <2>1. CASE j <= slots - base
    <3>1. base + j - 1 \in Slots /\ base + j - 1 < slots /\ j <= to - base
      BY <2>1, <2>0, <1>0
    <3>2. r.frame[base + j - 1] = g.frame[base + j - 1]
      BY <3>1, <1>7
    <3> QED BY <3>1, <3>2, <2>1 DEF Operand
  <2>2. CASE ~ (j <= slots - base) /\ j <= to - base
    <3>1. /\ base + j - 1 \in Slots /\ slots <= base + j - 1 /\ base + j - 1 < to
          /\ (used - 1) - ((base + j - 1) - slots) = i
      BY <2>2, <2>0, <1>0
    <3>2. r.frame[base + j - 1] = g.fpu[i]
      <4>1. r.frame[base + j - 1] = g.fpu[(used - 1) - ((base + j - 1) - slots)]
        BY <3>1, <1>7
      <4> QED BY <4>1, <3>1
    <3>3. Operand(g, used, slots, base, j) = g.fpu[i]
      BY <2>2, <2>0 DEF Operand
    <3> QED BY <3>2, <3>3, <2>2 DEF Operand
  <2>3. CASE ~ (j <= to - base)
    <3>1. i \in F!Registers /\ i < left /\ ~ (j <= slots - base)
      BY <2>3, <2>0, <1>0
    <3>2. r.fpu[i] = g.fpu[i]
      BY <3>1, <1>8
    <3>3. Operand(r, left, to, base, j) = r.fpu[i]
      BY <2>3, <2>0 DEF Operand
    <3> QED BY <3>1, <3>2, <3>3 DEF Operand
  <2> QED BY <2>1, <2>2, <2>3
<1>14. Keeps(base, g, used, slots, r, left, to)
  <2>1. (to - base) + left = (slots - base) + used
    BY <1>0
  <2>2. \A x \in Slots : x < base => r.frame[x] = g.frame[x]
    <3>1. \A x \in Slots : x < base => x < slots
      BY <1>0
    <3> QED BY <3>1, <1>7
  <2>3. \A j \in 1 .. (slots - base) + used :
          Operand(r, left, to, base, j) = Operand(g, used, slots, base, j)
    BY <1>13
  <2> HIDE DEF left, to
  <2> QED BY <2>1, <2>2, <2>3 DEF Keeps
<1> QED BY <1>12, <1>14 DEF r

-----------------------------------------------------------------------------
(* The spill code of adjust, whichever way values move.                    *)

(* A frame that reaches deeper has no more slots that must be unwritten. *)
LEMMA HoldingDeeper ==
  ASSUME NEW g, NEW top, NEW slots, NEW deep \in Nat, NEW deeper \in Nat,
         Holding(g, top, slots, deep), deep <= deeper
  PROVE  Holding(g, top, slots, deeper)
  BY RegistersTyped DEF Holding

(* After the spill code: either none was emitted, or every register is      *)
(* declared, now or when the instruction is done.                          *)
SpillCodeDone(c, k, b, g) ==
  /\ Carries(b, b.used, g)
  /\ Keeps(m.locals, h, m.used, m.frameUsed, g, b.used, b.frameUsed)
  /\ \/ b = m /\ g = h
     \/ m.clobbered = DEPTH
     \/ (b.used - c) + k = DEPTH

(* The code spill() emits for a request leaves the operands in place and *)
(* the machine as the counters say: reloading, spilling and neither.     *)
LEMMA SpillCodeCarries ==
  ASSUME Counted(m), Carries(m, m.used, h), FreshBetween(m, m.used, h),
         m.locals + Excess(m) <= FrameSize,
         NEW c, NEW p, NEW k, Servable(m, c, p, k)
  PROVE  SpillCodeDone(c, k, Balanced(m, c, k), SpillCode(c, k))
<1> DEFINE b == Balanced(m, c, k)
           g == SpillCode(c, k)
<1>1. /\ m.used \in Nat /\ m.frameUsed \in Nat /\ m.locals \in Nat /\ m.clobbered \in Nat
      /\ m.frameClobbered \in Nat /\ m.used <= m.clobbered /\ m.clobbered <= DEPTH
      /\ m.locals <= m.frameUsed /\ m.frameUsed <= m.frameClobbered
      /\ Excess(m) = (m.frameUsed - m.locals) + m.used
      /\ DEPTH \in Nat /\ FrameSize \in Nat
      /\ c \in Nat /\ k \in Nat /\ c <= k /\ k <= DEPTH
  BY CountedTyped, RegistersTyped DEF Servable
<1>2. CASE Deficient(m, c)
  <2> DEFINE n == Shortage(m, c)
             from == m.frameUsed - n
             l == Reloaded(m, from, n)
             r == TurnBack(Reload([h EXCEPT !.fpu = F!TurnDown(@, c)], from, n), c, DEPTH - m.used)
  <2>1. ~ Overfull(m, c, k)
    BY OneShortage, <1>2
  <2>2. b = l /\ g = r
    BY <1>2, <2>1 DEF Balanced, SpillCode
  <2>3. /\ Counted(l) /\ SameScope(m, l)
        /\ l.used = c /\ l.frameUsed = from
        /\ n <= m.frameUsed - m.locals
        /\ m.frameClobbered <= l.frameClobbered
    BY ReloadedFields, <1>2
  <2>4. n = c - m.used /\ m.used < c
    BY <1>2 DEF Shortage, Deficient
  <2>5. l.frameClobbered \in Nat
    BY <2>3, CountedTyped
  <2> HIDE DEF b, g, l
  <2>6. m.clobbered = DEPTH
    <3>1. m.frameUsed # m.locals
      BY <1>1, <2>3, <2>4
    <3> QED BY <3>1, <1>1 DEF FreshBetween
  <2>7. /\ Holding(r, c, from, m.frameClobbered)
        /\ Keeps(m.locals, h, m.used, m.frameUsed, r, c, from)
    <3>1. Holding(h, m.used, m.frameUsed, m.frameClobbered)
      BY DEF Carries
    <3>2. m.used < c /\ c <= DEPTH /\ m.locals + (c - m.used) <= m.frameUsed
          /\ m.frameUsed <= FrameSize
      BY <1>1, <2>3, <2>4
    <3> DEFINE used == m.used  slots == m.frameUsed  deep == m.frameClobbered  base == m.locals
    <3>3. /\ used \in Nat /\ slots \in Nat /\ deep \in Nat /\ c \in Nat /\ base \in Nat
          /\ Holding(h, used, slots, deep) /\ used < c /\ c <= DEPTH /\ base + (c - used) <= slots
          /\ slots <= FrameSize /\ slots <= deep
      BY <3>1, <3>2, <1>1
    <3>4. r = TurnBack(Reload([h EXCEPT !.fpu = F!TurnDown(@, c)], slots - (c - used), c - used),
                       c, DEPTH - used)
      BY <2>4
    <3>5. from = slots - (c - used)
      BY <2>4
    <3> HIDE DEF used, slots, deep, base, r, from, n
    <3>6. Holding(r, c, slots - (c - used), deep) /\ Keeps(base, h, used, slots, r, c, slots - (c - used))
      BY <3>3, <3>4, ReloadHolds
    <3> QED BY <3>5, <3>6 DEF used, slots, deep, base
  <2> HIDE DEF r, from
  <2>8. Holding(r, c, from, l.frameClobbered)
    BY <2>7, <2>3, <2>5, <1>1, HoldingDeeper
  <2>9. SpillCodeDone(c, k, l, r)
    BY <2>3, <2>6, <2>7, <2>8 DEF SpillCodeDone, Carries
  <2>10. SpillCodeDone(c, k, b, g)
    BY <2>2, <2>9
  <2> QED BY <2>10 DEF b, g
<1>3. CASE Overfull(m, c, k)
  <2> DEFINE n == Surplus(m, c, k)
             to == m.frameUsed + n
             l == Spilled(m, to, n)
             r == TurnBack(Spill([h EXCEPT !.fpu = F!TurnUp(@, k - c)], to, n), m.used - n, DEPTH - m.used)
  <2>1. ~ Deficient(m, c)
    BY OneShortage, <1>3
  <2>2. b = l /\ g = r
    BY <1>3, <2>1 DEF Balanced, SpillCode
  <2>3. /\ Counted(l) /\ SameScope(m, l)
        /\ l.used = m.used - n /\ l.frameUsed = to
        /\ n \in Nat /\ n <= m.used - c
        /\ (l.used - c) + k = DEPTH
        /\ m.frameClobbered <= l.frameClobbered
    BY SpilledFields, <1>3
  <2>4. n = (k - c) - (DEPTH - m.used) /\ DEPTH - m.used < k - c
    BY <1>3 DEF Surplus, Overfull
  <2>5. l.frameClobbered \in Nat /\ l.frameUsed <= l.frameClobbered
    BY <2>3, CountedTyped
  <2> HIDE DEF b, g, l
  <2>7. /\ Holding(r, m.used - n, to, l.frameClobbered)
        /\ Keeps(m.locals, h, m.used, m.frameUsed, r, m.used - n, to)
    <3> DEFINE used == m.used  slots == m.frameUsed  deep == m.frameClobbered  base == m.locals
               up == k - c  deeper == l.frameClobbered
    <3>1. Holding(h, used, slots, deep)
      BY DEF Carries
    <3>2. /\ used \in Nat /\ slots \in Nat /\ deep \in Nat /\ n \in Nat /\ up \in Nat
          /\ base \in Nat /\ deeper \in Nat
      BY <2>3, <2>5, <1>1
    <3>3. /\ 1 <= n /\ n <= used /\ used <= DEPTH /\ up <= DEPTH /\ up = n + (DEPTH - used)
          /\ base <= slots /\ slots + n <= FrameSize
      BY <1>1, <2>3, <2>4
    <3>4. deep <= deeper /\ slots + n <= deeper
      BY <2>3, <2>5
    <3>5. r = TurnBack(Spill([h EXCEPT !.fpu = F!TurnUp(@, up)], slots + n, n), used - n, DEPTH - used)
      OBVIOUS
    <3>6. to = slots + n
      OBVIOUS
    <3> HIDE DEF used, slots, deep, base, up, deeper, r, to, n
    <3>7. Holding(r, used - n, slots + n, deeper) /\ Keeps(base, h, used, slots, r, used - n, slots + n)
      BY <3>1, <3>2, <3>3, <3>4, <3>5, SpillHolds
    <3> QED BY <3>6, <3>7 DEF used, slots, deep, base, deeper
  <2> HIDE DEF r, to, n
  <2>8. SpillCodeDone(c, k, l, r)
    BY <2>3, <2>7 DEF SpillCodeDone, Carries
  <2>9. SpillCodeDone(c, k, b, g)
    BY <2>2, <2>8
  <2> QED BY <2>9 DEF b, g
<1>4. CASE ~ Deficient(m, c) /\ ~ Overfull(m, c, k)
  <2>1. b = m /\ g = h
    BY <1>4 DEF Balanced, SpillCode
  <2>2. Keeps(m.locals, h, m.used, m.frameUsed, h, m.used, m.frameUsed)
    BY DEF Keeps
  <2>3. SpillCodeDone(c, k, m, h)
    BY <2>2 DEF SpillCodeDone
  <2> HIDE DEF b, g
  <2>4. SpillCodeDone(c, k, b, g)
    BY <2>1, <2>3
  <2> QED BY <2>4 DEF b, g
<1> QED BY <1>2, <1>3, <1>4

-----------------------------------------------------------------------------
(* The instruction after the spill code.                                   *)

(* From g to r an instruction pops c registers and pushes p values.  It    *)
(* may write the slot y; of the frame no more than `deep` slots are used.  *)
Executes(g, deep, c, p, y, r) ==
  /\ Sound(r) /\ r.stackUsed = g.stackUsed
  /\ r.fpu \in [F!Registers -> Val \cup F!Empty]
  /\ r.frame \in [Slots -> Val \cup {Unwritten, Junk}]
  /\ \A i \in F!Registers : /\ i < p => r.fpu[i] \in Val
                            /\ p <= i /\ (i - p) + c < DEPTH => r.fpu[i] = g.fpu[(i - p) + c]
                            /\ p <= i /\ DEPTH <= (i - p) + c => r.fpu[i] \in F!Empty
  /\ \A x \in Slots : /\ x < g.stackUsed => r.frame[x] \in Val
                      /\ x < g.stackUsed /\ x # y => r.frame[x] = g.frame[x]
                      /\ deep <= x => r.frame[x] = Unwritten

(* The registers left fresh by an instruction were fresh before it.        *)
LEMMA BelowFresh ==
  ASSUME NEW D \in Nat, NEW i \in Nat, NEW c \in Nat, NEW p \in Nat, NEW k \in Nat,
         NEW used \in Nat, NEW clobbered \in Nat, NEW used2 \in Nat, NEW clobbered2 \in Nat,
         used2 = (used - c) + p, (used - c) + k <= clobbered2, c <= used, c <= k, p <= k,
         clobbered <= clobbered2, used <= clobbered,
         used2 <= i, i < D - (clobbered2 - used2)
  PROVE  /\ p <= i /\ (i - p) + c \in 0 .. D - 1
         /\ used <= (i - p) + c /\ (i - p) + c < D - (clobbered - used)
  OBVIOUS

(* An instruction after its spill code leaves the machine as its counters  *)
(* say.                                                                    *)
LEMMA ExecutedCarries ==
  ASSUME Counted(m), NEW c, NEW p, NEW k, Servable(m, c, p, k),
         FreshBetween(m, m.used, h), NEW g,
         SpillCodeDone(c, k, Balanced(m, c, k), g), NEW r, NEW y,
         Executes(g, Balanced(m, c, k).frameClobbered, c, p, y, r)
  PROVE  LET t == Adjusted(m, c, p, k)
         IN  /\ Carries(t, t.used, r)
             /\ FreshBetween(t, t.used, r)
<1> DEFINE b == Balanced(m, c, k)
           t == Adjusted(m, c, p, k)
<1>1. Counted(b) /\ c <= b.used /\ (b.used - c) + k <= DEPTH /\ SameScope(m, b)
  BY BalancedFields
<1>2. c \in Nat /\ p \in Nat /\ k \in Nat /\ c <= k /\ p <= k
  BY DEF Servable
<1>3. t = Settled(b, c, p, k)
  BY DEF Adjusted
<1>c. m.clobbered <= b.clobbered
  BY <1>2, BalancedClobbers
<1>d. SpillCodeDone(c, k, b, g)
  OBVIOUS
<1> HIDE DEF b, t
<1>4. /\ Counted(t) /\ t.used = (b.used - c) + p /\ t.frameUsed = b.frameUsed
      /\ t.locals = b.locals /\ b.frameClobbered <= t.frameClobbered
      /\ b.clobbered <= t.clobbered /\ (b.used - c) + k <= t.clobbered
  BY <1>1, <1>2, <1>3, SettledCounters
<1>5. /\ b.used \in Nat /\ b.frameUsed \in Nat /\ b.frameClobbered \in Nat /\ b.clobbered \in Nat
      /\ t.used \in Nat /\ t.frameUsed \in Nat /\ t.frameClobbered \in Nat /\ t.clobbered \in Nat
      /\ m.used \in Nat /\ m.clobbered \in Nat /\ t.clobbered <= DEPTH /\ b.frameUsed <= b.frameClobbered
      /\ m.used <= m.clobbered /\ b.used <= b.clobbered /\ b.clobbered <= DEPTH
  BY <1>1, <1>4, CountedTyped
<1>6. /\ Holding(g, b.used, b.frameUsed, b.frameClobbered)
      /\ \/ b = m /\ g = h
         \/ m.clobbered = DEPTH
         \/ (b.used - c) + k = DEPTH
  BY <1>d DEF SpillCodeDone, Carries
<1>7. /\ g.stackUsed = b.frameUsed
      /\ \A i \in F!Registers : /\ i < b.used => g.fpu[i] \in Val
                                /\ b.used <= i => g.fpu[i] \in F!Empty
      /\ \A x \in Slots : b.frameClobbered <= x => g.frame[x] = Unwritten
  BY <1>6 DEF Holding
<1>8. /\ Sound(r) /\ r.stackUsed = g.stackUsed
      /\ r.fpu \in [F!Registers -> Val \cup F!Empty]
      /\ r.frame \in [Slots -> Val \cup {Unwritten, Junk}]
      /\ \A i \in F!Registers : /\ i < p => r.fpu[i] \in Val
                                /\ p <= i /\ (i - p) + c < DEPTH => r.fpu[i] = g.fpu[(i - p) + c]
                                /\ p <= i /\ DEPTH <= (i - p) + c => r.fpu[i] \in F!Empty
      /\ \A x \in Slots : /\ x < g.stackUsed => r.frame[x] \in Val
                          /\ b.frameClobbered <= x => r.frame[x] = Unwritten
  BY DEF Executes, b
<1>9. DEPTH \in Nat \ {0} /\ F!Registers = 0 .. DEPTH - 1 /\ Slots = 0 .. FrameSize - 1
  BY RegistersTyped
<1>10. ASSUME NEW i \in F!Registers
       PROVE  /\ i < t.used => r.fpu[i] \in Val
              /\ t.used <= i => r.fpu[i] \in F!Empty
  <2> DEFINE j == (i - p) + c
  <2>0. /\ i \in Nat /\ i < DEPTH /\ DEPTH \in Nat /\ b.used \in Nat /\ t.used \in Nat
        /\ c \in Nat /\ p \in Nat /\ c <= b.used /\ t.used = (b.used - c) + p
    <3>1. i \in Nat /\ i < DEPTH /\ DEPTH \in Nat
      BY <1>9
    <3> QED BY <3>1, <1>1, <1>2, <1>4, <1>5
  <2>1. CASE i < p
    <3>1. ~ (t.used <= i)
      BY ONLY <2>0, <2>1
    <3> QED BY <3>1, <2>1, <1>8
  <2>2. CASE p <= i /\ j < DEPTH
    <3>0. j \in 0 .. DEPTH - 1 /\ j - b.used = i - t.used
      BY ONLY <2>0, <2>2
    <3>1. j \in F!Registers /\ (i < t.used => j < b.used) /\ (t.used <= i => b.used <= j)
      <4>1. (i < t.used => j < b.used) /\ (t.used <= i => b.used <= j)
        BY ONLY <2>0, <3>0
      <4> QED BY <4>1, <3>0, <1>9
    <3>2. r.fpu[i] = g.fpu[j]
      BY <2>2, <1>8
    <3> QED BY <3>1, <3>2, <1>7
  <2>3. CASE p <= i /\ DEPTH <= j
    <3>1. ~ (i < t.used)
      BY <2>3, <1>1, <1>2, <1>4, <1>5, <1>9
    <3> QED BY <3>1, <2>3, <1>8
  <2>4. i < p \/ (p <= i /\ j < DEPTH) \/ (p <= i /\ DEPTH <= j)
    BY <1>2, <1>9
  <2> QED BY <2>1, <2>2, <2>3, <2>4
<1>11. ASSUME NEW x \in Slots
       PROVE  /\ x < t.frameUsed => r.frame[x] \in Val
              /\ t.frameClobbered <= x => r.frame[x] = Unwritten
  <2>1. t.frameClobbered <= x => b.frameClobbered <= x
    BY <1>4, <1>5, <1>7, <1>9
  <2> QED BY <2>1, <1>4, <1>7, <1>8
<1>12. Carries(t, t.used, r)
  <2>1. r \in MachineState /\ ~ r.fault
    BY <1>4, <1>5, <1>7, <1>8, MachineParts
  <2> QED BY <2>1, <1>4, <1>7, <1>8, <1>10, <1>11 DEF Carries, Holding
<1>13. FreshBetween(t, t.used, r)
  <2> SUFFICES ASSUME t.clobbered < DEPTH
               PROVE  /\ t.frameUsed = t.locals
                      /\ \A i \in F!Registers :
                           t.used <= i /\ i < DEPTH - (t.clobbered - t.used) => r.fpu[i] = Fresh
    BY DEF FreshBetween
  <2>0. t.clobbered < DEPTH
    OBVIOUS
  <2>a. m.clobbered < DEPTH
    BY ONLY <2>0, <1>4, <1>5, <1>c, <1>9
  <2>b. (b.used - c) + k # DEPTH
    BY ONLY <2>0, <1>4, <1>5, <1>2, <1>9
  <2>1. m.clobbered < DEPTH /\ (b.used - c) + k # DEPTH
    BY <2>a, <2>b
  <2>2. b = m /\ g = h
    BY <2>1, <1>6, <1>5, <1>9
  <2>3. /\ m.frameUsed = m.locals
        /\ \A i \in F!Registers : m.used <= i /\ i < DEPTH - (m.clobbered - m.used) => h.fpu[i] = Fresh
    BY <2>1 DEF FreshBetween
  <2>4. ASSUME NEW i \in F!Registers, t.used <= i, i < DEPTH - (t.clobbered - t.used)
        PROVE  r.fpu[i] = Fresh
    <3> DEFINE j == (i - p) + c
    <3>0. m.used = b.used
      BY <2>2
    <3>a. t.used = (m.used - c) + p /\ (m.used - c) + k <= t.clobbered /\ c <= m.used
      BY <3>0, <1>4, <1>1
    <3>b. m.clobbered <= t.clobbered
      BY <1>4, <1>5, <1>c
    <3>c. i \in Nat
      BY <1>9
    <3>1. /\ p <= i /\ j \in 0 .. DEPTH - 1
          /\ m.used <= j /\ j < DEPTH - (m.clobbered - m.used)
      <4> DEFINE u == m.used  q == m.clobbered  v == t.used  w == t.clobbered
      <4>1. /\ u \in Nat /\ q \in Nat /\ v \in Nat /\ w \in Nat /\ DEPTH \in Nat /\ i \in Nat
            /\ c \in Nat /\ p \in Nat /\ k \in Nat /\ c <= k /\ p <= k
            /\ v = (u - c) + p /\ (u - c) + k <= w /\ c <= u
            /\ q <= w /\ u <= q /\ v <= i /\ i < DEPTH - (w - v)
        BY <3>a, <3>b, <3>c, <2>4, <1>2, <1>5, <1>9
      <4> HIDE DEF u, q, v, w
      <4>2. /\ p <= i /\ (i - p) + c \in 0 .. DEPTH - 1
            /\ u <= (i - p) + c /\ (i - p) + c < DEPTH - (q - u)
        BY ONLY <4>1, BelowFresh
      <4> QED BY <4>2 DEF u, q
    <3>2. r.fpu[i] = g.fpu[j]
      BY <3>1, <1>8, <1>9
    <3> HIDE DEF j
    <3> QED BY <3>1, <3>2, <2>2, <2>3, <1>9
  <2> QED BY <2>2, <2>3, <2>4, <1>4
<1> QED BY <1>12, <1>13 DEF t

-----------------------------------------------------------------------------
(* The instructions.                                                       *)

(* A machine that holds its values, taken apart: none of its values faults *)
(* when popped.                                                            *)
LEMMA HoldingParts ==
  ASSUME NEW g, NEW top \in Nat, NEW slots \in Nat, NEW deep \in Nat, Holding(g, top, slots, deep)
  PROVE  /\ Sound(g) /\ g.stackUsed = slots /\ slots \in Nat
         /\ g.fpu \in [F!Registers -> Val \cup F!Empty]
         /\ g.frame \in [Slots -> Val \cup {Unwritten, Junk}]
         /\ \A i \in F!Registers : /\ i < top => g.fpu[i] \in Val
                                   /\ top <= i => g.fpu[i] \in F!Empty
         /\ \A x \in Slots : /\ x < slots => g.frame[x] \in Val
                             /\ deep <= x => g.frame[x] = Unwritten
         /\ \A n \in Nat : n <= top => ~ F!PopFaults(g.fpu, n)
<1>1. /\ Sound(g) /\ g.stackUsed = slots /\ slots \in Nat
      /\ g.fpu \in [F!Registers -> Val \cup F!Empty]
      /\ g.frame \in [Slots -> Val \cup {Unwritten, Junk}]
      /\ \A i \in F!Registers : /\ i < top => g.fpu[i] \in Val
                                /\ top <= i => g.fpu[i] \in F!Empty
      /\ \A x \in Slots : /\ x < slots => g.frame[x] \in Val
                          /\ deep <= x => g.frame[x] = Unwritten
  BY MachineParts DEF Holding
<1>2. ASSUME NEW n \in Nat, n <= top PROVE ~ F!PopFaults(g.fpu, n)
  <2>1. \A i \in F!Registers : i < n => i < top
    BY <1>2, RegistersTyped
  <2>2. \A i \in F!Registers : i < n => g.fpu[i] \notin F!Empty
    BY <2>1, <1>1, RegistersTyped, MarksAssumption
  <2> QED BY <2>2 DEF F!PopFaults
<1> QED BY <1>1, <1>2

(* An operand that is there is read without a fault.                       *)
LEMMA NeedsNothing ==
  ASSUME NEW g, NEW n, Sound(g), ~ F!PopFaults(g.fpu, n)
  PROVE  Needs(g, n) = g
  BY DEF Needs, Faulty, Sound, IsMachine

(* No instruction needs nothing and changes nothing. *)
LEMMA IdleExecutes ==
  ASSUME NEW g, NEW top \in Nat, NEW slots \in Nat, NEW deep \in Nat, Holding(g, top, slots, deep)
  PROVE  Executes(g, deep, 0, 0, -1, g)
<1>1. ASSUME NEW i \in F!Registers
      PROVE  (i - 0) + 0 = i /\ ~ (i < 0) /\ ~ (DEPTH <= (i - 0) + 0)
  BY RegistersTyped
<1> QED BY <1>1, HoldingParts DEF Executes

(* A load (fld, fldz, fldpi and the like) pushes one value. *)
LEMMA PushExecutes ==
  ASSUME NEW g, NEW top \in Nat, NEW slots \in Nat, NEW deep \in Nat, Holding(g, top, slots, deep),
         top < DEPTH, NEW v \in Val
  PROVE  Executes(g, deep, 0, 1, -1, Push(g, v)) /\ Push(g, v).fpu[0] = v
<1> DEFINE fpu == F!Pushed(g.fpu, <<v>>, 1)
           r == Push(g, v)
<1>1. /\ Sound(g) /\ g.stackUsed = slots /\ slots \in Nat
      /\ g.fpu \in [F!Registers -> Val \cup F!Empty]
      /\ g.frame \in [Slots -> Val \cup {Unwritten, Junk}]
      /\ \A i \in F!Registers : /\ i < top => g.fpu[i] \in Val
                                /\ top <= i => g.fpu[i] \in F!Empty
      /\ \A x \in Slots : /\ x < slots => g.frame[x] \in Val
                          /\ deep <= x => g.frame[x] = Unwritten
  BY HoldingParts
<1>2. ~ F!PushFaults(g.fpu, 1)
  <2>1. \A i \in F!Registers : i >= DEPTH - 1 => top <= i
    BY RegistersTyped
  <2> QED BY <2>1, <1>1 DEF F!PushFaults
<1>3. r = Faulty([g EXCEPT !.fpu = fpu], F!PushFaults(g.fpu, 1))
  BY DEF Push
<1>4. fpu = [i \in F!Registers |-> IF i < 1 THEN <<v>>[i + 1] ELSE g.fpu[i - 1]]
  BY DEF F!Pushed
<1> HIDE DEF fpu, r
<1>5. Sound(r) /\ r.fpu = fpu /\ r.frame = g.frame /\ r.stackUsed = g.stackUsed
  BY <1>1, <1>2, <1>3 DEF Sound, IsMachine, Faulty
<1>6. 0 \in F!Registers /\ fpu[0] = v
  BY <1>4, RegistersTyped
<1>7. ASSUME NEW i \in F!Registers
      PROVE  /\ i < 1 => fpu[i] = v
             /\ 1 <= i => i - 1 \in F!Registers /\ fpu[i] = g.fpu[i - 1] /\ (i - 1) + 0 = i - 1
             /\ ~ (DEPTH <= (i - 1) + 0)
             /\ i < 1 \/ 1 <= i
  <2>1. CASE i = 0
    BY <2>1, <1>6, RegistersTyped
  <2>2. CASE i # 0
    <3>1. 1 <= i /\ ~ (i < 1) /\ i - 1 \in F!Registers /\ (i - 1) + 0 = i - 1 /\ ~ (DEPTH <= (i - 1) + 0)
      BY <2>2, RegistersTyped
    <3> QED BY <3>1, <1>4
  <2> QED BY <2>1, <2>2
<1>8. fpu \in [F!Registers -> Val \cup F!Empty]
  <2>1. \A i \in F!Registers : fpu[i] \in Val \cup F!Empty
    BY <1>1, <1>7
  <2>2. IsRing(fpu)
    BY <1>4 DEF IsRing
  <2> QED BY <2>1, <2>2, RingTyped
<1>9. Executes(g, deep, 0, 1, -1, r)
  BY <1>1, <1>5, <1>7, <1>8 DEF Executes
<1> QED BY <1>5, <1>6, <1>9 DEF r

(* A store that pops (fstp, ffreep) takes one value. *)
LEMMA PopExecutes ==
  ASSUME NEW g, NEW top \in Nat, NEW slots \in Nat, NEW deep \in Nat, Holding(g, top, slots, deep), 1 <= top
  PROVE  Executes(g, deep, 1, 0, -1, Pop(g))
<1> DEFINE fpu == F!Popped(g.fpu, 1)
           r == Pop(g)
<1>1. /\ Sound(g) /\ g.stackUsed = slots /\ slots \in Nat
      /\ g.fpu \in [F!Registers -> Val \cup F!Empty]
      /\ g.frame \in [Slots -> Val \cup {Unwritten, Junk}]
      /\ \A x \in Slots : /\ x < slots => g.frame[x] \in Val
                          /\ deep <= x => g.frame[x] = Unwritten
      /\ ~ F!PopFaults(g.fpu, 1)
  BY HoldingParts
<1>3. r = Faulty([g EXCEPT !.fpu = fpu], F!PopFaults(g.fpu, 1))
  BY DEF Pop
<1>4. fpu = [i \in F!Registers |-> IF i < DEPTH - 1 THEN g.fpu[i + 1] ELSE Stale]
  BY DEF F!Popped
<1> HIDE DEF fpu, r
<1>5. Sound(r) /\ r.fpu = fpu /\ r.frame = g.frame /\ r.stackUsed = g.stackUsed
  BY <1>1, <1>3 DEF Sound, IsMachine, Faulty
<1>7. ASSUME NEW i \in F!Registers
      PROVE  /\ ~ (i < 0)
             /\ (i - 0) + 1 < DEPTH => i + 1 \in F!Registers /\ fpu[i] = g.fpu[(i - 0) + 1]
             /\ DEPTH <= (i - 0) + 1 => fpu[i] = Stale
             /\ (i - 0) + 1 = i + 1
             /\ (i - 0) + 1 < DEPTH \/ DEPTH <= (i - 0) + 1
  <2>1. CASE i < DEPTH - 1
    <3>1. ~ (i < 0) /\ (i - 0) + 1 = i + 1 /\ i + 1 \in F!Registers /\ i + 1 < DEPTH /\ ~ (DEPTH <= i + 1)
      BY <2>1, RegistersTyped
    <3> QED BY <3>1, <2>1, <1>4
  <2>2. CASE ~ (i < DEPTH - 1)
    <3>1. ~ (i < 0) /\ (i - 0) + 1 = i + 1 /\ ~ (i + 1 < DEPTH) /\ DEPTH <= i + 1
      BY <2>2, RegistersTyped
    <3> QED BY <3>1, <2>2, <1>4
  <2> QED BY <2>1, <2>2
<1>8. fpu \in [F!Registers -> Val \cup F!Empty]
  <2>1. \A i \in F!Registers : fpu[i] \in Val \cup F!Empty
    BY <1>1, <1>7, RegistersTyped
  <2>2. IsRing(fpu)
    BY <1>4 DEF IsRing
  <2> QED BY <2>1, <2>2, RingTyped
<1>9. Executes(g, deep, 1, 0, -1, r)
  <2>1. Stale \in F!Empty
    BY RegistersTyped
  <2> QED BY <2>1, <1>1, <1>5, <1>7, <1>8 DEF Executes
<1> QED BY <1>9 DEF r

(* A register changed: ST(0) or ST(1) gets another number.                 *)
LEMMA SetHolds ==
  ASSUME NEW g, NEW top \in Nat, NEW slots \in Nat, NEW deep \in Nat, Holding(g, top, slots, deep),
         NEW i \in Nat, i < top, i < DEPTH, NEW v \in Val
  PROVE  LET r == Set(g, i, v)
         IN  /\ Holding(r, top, slots, deep) /\ r.frame = g.frame /\ r.stackUsed = g.stackUsed
             /\ r.fpu[i] = v
             /\ \A j \in F!Registers : j # i => r.fpu[j] = g.fpu[j]
<1> DEFINE fpu == [g.fpu EXCEPT ![i] = v]
           r == Set(g, i, v)
<1>1. /\ Sound(g) /\ g.stackUsed = slots /\ slots \in Nat
      /\ g.fpu \in [F!Registers -> Val \cup F!Empty]
      /\ g.frame \in [Slots -> Val \cup {Unwritten, Junk}]
      /\ \A j \in F!Registers : /\ j < top => g.fpu[j] \in Val
                                /\ top <= j => g.fpu[j] \in F!Empty
      /\ \A x \in Slots : /\ x < slots => g.frame[x] \in Val
                          /\ deep <= x => g.frame[x] = Unwritten
  BY HoldingParts
<1>2. i \in F!Registers /\ ~ (top <= i)
  BY RegistersTyped
<1>3. r = [g EXCEPT !.fpu = fpu]
  BY DEF Set
<1>4. /\ fpu \in [F!Registers -> Val \cup F!Empty] /\ fpu[i] = v
      /\ \A j \in F!Registers : j # i => fpu[j] = g.fpu[j]
  BY <1>1, <1>2
<1> HIDE DEF fpu, r
<1>5. Sound(r) /\ r.fpu = fpu /\ r.frame = g.frame /\ r.stackUsed = g.stackUsed
  BY <1>1, <1>3 DEF Sound, IsMachine
<1>6. \A j \in F!Registers : /\ j < top => fpu[j] \in Val
                             /\ top <= j => fpu[j] \in F!Empty
  BY <1>1, <1>2, <1>4
<1>7. Holding(r, top, slots, deep)
  <2>1. r \in MachineState /\ ~ r.fault
    BY <1>1, <1>4, <1>5, MachineParts
  <2> QED BY <2>1, <1>1, <1>5, <1>6 DEF Holding
<1> QED BY <1>4, <1>5, <1>7 DEF r

(* An instruction after n registers were changed, or counted with n        *)
(* registers it does not touch.                                            *)
LEMMA Widened ==
  ASSUME NEW g, NEW u, NEW top \in Nat, NEW slots \in Nat, NEW deep \in Nat, NEW y \in Int,
         Holding(u, top, slots, deep), u.frame = g.frame, u.stackUsed = g.stackUsed,
         NEW n \in Nat, n <= top, top <= DEPTH,
         \A j \in F!Registers : n <= j => u.fpu[j] = g.fpu[j],
         NEW c \in Nat, NEW p \in Nat, NEW q \in Nat, c <= n, q = p + (n - c),
         NEW r, Executes(u, deep, c, p, y, r)
  PROVE  Executes(g, deep, n, q, y, r)
<1>1. /\ Sound(r) /\ r.stackUsed = u.stackUsed
      /\ r.fpu \in [F!Registers -> Val \cup F!Empty]
      /\ r.frame \in [Slots -> Val \cup {Unwritten, Junk}]
      /\ \A i \in F!Registers : /\ i < p => r.fpu[i] \in Val
                                /\ p <= i /\ (i - p) + c < DEPTH => r.fpu[i] = u.fpu[(i - p) + c]
                                /\ p <= i /\ DEPTH <= (i - p) + c => r.fpu[i] \in F!Empty
      /\ \A x \in Slots : /\ x < u.stackUsed => r.frame[x] \in Val
                          /\ x < u.stackUsed /\ x # y => r.frame[x] = u.frame[x]
                          /\ deep <= x => r.frame[x] = Unwritten
  BY DEF Executes
<1>2. \A j \in F!Registers : j < top => u.fpu[j] \in Val
  BY HoldingParts
<1>3. ASSUME NEW i \in F!Registers
      PROVE  /\ i < q => r.fpu[i] \in Val
             /\ q <= i /\ (i - q) + n < DEPTH => r.fpu[i] = g.fpu[(i - q) + n]
             /\ q <= i /\ DEPTH <= (i - q) + n => r.fpu[i] \in F!Empty
  <2> DEFINE j == (i - p) + c
  <2>1. q \in Nat /\ i \in Nat /\ (p <= i => j \in Nat) /\ (q <= i => p <= i /\ (i - q) + n = j)
    BY RegistersTyped
  <2>2. ASSUME i < q PROVE r.fpu[i] \in Val
    <3>1. CASE i < p
      BY <3>1, <1>1
    <3>2. CASE ~ (i < p)
      <4>1. p <= i /\ j < DEPTH /\ j \in F!Registers /\ j < top
        BY <2>1, <2>2, <3>2, RegistersTyped
      <4>2. r.fpu[i] = u.fpu[j]
        BY <4>1, <1>1
      <4> QED BY <4>1, <4>2, <1>2
    <3> QED BY <3>1, <3>2
  <2>3. ASSUME q <= i, (i - q) + n < DEPTH PROVE r.fpu[i] = g.fpu[(i - q) + n]
    <3>0. p <= i /\ (i - q) + n = j /\ j \in Nat
      BY <2>1, <2>3
    <3>a. j < DEPTH
      BY <3>0, <2>3
    <3>b. n <= (i - q) + n
      BY <2>1, <2>3
    <3>c. n <= j
      BY <3>0, <3>b
    <3> HIDE DEF j
    <3>1. p <= i /\ (i - q) + n = j /\ j < DEPTH /\ j \in F!Registers /\ n <= j
      BY <3>0, <3>a, <3>c, RegistersTyped
    <3>2. r.fpu[i] = u.fpu[j]
      BY <3>1, <1>1 DEF j
    <3>3. u.fpu[j] = g.fpu[j]
      BY <3>1
    <3> QED BY <3>1, <3>2, <3>3
  <2>4. ASSUME q <= i, DEPTH <= (i - q) + n PROVE r.fpu[i] \in F!Empty
    <3>1. p <= i /\ DEPTH <= j
      BY <2>1, <2>4
    <3> QED BY <3>1, <1>1
  <2> QED BY <2>2, <2>3, <2>4
<1> QED BY <1>1, <1>3 DEF Executes

(* ST(0) stored into a slot: a local variable, or a spilled value.         *)
LEMMA StoreExecutes ==
  ASSUME NEW g, NEW top \in Nat, NEW slots \in Nat, NEW deep \in Nat, Holding(g, top, slots, deep),
         1 <= top, NEW x \in Slots, x < deep, slots <= deep
  PROVE  LET r == StoreTo(g, x, slots)
         IN  Executes(g, deep, 1, 0, x, r) /\ (x < slots => r.frame[x] = g.fpu[0])
<1> DEFINE v == g.fpu[0]
           frame == Forget([g.frame EXCEPT ![x] = v], slots)
           u == [g EXCEPT !.frame = frame]
           r == StoreTo(g, x, slots)
<1>1. /\ Sound(g) /\ g.stackUsed = slots /\ slots \in Nat
      /\ g.fpu \in [F!Registers -> Val \cup F!Empty]
      /\ g.frame \in [Slots -> Val \cup {Unwritten, Junk}]
      /\ \A j \in F!Registers : /\ j < top => g.fpu[j] \in Val
                                /\ top <= j => g.fpu[j] \in F!Empty
      /\ \A z \in Slots : /\ z < slots => g.frame[z] \in Val
                          /\ deep <= z => g.frame[z] = Unwritten
  BY HoldingParts
<1>2. v \in Val /\ 0 \in F!Registers
  BY <1>1, RegistersTyped
<1>3. r = Pop(Needs(u, 1))
  BY DEF StoreTo, St
<1> HIDE DEF v
<1>4. ASSUME NEW z \in Slots
      PROVE  /\ z < slots /\ z # x => frame[z] = g.frame[z]
             /\ z < slots /\ z = x => frame[z] = v
             /\ deep <= z => frame[z] = Unwritten
             /\ frame[z] \in Val \cup {Unwritten, Junk}
  <2>1. /\ z < slots => ~ (z >= slots)
        /\ deep <= z => z # x
    BY <1>1, RegistersTyped
  <2> QED BY <2>1, <1>1, <1>2 DEF Forget
<1>5. frame \in [Slots -> Val \cup {Unwritten, Junk}]
  <2>1. frame = [z \in Slots |-> frame[z]]
    BY DEF Forget
  <2> HIDE DEF frame
  <2> QED BY <2>1, <1>4
<1> HIDE DEF frame
<1>6. Sound(u) /\ u.fpu = g.fpu /\ u.frame = frame /\ u.stackUsed = slots
  BY <1>1 DEF Sound, IsMachine
<1> HIDE DEF u
<1>7. Holding(u, top, slots, deep)
  <2>1. u \in MachineState /\ ~ u.fault
    BY <1>1, <1>5, <1>6, MachineParts
  <2>2. \A z \in Slots : /\ z < slots => u.frame[z] \in Val
                         /\ deep <= z => u.frame[z] = Unwritten
    BY <1>1, <1>2, <1>4, <1>6
  <2> QED BY <2>1, <2>2, <1>1, <1>6 DEF Holding
<1>8. r = Pop(u)
  <2>1. ~ F!PopFaults(u.fpu, 1)
    BY <1>7, HoldingParts
  <2> QED BY <2>1, <1>3, <1>6, NeedsNothing
<1>9. Executes(u, deep, 1, 0, -1, r)
  BY <1>7, <1>8, PopExecutes
<1> HIDE DEF r
<1>10. ASSUME NEW z \in Slots
       PROVE  /\ z < slots => r.frame[z] = frame[z] /\ r.frame[z] \in Val
              /\ deep <= z => r.frame[z] = Unwritten
  <2>1. z # -1
    BY RegistersTyped
  <2> QED BY <2>1, <1>6, <1>9 DEF Executes
<1>11. Executes(g, deep, 1, 0, x, r)
  BY <1>1, <1>4, <1>6, <1>9, <1>10 DEF Executes
<1>12. x < slots => r.frame[x] = v
  BY <1>4, <1>10
<1> QED BY <1>11, <1>12 DEF r, v

-----------------------------------------------------------------------------
(* The inductive invariant: the counters and the machine agree.            *)

Running == mode \notin {"returned", "left"}

WithinBounds == m.locals <= MaxLocals /\ Excess(m) <= MaxExcess

MachineInductive ==
  /\ Inductive
  /\ WithinBounds
  /\ Carries(m, OnTop, h)
  /\ FreshBetween(m, OnTop, h)

(* What the instruction finds once its spill code was executed.            *)
Ready(b, c, k, g) ==
  /\ SpillCodeDone(c, k, b, g)
  /\ Counted(b) /\ SameScope(m, b)
  /\ b.used \in Nat /\ b.frameUsed \in Nat /\ b.frameClobbered \in Nat /\ m.locals \in Nat
  /\ Holding(g, b.used, b.frameUsed, b.frameClobbered)
  /\ c <= b.used /\ (b.used - c) + k <= DEPTH /\ b.used <= DEPTH
  /\ m.locals <= b.frameUsed /\ b.frameUsed <= b.frameClobbered /\ m.frameClobbered <= b.frameClobbered

(* Once its spill code has run, a request finds its operands and the room *)
(* for its results.                                                       *)
LEMMA SpillCodeReady ==
  ASSUME MachineInductive, Running, NEW c, NEW p, NEW k, Servable(m, c, p, k)
  PROVE  Ready(Balanced(m, c, k), c, k, SpillCode(c, k))
<1> DEFINE b == Balanced(m, c, k)
           g == SpillCode(c, k)
<1>1. Counted(m) /\ Carries(m, m.used, h) /\ FreshBetween(m, m.used, h)
  BY InductiveCounted DEF MachineInductive, Running, OnTop
<1>2. m.locals \in Nat /\ Excess(m) \in Nat
  BY <1>1, CountedTyped
<1>3. m.locals + Excess(m) <= FrameSize
  BY <1>2, BoundsAssumption, FrameAssumption DEF MachineInductive, WithinBounds
<1>4. SpillCodeDone(c, k, b, g)
  BY <1>1, <1>3, SpillCodeCarries
<1>5. /\ Counted(b) /\ SameScope(m, b) /\ c <= b.used /\ (b.used - c) + k <= DEPTH
      /\ m.frameClobbered <= b.frameClobbered
  BY <1>1, BalancedFields
<1> HIDE DEF b, g
<1>6. Holding(g, b.used, b.frameUsed, b.frameClobbered)
  BY <1>4 DEF SpillCodeDone, Carries
<1>7. /\ b.used \in Nat /\ b.frameUsed \in Nat /\ b.frameClobbered \in Nat
      /\ b.used <= DEPTH /\ b.locals = m.locals
      /\ b.locals <= b.frameUsed /\ b.frameUsed <= b.frameClobbered
  BY <1>5, CountedTyped, RegistersTyped DEF SameScope
<1>8. Ready(b, c, k, g)
  BY <1>2, <1>4, <1>5, <1>6, <1>7 DEF Ready
<1> QED BY <1>8 DEF b, g

(* An instruction executed where its spill code left the machine keeps the *)
(* agreement.                                                              *)
LEMMA InstructionKeeps ==
  ASSUME MachineInductive, Running, NEW c, NEW p, NEW k, Servable(m, c, p, k),
         m' = Adjusted(m, c, p, k), Inductive', Running', WithinBounds', NEW y,
         Executes(SpillCode(c, k), Balanced(m, c, k).frameClobbered, c, p, y, h')
  PROVE  MachineInductive'
<1>1. Counted(m) /\ FreshBetween(m, m.used, h)
  BY InductiveCounted DEF MachineInductive, Running, OnTop
<1>2. SpillCodeDone(c, k, Balanced(m, c, k), SpillCode(c, k))
  BY SpillCodeReady DEF Ready
<1>3. Carries(m', m'.used, h') /\ FreshBetween(m', m'.used, h')
  BY <1>1, <1>2, ExecutedCarries
<1>4. OnTop' = m'.used
  BY DEF Running, OnTop
<1> QED BY <1>3, <1>4 DEF MachineInductive

-----------------------------------------------------------------------------
(* One lemma for each action.                                              *)

(* Local variables are in the frame, where they were.                      *)
LEMMA LocalsHeld ==
  ASSUME MachineInductive, NEW x \in LocalSlots, NEW b, NEW c, NEW k, NEW g, Ready(b, c, k, g)
  PROVE  x \in Slots /\ x < b.frameUsed /\ g.frame[x] \in Val /\ g.frame[x] = h.frame[x]
<1>1. /\ m.locals \in Nat /\ m.locals <= MaxLocals /\ m.locals <= b.frameUsed
      /\ b.used \in Nat /\ b.frameUsed \in Nat /\ b.frameClobbered \in Nat
      /\ Holding(g, b.used, b.frameUsed, b.frameClobbered)
      /\ SpillCodeDone(c, k, b, g)
  BY DEF Ready, MachineInductive, WithinBounds
<1>2. x \in Nat /\ x < m.locals /\ x \in Slots /\ x < b.frameUsed
  BY <1>1, BoundsAssumption, RegistersTyped, FrameAssumption DEF LocalSlots
<1>3. g.frame[x] \in Val
  BY <1>1, <1>2, HoldingParts
<1>4. g.frame[x] = h.frame[x]
  BY <1>1, <1>2 DEF SpillCodeDone, Keeps
<1> QED BY <1>2, <1>3, <1>4

(* The instructions with a fixed footprint.                                *)
OperateReady(e, c, p, k) ==
  /\ e \in Effects /\ e[1] = c /\ e[2] = p /\ Footprint(e) = k /\ k \in Nat

(* The footprints of the instructions satisfy the conditions of *)
(* Assembler::operate.                                          *)
LEMMA Footprints ==
  /\ OperateReady(<<0, 1>>, 0, 1, 1) /\ OperateReady(<<1, 1>>, 1, 1, 1)
  /\ OperateReady(<<2, 2>>, 2, 2, 2) /\ OperateReady(<<2, 1>>, 2, 1, 2)
  /\ OperateReady(<<1, 2>>, 1, 2, 2)
  BY DEF Effects, Footprint, Larger, OperateReady

(* An instruction of the assembler runs after its spill code. *)
LEMMA OperateServed ==
  ASSUME MachineInductive, NEW e, NEW c, NEW p, NEW k, OperateReady(e, c, p, k), Operate(e)
  PROVE  /\ Running /\ Servable(m, c, p, k) /\ After(e) = SpillCode(c, k)
         /\ Ready(Balanced(m, c, k), c, k, After(e))
<1>1. Running
  BY DEF Operate, InBody, Running
<1>2. Servable(m, c, p, k)
  BY InductiveCounted, EffectServable DEF Operate, OperateReady, MachineInductive
<1>3. After(e) = SpillCode(c, k)
  BY DEF After, OperateReady
<1> QED BY <1>1, <1>2, <1>3, SpillCodeReady

(* An instruction that changes no more than its footprint says keeps the *)
(* invariant.                                                            *)
LEMMA OperateKeeps ==
  ASSUME MachineInductive, NEW e, NEW c, NEW p, NEW k, OperateReady(e, c, p, k), Operate(e), NEW y,
         Executes(After(e), Balanced(m, c, k).frameClobbered, c, p, y, h')
  PROVE  MachineInductive'
<1>1. Running /\ Servable(m, c, p, k) /\ After(e) = SpillCode(c, k)
  BY OperateServed
<1>2. m' = Adjusted(m, c, p, k)
  BY DEF Operate, ApplyEffect, OperateReady
<1>3. Running'
  BY DEF Operate, InBody, AfterOperation, Running
<1>4. Inductive'
  BY NextInductive DEF MachineInductive, OperateReady, Next
<1>5. Counted(m)
  BY InductiveCounted DEF MachineInductive
<1>6. Excess(m') = (Excess(m) - c) + p /\ m'.locals = m.locals
  BY <1>1, <1>2, <1>5, AdjustedFields DEF SameScope
<1>7. (Excess(m) - c) + p <= MaxExcess
  BY DEF Operate, WithinBound, OperateReady
<1>8. WithinBounds'
  BY <1>6, <1>7 DEF WithinBounds, MachineInductive
<1> QED BY <1>1, <1>2, <1>3, <1>4, <1>8, InstructionKeeps

(* What a step with a fixed footprint does to the machine.                 *)
Done(e, c, p, k, y) ==
  /\ OperateReady(e, c, p, k) /\ Operate(e)
  /\ Ready(Balanced(m, c, k), c, k, After(e))
  /\ Executes(After(e), Balanced(m, c, k).frameClobbered, c, p, y, h')

(* Loading a constant. *)
LEMMA ConstDone ==
  ASSUME MachineInductive, NEW v \in Val, Const(v)
  PROVE  Done(<<0, 1>>, 0, 1, 1, -1) /\ h'.fpu[0] = v
<1> DEFINE e == <<0, 1>>
           b == Balanced(m, 0, 1)
           g == After(e)
<1>1. OperateReady(e, 0, 1, 1) /\ Operate(e) /\ h' = Push(g, v)
  BY Footprints DEF Const
<1> HIDE DEF e
<1>2. Ready(b, 0, 1, g)
  BY <1>1, OperateServed
<1> HIDE DEF b, g
<1>3. b.used < DEPTH
  BY <1>2, RegistersTyped DEF Ready
<1>4. Executes(g, b.frameClobbered, 0, 1, -1, h') /\ h'.fpu[0] = v
  BY <1>1, <1>2, <1>3, PushExecutes DEF Ready
<1>5. Done(e, 0, 1, 1, -1)
  BY <1>1, <1>2, <1>4 DEF Done, b, g
<1> QED BY <1>4, <1>5 DEF e

(* Loading a local variable. *)
LEMMA LoadDone ==
  ASSUME MachineInductive, NEW x \in LocalSlots, Load(x)
  PROVE  Done(<<0, 1>>, 0, 1, 1, -1) /\ h'.fpu[0] = h.frame[x]
<1> DEFINE e == <<0, 1>>
           b == Balanced(m, 0, 1)
           g == After(e)
<1>1. OperateReady(e, 0, 1, 1) /\ Operate(e) /\ h' = Push(g, g.frame[x])
  BY Footprints DEF Load
<1> HIDE DEF e
<1>2. Ready(b, 0, 1, g)
  BY <1>1, OperateServed
<1> HIDE DEF b, g
<1>3. g.frame[x] \in Val /\ g.frame[x] = h.frame[x]
  BY <1>2, LocalsHeld
<1>4. b.used < DEPTH
  BY <1>2, RegistersTyped DEF Ready
<1>5. Executes(g, b.frameClobbered, 0, 1, -1, h') /\ h'.fpu[0] = g.frame[x]
  BY <1>1, <1>2, <1>3, <1>4, PushExecutes DEF Ready
<1>6. Done(e, 0, 1, 1, -1)
  BY <1>1, <1>2, <1>5 DEF Done, b, g
<1> QED BY <1>3, <1>5, <1>6 DEF e

(* ST(0) changed in place.                                                 *)
LEMMA TopChanged ==
  ASSUME NEW g, NEW top \in Nat, NEW slots \in Nat, NEW deep \in Nat, Holding(g, top, slots, deep),
         1 <= top, top <= DEPTH, NEW v \in Val
  PROVE  /\ Executes(g, deep, 1, 1, -1, Needs(Set(g, 0, v), 1))
         /\ Needs(Set(g, 0, v), 1) = Set(g, 0, v) /\ Needs(Set(g, 0, v), 1).fpu[0] = v
<1> DEFINE r == Set(g, 0, v)
<1>1. /\ Holding(r, top, slots, deep) /\ r.frame = g.frame /\ r.stackUsed = g.stackUsed
      /\ r.fpu[0] = v /\ \A j \in F!Registers : j # 0 => r.fpu[j] = g.fpu[j]
  BY SetHolds, RegistersTyped
<1> HIDE DEF r
<1>2. Sound(r) /\ ~ F!PopFaults(r.fpu, 1)
  BY <1>1, HoldingParts
<1>3. Needs(r, 1) = r
  BY <1>2, NeedsNothing
<1>4. Executes(r, deep, 0, 0, -1, r)
  BY <1>1, IdleExecutes
<1>5. \A j \in F!Registers : 1 <= j => r.fpu[j] = g.fpu[j]
  BY <1>1, RegistersTyped
<1>6. Executes(g, deep, 1, 1, -1, r)
  <2> DEFINE n == 1  c == 0  y == -1
  <2>1. /\ n \in Nat /\ c \in Nat /\ y \in Int /\ c <= n /\ n = c + (n - c) /\ n <= top
        /\ \A j \in F!Registers : n <= j => r.fpu[j] = g.fpu[j]
        /\ Executes(r, deep, c, c, y, r)
    BY <1>4, <1>5
  <2> HIDE DEF n, c, y
  <2>2. Executes(g, deep, n, n, y, r)
    BY <2>1, <1>1, Widened
  <2> QED BY <2>2 DEF n, y
<1> QED BY <1>1, <1>3, <1>6 DEF r

(* The operands of an instruction are numbers.                             *)
LEMMA OperandsHeld ==
  ASSUME NEW b, NEW c \in Nat, NEW k, NEW g, Ready(b, c, k, g)
  PROVE  /\ c <= b.used /\ b.used <= DEPTH
         /\ 1 <= c => g.fpu[0] \in Val
         /\ 2 <= c => g.fpu[1] \in Val
<1>1. /\ b.used \in Nat /\ b.frameUsed \in Nat /\ b.frameClobbered \in Nat
      /\ Holding(g, b.used, b.frameUsed, b.frameClobbered) /\ c <= b.used /\ b.used <= DEPTH
  BY DEF Ready
<1>2. \A i \in F!Registers : i < b.used => g.fpu[i] \in Val
  BY <1>1, HoldingParts
<1>3. /\ 1 <= c => 0 \in F!Registers /\ 0 < b.used
      /\ 2 <= c => 1 \in F!Registers /\ 1 < b.used
  BY <1>1, RegistersTyped
<1> QED BY <1>1, <1>2, <1>3

(* An instruction on the top of the stack. *)
LEMMA UnaryDone ==
  ASSUME MachineInductive, UnaryOp
  PROVE  Done(<<1, 1>>, 1, 1, 1, -1) /\ h'.fpu[0] = Unary(After(<<1, 1>>).fpu[0])
<1> DEFINE e == <<1, 1>>
           b == Balanced(m, 1, 1)
           g == After(e)
           v == Unary(g.fpu[0])
<1>1. OperateReady(e, 1, 1, 1) /\ Operate(e) /\ h' = Needs(Set(g, 0, v), 1)
  BY Footprints DEF UnaryOp, St
<1> HIDE DEF e
<1>2. Ready(b, 1, 1, g)
  BY <1>1, OperateServed
<1> HIDE DEF b, g
<1>3. v \in Val /\ 1 <= b.used /\ b.used <= DEPTH
  BY <1>2, OperandsHeld, ValuesAssumption
<1> HIDE DEF v
<1>4. Executes(g, b.frameClobbered, 1, 1, -1, h') /\ h'.fpu[0] = v
  BY <1>1, <1>2, <1>3, TopChanged DEF Ready
<1>5. Done(e, 1, 1, 1, -1)
  BY <1>1, <1>2, <1>4 DEF Done, b, g
<1> QED BY <1>4, <1>5 DEF e, g, v

(* An instruction on the top of the stack and a local variable. *)
LEMMA MemoryDone ==
  ASSUME MachineInductive, NEW x \in LocalSlots, MemoryOp(x)
  PROVE  Done(<<1, 1>>, 1, 1, 1, -1) /\ h'.fpu[0] = Binary(After(<<1, 1>>).fpu[0], h.frame[x])
<1> DEFINE e == <<1, 1>>
           b == Balanced(m, 1, 1)
           g == After(e)
           v == Binary(g.fpu[0], g.frame[x])
<1>1. OperateReady(e, 1, 1, 1) /\ Operate(e) /\ h' = Needs(Set(g, 0, v), 1)
  BY Footprints DEF MemoryOp, St
<1> HIDE DEF e
<1>2. Ready(b, 1, 1, g)
  BY <1>1, OperateServed
<1> HIDE DEF b, g
<1>3. g.frame[x] \in Val /\ g.frame[x] = h.frame[x]
  BY <1>2, LocalsHeld
<1>4. v \in Val /\ 1 <= b.used /\ b.used <= DEPTH
  BY <1>2, <1>3, OperandsHeld, ValuesAssumption
<1>5. v = Binary(g.fpu[0], h.frame[x])
  BY <1>3
<1> HIDE DEF v
<1>6. Executes(g, b.frameClobbered, 1, 1, -1, h') /\ h'.fpu[0] = v
  BY <1>1, <1>2, <1>4, TopChanged DEF Ready
<1>7. Done(e, 1, 1, 1, -1)
  BY <1>1, <1>2, <1>6 DEF Done, b, g
<1> QED BY <1>5, <1>6, <1>7 DEF e, g

(* An instruction on a machine whose ST(1), or ST(0) and ST(1), were       *)
(* changed before it.                                                      *)
LEMMA PairChanged ==
  ASSUME NEW g, NEW top \in Nat, NEW slots \in Nat, NEW deep \in Nat, Holding(g, top, slots, deep),
         2 <= top, top <= DEPTH, NEW v \in Val, NEW w \in Val
  PROVE  LET r == Set(Set(g, 0, v), 1, w)
             s == Set(g, 1, w)
             t == Set(g, 0, v)
         IN  /\ Executes(g, deep, 2, 2, -1, Needs(r, 2)) /\ Needs(r, 2).fpu[0] = v /\ Needs(r, 2).fpu[1] = w
             /\ Executes(g, deep, 2, 2, -1, Needs(t, 2)) /\ Needs(t, 2).fpu[0] = v /\ Needs(t, 2).fpu[1] = g.fpu[1]
             /\ Executes(g, deep, 2, 1, -1, Pop(Needs(s, 2))) /\ Pop(Needs(s, 2)).fpu[0] = w
<1> DEFINE t == Set(g, 0, v)
           r == Set(t, 1, w)
           s == Set(g, 1, w)
<1>0. 0 < top /\ 0 < DEPTH /\ 1 < top /\ 1 < DEPTH /\ 1 <= top
  BY RegistersTyped
<1>1. /\ Holding(t, top, slots, deep) /\ t.frame = g.frame /\ t.stackUsed = g.stackUsed
      /\ t.fpu[0] = v /\ \A j \in F!Registers : j # 0 => t.fpu[j] = g.fpu[j]
  <2> DEFINE i == 0
  <2>1. i \in Nat /\ i < top /\ i < DEPTH
    BY <1>0
  <2> HIDE DEF i
  <2>2. LET q == Set(g, i, v)
        IN  /\ Holding(q, top, slots, deep) /\ q.frame = g.frame /\ q.stackUsed = g.stackUsed
            /\ q.fpu[i] = v /\ \A j \in F!Registers : j # i => q.fpu[j] = g.fpu[j]
    BY <2>1, SetHolds
  <2> QED BY <2>2 DEF i
<1>2. /\ Holding(s, top, slots, deep) /\ s.frame = g.frame /\ s.stackUsed = g.stackUsed
      /\ s.fpu[1] = w /\ \A j \in F!Registers : j # 1 => s.fpu[j] = g.fpu[j]
  <2> DEFINE i == 1
  <2>1. i \in Nat /\ i < top /\ i < DEPTH
    BY <1>0
  <2> HIDE DEF i
  <2>2. LET q == Set(g, i, w)
        IN  /\ Holding(q, top, slots, deep) /\ q.frame = g.frame /\ q.stackUsed = g.stackUsed
            /\ q.fpu[i] = w /\ \A j \in F!Registers : j # i => q.fpu[j] = g.fpu[j]
    BY <2>1, SetHolds
  <2> QED BY <2>2 DEF i
<1> HIDE DEF t
<1>3. /\ Holding(r, top, slots, deep) /\ r.frame = t.frame /\ r.stackUsed = t.stackUsed
      /\ r.fpu[1] = w /\ \A j \in F!Registers : j # 1 => r.fpu[j] = t.fpu[j]
  <2> DEFINE i == 1
  <2>1. i \in Nat /\ i < top /\ i < DEPTH
    BY <1>0
  <2> HIDE DEF i
  <2>2. LET q == Set(t, i, w)
        IN  /\ Holding(q, top, slots, deep) /\ q.frame = t.frame /\ q.stackUsed = t.stackUsed
            /\ q.fpu[i] = w /\ \A j \in F!Registers : j # i => q.fpu[j] = t.fpu[j]
    BY <2>1, <1>1, SetHolds
  <2> QED BY <2>2 DEF i
<1> HIDE DEF r, s
<1>4. /\ Sound(r) /\ Sound(s) /\ Sound(t) /\ ~ F!PopFaults(r.fpu, 2) /\ ~ F!PopFaults(s.fpu, 2)
      /\ ~ F!PopFaults(t.fpu, 2)
  BY <1>1, <1>2, <1>3, HoldingParts
<1>5. Needs(r, 2) = r /\ Needs(s, 2) = s /\ Needs(t, 2) = t
  BY <1>4, NeedsNothing
<1>6. r.fpu[0] = v /\ t.fpu[1] = g.fpu[1]
  BY <1>1, <1>3, RegistersTyped
<1>7. Executes(r, deep, 0, 0, -1, r) /\ Executes(t, deep, 0, 0, -1, t)
  BY <1>1, <1>3, IdleExecutes
<1>8. Executes(s, deep, 1, 0, -1, Pop(s))
  BY <1>0, <1>2, PopExecutes
<1> DEFINE z == Pop(s)
           n == 2  c == 0  d == 1  y == -1
<1> HIDE DEF z
<1>9. /\ n \in Nat /\ c \in Nat /\ d \in Nat /\ y \in Int /\ c <= n /\ d <= n /\ n <= top
      /\ n = c + (n - c) /\ d = c + (n - d)
      /\ Executes(r, deep, c, c, y, r) /\ Executes(t, deep, c, c, y, t) /\ Executes(s, deep, d, c, y, z)
  BY <1>7, <1>8 DEF z
<1>10. \A j \in F!Registers : n <= j => r.fpu[j] = g.fpu[j] /\ s.fpu[j] = g.fpu[j] /\ t.fpu[j] = g.fpu[j]
  <2>1. \A j \in F!Registers : n <= j => j # 0 /\ j # 1
    BY RegistersTyped
  <2> QED BY <2>1, <1>1, <1>2, <1>3
<1>11. z.fpu[0] = w
  <2>1. 0 \in F!Registers /\ 1 \in F!Registers /\ (0 - 0) + 1 = 1 /\ (0 - 0) + 1 < DEPTH /\ 0 <= 0
    BY RegistersTyped, DepthAssumption
  <2>2. z.fpu[0] = s.fpu[(0 - 0) + 1]
    BY <2>1, <1>8 DEF Executes, z
  <2> QED BY <2>1, <2>2, <1>2
<1> HIDE DEF n, c, d, y
<1>12. Executes(g, deep, n, n, y, r)
  BY <1>1, <1>3, <1>9, <1>10, Widened
<1>13. Executes(g, deep, n, d, y, z)
  BY <1>2, <1>9, <1>10, Widened
<1>14. Executes(g, deep, n, n, y, t)
  BY <1>1, <1>9, <1>10, Widened
<1> QED BY <1>1, <1>3, <1>5, <1>6, <1>11, <1>12, <1>13, <1>14 DEF r, s, t, z, n, d, y

(* The same, for one of them.                                              *)
LEMMA TopOfPairChanged ==
  ASSUME NEW g, NEW top \in Nat, NEW slots \in Nat, NEW deep \in Nat, Holding(g, top, slots, deep),
         2 <= top, top <= DEPTH, NEW v \in Val
  PROVE  LET r == Needs(Set(g, 0, v), 2)
         IN  Executes(g, deep, 2, 2, -1, r) /\ r.fpu[0] = v /\ r.fpu[1] = g.fpu[1]
<1> DEFINE w == v
<1>1. w \in Val
  OBVIOUS
<1> HIDE DEF w
<1>2. LET t == Set(g, 0, v)
      IN  Executes(g, deep, 2, 2, -1, Needs(t, 2)) /\ Needs(t, 2).fpu[0] = v /\ Needs(t, 2).fpu[1] = g.fpu[1]
  BY <1>1, PairChanged
<1> QED BY <1>2

(* Replacing the second value and popping the first takes two and leaves *)
(* one.                                                                  *)
LEMMA SecondPopped ==
  ASSUME NEW g, NEW top \in Nat, NEW slots \in Nat, NEW deep \in Nat, Holding(g, top, slots, deep),
         2 <= top, top <= DEPTH, NEW w \in Val
  PROVE  LET r == Pop(Needs(Set(g, 1, w), 2))
         IN  Executes(g, deep, 2, 1, -1, r) /\ r.fpu[0] = w
<1> DEFINE v == w
<1>1. v \in Val
  OBVIOUS
<1> HIDE DEF v
<1>2. LET s == Set(g, 1, w)
      IN  Executes(g, deep, 2, 1, -1, Pop(Needs(s, 2))) /\ Pop(Needs(s, 2)).fpu[0] = w
  BY <1>1, PairChanged
<1> QED BY <1>2

(* Exchanging the two values on top. *)
LEMMA FxchDone ==
  ASSUME MachineInductive, Fxch
  PROVE  /\ Done(<<2, 2>>, 2, 2, 2, -1)
         /\ h'.fpu[0] = After(<<2, 2>>).fpu[1] /\ h'.fpu[1] = After(<<2, 2>>).fpu[0]
<1> DEFINE e == <<2, 2>>
           b == Balanced(m, 2, 2)
           g == After(e)
           v == g.fpu[1]
           w == g.fpu[0]
<1>1. OperateReady(e, 2, 2, 2) /\ Operate(e) /\ h' = Needs(Set(Set(g, 0, v), 1, w), 2)
  BY Footprints DEF Fxch, St
<1> HIDE DEF e
<1>2. Ready(b, 2, 2, g)
  BY <1>1, OperateServed
<1> HIDE DEF b, g
<1>3. v \in Val /\ w \in Val /\ 2 <= b.used /\ b.used <= DEPTH
  BY <1>2, OperandsHeld
<1>4. /\ b.used \in Nat /\ b.frameUsed \in Nat /\ b.frameClobbered \in Nat
      /\ Holding(g, b.used, b.frameUsed, b.frameClobbered)
  BY <1>2 DEF Ready
<1> HIDE DEF v, w
<1>5. Executes(g, b.frameClobbered, 2, 2, -1, h') /\ h'.fpu[0] = v /\ h'.fpu[1] = w
  <2>1. LET r == Set(Set(g, 0, v), 1, w)
        IN  Executes(g, b.frameClobbered, 2, 2, -1, Needs(r, 2)) /\ Needs(r, 2).fpu[0] = v /\ Needs(r, 2).fpu[1] = w
    <3> DEFINE top == b.used  slots == b.frameUsed  deep == b.frameClobbered
    <3>1. /\ top \in Nat /\ slots \in Nat /\ deep \in Nat /\ Holding(g, top, slots, deep)
          /\ 2 <= top /\ top <= DEPTH /\ v \in Val /\ w \in Val
      BY <1>3, <1>4
    <3> HIDE DEF top, slots, deep
    <3>2. LET r == Set(Set(g, 0, v), 1, w)
          IN  Executes(g, deep, 2, 2, -1, Needs(r, 2)) /\ Needs(r, 2).fpu[0] = v /\ Needs(r, 2).fpu[1] = w
      BY <3>1, PairChanged, SMTT(60)
    <3> QED BY <3>2 DEF deep
  <2> QED BY <2>1, <1>1
<1>6. Done(e, 2, 2, 2, -1)
  BY <1>1, <1>2, <1>5 DEF Done, b, g
<1> QED BY <1>5, <1>6 DEF e, g, v, w

(* ST(0) is replaced, ST(1) is kept.                                       *)
LEMMA CombineDone ==
  ASSUME MachineInductive, CombineOp
  PROVE  Done(<<2, 2>>, 2, 2, 2, -1)
         /\ h'.fpu[0] = Binary(After(<<2, 2>>).fpu[0], After(<<2, 2>>).fpu[1])
         /\ h'.fpu[1] = After(<<2, 2>>).fpu[1]
<1> DEFINE e == <<2, 2>>
           b == Balanced(m, 2, 2)
           g == After(e)
           v == Binary(g.fpu[0], g.fpu[1])
           w == g.fpu[1]
<1>1. OperateReady(e, 2, 2, 2) /\ Operate(e) /\ h' = Needs(Set(g, 0, v), 2)
  BY Footprints DEF CombineOp, St
<1> HIDE DEF e
<1>2. Ready(b, 2, 2, g)
  BY <1>1, OperateServed
<1> HIDE DEF b, g
<1>3. v \in Val /\ w \in Val /\ 2 <= b.used /\ b.used <= DEPTH
  BY <1>2, OperandsHeld, ValuesAssumption
<1>4. /\ b.used \in Nat /\ b.frameUsed \in Nat /\ b.frameClobbered \in Nat
      /\ Holding(g, b.used, b.frameUsed, b.frameClobbered)
  BY <1>2 DEF Ready
<1> HIDE DEF v, w
<1>6. Executes(g, b.frameClobbered, 2, 2, -1, h') /\ h'.fpu[0] = v /\ h'.fpu[1] = w
  BY <1>1, <1>3, <1>4, TopOfPairChanged DEF w
<1>7. Done(e, 2, 2, 2, -1)
  BY <1>1, <1>2, <1>6 DEF Done, b, g
<1> QED BY <1>6, <1>7 DEF e, g, v, w

(* An instruction on the two values on top. *)
LEMMA BinaryDone ==
  ASSUME MachineInductive, BinaryOp
  PROVE  /\ Done(<<2, 1>>, 2, 1, 2, -1)
         /\ h'.fpu[0] = Binary(After(<<2, 1>>).fpu[1], After(<<2, 1>>).fpu[0])
<1> DEFINE e == <<2, 1>>
           b == Balanced(m, 2, 2)
           g == After(e)
           w == Binary(g.fpu[1], g.fpu[0])
<1>1. OperateReady(e, 2, 1, 2) /\ Operate(e) /\ h' = Pop(Needs(Set(g, 1, w), 2))
  BY Footprints DEF BinaryOp, St
<1> HIDE DEF e
<1>2. Ready(b, 2, 2, g)
  BY <1>1, OperateServed
<1> HIDE DEF b, g
<1>3. w \in Val /\ 2 <= b.used /\ b.used <= DEPTH
  BY <1>2, OperandsHeld, ValuesAssumption
<1>4. /\ b.used \in Nat /\ b.frameUsed \in Nat /\ b.frameClobbered \in Nat
      /\ Holding(g, b.used, b.frameUsed, b.frameClobbered)
  BY <1>2 DEF Ready
<1> HIDE DEF w
<1>5. Executes(g, b.frameClobbered, 2, 1, -1, h') /\ h'.fpu[0] = w
  BY <1>1, <1>3, <1>4, SecondPopped
<1>6. Done(e, 2, 1, 2, -1)
  BY <1>1, <1>2, <1>5 DEF Done, b, g
<1> QED BY <1>5, <1>6 DEF e, g, w

(* ST(0) changed, and another number pushed.                               *)
LEMMA TopSplit ==
  ASSUME NEW g, NEW top \in Nat, NEW slots \in Nat, NEW deep \in Nat, Holding(g, top, slots, deep),
         1 <= top, top < DEPTH, NEW v \in Val, NEW w \in Val
  PROVE  LET r == Push(Needs(Set(g, 0, v), 1), w)
         IN  Executes(g, deep, 1, 2, -1, r) /\ r.fpu[0] = w /\ r.fpu[1] = v
<1> DEFINE u == Set(g, 0, v)
           r == Push(u, w)
<1>1. 0 < top /\ 0 < DEPTH /\ top <= DEPTH
  BY RegistersTyped
<1>2. /\ Holding(u, top, slots, deep) /\ u.frame = g.frame /\ u.stackUsed = g.stackUsed
      /\ u.fpu[0] = v /\ \A j \in F!Registers : j # 0 => u.fpu[j] = g.fpu[j]
  <2> DEFINE i == 0
  <2>1. i \in Nat /\ i < top /\ i < DEPTH
    BY <1>1
  <2> HIDE DEF i
  <2>2. LET q == Set(g, i, v)
        IN  /\ Holding(q, top, slots, deep) /\ q.frame = g.frame /\ q.stackUsed = g.stackUsed
            /\ q.fpu[i] = v /\ \A j \in F!Registers : j # i => q.fpu[j] = g.fpu[j]
    BY <2>1, SetHolds
  <2> QED BY <2>2 DEF i
<1>3. Needs(u, 1) = u
  BY <1>1, TopChanged
<1> HIDE DEF u
<1>4. Executes(u, deep, 0, 1, -1, r) /\ r.fpu[0] = w
  BY <1>2, PushExecutes
<1> HIDE DEF r
<1>5. r.fpu[1] = v
  <2> DEFINE i == 1  j == (i - 1) + 0
  <2>1. i \in F!Registers /\ j = 0 /\ j < DEPTH /\ 1 <= i
    BY RegistersTyped, DepthAssumption
  <2> HIDE DEF i
  <2>2. r.fpu[i] = u.fpu[j]
    BY <2>1, <1>4 DEF Executes
  <2> QED BY <2>1, <2>2, <1>2 DEF i
<1> DEFINE n == 1  c == 0  p == 1  q == 2  y == -1
<1>6. /\ n \in Nat /\ c \in Nat /\ p \in Nat /\ q \in Nat /\ y \in Int /\ c <= n /\ q = p + (n - c) /\ n <= top
      /\ Executes(u, deep, c, p, y, r)
  BY <1>4
<1>7. \A j \in F!Registers : n <= j => u.fpu[j] = g.fpu[j]
  <2>1. \A j \in F!Registers : n <= j => j # 0
    BY RegistersTyped
  <2> QED BY <2>1, <1>2
<1> HIDE DEF n, c, p, q, y
<1>8. Executes(g, deep, n, q, y, r)
  <2>1. top <= DEPTH
    BY <1>1
  <2>2. Holding(u, top, slots, deep) /\ u.frame = g.frame /\ u.stackUsed = g.stackUsed
    BY <1>2
  <2>3. \A r2 : Executes(u, deep, c, p, y, r2) => Executes(g, deep, n, q, y, r2)
    BY <2>1, <2>2, <1>6, <1>7, Widened
  <2> QED BY <2>3, <1>6
<1> QED BY <1>3, <1>4, <1>5, <1>8 DEF n, q, y, r, u

(* An instruction that leaves two results for one operand. *)
LEMMA SplitDone ==
  ASSUME MachineInductive, SplitOp
  PROVE  /\ Done(<<1, 2>>, 1, 2, 2, -1)
         /\ h'.fpu[0] = Second(After(<<1, 2>>).fpu[0]) /\ h'.fpu[1] = Unary(After(<<1, 2>>).fpu[0])
<1> DEFINE e == <<1, 2>>
           b == Balanced(m, 1, 2)
           g == After(e)
           v == Unary(g.fpu[0])
           w == Second(g.fpu[0])
<1>1. OperateReady(e, 1, 2, 2) /\ Operate(e) /\ h' = Push(Needs(Set(g, 0, v), 1), w)
  BY Footprints DEF SplitOp, St
<1> HIDE DEF e
<1>2. Ready(b, 1, 2, g)
  BY <1>1, OperateServed
<1> HIDE DEF b, g
<1>3. v \in Val /\ w \in Val /\ 1 <= b.used /\ b.used <= DEPTH
  BY <1>2, OperandsHeld, ValuesAssumption
<1> DEFINE top == b.used  slots == b.frameUsed  deep == b.frameClobbered
<1>4. /\ top \in Nat /\ slots \in Nat /\ deep \in Nat
      /\ Holding(g, top, slots, deep) /\ (top - 1) + 2 <= DEPTH
  BY <1>2 DEF Ready
<1>5. 1 <= top
  BY <1>3
<1> HIDE DEF v, w, top, slots, deep
<1>6. top < DEPTH
  BY <1>4, <1>5, RegistersTyped
<1>7. Executes(g, deep, 1, 2, -1, h') /\ h'.fpu[0] = w /\ h'.fpu[1] = v
  BY <1>1, <1>3, <1>4, <1>5, <1>6, TopSplit
<1>8. Done(e, 1, 2, 2, -1)
  BY <1>1, <1>2, <1>7 DEF Done, b, g, deep
<1> QED BY <1>7, <1>8 DEF e, g, v, w

-----------------------------------------------------------------------------
(* The instructions whose footprint depends on the counters, or whose      *)
(* value leaves the registers.                                             *)

(* As Done, without the action Operate.                                    *)
Does(c, p, k, y) ==
  /\ Servable(m, c, p, k)
  /\ Ready(Balanced(m, c, k), c, k, SpillCode(c, k))
  /\ Executes(SpillCode(c, k), Balanced(m, c, k).frameClobbered, c, p, y, h')

(* A step outside Assembler::operate that changes no more than it asked for *)
(* keeps the invariant.                                                     *)
LEMMA DoesKeeps ==
  ASSUME MachineInductive, Running, NEW c, NEW p, NEW k, NEW y, Does(c, p, k, y),
         m' = Adjusted(m, c, p, k), [Next]_vars, Running', (Excess(m) - c) + p <= MaxExcess
  PROVE  MachineInductive'
<1>1. Inductive'
  BY NextInductive DEF MachineInductive
<1>2. Counted(m) /\ m.locals <= MaxLocals
  BY InductiveCounted DEF MachineInductive, WithinBounds
<1>3. Excess(m') = (Excess(m) - c) + p /\ m'.locals = m.locals
  BY <1>2, AdjustedFields DEF SameScope, Does
<1>4. WithinBounds'
  BY <1>2, <1>3 DEF WithinBounds
<1> QED BY <1>1, <1>4, InstructionKeeps DEF Does

(* A value popped: into a local variable, or dropped.                      *)
LEMMA PopServed ==
  ASSUME MachineInductive, Running, 1 <= Excess(m)
  PROVE  /\ Servable(m, 1, 0, 1) /\ After(<<1, 0>>) = SpillCode(1, 1)
         /\ ApplyEffect(m, <<1, 0>>) = Adjusted(m, 1, 0, 1)
         /\ Ready(Balanced(m, 1, 1), 1, 1, SpillCode(1, 1))
<1>1. Footprint(<<1, 0>>) = 1
  BY DEF Footprint, Larger
<1>2. Servable(m, 1, 0, 1)
  BY DepthAssumption DEF Servable
<1> QED BY <1>1, <1>2, SpillCodeReady DEF After, ApplyEffect

(* Dropping the value on top is such a step. *)
LEMMA PopDoes ==
  ASSUME MachineInductive, Running, 1 <= Excess(m), h' = Pop(After(<<1, 0>>))
  PROVE  Does(1, 0, 1, -1)
<1> DEFINE b == Balanced(m, 1, 1)
           g == SpillCode(1, 1)
<1>1. Ready(b, 1, 1, g) /\ h' = Pop(g) /\ Servable(m, 1, 0, 1)
  BY PopServed
<1> HIDE DEF b, g
<1>2. /\ b.used \in Nat /\ b.frameUsed \in Nat /\ b.frameClobbered \in Nat
      /\ Holding(g, b.used, b.frameUsed, b.frameClobbered) /\ 1 <= b.used
  BY <1>1 DEF Ready
<1>3. Executes(g, b.frameClobbered, 1, 0, -1, h')
  BY <1>1, <1>2, PopExecutes
<1> QED BY <1>1, <1>3 DEF Does, b, g

(* So is storing the value on top to a slot within the declared frame. *)
LEMMA StoreDoes ==
  ASSUME MachineInductive, Running, 1 <= Excess(m), NEW x \in Slots, x < m.frameClobbered,
         h' = StoreTo(After(<<1, 0>>), x, After(<<1, 0>>).stackUsed)
  PROVE  /\ Does(1, 0, 1, x)
         /\ x < Balanced(m, 1, 1).frameUsed => h'.frame[x] = SpillCode(1, 1).fpu[0]
<1> DEFINE b == Balanced(m, 1, 1)
           g == SpillCode(1, 1)
<1>1. Ready(b, 1, 1, g) /\ h' = StoreTo(g, x, g.stackUsed) /\ Servable(m, 1, 0, 1)
  BY PopServed
<1> HIDE DEF b, g
<1> DEFINE top == b.used  slots == b.frameUsed  deep == b.frameClobbered
<1>2. /\ top \in Nat /\ slots \in Nat /\ deep \in Nat
      /\ Holding(g, top, slots, deep) /\ 1 <= top
      /\ slots <= deep /\ m.frameClobbered <= deep
  BY <1>1 DEF Ready
<1> HIDE DEF top, slots, deep
<1>3. g.stackUsed = slots
  BY <1>2, HoldingParts
<1>4. x < deep
  <2>1. x \in Nat /\ m.frameClobbered \in Nat
    BY RegistersTyped, CountedTyped, InductiveCounted DEF MachineInductive
  <2> QED BY <2>1, <1>2
<1>5. Executes(g, deep, 1, 0, x, h') /\ (x < slots => h'.frame[x] = g.fpu[0])
  <2>1. LET r == StoreTo(g, x, slots)
        IN  Executes(g, deep, 1, 0, x, r) /\ (x < slots => r.frame[x] = g.fpu[0])
    BY <1>2, <1>4, StoreExecutes
  <2> QED BY <2>1, <1>1, <1>3
<1> QED BY <1>1, <1>5 DEF Does, b, g, slots, deep

(* An assignment to a local variable keeps the invariant. *)
LEMMA AssignKeeps ==
  ASSUME MachineInductive, NEW x \in LocalSlots, Assign(x), [Next]_vars
  PROVE  Does(1, 0, 1, x) /\ MachineInductive'
<1>1. /\ Running /\ 1 <= Excess(m) /\ m' = ApplyEffect(m, <<1, 0>>) /\ Running'
      /\ h' = StoreTo(After(<<1, 0>>), x, After(<<1, 0>>).stackUsed)
  BY DEF Assign, Store, InBody, Running
<1>2. Counted(m) /\ m.locals <= MaxLocals /\ Excess(m) <= MaxExcess
  BY InductiveCounted DEF MachineInductive, WithinBounds
<1>3. /\ m.locals \in Nat /\ m.locals <= m.frameClobbered /\ m.frameClobbered \in Nat /\ Excess(m) \in Nat
  BY <1>2, CountedTyped
<1>4. x \in Slots /\ x < m.frameClobbered
  BY <1>2, <1>3, BoundsAssumption, RegistersTyped, FrameAssumption DEF LocalSlots
<1>5. Does(1, 0, 1, x)
  BY <1>1, <1>4, StoreDoes
<1>6. m' = Adjusted(m, 1, 0, 1)
  BY <1>1, PopServed
<1>7. (Excess(m) - 1) + 0 <= MaxExcess
  BY <1>2, <1>3, BoundsAssumption
<1>8. MachineInductive'
  <2> DEFINE c == 1  p == 0  k == 1
  <2>1. Does(c, p, k, x) /\ m' = Adjusted(m, c, p, k) /\ (Excess(m) - c) + p <= MaxExcess
    BY <1>5, <1>6, <1>7
  <2> HIDE DEF c, p, k
  <2> QED BY <2>1, <1>1, DoesKeeps
<1> QED BY <1>5, <1>8

(* Values bound to no name are dropped, and the invariant is kept. *)
LEMMA DummyKeeps ==
  ASSUME MachineInductive, AssignDummy \/ DeclareDummy, [Next]_vars
  PROVE  Does(1, 0, 1, -1) /\ MachineInductive'
<1>1. /\ Running /\ 1 <= Excess(m) /\ m' = ApplyEffect(m, <<1, 0>>) /\ Running'
      /\ h' = Pop(After(<<1, 0>>))
  BY DEF AssignDummy, DeclareDummy, Store, AllocaDummy, Declaring, AfterDeclaration, InBody, Running
<1>2. Counted(m) /\ Excess(m) <= MaxExcess
  BY InductiveCounted DEF MachineInductive, WithinBounds
<1>3. Excess(m) \in Nat
  BY <1>2, CountedTyped
<1>5. Does(1, 0, 1, -1)
  BY <1>1, PopDoes
<1>6. m' = Adjusted(m, 1, 0, 1)
  BY <1>1, PopServed
<1>7. (Excess(m) - 1) + 0 <= MaxExcess
  BY <1>2, <1>3, BoundsAssumption
<1>8. MachineInductive'
  <2> DEFINE c == 1  p == 0  k == 1  x == -1
  <2>1. Does(c, p, k, x) /\ m' = Adjusted(m, c, p, k) /\ (Excess(m) - c) + p <= MaxExcess
    BY <1>5, <1>6, <1>7
  <2> HIDE DEF c, p, k, x
  <2> QED BY <2>1, <1>1, DoesKeeps
<1> QED BY <1>5, <1>8

(* Where a spilled value lies that no spill code moves.                    *)
LEMMA FarSlot ==
  ASSUME MachineInductive, NEW i \in {0, 1}, i < Excess(m), ~ Near(m, i)
  PROVE  LET x == FarOffset(m, i)
         IN  x \in Slots /\ x < m.frameUsed /\ x < m.frameClobbered /\ m.locals <= x
<1>1. Counted(m) /\ m.locals <= MaxLocals /\ Excess(m) <= MaxExcess
  BY InductiveCounted DEF MachineInductive, WithinBounds
<1>2. /\ m.locals \in Nat /\ m.frameUsed \in Nat /\ m.used \in Nat /\ m.frameClobbered \in Nat
      /\ Excess(m) = (m.frameUsed - m.locals) + m.used /\ m.frameUsed <= m.frameClobbered
  BY <1>1, CountedTyped
<1>3. FarOffset(m, i) \in Int /\ FarOffset(m, i) < m.frameUsed /\ m.locals <= FarOffset(m, i)
  BY <1>2 DEF FarOffset, Near
<1>4. m.frameUsed <= FrameSize
  BY <1>1, <1>2, BoundsAssumption, FrameAssumption
<1>5. FarOffset(m, i) \in Slots
  BY <1>2, <1>3, <1>4, RegistersTyped
<1>6. FarOffset(m, i) < m.frameClobbered
  BY <1>2, <1>3
<1> QED BY <1>3, <1>5, <1>6

(* No spill code when no operand is missing and no register is.            *)
LEMMA NothingMoves ==
  ASSUME Counted(m), NEW c \in Nat, NEW k \in Nat, c <= m.used, (m.used - c) + k <= DEPTH
  PROVE  SpillCode(c, k) = h /\ Balanced(m, c, k) = m
<1>1. m.used \in Nat /\ DEPTH \in Nat
  BY CountedTyped, RegistersTyped
<1>2. ~ Deficient(m, c) /\ ~ Overfull(m, c, k)
  BY <1>1 DEF Deficient, Overfull
<1> QED BY <1>2 DEF SpillCode, Balanced

(* What fld st(i) does: nothing is taken, and one value is pushed.         *)
Fetches(i) ==
  LET e == DupEffect(m, i)
      c == e[1]
      k == Footprint(e)
      g == SpillCode(c, k)
  IN  /\ Does(c, e[2], k, -1) /\ m' = Adjusted(m, c, e[2], k) /\ e[2] = c + 1
      /\ Executes(g, Balanced(m, c, k).frameClobbered, 0, 1, -1, h')
      /\ Near(m, i) => h'.fpu[0] = g.fpu[i]
      /\ ~ Near(m, i) => h'.fpu[0] = h.frame[FarOffset(m, i)]

(* fld st(i): the value, read where it is, is pushed.                      *)
LEMMA FldKeeps ==
  ASSUME MachineInductive, NEW i \in {0, 1}, FldSt(i), [Next]_vars
  PROVE  Fetches(i) /\ Running /\ Running' /\ i < Excess(m) /\ MachineInductive'
<1> DEFINE e == DupEffect(m, i)
           c == e[1]
           p == e[2]
           k == Footprint(e)
           b == Balanced(m, c, k)
           g == SpillCode(c, k)
<1>1. /\ Running /\ i < Excess(m) /\ Excess(m) + 1 <= MaxExcess /\ m' = Adjusted(m, c, p, k) /\ Running'
      /\ h' = Push(g, IF Near(m, i) THEN g.fpu[i] ELSE g.frame[FarOffset(m, i)])
  BY DEF FldSt, Dup, InBody, Running, After, ApplyEffect, St
<1>2. Counted(m) /\ m.used \in Nat /\ Excess(m) \in Nat
  BY InductiveCounted, CountedTyped DEF MachineInductive
<1>3. Servable(m, c, p, k) /\ p = c + 1
  BY <1>1, <1>2, DupServable
<1>4. Ready(b, c, k, g)
  BY <1>1, <1>3, SpillCodeReady
<1>5. /\ Executes(g, b.frameClobbered, c, p, -1, h') /\ Executes(g, b.frameClobbered, 0, 1, -1, h')
      /\ Near(m, i) => h'.fpu[0] = g.fpu[i]
      /\ ~ Near(m, i) => h'.fpu[0] = h.frame[FarOffset(m, i)]
  <2> DEFINE top == b.used  slots == b.frameUsed  deep == b.frameClobbered
  <2>1. c \in Nat /\ p \in Nat /\ k \in Nat /\ p <= k
    BY <1>3 DEF Servable
  <2>2. /\ top \in Nat /\ slots \in Nat /\ deep \in Nat /\ Holding(g, top, slots, deep)
        /\ c <= top /\ (top - c) + k <= DEPTH /\ top <= DEPTH
    BY <1>4 DEF Ready
  <2>3. CASE Near(m, i)
    <3>1. c = i + 1
      BY <2>3 DEF DupEffect
    <3> HIDE DEF c, p, k, g, top, slots, deep
    <3>2. i \in Nat /\ i < top /\ top < DEPTH /\ i < DEPTH
      BY <3>1, <2>1, <2>2, <1>3, RegistersTyped
    <3>3. g.fpu[i] \in Val
      <4>1. i \in F!Registers
        BY <3>2, RegistersTyped
      <4> QED BY <4>1, <3>2, <2>2, HoldingParts
    <3> DEFINE v == g.fpu[i]
    <3>4. h' = Push(g, v) /\ v \in Val
      BY <1>1, <2>3, <3>3
    <3> HIDE DEF v
    <3>5. Executes(g, deep, 0, 1, -1, h') /\ h'.fpu[0] = v
      BY <3>2, <3>4, <2>2, PushExecutes
    <3> DEFINE n == 0  q == 1  y == -1
    <3>6. n \in Nat /\ q \in Nat /\ y \in Int /\ n <= c /\ p = q + (c - n) /\ Executes(g, deep, n, q, y, h')
      BY <3>5, <2>1, <1>3
    <3> HIDE DEF n, q, y
    <3>7. \A z : Executes(g, deep, n, q, y, z) => Executes(g, deep, c, p, y, z)
      BY <3>6, <2>1, <2>2, Widened
    <3>8. Executes(g, deep, c, p, y, h')
      BY <3>6, <3>7
    <3> QED BY <3>5, <3>8, <2>3 DEF deep, y, v
  <2>4. CASE ~ Near(m, i)
    <3>1. c = 0 /\ p = 1 /\ k = 1
      BY <2>4 DEF DupEffect, Footprint, Larger
    <3>2. m.used - 0 + 1 <= DEPTH
      BY <2>4, <1>2, DepthAssumption DEF Near
    <3>3. g = h /\ b = m
      <4> DEFINE cc == 0  kk == 1
      <4>1. cc \in Nat /\ kk \in Nat /\ cc <= m.used /\ (m.used - cc) + kk <= DEPTH
        BY <3>2, <1>2
      <4> HIDE DEF cc, kk
      <4>2. SpillCode(cc, kk) = h /\ Balanced(m, cc, kk) = m
        BY <4>1, <1>2, NothingMoves
      <4> QED BY <4>2, <3>1 DEF cc, kk
    <3> DEFINE x == FarOffset(m, i)
    <3>4. x \in Slots /\ x < m.frameUsed
      BY <1>1, <2>4, FarSlot
    <3> HIDE DEF x, c, p, k, g, b
    <3> HIDE DEF top, slots, deep
    <3>5. x < slots
      BY <3>3, <3>4 DEF slots
    <3> DEFINE v == g.frame[x]
    <3>6. v \in Val
      BY <3>4, <3>5, <2>2, HoldingParts
    <3>7. h' = Push(g, v)
      BY <1>1, <2>4 DEF x
    <3>8. top < DEPTH
      BY <2>2, <3>1, RegistersTyped
    <3> HIDE DEF v
    <3>9. Executes(g, deep, 0, 1, -1, h') /\ h'.fpu[0] = v
      BY <3>6, <3>7, <3>8, <2>2, PushExecutes
    <3>10. v = h.frame[x]
      BY <3>3 DEF v
    <3> QED BY <3>1, <3>9, <3>10, <2>4 DEF deep, x
  <2> QED BY <2>3, <2>4
<1>6. (Excess(m) - c) + p <= MaxExcess
  <2>1. c \in Nat
    BY <1>3 DEF Servable
  <2> HIDE DEF c, p
  <2> QED BY <2>1, <1>1, <1>2, <1>3, BoundsAssumption
<1>7. Does(c, p, k, -1)
  BY <1>3, <1>4, <1>5 DEF Does
<1>8. Fetches(i)
  BY <1>1, <1>3, <1>5, <1>7 DEF Fetches
<1> DEFINE y == -1
<1> HIDE DEF c, p, k
<1>9. Does(c, p, k, y)
  BY <1>7
<1> HIDE DEF y
<1> QED BY <1>1, <1>6, <1>8, <1>9, DoesKeeps

(* What fstp st(i) does: the value on top is dropped (i = 0), or it takes  *)
(* the place of the one below it, in its register or in its slot.          *)
Overwrites(i) ==
  LET e == DropEffect(m, i)
      c == e[1]
      k == Footprint(e)
      x == FarOffset(m, i)
  IN  /\ m' = Adjusted(m, c, e[2], k) /\ c = e[2] + 1
      /\ i = 0 => e = <<1, 0>> /\ Does(1, 0, 1, IF Near(m, i) THEN -1 ELSE x)
      /\ i = 1 /\ Near(m, i) =>
           /\ Does(c, e[2], k, -1) /\ 2 <= c /\ SpillCode(c, k) = h
           /\ Executes(h, Balanced(m, c, k).frameClobbered, 2, 1, -1, h')
           /\ h'.fpu[0] = h.fpu[0]
      /\ ~ Near(m, i) =>
           /\ e = <<1, 0>> /\ Does(1, 0, 1, x)
           /\ x < Balanced(m, 1, 1).frameUsed => h'.frame[x] = SpillCode(1, 1).fpu[0]

(* fstp st(i): the top value replaces the i-th, where it is, and leaves.   *)
LEMMA FstpKeeps ==
  ASSUME MachineInductive, NEW i \in {0, 1}, FstpSt(i), [Next]_vars
  PROVE  Overwrites(i) /\ Running /\ Running' /\ i < Excess(m) /\ MachineInductive'
<1> DEFINE e == DropEffect(m, i)
           c == e[1]
           p == e[2]
           k == Footprint(e)
           g == SpillCode(c, k)
<1>1. /\ Running /\ i < Excess(m) /\ m' = Adjusted(m, c, p, k) /\ Running'
      /\ After(e) = g
      /\ Near(m, i) => h' = Pop(Needs(Set(g, i, g.fpu[0]), 1))
      /\ ~ Near(m, i) => h' = StoreTo(g, FarOffset(m, i), g.stackUsed)
  BY DEF FstpSt, Drop, InBody, Running, AfterOperation, After, ApplyEffect, St
<1>2. Counted(m) /\ m.used \in Nat /\ Excess(m) \in Nat /\ m.frameUsed \in Nat /\ m.frameClobbered \in Nat
      /\ m.used <= DEPTH /\ Excess(m) <= MaxExcess
  <2>1. Counted(m) /\ Excess(m) <= MaxExcess
    BY InductiveCounted DEF MachineInductive, WithinBounds
  <2>2. /\ m.used \in Nat /\ m.clobbered \in Nat /\ m.used <= m.clobbered /\ m.clobbered <= DEPTH
        /\ Excess(m) \in Nat /\ m.frameUsed \in Nat /\ m.frameClobbered \in Nat
    BY <2>1, CountedTyped
  <2>3. m.used <= DEPTH
    BY <2>2, RegistersTyped
  <2> QED BY <2>1, <2>2, <2>3
<1>3. Servable(m, c, p, k) /\ c = p + 1
  BY <1>1, <1>2, DropServable
<1>4. (Excess(m) - c) + p <= MaxExcess
  <2>1. p \in Nat
    BY <1>3 DEF Servable
  <2> HIDE DEF c, p
  <2> QED BY <2>1, <1>2, <1>3, BoundsAssumption
<1>5. CASE i = 0 /\ Near(m, i)
  <2>1. e = <<1, 0>>
    BY <1>5 DEF DropEffect
  <2>2. c = 1 /\ p = 0 /\ k = 1
    BY <2>1 DEF Footprint, Larger
  <2>3. 1 <= Excess(m)
    BY <1>1, <1>2, <1>5
  <2>4. Ready(Balanced(m, 1, 1), 1, 1, SpillCode(1, 1)) /\ g = SpillCode(1, 1)
    BY <1>1, <2>2, <2>3, PopServed
  <2> DEFINE b == Balanced(m, 1, 1)
             top == b.used  slots == b.frameUsed  deep == b.frameClobbered
             v == g.fpu[0]
  <2>5. /\ top \in Nat /\ slots \in Nat /\ deep \in Nat /\ Holding(g, top, slots, deep) /\ 1 <= top /\ top <= DEPTH
    BY <2>4 DEF Ready
  <2>6. h' = Pop(Needs(Set(g, 0, v), 1))
    BY <1>1, <1>5
  <2> HIDE DEF c, p, k, g, b, top, slots, deep
  <2>7. 0 \in F!Registers /\ 0 < top
    BY <2>5, RegistersTyped
  <2>8. v \in Val
    BY <2>5, <2>7, HoldingParts
  <2>9. Set(g, 0, v) = g
    <3>1. Sound(g) /\ g.fpu \in [F!Registers -> Val \cup F!Empty]
      BY <2>5, HoldingParts
    <3> DEFINE fpu == g.fpu
    <3>2. [fpu EXCEPT ![0] = fpu[0]] = fpu
      <4> HIDE DEF fpu
      <4>1. fpu \in [F!Registers -> Val \cup F!Empty]
        BY <3>1 DEF fpu
      <4> QED BY <4>1, <2>7
    <3>3. Set(g, 0, v) = [g EXCEPT !.fpu = fpu]
      BY <3>2 DEF Set
    <3> QED BY <3>1, <3>3 DEF Sound, IsMachine
  <2>10. Needs(g, 1) = g
    <3>1. Sound(g) /\ ~ F!PopFaults(g.fpu, 1)
      BY <2>5, HoldingParts
    <3> QED BY <3>1, NeedsNothing
  <2>11. h' = Pop(g)
    BY <2>6, <2>9, <2>10
  <2>12. Executes(g, deep, 1, 0, -1, h')
    BY <2>5, <2>11, PopExecutes
  <2>13. Does(1, 0, 1, -1)
    BY <1>3, <2>2, <2>4, <2>12 DEF Does, b, deep
  <2> DEFINE y == -1
  <2>14. Does(c, p, k, y)
    BY <2>2, <2>13
  <2>15. Overwrites(i)
    BY <1>1, <1>3, <1>5, <2>1, <2>13 DEF Overwrites, c, p, k
  <2> HIDE DEF y
  <2> QED BY <1>1, <1>4, <2>14, <2>15, DoesKeeps
<1>6. CASE i = 1 /\ Near(m, i)
  <2> DEFINE top == m.used  slots == m.frameUsed  deep == m.frameClobbered
             v == h.fpu[0]
             u == Set(h, i, v)
  <2>1. /\ c = top /\ p = top - 1 /\ k = top /\ 1 < top /\ top \in Nat /\ slots \in Nat /\ deep \in Nat
        /\ top <= DEPTH
    BY <1>2, <1>6 DEF DropEffect, Footprint, Larger, Near
  <2>2. SpillCode(c, k) = h /\ Balanced(m, c, k) = m
    <3>1. c \in Nat /\ k \in Nat /\ c <= m.used /\ (m.used - c) + k <= DEPTH
      BY <2>1
    <3> HIDE DEF c, k
    <3> QED BY <3>1, <1>2, NothingMoves
  <2>3. Holding(h, top, slots, deep)
    BY <1>1 DEF MachineInductive, Carries, Running, OnTop
  <2>4. Near(m, i) /\ g = h
    BY <1>6, <2>2
  <2>5. h' = Pop(Needs(u, 1))
    BY <1>1, <2>4
  <2> HIDE DEF c, p, k, g, top, slots, deep
  <2>6. 0 \in F!Registers /\ 0 < top /\ i \in Nat /\ i < top /\ i < DEPTH /\ 1 <= top
    BY <2>1, <1>6, RegistersTyped
  <2>7. v \in Val
    BY <2>1, <2>3, <2>6, HoldingParts
  <2> HIDE DEF v
  <2>8. /\ Holding(u, top, slots, deep) /\ u.frame = h.frame /\ u.stackUsed = h.stackUsed /\ u.fpu[i] = v
        /\ \A j \in F!Registers : j # i => u.fpu[j] = h.fpu[j]
    BY <2>1, <2>3, <2>6, <2>7, SetHolds
  <2> HIDE DEF u
  <2>9. Needs(u, 1) = u
    <3>1. Sound(u) /\ ~ F!PopFaults(u.fpu, 1)
      BY <2>1, <2>6, <2>8, HoldingParts
    <3> QED BY <3>1, NeedsNothing
  <2>10. Executes(u, deep, 1, 0, -1, h')
    BY <2>1, <2>5, <2>6, <2>8, <2>9, PopExecutes
  <2> DEFINE n == 1  q == 0  y == -1
  <2>11. n \in Nat /\ q \in Nat /\ y \in Int /\ n <= c /\ p = q + (c - n) /\ c \in Nat /\ p \in Nat
         /\ c <= top /\ Executes(u, deep, n, q, y, h')
    BY <2>1, <2>6, <2>10
  <2>12. \A j \in F!Registers : c <= j => u.fpu[j] = h.fpu[j]
    <3>1. \A j \in F!Registers : c <= j => j # i
      BY <2>1, <2>6, RegistersTyped
    <3> QED BY <3>1, <2>8
  <2> HIDE DEF n, q, y
  <2>13. \A z : Executes(u, deep, n, q, y, z) => Executes(h, deep, c, p, y, z)
    BY <2>1, <2>8, <2>11, <2>12, Widened
  <2>14. Executes(h, deep, c, p, y, h')
    BY <2>11, <2>13
  <2>15. Ready(Balanced(m, c, k), c, k, SpillCode(c, k))
    BY <1>1, <1>3, SpillCodeReady
  <2>16. Does(c, p, k, y)
    BY <1>3, <2>2, <2>14, <2>15 DEF Does, deep
  <2>17. Executes(h, deep, 2, 1, y, h')
    <3> DEFINE two == 2  one == 1
    <3>1. two \in Nat /\ one \in Nat /\ two <= top /\ top <= DEPTH /\ n <= two /\ one = q + (two - n)
      BY <2>1 DEF n, q
    <3>2. \A j \in F!Registers : two <= j => u.fpu[j] = h.fpu[j]
      BY <2>8, <1>6, RegistersTyped
    <3> HIDE DEF two, one
    <3>3. Executes(h, deep, two, one, y, h')
      BY <3>1, <3>2, <2>1, <2>8, <2>11, Widened
    <3> QED BY <3>3 DEF two, one
  <2>18. h'.fpu[0] = v
    <3>1. u.fpu[1] = v
      BY <2>8, <1>6
    <3>2. \A j \in F!Registers : 0 <= j /\ (j - 0) + 1 < DEPTH => h'.fpu[j] = u.fpu[(j - 0) + 1]
      BY <2>10 DEF Executes
    <3>3. (0 - 0) + 1 < DEPTH /\ (0 - 0) + 1 = 1 /\ 0 <= 0
      BY <2>1, RegistersTyped
    <3> QED BY <3>1, <3>2, <3>3, <2>6
  <2>19. Overwrites(i)
    <3>1. 2 <= c
      BY <2>1
    <3>2. y = -1 /\ deep = Balanced(m, c, k).frameClobbered
      BY <2>2 DEF deep, y
    <3>3. /\ Does(c, p, k, -1) /\ Executes(h, Balanced(m, c, k).frameClobbered, 2, 1, -1, h')
          /\ SpillCode(c, k) = h /\ h'.fpu[0] = h.fpu[0]
      BY <3>2, <2>2, <2>16, <2>17, <2>18 DEF v
    <3> QED BY <1>1, <1>3, <1>6, <3>1, <3>3 DEF Overwrites, c, p, k
  <2> QED BY <1>1, <1>4, <2>16, <2>19, DoesKeeps
<1>7. CASE ~ Near(m, i)
  <2>1. e = <<1, 0>>
    BY <1>7 DEF DropEffect
  <2>2. c = 1 /\ p = 0 /\ k = 1
    BY <2>1 DEF Footprint, Larger
  <2>3. 1 <= Excess(m)
    BY <1>1, <1>2
  <2> DEFINE x == FarOffset(m, i)
  <2>4. x \in Slots /\ x < m.frameClobbered
    BY <1>1, <1>7, FarSlot
  <2>5. h' = StoreTo(After(<<1, 0>>), x, After(<<1, 0>>).stackUsed)
    BY <1>1, <1>7, <2>1
  <2> HIDE DEF x, c, p, k
  <2>6. Does(1, 0, 1, x) /\ (x < Balanced(m, 1, 1).frameUsed => h'.frame[x] = SpillCode(1, 1).fpu[0])
    BY <1>1, <2>3, <2>4, <2>5, StoreDoes
  <2>7. Does(c, p, k, x)
    BY <2>2, <2>6
  <2>8. Overwrites(i)
    BY <1>1, <1>3, <1>7, <2>1, <2>6 DEF Overwrites, c, p, k, x
  <2> QED BY <1>1, <1>4, <2>7, <2>8, DoesKeeps
<1> QED BY <1>5, <1>6, <1>7

(* What a pop leaves.                                                      *)
LEMMA PoppedHolds ==
  ASSUME NEW g, NEW top \in Nat, NEW slots \in Nat, NEW deep \in Nat, Holding(g, top, slots, deep),
         1 <= top, top <= DEPTH
  PROVE  /\ Holding(Pop(g), top - 1, slots, deep)
         /\ \A i \in F!Registers : i + 1 < DEPTH => Pop(g).fpu[i] = g.fpu[i + 1]
         /\ \A x \in Slots : x < slots => Pop(g).frame[x] = g.frame[x]
<1> DEFINE r == Pop(g)
<1>1. /\ Sound(g) /\ g.stackUsed = slots
      /\ \A i \in F!Registers : /\ i < top => g.fpu[i] \in Val
                                /\ top <= i => g.fpu[i] \in F!Empty
  BY HoldingParts
<1>2. Executes(g, deep, 1, 0, -1, r)
  BY PopExecutes
<1> HIDE DEF r
<1>3. ASSUME NEW i \in F!Registers
      PROVE  /\ 0 <= i /\ (i - 0) + 1 = i + 1
             /\ i + 1 < DEPTH => i + 1 \in F!Registers /\ r.fpu[i] = g.fpu[i + 1]
             /\ ~ (i + 1 < DEPTH) => r.fpu[i] \in F!Empty
  <2>1. /\ 0 <= i /\ (i - 0) + 1 = i + 1 /\ (i + 1 < DEPTH => i + 1 \in F!Registers)
        /\ ~ (i + 1 < DEPTH) => DEPTH <= i + 1
    BY RegistersTyped
  <2> QED BY <2>1, <1>2 DEF Executes
<1>4. ASSUME NEW i \in F!Registers
      PROVE  /\ i < top - 1 => r.fpu[i] \in Val
             /\ top - 1 <= i => r.fpu[i] \in F!Empty
  <2>1. ASSUME i < top - 1 PROVE r.fpu[i] \in Val
    <3>1. CASE i + 1 < DEPTH
      <4>1. i + 1 < top
        BY <2>1, RegistersTyped
      <4> QED BY <4>1, <3>1, <1>1, <1>3
    <3>2. CASE ~ (i + 1 < DEPTH)
      <4>1. i \in Nat /\ DEPTH - 1 \in F!Registers /\ i = DEPTH - 1 /\ i < top
        BY <2>1, <3>2, RegistersTyped
      <4> QED BY <4>1, <2>1, RegistersTyped
    <3> QED BY <3>1, <3>2
  <2>2. ASSUME top - 1 <= i PROVE r.fpu[i] \in F!Empty
    <3>1. i + 1 < DEPTH => top <= i + 1
      BY <2>2, RegistersTyped
    <3> QED BY <3>1, <1>1, <1>3
  <2> QED BY <2>1, <2>2
<1>5. /\ Sound(r) /\ r.stackUsed = slots
      /\ r.fpu \in [F!Registers -> Val \cup F!Empty]
      /\ r.frame \in [Slots -> Val \cup {Unwritten, Junk}]
  BY <1>1, <1>2 DEF Executes
<1>6. ASSUME NEW x \in Slots
      PROVE  /\ x < slots => r.frame[x] \in Val /\ r.frame[x] = g.frame[x]
             /\ deep <= x => r.frame[x] = Unwritten
  <2>1. x # -1
    BY RegistersTyped
  <2> QED BY <2>1, <1>1, <1>2 DEF Executes
<1>7. Holding(r, top - 1, slots, deep)
  <2>1. r \in MachineState /\ ~ r.fault
    BY <1>5, MachineParts
  <2> QED BY <2>1, <1>4, <1>5, <1>6 DEF Holding
<1> QED BY <1>3, <1>6, <1>7 DEF r

(* The counters of a declaration.                                          *)
LEMMA OneMoreLocal ==
  ASSUME NEW s \in MonitorState
  PROVE  LET u == [s EXCEPT !.locals = @ + 1, !.frameUsed = @ + 1]
         IN  /\ u \in MonitorState /\ u.locals = s.locals + 1 /\ u.frameUsed = s.frameUsed + 1
             /\ u.used = s.used /\ u.clobbered = s.clobbered /\ u.frameClobbered = s.frameClobbered
<1>1. s.locals + 1 \in Nat /\ s.frameUsed + 1 \in Nat
  BY DEF MonitorState
<1> QED BY <1>1 DEF MonitorState

(* The counters when the value on top becomes a local variable. *)
LEMMA AllocatedCounters ==
  ASSUME Counted(m), m.locals = m.frameUsed, 1 <= Excess(m)
  PROVE  LET t == Allocated(m)
         IN  /\ Counted(t) /\ t.locals = m.locals + 1 /\ t.frameUsed = m.frameUsed + 1
             /\ t.used = m.used - 1 /\ 1 <= m.used /\ m.clobbered <= t.clobbered
             /\ m.frameClobbered <= t.frameClobbered /\ Excess(t) = Excess(m) - 1
             /\ SpillCode(1, 1) = h
<1> DEFINE n == 1  q == 0
           s == Settled(m, n, q, n)
           u == [s EXCEPT !.locals = @ + 1, !.frameUsed = @ + 1]
           t == Allocated(m)
<1>1. /\ m.used \in Nat /\ m.frameUsed \in Nat /\ Excess(m) = (m.frameUsed - m.locals) + m.used
      /\ m.locals \in Nat /\ m.used <= m.clobbered /\ m.clobbered <= DEPTH /\ m.clobbered \in Nat
  BY CountedTyped
<1>2. 1 <= m.used /\ m.used <= DEPTH
  BY <1>1, RegistersTyped
<1>3. n \in Nat /\ q \in Nat /\ n <= m.used /\ q <= n /\ n <= n /\ (m.used - n) + n <= DEPTH
  BY <1>1, <1>2
<1>4. t = Deepened(u, 0)
  <2> HIDE DEF u
  <2>1. SpillCode(n, n) = h /\ Balanced(m, n, n) = m
    <3> HIDE DEF n
    <3> QED BY <1>3, NothingMoves
  <2>2. Adjusted(m, 1, 0, 1) = s
    BY <2>1 DEF Adjusted
  <2> HIDE DEF s, n, q
  <2> QED BY <2>2 DEF Allocated, u
<1>5. SpillCode(1, 1) = h
  <2>1. SpillCode(n, n) = h
    <3> HIDE DEF n
    <3> QED BY <1>3, NothingMoves
  <2> QED BY <2>1
<1>6. /\ Counted(s) /\ s.used = (m.used - n) + q /\ s.frameUsed = m.frameUsed /\ s.locals = m.locals
      /\ m.frameClobbered <= s.frameClobbered /\ m.clobbered <= s.clobbered
  <2> HIDE DEF n, q
  <2> QED BY <1>3, SettledCounters
<1> HIDE DEF s
<1>7. /\ u \in MonitorState /\ u.locals = m.locals + 1 /\ u.frameUsed = m.frameUsed + 1
      /\ u.used = s.used /\ u.clobbered = s.clobbered /\ u.frameClobbered = s.frameClobbered
  <2>1. s \in MonitorState /\ s.locals \in Nat /\ s.frameUsed \in Nat
    BY <1>6 DEF Counted, MonitorState
  <2>2. /\ u \in MonitorState /\ u.locals = s.locals + 1 /\ u.frameUsed = s.frameUsed + 1
        /\ u.used = s.used /\ u.clobbered = s.clobbered /\ u.frameClobbered = s.frameClobbered
    BY <2>1, OneMoreLocal
  <2> QED BY <2>2, <1>6
<1> HIDE DEF u
<1>8. /\ t.locals = u.locals /\ t.frameUsed = u.frameUsed /\ t.used = u.used /\ t.clobbered = u.clobbered
      /\ u.frameClobbered <= t.frameClobbered /\ t \in MonitorState
  BY <1>4, <1>7, DeepenedFields DEF SameScope
<1>9. Counted(t) /\ Excess(t) = Excess(m) - 1
  BY AllocatedFields
<1> HIDE DEF t
<1>10. m.frameClobbered <= t.frameClobbered
  BY <1>6, <1>7, <1>8 DEF MonitorState, Counted
<1>11. t.used = m.used - 1
  BY <1>1, <1>6, <1>7, <1>8
<1> QED BY <1>2, <1>5, <1>6, <1>7, <1>8, <1>9, <1>10, <1>11 DEF t

(* ST(0) becomes the newest local variable.                                *)
LEMMA DeclareKeeps ==
  ASSUME MachineInductive, Declare, [Next]_vars
  PROVE  /\ MachineInductive' /\ h'.frame[m.locals] = h.fpu[0]
         /\ Running /\ Running' /\ m.frameUsed = m.locals /\ 1 <= m.used /\ m'.used = m.used - 1
         /\ m'.locals = m.locals + 1 /\ m'.frameUsed = m.frameUsed + 1
         /\ \A i \in F!Registers : i + 1 < DEPTH => h'.fpu[i] = h.fpu[i + 1]
         /\ \A z \in Slots : z < m.locals => h'.frame[z] = h.frame[z]
<1> DEFINE x == m.locals
           deep == m'.frameClobbered
           slots == m.frameUsed + 1
           top == m.used
           v == h.fpu[0]
           frame == Forget([h.frame EXCEPT ![x] = v], slots)
           w == [h EXCEPT !.stackUsed = @ + 1]
           u == [w EXCEPT !.frame = frame]
<1>1. /\ Running /\ Running' /\ 1 <= Excess(m) /\ m.locals = m.frameUsed /\ m.locals < MaxLocals
      /\ m' = Allocated(m)
  BY DEF Declare, Alloca, Declaring, AfterDeclaration, Running
<1>2. Counted(m) /\ Carries(m, m.used, h) /\ FreshBetween(m, m.used, h) /\ Excess(m) <= MaxExcess
  BY <1>1, InductiveCounted DEF MachineInductive, Running, OnTop, WithinBounds
<1>3. /\ m.used \in Nat /\ m.frameUsed \in Nat /\ m.locals \in Nat /\ m.frameClobbered \in Nat
      /\ m.clobbered \in Nat /\ m.used <= m.clobbered /\ m.clobbered <= DEPTH /\ Excess(m) \in Nat
      /\ m.frameUsed <= m.frameClobbered
  BY <1>2, CountedTyped
<1>4. /\ Counted(m') /\ m'.locals = m.locals + 1 /\ m'.frameUsed = m.frameUsed + 1
      /\ m'.used = m.used - 1 /\ 1 <= m.used /\ m.clobbered <= m'.clobbered
      /\ m.frameClobbered <= m'.frameClobbered /\ Excess(m') = Excess(m) - 1
      /\ SpillCode(1, 1) = h
  BY <1>1, <1>2, AllocatedCounters
<1>5. deep \in Nat /\ m'.frameUsed <= deep /\ m'.clobbered \in Nat
  BY <1>4, CountedTyped
<1>6. top \in Nat /\ slots \in Nat /\ 1 <= top /\ top <= DEPTH
  <2>1. m.used <= DEPTH
    BY <1>3, RegistersTyped
  <2> QED BY <2>1, <1>3, <1>4
<1>7. /\ Sound(h) /\ h.stackUsed = m.frameUsed
      /\ h.fpu \in [F!Registers -> Val \cup F!Empty]
      /\ h.frame \in [Slots -> Val \cup {Unwritten, Junk}]
      /\ \A i \in F!Registers : /\ i < top => h.fpu[i] \in Val
                                /\ top <= i => h.fpu[i] \in F!Empty
      /\ \A z \in Slots : /\ z < m.frameUsed => h.frame[z] \in Val
                          /\ m.frameClobbered <= z => h.frame[z] = Unwritten
  <2>1. Holding(h, m.used, m.frameUsed, m.frameClobbered)
    BY <1>2 DEF Carries
  <2>2. top \in Nat /\ m.frameUsed \in Nat /\ m.frameClobbered \in Nat
    BY <1>3
  <2> QED BY <2>1, <2>2, HoldingParts
<1>8. h' = Pop(Needs(u, 1))
  <2>1. Footprint(<<1, 0>>) = 1
    BY DEF Footprint, Larger
  <2>2. After(<<1, 0>>) = h
    BY <2>1, <1>4 DEF After
  <2>3. h' = StoreTo(w, m.locals, h.stackUsed + 1)
    BY <2>2 DEF Declare
  <2>4. w.fpu = h.fpu /\ w.frame = h.frame /\ h.stackUsed + 1 = slots
    BY <1>7 DEF Sound, IsMachine
  <2> HIDE DEF w, slots
  <2> QED BY <2>3, <2>4 DEF StoreTo, St
<1>9. w = [fpu |-> h.fpu, frame |-> h.frame, stackUsed |-> slots, fault |-> h.fault]
  BY <1>7 DEF Sound, IsMachine
<1> HIDE DEF w
<1>10. x \in Slots /\ x \in Nat
  BY <1>1, <1>3, BoundsAssumption, FrameAssumption, RegistersTyped
<1>11. v \in Val
  <2>1. 0 \in F!Registers /\ 0 < top
    BY <1>6, RegistersTyped
  <2> QED BY <2>1, <1>7
<1> HIDE DEF v
<1>12. ASSUME NEW z \in Slots
       PROVE  /\ z < slots => frame[z] \in Val
              /\ z < x => frame[z] = h.frame[z]
              /\ z = x => frame[z] = v
              /\ deep <= z => frame[z] = Unwritten
              /\ frame[z] \in Val \cup {Unwritten, Junk}
  <2>1. /\ z < slots => z = x \/ z < x
        /\ z < x => z < m.frameUsed /\ z # x
        /\ z < x \/ z = x => ~ (z >= slots)
        /\ deep <= z => m.frameClobbered <= z /\ z # x
    <3> DEFINE fu == m.frameUsed  fc == m.frameClobbered
    <3>1. /\ z \in Nat /\ fu \in Nat /\ fc \in Nat /\ deep \in Nat /\ x = fu /\ slots = fu + 1
          /\ fc <= deep /\ slots <= deep
      BY <1>1, <1>3, <1>4, <1>5, RegistersTyped
    <3> HIDE DEF x, slots, deep, fu, fc
    <3>2. /\ z < slots => z = x \/ z < x
          /\ z < x => z < fu /\ z # x
          /\ z < x \/ z = x => ~ (z >= slots)
          /\ deep <= z => fc <= z /\ z # x
      BY ONLY <3>1
    <3> QED BY <3>2 DEF fu, fc
  <2> HIDE DEF x, slots, deep
  <2> QED BY <2>1, <1>7, <1>10, <1>11 DEF Forget
<1>13. frame \in [Slots -> Val \cup {Unwritten, Junk}]
  <2>1. frame = [z \in Slots |-> frame[z]]
    BY DEF Forget
  <2> HIDE DEF frame
  <2> QED BY <2>1, <1>12
<1> HIDE DEF frame
<1>14. Sound(u) /\ u.fpu = h.fpu /\ u.frame = frame /\ u.stackUsed = slots
  BY <1>7, <1>9 DEF Sound, IsMachine
<1> HIDE DEF u, x, slots, deep, top
<1>15. Holding(u, top, slots, deep)
  <2>1. u \in MachineState /\ ~ u.fault
    BY <1>6, <1>7, <1>13, <1>14, MachineParts
  <2> QED BY <2>1, <1>7, <1>12, <1>14 DEF Holding
<1>16. h' = Pop(u)
  <2>1. Sound(u) /\ ~ F!PopFaults(u.fpu, 1)
    BY <1>5, <1>6, <1>15, HoldingParts
  <2>2. Needs(u, 1) = u
    BY <2>1, NeedsNothing
  <2> QED BY <2>2, <1>8
<1>17. /\ Holding(h', top - 1, slots, deep)
       /\ \A i \in F!Registers : i + 1 < DEPTH => h'.fpu[i] = u.fpu[i + 1]
       /\ \A z \in Slots : z < slots => h'.frame[z] = u.frame[z]
  BY <1>5, <1>6, <1>15, <1>16, PoppedHolds
<1>18. Carries(m', m'.used, h')
  BY <1>4, <1>17 DEF Carries, top, slots, deep
<1>19. h'.frame[x] = v
  <2>1. x < slots
    BY <1>1, <1>3 DEF x, slots
  <2> QED BY <2>1, <1>10, <1>12, <1>14, <1>17
<1>20. FreshBetween(m', m'.used, h')
  <2>1. ASSUME m'.clobbered < DEPTH, NEW i \in F!Registers, m'.used <= i, i < DEPTH - (m'.clobbered - m'.used)
        PROVE  h'.fpu[i] = Fresh
    <3>1. /\ m.clobbered < DEPTH /\ i + 1 \in F!Registers /\ i + 1 < DEPTH /\ m.used <= i + 1
          /\ i + 1 < DEPTH - (m.clobbered - m.used)
      <4> DEFINE a == m.used  b == m.clobbered  a2 == m'.used  b2 == m'.clobbered
      <4>1. /\ a \in Nat /\ b \in Nat /\ a2 = a - 1 /\ b2 \in Nat /\ b <= b2 /\ a <= b /\ i \in Nat
            /\ b2 < DEPTH /\ a2 <= i /\ i < DEPTH - (b2 - a2)
        BY <2>1, <1>3, <1>4, <1>5, RegistersTyped
      <4> HIDE DEF a, b, a2, b2
      <4>2. b < DEPTH /\ i + 1 \in Nat /\ i + 1 < DEPTH /\ a <= i + 1 /\ i + 1 < DEPTH - (b - a)
        BY <4>1, RegistersTyped
      <4> QED BY <4>2, RegistersTyped DEF a, b
    <3>2. h.fpu[i + 1] = Fresh
      BY <3>1, <1>2 DEF FreshBetween
    <3> QED BY <3>1, <3>2, <1>14, <1>17
  <2>2. m'.frameUsed = m'.locals
    BY <1>1, <1>4
  <2> QED BY <2>1, <2>2 DEF FreshBetween
<1>21. Inductive'
  BY NextInductive DEF MachineInductive
<1>22. WithinBounds'
  BY <1>1, <1>2, <1>3, <1>4, BoundsAssumption DEF WithinBounds
<1>23. OnTop' = m'.used
  BY <1>1 DEF Running, OnTop
<1>24. \A z \in Slots : z < x => h'.frame[z] = h.frame[z]
  <2>1. \A z \in Slots : z < x => z < slots
    BY <1>1, <1>3, RegistersTyped DEF x, slots
  <2> QED BY <2>1, <1>12, <1>14, <1>17
<1>25. MachineInductive'
  BY <1>18, <1>20, <1>21, <1>22, <1>23 DEF MachineInductive
<1> QED BY <1>1, <1>4, <1>14, <1>17, <1>19, <1>24, <1>25 DEF x, v

(* The locals of a closed bracket are dead.                                *)
LEMMA ScopedKeeps ==
  ASSUME Counted(m), Excess(m) = 0, NEW outer \in Nat, m.arity <= outer, outer <= m.locals,
         m' = Closed(m, m.locals - outer), h' = Scoped,
         NEW top \in Nat, Carries(m, top, h), FreshBetween(m, top, h)
  PROVE  /\ Carries(m', top, h') /\ FreshBetween(m', top, h')
         /\ h'.fpu = h.fpu /\ \A z \in Slots : z < outer => h'.frame[z] = h.frame[z]
<1>1. /\ m.used \in Nat /\ m.frameUsed \in Nat /\ m.locals \in Nat /\ m.clobbered \in Nat
      /\ m.frameClobbered \in Nat /\ m.frameUsed <= m.frameClobbered
      /\ Excess(m) = (m.frameUsed - m.locals) + m.used /\ m.locals <= m.frameUsed
  BY CountedTyped
<1>2. m.frameUsed = m.locals
  <2> DEFINE a == m.frameUsed  b == m.locals  d == m.used
  <2>1. a \in Nat /\ b \in Nat /\ d \in Nat /\ (a - b) + d = 0 /\ b <= a
    BY <1>1
  <2> HIDE DEF a, b, d
  <2>2. a = b
    BY <2>1
  <2> QED BY <2>2 DEF a, b
<1>3. /\ m'.frameUsed = outer /\ m'.locals = outer /\ m'.clobbered = m.clobbered
      /\ m'.frameClobbered = m.frameClobbered
  BY <1>1, <1>2 DEF Closed, Counted, MonitorState
<1>4. /\ Sound(h) /\ h.stackUsed = m.frameUsed
      /\ h.fpu \in [F!Registers -> Val \cup F!Empty]
      /\ h.frame \in [Slots -> Val \cup {Unwritten, Junk}]
      /\ \A i \in F!Registers : /\ i < top => h.fpu[i] \in Val
                                /\ top <= i => h.fpu[i] \in F!Empty
      /\ \A z \in Slots : /\ z < m.frameUsed => h.frame[z] \in Val
                          /\ m.frameClobbered <= z => h.frame[z] = Unwritten
  <2>1. Holding(h, top, m.frameUsed, m.frameClobbered) /\ m.frameUsed \in Nat /\ m.frameClobbered \in Nat
    BY <1>1 DEF Carries
  <2> QED BY <2>1, HoldingParts
<1> DEFINE frame == Forget(h.frame, outer)
<1>5. ASSUME NEW z \in Slots
      PROVE  /\ z < outer => frame[z] = h.frame[z] /\ frame[z] \in Val
             /\ m.frameClobbered <= z => frame[z] = Unwritten
             /\ frame[z] \in Val \cup {Unwritten, Junk}
  <2>1. (z < outer => z < m.frameUsed) /\ (z < outer => ~ (z >= outer))
    BY <1>1, <1>2, RegistersTyped
  <2> QED BY <2>1, <1>4 DEF Forget
<1>6. frame \in [Slots -> Val \cup {Unwritten, Junk}]
  <2>1. frame = [z \in Slots |-> frame[z]]
    BY DEF Forget
  <2> HIDE DEF frame
  <2> QED BY <2>1, <1>5
<1>7. h' = [h EXCEPT !.frame = frame, !.stackUsed = outer]
  BY <1>3 DEF Scoped
<1> HIDE DEF frame
<1>8. Sound(h') /\ h'.fpu = h.fpu /\ h'.frame = frame /\ h'.stackUsed = outer
  BY <1>4, <1>7 DEF Sound, IsMachine
<1>9. h' \in MachineState /\ ~ h'.fault
  BY <1>4, <1>6, <1>8, MachineParts
<1>10. Carries(m', top, h')
  BY <1>3, <1>4, <1>5, <1>8, <1>9 DEF Carries, Holding
<1>11. FreshBetween(m', top, h')
  BY <1>3, <1>8 DEF FreshBetween
<1> QED BY <1>5, <1>8, <1>10, <1>11

(* The end of a block or of a function body forgets locals and keeps the *)
(* invariant.                                                            *)
LEMMA CloseKeeps ==
  ASSUME MachineInductive, CloseBlock \/ LeaveFunction, [Next]_vars
  PROVE  LET outer == brackets[Len(brackets)]
         IN  /\ MachineInductive' /\ Excess(m) = 0 /\ Excess(m') = 0 /\ brackets # <<>>
             /\ outer \in Nat /\ outer <= m.locals /\ m'.locals = outer /\ m'.output = m.output
             /\ h'.fpu = h.fpu /\ \A z \in Slots : z < outer => h'.frame[z] = h.frame[z]
<1>1. /\ CloseBracket /\ h' = Scoped /\ Excess(m) = 0 /\ brackets # <<>>
      /\ \/ OnTop = m.used /\ mode' = "rvalue"
         \/ OnTop = m.output /\ mode' = "left"
  <2>1. ASSUME CloseBlock PROVE CloseBracket /\ h' = Scoped /\ Excess(m) = 0 /\ Len(brackets) > 1
                                /\ OnTop = m.used /\ mode' = "rvalue"
    BY <2>1 DEF CloseBlock, Ket, AtStatement, OnTop
  <2>2. ASSUME LeaveFunction PROVE CloseBracket /\ h' = Scoped /\ Excess(m) = 0 /\ Len(brackets) = 1
                                   /\ OnTop = m.output /\ mode' = "left"
    BY <2>2 DEF LeaveFunction, Leave, MachineInductive, Inductive, ResultsRecorded, BodyBracket, OnTop
  <2>3. (Len(brackets) > 1 => brackets # <<>>) /\ (Len(brackets) = 1 => brackets # <<>>)
    OBVIOUS
  <2>4. CASE CloseBlock
    BY <2>1, <2>3, <2>4
  <2>5. CASE LeaveFunction
    BY <2>2, <2>3, <2>5
  <2> QED BY <2>4, <2>5
<1> DEFINE outer == brackets[Len(brackets)]
<1>2. Counted(m) /\ m.locals <= MaxLocals /\ Carries(m, OnTop, h) /\ FreshBetween(m, OnTop, h)
  BY InductiveCounted DEF MachineInductive, WithinBounds
<1>3. brackets \in Seq(Nat) /\ Len(brackets) \in DOMAIN brackets
  BY <1>1 DEF MachineInductive, Inductive, TypeOK
<1>4. outer \in Nat /\ m.arity <= outer /\ outer <= m.locals
  BY <1>3 DEF MachineInductive, Inductive, BracketsNested
<1>5. m' = Closed(m, m.locals - outer)
  BY <1>1 DEF CloseBracket
<1> HIDE DEF outer
<1>6. /\ Counted(m') /\ m'.locals = outer /\ Excess(m') = 0 /\ m'.output = m.output
  BY <1>1, <1>2, <1>4, <1>5, ClosedFields
<1>7. OnTop \in Nat
  BY <1>2 DEF OnTop, Counted, MonitorState
<1>8. /\ Carries(m', OnTop, h') /\ FreshBetween(m', OnTop, h')
      /\ h'.fpu = h.fpu /\ \A z \in Slots : z < outer => h'.frame[z] = h.frame[z]
  BY <1>1, <1>2, <1>4, <1>5, <1>7, ScopedKeeps
<1>9. OnTop' = OnTop
  <2>1. m'.used = m.used
    BY <1>2, <1>5 DEF Closed, Counted, MonitorState
  <2> QED BY <2>1, <1>1, <1>6 DEF OnTop
<1>10. WithinBounds'
  <2>1. m.locals \in Nat
    BY <1>2, CountedTyped
  <2>2. outer <= MaxLocals /\ 0 <= MaxExcess
    BY <2>1, <1>2, <1>4, BoundsAssumption
  <2> QED BY <2>2, <1>6 DEF WithinBounds
<1>11. Inductive'
  BY NextInductive DEF MachineInductive
<1>12. MachineInductive'
  BY <1>8, <1>9, <1>10, <1>11 DEF MachineInductive
<1> QED BY <1>1, <1>4, <1>6, <1>8, <1>12 DEF outer

(* Nothing happens to the machine.                                         *)
LEMMA IdleKeeps ==
  ASSUME MachineInductive, OpenBlock \/ Abort \/ UNCHANGED machineVars, [Next]_vars
  PROVE  MachineInductive'
<1>1. m' = m /\ h' = h /\ OnTop' = OnTop
  BY DEF OpenBlock, Bra, AtStatement, Abort, AllocaAborts, RetAborts, Declaring, Returning, OnTop, machineVars
<1>2. Inductive'
  BY NextInductive DEF MachineInductive
<1> QED BY <1>1, <1>2 DEF MachineInductive, WithinBounds, Excess, Carries, FreshBetween

(* A function starts with its arguments in the frame and fresh registers: *)
(* the invariant holds.                                                   *)
LEMMA InitKeeps == MachineInit => MachineInductive
<1> SUFFICES ASSUME MachineInit PROVE MachineInductive
  OBVIOUS
<1>1. PICK arity \in Arities : arity <= MaxLocals /\ m = Entered(arity)
  BY DEF MachineInit, Init
<1>2. /\ m.arity = arity /\ m.locals = arity /\ m.used = 0 /\ m.frameUsed = arity /\ m.clobbered = 0
      /\ m.frameClobbered = arity /\ arity \in Nat
  BY <1>1, BoundsAssumption DEF Entered
<1>3. PICK args \in [1 .. arity -> Val] :
        h = [fpu |-> F!AllFresh,
             frame |-> [x \in Slots |-> IF x < arity THEN args[x + 1] ELSE Unwritten],
             stackUsed |-> arity, fault |-> FALSE]
  BY <1>2 DEF MachineInit
<1>4. mode = "rvalue" /\ OnTop = 0
  BY <1>2 DEF MachineInit, Init, OnTop
<1>5. /\ Sound(h) /\ h.fpu = [i \in F!Registers |-> Fresh] /\ h.stackUsed = arity
      /\ h.frame = [x \in Slots |-> IF x < arity THEN args[x + 1] ELSE Unwritten]
  BY <1>3 DEF Sound, IsMachine, F!AllFresh
<1>6. ASSUME NEW x \in Slots
      PROVE  /\ x < arity => h.frame[x] \in Val
             /\ arity <= x => h.frame[x] = Unwritten
             /\ h.frame[x] \in Val \cup {Unwritten, Junk}
  <2>1. (x < arity => x + 1 \in 1 .. arity) /\ (arity <= x => ~ (x < arity))
    BY <1>2, RegistersTyped
  <2> QED BY <2>1, <1>3, <1>5
<1>7. h.frame \in [Slots -> Val \cup {Unwritten, Junk}]
  <2> DEFINE frame == h.frame
  <2>1. frame = [x \in Slots |-> frame[x]]
    BY <1>5
  <2>2. \A x \in Slots : frame[x] \in Val \cup {Unwritten, Junk}
    BY <1>6
  <2> HIDE DEF frame
  <2>3. frame \in [Slots -> Val \cup {Unwritten, Junk}]
    BY <2>1, <2>2
  <2> QED BY <2>3 DEF frame
<1>8. h.fpu \in [F!Registers -> Val \cup F!Empty] /\ \A i \in F!Registers : h.fpu[i] = Fresh
  BY <1>5, RegistersTyped
<1>9. h \in MachineState /\ ~ h.fault
  BY <1>2, <1>5, <1>7, <1>8, MachineParts
<1>10. Carries(m, 0, h)
  <2>1. Fresh \in F!Empty /\ \A i \in F!Registers : ~ (i < 0)
    BY RegistersTyped
  <2> QED BY <2>1, <1>2, <1>5, <1>6, <1>8, <1>9 DEF Carries, Holding
<1>11. FreshBetween(m, 0, h)
  BY <1>2, <1>8 DEF FreshBetween
<1>12. WithinBounds
  BY <1>1, <1>2, BoundsAssumption DEF WithinBounds, Excess
<1>13. Inductive
  BY InitInductive DEF MachineInit
<1> QED BY <1>4, <1>10, <1>11, <1>12, <1>13 DEF MachineInductive

(* ret: the counters it works on differ from the monitor's in what it       *)
(* records only.                                                           *)
Alike(s, t) ==
  /\ s \in MonitorState /\ t \in MonitorState
  /\ t.used = s.used /\ t.frameUsed = s.frameUsed /\ t.locals = s.locals
  /\ t.clobbered = s.clobbered /\ t.frameClobbered = s.frameClobbered

(* Counters that differ in what ret recorded only settle alike. *)
LEMMA SettledAlike ==
  ASSUME NEW s, NEW t, Alike(s, t), NEW c \in Nat, NEW p \in Nat, NEW k \in Nat, c <= s.used,
         NEW from \in Nat
  PROVE  LET s2 == Settled([s EXCEPT !.frameUsed = from], c, p, k)
             t2 == Settled([t EXCEPT !.frameUsed = from], c, p, k)
         IN  Alike(s2, t2)
<1> DEFINE used == (s.used - c) + p
           clobbered == Larger(s.clobbered, (s.used - c) + k)
           deep == Larger(s.frameClobbered, from + 0)
<1>1. ASSUME NEW r, Alike(s, r)
      PROVE  LET r2 == Settled([r EXCEPT !.frameUsed = from], c, p, k)
             IN  /\ r2 \in MonitorState /\ r2.used = used /\ r2.clobbered = clobbered
                 /\ r2.frameClobbered = deep /\ r2.frameUsed = from /\ r2.locals = s.locals
  <2> DEFINE r1 == [r EXCEPT !.frameUsed = from]
             r2 == [r1 EXCEPT !.used = used, !.clobbered = clobbered]
             r3 == [r2 EXCEPT !.frameClobbered = deep]
  <2>1. used \in Nat /\ clobbered \in Nat /\ deep \in Nat
    BY <1>1 DEF Alike, MonitorState, Larger
  <2>2. /\ r1 \in MonitorState /\ r1.used = s.used /\ r1.clobbered = s.clobbered
        /\ r1.frameClobbered = s.frameClobbered /\ r1.frameUsed = from /\ r1.locals = s.locals
    BY <1>1 DEF Alike, MonitorState
  <2> HIDE DEF r1
  <2>3. Settled(r1, c, p, k) = r3
    <3>1. [r1 EXCEPT !.used = (@ - c) + p, !.clobbered = Larger(@, (r1.used - c) + k)] = r2
      BY <2>2 DEF MonitorState
    <3>2. r2.frameClobbered = s.frameClobbered /\ r2.frameUsed = from
      BY <2>2 DEF MonitorState
    <3> HIDE DEF r2, used, clobbered
    <3>3. Settled(r1, c, p, k) = Deepened(r2, 0)
      BY <3>1 DEF Settled
    <3>4. Deepened(r2, 0) = r3
      BY <3>2 DEF Deepened
    <3> QED BY <3>3, <3>4
  <2> HIDE DEF used, clobbered, deep
  <2>4. /\ r2 \in MonitorState /\ r2.used = used /\ r2.clobbered = clobbered
        /\ r2.frameUsed = from /\ r2.locals = s.locals
    BY <2>1, <2>2 DEF MonitorState
  <2> HIDE DEF r2
  <2>5. /\ r3 \in MonitorState /\ r3.used = used /\ r3.clobbered = clobbered
        /\ r3.frameClobbered = deep /\ r3.frameUsed = from /\ r3.locals = s.locals
    BY <2>1, <2>4 DEF MonitorState
  <2> QED BY <2>3, <2>5 DEF r1
<1> HIDE DEF used, clobbered, deep
<1>2. Alike(s, s)
  BY DEF Alike
<1> QED BY <1>1, <1>2 DEF Alike

(* And they are balanced alike. *)
LEMMA BalancedAlike ==
  ASSUME NEW s, NEW t, Counted(s), Alike(s, t), NEW c, NEW p, NEW k, Servable(s, c, p, k)
  PROVE  Alike(Balanced(s, c, k), Balanced(t, c, k))
<1>1. /\ s.used \in Nat /\ s.frameUsed \in Nat /\ s.locals \in Nat /\ s.used <= s.clobbered
      /\ s.clobbered <= DEPTH /\ s.clobbered \in Nat
      /\ Excess(s) = (s.frameUsed - s.locals) + s.used /\ s.locals <= s.frameUsed
  BY CountedTyped
<1>2. c \in Nat /\ k \in Nat /\ c <= k /\ k <= DEPTH /\ c <= Excess(s)
  BY DEF Servable
<1>3. /\ Deficient(t, c) <=> Deficient(s, c)
      /\ Overfull(t, c, k) <=> Overfull(s, c, k)
      /\ Shortage(t, c) = Shortage(s, c) /\ Surplus(t, c, k) = Surplus(s, c, k)
      /\ t.frameUsed = s.frameUsed
  BY DEF Alike, Deficient, Overfull, Shortage, Surplus
<1> DEFINE n == Shortage(s, c)
           from == s.frameUsed - n
           z == Surplus(s, c, k)
           to == s.frameUsed + z
           q == 0
<1>4. ASSUME Deficient(s, c)
      PROVE  Alike(Reloaded(s, from, n), Reloaded(t, from, n))
  <2>1. n \in Nat /\ from \in Nat /\ q \in Nat /\ q <= s.used
    BY <1>1, <1>2, <1>4 DEF Deficient, Shortage
  <2>2. /\ Reloaded(s, from, n) = Settled([s EXCEPT !.frameUsed = from], q, n, n)
        /\ Reloaded(t, from, n) = Settled([t EXCEPT !.frameUsed = from], q, n, n)
    BY DEF Reloaded
  <2> HIDE DEF n, from, q
  <2> QED BY <2>1, <2>2, SettledAlike
<1>5. ASSUME Overfull(s, c, k)
      PROVE  Alike(Spilled(s, to, z), Spilled(t, to, z))
  <2>1. z \in Nat /\ to \in Nat /\ q \in Nat /\ z <= s.used
    <3> DEFINE u == s.used  v == s.frameUsed
    <3>1. /\ u \in Nat /\ v \in Nat /\ u <= DEPTH /\ DEPTH \in Nat /\ k <= DEPTH /\ c \in Nat /\ k \in Nat
          /\ DEPTH - u < k - c /\ z = (k - c) - (DEPTH - u) /\ to = v + z
      BY <1>1, <1>2, <1>5, RegistersTyped DEF Overfull, Surplus
    <3> HIDE DEF u, v, z, to
    <3>2. z \in Nat /\ to \in Nat /\ z <= u
      BY ONLY <3>1
    <3> QED BY <3>2 DEF u
  <2>2. /\ Spilled(s, to, z) = Settled([s EXCEPT !.frameUsed = to], z, q, z)
        /\ Spilled(t, to, z) = Settled([t EXCEPT !.frameUsed = to], z, q, z)
    BY DEF Spilled
  <2> HIDE DEF z, to, q
  <2> QED BY <2>1, <2>2, SettledAlike
<1>6. CASE Deficient(s, c) /\ ~ Overfull(s, c, k)
  BY <1>3, <1>4, <1>6 DEF Balanced
<1>7. CASE Overfull(s, c, k) /\ ~ Deficient(s, c)
  BY <1>3, <1>5, <1>7 DEF Balanced
<1>8. CASE ~ (Deficient(s, c) /\ ~ Overfull(s, c, k)) /\ ~ (Overfull(s, c, k) /\ ~ Deficient(s, c))
  BY <1>3, <1>8 DEF Balanced
<1> QED BY <1>6, <1>7, <1>8

(* And they are adjusted alike. *)
LEMMA AdjustedAlike ==
  ASSUME NEW s, NEW t, Counted(s), Alike(s, t), NEW c, NEW p, NEW k, Servable(s, c, p, k)
  PROVE  Alike(Adjusted(s, c, p, k), Adjusted(t, c, p, k))
<1> DEFINE a == Balanced(s, c, k)
           b == Balanced(t, c, k)
           from == a.frameUsed
<1>1. Alike(a, b)
  BY BalancedAlike
<1>2. Counted(a) /\ c <= a.used
  BY BalancedFields
<1>3. c \in Nat /\ p \in Nat /\ k \in Nat
  BY DEF Servable
<1>4. Adjusted(s, c, p, k) = Settled(a, c, p, k) /\ Adjusted(t, c, p, k) = Settled(b, c, p, k)
  BY DEF Adjusted
<1> HIDE DEF a, b
<1>5. from \in Nat /\ [a EXCEPT !.frameUsed = from] = a /\ [b EXCEPT !.frameUsed = from] = b
  BY <1>1 DEF Alike, MonitorState
<1> HIDE DEF from
<1> QED BY <1>1, <1>2, <1>3, <1>4, <1>5, SettledAlike

(* ret: the results are on the registers, in their order, and nothing else. *)
LEMMA ReturnKeeps ==
  ASSUME MachineInductive, Return, [Next]_vars
  PROVE  /\ MachineInductive'
         /\ h' = SpillCode(Excess(m), Excess(m))
         /\ Balanced(m, Excess(m), Excess(m)).used = Excess(m)
         /\ Balanced(m, Excess(m), Excess(m)).frameUsed = m.locals
         /\ Ready(Balanced(m, Excess(m), Excess(m)), Excess(m), Excess(m), h')
         /\ m'.output = Excess(m) /\ m'.locals = m.locals /\ Excess(m') = 0
<1> DEFINE n == Excess(m)
           b == Balanced(m, n, n)
           g == SpillCode(n, n)
           t == Adjusted(m, n, 0, n)
           s == [m EXCEPT !.output = n, !.climbing = m.sp]
<1>1. /\ Running /\ mode' = "returned" /\ 1 <= n /\ n <= DEPTH /\ m' = Returned(m, n)
  BY DEF Return, Ret, Returning, Running
<1>2. /\ Counted(m) /\ n \in Nat /\ FreshBetween(m, m.used, h)
      /\ m.locals <= MaxLocals
  BY <1>1, InductiveCounted, CountedTyped DEF MachineInductive, Running, OnTop, WithinBounds
<1>3. Servable(m, n, 0, n)
  BY <1>1, <1>2 DEF Servable
<1>4. Ready(b, n, n, g)
  BY <1>1, <1>3, SpillCodeReady
<1>5. After(<<n, 0>>) = g
  <2>1. Footprint(<<n, 0>>) = n
    BY <1>2 DEF Footprint, Larger
  <2> QED BY <2>1 DEF After
<1>6. m' = Adjusted(s, n, 0, n) /\ Alike(m, s)
  <2>1. n \in Nat /\ m.sp \in Nat /\ m \in MonitorState
    BY <1>2 DEF Counted, MonitorState
  <2>2. m' = Adjusted(s, n, 0, n)
    BY <1>1 DEF Returned
  <2> HIDE DEF n
  <2>3. Alike(m, s)
    BY <2>1 DEF Alike, MonitorState
  <2> QED BY <2>2, <2>3
<1>7. /\ Counted(m') /\ m'.locals = m.locals /\ Excess(m') = 0 /\ m'.output = n
  BY <1>1, <1>2, ReturnedFields
<1>8. \E tail : h' = Faulty(g, ~ F!HeadTail(g.fpu, n, tail))
  BY <1>5 DEF Return
<1> HIDE DEF n, s
<1>9. Alike(t, m')
  BY <1>2, <1>3, <1>6, AdjustedAlike
<1>10. t = Settled(b, n, 0, n)
  BY DEF Adjusted
<1> HIDE DEF b, g, t
<1>11. /\ Counted(b) /\ SameScope(m, b)
       /\ b.used \in Nat /\ b.frameUsed \in Nat /\ b.frameClobbered \in Nat /\ m.locals \in Nat
       /\ Holding(g, b.used, b.frameUsed, b.frameClobbered) /\ SpillCodeDone(n, n, b, g)
       /\ n <= b.used /\ (b.used - n) + n <= DEPTH /\ b.used <= DEPTH /\ m.locals <= b.frameUsed
  BY <1>4 DEF Ready
<1>12. b.used = n /\ b.frameUsed = m.locals
  <2>1. (b.frameUsed - m.locals) + b.used = (m.frameUsed - m.locals) + m.used
    BY <1>11 DEF SpillCodeDone, Keeps
  <2>2. n = (m.frameUsed - m.locals) + m.used
    BY <1>2, CountedTyped DEF n
  <2> DEFINE x == b.used  y == b.frameUsed  z == m.locals
  <2>3. x \in Nat /\ y \in Nat /\ z \in Nat /\ n \in Nat /\ (y - z) + x = n /\ n <= x /\ z <= y
    BY <2>1, <2>2, <1>2, <1>11
  <2> HIDE DEF x, y, z
  <2>4. x = n /\ y = z
    BY <2>3
  <2> QED BY <2>4 DEF x, y, z
<1>13. h' = g
  <2>1. /\ Sound(g)
        /\ \A i \in F!Registers : /\ i < n => g.fpu[i] \in Val
                                  /\ n <= i => g.fpu[i] \in F!Empty
    BY <1>11, <1>12, HoldingParts
  <2>2. ASSUME NEW tail PROVE F!HeadTail(g.fpu, n, tail)
    <3>1. \A i \in F!Registers : i >= n => n <= i
      BY <1>2, RegistersTyped
    <3> QED BY <2>1, <3>1, MarksAssumption, RegistersTyped DEF F!HeadTail
  <2> QED BY <2>1, <2>2, <1>8 DEF Faulty, Sound, IsMachine
<1>14. /\ t.frameUsed = b.frameUsed /\ b.frameClobbered <= t.frameClobbered
       /\ b.clobbered <= t.clobbered /\ (b.used - n) + n <= t.clobbered
  <2> DEFINE q == 0
  <2>1. n \in Nat /\ q \in Nat /\ n <= b.used /\ q <= n /\ n <= n /\ (b.used - n) + n <= DEPTH
        /\ t = Settled(b, n, q, n)
    BY <1>2, <1>10, <1>11
  <2> HIDE DEF q
  <2> QED BY <2>1, <1>11, SettledCounters
<1>15. /\ m'.frameUsed = m.locals /\ b.frameClobbered <= m'.frameClobbered
       /\ b.clobbered <= m'.clobbered /\ n <= m'.clobbered
       /\ m'.frameClobbered \in Nat /\ m'.clobbered \in Nat
  <2>1. (b.used - n) + n = n
    BY <1>2, <1>12
  <2>2. m'.frameClobbered \in Nat /\ m'.clobbered \in Nat
    BY <1>7, CountedTyped
  <2> QED BY <2>1, <2>2, <1>9, <1>12, <1>14 DEF Alike
<1>16. Carries(m', n, h')
  <2> DEFINE deep == b.frameClobbered  deeper == m'.frameClobbered  slots == m.locals
  <2>1. /\ deep \in Nat /\ deeper \in Nat /\ Holding(g, n, slots, deep) /\ deep <= deeper
    BY <1>11, <1>12, <1>15
  <2> HIDE DEF deep, deeper, slots
  <2>2. Holding(g, n, slots, deeper)
    BY <2>1, HoldingDeeper
  <2> QED BY <2>2, <1>13, <1>15 DEF Carries, deeper, slots
<1>17. FreshBetween(m', n, h')
  <2> SUFFICES ASSUME m'.clobbered < DEPTH
               PROVE  /\ m'.frameUsed = m'.locals
                      /\ \A i \in F!Registers : n <= i /\ i < DEPTH - (m'.clobbered - n) => h'.fpu[i] = Fresh
    BY DEF FreshBetween
  <2>0. m.clobbered <= b.clobbered /\ m.clobbered \in Nat /\ b.clobbered \in Nat
    <3>1. m.clobbered \in Nat /\ b.clobbered \in Nat
      BY <1>2, <1>11, CountedTyped
    <3> QED BY <3>1, <1>2, BalancedClobbers DEF b
  <2>1. m.clobbered < DEPTH /\ n < DEPTH /\ m.clobbered <= m'.clobbered
    BY <2>0, <1>2, <1>15, RegistersTyped
  <2>2. b = m /\ g = h
    <3>1. (b.used - n) + n # DEPTH
      BY <2>1, <1>2, <1>12
    <3>2. m.clobbered # DEPTH
      BY <2>0, <2>1
    <3> QED BY <3>1, <3>2, <1>11 DEF SpillCodeDone
  <2>3. m.used = n
    BY <2>2, <1>12
  <2>4. \A i \in F!Registers : n <= i /\ i < DEPTH - (m.clobbered - n) => h.fpu[i] = Fresh
    BY <2>1, <2>3, <1>2 DEF FreshBetween
  <2>5. ASSUME NEW i \in F!Registers, n <= i, i < DEPTH - (m'.clobbered - n)
        PROVE  i < DEPTH - (m.clobbered - n)
    <3> DEFINE x == m.clobbered  y == m'.clobbered
    <3>1. x \in Nat /\ y \in Nat /\ x <= y /\ i \in Nat /\ DEPTH \in Nat /\ i < DEPTH - (y - n) /\ n \in Nat
      BY <2>0, <2>1, <2>5, <1>2, <1>15, RegistersTyped
    <3> HIDE DEF x, y
    <3>2. i < DEPTH - (x - n)
      BY <3>1
    <3> QED BY <3>2 DEF x
  <2>6. m'.frameUsed = m'.locals
    BY <1>7, <1>15
  <2> QED BY <2>2, <2>4, <2>5, <2>6, <1>13
<1>18. WithinBounds'
  BY <1>2, <1>7, BoundsAssumption DEF WithinBounds
<1>19. Inductive'
  BY NextInductive DEF MachineInductive
<1>20. OnTop' = n
  BY <1>1, <1>7 DEF OnTop
<1>21. MachineInductive'
  BY <1>16, <1>17, <1>18, <1>19, <1>20 DEF MachineInductive
<1> QED BY <1>4, <1>7, <1>12, <1>13, <1>21 DEF n, b, g

-----------------------------------------------------------------------------
(* A call.                                                                 *)

(* What a callee leaves: the registers it declares are empty but for its   *)
(* results, and its part of the frame is dead.                             *)
CalledRegisters(g, k, values, n) ==
  F!Pushed([i \in F!Registers |-> IF i >= DEPTH - k THEN Stale ELSE g.fpu[i]], values, n)

CalledFrame(g, base, n) ==
  [x \in Slots |-> IF x >= base /\ x < base + n THEN Junk ELSE g.frame[x]]

LeftByCall(g, k, values, n, base, size) ==
  Faulty([g EXCEPT !.fpu = CalledRegisters(g, k, values, n),
                   !.frame = CalledFrame(g, base, size),
                   !.stackUsed = base], FALSE)

Numbers(values, n) == \A j \in 1 .. n : values[j] \in Val

(* What the caller has of it.                                              *)
CallLeaves(g, r, k, values, n, base) ==
  /\ \A i \in F!Registers : /\ i < n => r.fpu[i] = values[i + 1]
                            /\ n <= i /\ i - n < DEPTH - k => r.fpu[i] = g.fpu[i - n]
  /\ \A x \in Slots : x < base => r.frame[x] = g.frame[x]

(* A callee within its declared registers and frame leaves its results on *)
(* top of the operands the caller kept.                                   *)
LEMMA CallHolds ==
  ASSUME NEW g, NEW top \in Nat, NEW slots \in Nat, NEW deep \in Nat, Holding(g, top, slots, deep),
         NEW k \in Nat, top + k <= DEPTH, NEW n \in Nat, n <= k, NEW base \in Nat, base <= slots,
         NEW size \in Nat, NEW deeper \in Nat, deep <= deeper, base + size <= deeper,
         NEW values, Numbers(values, n), NEW r, r = LeftByCall(g, k, values, n, base, size)
  PROVE  Holding(r, top + n, base, deeper) /\ CallLeaves(g, r, k, values, n, base)
<1> DEFINE fpu == CalledRegisters(g, k, values, n)
           frame == CalledFrame(g, base, size)
           low == [i \in F!Registers |-> IF i >= DEPTH - k THEN Stale ELSE g.fpu[i]]
<1>1. /\ Sound(g) /\ g.stackUsed = slots
      /\ g.fpu \in [F!Registers -> Val \cup F!Empty]
      /\ g.frame \in [Slots -> Val \cup {Unwritten, Junk}]
      /\ \A i \in F!Registers : /\ i < top => g.fpu[i] \in Val
                                /\ top <= i => g.fpu[i] \in F!Empty
      /\ \A x \in Slots : /\ x < slots => g.frame[x] \in Val
                          /\ deep <= x => g.frame[x] = Unwritten
  BY HoldingParts
<1>2. fpu = [i \in F!Registers |-> IF i < n THEN values[i + 1] ELSE low[i - n]]
  BY DEF CalledRegisters, F!Pushed
<1>3. ASSUME NEW i \in F!Registers
      PROVE  /\ i < DEPTH - k => low[i] = g.fpu[i]
             /\ DEPTH - k <= i => low[i] = Stale
  <2>1. (i < DEPTH - k => ~ (i >= DEPTH - k)) /\ (DEPTH - k <= i => i >= DEPTH - k)
    BY RegistersTyped
  <2> QED BY <2>1
<1> HIDE DEF low, fpu
<1>4. ASSUME NEW i \in F!Registers
      PROVE  /\ i < n => fpu[i] = values[i + 1]
             /\ n <= i /\ i - n < DEPTH - k => fpu[i] = g.fpu[i - n]
             /\ i < top + n => fpu[i] \in Val
             /\ top + n <= i => fpu[i] \in F!Empty
  <2>1. CASE i < n
    <3>1. i + 1 \in 1 .. n /\ ~ (n <= i) /\ ~ (top + n <= i)
      BY <2>1, RegistersTyped
    <3> QED BY <2>1, <3>1, <1>2 DEF Numbers
  <2>2. CASE ~ (i < n)
    <3> DEFINE j == i - n
    <3>1. /\ j \in F!Registers /\ (i < top + n => j < top /\ j < DEPTH - k) /\ (top + n <= i => top <= j)
          /\ j < DEPTH - k \/ DEPTH - k <= j
      <4>1. i \in 0 .. DEPTH - 1 /\ DEPTH \in Nat /\ n <= i
        BY <2>2, RegistersTyped
      <4>2. j \in 0 .. DEPTH - 1
        BY <4>1
      <4>3. (i < top + n => j < top) /\ (top + n <= i => top <= j)
        BY <4>1
      <4>4. j < top => j < DEPTH - k
        BY <4>1, <4>2
      <4>5. j < DEPTH - k \/ DEPTH - k <= j
        BY <4>1, <4>2
      <4> HIDE DEF j
      <4> QED BY <4>2, <4>3, <4>4, <4>5, RegistersTyped
    <3>2. fpu[i] = low[j]
      BY <2>2, <1>2
    <3> HIDE DEF j
    <3>3. (j < DEPTH - k => fpu[i] = g.fpu[j]) /\ (DEPTH - k <= j => fpu[i] = Stale)
      BY <3>1, <3>2, <1>3
    <3>4. i < top + n => fpu[i] \in Val
      BY <3>1, <3>3, <1>1
    <3>5. top + n <= i => fpu[i] \in F!Empty
      <4>1. Stale \in F!Empty
        BY RegistersTyped
      <4> QED BY <4>1, <3>1, <3>3, <1>1
    <3> QED BY <2>2, <3>3, <3>4, <3>5 DEF j
  <2> QED BY <2>1, <2>2
<1>5. fpu \in [F!Registers -> Val \cup F!Empty]
  <2>1. \A i \in F!Registers : fpu[i] \in Val \cup F!Empty
    <3>1. \A i \in F!Registers : i < top + n \/ top + n <= i
      BY RegistersTyped
    <3> QED BY <3>1, <1>4
  <2>2. IsRing(fpu)
    BY <1>2 DEF IsRing
  <2> QED BY <2>1, <2>2, RingTyped
<1>6. ASSUME NEW x \in Slots
      PROVE  /\ x < base => frame[x] = g.frame[x] /\ frame[x] \in Val
             /\ deeper <= x => frame[x] = Unwritten
             /\ frame[x] \in Val \cup {Unwritten, Junk}
  <2>1. /\ x < base => x < slots /\ ~ (x >= base)
        /\ deeper <= x => deep <= x /\ ~ (x < base + size)
    BY RegistersTyped
  <2> QED BY <2>1, <1>1 DEF CalledFrame
<1>7. frame \in [Slots -> Val \cup {Unwritten, Junk}]
  <2>1. frame = [x \in Slots |-> frame[x]]
    BY DEF CalledFrame
  <2> HIDE DEF frame
  <2> QED BY <2>1, <1>6
<1>8. r = Faulty([g EXCEPT !.fpu = fpu, !.frame = frame, !.stackUsed = base], FALSE)
  BY DEF fpu, LeftByCall
<1> HIDE DEF frame
<1>9. Sound(r) /\ r.fpu = fpu /\ r.frame = frame /\ r.stackUsed = base
  BY <1>1, <1>8 DEF Sound, IsMachine, Faulty
<1>10. r \in MachineState /\ ~ r.fault
  BY <1>5, <1>7, <1>9, MachineParts
<1>11. Holding(r, top + n, base, deeper)
  BY <1>4, <1>6, <1>9, <1>10 DEF Holding
<1> QED BY <1>4, <1>6, <1>9, <1>11 DEF CallLeaves

(* What a call does to its caller.                                         *)
Calls(f) ==
  LET k    == CalleeClobbers(f)
      b    == Balanced(m, 0, k)
      g    == SpillCode(0, k)
      base == CallBase(m, f)
      n    == f.output
      args == [j \in 1 .. f.arity |-> g.frame[base + j - 1]]
      values == [j \in 1 .. n |-> Result(args, n + 1 - j)]
  IN  /\ Ready(b, 0, k, g) /\ base = b.frameUsed - f.arity /\ m.locals <= base
      /\ m'.used = b.used + n /\ m'.frameUsed = base /\ m'.locals = m.locals
      /\ Excess(m') = (Excess(m) - f.arity) + n
      /\ CallLeaves(g, h', k, values, n, base)

(* A call: its arguments are in the frame, its results on the registers.   *)
LEMMA InvokeKeeps ==
  ASSUME MachineInductive, NEW f \in Callees, Invoke(f), [Next]_vars
  PROVE  MachineInductive' /\ Calls(f) /\ Running /\ Running' /\ f.arity <= Excess(m)
<1> DEFINE k == CalleeClobbers(f)
           b == Balanced(m, 0, k)
           g == SpillCode(0, k)
           base == CallBase(m, f)
           n == f.output
           size == f.frameClobbered
           args == [j \in 1 .. f.arity |-> g.frame[base + j - 1]]
           values == [j \in 1 .. n |-> Result(args, n + 1 - j)]
           fault == ~ F!HeadTail(g.fpu, 0, k) \/ g.stackUsed - base # f.arity
           top == b.used
           slots == b.frameUsed
           deep == b.frameClobbered
           deeper == m'.frameClobbered
<1>1. /\ Running /\ Running' /\ f.arity <= Excess(m) /\ m' = Called(m, f)
      /\ (Excess(m) - f.arity) + n <= MaxExcess
  BY DEF Invoke, Call, Running, WithinBound
<1>2. h' = Faulty([g EXCEPT !.fpu = CalledRegisters(g, k, values, n),
                            !.frame = CalledFrame(g, base, size),
                            !.stackUsed = base], fault)
  <2>1. h' = Faulty([g EXCEPT !.fpu = CalledRegisters(g, k, values, n),
                              !.frame = [x \in Slots |-> IF x >= base /\ x < base + size THEN Junk ELSE g.frame[x]],
                              !.stackUsed = base], fault)
    BY DEF Invoke, CalledRegisters
  <2> HIDE DEF k, g, base, n, size, values, fault
  <2> QED BY <2>1 DEF CalledFrame
<1>3. /\ Counted(m) /\ m.locals <= MaxLocals /\ Carries(m, m.used, h) /\ FreshBetween(m, m.used, h)
  BY <1>1, InductiveCounted DEF MachineInductive, Running, OnTop, WithinBounds
<1>4. /\ Counted(m') /\ m'.locals = m.locals /\ Excess(m') = (Excess(m) - f.arity) + n
      /\ m.locals <= base /\ base + size <= deeper
  BY <1>1, <1>3, CalleesAssumption, CalledFields
<1>5. /\ Servable(m, 0, n, k) /\ m'.used = top + n /\ m'.frameUsed = base /\ base = slots - f.arity
      /\ deep <= deeper /\ b.clobbered <= m'.clobbered /\ top + k <= m'.clobbered
  BY <1>1, <1>3, CalleesAssumption, CalledCounters
<1>6. /\ f.arity \in Nat /\ n \in Nat /\ size \in Nat /\ k \in Nat /\ n <= k /\ k <= DEPTH
      /\ k # DEPTH => f.arity = 0
  BY CalleesAssumption, CalleeFacts
<1>7. Ready(b, 0, k, g)
  BY <1>1, <1>5, SpillCodeReady
<1> HIDE DEF b, g, base, k
<1>8. /\ top \in Nat /\ slots \in Nat /\ deep \in Nat /\ Holding(g, top, slots, deep)
      /\ SpillCodeDone(0, k, b, g) /\ Counted(b) /\ (top - 0) + k <= DEPTH
  BY <1>7 DEF Ready
<1>9. deeper \in Nat /\ m'.clobbered \in Nat /\ m.locals \in Nat /\ m.frameUsed \in Nat
      /\ m.clobbered \in Nat /\ b.clobbered \in Nat
  BY <1>3, <1>4, <1>8, CountedTyped
<1>10. base \in Nat /\ base <= slots /\ top + k <= DEPTH
  BY <1>4, <1>5, <1>6, <1>8, <1>9
<1>11. ~ fault
  <2>1. /\ Sound(g) /\ g.stackUsed = slots
        /\ \A i \in F!Registers : /\ i < top => g.fpu[i] \in Val
                                  /\ top <= i => g.fpu[i] \in F!Empty
    BY <1>8, HoldingParts
  <2>2. g.stackUsed - base = f.arity
    BY <2>1, <1>5, <1>6, <1>8, <1>10
  <2>3. \A i \in F!Registers : ~ (i < 0) /\ (i >= DEPTH - k => top <= i)
    BY <1>6, <1>8, <1>10, RegistersTyped
  <2>4. F!HeadTail(g.fpu, 0, k)
    BY <2>1, <2>3 DEF F!HeadTail
  <2> QED BY <2>2, <2>4
<1>f. h' = LeftByCall(g, k, values, n, base, size)
  <2>1. fault = FALSE
    BY <1>11
  <2> HIDE DEF fault, values, n, size
  <2> QED BY <2>1, <1>2 DEF LeftByCall
<1>12. Numbers(values, n)
  <2>1. args \in [1 .. f.arity -> Val]
    <3>1. ASSUME NEW j \in 1 .. f.arity PROVE g.frame[base + j - 1] \in Val
      <4> DEFINE x == base + j - 1
      <4>1. x \in Nat /\ x < slots
        BY <1>5, <1>6, <1>8, <1>10
      <4>2. slots <= FrameSize
        <5>1. (slots - m.locals) + top = Excess(m) /\ m.locals <= slots
          <6>1. (b.frameUsed - m.locals) + b.used = (m.frameUsed - m.locals) + m.used
            BY <1>8 DEF SpillCodeDone, Keeps
          <6>2. Excess(m) = (m.frameUsed - m.locals) + m.used
            BY <1>3, CountedTyped
          <6>3. m.locals <= b.frameUsed
            BY <1>7 DEF Ready
          <6> QED BY <6>1, <6>2, <6>3
        <5>2. Excess(m) <= MaxExcess /\ Excess(m) \in Nat
          BY <1>3, CountedTyped DEF MachineInductive, WithinBounds
        <5> HIDE DEF slots, top
        <5> QED BY <5>1, <5>2, <1>3, <1>8, <1>9, BoundsAssumption, FrameAssumption
      <4>3. x \in Slots
        BY <4>1, <4>2, <1>8, RegistersTyped
      <4> HIDE DEF x, slots, top, deep
      <4>4. g.frame[x] \in Val
        BY <4>1, <4>3, <1>8, HoldingParts
      <4> QED BY <4>4 DEF x
    <3> QED BY <3>1
  <2> HIDE DEF args
  <2>2. ASSUME NEW j \in 1 .. n PROVE values[j] \in Val
    <3>1. n + 1 - j \in 1 .. n
      BY <1>6
    <3>2. Result(args, n + 1 - j) \in Val
      BY <2>1, <3>1, ValuesAssumption
    <3> QED BY <3>2
  <2> QED BY <2>2 DEF Numbers
<1> HIDE DEF values, fault, n, size, top, slots, deep, deeper
<1>13. Holding(h', top + n, base, deeper) /\ CallLeaves(g, h', k, values, n, base)
  <2>1. /\ top \in Nat /\ slots \in Nat /\ deep \in Nat /\ k \in Nat /\ n \in Nat /\ base \in Nat
        /\ size \in Nat /\ deeper \in Nat /\ top + k <= DEPTH /\ n <= k /\ base <= slots
        /\ deep <= deeper /\ base + size <= deeper
    BY <1>4, <1>5, <1>6, <1>8, <1>9, <1>10
  <2> QED BY <2>1, <1>f, <1>8, <1>12, CallHolds
<1>14. Carries(m', m'.used, h')
  BY <1>5, <1>13 DEF Carries, deeper
<1>15. FreshBetween(m', m'.used, h')
  <2> SUFFICES ASSUME m'.clobbered < DEPTH
               PROVE  /\ m'.frameUsed = m'.locals
                      /\ \A i \in F!Registers : m'.used <= i /\ i < DEPTH - (m'.clobbered - m'.used)
                                                  => h'.fpu[i] = Fresh
    BY DEF FreshBetween
  <2>1. m.clobbered <= b.clobbered
    <3> DEFINE c == 0
    <3>1. m.clobbered <= Balanced(m, c, k).clobbered
      <4>1. c \in Nat
        OBVIOUS
      <4> HIDE DEF c
      <4> QED BY <4>1, <1>3, <1>6, BalancedClobbers
    <3> QED BY <3>1 DEF b
  <2>2. m.clobbered <= m'.clobbered /\ m.clobbered < DEPTH /\ top + k < DEPTH /\ k < DEPTH
    <3> DEFINE x == m.clobbered  y == m'.clobbered  z == b.clobbered
    <3>1. /\ x \in Nat /\ y \in Nat /\ z \in Nat /\ DEPTH \in Nat /\ top \in Nat /\ k \in Nat
          /\ x <= z /\ z <= y /\ y < DEPTH /\ top + k <= y
      BY <2>1, <1>5, <1>6, <1>8, <1>9, RegistersTyped
    <3> HIDE DEF x, y, z
    <3>2. x <= y /\ x < DEPTH /\ top + k < DEPTH /\ k < DEPTH
      BY ONLY <3>1
    <3> QED BY <3>2 DEF x, y
  <2>3. b = m /\ g = h
    <3>1. (b.used - 0) + k # DEPTH
      BY <2>2, <1>6, <1>8 DEF top
    <3>2. m.clobbered # DEPTH
      BY <2>2, <1>9, RegistersTyped
    <3> QED BY <3>1, <3>2, <1>8 DEF SpillCodeDone
  <2>4. f.arity = 0
    BY <2>2, <1>6, RegistersTyped
  <2>5. m.frameUsed = m.locals /\ \A i \in F!Registers : m.used <= i /\ i < DEPTH - (m.clobbered - m.used)
                                                           => h.fpu[i] = Fresh
    BY <2>2, <1>3 DEF FreshBetween
  <2>6. m'.frameUsed = m'.locals
    BY <2>3, <2>4, <2>5, <1>4, <1>5, <1>8, <1>9 DEF slots
  <2>7. top = m.used
    BY <2>3 DEF top
  <2>8. ASSUME NEW i \in F!Registers, m'.used <= i, i < DEPTH - (m'.clobbered - m'.used)
        PROVE  /\ n <= i /\ i - n < DEPTH - k /\ i - n \in F!Registers
               /\ m.used <= i - n /\ i - n < DEPTH - (m.clobbered - m.used)
    <3> DEFINE x == m.clobbered  y == m'.clobbered  z == m'.used
    <3>1. /\ x \in Nat /\ y \in Nat /\ x <= y /\ i \in Nat /\ DEPTH \in Nat /\ z = top + n /\ i < DEPTH
          /\ z <= i /\ i < DEPTH - (y - z) /\ top + k <= y /\ n \in Nat /\ k \in Nat /\ top \in Nat
      BY <2>2, <2>8, <1>5, <1>6, <1>8, <1>9, RegistersTyped
    <3> HIDE DEF x, y, z
    <3>2. n <= i /\ i - n \in Nat /\ i - n < DEPTH /\ top <= i - n
      BY <3>1
    <3>3. i - n < DEPTH - k
      BY <3>1
    <3>4. i - n < DEPTH - (x - top)
      BY <3>1
    <3> QED BY <3>2, <3>3, <3>4, <2>7, RegistersTyped DEF x
  <2> QED BY <2>3, <2>5, <2>6, <2>8, <1>13 DEF CallLeaves
<1>16. WithinBounds'
  BY <1>1, <1>3, <1>4 DEF WithinBounds
<1>17. Inductive'
  BY NextInductive DEF MachineInductive
<1>18. OnTop' = m'.used
  BY <1>1 DEF Running, OnTop
<1>19. MachineInductive'
  BY <1>14, <1>15, <1>16, <1>17, <1>18 DEF MachineInductive
<1>20. Calls(f)
  <2>1. /\ Ready(b, 0, k, g) /\ base = b.frameUsed - f.arity /\ m.locals <= base
        /\ m'.used = b.used + n /\ m'.frameUsed = base /\ m'.locals = m.locals
        /\ Excess(m') = (Excess(m) - f.arity) + n
        /\ CallLeaves(g, h', k, values, n, base)
    BY <1>4, <1>5, <1>7, <1>13 DEF top, slots
  <2> HIDE DEF args
  <2> QED BY <2>1 DEF Calls, b, g, base, k, n, values, args
<1> QED BY <1>1, <1>19, <1>20

-----------------------------------------------------------------------------
(* All actions.                                                            *)

(* Each action of the machine is an action of the monitor.                 *)
LEMMA MachineSteps == [MachineNext]_machineVars => [Next]_vars
<1> SUFFICES ASSUME [MachineNext]_machineVars PROVE [Next]_vars
  OBVIOUS
<1>1. \A e : Operate(e) /\ e \in Effects => Next
  BY DEF Next
<1>2. /\ <<0, 1>> \in Effects /\ <<1, 1>> \in Effects /\ <<2, 2>> \in Effects
      /\ <<2, 1>> \in Effects /\ <<1, 2>> \in Effects
  BY DEF Effects
<1>3. ASSUME NEW v \in Val, Const(v) PROVE Next
  BY <1>1, <1>2, <1>3 DEF Const
<1>4. ASSUME NEW x \in LocalSlots, Load(x) \/ MemoryOp(x) PROVE Next
  BY <1>1, <1>2, <1>4 DEF Load, MemoryOp
<1>5. ASSUME UnaryOp \/ Fxch \/ CombineOp \/ BinaryOp \/ SplitOp PROVE Next
  BY <1>1, <1>2, <1>5 DEF UnaryOp, Fxch, CombineOp, BinaryOp, SplitOp
<1>6. ASSUME NEW i \in {0, 1}, FldSt(i) \/ FstpSt(i) PROVE Next
  BY <1>6 DEF FldSt, FstpSt, Next
<1>7. ASSUME NEW x \in LocalSlots, Assign(x) PROVE Next
  BY <1>7 DEF Assign, Next
<1>8. ASSUME NEW f \in Callees, Invoke(f) PROVE Next
  BY <1>8 DEF Invoke, Next
<1>9. ASSUME \/ AssignDummy \/ Declare \/ DeclareDummy
             \/ OpenBlock \/ CloseBlock \/ Return \/ LeaveFunction \/ Abort
      PROVE  Next
  BY <1>9 DEF AssignDummy, Declare, DeclareDummy, OpenBlock, CloseBlock, Return, LeaveFunction, Abort, Next
<1>10. CASE UNCHANGED machineVars
  BY <1>10 DEF machineVars, vars
<1> QED BY <1>3, <1>4, <1>5, <1>6, <1>7, <1>8, <1>9, <1>10 DEF MachineNext

(* An instruction that is done keeps the invariant. *)
LEMMA DoneKeeps ==
  ASSUME MachineInductive, NEW e, NEW c, NEW p, NEW k, NEW y, Done(e, c, p, k, y)
  PROVE  MachineInductive'
  BY OperateKeeps DEF Done

(* Every step keeps the invariant: one case for each action. *)
LEMMA MachineNextInductive == MachineInductive /\ [MachineNext]_machineVars => MachineInductive'
<1> SUFFICES ASSUME MachineInductive, [MachineNext]_machineVars PROVE MachineInductive'
  OBVIOUS
<1>1. [Next]_vars
  BY MachineSteps
<1>2. ASSUME NEW v \in Val, Const(v) PROVE MachineInductive'
  BY <1>2, ConstDone, DoneKeeps
<1>3. ASSUME NEW x \in LocalSlots, Load(x) PROVE MachineInductive'
  BY <1>3, LoadDone, DoneKeeps
<1>4. ASSUME NEW x \in LocalSlots, MemoryOp(x) PROVE MachineInductive'
  BY <1>4, MemoryDone, DoneKeeps
<1>5. ASSUME NEW x \in LocalSlots, Assign(x) PROVE MachineInductive'
  BY <1>1, <1>5, AssignKeeps
<1>6. ASSUME UnaryOp PROVE MachineInductive'
  BY <1>6, UnaryDone, DoneKeeps
<1>7. ASSUME Fxch PROVE MachineInductive'
  BY <1>7, FxchDone, DoneKeeps
<1>8. ASSUME CombineOp PROVE MachineInductive'
  BY <1>8, CombineDone, DoneKeeps
<1>9. ASSUME BinaryOp PROVE MachineInductive'
  BY <1>9, BinaryDone, DoneKeeps
<1>10. ASSUME SplitOp PROVE MachineInductive'
  BY <1>10, SplitDone, DoneKeeps
<1>11. ASSUME NEW i \in {0, 1}, FldSt(i) PROVE MachineInductive'
  BY <1>1, <1>11, FldKeeps
<1>12. ASSUME NEW i \in {0, 1}, FstpSt(i) PROVE MachineInductive'
  BY <1>1, <1>12, FstpKeeps
<1>13. ASSUME AssignDummy \/ DeclareDummy PROVE MachineInductive'
  BY <1>1, <1>13, DummyKeeps
<1>14. ASSUME Declare PROVE MachineInductive'
  BY <1>1, <1>14, DeclareKeeps
<1>15. ASSUME NEW f \in Callees, Invoke(f) PROVE MachineInductive'
  BY <1>1, <1>15, InvokeKeeps
<1>16. ASSUME OpenBlock \/ Abort \/ UNCHANGED machineVars PROVE MachineInductive'
  BY <1>1, <1>16, IdleKeeps
<1>17. ASSUME CloseBlock \/ LeaveFunction PROVE MachineInductive'
  BY <1>1, <1>17, CloseKeeps
<1>18. ASSUME Return PROVE MachineInductive'
  BY <1>1, <1>18, ReturnKeeps
<1> QED BY <1>2, <1>3, <1>4, <1>5, <1>6, <1>7, <1>8, <1>9, <1>10, <1>11, <1>12, <1>13, <1>14, <1>15,
           <1>16, <1>17, <1>18 DEF MachineNext

(* The values in use are on the top registers and in the frame, as the     *)
(* counters of the assembler's monitor say, before and after every         *)
(* instruction.                                                            *)
THEOREM MachineInductiveHolds == MachineSpec => []MachineInductive
<1>1. MachineInit => MachineInductive
  BY InitKeeps
<1>2. MachineInductive /\ [MachineNext]_machineVars => MachineInductive'
  BY MachineNextInductive
<1> QED BY <1>1, <1>2, PTL DEF MachineSpec

(* The code the assembler emits never faults on the machine, however many  *)
(* registers it has and whatever is spilled: it pushes onto empty registers *)
(* only and reads full ones only, and stack_used_ is what the operands of  *)
(* fld, fstp and call assume.                                              *)
THEOREM EmittedCodeNeverFaults == MachineSpec => []NoFault
<1>1. MachineInductive => NoFault
  <2> SUFFICES ASSUME MachineInductive PROVE NoFault
    OBVIOUS
  <2>1. OnTop \in Nat
    BY DEF MachineInductive, OnTop, Inductive, TypeOK, MonitorState
  <2>2. /\ h \in MachineState /\ ~ h.fault
        /\ \A i \in F!Registers : /\ i < OnTop => h.fpu[i] \in Val
                                  /\ OnTop <= i => h.fpu[i] \in F!Empty
    BY DEF MachineInductive, Carries, Holding
  <2>3. ASSUME NEW i \in F!Registers PROVE h.fpu[i] \notin F!Empty <=> i < OnTop
    <3>1. i < OnTop \/ OnTop <= i
      BY <2>1, RegistersTyped
    <3>2. i < OnTop => h.fpu[i] \notin F!Empty
      BY <2>2, RegistersTyped, MarksAssumption
    <3>3. OnTop <= i => ~ (i < OnTop)
      BY <2>1, RegistersTyped
    <3> QED BY <2>2, <3>1, <3>2, <3>3
  <2> QED BY <2>2, <2>3 DEF NoFault
<1> QED BY <1>1, MachineInductiveHolds, PTL

(* frame_clobbered_ covers every slot the function and its callees write.  *)
THEOREM FrameIsCovered == MachineSpec => []FrameCovered
<1>1. MachineInductive => FrameCovered
  <2> SUFFICES ASSUME MachineInductive, NEW x \in Slots, x >= m.frameClobbered
               PROVE  h.frame[x] = Unwritten
    BY DEF FrameCovered
  <2>1. m.frameClobbered <= x
    BY RegistersTyped DEF MachineInductive, Inductive, TypeOK, MonitorState
  <2> QED BY <2>1 DEF MachineInductive, Carries, Holding
<1> QED BY <1>1, MachineInductiveHolds, PTL

(* clobbered_ covers every register the function and its callees use.      *)
THEOREM RegistersAreCovered == MachineSpec => []ClobberCovered
<1>1. MachineInductive => ClobberCovered
  <2> SUFFICES ASSUME MachineInductive PROVE ClobberCovered
    OBVIOUS
  <2> DEFINE top == OnTop
             clobbered == m.clobbered
             used == { i \in F!Registers : h.fpu[i] # Fresh }
             last == DEPTH - 1
  <2>1. Counted(m) /\ FreshBetween(m, top, h)
    BY InductiveCounted DEF MachineInductive
  <2>2. top \in Nat /\ top <= clobbered
    <3>1. CASE mode \in {"returned", "left"}
      BY <3>1 DEF OnTop, MachineInductive, Inductive, ResultsRecorded, TypeOK, MonitorState
    <3>2. CASE mode \notin {"returned", "left"}
      BY <2>1, <3>2, CountedTyped DEF OnTop
    <3> QED BY <3>1, <3>2
  <2>3. clobbered \in Nat /\ clobbered <= DEPTH /\ last \in Int /\ F!Registers = 0 .. last
    BY <2>1, CountedTyped, RegistersTyped
  <2>4. clobbered < DEPTH => \A i \in F!Registers : top <= i /\ i < DEPTH - (clobbered - top) => h.fpu[i] = Fresh
    BY <2>1 DEF FreshBetween
  <2>5. ClobberCovered <=> Cardinality(used) <= clobbered
    BY DEF ClobberCovered
  <2> HIDE DEF top, clobbered, used
  <2>6. CASE ~ (clobbered < DEPTH)
    <3>1. clobbered = DEPTH /\ used \subseteq 0 .. last
      BY <2>3, <2>6, RegistersTyped DEF used
    <3>2. IsFiniteSet(0 .. last) /\ Cardinality(0 .. last) = IF 0 > last THEN 0 ELSE (last - 0) + 1
      <4>1. 0 \in Int /\ last \in Int
        BY <2>3
      <4> HIDE DEF last
      <4> QED BY ONLY <4>1, FS_Interval
    <3>3. Cardinality(0 .. last) = DEPTH
      BY <3>2, RegistersTyped
    <3>4. Cardinality(used) <= Cardinality(0 .. last)
      BY <3>1, <3>2, FS_Subset
    <3> QED BY <2>5, <3>1, <3>3, <3>4
  <2>7. CASE clobbered < DEPTH
    <3> DEFINE up == top - 1
               from == DEPTH - (clobbered - top)
               A == 0 .. up
               B == from .. last
    <3>1. up \in Int /\ from \in Int
      BY <2>2, <2>3, RegistersTyped
    <3>2. /\ IsFiniteSet(A) /\ Cardinality(A) = IF 0 > up THEN 0 ELSE (up - 0) + 1
          /\ IsFiniteSet(B) /\ Cardinality(B) = IF from > last THEN 0 ELSE (last - from) + 1
      <4> HIDE DEF up, from, last
      <4> QED BY <2>3, <3>1, FS_Interval
    <3>3. Cardinality(A) = top
      <4> HIDE DEF A
      <4> QED BY <3>2, <2>2
    <3>4. Cardinality(B) = clobbered - top
      <4> HIDE DEF B
      <4> QED BY <3>2, <2>2, <2>3, RegistersTyped
    <3>5. used \subseteq A \cup B
      <4> SUFFICES ASSUME NEW i \in used PROVE i \in A \cup B
        OBVIOUS
      <4>1. i \in 0 .. last /\ i \in F!Registers /\ h.fpu[i] # Fresh
        BY <2>3 DEF used
      <4>2. ~ (top <= i /\ i < from)
        BY <4>1, <2>4, <2>7
      <4> QED BY <4>1, <4>2, <2>2, <2>3, <3>1
    <3> HIDE DEF A, B, up, from
    <3>a. IsFiniteSet(A) /\ IsFiniteSet(B)
      BY <3>2
    <3>b. IsFiniteSet(A \cap B)
      BY <3>a, FS_Intersection
    <3>c. IsFiniteSet(A \cup B)
      BY <3>a, FS_Union, Zenon
    <3>6. Cardinality(A \cup B) = Cardinality(A) + Cardinality(B) - Cardinality(A \cap B)
      BY <3>a, FS_Union, Zenon
    <3>7. Cardinality(A \cap B) \in Nat
      BY <3>b, FS_CardinalityType
    <3>8. IsFiniteSet(used) /\ Cardinality(used) <= Cardinality(A \cup B)
      BY <3>5, <3>c, FS_Subset
    <3>9. Cardinality(used) \in Nat
      BY <3>8, FS_CardinalityType
    <3> DEFINE a == Cardinality(A)  b == Cardinality(B)  c == Cardinality(A \cap B)
               d == Cardinality(A \cup B)  e == Cardinality(used)
    <3>d. a = top /\ b = clobbered - top /\ d = a + b - c /\ c \in Nat /\ e <= d /\ e \in Nat
      BY <3>3, <3>4, <3>6, <3>7, <3>8, <3>9
    <3> HIDE DEF a, b, c, d, e
    <3>e. e <= clobbered
      BY <3>d, <2>2, <2>3
    <3> QED BY <3>e, <2>5 DEF e
  <2> QED BY <2>6, <2>7
<1> QED BY <1>1, MachineInductiveHolds, PTL

=============================================================================
