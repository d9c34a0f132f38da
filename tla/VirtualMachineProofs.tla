------------------------- MODULE VirtualMachineProofs -------------------------
(***************************************************************************)
(* Every instruction keeps the footprint the assembler knows it by, and    *)
(* code that is counted by footprints never touches the caller's operands: *)
(* for all code and all numbers.                                           *)
(***************************************************************************)
EXTENDS VirtualMachine, SequenceTheorems, TLAPS

IsList(s) == \E S : s \in Seq(S)

(* List t is list s with what is above `below` replaced by n numbers.      *)
Rebuilt(s, t, below, n) ==
  /\ IsList(t)
  /\ Len(t) = below + n
  /\ \A i \in 1 .. below : t[i] = s[i]

-----------------------------------------------------------------------------
(* Lists.                                                                  *)

(* Two lists are lists of the same things. *)
LEMMA TwoLists ==
  ASSUME NEW s, NEW t, IsList(s), IsList(t)
  PROVE  \E S : s \in Seq(S) /\ t \in Seq(S)
<1>1. PICK S : s \in Seq(S)
  BY DEF IsList
<1>2. PICK T : t \in Seq(T)
  BY DEF IsList
<1>3. s \in Seq(S \cup T) /\ t \in Seq(S \cup T)
  BY <1>1, <1>2, SeqMonotonic
<1> QED
  BY <1>3

(* A list and another number are of the same things. *)
LEMMA ListAndNumber ==
  ASSUME NEW s, NEW x, IsList(s)
  PROVE  \E S : s \in Seq(S) /\ x \in S
<1>1. PICK S : s \in Seq(S)
  BY DEF IsList
<1>2. s \in Seq(S \cup {x})
  BY <1>1, SeqMonotonic
<1> QED
  BY <1>2

LEMMA ListLength ==
  ASSUME NEW s, IsList(s)
  PROVE  Len(s) \in Nat
BY DEF IsList

(* A number is put on a list. *)
LEMMA Pushing ==
  ASSUME NEW s, NEW x, IsList(s)
  PROVE  Rebuilt(s, Append(s, x), Len(s), 1)
<1>1. PICK S : s \in Seq(S) /\ x \in S
  BY ListAndNumber
<1>2. /\ Append(s, x) \in Seq(S)
      /\ Len(Append(s, x)) = Len(s) + 1
      /\ \A i \in 1 .. Len(s) : Append(s, x)[i] = s[i]
  BY <1>1, AppendProperties
<1> QED
  BY <1>2 DEF Rebuilt, IsList

(* The upper end of a list is cut off. *)
LEMMA Cutting ==
  ASSUME NEW s, IsList(s), NEW n \in Nat, n <= Len(s)
  PROVE  Rebuilt(s, SubSeq(s, 1, n), n, 0)
<1>1. PICK S : s \in Seq(S)
  BY DEF IsList
<1>2. Len(s) \in Nat
  BY ListLength
<1>3. \A i \in 1 .. n : s[i] \in S
  BY <1>1, <1>2, ElementOfSeq
<1>4. /\ SubSeq(s, 1, n) \in Seq(S)
      /\ Len(SubSeq(s, 1, n)) = IF 1 <= n THEN n - 1 + 1 ELSE 0
      /\ \A i \in 1 .. n - 1 + 1 : SubSeq(s, 1, n)[i] = s[1 + i - 1]
  BY <1>3, SubSeqProperties
<1>5. Len(SubSeq(s, 1, n)) = n + 0
  BY <1>4
<1>6. \A i \in 1 .. n : SubSeq(s, 1, n)[i] = s[i]
  BY <1>4
<1> QED
  BY <1>4, <1>5, <1>6 DEF Rebuilt, IsList

(* A list is put on a list. *)
LEMMA Joining ==
  ASSUME NEW s, NEW t, IsList(s), IsList(t)
  PROVE  Rebuilt(s, s \o t, Len(s), Len(t))
<1>1. PICK S : s \in Seq(S) /\ t \in Seq(S)
  BY TwoLists
<1>2. Len(s) \in Nat /\ Len(t) \in Nat
  BY ListLength
<1>3. /\ s \o t \in Seq(S)
      /\ Len(s \o t) = Len(s) + Len(t)
      /\ \A i \in 1 .. Len(s) + Len(t) :
           (s \o t)[i] = IF i <= Len(s) THEN s[i] ELSE t[i - Len(s)]
  BY <1>1, ConcatProperties
<1>4. \A i \in 1 .. Len(s) : (s \o t)[i] = s[i]
  BY <1>2, <1>3
<1> QED
  BY <1>3, <1>4 DEF Rebuilt, IsList

(* A number on a list is changed. *)
LEMMA Changing ==
  ASSUME NEW s, NEW x, IsList(s), NEW k \in 1 .. Len(s)
  PROVE  /\ IsList([s EXCEPT ![k] = x])
         /\ Len([s EXCEPT ![k] = x]) = Len(s)
         /\ \A i \in 1 .. Len(s) : i < k => [s EXCEPT ![k] = x][i] = s[i]
<1>1. PICK S : s \in Seq(S) /\ x \in S
  BY ListAndNumber
<1>2. Len(s) \in Nat
  BY ListLength
<1>3. /\ [s EXCEPT ![k] = x] \in Seq(S)
      /\ Len([s EXCEPT ![k] = x]) = Len(s)
      /\ \A j \in 1 .. Len(s) : [s EXCEPT ![k] = x][j] = IF j = k THEN x ELSE s[j]
  BY <1>1, ExceptSeq
<1> QED
  BY <1>2, <1>3 DEF IsList

(* What was rebuilt twice is rebuilt from the lower of the places. *)
LEMMA RebuiltTwice ==
  ASSUME NEW s, NEW t, NEW u, NEW m, NEW l,
         Rebuilt(s, t, m, 0), Rebuilt(t, u, m, l)
  PROVE  Rebuilt(s, u, m, l)
BY DEF Rebuilt

(* Lists that agree have the same beginning. *)
LEMMA SameBeginning ==
  ASSUME NEW s, NEW t, IsList(s), IsList(t), NEW n \in Nat, n <= Len(s), n <= Len(t),
         \A i \in 1 .. n : t[i] = s[i]
  PROVE  SubSeq(t, 1, n) = SubSeq(s, 1, n)
<1>1. PICK S : s \in Seq(S) /\ t \in Seq(S)
  BY TwoLists
<1>2. Rebuilt(s, SubSeq(s, 1, n), n, 0) /\ Rebuilt(t, SubSeq(t, 1, n), n, 0)
  BY Cutting
<1>3. Len(SubSeq(s, 1, n)) = n /\ Len(SubSeq(t, 1, n)) = n
  BY <1>2 DEF Rebuilt
<1>4. \A i \in 1 .. n : SubSeq(t, 1, n)[i] = SubSeq(s, 1, n)[i]
  BY <1>2 DEF Rebuilt
<1>5. PICK T : SubSeq(s, 1, n) \in Seq(T) /\ SubSeq(t, 1, n) \in Seq(T)
  BY <1>2, TwoLists DEF Rebuilt
<1> QED
  BY <1>3, <1>4, <1>5, SeqEqual

-----------------------------------------------------------------------------
(* Footprints.                                                             *)

(* The sets of operations are disjoint. *)
LEMMA FootprintOfPlain ==
  ASSUME NEW i, Len(i) = 1
  PROVE  /\ i[1] \in Loads     => Footprint(i) = [needs |-> 0, leaves |-> 1]
         /\ i[1] \in Inplace   => Footprint(i) = [needs |-> 1, leaves |-> 1]
         /\ i[1] \in Widening  => Footprint(i) = [needs |-> 1, leaves |-> 2]
         /\ i[1] \in Popping   => Footprint(i) = [needs |-> 2, leaves |-> 1]
         /\ i[1] \in Modifying => Footprint(i) = [needs |-> 2, leaves |-> 2]
<1>1. CASE i[1] \in Loads
  BY <1>1 DEF Footprint, Loads, Inplace, Widening, Popping, Modifying, Arithmetical
<1>2. CASE i[1] \in Inplace
  BY <1>2 DEF Footprint, Loads, Inplace, Widening, Popping, Modifying, Arithmetical
<1>3. CASE i[1] \in Widening
  BY <1>3 DEF Footprint, Loads, Inplace, Widening, Popping, Modifying, Arithmetical
<1>4. CASE i[1] \in Popping
  BY <1>4 DEF Footprint, Loads, Inplace, Widening, Popping, Modifying, Arithmetical
<1>5. CASE i[1] \in Modifying
  BY <1>5 DEF Footprint, Loads, Inplace, Widening, Popping, Modifying, Arithmetical
<1> QED
  BY <1>1, <1>2, <1>3, <1>4, <1>5

LEMMA FootprintOfCall ==
  ASSUME NEW i, Len(i) = 2
  PROVE  Footprint(i) = [needs |-> Arity[i[2]], leaves |-> Results[i[2]]]
BY DEF Footprint

LEMMA FootprintOfMemory ==
  ASSUME NEW i, Len(i) = 3, i[2] = "mem"
  PROVE  /\ i[1] = "fld" => Footprint(i) = [needs |-> 0, leaves |-> 1]
         /\ i[1] # "fld" => Footprint(i) = [needs |-> 1, leaves |-> 1]
BY DEF Footprint

LEMMA FootprintOfRegister ==
  ASSUME NEW i, Len(i) = 3, i[2] = "st"
  PROVE  /\ i[1] = "fld"  => Footprint(i) = [needs |-> i[3] + 1, leaves |-> i[3] + 2]
         /\ i[1] = "fstp" => Footprint(i) = [needs |-> i[3] + 1, leaves |-> i[3]]
BY DEF Footprint

LEMMA FootprintOfPair ==
  ASSUME NEW i, Len(i) = 4
  PROVE  Footprint(i) = IF i[3] # 0 THEN [needs |-> i[3] + 1, leaves |-> i[3] + 1]
                                    ELSE [needs |-> i[4] + 1, leaves |-> i[4] + 1]
BY DEF Footprint

LEMMA FootprintCounts ==
  ASSUME NEW i, IsInstruction(i)
  PROVE  Footprint(i).needs \in Nat /\ Footprint(i).leaves \in Nat
<1>1. CASE Len(i) = 1 /\ i[1] \in Loads \cup Inplace \cup Widening \cup Popping \cup Modifying
  BY <1>1, FootprintOfPlain
<1>2. CASE Len(i) = 2 /\ i[1] = "call" /\ i[2] \in Entries
  BY <1>2, FootprintOfCall, EntriesAssumption
<1>3. CASE Len(i) = 3 /\ i[2] = "mem"
  BY <1>3, FootprintOfMemory
<1>4. CASE Len(i) = 3 /\ i[2] = "st" /\ i[1] \in {"fld", "fstp"} /\ i[3] \in Nat
  BY <1>4, FootprintOfRegister
<1>5. CASE Len(i) = 4 /\ {i[3], i[4]} \subseteq Nat
  BY <1>5, FootprintOfPair
<1> QED
  BY <1>1, <1>2, <1>3, <1>4, <1>5 DEF IsInstruction

(* The operand says how long an instruction is. *)
LEMMA LengthByKind ==
  ASSUME NEW i, IsInstruction(i)
  PROVE  /\ Len(i) > 2 /\ i[2] = "mem" => Len(i) = 3
         /\ Len(i) > 2 /\ i[2] = "st" /\ i[1] \in {"fld", "fstp"} => Len(i) = 3 /\ i[3] \in Nat
         /\ Len(i) > 2 /\ i[2] = "st" /\ i[1] \in Popping =>
              Len(i) = 4 /\ {i[3], i[4]} \subseteq Nat /\ 0 \in {i[3], i[4]}
         /\ Len(i) > 2 /\ i[2] = "st" /\ i[1] \in {"fucomi", "fcmovb", "fcmovnbe"} =>
              Len(i) = 4 /\ i[4] \in Nat /\ i[3] = 0
         /\ i[1] = "call" => Len(i) = 2 /\ i[2] \in Entries
<1>1. CASE Len(i) = 1 /\ i[1] \in Loads \cup Inplace \cup Widening \cup Popping \cup Modifying
  BY <1>1 DEF Loads, Inplace, Widening, Popping, Modifying, Arithmetical
<1>2. CASE Len(i) = 2 /\ i[1] = "call" /\ i[2] \in Entries
  BY <1>2 DEF Arithmetical, Popping
<1>3. CASE Len(i) = 3 /\ i[2] = "mem" /\ i[1] \in {"fld"} \cup Arithmetical
  BY <1>3 DEF Arithmetical, Popping
<1>4. CASE Len(i) = 3 /\ i[2] = "st" /\ i[1] \in {"fld", "fstp"} /\ i[3] \in Nat
  BY <1>4 DEF Arithmetical, Popping
<1>5. CASE /\ Len(i) = 4 /\ i[2] = "st" /\ {i[3], i[4]} \subseteq Nat
           /\ i[1] \in Arithmetical /\ 0 \in {i[3], i[4]}
  BY <1>5 DEF Arithmetical, Popping
<1>6. CASE /\ Len(i) = 4 /\ i[2] = "st" /\ {i[3], i[4]} \subseteq Nat
           /\ i[1] \in {"fucomi", "fcmovb", "fcmovnbe"} /\ i[3] = 0
  BY <1>6 DEF Arithmetical, Popping
<1> QED
  BY <1>1, <1>2, <1>3, <1>4, <1>5, <1>6 DEF IsInstruction

-----------------------------------------------------------------------------
(* Steps.                                                                  *)

(* With a list of operands, enough for the next instruction. *)
Ready ==
  /\ IsList(operands)
  /\ rest # <<>>
  /\ IsInstruction(rest[1])
  /\ Footprint(rest[1]).needs <= Len(operands)

(* The instruction is done, and changed what its footprint says. *)
Kept ==
  /\ rest' = Tail(rest)
  /\ Rebuilt(operands, operands', Len(operands) - Footprint(rest[1]).needs, Footprint(rest[1]).leaves)

(* The top n operands are replaced. *)
LEMMA Replacing ==
  ASSUME IsList(operands), NEW n \in Nat, n <= Len(operands), NEW numbers, IsList(numbers)
  PROVE  Rebuilt(operands, Replaced(n, numbers), Len(operands) - n, Len(numbers))
<1> DEFINE below == SubSeq(operands, 1, Len(operands) - n)
<1>1. Len(operands) - n \in Nat /\ Len(operands) - n <= Len(operands)
  BY ListLength
<1>2. Rebuilt(operands, below, Len(operands) - n, 0)
  BY <1>1, Cutting
<1>3. IsList(below) /\ Len(below) = Len(operands) - n
  BY <1>1, <1>2 DEF Rebuilt
<1>4. Rebuilt(below, below \o numbers, Len(operands) - n, Len(numbers))
  BY <1>3, Joining
<1> QED
  BY <1>2, <1>4, RebuiltTwice DEF Replaced

(* One or two numbers are a list. *)
LEMMA ShortLists ==
  ASSUME NEW x, NEW y
  PROVE  /\ IsList(<<x>>) /\ Len(<<x>>) = 1
         /\ IsList(<<x, y>>) /\ Len(<<x, y>>) = 2
<1>1. <<x>> \in Seq({x, y}) /\ <<x, y>> \in Seq({x, y})
  OBVIOUS
<1> QED
  BY <1>1 DEF IsList

LEMMA OneForOne ==
  ASSUME IsList(operands), 1 <= Len(operands), NEW x
  PROVE  Rebuilt(operands, Replaced(1, <<x>>), Len(operands) - 1, 1)
<1>1. IsList(<<x>>) /\ Len(<<x>>) = 1 /\ 1 \in Nat
  BY ShortLists
<1>2. Rebuilt(operands, Replaced(1, <<x>>), Len(operands) - 1, Len(<<x>>))
  BY ONLY <1>1, IsList(operands), 1 <= Len(operands), Replacing
<1> QED
  BY <1>1, <1>2

LEMMA TwoForOne ==
  ASSUME IsList(operands), 1 <= Len(operands), NEW x, NEW y
  PROVE  Rebuilt(operands, Replaced(1, <<x, y>>), Len(operands) - 1, 2)
<1>1. IsList(<<x, y>>) /\ Len(<<x, y>>) = 2 /\ 1 \in Nat
  BY ShortLists
<1>2. Rebuilt(operands, Replaced(1, <<x, y>>), Len(operands) - 1, Len(<<x, y>>))
  BY ONLY <1>1, IsList(operands), 1 <= Len(operands), Replacing
<1> QED
  BY <1>1, <1>2

LEMMA OneForTwo ==
  ASSUME IsList(operands), 2 <= Len(operands), NEW x
  PROVE  Rebuilt(operands, Replaced(2, <<x>>), Len(operands) - 2, 1)
<1>1. IsList(<<x>>) /\ Len(<<x>>) = 1 /\ 2 \in Nat
  BY ShortLists
<1>2. Rebuilt(operands, Replaced(2, <<x>>), Len(operands) - 2, Len(<<x>>))
  BY ONLY <1>1, IsList(operands), 2 <= Len(operands), Replacing
<1> QED
  BY <1>1, <1>2

LEMMA TwoForTwo ==
  ASSUME IsList(operands), 2 <= Len(operands), NEW x, NEW y
  PROVE  Rebuilt(operands, Replaced(2, <<x, y>>), Len(operands) - 2, 2)
<1>1. IsList(<<x, y>>) /\ Len(<<x, y>>) = 2 /\ 2 \in Nat
  BY ShortLists
<1>2. Rebuilt(operands, Replaced(2, <<x, y>>), Len(operands) - 2, Len(<<x, y>>))
  BY ONLY <1>1, IsList(operands), 2 <= Len(operands), Replacing
<1> QED
  BY <1>1, <1>2

LEMMA PushConstantKeeps ==
  ASSUME Ready, PushConstant
  PROVE  Kept
<1>1. Footprint(rest[1]) = [needs |-> 0, leaves |-> 1]
  BY FootprintOfPlain DEF PushConstant, Next1
<1>2. Rebuilt(operands, operands', Len(operands), 1)
  BY Pushing DEF PushConstant, Ready
<1>3. Len(operands) - 0 = Len(operands)
  BY ListLength DEF Ready
<1> QED
  BY <1>1, <1>2, <1>3 DEF Kept, PushConstant, Interpreted

LEMMA UnariesKeeps ==
  ASSUME Ready, Unaries
  PROVE  Kept
<1> DEFINE op == rest[1][1]
           x == TransformedValue(op, ST(0))
           y == PushedValue(op, ST(0))
<1>1. Len(rest[1]) = 1 /\ op \in Inplace \cup Widening /\ rest' = Tail(rest)
  BY DEF Unaries, Next1, Interpreted
<1>2. operands' = Replaced(1, IF op \in Inplace THEN <<x>> ELSE <<x, y>>)
  BY DEF Unaries
<1> HIDE DEF op, x, y
<1>3. IsList(operands) /\ Footprint(rest[1]).needs <= Len(operands)
  BY DEF Ready
<1>4. CASE op \in Inplace
  <2>1. Footprint(rest[1]) = [needs |-> 1, leaves |-> 1]
    BY <1>1, <1>4, FootprintOfPlain DEF op
  <2>2. Rebuilt(operands, Replaced(1, <<x>>), Len(operands) - 1, 1)
    BY <1>3, <2>1, OneForOne
  <2> QED
    BY <1>1, <1>2, <1>4, <2>1, <2>2 DEF Kept
<1>5. CASE op \in Widening /\ op \notin Inplace
  <2>1. Footprint(rest[1]) = [needs |-> 1, leaves |-> 2]
    BY <1>1, <1>5, FootprintOfPlain DEF op
  <2>2. Rebuilt(operands, Replaced(1, <<x, y>>), Len(operands) - 1, 2)
    BY <1>3, <2>1, TwoForOne
  <2> QED
    BY <1>1, <1>2, <1>5, <2>1, <2>2 DEF Kept
<1> QED
  BY <1>1, <1>4, <1>5

LEMMA BinariesKeeps ==
  ASSUME Ready, Binaries
  PROVE  Kept
<1> DEFINE x == CombinedValue(rest[1][1], ST(1), ST(0))
<1>1. /\ Len(rest[1]) = 1 /\ rest[1][1] \in Popping /\ rest' = Tail(rest)
      /\ operands' = Replaced(2, <<x>>)
  BY DEF Binaries, Next1, Interpreted
<1> HIDE DEF x
<1>2. Footprint(rest[1]) = [needs |-> 2, leaves |-> 1]
  BY <1>1, FootprintOfPlain
<1>3. Rebuilt(operands, Replaced(2, <<x>>), Len(operands) - 2, 1)
  BY <1>2, OneForTwo DEF Ready
<1> QED
  BY <1>1, <1>2, <1>3 DEF Kept

LEMMA FxchKeeps ==
  ASSUME Ready, Fxch
  PROVE  Kept
<1>1. /\ Len(rest[1]) = 1 /\ rest[1][1] \in Modifying /\ rest' = Tail(rest)
      /\ operands' = Replaced(2, <<ST(0), ST(1)>>)
  BY DEF Fxch, Next1, Interpreted, Modifying
<1>2. Footprint(rest[1]) = [needs |-> 2, leaves |-> 2]
  BY <1>1, FootprintOfPlain
<1>3. Rebuilt(operands, Replaced(2, <<ST(0), ST(1)>>), Len(operands) - 2, 2)
  BY <1>2, TwoForTwo DEF Ready
<1> QED
  BY <1>1, <1>2, <1>3 DEF Kept

(* What was rebuilt above a place was rebuilt above every lower one. *)
LEMMA RebuiltLower ==
  ASSUME NEW s, NEW t, NEW m \in Nat, NEW n \in Nat, NEW k \in 0 .. m, Rebuilt(s, t, m, n)
  PROVE  Rebuilt(s, t, m - k, n + k)
<1>1. (m - k) + (n + k) = m + n
  OBVIOUS
<1>2. 1 .. m - k \subseteq 1 .. m
  OBVIOUS
<1> QED
  BY <1>1, <1>2 DEF Rebuilt

LEMMA ScalingsKeeps ==
  ASSUME Ready, Scalings
  PROVE  Kept
<1> DEFINE x == CombinedValue(rest[1][1], ST(0), ST(1))
<1>1. /\ Len(rest[1]) = 1 /\ rest[1][1] \in Modifying /\ rest' = Tail(rest)
      /\ operands' = Replaced(1, <<x>>)
  BY DEF Scalings, Next1, Interpreted
<1> HIDE DEF x
<1>2. Footprint(rest[1]) = [needs |-> 2, leaves |-> 2]
  BY <1>1, FootprintOfPlain
<1>3. 2 <= Len(operands) /\ Len(operands) \in Nat
  BY <1>2, ListLength DEF Ready
<1>4. Rebuilt(operands, Replaced(1, <<x>>), Len(operands) - 1, 1)
  BY <1>3, OneForOne DEF Ready
<1>5. /\ Len(operands) - 1 \in Nat /\ 1 \in 0 .. Len(operands) - 1
      /\ (Len(operands) - 1) - 1 = Len(operands) - 2
  BY <1>3
<1>6. Rebuilt(operands, Replaced(1, <<x>>), (Len(operands) - 1) - 1, 1 + 1)
  BY <1>4, <1>5, RebuiltLower
<1> QED
  BY <1>1, <1>2, <1>5, <1>6 DEF Kept

LEMMA MemoryKeeps ==
  ASSUME Ready, Memory
  PROVE  Kept
<1> DEFINE source == rest[1][3]
           x == CombinedValue(rest[1][1], ST(0), source)
<1>1. /\ Len(rest[1]) > 2 /\ rest[1][2] = "mem" /\ rest' = Tail(rest)
      /\ operands' = IF rest[1][1] = "fld" THEN Append(operands, source) ELSE Replaced(1, <<x>>)
  BY DEF Memory, NextMem, Interpreted
<1> HIDE DEF source, x
<1>2. Len(rest[1]) = 3
  BY <1>1, LengthByKind DEF Ready
<1>3. IsList(operands) /\ Footprint(rest[1]).needs <= Len(operands) /\ Len(operands) \in Nat
  BY ListLength DEF Ready
<1>4. CASE rest[1][1] = "fld"
  <2>1. Footprint(rest[1]) = [needs |-> 0, leaves |-> 1]
    BY <1>1, <1>2, <1>4, FootprintOfMemory
  <2>2. Rebuilt(operands, Append(operands, source), Len(operands), 1) /\ Len(operands) - 0 = Len(operands)
    BY <1>3, Pushing
  <2> QED
    BY <1>1, <1>4, <2>1, <2>2 DEF Kept
<1>5. CASE rest[1][1] # "fld"
  <2>1. Footprint(rest[1]) = [needs |-> 1, leaves |-> 1]
    BY <1>1, <1>2, <1>5, FootprintOfMemory
  <2>2. Rebuilt(operands, Replaced(1, <<x>>), Len(operands) - 1, 1)
    BY <1>3, <2>1, OneForOne
  <2> QED
    BY <1>1, <1>5, <2>1, <2>2 DEF Kept
<1> QED
  BY <1>4, <1>5

(* The operand at depth d is changed. *)
LEMMA ChangingOperand ==
  ASSUME IsList(operands), NEW d \in Nat, d < Len(operands), NEW x
  PROVE  /\ Rebuilt(operands, [operands EXCEPT ![Len(operands) - d] = x],
                    Len(operands) - (d + 1), d + 1)
         /\ Rebuilt(operands, Front([operands EXCEPT ![Len(operands) - d] = x]),
                    Len(operands) - (d + 1), d)
<1> DEFINE k == Len(operands) - d
           changed == [operands EXCEPT ![k] = x]
<1>1. Len(operands) \in Nat
  BY ListLength
<1>2. k \in 1 .. Len(operands) /\ Len(operands) - (d + 1) = k - 1 /\ d = Len(operands) - k
  BY <1>1
<1> HIDE DEF k
<1>3. /\ IsList(changed) /\ Len(changed) = Len(operands)
      /\ \A i \in 1 .. Len(operands) : i < k => changed[i] = operands[i]
  BY <1>2, Changing
<1> HIDE DEF changed
<1>4. Rebuilt(operands, changed, k - 1, d + 1)
  BY <1>1, <1>2, <1>3 DEF Rebuilt
<1>5. /\ IsList(Front(changed)) /\ Len(Front(changed)) = Len(operands) - 1
      /\ \A i \in 1 .. Len(operands) - 1 : Front(changed)[i] = changed[i]
  <2>1. Len(operands) - 1 \in Nat /\ Len(operands) - 1 <= Len(changed)
    BY <1>1, <1>2, <1>3
  <2>2. Rebuilt(changed, SubSeq(changed, 1, Len(operands) - 1), Len(operands) - 1, 0)
    BY <1>3, <2>1, Cutting
  <2>3. (Len(operands) - 1) + 0 = Len(operands) - 1
    BY <1>1
  <2> QED
    BY <1>3, <2>2, <2>3 DEF Rebuilt, Front
<1>6. Rebuilt(operands, Front(changed), k - 1, d)
  BY <1>1, <1>2, <1>3, <1>5 DEF Rebuilt
<1> QED
  BY <1>2, <1>4, <1>6 DEF k, changed

LEMMA RegistersKeeps ==
  ASSUME Ready, Registers
  PROVE  Kept
<1> DEFINE i == rest[1][3]
           x == ST(0)
<1>1. /\ Len(rest[1]) > 2 /\ rest[1][2] = "st" /\ rest[1][1] \in {"fld", "fstp"}
      /\ rest' = Tail(rest)
      /\ operands' = IF rest[1][1] = "fld" THEN Append(operands, ST(i))
                     ELSE Front([operands EXCEPT ![Len(operands) - i] = x])
  BY DEF Registers, NextSt, Interpreted
<1>2. Len(rest[1]) = 3 /\ i \in Nat
  BY <1>1, LengthByKind DEF Ready
<1> HIDE DEF i, x
<1>3. IsList(operands) /\ Footprint(rest[1]).needs <= Len(operands) /\ Len(operands) \in Nat
  BY ListLength DEF Ready
<1>4. CASE rest[1][1] = "fld"
  <2>1. Footprint(rest[1]) = [needs |-> i + 1, leaves |-> i + 2]
    BY <1>1, <1>2, <1>4, FootprintOfRegister DEF i
  <2>2. Rebuilt(operands, operands', Len(operands), 1)
    BY <1>1, <1>3, <1>4, Pushing
  <2>3. 1 \in Nat /\ i + 1 \in 0 .. Len(operands) /\ 1 + (i + 1) = i + 2
    BY <1>2, <1>3, <2>1
  <2>4. Rebuilt(operands, operands', Len(operands) - (i + 1), 1 + (i + 1))
    BY <1>3, <2>2, <2>3, RebuiltLower
  <2> QED
    BY <1>1, <2>1, <2>3, <2>4 DEF Kept
<1>5. CASE rest[1][1] = "fstp"
  <2>1. Footprint(rest[1]) = [needs |-> i + 1, leaves |-> i]
    BY <1>1, <1>2, <1>5, FootprintOfRegister DEF i
  <2>2. i < Len(operands)
    BY <1>2, <1>3, <2>1
  <2>3. Rebuilt(operands, Front([operands EXCEPT ![Len(operands) - i] = x]), Len(operands) - (i + 1), i)
    BY <1>2, <1>3, <2>2, ChangingOperand
  <2> QED
    BY <1>1, <1>5, <2>1, <2>3 DEF Kept
<1> QED
  BY <1>1, <1>4, <1>5

LEMMA RegisterPairKeeps ==
  ASSUME Ready, RegisterPair
  PROVE  Kept
<1> DEFINE d == rest[1][3]
           s == rest[1][4]
           x == CombinedValue(rest[1][1], ST(d), ST(s))
<1>1. /\ Len(rest[1]) > 2 /\ rest[1][2] = "st" /\ rest[1][1] \in Popping
      /\ rest' = Tail(rest)
      /\ operands' = [operands EXCEPT ![Len(operands) - d] = x]
  BY DEF RegisterPair, NextSt, Interpreted
<1>2. Len(rest[1]) = 4 /\ d \in Nat /\ s \in Nat /\ 0 \in {d, s}
  BY <1>1, LengthByKind DEF Ready
<1>3. Footprint(rest[1]) = IF d # 0 THEN [needs |-> d + 1, leaves |-> d + 1]
                                    ELSE [needs |-> s + 1, leaves |-> s + 1]
  BY <1>2, FootprintOfPair
<1> HIDE DEF d, s, x
<1>4. IsList(operands) /\ Footprint(rest[1]).needs <= Len(operands) /\ Len(operands) \in Nat
  BY ListLength DEF Ready
<1>5. CASE d # 0
  <2>1. Footprint(rest[1]).needs = d + 1 /\ Footprint(rest[1]).leaves = d + 1
    BY <1>3, <1>5
  <2>2. d < Len(operands)
    BY <1>2, <1>4, <2>1
  <2>3. Rebuilt(operands, [operands EXCEPT ![Len(operands) - d] = x], Len(operands) - (d + 1), d + 1)
    BY <1>2, <1>4, <2>2, ChangingOperand
  <2> QED
    BY <1>1, <2>1, <2>3 DEF Kept
<1>6. CASE d = 0
  <2>1. Footprint(rest[1]).needs = s + 1 /\ Footprint(rest[1]).leaves = s + 1
    BY <1>3, <1>6
  <2>2. /\ 0 < Len(operands) /\ 0 \in Nat /\ s \in 0 .. Len(operands) - 1
        /\ Len(operands) - 1 \in Nat /\ (Len(operands) - 1) - s = Len(operands) - (s + 1)
        /\ 1 + s = s + 1 /\ 0 + 1 = 1 /\ 1 \in Nat
    BY <1>2, <1>4, <2>1
  <2>3. Rebuilt(operands, [operands EXCEPT ![Len(operands) - 0] = x], Len(operands) - (0 + 1), 0 + 1)
    BY <1>4, <2>2, ChangingOperand
  <2>4. Rebuilt(operands, operands', Len(operands) - 1, 1)
    BY <1>1, <1>6, <2>2, <2>3
  <2>5. Rebuilt(operands, operands', (Len(operands) - 1) - s, 1 + s)
    BY <2>2, <2>4, RebuiltLower
  <2> QED
    BY <1>1, <2>1, <2>2, <2>5 DEF Kept
<1> QED
  BY <1>5, <1>6

LEMMA FucomiKeeps ==
  ASSUME Ready, Fucomi
  PROVE  Kept
<1> DEFINE k == rest[1][4]
<1>1. /\ Len(rest[1]) > 2 /\ rest[1][2] = "st" /\ rest[1][1] \in {"fucomi", "fcmovb", "fcmovnbe"}
      /\ rest' = Tail(rest) /\ operands' = operands
  BY DEF Fucomi, NextSt, Interpreted
<1>2. Len(rest[1]) = 4 /\ k \in Nat /\ rest[1][3] = 0
  BY <1>1, LengthByKind DEF Ready
<1>3. Footprint(rest[1]).needs = k + 1 /\ Footprint(rest[1]).leaves = k + 1
  BY <1>2, FootprintOfPair
<1> HIDE DEF k
<1>4. IsList(operands) /\ k + 1 <= Len(operands) /\ Len(operands) \in Nat
  BY <1>3, ListLength DEF Ready
<1>5. Rebuilt(operands, operands, Len(operands), 0)
  BY <1>4 DEF Rebuilt
<1>6. 0 \in Nat /\ k + 1 \in 0 .. Len(operands) /\ 0 + (k + 1) = k + 1
  BY <1>2, <1>4
<1>7. Rebuilt(operands, operands, Len(operands) - (k + 1), 0 + (k + 1))
  BY <1>4, <1>5, <1>6, RebuiltLower
<1> QED
  BY <1>1, <1>3, <1>6, <1>7 DEF Kept

LEMMA FcmovKeeps ==
  ASSUME Ready, Fcmov
  PROVE  Kept
<1> DEFINE k == rest[1][4]
           x == IF rest[1][1] = "fcmovb" THEN LessValue(compared[1], compared[2], ST(k), ST(0))
                                         ELSE LessValue(compared[2], compared[1], ST(k), ST(0))
<1>1. /\ Len(rest[1]) > 2 /\ rest[1][2] = "st" /\ rest[1][1] \in {"fucomi", "fcmovb", "fcmovnbe"}
      /\ rest' = Tail(rest) /\ operands' = Replaced(1, <<x>>)
  BY DEF Fcmov, NextSt, Interpreted
<1>2. Len(rest[1]) = 4 /\ k \in Nat /\ rest[1][3] = 0
  BY <1>1, LengthByKind DEF Ready
<1>3. Footprint(rest[1]).needs = k + 1 /\ Footprint(rest[1]).leaves = k + 1
  BY <1>2, FootprintOfPair
<1> HIDE DEF k, x
<1>4. IsList(operands) /\ k + 1 <= Len(operands) /\ Len(operands) \in Nat
  BY <1>3, ListLength DEF Ready
<1>5. /\ 1 <= Len(operands) /\ k \in 0 .. Len(operands) - 1 /\ Len(operands) - 1 \in Nat /\ 1 \in Nat
      /\ (Len(operands) - 1) - k = Len(operands) - (k + 1) /\ 1 + k = k + 1
  BY <1>2, <1>4
<1>6. Rebuilt(operands, operands', Len(operands) - 1, 1)
  BY <1>1, <1>4, <1>5, OneForOne
<1>7. Rebuilt(operands, operands', (Len(operands) - 1) - k, 1 + k)
  BY <1>5, <1>6, RebuiltLower
<1> QED
  BY <1>1, <1>3, <1>5, <1>7 DEF Kept

LEMMA CallEntryKeeps ==
  ASSUME Ready, CallEntry
  PROVE  Kept
<1> DEFINE f == rest[1][2]
           arguments == SubSeq(operands, Len(operands) - Arity[f] + 1, Len(operands))
           values == [i \in 1 .. Results[f] |-> CalledValue(f, i, arguments)]
<1>1. /\ rest[1][1] = "call" /\ rest' = Tail(rest)
      /\ operands' = Replaced(Arity[f], values)
  BY DEF CallEntry, Interpreted
<1>2. Len(rest[1]) = 2 /\ f \in Entries
  BY <1>1, LengthByKind DEF Ready
<1>3. Footprint(rest[1]).needs = Arity[f] /\ Footprint(rest[1]).leaves = Results[f]
  BY <1>2, FootprintOfCall
<1>4. Arity[f] \in Nat /\ Results[f] \in Nat
  BY <1>2, EntriesAssumption
<1>5. IsList(values) /\ Len(values) = Results[f]
  <2> HIDE DEF f, arguments
  <2> DEFINE S == {CalledValue(f, i, arguments) : i \in 1 .. Results[f]}
  <2>1. values \in [1 .. Results[f] -> S]
    OBVIOUS
  <2> HIDE DEF values, S
  <2>2. values \in Seq(S) /\ Len(values) = Results[f]
    BY <1>4, <2>1
  <2> QED
    BY <2>2 DEF IsList
<1> HIDE DEF f, values
<1>6. Rebuilt(operands, Replaced(Arity[f], values), Len(operands) - Arity[f], Len(values))
  BY <1>3, <1>4, <1>5, Replacing DEF Ready
<1> QED
  BY <1>1, <1>3, <1>5, <1>6 DEF Kept

LEMMA InterpretKeeps ==
  ASSUME Ready, Interpret
  PROVE  Kept
BY PushConstantKeeps, UnariesKeeps, BinariesKeeps, ScalingsKeeps, FxchKeeps, MemoryKeeps,
   RegistersKeeps, RegisterPairKeeps, FucomiKeeps, FcmovKeeps, CallEntryKeeps DEF Interpret

-----------------------------------------------------------------------------
(* Code.                                                                   *)

(* Counted code is counted on after its first instruction. *)
LEMMA CountedOn ==
  ASSUME NEW code, IsList(code), code # <<>>, NEW n, NEW total, Counts(code, n, total)
  PROVE  /\ IsInstruction(code[1])
         /\ n \in Nat /\ Footprint(code[1]).needs <= n
         /\ Counts(Tail(code), (n - Footprint(code[1]).needs) + Footprint(code[1]).leaves, total)
<1>1. PICK counts \in Seq(Nat) :
        /\ Len(counts) = Len(code) + 1 /\ counts[1] = n /\ counts[Len(counts)] = total
        /\ \A k \in DOMAIN code :
             /\ IsInstruction(code[k]) /\ Footprint(code[k]).needs <= counts[k]
             /\ counts[k + 1] = (counts[k] - Footprint(code[k]).needs) + Footprint(code[k]).leaves
  BY DEF Counts
<1>2. PICK S : code \in Seq(S)
  BY DEF IsList
<1>3. Len(code) \in Nat \ {0} /\ DOMAIN code = 1 .. Len(code)
  BY <1>2, EmptySeq, LenProperties
<1>4. 1 \in DOMAIN code /\ 1 \in 1 .. Len(counts) /\ counts # <<>>
  BY <1>1, <1>3, EmptySeq
<1>5. n \in Nat
  BY <1>1, <1>4, ElementOfSeq
<1>6. /\ Tail(code) \in Seq(S) /\ Len(Tail(code)) = Len(code) - 1
      /\ \A k \in 1 .. Len(Tail(code)) : Tail(code)[k] = code[k + 1]
  BY <1>2, HeadTailProperties
<1>7. /\ Tail(counts) \in Seq(Nat) /\ Len(Tail(counts)) = Len(counts) - 1
      /\ \A k \in 1 .. Len(Tail(counts)) : Tail(counts)[k] = counts[k + 1]
  BY <1>4, HeadTailProperties
<1> DEFINE later == Tail(counts)
           others == Tail(code)
<1>8. DOMAIN others = 1 .. Len(code) - 1
  BY <1>6, LenProperties
<1>9. \A k \in DOMAIN others :
        /\ k + 1 \in DOMAIN code /\ others[k] = code[k + 1]
        /\ later[k] = counts[k + 1] /\ later[k + 1] = counts[(k + 1) + 1]
  BY <1>1, <1>3, <1>6, <1>7, <1>8
<1>10. \A k \in DOMAIN others :
         /\ IsInstruction(others[k]) /\ Footprint(others[k]).needs <= later[k]
         /\ later[k + 1] = (later[k] - Footprint(others[k]).needs) + Footprint(others[k]).leaves
  BY <1>1, <1>9
<1>11. /\ Len(later) = Len(others) + 1 /\ later[Len(later)] = total
       /\ later[1] = (n - Footprint(code[1]).needs) + Footprint(code[1]).leaves
  <2>1. Len(later) = Len(code) /\ Len(others) + 1 = Len(code) /\ Len(counts) = Len(code) + 1
    BY <1>1, <1>3, <1>6, <1>7
  <2>2. Len(code) \in 1 .. Len(later) /\ 1 \in 1 .. Len(later)
    BY <1>3, <2>1
  <2>3. later[Len(code)] = counts[Len(code) + 1] /\ later[1] = counts[1 + 1]
    BY <1>7, <2>2
  <2>4. counts[1 + 1] = (n - Footprint(code[1]).needs) + Footprint(code[1]).leaves
    BY <1>1, <1>4
  <2> QED
    BY <1>1, <2>1, <2>3, <2>4
<1>12. later \in Seq(Nat)
  BY <1>7
<1> HIDE DEF later, others
<1>13. Counts(others, (n - Footprint(code[1]).needs) + Footprint(code[1]).leaves, total)
  BY <1>10, <1>11, <1>12 DEF Counts
<1> QED
  BY <1>1, <1>4, <1>5, <1>13 DEF others

(* Code that is all done leaves what was counted. *)
LEMMA CountedOut ==
  ASSUME NEW n, NEW total, Counts(<<>>, n, total)
  PROVE  n = total /\ n \in Nat
<1>1. PICK counts \in Seq(Nat) : /\ Len(counts) = Len(<<>>) + 1 /\ counts[1] = n
                                 /\ counts[Len(counts)] = total
  BY DEF Counts
<1>2. Len(counts) = 1
  BY <1>1
<1>3. 1 \in 1 .. Len(counts)
  BY <1>2
<1>4. counts[1] \in Nat
  BY <1>3, ElementOfSeq
<1> QED
  BY <1>1, <1>2, <1>4

-----------------------------------------------------------------------------
(* The inductive invariant: the caller's operands lie untouched below      *)
(* those of the code, which the rest of the code counts on.                *)
MachineCounted(total) ==
  /\ IsList(operands) /\ IsList(rest) /\ IsList(Caller)
  /\ Len(Caller) <= Len(operands)
  /\ \A i \in 1 .. Len(Caller) : operands[i] = Caller[i]
  /\ Counts(rest, Len(operands) - Len(Caller), total)

LEMMA MachineBegins ==
  ASSUME NEW total, MachineInit(total)
  PROVE  MachineCounted(total)
<1>1. IsList(operands) /\ IsList(rest) /\ IsList(Caller) /\ operands = Caller
  BY DEF MachineInit, IsList
<1>2. Len(Caller) \in Nat
  BY <1>1, ListLength
<1>3. Len(Caller) <= Len(operands) /\ Len(operands) - Len(Caller) = 0
  BY <1>1, <1>2
<1> QED
  BY <1>1, <1>3 DEF MachineInit, MachineCounted

(* The invariant makes the machine ready for what is left of its code. *)
LEMMA MachineReady ==
  ASSUME NEW total, MachineCounted(total), rest # <<>>
  PROVE  /\ Ready
         /\ Footprint(rest[1]).needs <= Len(operands) - Len(Caller)
         /\ Footprint(rest[1]).needs \in Nat /\ Footprint(rest[1]).leaves \in Nat
<1>1. Len(operands) \in Nat /\ Len(Caller) \in Nat
  BY ListLength DEF MachineCounted
<1>2. IsInstruction(rest[1]) /\ Footprint(rest[1]).needs <= Len(operands) - Len(Caller)
  BY CountedOn DEF MachineCounted
<1>3. Footprint(rest[1]).needs \in Nat /\ Footprint(rest[1]).leaves \in Nat
  BY <1>2, FootprintCounts
<1> QED
  BY <1>1, <1>2, <1>3 DEF Ready, MachineCounted

LEMMA MachineContinues ==
  ASSUME NEW total, MachineCounted(total), Interpret
  PROVE  MachineCounted(total)' /\ Ready /\ Kept
<1> DEFINE needs  == Footprint(rest[1]).needs
           leaves == Footprint(rest[1]).leaves
<1>1. rest # <<>>
  BY DEF Interpret, PushConstant, Unaries, Binaries, Scalings, Fxch, Memory, Registers, RegisterPair,
         Fucomi, Fcmov, CallEntry, Next1, NextSt, NextMem
<1>2. /\ Ready /\ needs <= Len(operands) - Len(Caller)
      /\ needs \in Nat /\ leaves \in Nat
  BY <1>1, MachineReady
<1>3. Kept
  BY <1>2, InterpretKeeps
<1>4. rest' = Tail(rest) /\ Rebuilt(operands, operands', Len(operands) - needs, leaves)
  BY <1>3 DEF Kept
<1>5. Counts(Tail(rest), ((Len(operands) - Len(Caller)) - needs) + leaves, total)
  BY <1>1, CountedOn DEF MachineCounted
<1> HIDE DEF needs, leaves
<1>6. Len(operands) \in Nat /\ Len(Caller) \in Nat
  BY ListLength DEF MachineCounted
<1>7. /\ IsList(operands') /\ Len(operands') = (Len(operands) - needs) + leaves
      /\ \A i \in 1 .. Len(operands) - needs : operands'[i] = operands[i]
  BY <1>4 DEF Rebuilt
<1>8. /\ Len(Caller) <= Len(operands')
      /\ Len(operands') - Len(Caller) = ((Len(operands) - Len(Caller)) - needs) + leaves
      /\ 1 .. Len(Caller) \subseteq 1 .. Len(operands) - needs
  BY <1>2, <1>6, <1>7
<1>9. \A i \in 1 .. Len(Caller) : operands'[i] = Caller[i]
  BY <1>7, <1>8 DEF MachineCounted
<1>10. IsList(rest') /\ IsList(Caller)
  <2>1. PICK S : rest \in Seq(S)
    BY DEF MachineCounted, IsList
  <2>2. Tail(rest) \in Seq(S)
    BY <1>1, <2>1, HeadTailProperties
  <2> QED
    BY <1>4, <2>2 DEF MachineCounted, IsList
<1>11. Counts(rest', Len(operands') - Len(Caller), total)
  BY <1>4, <1>5, <1>8
<1> QED
  BY <1>2, <1>3, <1>7, <1>8, <1>9, <1>10, <1>11 DEF MachineCounted

(* Every step of the machine keeps the count: Interpret, for all code that *)
(* counts by the footprints of the assembler.                              *)
THEOREM MachineCountedHolds ==
  ASSUME NEW CONSTANT total
  PROVE  MachineSpec(total) => []MachineCounted(total)
<1>1. MachineInit(total) => MachineCounted(total)
  BY MachineBegins
<1>2. MachineCounted(total) /\ [Interpret]_machineVars => MachineCounted(total)'
  <2> SUFFICES ASSUME MachineCounted(total), [Interpret]_machineVars
               PROVE  MachineCounted(total)'
    OBVIOUS
  <2>1. CASE Interpret
    BY <2>1, MachineContinues
  <2>2. CASE UNCHANGED machineVars
    BY <2>2 DEF MachineCounted, machineVars
  <2> QED
    BY <2>1, <2>2
<1> QED
  BY <1>1, <1>2, PTL DEF MachineSpec

-----------------------------------------------------------------------------
(* The theorems.                                                           *)

(* Whatever code the machine is given that counts by the footprints, with  *)
(* whatever numbers: no instruction takes an operand of the caller's       *)
(* (virtual_machine::operator (), interpret_function).                     *)
THEOREM CallerUntouchedHolds ==
  ASSUME NEW CONSTANT total
  PROVE  MachineSpec(total) => []CallerUntouched
<1>1. MachineCounted(total) => CallerUntouched
  <2> SUFFICES ASSUME MachineCounted(total) PROVE CallerUntouched
    OBVIOUS
  <2>1. Len(Caller) \in Nat /\ IsList(Caller) /\ IsList(operands)
    BY ListLength DEF MachineCounted
  <2>2. SubSeq(operands, 1, Len(Caller)) = SubSeq(Caller, 1, Len(Caller))
    BY <2>1, SameBeginning DEF MachineCounted
  <2>3. SubSeq(Caller, 1, Len(Caller)) = Caller
    BY <2>1, SubSeqFull DEF IsList
  <2>4. rest # <<>> => /\ IsInstruction(rest[1])
                       /\ Footprint(rest[1]).needs <= Len(operands) - Len(Caller)
    BY MachineReady DEF Ready
  <2> QED
    BY <2>2, <2>3, <2>4 DEF CallerUntouched
<1> QED
  BY <1>1, MachineCountedHolds, PTL

LEMMA KeptIsFootprint ==
  ASSUME Ready, Kept
  PROVE  /\ Len(operands') = (Len(operands) - Footprint(rest[1]).needs) + Footprint(rest[1]).leaves
         /\ SubSeq(operands', 1, Len(operands) - Footprint(rest[1]).needs)
              = SubSeq(operands, 1, Len(operands) - Footprint(rest[1]).needs)
<1> DEFINE needs  == Footprint(rest[1]).needs
           leaves == Footprint(rest[1]).leaves
           below  == Len(operands) - needs
<1>1. /\ IsList(operands) /\ needs <= Len(operands) /\ needs \in Nat /\ leaves \in Nat
      /\ Len(operands) \in Nat
  BY ListLength, FootprintCounts DEF Ready
<1>2. /\ IsList(operands') /\ Len(operands') = below + leaves
      /\ \A i \in 1 .. below : operands'[i] = operands[i]
  BY DEF Kept, Rebuilt
<1> HIDE DEF leaves
<1>3. below \in Nat /\ below <= Len(operands) /\ below <= Len(operands')
  BY <1>1, <1>2
<1> HIDE DEF below
<1>4. SubSeq(operands', 1, below) = SubSeq(operands, 1, below)
  BY <1>1, <1>2, <1>3, SameBeginning
<1> QED
  BY <1>2, <1>4 DEF below, leaves

(* Every instruction leaves everything below its footprint as it is, and   *)
(* as many operands in its place as the footprint says: the table of       *)
(* monitor::verify agrees with the virtual machine on every instruction.   *)
THEOREM FootprintKeptHolds ==
  ASSUME NEW CONSTANT total
  PROVE  MachineSpec(total) => FootprintKept
<1> DEFINE Keeps ==
      rest # <<>> =>
        LET footprint == Footprint(rest[1])
            below == Len(operands) - footprint.needs
        IN  /\ Len(operands') = below + footprint.leaves
            /\ SubSeq(operands', 1, below) = SubSeq(operands, 1, below)
<1>1. MachineCounted(total) /\ [Interpret]_machineVars => [Keeps]_machineVars
  <2> SUFFICES ASSUME MachineCounted(total), Interpret PROVE Keeps
    OBVIOUS
  <2>1. Ready /\ Kept
    BY MachineContinues
  <2> QED
    BY <2>1, KeptIsFootprint
<1>2. MachineSpec(total) => [][Keeps]_machineVars
  BY <1>1, MachineCountedHolds, PTL DEF MachineSpec
<1> QED
  BY <1>2 DEF FootprintKept

(* At the end the results lie on the caller's operands, as many as the     *)
(* code counts for.                                                        *)
THEOREM ResultsLeftHolds ==
  ASSUME NEW CONSTANT total
  PROVE  MachineSpec(total) => []ResultsLeft(total)
<1>1. MachineCounted(total) => ResultsLeft(total)
  <2> SUFFICES ASSUME MachineCounted(total), rest = <<>>
               PROVE  Len(operands) = Len(Caller) + total
    BY DEF ResultsLeft
  <2>1. Len(operands) - Len(Caller) = total
    BY CountedOut DEF MachineCounted
  <2>2. Len(operands) \in Nat /\ Len(Caller) \in Nat
    BY ListLength DEF MachineCounted
  <2> QED
    BY <2>1, <2>2
<1> QED
  BY <1>1, MachineCountedHolds, PTL

-----------------------------------------------------------------------------
(* How code is put together.                                               *)

(* Code that counts from n counts as well with k more operands below. *)
LEMMA CountsHigher ==
  ASSUME NEW code, NEW n, NEW total, NEW k \in Nat, IsList(code), Counts(code, n, total)
  PROVE  Counts(code, n + k, total + k)
<1>1. PICK counts \in Seq(Nat) :
        /\ Len(counts) = Len(code) + 1 /\ counts[1] = n /\ counts[Len(counts)] = total
        /\ \A j \in DOMAIN code :
             /\ IsInstruction(code[j]) /\ Footprint(code[j]).needs <= counts[j]
             /\ counts[j + 1] = (counts[j] - Footprint(code[j]).needs) + Footprint(code[j]).leaves
  BY DEF Counts
<1>2. Len(code) \in Nat /\ DOMAIN code = 1 .. Len(code)
  BY LenProperties DEF IsList
<1>3. \A j \in 1 .. Len(code) + 1 : counts[j] \in Nat
  BY <1>1, ElementOfSeq
<1> DEFINE higher == [j \in 1 .. Len(code) + 1 |-> counts[j] + k]
<1>4. higher \in [1 .. Len(code) + 1 -> Nat]
  BY <1>3
<1>5. higher \in Seq(Nat) /\ Len(higher) = Len(code) + 1
  BY <1>2, <1>4
<1>6. higher[1] = n + k /\ higher[Len(higher)] = total + k
  BY <1>1, <1>2, <1>5
<1>7. ASSUME NEW j \in DOMAIN code
      PROVE  /\ IsInstruction(code[j]) /\ Footprint(code[j]).needs <= higher[j]
             /\ higher[j + 1] = (higher[j] - Footprint(code[j]).needs) + Footprint(code[j]).leaves
  <2>1. j \in 1 .. Len(code) + 1 /\ j + 1 \in 1 .. Len(code) + 1
    BY <1>2
  <2>2. higher[j] = counts[j] + k /\ higher[j + 1] = counts[j + 1] + k
    BY <2>1
  <2>3. Footprint(code[j]).needs \in Nat /\ Footprint(code[j]).leaves \in Nat
    BY <1>1, FootprintCounts
  <2>4. counts[j] \in Nat /\ counts[j + 1] \in Nat
    BY <1>3, <2>1
  <2> HIDE DEF higher
  <2> DEFINE needs  == Footprint(code[j]).needs
             leaves == Footprint(code[j]).leaves
             before == counts[j]
             after  == counts[j + 1]
  <2>5. needs <= before /\ after = (before - needs) + leaves /\ IsInstruction(code[j])
    BY <1>1
  <2>6. needs \in Nat /\ leaves \in Nat /\ before \in Nat
    BY <2>3, <2>4
  <2>7. higher[j] = before + k /\ higher[j + 1] = after + k
    BY <2>2
  <2> HIDE DEF needs, leaves, before, after
  <2>8. needs <= before + k /\ after + k = ((before + k) - needs) + leaves
    BY <2>5, <2>6
  <2> QED
    BY <2>5, <2>7, <2>8 DEF needs, leaves
<1> HIDE DEF higher
<1> QED
  BY <1>5, <1>6, <1>7 DEF Counts

(* One code after another. *)
LEMMA CountsJoined ==
  ASSUME NEW a, NEW b, NEW l, NEW m, NEW n, IsList(a), IsList(b), Counts(a, l, m), Counts(b, m, n)
  PROVE  Counts(a \o b, l, n)
<1>1. PICK c \in Seq(Nat) :
        /\ Len(c) = Len(a) + 1 /\ c[1] = l /\ c[Len(c)] = m
        /\ \A j \in DOMAIN a :
             /\ IsInstruction(a[j]) /\ Footprint(a[j]).needs <= c[j]
             /\ c[j + 1] = (c[j] - Footprint(a[j]).needs) + Footprint(a[j]).leaves
  BY DEF Counts
<1>2. PICK d \in Seq(Nat) :
        /\ Len(d) = Len(b) + 1 /\ d[1] = m /\ d[Len(d)] = n
        /\ \A j \in DOMAIN b :
             /\ IsInstruction(b[j]) /\ Footprint(b[j]).needs <= d[j]
             /\ d[j + 1] = (d[j] - Footprint(b[j]).needs) + Footprint(b[j]).leaves
  BY DEF Counts
<1>3. PICK S : a \in Seq(S) /\ b \in Seq(S)
  BY TwoLists
<1>4. /\ Len(a) \in Nat /\ DOMAIN a = 1 .. Len(a)
      /\ Len(b) \in Nat /\ DOMAIN b = 1 .. Len(b)
  BY <1>3, LenProperties
<1>5. /\ a \o b \in Seq(S) /\ Len(a \o b) = Len(a) + Len(b)
      /\ \A i \in 1 .. Len(a) + Len(b) :
           (a \o b)[i] = IF i <= Len(a) THEN a[i] ELSE b[i - Len(a)]
  BY <1>3, ConcatProperties
<1> DEFINE e == [j \in 1 .. (Len(a) + Len(b)) + 1 |-> IF j <= Len(a) THEN c[j] ELSE d[j - Len(a)]]
           ab == a \o b
<1>6. /\ \A j \in 1 .. Len(a) + 1 : c[j] \in Nat
      /\ \A j \in 1 .. Len(b) + 1 : d[j] \in Nat
  BY <1>1, <1>2, ElementOfSeq
<1>7. e \in Seq(Nat) /\ Len(e) = Len(ab) + 1
  <2>1. e \in [1 .. (Len(a) + Len(b)) + 1 -> Nat]
    BY <1>4, <1>6
  <2> DEFINE N == (Len(a) + Len(b)) + 1
  <2>2. N \in Nat /\ N = Len(ab) + 1
    BY <1>4, <1>5
  <2>3. e \in [1 .. N -> Nat]
    BY <2>1
  <2> HIDE DEF e, N, ab
  <2>4. e \in Seq(Nat) /\ Len(e) = N
    BY <2>2, <2>3
  <2> QED
    BY <2>2, <2>4
<1>8. /\ \A j \in 1 .. Len(a) + 1 : e[j] = c[j]
      /\ \A j \in 1 .. Len(b) + 1 : e[j + Len(a)] = d[j]
  <2>1. ASSUME NEW j \in 1 .. Len(b) + 1
        PROVE  e[j + Len(a)] = d[j]
    <3>1. /\ j + Len(a) \in 1 .. (Len(a) + Len(b)) + 1 /\ ~ (j + Len(a) <= Len(a))
          /\ (j + Len(a)) - Len(a) = j
      BY <1>4
    <3> QED
      BY <3>1
  <2>2. ASSUME NEW j \in 1 .. Len(a)
        PROVE  e[j] = c[j]
    <3>1. j \in 1 .. (Len(a) + Len(b)) + 1 /\ j <= Len(a)
      BY <1>4
    <3> QED
      BY <3>1
  <2>3. 1 \in 1 .. Len(b) + 1 /\ 1 + Len(a) = Len(a) + 1
    BY <1>4
  <2>4. e[Len(a) + 1] = d[1]
    BY <2>1, <2>3
  <2>5. c[Len(a) + 1] = d[1]
    BY <1>1, <1>2
  <2> HIDE DEF e
  <2>6. ASSUME NEW j \in 1 .. Len(a) + 1
        PROVE  e[j] = c[j]
    <3>1. j \in 1 .. Len(a) \/ j = Len(a) + 1
      BY <1>4
    <3> QED
      BY <2>2, <2>4, <2>5, <3>1
  <2> QED
    BY <2>1, <2>6
<1>9. DOMAIN ab = 1 .. Len(a) + Len(b)
  BY <1>5, LenProperties
<1>10. /\ \A j \in 1 .. Len(a) : ab[j] = a[j]
       /\ \A j \in 1 .. Len(b) : ab[j + Len(a)] = b[j]
  BY <1>4, <1>5
<1> HIDE DEF e, ab
<1>11. e[1] = l /\ e[Len(e)] = n
  <2>1. Len(e) = (Len(b) + 1) + Len(a)
    BY <1>4, <1>5, <1>7 DEF ab
  <2>2. 1 \in 1 .. Len(a) + 1 /\ Len(b) + 1 \in 1 .. Len(b) + 1
    BY <1>4
  <2>3. e[1] = c[1] /\ e[(Len(b) + 1) + Len(a)] = d[Len(b) + 1]
    BY <1>8, <2>2
  <2> QED
    BY <1>1, <1>2, <2>1, <2>3
<1>12. ASSUME NEW j \in DOMAIN ab
       PROVE  /\ IsInstruction(ab[j]) /\ Footprint(ab[j]).needs <= e[j]
              /\ e[j + 1] = (e[j] - Footprint(ab[j]).needs) + Footprint(ab[j]).leaves
  <2>1. CASE j \in 1 .. Len(a)
    <3>0. j \in 1 .. Len(a) + 1 /\ j + 1 \in 1 .. Len(a) + 1
      BY <1>4, <2>1
    <3>1. ab[j] = a[j] /\ e[j] = c[j] /\ e[j + 1] = c[j + 1]
      BY <1>8, <1>10, <2>1, <3>0
    <3> QED
      BY <1>1, <1>4, <2>1, <3>1
  <2>2. CASE j \notin 1 .. Len(a)
    <3> DEFINE i == j - Len(a)
    <3>1. i \in 1 .. Len(b) /\ {i, i + 1} \subseteq 1 .. Len(b) + 1 /\ j = i + Len(a) /\ j + 1 = (i + 1) + Len(a)
      BY <1>4, <1>9, <2>2
    <3> HIDE DEF i
    <3>2. ab[i + Len(a)] = b[i] /\ e[i + Len(a)] = d[i] /\ e[(i + 1) + Len(a)] = d[i + 1]
      BY <1>8, <1>10, <3>1
    <3>3. ab[j] = b[i] /\ e[j] = d[i] /\ e[j + 1] = d[i + 1]
      BY <3>1, <3>2
    <3> QED
      BY <1>2, <1>4, <3>1, <3>3
  <2> QED
    BY <2>1, <2>2
<1> QED
  BY <1>7, <1>11, <1>12 DEF Counts, ab

(* Code that leaves k operands, and after it code that makes m of the      *)
(* newest n of them, are code that leaves k - n + m: so count the codes of *)
(* operands, in which compile(rvalues) knows nothing of those before, and  *)
(* the instructions that the methods of operators and intrinsics put after *)
(* them.                                                                   *)
THEOREM CodeComposes ==
  ASSUME NEW a, NEW b, IsList(a), IsList(b), NEW k \in Nat, NEW n \in 0 .. k, NEW m \in Nat,
         Counts(a, 0, k), Counts(b, n, m)
  PROVE  Counts(a \o b, 0, (k - n) + m)
<1>1. k - n \in Nat /\ n + (k - n) = k /\ m + (k - n) = (k - n) + m
  OBVIOUS
<1>2. Counts(b, n + (k - n), m + (k - n))
  BY <1>1, CountsHigher
<1>3. Counts(b, k, (k - n) + m)
  BY <1>1, <1>2
<1> QED
  BY <1>3, CountsJoined

=============================================================================
