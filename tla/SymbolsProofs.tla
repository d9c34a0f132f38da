----------------------------- MODULE SymbolsProofs -----------------------------
(***************************************************************************)
(* What module Symbols states of the heap and of calls, proved for any     *)
(* names, literals and parameter lists and for all bounds, for programs    *)
(* without the literal NaN.                                                *)
(***************************************************************************)
EXTENDS Symbols, SequenceTheorems, TLAPS

(* No literal is NaN: with it literals_ finds cells of other literals.     *)
ProperLiterals == NaN \notin Literals

Operands == [op : {"fld", "fstp"}, asked : Names \cup Literals, offset : Nat]

Functions == [name : Names, arity : Nat, calls : SUBSET Nat, operands : SUBSET Operands]

(* The tables and the function at hand, as far as the proofs need types.   *)
TablesTyped ==
  /\ heap \in Seq(Names \cup Literals)
  /\ functions \in Seq(Functions) /\ image.functions \in Seq(Functions)
  /\ DOMAIN globals \subseteq Names /\ DOMAIN literals \subseteq Literals
  /\ \A f \in DOMAIN exports : exports[f] \in Nat
  /\ DOMAIN monitor = {"locals", "arity", "recorded", "calls", "operands"}
  /\ monitor.arity \in Nat /\ monitor.calls \in SUBSET Nat
  /\ monitor.operands \in SUBSET Operands

(* The function being compiled has a name that nothing else has.           *)
SymbolFresh ==
  status = "body" => symbol \in Names \ (DOMAIN exports \cup DOMAIN globals)

Inductive == /\ TablesTyped /\ SymbolFresh
             /\ CellsOwned /\ OperandsStand /\ StoresReachGlobals /\ CallsGoBack

(* A name is no literal, and without NaN a literal matches only itself.    *)
LEMMA MatchesItself ==
  ASSUME ProperLiterals, TablesTyped,
         NEW v \in Literals, NEW w \in Matches(v)
  PROVE  w = v /\ v \in DOMAIN literals
  BY NamesAssumption DEF ProperLiterals, TablesTyped, Matches

(* An assembler just made: empty tables, nothing recorded.                 *)
THEOREM InitInductive == SymbolsInit => Inductive
  BY NamesAssumption
  DEF SymbolsInit, Inductive, TablesTyped, SymbolFresh, CellsOwned, Cells,
      OperandsStand, Reads, StoresReachGlobals, CallsGoBack, Cleared, NoMap, ToSet


(* The elements of a sequence over S are in S.                             *)
LEMMA ElementsOfSequence ==
  ASSUME NEW S, NEW s \in Seq(S)
  PROVE  \A e \in ToSet(s) : e \in S
  BY DEF ToSet

(* Reads stays true as the heap grows: cells are only added at its end.    *)
LEMMA ReadsOfLonger ==
  ASSUME NEW fs, NEW S, NEW cells \in Seq(S), NEW e \in S, Reads(fs, cells),
         \A f \in ToSet(fs) : \A o \in f.operands : o.offset \in Nat
  PROVE  Reads(fs, Append(cells, e))
  BY DEF Reads

(* The elements of a list that grew by one.                                *)
LEMMA ElementsOfLonger ==
  ASSUME NEW S, NEW s \in Seq(S), NEW e \in S
  PROVE  ToSet(Append(s, e)) = ToSet(s) \cup {e}
  <1>1. /\ Len(s) \in Nat /\ DOMAIN s = 1 .. Len(s)
        /\ DOMAIN Append(s, e) = 1 .. Len(s) + 1
        /\ Append(s, e)[Len(s) + 1] = e
        /\ \A i \in 1 .. Len(s) : Append(s, e)[i] = s[i]
    OBVIOUS
  <1> DEFINE t == Append(s, e)
  <1> HIDE DEF t
  <1>2. ToSet(t) \subseteq ToSet(s) \cup {e}
    BY <1>1 DEF ToSet, t
  <1>3. ToSet(s) \cup {e} \subseteq ToSet(t)
    BY <1>1 DEF ToSet, t
  <1> QED  BY <1>2, <1>3 DEF t

(* A function recorded at the end of a list is read as the others are.     *)
LEMMA ReadsOfMore ==
  ASSUME NEW S, NEW fs \in Seq(S), NEW f \in S, NEW cells,
         Reads(fs, cells), Reads(<<f>>, cells)
  PROVE  Reads(Append(fs, f), cells)
  <1>1. ToSet(Append(fs, f)) = ToSet(fs) \cup {f}
    BY ElementsOfLonger
  <1>2. ToSet(<<f>>) = {f}
    BY DEF ToSet
  <1> QED  BY <1>1, <1>2 DEF Reads


-----------------------------------------------------------------------------
(* Steps that leave tables, heap and recorded operands alone: brackets,    *)
(* declarations, local variables, constants, and a refused request.        *)
LEMMA QuietStep ==
  ASSUME Inductive, UNCHANGED <<tables, store, image>>,
         monitor' = monitor \/ \E n : monitor' = [monitor EXCEPT !.locals = n],
         status' = "body" => status = "body" /\ symbol' = symbol
  PROVE  Inductive'
  <1>1. /\ monitor'.operands = monitor.operands /\ monitor'.calls = monitor.calls
        /\ monitor'.arity = monitor.arity
        /\ DOMAIN monitor' = {"locals", "arity", "recorded", "calls", "operands"}
    BY DEF Inductive, TablesTyped
  <1>2. TablesTyped' /\ SymbolFresh'
    BY <1>1 DEF Inductive, TablesTyped, SymbolFresh, tables, store
  <1>3. CellsOwned'
    BY DEF Inductive, CellsOwned, Cells, tables, store
  <1>4. Reads(<<monitor>>, heap) => Reads(<<monitor'>>, heap)
    BY <1>1 DEF Reads, ToSet
  <1>5. OperandsStand'
    BY <1>4 DEF Inductive, OperandsStand, Reads, tables, store
  <1>6. StoresReachGlobals' /\ CallsGoBack'
    BY <1>1 DEF Inductive, StoresReachGlobals, CallsGoBack, tables
  <1> QED  BY <1>2, <1>3, <1>5, <1>6 DEF Inductive

(* An operand recorded for a cell that holds what was asked for.           *)
LEMMA RecordStep ==
  ASSUME Inductive, UNCHANGED <<tables, store, image, symbol, status>>,
         NEW o \in Operands, monitor' = Recorded(o),
         o.offset < Len(heap), Same(heap[o.offset + 1], o.asked),
         o.op = "fstp" => o.offset \in DOMAIN globalOffsets
  PROVE  Inductive'
  <1>1. /\ monitor'.operands = monitor.operands \cup {o} /\ monitor'.calls = monitor.calls
        /\ monitor'.arity = monitor.arity
        /\ DOMAIN monitor' = {"locals", "arity", "recorded", "calls", "operands"}
    BY DEF Inductive, TablesTyped, Recorded
  <1>2. TablesTyped' /\ SymbolFresh'
    BY <1>1 DEF Inductive, TablesTyped, SymbolFresh, tables, store
  <1>3. CellsOwned'
    BY DEF Inductive, CellsOwned, Cells, tables, store
  <1>4. Reads(<<monitor'>>, heap)
    BY <1>1 DEF Inductive, OperandsStand, Reads, ToSet
  <1>5. OperandsStand'
    BY <1>4 DEF Inductive, OperandsStand, Reads, tables, store
  <1>6. StoresReachGlobals' /\ CallsGoBack'
    BY <1>1 DEF Inductive, StoresReachGlobals, CallsGoBack, tables
  <1> QED  BY <1>2, <1>3, <1>5, <1>6 DEF Inductive

(* A new cell at the end of the heap, whether of a variable or a literal,  *)
(* leaves every operand where it was.                                      *)
LEMMA OperandsOfLonger ==
  ASSUME TablesTyped, OperandsStand, NEW e \in Names \cup Literals
  PROVE  /\ Reads(functions, Append(heap, e))
         /\ Reads(<<monitor>>, Append(heap, e))
  <1>1. \A f \in ToSet(functions) : \A o \in f.operands : o.offset \in Nat
    <2>1. \A f \in ToSet(functions) : f \in Functions
      BY ElementsOfSequence DEF TablesTyped
    <2> QED  BY <2>1 DEF Functions, Operands
  <1>2. \A f \in ToSet(<<monitor>>) : \A o \in f.operands : o.offset \in Nat
    BY DEF TablesTyped, Operands, ToSet
  <1>3. Reads(functions, Append(heap, e))
    BY <1>1, ReadsOfLonger DEF TablesTyped, OperandsStand
  <1>4. Reads(<<monitor>>, Append(heap, e))
    BY <1>2, ReadsOfLonger DEF TablesTyped, OperandsStand
  <1> QED  BY <1>3, <1>4


-----------------------------------------------------------------------------
(* One lemma per operation that changes a table or the heap.               *)

(* A global variable gets the cell that the heap grows by.                 *)
LEMMA AddGlobalStep ==
  ASSUME Inductive, NEW x \in Names, AddGlobal(x)
  PROVE  Inductive'
  <1> USE DEF Inductive
  <1>1. /\ heap' = Append(heap, x) /\ globals' = With(globals, x, Len(heap))
        /\ globalOffsets' = With(globalOffsets, Len(heap), x)
        /\ UNCHANGED <<functions, exports, literals, monitor, image, status, symbol>>
        /\ x \notin DOMAIN globals /\ x \notin DOMAIN exports /\ status = "idle"
    BY DEF AddGlobal, current, IsGlobal, IsFunction
  <1>2. TablesTyped' /\ SymbolFresh'
    <2>1. DOMAIN globals' = DOMAIN globals \cup {x}
      BY <1>1 DEF With
    <2> QED  BY <1>1, <2>1 DEF TablesTyped, SymbolFresh
  <1>3. /\ Len(heap) \in Nat /\ Len(heap') = Len(heap) + 1
        /\ \A c \in Cells : heap'[c + 1] = heap[c + 1]
        /\ heap'[Len(heap) + 1] = x
        /\ Cells' = Cells \cup {Len(heap)} /\ Len(heap) \notin Cells
    BY <1>1 DEF TablesTyped, Cells
  <1>4. CellsOwned'
    <2>1. /\ DOMAIN globals' = DOMAIN globals \cup {x} /\ globals'[x] = Len(heap)
          /\ \A y \in DOMAIN globals : globals'[y] = globals[y]
      BY <1>1 DEF With
    <2>2. /\ DOMAIN globalOffsets' = DOMAIN globalOffsets \cup {Len(heap)}
          /\ globalOffsets'[Len(heap)] = x
          /\ \A c \in DOMAIN globalOffsets : globalOffsets'[c] = globalOffsets[c]
      BY <1>1, <1>3 DEF With, CellsOwned
    <2>3. \A c \in Cells' : c \in DOMAIN globalOffsets' \/ heap'[c + 1] \in DOMAIN literals'
      BY <1>1, <1>3, <2>2 DEF CellsOwned
    <2>4. \A v \in DOMAIN literals' : literals'[v] \in Cells' /\ heap'[literals'[v] + 1] = v
      BY <1>1, <1>3 DEF CellsOwned
    <2>5. \A y \in DOMAIN globals' : /\ globals'[y] \in DOMAIN globalOffsets'
                                     /\ globalOffsets'[globals'[y]] = y
      BY <2>1, <2>2 DEF CellsOwned
    <2>6. \A c \in DOMAIN globalOffsets' :
            /\ c \in Cells' /\ heap'[c + 1] = globalOffsets'[c]
            /\ heap'[c + 1] \in DOMAIN globals' /\ globals'[heap'[c + 1]] = c
      <3> SUFFICES ASSUME NEW c \in DOMAIN globalOffsets'
                   PROVE  /\ c \in Cells' /\ heap'[c + 1] = globalOffsets'[c]
                          /\ heap'[c + 1] \in DOMAIN globals'
                          /\ globals'[heap'[c + 1]] = c
        OBVIOUS
      <3>1. CASE c = Len(heap)
        BY <1>3, <2>1, <2>2, <3>1
      <3>2. CASE c \in DOMAIN globalOffsets
        BY <1>3, <2>1, <2>2, <3>2 DEF CellsOwned
      <3> QED  BY <2>2, <3>1, <3>2
    <2> QED  BY <2>3, <2>4, <2>5, <2>6 DEF CellsOwned
  <1>5. OperandsStand'
    BY <1>1, OperandsOfLonger DEF OperandsStand
  <1>6. StoresReachGlobals' /\ CallsGoBack'
    BY <1>1 DEF StoresReachGlobals, CallsGoBack, With
  <1> QED  BY <1>2, <1>4, <1>5, <1>6

(* So does a literal that has no cell yet.                                 *)
LEMMA NewLiteralStep ==
  ASSUME Inductive, NEW v \in Literals, NewLiteral(v)
  PROVE  Inductive'
  <1> USE DEF Inductive
  <1> DEFINE o == Operand("fld", v, Len(heap))
  <1>1. /\ heap' = Append(heap, v) /\ literals' = With(literals, v, Len(heap))
        /\ monitor' = Recorded(o)
        /\ UNCHANGED <<functions, exports, globals, globalOffsets, image, status, symbol>>
    BY DEF NewLiteral, InBody, tables
  <1>2. v \notin DOMAIN literals
    BY DEF NewLiteral, Matches
  <1>3. /\ monitor'.operands = monitor.operands \cup {o} /\ monitor'.calls = monitor.calls
        /\ monitor'.arity = monitor.arity
        /\ DOMAIN monitor' = {"locals", "arity", "recorded", "calls", "operands"}
    BY <1>1 DEF TablesTyped, Recorded
  <1>4. /\ Len(heap) \in Nat /\ Len(heap') = Len(heap) + 1
        /\ \A c \in Cells : heap'[c + 1] = heap[c + 1]
        /\ heap'[Len(heap) + 1] = v
        /\ Cells' = Cells \cup {Len(heap)} /\ Len(heap) \notin Cells
    BY <1>1 DEF TablesTyped, Cells
  <1>5. o \in Operands /\ o.offset = Len(heap) /\ o.asked = v /\ o.op = "fld"
    BY <1>4 DEF Operand, Operands
  <1> HIDE DEF o
  <1>6. TablesTyped' /\ SymbolFresh'
    BY <1>1, <1>3, <1>5 DEF TablesTyped, SymbolFresh, With
  <1>7. CellsOwned'
    BY <1>1, <1>2, <1>4 DEF CellsOwned, With, TablesTyped
  <1>8. Reads(functions', heap') /\ Reads(<<monitor>>, heap')
    BY <1>1, OperandsOfLonger
  <1>9. Reads(<<monitor'>>, heap')
    BY <1>3, <1>4, <1>5, <1>8 DEF Reads, ToSet, Same
  <1>10. OperandsStand'
    BY <1>1, <1>8, <1>9 DEF OperandsStand
  <1>11. StoresReachGlobals' /\ CallsGoBack'
    BY <1>1, <1>3, <1>5 DEF StoresReachGlobals, CallsGoBack
  <1> QED  BY <1>6, <1>7, <1>10, <1>11

(* A literal met before is read from its own cell.                         *)
LEMMA OldLiteralStep ==
  ASSUME ProperLiterals, Inductive, NEW v \in Literals, OldLiteral(v)
  PROVE  Inductive'
  <1> DEFINE o == Operand("fld", v, literals[v])
  <1>1. PICK w \in Matches(v) : monitor' = Recorded(Operand("fld", v, literals[w]))
    BY DEF OldLiteral
  <1>2. w = v /\ v \in DOMAIN literals
    BY MatchesItself DEF Inductive
  <1>3. literals[v] \in 0 .. Len(heap) - 1 /\ heap[literals[v] + 1] = v /\ Len(heap) \in Nat
    BY <1>2 DEF Inductive, CellsOwned, Cells, TablesTyped
  <1>4. /\ o \in Operands /\ o.offset = literals[v] /\ o.asked = v /\ o.op = "fld"
        /\ o.offset < Len(heap)
    BY <1>3 DEF Operand, Operands
  <1>5. UNCHANGED <<tables, store, image, symbol, status>>
    BY DEF OldLiteral, InBody
  <1>6. Same(heap[o.offset + 1], o.asked)
    BY <1>3, <1>4 DEF Same
  <1>7. monitor' = Recorded(o)
    BY <1>1, <1>2
  <1> HIDE DEF o
  <1> QED  BY <1>4, <1>5, <1>6, <1>7, RecordStep

(* A global variable is read and written in its own cell.                  *)
LEMMA UseGlobalStep ==
  ASSUME Inductive, NEW x \in Names, NEW op \in {"fld", "fstp"}, UseGlobal(x, op)
  PROVE  Inductive'
  <1> DEFINE o == Operand(op, x, globals[x])
  <1>1. /\ globals[x] \in DOMAIN globalOffsets /\ globals[x] \in 0 .. Len(heap) - 1
        /\ heap[globals[x] + 1] = x /\ Len(heap) \in Nat
    BY DEF UseGlobal, IsGlobal, Inductive, CellsOwned, Cells, TablesTyped
  <1>2. /\ o \in Operands /\ o.offset = globals[x] /\ o.asked = x
        /\ o.offset < Len(heap) /\ o.offset \in DOMAIN globalOffsets
    BY <1>1 DEF Operand, Operands
  <1>3. UNCHANGED <<tables, store, image, symbol, status>> /\ monitor' = Recorded(o)
    BY DEF UseGlobal, InBody
  <1>4. Same(heap[o.offset + 1], o.asked)
    BY <1>1, <1>2 DEF Same
  <1> HIDE DEF o
  <1> QED  BY <1>2, <1>3, <1>4, RecordStep


(* A function begun on a clean assembler; on another nothing moves.        *)
LEMMA EnterStep ==
  ASSUME Inductive, NEW f \in Names, NEW params \in Lists, Enter(f, params)
  PROVE  Inductive'
  <1> USE DEF Inductive
  <1>1. CASE ~Clean
    <2>1. /\ UNCHANGED <<tables, store, image, monitor, symbol>> /\ status' = "aborted"
      BY <1>1 DEF Enter, current
    <2> QED  BY <2>1, QuietStep
  <1>2. CASE Clean
    <2>1. /\ Begin(f, params) /\ UNCHANGED <<tables, store, image>>
          /\ ~IsGlobal(f) /\ ~IsFunction(f)
      BY <1>2 DEF Enter
    <2>2. params \in Seq(Names \cup {Dummy}) /\ Len(params) \in Nat
      BY NamesAssumption
    <2>3. /\ monitor'.operands = {} /\ monitor'.calls = {} /\ monitor'.arity \in Nat
          /\ DOMAIN monitor' = {"locals", "arity", "recorded", "calls", "operands"}
          /\ symbol' = f
      BY <2>1, <2>2 DEF Begin, Cleared
    <2>4. TablesTyped' /\ SymbolFresh'
      BY <2>1, <2>3 DEF TablesTyped, SymbolFresh, IsGlobal, IsFunction, tables, store
    <2>5. CellsOwned'
      BY <2>1 DEF CellsOwned, Cells, tables, store
    <2>6. Reads(<<monitor'>>, heap)
      BY <2>3 DEF Reads, ToSet
    <2>7. OperandsStand'
      BY <2>1, <2>6 DEF OperandsStand, Reads, tables, store
    <2>8. StoresReachGlobals' /\ CallsGoBack'
      BY <2>1, <2>3 DEF StoresReachGlobals, CallsGoBack, tables
    <2> QED  BY <2>4, <2>5, <2>7, <2>8
  <1> QED  BY <1>1, <1>2

(* A call adds a function that is finished.                                *)
LEMMA CallStep ==
  ASSUME Inductive, NEW f \in Names, Call(f)
  PROVE  Inductive'
  <1> USE DEF Inductive
  <1>1. /\ exports[f] \in DOMAIN functions /\ f \in DOMAIN exports
        /\ monitor' = [monitor EXCEPT !.calls = @ \cup {exports[f]}]
        /\ UNCHANGED <<tables, store, image, symbol, status>>
    BY DEF Call, IsFunction, CallsGoBack, InBody
  <1>2. exports[f] \in Nat
    BY <1>1 DEF TablesTyped
  <1>3. /\ monitor'.operands = monitor.operands /\ monitor'.arity = monitor.arity
        /\ monitor'.calls = monitor.calls \cup {exports[f]}
        /\ DOMAIN monitor' = {"locals", "arity", "recorded", "calls", "operands"}
    BY <1>1 DEF TablesTyped
  <1>4. TablesTyped' /\ SymbolFresh'
    BY <1>1, <1>2, <1>3 DEF TablesTyped, SymbolFresh, tables, store
  <1>5. CellsOwned'
    BY <1>1 DEF CellsOwned, Cells, tables, store
  <1>6. Reads(<<monitor'>>, heap)
    BY <1>3 DEF OperandsStand, Reads, ToSet
  <1>7. OperandsStand'
    BY <1>1, <1>6 DEF OperandsStand, Reads, tables, store
  <1>8. StoresReachGlobals' /\ CallsGoBack'
    BY <1>1, <1>3 DEF StoresReachGlobals, CallsGoBack, tables
  <1> QED  BY <1>4, <1>5, <1>7, <1>8

(* A finished function joins the others under a name of its own.           *)
LEMMA LeaveStep ==
  ASSUME Inductive, Leave
  PROVE  Inductive'
  <1> USE DEF Inductive
  <1> DEFINE left == [name |-> symbol, arity |-> monitor.arity,
                      calls |-> monitor.calls, operands |-> monitor.operands]
  <1>1. /\ functions' = Append(functions, left)
        /\ exports' = With(exports, symbol, Len(functions) + 1)
        /\ monitor' = Cleared /\ UNCHANGED <<heap, literals, globals, globalOffsets, image>>
        /\ status = "body" /\ status' = "idle"
    BY DEF Leave, store
  <1>2. symbol \in Names /\ symbol \notin DOMAIN exports /\ symbol \notin DOMAIN globals
    BY <1>1 DEF SymbolFresh
  <1>3. /\ left \in Functions /\ left.name = symbol
        /\ left.calls = monitor.calls /\ left.operands = monitor.operands
    BY <1>2 DEF Functions, TablesTyped
  <1> HIDE DEF left
  <1>4. /\ Len(functions) \in Nat /\ DOMAIN functions = 1 .. Len(functions)
        /\ DOMAIN functions' = 1 .. Len(functions) + 1
        /\ functions'[Len(functions) + 1] = left
        /\ \A i \in DOMAIN functions : functions'[i] = functions[i]
        /\ functions' \in Seq(Functions)
    BY <1>1, <1>3 DEF TablesTyped
  <1>5. /\ monitor'.operands = {} /\ monitor'.calls = {} /\ monitor'.arity \in Nat
        /\ DOMAIN monitor' = {"locals", "arity", "recorded", "calls", "operands"}
    BY <1>1 DEF Cleared
  <1>6. /\ DOMAIN exports' = DOMAIN exports \cup {symbol}
        /\ exports'[symbol] = Len(functions) + 1
        /\ \A f \in DOMAIN exports : exports'[f] = exports[f]
    BY <1>1, <1>2 DEF With
  <1>7. TablesTyped' /\ SymbolFresh'
    <2>1. \A f \in DOMAIN exports' : exports'[f] \in Nat
      BY <1>4, <1>6 DEF TablesTyped
    <2> QED  BY <1>1, <1>4, <1>5, <2>1 DEF TablesTyped, SymbolFresh
  <1>8. CellsOwned'
    BY <1>1 DEF CellsOwned, Cells
  <1>9. Reads(<<left>>, heap)
    BY <1>3 DEF OperandsStand, Reads, ToSet
  <1>10. Reads(functions', heap')
    BY <1>1, <1>3, <1>9, ReadsOfMore DEF OperandsStand, TablesTyped
  <1>11. Reads(<<monitor'>>, heap')
    BY <1>5 DEF Reads, ToSet
  <1>12. OperandsStand'
    BY <1>1, <1>10, <1>11 DEF OperandsStand
  <1>13. StoresReachGlobals'
    <2>1. ToSet(functions') = ToSet(functions) \cup {left}
      BY <1>1, <1>3, ElementsOfLonger DEF TablesTyped
    <2> QED  BY <1>1, <1>3, <1>5, <2>1 DEF StoresReachGlobals
  <1>14. CallsGoBack'
    <2>1. /\ left.calls \subseteq 1 .. Len(functions)
      BY <1>3, <1>4 DEF CallsGoBack
    <2>2. \A i \in DOMAIN functions' :
            /\ functions'[i].calls \subseteq 1 .. i - 1
            /\ functions'[i].name \in DOMAIN exports' /\ exports'[functions'[i].name] = i
      <3> SUFFICES ASSUME NEW i \in DOMAIN functions'
                   PROVE  /\ functions'[i].calls \subseteq 1 .. i - 1
                          /\ functions'[i].name \in DOMAIN exports'
                          /\ exports'[functions'[i].name] = i
        OBVIOUS
      <3>1. CASE i \in DOMAIN functions
        BY <1>4, <1>6, <3>1 DEF CallsGoBack
      <3>2. CASE i = Len(functions) + 1
        BY <1>3, <1>4, <1>6, <2>1, <3>2
      <3> QED  BY <1>4, <3>1, <3>2
    <2>3. \A f \in DOMAIN exports' : exports'[f] \in DOMAIN functions'
      BY <1>4, <1>6 DEF CallsGoBack
    <2> QED  BY <1>1, <1>2, <1>5, <1>6, <2>2, <2>3 DEF CallsGoBack
  <1> QED  BY <1>7, <1>8, <1>12, <1>13, <1>14


(* clear() forgets the operands together with the cells they are in.       *)
LEMMA ClearStep ==
  ASSUME Inductive, Clear
  PROVE  Inductive'
  <1> USE DEF Inductive
  <1>1. /\ heap' = <<>> /\ literals' = NoMap /\ globals' = NoMap /\ globalOffsets' = NoMap
        /\ functions' = <<>> /\ exports' = NoMap /\ monitor' = Cleared
        /\ UNCHANGED <<image, status>> /\ status = "idle"
    BY DEF Clear, Forgotten
  <1>2. /\ DOMAIN NoMap = {} /\ Cleared.operands = {} /\ Cleared.calls = {}
        /\ Cleared.arity \in Nat
        /\ DOMAIN Cleared = {"locals", "arity", "recorded", "calls", "operands"}
    BY DEF NoMap, Cleared
  <1>3. TablesTyped' /\ SymbolFresh'
    BY <1>1, <1>2 DEF TablesTyped, SymbolFresh
  <1>4. CellsOwned'
    BY <1>1, <1>2 DEF CellsOwned, Cells
  <1>5. OperandsStand'
    BY <1>1, <1>2 DEF OperandsStand, Reads, ToSet
  <1>6. StoresReachGlobals' /\ CallsGoBack'
    BY <1>1, <1>2 DEF StoresReachGlobals, CallsGoBack, ToSet
  <1> QED  BY <1>3, <1>4, <1>5, <1>6

(* Translated code takes a copy of the heap as it now is.                  *)
LEMMA TranslateStep ==
  ASSUME Inductive, Translate
  PROVE  Inductive'
  <1> USE DEF Inductive
  <1>1. /\ image' = [functions |-> functions, heap |-> heap]
        /\ UNCHANGED <<tables, store, monitor, symbol, status>>
    BY DEF Translate, current
  <1>2. image'.functions = functions /\ image'.heap = heap
    BY <1>1
  <1>3. TablesTyped' /\ SymbolFresh'
    BY <1>1, <1>2 DEF TablesTyped, SymbolFresh, tables, store
  <1>4. CellsOwned'
    BY <1>1 DEF CellsOwned, Cells, tables, store
  <1>5. OperandsStand'
    BY <1>1, <1>2 DEF OperandsStand, Reads, tables, store
  <1>6. StoresReachGlobals' /\ CallsGoBack'
    BY <1>1 DEF StoresReachGlobals, CallsGoBack, tables
  <1> QED  BY <1>3, <1>4, <1>5, <1>6

(* Every operation of the assembler keeps tables, heap and recorded         *)
(* operands in agreement.                                                  *)
THEOREM NextInductive ==
  ASSUME ProperLiterals, Inductive, [SymbolsNext]_symbolsVars
  PROVE  Inductive'
  <1>1. CASE UNCHANGED symbolsVars
    BY <1>1, QuietStep DEF symbolsVars, current
  <1>2. ASSUME NEW x \in Names, AddGlobal(x) PROVE Inductive'
    BY <1>2, AddGlobalStep
  <1>3. ASSUME NEW f \in Names, NEW params \in Lists, Enter(f, params) PROVE Inductive'
    BY <1>3, EnterStep
  <1>4. ASSUME NEW f \in Names \cup {Dummy}, EnterRefused(f) PROVE Inductive'
    BY <1>4, QuietStep DEF EnterRefused, current
  <1>5. CASE Bra
    BY <1>5, QuietStep DEF Bra, InBody
  <1>6. CASE Ket
    BY <1>6, QuietStep DEF Ket, InBody
  <1>7. CASE UseDummy
    BY <1>7, QuietStep DEF UseDummy, InBody
  <1>8. CASE Refuse
    BY <1>8, QuietStep DEF Refuse, current
  <1>9. CASE Leave
    BY <1>9, LeaveStep
  <1>10. CASE Clear
    BY <1>10, ClearStep
  <1>11. CASE Translate
    BY <1>11, TranslateStep
  <1>12. ASSUME NEW x \in Names, Alloca(x) PROVE Inductive'
    BY <1>12, QuietStep DEF Alloca, InBody
  <1>13. ASSUME NEW x \in Names, UseLocal(x) PROVE Inductive'
    BY <1>13, QuietStep DEF UseLocal, InBody
  <1>14. ASSUME NEW x \in Names, NEW op \in {"fld", "fstp"}, UseGlobal(x, op) PROVE Inductive'
    BY <1>14, UseGlobalStep
  <1>15. ASSUME NEW v \in Literals, UseConstant(v) PROVE Inductive'
    BY <1>15, QuietStep DEF UseConstant, InBody
  <1>16. ASSUME NEW v \in Literals, NewLiteral(v) PROVE Inductive'
    BY <1>16, NewLiteralStep
  <1>17. ASSUME NEW v \in Literals, OldLiteral(v) PROVE Inductive'
    BY <1>17, OldLiteralStep
  <1>18. ASSUME NEW f \in Names, Call(f) PROVE Inductive'
    BY <1>18, CallStep
  <1> QED
    BY <1>1, <1>2, <1>3, <1>4, <1>5, <1>6, <1>7, <1>8, <1>9, <1>10, <1>11, <1>12,
       <1>13, <1>14, <1>15, <1>16, <1>17, <1>18 DEF SymbolsNext

(* In every reachable state the heap's cells have one owner each, every    *)
(* operand of finished and of translated code lies where the text says,    *)
(* stores reach global variables only, and calls go back only.             *)
THEOREM SymbolsCorrect ==
  ASSUME ProperLiterals
  PROVE  SymbolsSpec => [](CellsOwned /\ OperandsStand /\ StoresReachGlobals /\ CallsGoBack)
  <1>1. SymbolsInit => Inductive
    BY InitInductive
  <1>2. Inductive /\ [SymbolsNext]_symbolsVars => Inductive'
    BY NextInductive
  <1>3. Inductive => CellsOwned /\ OperandsStand /\ StoresReachGlobals /\ CallsGoBack
    BY DEF Inductive
  <1> QED  BY <1>1, <1>2, <1>3, PTL DEF SymbolsSpec

-----------------------------------------------------------------------------
(* Each part of it on its own.                                             *)

(* A cell of the heap has one owner: a global variable or a literal.       *)
THEOREM CellsHaveOwners ==
  ASSUME ProperLiterals
  PROVE  SymbolsSpec => []CellsOwned
  BY SymbolsCorrect, PTL

(* Operands of finished, current and translated code stay where they were  *)
(* when they were recorded.                                                *)
THEOREM OperandsKeepCells ==
  ASSUME ProperLiterals
  PROVE  SymbolsSpec => []OperandsStand
  BY SymbolsCorrect, PTL

(* No store of compiled code reaches the cell of a literal.                *)
THEOREM LiteralsAreReadOnly ==
  ASSUME ProperLiterals
  PROVE  SymbolsSpec => []StoresReachGlobals
  BY SymbolsCorrect, PTL

(* Functions call only functions finished before them.                     *)
THEOREM NoRecursion ==
  ASSUME ProperLiterals
  PROVE  SymbolsSpec => []CallsGoBack
  BY SymbolsCorrect, PTL

-----------------------------------------------------------------------------
(* The scopes: local_variables_ and brackets_.                             *)

(* Types of the scopes.  A function that has begun is recorded, and only   *)
(* then are there brackets, also after it was refused.                     *)
ScopesTyped ==
  /\ DOMAIN literals \subseteq Literals \ {0, 1, NegZero} /\ DOMAIN exports \subseteq Names
  /\ locals \in Seq(Names \cup {Dummy}) /\ brackets \in Seq(Nat)
  /\ \A i \in DOMAIN brackets : brackets[i] <= Len(locals)
  /\ symbol \in Names \cup {NoName} /\ status \in {"idle", "body", "aborted"}
  /\ declared \in Nat /\ monitor.locals \in Nat
  /\ status = "body" => monitor.recorded = TRUE
  /\ monitor.recorded # TRUE => brackets = <<>>

Scopes == ScopesTyped /\ NamesFollowMonitor

(* Steps that leave the scopes alone, or are no step at all.               *)
LEMMA ScopesQuiet ==
  ASSUME Scopes, UNCHANGED <<symbol, locals, brackets, declared>>,
         monitor'.locals = monitor.locals, monitor'.arity = monitor.arity,
         monitor'.recorded = monitor.recorded,
         DOMAIN literals' \subseteq Literals \ {0, 1, NegZero}, DOMAIN exports' \subseteq Names,
         status' = status \/ status' \in {"idle", "aborted"}
  PROVE  Scopes'
  BY DEF Scopes, ScopesTyped, NamesFollowMonitor

(* Actions that only record an operand or a callee, or none.               *)
LEMMA ScopesUse ==
  ASSUME Inductive, Scopes
  PROVE  /\ \A x \in Names : AddGlobal(x) \/ UseLocal(x) => Scopes'
         /\ \A x \in Names, op \in {"fld", "fstp"} : UseGlobal(x, op) => Scopes'
         /\ \A f \in Names : Call(f) => Scopes'
         /\ \A f \in Names \cup {Dummy} : EnterRefused(f) => Scopes'
         /\ \A v \in Literals : UseConstant(v) \/ NewLiteral(v) \/ OldLiteral(v) => Scopes'
         /\ UseDummy \/ Refuse \/ Translate => Scopes'
<1> USE DEF Inductive, TablesTyped
<1>1. ASSUME NEW x \in Names, AddGlobal(x) \/ UseLocal(x) PROVE Scopes'
  BY <1>1, ScopesQuiet DEF AddGlobal, UseLocal, InBody, Scopes, ScopesTyped, current, store, tables
<1>2. ASSUME NEW x \in Names, NEW op \in {"fld", "fstp"}, UseGlobal(x, op) PROVE Scopes'
  BY <1>2, ScopesQuiet DEF UseGlobal, InBody, Recorded, Scopes, ScopesTyped, store, tables
<1>3. ASSUME NEW f \in Names, Call(f) PROVE Scopes'
  BY <1>3, ScopesQuiet DEF Call, InBody, Scopes, ScopesTyped, store, tables
<1>4. ASSUME NEW f \in Names \cup {Dummy}, EnterRefused(f) PROVE Scopes'
  BY <1>4, ScopesQuiet DEF EnterRefused, current, Scopes, ScopesTyped, store, tables
<1>5. ASSUME NEW v \in Literals, UseConstant(v) \/ OldLiteral(v) PROVE Scopes'
  BY <1>5, ScopesQuiet DEF UseConstant, OldLiteral, InBody, Recorded, Scopes, ScopesTyped, store, tables
<1>6. ASSUME NEW v \in Literals, NewLiteral(v) PROVE Scopes'
  BY <1>6, ScopesQuiet DEF NewLiteral, InBody, Recorded, Scopes, ScopesTyped, IsZero, With, tables
<1>7. CASE UseDummy \/ Refuse \/ Translate
  BY <1>7, ScopesQuiet DEF UseDummy, Refuse, Translate, InBody, Scopes, ScopesTyped, store, current, tables
<1> QED  BY <1>1, <1>2, <1>3, <1>4, <1>5, <1>6, <1>7

(* enter declares the parameters: one bracket, around all of them.         *)
LEMMA ScopesEnter ==
  ASSUME Inductive, Scopes, NEW f \in Names, NEW params \in Lists, Enter(f, params)
  PROVE  Scopes'
<1>1. params \in Seq(Names \cup {Dummy}) /\ Len(params) \in Nat
  BY NamesAssumption
<1>2. CASE Clean
  <2>1. brackets = <<>>
    BY <1>2 DEF Clean, Scopes, ScopesTyped
  <2>2. /\ brackets' = <<Len(params)>> /\ locals' = params /\ status' = "body"
        /\ symbol' = f /\ declared' = Len(params) /\ UNCHANGED <<literals, exports>>
        /\ monitor' = [Cleared EXCEPT !.locals = Len(params), !.arity = Len(params),
                                      !.recorded = TRUE]
    BY <1>1, <1>2, <2>1 DEF Enter, Begin, store, tables
  <2>3. monitor'.locals = Len(params) /\ monitor'.arity = Len(params) /\ monitor'.recorded = TRUE
    BY <2>2 DEF Cleared
  <2>4. ScopesTyped'
    BY <1>1, <2>2, <2>3 DEF Scopes, ScopesTyped
  <2>5. NamesFollowMonitor'
    BY <1>1, <2>2, <2>3 DEF NamesFollowMonitor, Last
  <2> QED  BY <2>4, <2>5 DEF Scopes
<1>3. CASE ~ Clean
  BY <1>3, ScopesQuiet DEF Enter, current, store, tables, Scopes, ScopesTyped
<1> QED  BY <1>2, <1>3

(* bra remembers how many locals there are.                                *)
LEMMA ScopesBra ==
  ASSUME Inductive, Scopes, Bra
  PROVE  Scopes'
<1>1. /\ brackets' = Append(brackets, Len(locals)) /\ UNCHANGED <<locals, monitor, symbol, declared, status, literals, exports>>
      /\ status = "body" /\ Len(locals) \in Nat /\ brackets \in Seq(Nat) /\ brackets # <<>>
  BY DEF Bra, InBody, store, tables, Scopes, ScopesTyped, NamesFollowMonitor
<1>2. /\ DOMAIN brackets' = 1 .. Len(brackets) + 1 /\ Len(brackets) \in Nat \ {0}
      /\ \A i \in 1 .. Len(brackets) : brackets'[i] = brackets[i]
      /\ brackets'[Len(brackets) + 1] = Len(locals) /\ Last(brackets') = Len(locals)
      /\ brackets' \in Seq(Nat) /\ brackets' # <<>>
  BY <1>1 DEF Last
<1>3. ScopesTyped'
  <2>1. \A i \in DOMAIN brackets' : brackets'[i] <= Len(locals')
    BY <1>1, <1>2 DEF Scopes, ScopesTyped
  <2> QED  BY <1>1, <1>2, <2>1 DEF Scopes, ScopesTyped
<1>4. NamesFollowMonitor'
  BY <1>1, <1>2 DEF Scopes, ScopesTyped, NamesFollowMonitor
<1> QED  BY <1>3, <1>4 DEF Scopes

(* ket drops the locals of the block, and its bracket.                     *)
LEMMA ScopesKet ==
  ASSUME Inductive, Scopes, Ket
  PROVE  Scopes'
<1> DEFINE n == Len(brackets)
<1>1. /\ brackets' = SubSeq(brackets, 1, n - 1) /\ locals' = SubSeq(locals, 1, brackets[n])
      /\ monitor' = [monitor EXCEPT !.locals = @ - (Len(locals) - brackets[n])]
      /\ status = "body" /\ n > 1
      /\ UNCHANGED <<symbol, declared, status, literals, exports>>
  BY DEF Ket, Outside, InBody, store, tables, Front, Last
<1>2. /\ locals \in Seq(Names \cup {Dummy}) /\ brackets \in Seq(Nat)
      /\ DOMAIN brackets = 1 .. n /\ n \in Nat /\ Len(locals) \in Nat
      /\ \A i \in 1 .. n : brackets[i] \in 0 .. Len(locals)
  <2>1. locals \in Seq(Names \cup {Dummy}) /\ brackets \in Seq(Nat)
        /\ \A i \in DOMAIN brackets : brackets[i] <= Len(locals)
    BY DEF Scopes, ScopesTyped
  <2>2. DOMAIN brackets = 1 .. n /\ n \in Nat /\ Len(locals) \in Nat
    BY <2>1
  <2>3. \A i \in 1 .. n : brackets[i] \in Nat
    BY <2>1, <2>2
  <2> QED  BY <2>1, <2>2, <2>3
<1>3. /\ monitor.locals = Len(locals) /\ brackets[1] = monitor.arity
      /\ \A i, j \in 1 .. n : i <= j => brackets[i] <= brackets[j]
  BY <1>1, <1>2 DEF Scopes, NamesFollowMonitor
<1>4. /\ brackets' \in Seq(Nat) /\ Len(brackets') = n - 1 /\ DOMAIN brackets' = 1 .. n - 1
      /\ \A i \in 1 .. n - 1 : brackets'[i] = brackets[i]
  BY <1>1, <1>2
<1>0. n \in Nat /\ n > 1
  BY <1>1, <1>2
<1> HIDE DEF n
<1>5. locals' \in Seq(Names \cup {Dummy}) /\ Len(locals') = brackets[n] /\ brackets[n] \in Nat
  <2>1. brackets[n] \in 0 .. Len(locals)
    <3>1. n \in 1 .. n
      BY <1>0
    <3> QED  BY <1>2, <3>1
  <2> DEFINE b == brackets[n]
  <2>2. /\ locals' = SubSeq(locals, 1, b) /\ b \in 0 .. Len(locals)
        /\ locals \in Seq(Names \cup {Dummy}) /\ Len(locals) \in Nat
    <3>1. locals' = SubSeq(locals, 1, b)
      BY <1>1 DEF b
    <3>2. b \in 0 .. Len(locals)
      BY <2>1 DEF b
    <3> QED  BY <3>1, <3>2, <1>2
  <2> HIDE DEF b
  <2>3. locals' \in Seq(Names \cup {Dummy}) /\ Len(locals') = b /\ b \in Nat
    BY <2>2
  <2> QED  BY <2>3 DEF b
<1>6. /\ monitor'.locals = brackets[n] /\ monitor'.arity = monitor.arity
      /\ monitor'.recorded = monitor.recorded
  BY <1>1, <1>2, <1>3, <1>5 DEF Inductive, TablesTyped
<1>7. /\ \A i \in 1 .. n - 1 : brackets'[i] <= Len(locals')
      /\ \A i, j \in 1 .. n - 1 : i <= j => brackets'[i] <= brackets'[j]
  <2>1. n \in 1 .. n /\ \A i \in 1 .. n - 1 : i \in 1 .. n /\ i <= n
    BY <1>0
  <2>2. \A i \in 1 .. n - 1 : brackets[i] <= brackets[n]
    BY <1>3, <2>1
  <2>3. \A i \in 1 .. n - 1 : brackets'[i] <= Len(locals')
    BY <1>4, <1>5, <2>2
  <2>4. \A i, j \in 1 .. n - 1 : i <= j => brackets'[i] <= brackets'[j]
    <3> SUFFICES ASSUME NEW i \in 1 .. n - 1, NEW j \in 1 .. n - 1, i <= j
                 PROVE  brackets'[i] <= brackets'[j]
      OBVIOUS
    <3>1. brackets[i] <= brackets[j]
      BY <1>3, <2>1
    <3> QED  BY <1>4, <3>1
  <2> QED  BY <2>3, <2>4
<1>8. ScopesTyped'
  BY <1>1, <1>4, <1>5, <1>6, <1>7 DEF Scopes, ScopesTyped
<1>9. NamesFollowMonitor'
  <2>2. n - 1 \in 1 .. n - 1 /\ 1 \in 1 .. n - 1 /\ n - 1 # 0
    BY <1>0
  <2>1. brackets' # <<>> /\ brackets'[1] = brackets[1] /\ Last(brackets') = brackets'[n - 1]
    BY <1>4, <2>2 DEF Last
  <2> QED  BY <1>3, <1>4, <1>5, <1>6, <1>7, <2>1, <2>2 DEF NamesFollowMonitor
<1> QED  BY <1>8, <1>9 DEF Scopes

(* alloca_ adds a local to the innermost block.                            *)
LEMMA ScopesAlloca ==
  ASSUME Inductive, Scopes, NEW x \in Names, Alloca(x)
  PROVE  Scopes'
<1>1. /\ locals' = Append(locals, x) /\ declared' = declared + 1 /\ status = "body"
      /\ monitor' = [monitor EXCEPT !.locals = @ + 1]
      /\ UNCHANGED <<brackets, symbol, status, literals, exports>>
  BY DEF Alloca, InBody, store, tables
<1>2. /\ locals \in Seq(Names \cup {Dummy}) /\ Len(locals) \in Nat
      /\ brackets \in Seq(Nat) /\ DOMAIN brackets = 1 .. Len(brackets)
      /\ \A i \in DOMAIN brackets : brackets[i] \in Nat /\ brackets[i] <= Len(locals)
      /\ monitor.locals = Len(locals) /\ Last(brackets) <= Len(locals)
      /\ brackets # <<>> /\ Last(brackets) \in Nat
  BY <1>1 DEF Scopes, ScopesTyped, NamesFollowMonitor, Last
<1>3. locals' \in Seq(Names \cup {Dummy}) /\ Len(locals') = Len(locals) + 1
  BY <1>1, <1>2
<1>4. /\ monitor'.locals = Len(locals) + 1 /\ monitor'.arity = monitor.arity
      /\ monitor'.recorded = monitor.recorded
  BY <1>1, <1>2 DEF Inductive, TablesTyped
<1>5. \A i \in DOMAIN brackets : brackets[i] <= Len(locals')
  BY <1>2, <1>3
<1>6. ScopesTyped'
  <2>1. declared' \in Nat /\ monitor'.locals \in Nat
    BY <1>1, <1>2, <1>4 DEF Scopes, ScopesTyped
  <2> QED  BY <1>1, <1>2, <1>3, <1>4, <1>5, <2>1 DEF Scopes, ScopesTyped
<1>7. NamesFollowMonitor'
  BY <1>1, <1>2, <1>3, <1>4 DEF Scopes, NamesFollowMonitor
<1> QED  BY <1>6, <1>7 DEF Scopes

(* A finished function leaves no scopes, and neither does clear().         *)
LEMMA ScopesEnd ==
  ASSUME Inductive, Scopes, Leave \/ Clear
  PROVE  Scopes'
<1>1. /\ symbol' = NoName /\ locals' = <<>> /\ brackets' = <<>> /\ monitor' = Cleared
      /\ declared' = 0 /\ status' = "idle"
  BY DEF Leave, Clear, Forgotten
<1>2. DOMAIN literals' \subseteq Literals \ {0, 1, NegZero} /\ DOMAIN exports' \subseteq Names
  BY DEF Leave, Clear, Forgotten, NoMap, store, With, Scopes, ScopesTyped, Inductive, SymbolFresh
<1>3. monitor'.locals = 0
  BY <1>1 DEF Cleared
<1>4. ScopesTyped'
  BY <1>1, <1>2, <1>3 DEF ScopesTyped
<1>5. NamesFollowMonitor'
  BY <1>1 DEF NamesFollowMonitor
<1> QED  BY <1>4, <1>5 DEF Scopes

LEMMA ScopesNext ==
  ASSUME Inductive, Scopes, [SymbolsNext]_symbolsVars
  PROVE  Scopes'
<1>1. CASE UNCHANGED symbolsVars
  BY <1>1, ScopesQuiet DEF symbolsVars, current, store, tables, Scopes, ScopesTyped
<1>2. CASE SymbolsNext
  BY <1>2, ScopesUse, ScopesEnter, ScopesBra, ScopesKet, ScopesAlloca, ScopesEnd DEF SymbolsNext
<1> QED  BY <1>1, <1>2

(* The scopes are well-formed throughout: every block remembers how many   *)
(* locals there were before it, and assembler and monitor agree on them.   *)
THEOREM ScopesHold ==
  ASSUME ProperLiterals
  PROVE  SymbolsSpec => []Scopes
<1>1. SymbolsInit => Scopes
  BY DEF SymbolsInit, Cleared, NoMap, Scopes, ScopesTyped, NamesFollowMonitor
<1>2. Inductive /\ Scopes /\ [SymbolsNext]_symbolsVars => Inductive' /\ Scopes'
  BY NextInductive, ScopesNext
<1>3. SymbolsInit => Inductive
  BY InitInductive
<1> QED  BY <1>1, <1>2, <1>3, PTL DEF SymbolsSpec

(* monitor and assembler count the same locals, and brackets nest.         *)
THEOREM AssemblerFollowsMonitor ==
  ASSUME ProperLiterals
  PROVE  SymbolsSpec => []NamesFollowMonitor
<1>1. Scopes => NamesFollowMonitor
  BY DEF Scopes
<1> QED  BY <1>1, ScopesHold, PTL

(* Tables, scopes and recorded functions have their types.                 *)
THEOREM SymbolsTyped ==
  ASSUME ProperLiterals
  PROVE  SymbolsSpec => []SymbolsTypeOK
<1>1. Inductive /\ Scopes => SymbolsTypeOK
  <2> SUFFICES ASSUME Inductive, Scopes PROVE SymbolsTypeOK
    OBVIOUS
  <2>1. \A fs \in Seq(Functions) : FunctionState(fs)
    <3> SUFFICES ASSUME NEW fs \in Seq(Functions), NEW f \in ToSet(fs)
                 PROVE  /\ f.name \in Names /\ f.calls \subseteq Nat /\ f.arity \in Nat
                        /\ \A o \in f.operands : o.offset \in Nat
      BY DEF FunctionState
    <3>1. f \in Functions
      BY ElementsOfSequence
    <3> QED  BY <3>1 DEF Functions, Operands
  <2>2. FunctionState(functions) /\ FunctionState(image.functions)
    BY <2>1 DEF Inductive, TablesTyped
  <2>3. \A i \in DOMAIN brackets : brackets[i] \in 0 .. Len(locals)
    BY DEF Scopes, ScopesTyped
  <2> QED  BY <2>2, <2>3 DEF Inductive, TablesTyped, Scopes, ScopesTyped, SymbolsTypeOK
<1>2. SymbolsInit => Inductive
  BY InitInductive
<1>3. Inductive /\ [SymbolsNext]_symbolsVars => Inductive'
  BY NextInductive
<1> QED  BY <1>1, <1>2, <1>3, ScopesHold, PTL DEF SymbolsSpec

=============================================================================
