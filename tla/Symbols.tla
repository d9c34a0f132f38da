-------------------------------- MODULE Symbols --------------------------------
(***************************************************************************)
(* The names and the heap of assembler: which declaration a name reaches,  *)
(* where literals and global variables live, what stays of a compilation   *)
(* that was refused, and the copy of the heap that translated code works   *)
(* with.  What the instructions do to registers is left to Monitor.        *)
(***************************************************************************)
EXTENDS Integers, Sequences, FiniteSets, SequencesExt

CONSTANTS
  Names,            (* Identifiers, none of them a reserved word.          *)
  Dummy,            (* dummy_placeholder_: "_"                             *)
  Numbers,          (* Literals that are integers, 0 and 1 among them.     *)
  NegZero,          (* -0.0                                                *)
  NaN,              (* Not a number, which real_parser accepts too.        *)
  Literals,         (* The literals of the program.                        *)
  Lists,            (* The parameter lists functions may have.             *)
  MaxFunctions,     (* Bound: finished functions.                          *)
  MaxDeclarations,  (* Bound: declarations in a function.                  *)
  MaxBrackets,      (* Bound: open brackets.                               *)
  MaxHeap           (* Bound: cells of the heap.                           *)

ASSUME NamesAssumption ==
  /\ Dummy \notin Names
  /\ Numbers \subseteq Int /\ Literals \subseteq Numbers \cup {NegZero, NaN}
  /\ {NegZero, NaN} \cap Numbers = {} /\ Literals \cap Names = {}
  /\ Lists \subseteq Seq(Names \cup {Dummy})

VARIABLES
  functions,     (* functions_: name, arity, callies_, operands on the heap *)
  exports,       (* export_table_: name -> index in functions_             *)
  heap,          (* heap_: for each cell the literal or the name it is for *)
  literals,      (* literals_: literal -> offset                           *)
  globals,       (* global_varibles_: name -> offset                       *)
  globalOffsets, (* global_offsets_: offset -> name                        *)
  symbol,        (* symbol_                                                *)
  locals,        (* local_variables_                                       *)
  brackets,      (* brackets_                                              *)
  monitor,       (* Of monitor_ and its function_, what concerns names.    *)
  image,         (* instance: the functions translated, and their heap_.   *)
  status,        (* "idle", "body": in compile; "aborted": assertion.      *)
  frame,         (* The declaration whose value each slot of the frame has. *)
  declared,      (* Number of declarations in the function so far.         *)
  found          (* What the last operand named is read from.              *)

tables  == <<functions, exports, globals, globalOffsets>>
store   == <<heap, literals>>
current == <<symbol, locals, brackets, monitor, frame, declared>>
symbolsVars == <<tables, store, current, image, status, found>>

NoName  == "none"
Nothing == <<"nothing">>
NoMap   == [x \in {} |-> 0]

Variable(d) == <<"variable", d>>
Global(x)   == <<"global", x>>
Literal(v)  == <<"literal", v>>
Callee(f)   == <<"callee", f>>

(* map::emplace of a key that is not there                                 *)
With(map, key, value) == [k \in DOMAIN map \cup {key} |->
                            IF k = key THEN value ELSE map[k]]

(* function_ as clear() leaves it, and as leave() does by moving it out.   *)
Cleared == [locals |-> 0, arity |-> 0, recorded |-> FALSE, calls |-> {}, operands |-> {}]

-----------------------------------------------------------------------------
(* Look-ups.                                                               *)

IsFunction(x) == x \in DOMAIN exports
IsGlobal(x)   == x \in DOMAIN globals
IsLocal(x)    == x \in ToSet(locals)

(* is_top_level_local_variable                                             *)
IsTopLevel(x) == x \in ToSet(SubSeq(locals, Last(brackets) + 1, Len(locals)))

MutantLocalOffset(x) ==
  (CHOOSE i \in DOMAIN locals : locals[i] = x /\ \A j \in 1 .. i - 1 : locals[j] # x) - 1

(* local_variable_offset searches from the newest to the oldest.           *)
LocalOffset(x) ==
  (CHOOSE i \in DOMAIN locals :
     locals[i] = x /\ \A j \in i + 1 .. Len(locals) : locals[j] # x) - 1

IsZero(v) == v \in {0, NegZero}
Same(v, w) == v = w \/ {v, w} \subseteq {0, NegZero}

MutantMatches(v) ==
  LET above == {w \in DOMAIN literals : v <= w}
  IN  {w \in above : \A u \in above : w <= u}
(* literals_.find: std::less says of NaN and any number that neither is    *)
(* less, which makes them the same key.  Keys a find meets this way are    *)
(* those it comes to by going left.                                        *)
Matches(v) ==
  {w \in DOMAIN literals :
     \/ w = v \/ w = NaN
     \/ v = NaN /\ \A u \in DOMAIN literals : w <= u}

-----------------------------------------------------------------------------
SymbolsInit ==
  /\ functions = <<>> /\ exports = NoMap
  /\ heap = <<>> /\ literals = NoMap /\ globals = NoMap /\ globalOffsets = NoMap
  /\ symbol = NoName /\ locals = <<>> /\ brackets = <<>> /\ monitor = Cleared
  /\ image = [functions |-> <<>>, heap |-> <<>>]
  /\ status = "idle" /\ frame = <<>> /\ declared = 0 /\ found = Nothing

MutantAddGlobal(x) ==
  /\ status = "idle" /\ Len(heap) < MaxHeap
  /\ ~IsGlobal(x) /\ ~IsFunction(x)
  /\ globals' = With(globals, x, Len(heap))
  /\ globalOffsets' = With(globalOffsets, Len(heap) + 1, x)
  /\ heap' = Append(heap, x)
  /\ found' = Nothing
  /\ UNCHANGED <<functions, exports, literals, current, image, status>>
(* add_global_variable, when its assertions hold: callers ask first.       *)
AddGlobal(x) ==
  /\ status = "idle" /\ Len(heap) < MaxHeap
  /\ ~IsGlobal(x) /\ ~IsFunction(x)
  /\ globals' = With(globals, x, Len(heap))
  /\ globalOffsets' = With(globalOffsets, Len(heap), x)
  /\ heap' = Append(heap, x)
  /\ found' = Nothing
  /\ UNCHANGED <<functions, exports, literals, current, image, status>>

(* enter and the bra that compile(entry_definition) requests next.         *)
Begin(f, params) ==
  /\ symbol' = f /\ locals' = params /\ status' = "body"
  /\ brackets' = Append(brackets, Len(params))
  /\ monitor' = [Cleared EXCEPT !.locals = Len(params), !.arity = Len(params),
                                !.recorded = TRUE]
  /\ frame' = [i \in 1 .. Len(params) |-> i] /\ declared' = Len(params)

MutantClean == locals = <<>>
(* The assertions of enter: local_variables_ and function_ are empty.      *)
Clean == locals = <<>> /\ ~monitor.recorded

Enter(f, params) ==
  /\ status = "idle" /\ Len(functions) < MaxFunctions
  /\ ~IsGlobal(f) /\ ~IsFunction(f)
  /\ IF Clean THEN Begin(f, params)
              ELSE status' = "aborted" /\ UNCHANGED current
  /\ found' = Nothing /\ UNCHANGED <<tables, store, image>>

EnterRefused(f) ==
  /\ status = "idle" /\ (f = Dummy \/ IsGlobal(f) \/ IsFunction(f))
  /\ found' = Nothing /\ UNCHANGED <<tables, store, current, image, status>>

InBody == status = "body" /\ UNCHANGED <<tables, image, status, symbol>>

Bra == /\ InBody /\ Len(brackets) < MaxBrackets
       /\ brackets' = Append(brackets, Len(locals))
       /\ found' = Nothing /\ UNCHANGED <<store, locals, monitor, frame, declared>>

MutantOutside == brackets' = Front(brackets) /\ UNCHANGED locals
MutantOutsideShort ==
  /\ brackets' = Front(brackets)
  /\ locals' = SubSeq(locals, 1, Last(brackets) - 1)
(* ket in filter_brackets: the locals of the block are dropped.            *)
Outside == /\ brackets' = Front(brackets)
           /\ locals' = SubSeq(locals, 1, Last(brackets))

Ket == /\ InBody /\ Len(brackets) > 1
       /\ Outside
       /\ monitor' = [monitor EXCEPT !.locals = @ - (Len(locals) - Last(brackets))]
       /\ found' = Nothing /\ UNCHANGED <<store, frame, declared>>

(* alloca_ in resolve_symbol: the slot is the number of locals, and what    *)
(* the frame held there is overwritten.                                    *)
Alloca(x) ==
  LET offset == Len(locals)
  IN  /\ InBody /\ declared < MaxDeclarations
      /\ ~IsTopLevel(x)
      /\ locals' = Append(locals, x) /\ declared' = declared + 1
      /\ monitor' = [monitor EXCEPT !.locals = @ + 1]
      /\ frame' = SubSeq(frame, 1, offset) \o <<declared'>>
                  \o SubSeq(frame, offset + 2, Len(frame))
      /\ found' = Nothing /\ UNCHANGED <<store, brackets>>

(* alloca_, fstp or fld of "_": a value dropped, or zero.                   *)
UseDummy == InBody /\ found' = Nothing /\ UNCHANGED <<store, locals, brackets, monitor, frame, declared>>

Operand(op, asked, offset) == [op |-> op, asked |-> asked, offset |-> offset]
Recorded(operand) == [monitor EXCEPT !.operands = @ \cup {operand}]

(* memory_rw_access: local variables before global ones.                   *)
UseLocal(x) ==
  /\ InBody /\ IsLocal(x)
  /\ found' = Variable(frame[LocalOffset(x) + 1])
  /\ UNCHANGED <<store, locals, brackets, monitor, frame, declared>>

UseGlobal(x, op) ==
  /\ InBody /\ ~IsLocal(x) /\ IsGlobal(x)
  /\ found' = Global(heap[globals[x] + 1])
  /\ monitor' = Recorded(Operand(op, x, globals[x]))
  /\ UNCHANGED <<store, locals, brackets, frame, declared>>

(* resolve_literal: fldz and fld1 need no cell.                            *)
UseConstant(v) ==
  /\ InBody /\ (IsZero(v) \/ v = 1)
  /\ found' = Literal(IF IsZero(v) THEN 0 ELSE 1)
  /\ UNCHANGED <<store, locals, brackets, monitor, frame, declared>>

(* resolve_literal and literal_offset                                      *)
NewLiteral(v) ==
  /\ InBody /\ ~IsZero(v) /\ v # 1
  /\ Matches(v) = {} /\ Len(heap) < MaxHeap
  /\ literals' = With(literals, v, Len(heap))
  /\ heap' = Append(heap, v)
  /\ found' = Literal(v)
  /\ monitor' = Recorded(Operand("fld", v, Len(heap)))
  /\ UNCHANGED <<locals, brackets, frame, declared>>

OldLiteral(v) ==
  /\ InBody /\ ~IsZero(v) /\ v # 1
  /\ \E w \in Matches(v) :
       /\ found' = Literal(heap[literals[w] + 1])
       /\ monitor' = Recorded(Operand("fld", v, literals[w]))
  /\ UNCHANGED <<store, locals, brackets, frame, declared>>

(* call: neither the function itself nor one not yet defined.              *)
Call(f) ==
  /\ InBody /\ f # symbol /\ IsFunction(f)
  /\ found' = Callee(functions[exports[f]].name)
  /\ monitor' = [monitor EXCEPT !.calls = @ \cup {exports[f]}]
  /\ UNCHANGED <<store, locals, brackets, frame, declared>>

(* A request is refused: the compiler gives up, and the assembler stays as *)
(* it is.  Besides names, arities may be wrong at any place.               *)
Refuse ==
  /\ status = "body" /\ status' = "idle" /\ found' = Nothing
  /\ UNCHANGED <<tables, store, current, image>>

(* ret, the last ket, and leave.                                           *)
Leave ==
  LET left == [name |-> symbol, arity |-> monitor.arity,
               calls |-> monitor.calls, operands |-> monitor.operands]
  IN  /\ status = "body" /\ Len(brackets) = 1 /\ status' = "idle"
      /\ functions' = Append(functions, left)
      /\ exports' = With(exports, symbol, Len(functions) + 1)
      /\ symbol' = NoName /\ locals' = <<>> /\ brackets' = <<>> /\ monitor' = Cleared
      /\ frame' = <<>> /\ declared' = 0 /\ found' = Nothing
      /\ UNCHANGED <<store, globals, globalOffsets, image>>

MutantForgotten ==
  /\ heap' = <<>> /\ UNCHANGED literals
  /\ globals' = NoMap /\ globalOffsets' = NoMap
Forgotten ==
  /\ heap' = <<>> /\ literals' = NoMap
  /\ globals' = NoMap /\ globalOffsets' = NoMap

MutantClear ==
  /\ status = "idle" /\ Forgotten
  /\ functions' = <<>>
  /\ symbol' = NoName /\ locals' = <<>> /\ brackets' = <<>> /\ monitor' = Cleared
  /\ frame' = <<>> /\ declared' = 0 /\ found' = Nothing
  /\ UNCHANGED <<exports, image, status>>
Clear ==
  /\ status = "idle" /\ Forgotten
  /\ functions' = <<>> /\ exports' = NoMap
  /\ symbol' = NoName /\ locals' = <<>> /\ brackets' = <<>> /\ monitor' = Cleared
  /\ frame' = <<>> /\ declared' = 0 /\ found' = Nothing
  /\ UNCHANGED <<image, status>>

(* translator::operator (), and instance_ = std::move(translator_).        *)
Translate ==
  /\ status = "idle" /\ functions # <<>>
  /\ image' = [functions |-> functions, heap |-> heap]
  /\ found' = Nothing
  /\ UNCHANGED <<tables, store, current, status>>

SymbolsNext ==
  \/ \E x \in Names : AddGlobal(x)
  \/ \E f \in Names, params \in Lists : Enter(f, params)
  \/ \E f \in Names \cup {Dummy} : EnterRefused(f)
  \/ Bra \/ Ket \/ UseDummy \/ Refuse \/ Leave \/ Clear \/ Translate
  \/ \E x \in Names : Alloca(x)
  \/ \E x \in Names : UseLocal(x)
  \/ \E x \in Names, op \in {"fld", "fstp"} : UseGlobal(x, op)
  \/ \E v \in Literals : UseConstant(v)
  \/ \E v \in Literals : NewLiteral(v)
  \/ \E v \in Literals : OldLiteral(v)
  \/ \E f \in Names : Call(f)

SymbolsSpec == SymbolsInit /\ [][SymbolsNext]_symbolsVars


-----------------------------------------------------------------------------
(* Properties.                                                             *)

Cells == 0 .. Len(heap) - 1

FunctionState(fs) ==
  \A f \in ToSet(fs) : /\ f.name \in Names /\ f.calls \subseteq Nat /\ f.arity \in Nat
                       /\ \A o \in f.operands : o.offset \in Nat

(* Types: tables map names and literals to offsets, scopes are marked by    *)
(* positions in local_variables_, and functions record operands and calls. *)
SymbolsTypeOK ==
  /\ FunctionState(functions) /\ FunctionState(image.functions)
  /\ DOMAIN exports \subseteq Names /\ DOMAIN globals \subseteq Names
  /\ DOMAIN literals \subseteq Literals \ {0, 1, NegZero}
  /\ heap \in Seq(Names \cup Literals)
  /\ symbol \in Names \cup {NoName} /\ locals \in Seq(Names \cup {Dummy})
  /\ \A i \in DOMAIN brackets : brackets[i] \in 0 .. Len(locals)
  /\ status \in {"idle", "body", "aborted"} /\ declared \in Nat

(* Each cell of the heap belongs to one global variable or to one literal, *)
(* and global_offsets_, by which the interpreter tells whether a cell may  *)
(* be written, is the inverse of global_varibles_ (assembler.hpp:156).     *)
CellsOwned ==
  /\ \A c \in Cells : c \in DOMAIN globalOffsets \/ heap[c + 1] \in DOMAIN literals
  /\ \A v \in DOMAIN literals : literals[v] \in Cells /\ heap[literals[v] + 1] = v
  /\ \A x \in DOMAIN globals : globals[x] \in DOMAIN globalOffsets
                               /\ globalOffsets[globals[x]] = x
  /\ \A c \in DOMAIN globalOffsets :
       /\ c \in Cells /\ heap[c + 1] = globalOffsets[c]
       /\ heap[c + 1] \in DOMAIN globals /\ globals[heap[c + 1]] = c

Reads(fs, cells) ==
  \A f \in ToSet(fs) : \A o \in f.operands :
     /\ o.offset < Len(cells)
     /\ Same(cells[o.offset + 1], o.asked)

(* Every operand recorded, in finished functions, in the one at hand and   *)
(* in translated ones, still lies in the cell of the literal or variable    *)
(* that the text names, whatever was compiled, refused or cleared since.   *)
OperandsStand ==
  /\ Reads(functions, heap)
  /\ Reads(<<monitor>>, heap)
  /\ Reads(image.functions, image.heap)

(* Stores reach global variables only, which is what the interpreter        *)
(* insists on (virtual_machine.cpp:1033): literals are never overwritten.  *)
StoresReachGlobals ==
  \A f \in ToSet(functions) \cup {monitor} : \A o \in f.operands :
     o.op = "fstp" => o.offset \in DOMAIN globalOffsets

(* The export table names every function once, and a function calls only   *)
(* functions defined before it: there is no recursion.                     *)
CallsGoBack ==
  /\ \A i \in DOMAIN functions :
       /\ functions[i].calls \subseteq 1 .. i - 1
       /\ functions[i].name \in DOMAIN exports /\ exports[functions[i].name] = i
  /\ \A f \in DOMAIN exports : exports[f] \in DOMAIN functions
  /\ monitor.calls \subseteq DOMAIN functions
  /\ DOMAIN exports \cap DOMAIN globals = {}

(* The assertions of filter_brackets, call and leave (assembler.cpp:71,    *)
(* 176, 186, 191; assembler.hpp:79): monitor and assembler count the same   *)
(* locals, and brackets nest, the outermost holding the parameters alone.  *)
NamesFollowMonitor ==
  status = "body" =>
    /\ monitor.locals = Len(locals)
    /\ brackets # <<>> /\ brackets[1] = monitor.arity
    /\ \A i, j \in DOMAIN brackets : i <= j => brackets[i] <= brackets[j]
    /\ Last(brackets) <= Len(locals)

(* "appends to heap if not exists" (assembler.hpp:376): once a literal was *)
(* named, there is a cell for it.                                          *)
LiteralsAppended ==
  \A o \in monitor.operands : o.asked \in Literals => o.asked \in DOMAIN literals

-----------------------------------------------------------------------------
(* The promise of module Scoping: scopes are the parts of local_variables_ *)
(* between brackets, and a declaration is what its slot of the frame has.  *)

Bounds == <<0>> \o brackets \o <<Len(locals)>>

ScopeOf(i) ==
  LET places == Bounds[i] + 1 .. Bounds[i + 1]
  IN  [x \in {locals[p] : p \in places} |->
         frame[CHOOSE p \in places : locals[p] = x /\ \A q \in places : locals[q] = x => q <= p]]

InFunction(value, otherwise) == IF status = "body" THEN value ELSE otherwise

OpenScopes == InFunction([i \in 1 .. Len(brackets) + 1 |-> ScopeOf(i)], <<>>)
Stage      == IF status = "idle" /\ monitor.recorded THEN "broken" ELSE status

(* fldz loads 0 for -0 too, whether or not the program names 0 itself.     *)
Promise == INSTANCE Scoping WITH
  Same      <- Same,
  Literals  <- Literals \cup {0},
  scopes    <- OpenScopes,
  declared  <- InFunction(declared, 0),
  name      <- InFunction(symbol, NoName),
  globals   <- DOMAIN globals,
  functions <- DOMAIN exports,
  stage     <- Stage

(* Names resolve as the scopes of the text say, calls reach the function    *)
(* named, and of a compilation that was refused nothing is seen later.     *)
NamesAsWritten == Promise!Spec

=============================================================================
