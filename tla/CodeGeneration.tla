--------------------------- MODULE CodeGeneration ---------------------------
(***************************************************************************)
(* How the compiler turns expressions into FPU code, and what the virtual  *)
(* machine computes when it runs that code.                                *)
(*                                                                         *)
(* The virtual machine interprets the instructions.  The JIT compiler      *)
(* encodes them, and the processor runs what it decodes.                   *)
(***************************************************************************)
EXTENDS Evaluator, MachineCode, VirtualMachine

CONSTANT Trees  (* The expressions that are compiled. *)

VARIABLES
  longDouble, (* use_long_double, a choice of the build: the memory format *)
              (* is long double, and arithmetic has no operands in memory. *)
  tree,       (* The expression,                                           *)
  phase       (* "parsed", "evaluated", "running" or "refused", or left by *)
              (* the evaluator: "thrown" or "stopped",                     *)

vars == <<longDouble, tree, phase, rest, operands, compared>>

(***************************************************************************)
(* The numbers of the virtual machine.                                     *)
(***************************************************************************)
LoadConstant == [zero |-> "fldz", one |-> "fld1", pi |-> "fldpi", l2e |-> "fldl2e",
                 l2t |-> "fldl2t", lg2 |-> "fldlg2", ln2 |-> "fldln2"]

Loaded(op) == ConstantValue(CHOOSE c \in DOMAIN LoadConstant : LoadConstant[c] = op)

(* fnullary, of the top operand, and of those that put a second one on it. *)
Transformed(op, x) ==
  CASE op = "fabs"    -> Abs(x)
    [] op = "fchs"    -> Negated(x)
    [] op = "frndint" -> Round(x)
    [] op = "trunc"   -> Trunc(x)
    [] op = "fsqrt"   -> Sqrt(x)
    [] op = "fcos"    -> Cos(x)
    [] op = "fsin"    -> Sin(x)
    [] op = "f2xm1"   -> Minus(Exp2(x), One)
    [] op = "fptan"   -> Tan(x)
    [] op = "fsincos" -> Sin(x)
    [] op = "fxtract" -> Logb(x)

Pushed(op, x) ==
  CASE op = "fptan"   -> One
    [] op = "fsincos" -> Cos(x)
    [] op = "fxtract" -> Over(x, Exp2(Logb(x)))

(* fbinary.                                                                *)
Combined(op, destination, source) ==
  CASE op = "fadd"    -> Plus(destination, source)
    [] op = "fsub"    -> Minus(destination, source)
    [] op = "fsubr"   -> Minus(source, destination)
    [] op = "fmul"    -> Times(destination, source)
    [] op = "fdiv"    -> Over(destination, source)
    [] op = "fdivr"   -> Over(source, destination)
    [] op = "fpatan"  -> Atan2(destination, source)
    [] op = "fyl2x"   -> Times(destination, Log2(source))
    [] op = "fyl2xp1" -> Times(destination, Log2(Plus(source, One)))
    [] op = "fscale"  -> Times(destination, Exp2(Trunc(source)))
    [] op = "fprem"   -> Fmod(destination, source)
    [] op = "fprem1"  -> Nearest(destination, source)

(* excess(): the operands that a piece of code adds.                       *)
Excess(code) == FoldLeft(LAMBDA n, i : n + Footprint(i).leaves - Footprint(i).needs, 0, code)

(***************************************************************************)
(* Code.  The compiler returns false where the expression has no code:     *)
(* then the whole compilation fails, and Refused stands for its code.      *)
(***************************************************************************)
Refused == <<<<"refused">>>>
IsRefused(code) == \E k \in DOMAIN code : code[k] = <<"refused">>

(* Pieces of code in a row.                                                *)
Assembled(pieces) == LET code == FlattenSeq(pieces)
                     IN  IF IsRefused(code) THEN Refused ELSE code

Ops(names) == [k \in DOMAIN names |-> <<names[k]>>]

(* push: the code must add exactly n operands.                             *)
MutantPush(code, n) == code
Push(code, n) == IF ~ IsRefused(code) /\ Excess(code) = n THEN code ELSE Refused

Number(t) == IF t[1] = "G" THEN t[2] ELSE Variable(t[2])

Forward(op) == CASE op = "+" -> "fadd" [] op = "-" -> "fsub"
                 [] op = "*" -> "fmul" [] op = "/" -> "fdiv"
Backward(op) == CASE op = "+" -> "fadd" [] op = "-" -> "fsubr"
                 [] op = "*" -> "fmul" [] op = "/" -> "fdivr"

(* An operation on the top operand and one in memory.                      *)
WithMemory(mnemocode, t) ==
  IF longDouble THEN <<<<"fld", "mem", Number(t)>>, <<mnemocode>>>>
                ELSE <<<<mnemocode, "mem", Number(t)>>>>

Replace(op) == <<<<op>>, <<"fstp", "st", 1>>>>

(* 2 to the power of the top operand.                                      *)
PowerOfTwo ==
  <<<<"fld", "st", 0>>, <<"frndint">>, <<"fxch">>, <<"fsub", "st", 0, 1>>, <<"f2xm1">>,
    <<"fld1">>, <<"fadd">>>> \o Replace("fscale")

PowerOfE == Ops(<<"fldl2e", "fmul">>) \o PowerOfTwo

(* The larger or the smaller of the top two operands.                      *)
Select(condition) ==
  <<<<"fucomi", "st", 0, 1>>, <<condition, "st", 0, 1>>, <<"fstp", "st", 1>>>>

(***************************************************************************)
(* The compiler.                                                           *)
(***************************************************************************)
RECURSIVE Code(_), NodeCode(_, _)

InMemory(t) == t[1] \in {"G", "X"}

Codes(ts) == Assembled([k \in DOMAIN ts |-> Code(ts[k])])

(* arithmetic, with the left operand already compiled.                     *)
WithOperand(mnemocode, t) ==
  IF InMemory(t) THEN WithMemory(mnemocode, t)
  ELSE Assembled(<<Code(t), <<<<mnemocode>>>>>>)

(* arithmetic on two operands: the one in memory comes last, if necessary  *)
(* with the operation reversed.                                            *)
Arithmetic(op, l, r) ==
  IF r[1] = "G" \/ (r[1] = "X" /\ ~ InMemory(l))
  THEN Assembled(<<Code(l), WithMemory(Forward(op), r)>>)
  ELSE IF InMemory(l) THEN Assembled(<<Code(r), WithMemory(Backward(op), l)>>)
  ELSE Assembled(<<Code(l), Code(r), <<<<Forward(op)>>>>>>)

(* The two operations that are not arithmetic of the FPU.                  *)
ModCode(l, r) == Assembled(<<r, l, Replace("fprem")>>)
PowCode(l, timesR) == Assembled(<<<<<<"fldln2">>>>, l, <<<<"fyl2x">>>>, timesR, PowerOfE>>)

BinaryCode(l, op, r) ==
  CASE op = "%" -> ModCode(Push(Code(l), 1), Push(Code(r), 1))
    [] op = "^" -> PowCode(Push(Code(l), 1), WithOperand("fmul", r))
    [] OTHER    -> Arithmetic(op, l, r)

(* tree_switch: the same for nodes of the output.                          *)
TreeCode(output, node) ==
  LET l == output[node.lhs + 1]
      r == output[node.rhs + 1]
      With(mnemocode, n) == IF IsOperand(n) THEN WithOperand(mnemocode, n.operand)
                            ELSE Assembled(<<NodeCode(output, n), <<<<mnemocode>>>>>>)
  IN  CASE node.op = "%" -> ModCode(NodeCode(output, l), NodeCode(output, r))
        [] node.op = "^" -> PowCode(NodeCode(output, l), With("fmul", r))
        [] OTHER -> IF IsOperand(l) /\ IsOperand(r) THEN Arithmetic(node.op, l.operand, r.operand)
                    ELSE IF IsOperand(l)
                    THEN Assembled(<<NodeCode(output, r), With(Backward(node.op), l)>>)
                    ELSE Assembled(<<NodeCode(output, l), With(Forward(node.op), r)>>)

NodeCode(output, node) == IF IsOperand(node) THEN Code(node.operand) ELSE TreeCode(output, node)

ChainCode(first, others) ==
  IF others = <<>> THEN Code(first)
  ELSE IF Len(others) = 1 THEN BinaryCode(first, others[1][1], others[1][2])
  ELSE LET output == Output(first, others) IN NodeCode(output, Last(output))

(***************************************************************************)
(* The intrinsics.                                                         *)
(***************************************************************************)
(* Those that compile all their arguments, as n operands, and end with a   *)
(* fixed tail.                                                             *)
SignTails ==
  [chs |-> Ops(<<"fchs">>), abs |-> Ops(<<"fabs">>), twice |-> <<<<"fadd", "st", 0, 0>>>>]

RoundingTails ==
  [sqrt |-> Ops(<<"fsqrt">>), round |-> Ops(<<"frndint">>), trunc |-> Ops(<<"trunc">>)]

CircularTails ==
  [cos    |-> Ops(<<"fcos">>),
   sin    |-> Ops(<<"fsin">>),
   sincos |-> Ops(<<"fsincos">>),
   tg     |-> <<<<"fptan">>, <<"fstp", "st", 0>>>>,
   ctg    |-> Ops(<<"fptan", "fdivr">>),
   arctg  |-> Ops(<<"fld1", "fpatan">>)]

FractionTails ==
  [frac    |-> <<<<"fld", "st", 0>>, <<"frndint">>, <<"fsub">>>>,
   fracint |-> <<<<"fld", "st", 0>>, <<"trunc">>, <<"fsub", "st", 1, 0>>>>]

PowerTails == [pow2 |-> PowerOfTwo, sqr |-> <<<<"fmul", "st", 0, 0>>>>]

Tails == SignTails @@ RoundingTails @@ CircularTails @@ FractionTails @@ PowerTails

IntremTail == <<<<"fld", "st", 1>>, <<"fprem">>, <<"fstp", "st", 1>>, <<"fsub", "st", 1, 0>>>>

PairTails == [atan2 |-> Ops(<<"fpatan">>), intrem |-> IntremTail]

(* Those that take their two operands in reverse: push_reversed_binary.    *)
RemainderTail == Replace("fprem1")

ReversedTails ==
  [remainder |-> RemainderTail, yl2xp1 |-> Ops(<<"fyl2xp1">>), scale2 |-> Replace("fscale")]

Reversed(arguments) ==
  CASE Len(arguments) = 1 -> Assembled(<<Push(Codes(arguments), 2), <<<<"fxch">>>>>>)
    [] Len(arguments) = 2 -> Assembled(<<Push(Code(arguments[2]), 1), Push(Code(arguments[1]), 1)>>)
    [] OTHER -> Refused

(* Logarithms: the factor is loaded below the argument.                    *)
Factors == [ln |-> "fldln2", log2 |-> "fld1", lg |-> "fldlg2"]

LogarithmOf(f, arguments) ==
  IF Len(arguments) # 1 THEN Refused
  ELSE Assembled(<<Ops(<<Factors[f]>>), Push(Code(arguments[1]), 1), Ops(<<"fyl2x">>)>>)

(* Those that compile their last argument only.                            *)
BackTails ==
  [extract |-> Ops(<<"fxtract">>),
   pow2m1  |-> Ops(<<"f2xm1">>),
   arcsin  |-> <<<<"fld1">>, <<"fld", "st", 1>>, <<"fmul", "st", 0, 0>>, <<"fsub">>,
                 <<"fsqrt">>, <<"fpatan">>>>,
   arccos  |-> <<<<"fld", "st", 0>>, <<"fmul", "st", 0, 0>>, <<"fld1">>, <<"fsubr">>,
                 <<"fsqrt">>, <<"fxch">>, <<"fpatan">>>>]

ExpOf(arguments) ==
  IF Len(arguments) # 1 THEN Refused
  ELSE Assembled(<<Ops(<<"fldl2e">>), WithOperand("fmul", arguments[1]), PowerOfTwo>>)

PowOf(arguments) ==
  CASE Len(arguments) = 2 ->
         PowCode(Push(Code(arguments[1]), 1), WithOperand("fmul", arguments[2]))
    [] Len(arguments) = 1 ->
         Assembled(<<Push(Codes(arguments), 2),
                     Ops(<<"fxch", "fldln2", "fxch", "fyl2x", "fmul">>), PowerOfE>>)
    [] OTHER -> Refused

LogOf(arguments) ==
  CASE Len(arguments) = 1 ->
         Assembled(<<Push(Codes(arguments), 2),
                     Ops(<<"fld1", "fxch", "fyl2x", "fxch", "fld1", "fxch", "fyl2x", "fdiv">>)>>)
    [] Len(arguments) = 2 ->
         Assembled(<<Ops(<<"fld1">>), Push(Code(arguments[2]), 1), Ops(<<"fyl2x", "fld1">>),
                     Push(Code(arguments[1]), 1), Ops(<<"fyl2x", "fdiv">>)>>)
    [] OTHER -> Refused

(* Horner's method; a coefficient that is the constant zero is not added.  *)
MutantPolyOf(arguments) ==
  CASE Len(arguments) = 0 -> Refused
    [] Len(arguments) = 1 -> Ops(<<"fldz">>)
    [] Len(arguments) = 2 -> Push(Code(arguments[2]), 1)
    [] OTHER ->
         LET n == Len(arguments)
         IN  Assembled(<<Push(Code(arguments[1]), 1), Push(Code(arguments[n]), 1),
                         FlattenSeq([k \in 1 .. n - 2 |->
                           IF arguments[n - k] = <<"C", "zero">> THEN <<>>
                           ELSE <<<<"fmul", "st", 0, 1>>>> \o WithOperand("fadd", arguments[n - k])]),
                         <<<<"fstp", "st", 1>>>>>>)
PolyOf(arguments) ==
  CASE Len(arguments) = 0 -> Refused
    [] Len(arguments) = 1 -> Ops(<<"fldz">>)
    [] Len(arguments) = 2 -> Push(Code(arguments[2]), 1)
    [] OTHER ->
         LET n == Len(arguments)
         IN  Assembled(<<Push(Code(arguments[1]), 1), Push(Code(arguments[n]), 1),
                         FlattenSeq([k \in 1 .. n - 2 |->
                           <<<<"fmul", "st", 0, 1>>>> \o
                             (IF arguments[n - k] = <<"C", "zero">> THEN <<>>
                              ELSE WithOperand("fadd", arguments[n - k]))]),
                         <<<<"fstp", "st", 1>>>>>>)

(* sumsqr, max and min take any number of arguments of any number of       *)
(* values: `first` treats the last value of an argument, `more` the others *)
(* with what is there already, `join` an argument with those before it.    *)
MutantJoined(arguments, first, more, join) ==
  LET Of(t) == LET code == Code(t)
               IN  IF IsRefused(code) THEN Refused
                   ELSE code \o first \o FlattenSeq([k \in 1 .. Excess(code) |-> more])
  IN  IF arguments = <<>> THEN Refused
      ELSE Assembled([k \in DOMAIN arguments |->
                        IF k = 1 THEN Of(arguments[1])
                        ELSE Assembled(<<Of(arguments[k]), join>>)])
Joined(arguments, first, more, join) ==
  LET Of(t) == LET code == Code(t)
               IN  IF IsRefused(code) THEN Refused
                   ELSE code \o first \o FlattenSeq([k \in 1 .. Excess(code) - 1 |-> more])
  IN  IF arguments = <<>> THEN Refused
      ELSE Assembled([k \in DOMAIN arguments |->
                        IF k = 1 THEN Of(arguments[1])
                        ELSE Assembled(<<Of(arguments[k]), join>>)])

Square == <<<<"fmul", "st", 0, 0>>>>

IntrinsicCode(f, arguments) ==
  CASE f \in DOMAIN Tails         -> Assembled(<<Push(Codes(arguments), 1), Tails[f]>>)
    [] f \in DOMAIN PairTails     -> Assembled(<<Push(Codes(arguments), 2), PairTails[f]>>)
    [] f \in DOMAIN ReversedTails -> Assembled(<<Reversed(arguments), ReversedTails[f]>>)
    [] f \in DOMAIN Factors       -> LogarithmOf(f, arguments)
    [] f \in DOMAIN BackTails -> Assembled(<<Push(Code(Last(arguments)), 1), BackTails[f]>>)
    [] f = "exp"    -> ExpOf(arguments)
    [] f = "pow"    -> PowOf(arguments)
    [] f = "log"    -> LogOf(arguments)
    [] f = "poly"   -> PolyOf(arguments)
    [] f = "sumsqr" -> Joined(arguments, Square, Ops(<<"fxch">>) \o Square \o Ops(<<"fadd">>), Ops(<<"fadd">>))
    [] f = "max"    -> Joined(arguments, <<>>, Select("fcmovb"), Select("fcmovb"))
    [] f = "min"    -> Joined(arguments, <<>>, Select("fcmovnbe"), Select("fcmovnbe"))

Code(t) ==
  CASE t[1] = "G" -> <<<<"fld", "mem", Number(t)>>>>
    [] t[1] = "X" -> <<<<"fld", "mem", Number(t)>>>>
    [] t[1] = "C" -> <<<<LoadConstant[t[2]]>>>>
    [] t[1] = "U" -> Assembled(<<Push(Code(t[3]), 1), IF t[2] = "-" THEN Ops(<<"fchs">>) ELSE <<>>>>)
    [] t[1] = "B" -> BinaryCode(t[2], t[3], t[4])
    [] t[1] = "L" -> Codes(t[2])
    [] t[1] = "I" -> IntrinsicCode(t[2], t[3])
    [] t[1] = "F" -> LET code == Codes(t[3])
                     IN  IF t[2] \notin Entries \/ IsRefused(code) THEN Refused
                         ELSE IF Excess(code) # Arity[t[2]] THEN Refused
                         ELSE Append(code, <<"call", t[2]>>)
    [] t[1] = "E" -> ChainCode(t[2], t[3])

(***************************************************************************)
(* An expression on its way.                                               *)
(***************************************************************************)
(* transform::evaluate, if the program asks for it.                        *)
Evaluate ==
  /\ phase = "parsed"
  /\ \E result \in {Evaluated(tree)} :
       IF HasLeft(result)
       THEN /\ phase' = IF result = Thrown THEN "thrown" ELSE "stopped"
            /\ UNCHANGED tree
       ELSE /\ phase' = "evaluated"
            /\ tree' = result
  /\ UNCHANGED <<longDouble, rest, operands, compared>>

(* What the processor decodes of translated code.  The numbers in memory   *)
(* lie in cells by turns of the heap and of the stack, on both sides of    *)
(* its pointer.  Calls and the stack pointer are modelled in Linkage.      *)
StackPointer == 12
Translated(code, format) ==
  LET OnHeap(k) == k % 2 = 1
      Address(k) == IF OnHeap(k) THEN <<"d", SizeOf[format] * k>>
                                 ELSE <<"c", SizeOf[format] * (k - StackPointer)>>
      Access(k) == IF OnHeap(k) THEN HeapAccess(code[k][1], format, k)
                                ELSE StackAccess(code[k][1], format, k, StackPointer)
      Operand(address) == LET ks == {k \in DOMAIN code : Len(code[k]) = 3 /\ Address(k) = address}
                          IN  IF ks = {} THEN Undefined ELSE code[CHOOSE k \in ks : TRUE][3]
      Fetched(i) == IF i[1] = "invalid" THEN Invalid ELSE <<i[1], "mem", Operand(i[3])>>
  IN  [k \in DOMAIN code |->
         CASE code[k][1] = "call" -> code[k]
           [] Len(code[k]) = 3 /\ code[k][2] = "mem" -> Fetched(DecodedAccess(Access(k), format))
           [] OTHER -> Decoded(Encoded(code[k]))]

Compile ==
  /\ phase \in {"parsed", "evaluated"}
  /\ \E code \in {Code(tree)} :
       \/ IsRefused(code) /\ phase' = "refused" /\ UNCHANGED rest
       \/ ~ IsRefused(code) /\ phase' = "running" /\ rest' = code
       \/ /\ ~ IsRefused(code)
          /\ phase' = "running"
          /\ \E format \in IF longDouble THEN {"long double"} ELSE {"float", "double"} :
               rest' = Translated(code, format)
  /\ UNCHANGED <<longDouble, tree, operands, compared>>

Execute == phase = "running" /\ Interpret /\ UNCHANGED <<longDouble, tree, phase>>

Init ==
  /\ longDouble \in BOOLEAN
  /\ tree \in Trees
  /\ phase = "parsed"
  /\ rest = <<>>
  /\ operands = Caller
  /\ compared = <<Undefined, Undefined>>

Next == Evaluate \/ Compile \/ Execute

Spec == Init /\ [][Next]_vars

(***************************************************************************)
(* Properties.                                                             *)
(***************************************************************************)
(* An expression has a value.                                              *)
Defined(meaning) == meaning # <<>> /\ \A k \in DOMAIN meaning : meaning[k] # Undefined

Finished == phase = "running" /\ rest = <<>>

(* What compiles its arguments and counts the operands refuses any other   *)
(* number of them, whether arguments are missing, one too many, or of too  *)
(* many values.  Operands of operators, of exp, pow and poly, and the last *)
(* argument of extract, pow2m1, arcsin and arccos are not all counted:     *)
(* there the code accepts expressions without a meaning.                   *)
Counted(t) ==
  \/ t[1] = "F"
  \/ /\ t[1] = "I"
     /\ t[2] \notin DOMAIN BackTails
     /\ t[2] \in {"exp", "pow", "poly"} => \A k \in DOMAIN t[3] : Len(Meaning(t[3][k])) = 1

IllFormedRefused ==
  [][phase # "running" /\ phase' = "running" /\ Counted(tree) => Meaning(tree) # <<>>]_vars

(* An expression that has a meaning is compiled, and when its code is done *)
(* it has computed that meaning: precedence and order of operands,         *)
(* arguments of several values, the identities behind powers and           *)
(* logarithms, the bytes that instructions and addresses are encoded as.   *)
(* Of extract the values come in the order the tests expect, which is not  *)
(* the order of its description: see ExtractAsDescribed.                   *)
ComputesMeaning ==
  [][/\ phase' = "refused" => Meaning(tree) = <<>>
     /\ \A k \in DOMAIN rest' : rest'[k] # Invalid
     /\ Finished' => LET meaning == Meaning(tree)
                     IN  Defined(meaning) => operands' = Caller \o meaning]_vars

(* extract(x) as it is described where it is declared (tokens.hpp:121):    *)
(* the significand x / scale2(1, logb(x)), then the exponent logb(x).      *)
ExtractAsDescribed ==
  [][Finished' /\ tree[1] = "I" /\ tree[2] = "extract" =>
       LET x == Meaning(tree[3][1])[1]
       IN  operands' = Caller \o <<Over(x, Exp2(Logb(x))), Logb(x)>>]_vars

(***************************************************************************)
(* Of the evaluator.                                                       *)
(***************************************************************************)
Evaluating == phase = "parsed" /\ phase' = "evaluated"

(* Four folds give another value, or another number of values:             *)
(* scale2(a, b) of literals exchanges its arguments (intrinsic.cpp:1297),  *)
(* cos(pi) is 0 (:466), lg of an exponential becomes two values (:1243,    *)
(* :1256), and log2 and lg of a pow of one wide argument read the argument *)
(* after it was moved away (:1158, :1224).                                 *)
Misfolded(t) ==
  /\ t[1] = "I"
  /\ \/ t[2] = "scale2"
     \/ t[2] = "cos" /\ t[3] = <<Const("pi")>>
     \/ t[2] \in {"lg", "log2"} /\ \E k \in DOMAIN t[3] :
          /\ t[3][k][1] = "I"
          /\ \/ t[2] = "lg" /\ t[3][k][2] \in {"exp", "pow2"}
             \/ t[3][k][2] = "pow" /\ Len(t[3][k][3]) = 1

(* The evaluator changes an expression, not its values: signs drawn out of *)
(* operands and moved through functions, literals on either side of an     *)
(* operator, inverse functions, absolute values dropped, coefficients of   *)
(* polynomials and literals among other arguments collected.               *)
FoldingKeepsMeaning ==
  [][Evaluating /\ Defined(Meaning(tree)) /\ ~ Misfolded(tree)
       => Meaning(tree') = Meaning(tree)]_vars

(* It leaves nothing to compute in an expression of literals: also through *)
(* functions of several values, each of which is an argument of its own.   *)
RECURSIVE OfLiteralsOnly(_)
OfLiteralsOnly(t) ==
  LET All(ts) == \A k \in DOMAIN ts : OfLiteralsOnly(ts[k])
  IN  CASE t[1] = "G" -> TRUE
        [] t[1] = "C" -> t[2] \in {"zero", "one"}
        [] t[1] = "U" -> OfLiteralsOnly(t[3])
        [] t[1] = "B" -> All(<<t[2], t[4]>>)
        [] t[1] = "L" -> All(t[2])
        [] t[1] = "I" -> All(t[3])
        [] t[1] = "E" -> OfLiteralsOnly(t[2]) /\ \A k \in DOMAIN t[3] : OfLiteralsOnly(t[3][k][2])
        [] OTHER      -> FALSE

LiteralsFold ==
  [][Evaluating /\ Defined(Meaning(tree)) /\ OfLiteralsOnly(tree)
       => \/ tree'[1] = "G"
          \/ tree'[1] = "L" /\ \A k \in DOMAIN tree'[2] : tree'[2][k][1] = "G"]_vars

(* It gives up only expressions without a value: a quotient by zero, a     *)
(* power that does not exist.                                              *)
GivesUpTheUndefined ==
  [][phase' \in {"thrown", "stopped"} => ~ Defined(Meaning(tree))]_vars

(* scale2(x, y) is x times a power of 2, whoever computes it.              *)
ScalingFolds ==
  [][Evaluating /\ tree[1] = "I" /\ tree[2] = "scale2" => Meaning(tree') = Meaning(tree)]_vars

=============================================================================
