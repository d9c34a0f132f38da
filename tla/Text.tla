--------------------------------- MODULE Text ---------------------------------
(***************************************************************************)
(* Programs as text: what is printed, and what is read.                    *)
(*                                                                         *)
(* A text is a sequence of tokens <<kind, what>>: marks, operators,        *)
(* keywords, numbers without a sign, and the words that are constants,     *)
(* intrinsics or symbols.  A token is what the parser skips space between, *)
(* but for a sign and the number right after it, which it reads as one     *)
(* where an operand is expected; the printer puts no space there.          *)
(***************************************************************************)
EXTENDS Programs

Mark(m)    == <<"mark", m>>
Keyword(w) == <<"keyword", w>>
Op(op)     == <<"operator", op>>

(* Pieces of text with commas between them.                                *)
Separated(pieces) ==
  FlattenSeq([k \in DOMAIN pieces |-> IF k = 1 THEN pieces[1] ELSE <<Mark(",")>> \o pieces[k]])

Bracketed(left, text, right) == <<Mark(left)>> \o text \o <<Mark(right)>>

(***************************************************************************)
(* The printer.                                                            *)
(***************************************************************************)
Words(symbols) == [k \in DOMAIN symbols |-> <<<<"symbol", symbols[k]>>>>]

PrintedId(id) ==
  <<<<"symbol", id[1]>>>> \o IF id[2] = <<>> THEN <<>> ELSE Bracketed("{", Separated(Words(id[2])), "}")

PrintedIds(ids) == Separated([k \in DOMAIN ids |-> PrintedId(ids[k])])

PrintedNumber(n) ==
  IF IsRational(n) /\ Value(n)[1] < 0 THEN <<Op("-"), <<"number", Negated(n)>>>> ELSE <<<<"number", n>>>>

(* An operand is in brackets if it has operators; the members of a list    *)
(* are not.                                                                *)
RECURSIVE Printed(_)

MutantPrintedOperand(t) == IF t[1] = "E" THEN Bracketed("(", Printed(t), ")") ELSE Printed(t)
PrintedOperand(t) == IF t[1] \in {"E", "B"} THEN Bracketed("(", Printed(t), ")") ELSE Printed(t)

PrintedList(ts) == Separated([k \in DOMAIN ts |-> Printed(ts[k])])

Printed(t) ==
  CASE t[1] = "G" -> PrintedNumber(t[2])
    [] t[1] = "C" -> <<<<"constant", t[2]>>>>
    [] t[1] = "X" -> PrintedId(t[2])
    [] t[1] = "R" -> PrintedOperand(t[2])
    [] t[1] = "U" -> <<Op(t[2])>> \o PrintedOperand(t[3])
    [] t[1] = "B" -> PrintedOperand(t[2]) \o <<Op(t[3])>> \o PrintedOperand(t[4])
    [] t[1] = "L" -> PrintedList(t[2])
    [] t[1] = "I" -> <<<<"intrinsic", t[2]>>>> \o Bracketed("(", PrintedList(t[3]), ")")
    [] t[1] = "F" -> PrintedId(t[2]) \o Bracketed("(", PrintedList(t[3]), ")")
    [] t[1] = "E" -> PrintedOperand(t[2])
                     \o FlattenSeq([k \in DOMAIN t[3] |-> <<Op(t[3][k][1])>> \o PrintedOperand(t[3][k][2])])

RECURSIVE PrintedStatement(_)
PrintedStatement(statement) ==
  CASE statement[1] = "empty"  -> <<>>
    [] statement[1] = "local"  -> <<Keyword("local")>> \o PrintedIds(statement[2]) \o <<Mark("=")>>
                                    \o PrintedList(statement[3])
    [] statement[1] = "assign" -> PrintedIds(statement[2]) \o <<Mark("=")>> \o PrintedList(statement[3])
    [] statement[1] = "block"  -> <<Keyword("begin")>>
                                    \o FlattenSeq([k \in DOMAIN statement[2] |-> PrintedStatement(statement[2][k])])
                                    \o <<Keyword("end")>>

PrintedEntry(entry) ==
  <<Keyword("function")>> \o PrintedId(entry.name) \o Bracketed("(", PrintedIds(entry.arguments), ")")
    \o FlattenSeq([k \in DOMAIN entry.body |-> PrintedStatement(entry.body[k])])
    \o <<Keyword("return")>> \o PrintedList(entry.results) \o <<Keyword("end")>>

(***************************************************************************)
(* The parser.  Each part of the grammar reads `text` from position k on:  *)
(* it gives what is read and the position after it, or position 0 where    *)
(* the text is not of the language.                                        *)
(***************************************************************************)
Is(text, k, token)   == k \in DOMAIN text /\ text[k][1] = token[1] /\ text[k] = token
IsA(text, k, kind)   == k \in DOMAIN text /\ text[k][1] = kind

Read(x, at) == [read |-> x, at |-> at]
Unread      == Read(<<>>, 0)

(* What Next makes of r, if r is read; what comes after the given token.   *)
Then(r, Next(_))       == IF r.at = 0 THEN r ELSE Next(r)
After(text, r, token)  == IF r.at # 0 /\ Is(text, r.at, token) THEN Read(r.read, r.at + 1) ELSE Unread

RECURSIVE Items(_, _, _), IdRead(_, _), ExpressionRead(_, _), OperandRead(_, _), OperationsRead(_, _)

SymbolRead(text, k) == IF IsA(text, k, "symbol") THEN Read(text[k][2], k + 1) ELSE Unread

IdRead(text, k) ==
  Then(SymbolRead(text, k), LAMBDA s :
    IF Is(text, s.at, Mark("{"))
    THEN Then(After(text, Items(text, s.at + 1, "symbol"), Mark("}")),
              LAMBDA wrts : Read(<<s.read, wrts.read>>, wrts.at))
    ELSE Read(<<s.read, <<>>>>, s.at))

IsOperator(text, k) == IsA(text, k, "operator")
IsSign(text, k)     == IsOperator(text, k) /\ text[k][2] \in {"-", "+"}
Signed(sign, n)     == IF sign = "-" THEN Negated(n) ELSE n

(* A list, separated by commas, of symbols, names or expressions.          *)
Items(text, k, what) ==
  LET first == CASE what = "symbol"     -> SymbolRead(text, k)
                 [] what = "identifier" -> IdRead(text, k)
                 [] what = "expression" -> ExpressionRead(text, k)
  IN  Then(first, LAMBDA item :
        IF Is(text, item.at, Mark(","))
        THEN Then(Items(text, item.at + 1, what), LAMBDA others : Read(<<item.read>> \o others.read, others.at))
        ELSE Read(<<item.read>>, item.at))

(* A list in brackets, from the opening one on, which may be empty.        *)
InBrackets(text, k, what) ==
  CASE ~ Is(text, k, Mark("("))      -> Unread
    [] Is(text, k, Mark("(")) /\ Is(text, k + 1, Mark(")"))   -> Read(<<>>, k + 2)
    [] Is(text, k, Mark("(")) /\ ~ Is(text, k + 1, Mark(")")) ->
         After(text, Items(text, k + 1, what), Mark(")"))

ExpressionRead(text, k) ==
  Then(OperandRead(text, k), LAMBDA first :
    Then(OperationsRead(text, first.at), LAMBDA rest : Read(<<"E", first.read, rest.read>>, rest.at)))

OperationsRead(text, k) ==
  IF ~ IsOperator(text, k) THEN Read(<<>>, k)
  ELSE Then(OperandRead(text, k + 1), LAMBDA t :
         Then(OperationsRead(text, t.at), LAMBDA rest : Read(<<<<text[k][2], t.read>>>> \o rest.read, rest.at)))

(* The alternatives in their order: numbers before signs.                  *)
OperandRead(text, k) ==
  CASE IsA(text, k, "number")    -> Read(<<"G", text[k][2]>>, k + 1)
    [] IsA(text, k, "constant")  -> Read(<<"C", text[k][2]>>, k + 1)
    [] IsA(text, k, "intrinsic") -> Then(InBrackets(text, k + 1, "expression"),
                                         LAMBDA ts : Read(<<"I", text[k][2], ts.read>>, ts.at))
    [] IsA(text, k, "symbol") ->
         Then(IdRead(text, k), LAMBDA id :
           IF Is(text, id.at, Mark("("))
           THEN Then(InBrackets(text, id.at, "expression"), LAMBDA ts : Read(<<"F", id.read, ts.read>>, ts.at))
           ELSE Read(<<"X", id.read>>, id.at))
    [] IsSign(text, k) /\ IsA(text, k + 1, "number") -> Read(<<"G", Signed(text[k][2], text[k + 1][2])>>, k + 2)
    [] IsSign(text, k) /\ ~ IsA(text, k + 1, "number") ->
         IF IsSign(text, k + 1) THEN Unread
         ELSE Then(OperandRead(text, k + 1), LAMBDA t : Read(<<"U", text[k][2], t.read>>, t.at))
    [] Is(text, k, Mark("(")) -> After(text, ExpressionRead(text, k + 1), Mark(")"))
    [] OTHER -> Unread

(* lvalue_list = rvalue_list                                               *)
AssignmentRead(text, k, kind) ==
  Then(After(text, Items(text, k, "identifier"), Mark("=")), LAMBDA ids :
    Then(Items(text, ids.at, "expression"), LAMBDA ts : Read(<<kind, ids.read, ts.read>>, ts.at)))

RECURSIVE StatementRead(_, _), StatementsRead(_, _)
StatementRead(text, k) ==
  CASE Is(text, k, Keyword("begin")) ->
         Then(After(text, StatementsRead(text, k + 1), Keyword("end")),
              LAMBDA s : Read(<<"block", s.read>>, s.at))
    [] Is(text, k, Keyword("local")) -> AssignmentRead(text, k + 1, "local")
    [] IsA(text, k, "symbol")        -> AssignmentRead(text, k, "assign")

StatementsRead(text, k) ==
  IF ~ (Is(text, k, Keyword("begin")) \/ Is(text, k, Keyword("local")) \/ IsA(text, k, "symbol"))
  THEN Read(<<>>, k)
  ELSE Then(StatementRead(text, k), LAMBDA s :
         Then(StatementsRead(text, s.at), LAMBDA others : Read(<<s.read>> \o others.read, others.at)))

(* A function, which ends the text.                                        *)
EntryRead(text) ==
  LET Body(name, args) ==
        Then(After(text, StatementsRead(text, args.at), Keyword("return")), LAMBDA body :
          Then(After(text, Items(text, body.at, "expression"), Keyword("end")), LAMBDA results :
            Read([name |-> name.read, arguments |-> args.read, body |-> body.read, results |-> results.read],
                 results.at)))
  IN  Then(IF Is(text, 1, Keyword("function")) THEN IdRead(text, 2) ELSE Unread, LAMBDA name :
        Then(InBrackets(text, name.at, "identifier"), LAMBDA args : Body(name, args)))

=============================================================================
