------------------------------ MODULE Derivator ------------------------------
(***************************************************************************)
(* Derivatives of programs: functions that compute the derivatives of      *)
(* functions with respect to global variables.                             *)
(*                                                                         *)
(* The derivative with respect to x of a function of z has two arguments,  *)
(* z and z{x}; the second is the derivative of the first, a variable of    *)
(* its own.  The order of the arguments of higher derivatives is kept in a *)
(* descriptor.  The derivatives of the functions that are called are       *)
(* derived on the way, callees first.                                      *)
(*                                                                         *)
(* As in Evaluator, Thrown and Stopped stand for exceptions and assertions *)
(* that leave the derivator.                                               *)
(***************************************************************************)
EXTENDS Evaluator, Text

CONSTANTS
  Requests,   (* Programs to derive, and with respect to what:             *)
              (* [program |-> entries, wrts |-> names].                    *)
  Bounds      (* What a read of a bound in freed memory may return: the    *)
              (* value it had, one below or one above it.                  *)

ASSUME BoundsAssumption == Bounds \subseteq {"kept", "less", "more"}

VARIABLES
  request,      (* what is asked for                                       *)
  freed,        (* what freed memory happens to hold                       *)
  primitives,   (* the program that is derived                             *)
  derivatives,  (* and its derivatives so far                              *)
  trimmed,      (* a derivative without the derivatives of its arguments   *)
  left          (* "", or how the last transformation was left             *)

vars == <<request, freed, primitives, derivatives, trimmed, left>>

(***************************************************************************)
(* Descriptors: blocks of arguments, one for each variable of the          *)
(* derivatives taken.  A block of `size` arguments at `offset` derives     *)
(* those from block `first` on, where a variable is not taken twice.       *)
(***************************************************************************)
MutantPushed(head, w) ==
  LET h     == IF head = <<>> THEN <<[wrt |-> "", first |-> 0, offset |-> 0, size |-> 1]>> ELSE head
      arity == Last(h).offset + Last(h).size
  IN  Append(h, [wrt |-> w, first |-> 0, offset |-> arity, size |-> arity])
Pushed(head, w) ==
  LET h      == IF head = <<>> THEN <<[wrt |-> "", first |-> 0, offset |-> 0, size |-> 1]>> ELSE head
      arity  == Last(h).offset + Last(h).size
      same   == {j \in 1 .. Len(h) - 1 : h[j + 1].wrt = w}
      first  == IF same = {} THEN 0 ELSE CHOOSE j \in same : \A k \in same : k <= j
  IN  Append(h, [wrt |-> w, first |-> first, offset |-> arity, size |-> arity - h[first + 1].offset])

AllPushed(head, wrts) == FoldLeft(Pushed, head, wrts)

Top(s)   == Last(s.head).wrt
Prev(s)  == Last(s.head).offset

(***************************************************************************)
(* Expressions.  The state s of a derivation has the descriptor, the       *)
(* functions called, the local variables declared so far, and whether a    *)
(* call has replaced the descriptor: it is not put back.                   *)
(***************************************************************************)
MutantOriginal(id) == Len(id[2]) <= 1
Original(id) == id[2] = <<>>
Dual(id, s)  == <<id[1], Append(id[2], Top(s))>>

ConstZero == Const("zero")
ConstOne  == Const("one")
Refs(ts)  == [k \in DOMAIN ts |-> Ref(ts[k])]

BinaryDerivative(l, dl, op, r, dr) ==
  CASE op \in {"+", "-"} -> Bin(dl, op, dr)
    [] op = "*" -> Bin(Bin(dl, "*", r), "+", Bin(l, "*", dr))
    [] op = "/" -> Bin(Bin(dl, "/", r), "-", Bin(Bin(l, "*", dr), "/", Call("sqr", <<r>>)))
    [] op = "%" -> Bin(dl, "-", Bin(dr, "*", Call("trunc", <<Bin(l, "/", r)>>)))
    [] op = "^" -> Bin(Bin(l, "^", r), "*",
                       Bin(Bin(dl, "*", Bin(r, "/", l)), "+", Bin(dr, "*", Call("ln", <<l>>))))

Underivable == {"abs", "sumsqr", "remainder", "atan2", "poly", "fracint", "pow", "log", "yl2xp1",
                "scale2", "extract", "max", "min"}

(* Of the arguments ts and their derivatives ds: angles and roundings,     *)
(* then powers, logarithms and inverse functions, then all.                *)
AngularDerivative(f, ts, ds) ==
  LET d  == <<"L", ds>>
      Of(g) == Call(g, ts)
      DSin == Bin(Of("cos"), "*", d)
      DCos == Neg(Bin(Of("sin"), "*", d))
  IN  CASE f \in {"chs", "twice"}    -> <<Call(f, ds)>>
        [] f \in {"round", "trunc"}  -> <<ConstZero>>
        [] f = "sqrt"                -> <<Bin(d, "/", Call("twice", <<Of("sqrt")>>))>>
        [] f = "cos"                 -> <<DCos>>
        [] f = "sin"                 -> <<DSin>>
        [] f = "sincos"              -> <<DSin, DCos>>
        [] f = "tg"                  -> <<Bin(d, "/", Call("sqr", <<Of("cos")>>))>>
        [] f = "ctg"                 -> <<Neg(Bin(d, "/", Call("sqr", <<Of("sin")>>)))>>
        [] f = "arctg"               -> <<Bin(d, "/", Bin(ConstOne, "+", Of("sqr")))>>
        [] f = "frac"                -> <<d>>
        [] f = "intrem"              -> <<ConstZero, d>>

ExponentialDerivative(f, ts, ds) ==
  LET d  == <<"L", ds>>
      Of(g) == Call(g, ts)
      OneLessSqr == Call("sqrt", <<Bin(ConstOne, "-", Of("sqr"))>>)
  IN  CASE f = "exp"                 -> <<Bin(Of("exp"), "*", d)>>
        [] f \in {"pow2", "pow2m1"}  -> <<Bin(Bin(Of("pow2"), "*", Const("ln2")), "*", d)>>
        [] f = "sqr"                 -> <<Bin(Of("twice"), "*", d)>>
        [] f = "ln"                  -> <<Bin(d, "/", <<"L", ts>>)>>
        [] f = "log2"                -> <<Bin(d, "/", Bin(<<"L", ts>>, "*", Const("ln2")))>>
        [] f = "lg"                  -> <<Bin(Bin(d, "*", Const("l2e")), "/",
                                              Bin(<<"L", ts>>, "*", Const("l2t")))>>
        [] f = "arcsin"              -> <<Bin(d, "/", OneLessSqr)>>
        [] f = "arccos"              -> <<Neg(Bin(d, "/", OneLessSqr))>>

Exponentials == {"exp", "pow2", "pow2m1", "sqr", "ln", "log2", "lg", "arcsin", "arccos"}

IntrinsicDerivative(f, ts, ds) ==
  CASE f \in Underivable  -> <<Thrown>>
    [] f \in Exponentials -> ExponentialDerivative(f, ts, ds)
    [] f \notin Underivable \cup Exponentials -> AngularDerivative(f, ts, ds)

RECURSIVE Derived(_, _), DerivedAll(_, _), Expanded(_, _, _), CallDerived(_, _)

DerivedAll(ts, s) ==
  IF ts = <<>> THEN [ts |-> <<>>, s |-> s]
  ELSE Given(DerivedAll(Front(ts), s), LAMBDA r :
         Given(Derived(Last(ts), r.s), LAMBDA d : [ts |-> Append(r.ts, d.t), s |-> d.s]))

(* expand: the derivatives of the blocks that the last block derives, of   *)
(* `arity` items each.  The end of the loop is read through a reference    *)
(* into the descriptor, whose memory is freed when a call replaces it.     *)
Expanded(arity, source, s) ==
  LET from   == s.head[Last(s.head).first + 1].offset
      blocks == [i \in 1 .. Prev(s) - from |-> SubSeq(source, (from + i - 1) * arity + 1, (from + i) * arity)]
      Block(r, block) == Given(DerivedAll(block, r.s), LAMBDA d : [ts |-> r.ts \o d.ts, s |-> d.s])
      LastBlock(r)    == IF r.s.replaced /\ s.bound = "less" THEN r ELSE Block(r, Last(blocks))
      Checked(all) == [ts |-> IF all.s.replaced /\ s.bound = "more" THEN <<Stopped>> ELSE all.ts,
                       s  |-> [all.s EXCEPT !.replaced = @ \/ s.replaced]]
  IN  Given(Given(FoldLeft(Block, [ts |-> <<>>, s |-> [s EXCEPT !.replaced = FALSE]], Front(blocks)),
                  LastBlock), Checked)

(* A call with arguments: the descriptor becomes that of the callee.       *)
CallDerived(t, s) ==
  LET name == Dual(t[2], s)
      in   == [s EXCEPT !.callees = Append(@, name)]
      Expand(own) ==
        IF Len(t[3]) % Prev(own) # 0 THEN [t |-> Stopped, s |-> own]
        ELSE Given(Expanded(Len(t[3]) \div Prev(own), t[3], own),
                   LAMBDA d : [t |-> Unless(d.ts, <<"F", name, Refs(t[3]) \o d.ts>>), s |-> d.s])
  IN  IF t[3] = <<>> THEN [t |-> <<"F", name, <<>>>>, s |-> in]
      ELSE Given([in EXCEPT !.head = AllPushed(<<>>, name[2]), !.replaced = TRUE], Expand)

(* A variable that is neither an argument nor local is independent.        *)
MutantVariableDerivative(id, s) ==
  CASE id = <<Top(s), <<>>>>                             -> ConstOne
    [] id # <<Top(s), <<>>>> /\ id[1] \in s.locals      -> <<"X", Dual(id, s)>>
    [] id # <<Top(s), <<>>>> /\ id[1] \notin s.locals   -> ConstZero
VariableDerivative(id, s) ==
  CASE id[1] \in s.locals                         -> <<"X", Dual(id, s)>>
    [] id[1] \notin s.locals /\ id[1] # Top(s)    -> ConstZero
    [] id[1] \notin s.locals /\ id[1] = Top(s)    -> IF Original(id) THEN ConstOne ELSE Stopped

Derived(t, s) ==
  LET Operation(l, op, r) ==
        Given(Derived(l, s), LAMBDA dl : Given(Derived(r, dl.s), LAMBDA dr :
          [t |-> Unless(<<dl.t, dr.t>>, BinaryDerivative(Ref(l), dl.t, op, Ref(r), dr.t)), s |-> dr.s]))
      Made(ts, next) == [t |-> Unless(ts, <<"L", ts>>), s |-> next]
  IN  CASE t[1] \in {"G", "C"} -> [t |-> ConstZero, s |-> s]
        [] t[1] = "X" -> [t |-> VariableDerivative(t[2], s), s |-> s]
        [] t[1] = "R" -> Derived(t[2], s)
        [] t[1] = "U" -> Given(Derived(t[3], s), LAMBDA d :
                           IF t[2] = "-" THEN [t |-> Unless(<<d.t>>, Neg(d.t)), s |-> d.s] ELSE d)
        [] t[1] = "B" -> Operation(t[2], t[3], t[4])
        [] t[1] = "E" /\ Len(t[3]) = 0 -> Derived(t[2], s)
        [] t[1] = "E" /\ Len(t[3]) = 1 -> Operation(t[2], t[3][1][1], t[3][1][2])
        [] t[1] = "E" /\ Len(t[3]) > 1 -> [t |-> Thrown, s |-> s]
        [] t[1] = "F" -> CallDerived(t, s)
        [] t[1] = "L" -> Given(DerivedAll(t[2], s), LAMBDA d : Made(d.ts, d.s))
        [] t[1] = "I" -> Given(DerivedAll(t[3], s), LAMBDA d :
                           IF SelectSeq(d.ts, HasLeft) # <<>> THEN Made(d.ts, d.s)
                           ELSE Made(IntrinsicDerivative(t[2], Refs(t[3]), d.ts), d.s))

(***************************************************************************)
(* Statements and functions.                                               *)
(***************************************************************************)
(* Names of arguments and variables, and their derivatives after them.     *)
LvaluesDerived(ids, s) ==
  LET derived == {k \in DOMAIN ids : ~ Original(ids[k])}
      width == IF derived = {} THEN Len(ids) ELSE (CHOOSE k \in derived : \A j \in derived : k <= j) - 1
      in    == [s EXCEPT !.locals = @ \cup {ids[k][1] : k \in 1 .. width}]
      from  == s.head[Last(s.head).first + 1].offset
      source == SubSeq(ids, from * width + 1, Prev(s) * width)
  IN  IF width * Prev(s) # Len(ids) THEN [ids |-> <<Stopped>>, s |-> in]
      ELSE [ids |-> ids \o [k \in DOMAIN source |-> Dual(source[k], s)], s |-> in]

Unnamed(ids) == <<Stopped>> = ids

RvaluesDerived(ts, s) ==
  IF Len(ts) % Prev(s) # 0 THEN [ts |-> <<Stopped>>, s |-> s]
  ELSE Given(Expanded(Len(ts) \div Prev(s), ts, s), LAMBDA d : [ts |-> Refs(ts) \o d.ts, s |-> d.s])

RECURSIVE StatementsDerived(_, _)
StatementsDerived(statements, s) ==
  LET Add(r, t, next) == [ts |-> Append(r.ts, t), s |-> next]
      Declaration(r, statement) ==
        Given(LvaluesDerived(statement[2], r.s), LAMBDA l :
          IF Unnamed(l.ids) THEN Add(r, Stopped, l.s)
          ELSE Given(RvaluesDerived(statement[3], l.s), LAMBDA d :
                 Add(r, Unless(d.ts, <<"local", l.ids, d.ts>>), d.s)))
      Block(r, statement) ==
        Given(StatementsDerived(statement[2], r.s), LAMBDA d :
          Add(r, Unless(d.ts, <<"block", d.ts>>), [d.s EXCEPT !.locals = r.s.locals]))
      Statement(r, statement) ==
        CASE statement[1] = "empty"  -> Add(r, statement, r.s)
          [] statement[1] = "assign" -> Add(r, Thrown, r.s)
          [] statement[1] = "block"  -> Block(r, statement)
          [] statement[1] = "local"  -> Declaration(r, statement)
  IN  FoldLeft(Statement, [ts |-> <<>>, s |-> s], statements)

(* derive(entry): [entry, s, left].                                        *)
EntryDerived(entry, head, bound) ==
  LET Made(s, args, body, results) ==
        [entry |-> [name |-> Dual(entry.name, s), arguments |-> args.ids,
                    body |-> body.ts, results |-> results.ts],
         s     |-> results.s,
         left  |-> IF Unnamed(args.ids) THEN "assert" ELSE Unless(body.ts \o results.ts, <<"">>)[1]]
  IN  Given([head |-> head, callees |-> <<>>, locals |-> {}, replaced |-> FALSE, bound |-> bound], LAMBDA s :
        Given(IF entry.arguments = <<>> THEN [ids |-> <<>>, s |-> s]
              ELSE LvaluesDerived(entry.arguments, s), LAMBDA args :
          Given(StatementsDerived(entry.body, args.s), LAMBDA body :
            Given(DerivedAll(entry.results, body.s), LAMBDA results : Made(s, args, body, results)))))

(* evaluate(entry): empty statements go.                                   *)
RECURSIVE StatementsEvaluated(_)
StatementsEvaluated(statements) ==
  [k \in DOMAIN statements |->
     Given(statements[k], LAMBDA statement :
       IF statement[1] = "block"
       THEN Given(StatementsEvaluated(SelectSeq(statement[2], LAMBDA s : s[1] # "empty")),
                  LAMBDA ts : Unless(ts, <<"block", ts>>))
       ELSE Given(EvaluatedAll(statement[3]),
                  LAMBDA ts : Unless(ts, <<statement[1], statement[2], ts>>)))]

(* The body is evaluated like a block, the results like the values of a    *)
(* last statement.                                                         *)
EntryEvaluated(entry) ==
  Given(StatementsEvaluated(<<<<"block", entry.body>>, <<"return", <<>>, entry.results>>>>), LAMBDA ts :
    [left  |-> Unless(ts, <<"">>)[1],
     entry |-> IF SelectSeq(ts, HasLeft) # <<>> THEN entry
               ELSE [entry EXCEPT !.body = ts[1][2], !.results = ts[2][3]]])

(***************************************************************************)
(* Programs.                                                               *)
(***************************************************************************)
Named(program, name) == {k \in DOMAIN program : program[k].name = name}
LastNamed(program, name) == program[CHOOSE k \in Named(program, name) : \A j \in Named(program, name) : j <= k]

Failed(ds, head, why) == [ds |-> ds, head |-> head, left |-> why]

(* What a found primitive, or derivative, brings into the descriptor.      *)
Found(program, ds, name, head) ==
  [entry |-> LastNamed(program, name), ds |-> ds, head |-> AllPushed(head, name[2]), left |-> ""]

(* operator (): the derivative called `name`, from primitives ps and the   *)
(* derivatives ds that there are, to which it is added, after its callees. *)
RECURSIVE Obtained(_, _, _, _, _)

(* derive and evaluate the parent; derive the callees; add the derivative. *)
FromParent(ps, parent, wrt, bound) ==
  IF parent.left # "" THEN parent
  ELSE Given(EntryDerived(parent.entry, Pushed(parent.head, wrt), bound), LAMBDA derived :
    Given(IF derived.left # "" THEN derived ELSE EntryEvaluated(derived.entry), LAMBDA folded :
      IF folded.left # "" THEN Failed(parent.ds, parent.head, folded.left)
      ELSE Given(FoldLeft(LAMBDA r, callee :
                            IF r.left # "" THEN r ELSE Obtained(ps, r.ds, callee, <<>>, bound),
                          [ds |-> parent.ds, left |-> ""], derived.s.callees), LAMBDA before :
        IF before.left # "" THEN Failed(before.ds, parent.head, before.left)
        ELSE [entry |-> folded.entry, ds |-> Append(before.ds, folded.entry),
              head |-> derived.s.head, left |-> ""])))

Obtained(ps, ds, name, head, bound) ==
  CASE Named(ps, name) # {} -> Found(ps, ds, name, head)
    [] Named(ps, name) = {} /\ Original(name) -> Failed(ds, head, "throw")
    [] Named(ps, name) = {} /\ ~ Original(name) /\ Named(ds, name) # {} -> Found(ds, ds, name, head)
    [] Named(ps, name) = {} /\ ~ Original(name) /\ Named(ds, name) = {} ->
         Given(Obtained(ps, ds, <<name[1], Front(name[2])>>, head, bound),
               LAMBDA parent : FromParent(ps, parent, Last(name[2]), bound))

(* derive(program, targets, wrts), from the derivatives ds on.             *)
RECURSIVE TargetsObtained(_, _, _, _, _)
TargetsObtained(ps, ds, targets, wrts, bound) ==
  IF targets = <<>> THEN [ds |-> ds, left |-> ""]
  ELSE Given(Obtained(ps, ds, <<Head(targets), wrts>>, <<>>, bound), LAMBDA o :
         IF o.left # "" THEN [ds |-> o.ds, left |-> o.left]
         ELSE TargetsObtained(ps, o.ds, Tail(targets), wrts, bound))

(* For each wrts of a sequence, joined: derivatives of one call are not    *)
(* seen by the next.                                                       *)
RECURSIVE AllObtained(_, _, _, _)
AllObtained(ps, targets, sequence, bound) ==
  IF sequence = <<>> THEN [ds |-> <<>>, left |-> ""]
  ELSE Given(TargetsObtained(ps, <<>>, targets, Head(sequence), bound), LAMBDA o :
         IF o.left # "" THEN o
         ELSE Given(AllObtained(ps, targets, Tail(sequence), bound),
                    LAMBDA others : [ds |-> o.ds \o others.ds, left |-> others.left]))

Symbols1(program) == [k \in DOMAIN program |-> program[k].name[1]]

(***************************************************************************)
(* leaf: a derivative where the derivatives of the arguments are zero, as  *)
(* they are when the arguments are independent variables.                  *)
(***************************************************************************)
RECURSIVE Trimmed(_, _)
Trimmed(t, nulls) ==
  LET T(u) == Trimmed(u, nulls)
      All(ts) == [k \in DOMAIN ts |-> T(ts[k])]
  IN  CASE t[1] \in {"G", "C"} -> t
        [] t[1] = "X" -> IF t[2] \in nulls THEN Lit(Zero) ELSE t
        [] t[1] = "R" -> T(t[2])
        [] t[1] = "U" -> <<"U", t[2], T(t[3])>>
        [] t[1] = "B" -> <<"B", T(t[2]), t[3], T(t[4])>>
        [] t[1] = "E" -> <<"E", T(t[2]), [k \in DOMAIN t[3] |-> <<t[3][k][1], T(t[3][k][2])>>]>>
        [] t[1] = "L" -> <<"L", All(t[2])>>
        [] t[1] \in {"I", "F"} -> <<t[1], t[2], All(t[3])>>

RECURSIVE StatementsTrimmed(_, _)
StatementsTrimmed(statements, nulls) ==
  LET Of(s) == CASE s[1] = "empty" -> s
                 [] s[1] \in {"local", "assign"} ->
                      <<s[1], s[2], [k \in DOMAIN s[3] |-> Trimmed(s[3][k], nulls)]>>
                 [] s[1] = "block" -> <<"block", StatementsTrimmed(s[2], nulls)>>
  IN  [k \in DOMAIN statements |-> Of(statements[k])]

MutantLeaf(entry, symbol) ==
  LET nulls == {id \in Range(entry.arguments) : Len(id[2]) = 1}
  IN  [name      |-> <<symbol, <<>>>>,
       arguments |-> SelectSeq(entry.arguments, Original),
       body      |-> StatementsTrimmed(entry.body, nulls),
       results   |-> [k \in DOMAIN entry.results |-> Trimmed(entry.results[k], nulls)]]
Leaf(entry, symbol) ==
  LET nulls == {id \in Range(entry.arguments) : ~ Original(id)}
  IN  [name      |-> <<symbol, <<>>>>,
       arguments |-> SelectSeq(entry.arguments, Original),
       body      |-> StatementsTrimmed(entry.body, nulls),
       results   |-> [k \in DOMAIN entry.results |-> Trimmed(entry.results[k], nulls)]]

(***************************************************************************)
(* What a program consists of.                                             *)
(***************************************************************************)
(* The names an expression reads, and the functions it calls.              *)
RECURSIVE Parts(_)
Parts(t) ==
  LET All(ts) == UNION {Parts(ts[k]) : k \in DOMAIN ts}
  IN  {t} \cup (CASE t[1] = "R" -> Parts(t[2])
                  [] t[1] = "U" -> Parts(t[3])
                  [] t[1] = "B" -> Parts(t[2]) \cup Parts(t[4])
                  [] t[1] = "E" -> Parts(t[2]) \cup All([k \in DOMAIN t[3] |-> t[3][k][2]])
                  [] t[1] = "L" -> All(t[2])
                  [] t[1] \in {"I", "F"} -> All(t[3])
                  [] t[1] \in {"G", "C", "X"} -> {})

RECURSIVE Flat1(_)
Flat1(statements) ==
  FlattenSeq([k \in DOMAIN statements |->
                IF statements[k][1] = "block" THEN Flat1(statements[k][2]) ELSE <<statements[k]>>])

Declarations(entry) == SelectSeq(Flat1(entry.body), LAMBDA statement : statement[1] = "local")
Inside(entry) == UNION {Parts(t) : t \in Range(entry.results)
                                          \cup UNION {Range(d[3]) : d \in Range(Declarations(entry))}}
Calls(entry)  == {t \in Inside(entry) : t[1] = "F"}

(* Calls with arguments where the descriptor is read after they are derived. *)
Called(ts)    == \E t \in Range(ts) : \E u \in Parts(t) : u[1] = "F" /\ u[3] # <<>>
Rereading(entry) == \/ \E t \in Calls(entry) : Called(t[3])
                    \/ \E d \in Range(Declarations(entry)) : Called(d[3])

(***************************************************************************)
(* Transformations of the request.                                         *)
(***************************************************************************)
(* evaluate(program), before anything is derived: derivatives refer to     *)
(* the program they are derived from.                                      *)
Simplify ==
  /\ left = "" /\ derivatives = <<>> /\ trimmed = <<>>
  /\ primitives = request.program
  /\ \E folded \in {[k \in DOMAIN primitives |-> EntryEvaluated(primitives[k])]} :
       \E gone \in {SelectSeq(folded, LAMBDA f : f.left # "")} :
         /\ left' = IF gone = <<>> THEN "" ELSE gone[1].left
         /\ primitives' = IF gone = <<>> THEN [k \in DOMAIN folded |-> folded[k].entry] ELSE primitives
  /\ UNCHANGED <<request, freed, derivatives, trimmed>>

Deriving(targets, sequence) ==
  /\ left = "" /\ derivatives = <<>> /\ trimmed = <<>>
  /\ \E made \in {AllObtained(primitives, targets, sequence, freed)} :
       /\ left' = made.left
       /\ derivatives' = IF made.left = "" THEN made.ds ELSE derivatives
  /\ UNCHANGED <<request, freed, primitives, trimmed>>

(* derive(program, {last function}, wrts), or Jacobian(program, wrts): the *)
(* derivatives of all functions with respect to each variable.             *)
Last1(ps)   == <<Last(ps).name[1]>>
Single1(wrts) == [k \in DOMAIN wrts |-> <<wrts[k]>>]

Derive ==
  \E jacobian \in {j \in BOOLEAN : j => IsInjective(request.wrts)} :
    Deriving(IF jacobian THEN Symbols1(primitives) ELSE Last1(primitives),
             IF jacobian THEN Single1(request.wrts) ELSE <<request.wrts>>)

(* The derivatives join the program, once.                                 *)
Join ==
  /\ derivatives # <<>> /\ trimmed = <<>>
  /\ \A k \in DOMAIN primitives : Original(primitives[k].name)
  /\ primitives' = primitives \o derivatives
  /\ derivatives' = <<>>
  /\ UNCHANGED <<request, freed, trimmed, left>>

Trim ==
  /\ trimmed = <<>>
  /\ \E k \in DOMAIN derivatives : trimmed' = <<derivatives[k], Leaf(derivatives[k], "leaf")>>
  /\ UNCHANGED <<request, freed, primitives, derivatives, left>>

Init ==
  /\ request \in Requests
  /\ freed \in IF \E e \in Range(request.program) : Rereading(e) THEN Bounds ELSE {"kept"}
  /\ primitives = request.program
  /\ derivatives = <<>>
  /\ trimmed = <<>>
  /\ left = ""

Next == Simplify \/ Derive \/ Join \/ Trim

Spec == Init /\ [][Next]_vars

(***************************************************************************)
(* Properties.                                                             *)
(***************************************************************************)
(* A declaration that reads what it hides: in its derivative the variable  *)
(* is hidden before the derivative of its value is computed.               *)
Hiding(entry) ==
  \E d \in Range(Declarations(entry)) : \E k \in DOMAIN d[3] : \E t \in Parts(d[3][k]) :
    t[1] = "X" /\ \E j \in DOMAIN d[2] : d[2][j][1] = t[2][1] /\ j >= k

(* The derivative of intrem has a value for each argument.                 *)
Misderived(entry) == Hiding(entry) \/ \E t \in Inside(entry) : t[1] = "I" /\ t[2] = "intrem"

Defined(numbers) == Undefined \notin Range(numbers)
Agree(v, w) == Len(v) = Len(w) /\ \A k \in DOMAIN v : Same(v[k], w[k])

Adopted == left = "" /\ derivatives = <<>> /\ derivatives' # <<>>


Derives(entry, program) ==
  LET parent == LastNamed(program, <<entry.name[1], Front(entry.name[2])>>)
      values == Computed(parent, program)
      args   == {id[1] : id \in Range(parent.arguments)}
      expected == [k \in DOMAIN values |-> Derivative(values[k], Last(entry.name[2]), args)]
  IN  Defined(expected) => Agree(Computed(entry, program), expected)

(* The numbers of values of expressions, as functions declare them.        *)
RECURSIVE Width(_, _)
Width(t, program) ==
  LET All(ts) == FoldLeft(LAMBDA n, u : n + Width(u, program), 0, ts)
  IN  CASE t[1] = "R" -> Width(t[2], program)
        [] t[1] = "L" -> All(t[2])
        [] t[1] = "F" -> All(LastNamed(program, t[2]).results)
        [] t[1] = "E" /\ t[3] = <<>> -> Width(t[2], program)
        [] t[1] = "I" /\ t[2] \in {"sincos", "fracint", "intrem", "extract"} -> 2
        [] OTHER -> 1

Widths(ts, program) == Width(<<"L", ts>>, program)

(* Every call passes as many values as the function has arguments, and     *)
(* every declaration has a value for each variable.                        *)
Fits(entry, program) ==
  /\ \A t \in Calls(entry) : Widths(t[3], program) = Len(LastNamed(program, t[2]).arguments)
  /\ \A d \in Range(Declarations(entry)) : Widths(d[3], program) = Len(d[2])

(* Every derivative, of the function asked for and of the functions it     *)
(* calls, of every order, computes the derivative of what its parent       *)
(* computes, whatever is read from freed memory; or else the numbers of    *)
(* arguments or variables show that it does not, and it is refused.        *)
DerivativesDerive ==
  [][Adopted =>
       LET all == primitives \o derivatives'
       IN  \A k \in DOMAIN derivatives' :
             (\A e \in Range(all) : ~ Misderived(e) /\ Fits(e, all)) => Derives(derivatives'[k], all)]_vars

(* Derivatives can be compiled after their primitives: no function is      *)
(* defined twice, and the functions one calls precede it; no argument is   *)
(* declared twice; calls pass and declarations have as many values as      *)
(* there are names, unless a bound read from freed memory was too low.     *)
DerivativesCompile ==
  [][Adopted =>
       LET all == primitives \o derivatives'
       IN  \A k \in Len(primitives) + 1 .. Len(all) :
             /\ \A j \in 1 .. k - 1 : all[j].name # all[k].name
             /\ \A t \in Calls(all[k]) : \E j \in 1 .. k - 1 : all[j].name = t[2]
             /\ IsInjective(all[k].arguments)
             /\ freed # "less" => Fits(all[k], all)]_vars

(* What cannot be derived.                                                 *)
Refusable(entry) ==
  \/ \E t \in Inside(entry) : (t[1] = "I" /\ t[2] \in Underivable) \/ (t[1] = "E" /\ Len(t[3]) > 1)
  \/ \E k \in DOMAIN Flat1(entry.body) : Flat1(entry.body)[k][1] = "assign"

(* A call with arguments in a larger expression: the derivative calls      *)
(* functions of different orders, so that the descriptor may be left that  *)
(* of the lower one.  It is read again for the declarations after it, and  *)
(* for the arguments at the next order.                                    *)
Mixing(t) == \E u \in Parts(t) : \E v \in Parts(u) \ {u} : v[1] = "F" /\ v[3] # <<>>

Outdates(entry, order) ==
  LET ds == Declarations(entry)
  IN  \/ order > 1 /\ \E i, j \in DOMAIN ds : i < j /\ \E t \in Range(ds[i][3]) : Mixing(t)
      \/ order > 2 /\ \E t \in Inside(entry) : Mixing(t)

(* What the evaluator fails on: an invocation with a wrong number of       *)
(* arguments as an argument, and a list of one value, which it makes of    *)
(* twice(-x), sin(-x), tg(-x) and ctg(-x) itself, as an argument.          *)
Unfoldable(entry) ==
  \E t \in Inside(entry) : \/ t[1] = "I" /\ t[2] \in Unary /\ Len(t[3]) # 1
                           \/ t[1] = "L" /\ Len(t[2]) = 1

(* A program is refused for what cannot be derived only, and assertions    *)
(* fail for three reasons only: a bound read from freed memory was too     *)
(* high, the descriptor is outdated, the evaluator is given what it fails  *)
(* on.                                                                     *)
RefusalsOwed ==
  [][left = "" /\ left' # "" =>
       \E e \in Range(primitives) :
         \/ left' = "throw"  /\ Refusable(e)
         \/ left' = "assert" /\ (freed = "more" \/ Outdates(e, Len(request.wrts)) \/ Unfoldable(e))]_vars

(* Without the derivatives of its arguments a derivative computes what it  *)
(* computes when they are zero, unless one is declared again as a local    *)
(* variable: leaf replaces that one too.                                   *)
Redeclared(entry) == \E d \in Range(Declarations(entry)) : Range(d[2]) \cap Range(entry.arguments) # {}

LeafIsDerivative ==
  [][trimmed = <<>> /\ trimmed' # <<>> =>
       LET entry == trimmed'[1]
           all   == primitives \o derivatives
           zeros == [k \in DOMAIN entry.arguments |->
                       IF Original(entry.arguments[k]) THEN NumberOf(entry.arguments[k]) ELSE Zero]
           expected == Returned(entry.name, zeros, all)
       IN  Defined(expected) /\ ~ Redeclared(entry) =>
             Agree(Computed(trimmed'[2], Append(all, trimmed'[2])), expected)]_vars

(* The evaluator keeps what functions compute.                             *)
SimplifyKeepsValues ==
  [][primitives' # primitives /\ Len(primitives') = Len(primitives) =>
       \A k \in DOMAIN primitives :
         Defined(Computed(primitives[k], primitives)) =>
           Agree(Computed(primitives'[k], primitives'), Computed(primitives[k], primitives))]_vars

(* What is printed of a program, after any of the transformations, can be  *)
(* read, and computes the same.                                            *)
ReadsBack(program, k) ==
  LET again == EntryRead(PrintedEntry(program[k]))
      value == Computed(program[k], SubSeq(program, 1, k))
  IN  /\ again.at # 0
      /\ again.read.name = program[k].name
      /\ Defined(value) => Agree(Computed(again.read, SubSeq(program, 1, k - 1) \o <<again.read>>), value)

PrintedReadsBack ==
  [][left' = "" =>
       LET before == primitives \o derivatives
           after  == primitives' \o derivatives' \o (IF trimmed' = <<>> THEN <<>> ELSE Tail(trimmed'))
       IN  \A k \in DOMAIN after :
             (k \in DOMAIN before /\ before[k] = after[k]) \/ ReadsBack(after, k)]_vars

=============================================================================
