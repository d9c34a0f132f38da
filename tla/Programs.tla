------------------------------- MODULE Programs -------------------------------
(***************************************************************************)
(* Functions and what they compute: the reference that transformations of  *)
(* whole programs are compared with.                                       *)
(*                                                                         *)
(* A program is a sequence of entries                                      *)
(*   [name |-> id, arguments |-> ids, body |-> statements, results |-> ts] *)
(* and a statement is one of                                               *)
(*   <<"empty">>                                                           *)
(*   <<"local", ids, ts>>     local ids = ts                               *)
(*   <<"assign", ids, ts>>    ids = ts                                     *)
(*   <<"block", statements>>  begin statements end                         *)
(* An identifier is a symbol and the sequence of variables with respect to *)
(* which it is derived; <<"X", id>> and <<"F", id, arguments>> name one.   *)
(* <<"R", t>> refers to the expression t in another program.               *)
(*                                                                         *)
(* Values are those the compiled code computes: the expressions of a       *)
(* declaration are computed and bound one after the other, and a local     *)
(* variable may hide an argument, as compile(variable_declaration) and the *)
(* assembler have it.  Programs with assignments are not given values.     *)
(***************************************************************************)
EXTENDS Calculus, Expressions

Number(p) == <<"G", p>>

(* A name that nothing declares is a global variable, if not derived.      *)
ValueOf(id, env) == IF id \in DOMAIN env THEN env[id]
                    ELSE IF id[2] = <<>> THEN NumberOf(id) ELSE Undefined

Bound(ids, numbers) ==
  [id \in Range(ids) |-> LET k == CHOOSE i \in DOMAIN ids : ids[i] = id
                         IN  IF k \in DOMAIN numbers THEN numbers[k] ELSE Undefined]

(* Values of a list of expressions, of an expression, of a call.           *)
RECURSIVE Values(_, _, _), Closed(_, _, _), Returned(_, _, _)

Values(ts, env, program) ==
  LET v == Meaning(<<"L", [k \in DOMAIN ts |-> Closed(ts[k], env, program)]>>)
  IN  IF ts # <<>> /\ v = <<>> THEN <<Undefined>> ELSE v

(* t with numbers in place of names and calls.                             *)
Closed(t, env, program) ==
  LET C(u)   == Closed(u, env, program)
      All(ts) == [k \in DOMAIN ts |-> C(ts[k])]
  IN  CASE t[1] \in {"G", "C"} -> t
        [] t[1] = "X" -> Number(ValueOf(t[2], env))
        [] t[1] = "R" -> C(t[2])
        [] t[1] = "U" -> <<"U", t[2], C(t[3])>>
        [] t[1] = "B" -> <<"B", C(t[2]), t[3], C(t[4])>>
        [] t[1] = "L" -> <<"L", All(t[2])>>
        [] t[1] = "I" -> <<"I", t[2], All(t[3])>>
        [] t[1] = "E" -> <<"E", C(t[2]), [k \in DOMAIN t[3] |-> <<t[3][k][1], C(t[3][k][2])>>]>>
        [] t[1] = "F" -> LET v == Returned(t[2], Values(t[3], env, program), program)
                         IN  <<"L", [k \in DOMAIN v |-> Number(v[k])]>>

(* Variables after statements; a block leaves none behind.                 *)
Declared(statement, env, program) ==
  LET ids == statement[2]
      Bind(s, t) == LET v == Values(<<t>>, s.env, program)
                    IN  [env  |-> Bound(SubSeq(ids, s.used + 1, s.used + Len(v)), v) @@ s.env,
                         used |-> s.used + Len(v)]
  IN  FoldLeft(Bind, [env |-> env, used |-> 0], statement[3]).env

Executed(statements, env, program) ==
  FoldLeft(LAMBDA e, statement : IF statement[1] = "local" THEN Declared(statement, e, program) ELSE e,
           env, statements)

(* What the last function of that name returns, whose callees precede it.  *)
Returned(name, numbers, program) ==
  LET named == {k \in DOMAIN program : program[k].name = name}
      entry == program[CHOOSE k \in named : \A j \in named : j <= k]
      callees == SubSeq(program, 1, (CHOOSE k \in named : \A j \in named : j <= k) - 1)
  IN  IF named = {} THEN <<Undefined>>
      ELSE IF Len(numbers) # Len(entry.arguments) THEN <<Undefined>>
      ELSE Values(entry.results,
                  Executed(entry.body, Bound(entry.arguments, numbers), callees), callees)

(* Values of a function when its arguments are what they are named.        *)
Computed(entry, program) ==
  Returned(entry.name, [k \in DOMAIN entry.arguments |-> NumberOf(entry.arguments[k])], program)

=============================================================================
