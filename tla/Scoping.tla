-------------------------------- MODULE Scoping --------------------------------
(***************************************************************************)
(* What the assembler promises about names: a name means the variable of   *)
(* the innermost scope that declares it, else the global variable, else    *)
(* nothing; a call goes to a finished function; a compilation that broke   *)
(* off leaves nothing behind that a later one can see.  No offsets, no     *)
(* lists searched backwards, no heap.                                      *)
(***************************************************************************)
EXTENDS Integers, Sequences, FiniteSets

CONSTANTS
  Names,     (* Identifiers of the language.                               *)
  Lists,     (* Lists of parameter names that a function may have.         *)
  Literals,  (* Values of literals.                                        *)
  Same(_, _) (* Equality of numbers, which -0 = 0 satisfies.               *)

VARIABLES
  scopes,    (* The open scopes, innermost last: name -> declaration.      *)
  declared,  (* Number of declarations made in the function so far.        *)
  name,      (* The function being defined.                                *)
  globals,   (* Names of global variables.                                 *)
  functions, (* Names of finished functions.                               *)
  stage,     (* "idle", "body", "broken" or "aborted".                     *)
  found      (* What the last operand named turned out to be.              *)

vars == <<scopes, declared, name, globals, functions, stage, found>>

NoFunction == "none"
Nothing    == <<"nothing">>
None       == [x \in {} |-> 0]

Variable(d) == <<"variable", d>>
Global(x)   == <<"global", x>>
Literal(v)  == <<"literal", v>>
Callee(f)   == <<"callee", f>>

Between == /\ scopes' = <<>> /\ declared' = 0 /\ name' = NoFunction
           /\ found' = Nothing

(* The last of several parameters of one name is the one that counts.      *)
Parameters(params) ==
  [x \in {params[i] : i \in DOMAIN params} |->
     CHOOSE i \in DOMAIN params :
       params[i] = x /\ \A j \in i + 1 .. Len(params) : params[j] # x]

Init == /\ scopes = <<>> /\ declared = 0 /\ name = NoFunction /\ found = Nothing
        /\ globals = {} /\ functions = {} /\ stage = "idle"

AddGlobal == /\ stage \in {"idle", "broken"}
             /\ \E x \in Names \ (globals \cup functions) : globals' = globals \cup {x}
             /\ Between /\ UNCHANGED <<functions, stage>>

Define(f, params) ==
  /\ stage = "idle" /\ f \notin globals \cup functions
  /\ scopes' = <<Parameters(params), None>>
  /\ declared' = Len(params)
  /\ name' = f /\ stage' = "body" /\ found' = Nothing
  /\ UNCHANGED <<globals, functions>>

InBody == stage = "body" /\ UNCHANGED <<name, globals, functions, stage>>

Open  == InBody /\ scopes' = Append(scopes, None) /\ found' = Nothing
         /\ UNCHANGED declared
Close == /\ InBody /\ Len(scopes) > 2
         /\ scopes' = SubSeq(scopes, 1, Len(scopes) - 1) /\ found' = Nothing
         /\ UNCHANGED declared

Declare(x) ==
  LET inner == scopes[Len(scopes)]
  IN  /\ InBody /\ x \notin DOMAIN inner
      /\ declared' = declared + 1
      /\ scopes' = [scopes EXCEPT ![Len(scopes)] =
                      [y \in DOMAIN inner \cup {x} |->
                         IF y = x THEN declared' ELSE inner[y]]]
      /\ found' = Nothing

Declaring(x) == {i \in DOMAIN scopes : x \in DOMAIN scopes[i]}

Use(x) ==
  /\ InBody /\ UNCHANGED <<scopes, declared>>
  /\ \/ /\ Declaring(x) # {}
        /\ \E i \in Declaring(x) : /\ \A j \in Declaring(x) : j <= i
                                   /\ found' = Variable(scopes[i][x])
     \/ Declaring(x) = {} /\ x \in globals /\ found' = Global(x)

UseLiteral(v) == /\ InBody /\ UNCHANGED <<scopes, declared>>
                 /\ \E w \in Literals : Same(v, w) /\ found' = Literal(w)

Call(f) == InBody /\ f \in functions /\ found' = Callee(f) /\ UNCHANGED <<scopes, declared>>

(* A statement that names no variable: "_".                                *)
Skip == InBody /\ found' = Nothing /\ UNCHANGED <<scopes, declared>>

Finish == /\ stage = "body" /\ Len(scopes) = 2
          /\ functions' = functions \cup {name} /\ stage' = "idle"
          /\ Between /\ UNCHANGED globals

Break == stage = "body" /\ stage' = "broken" /\ Between /\ UNCHANGED <<globals, functions>>

Clear == /\ stage \in {"idle", "broken"}
         /\ stage' = "idle" /\ globals' = {} /\ functions' = {} /\ Between

(* A function begun after one that broke off is refused loudly.            *)
Abort == stage = "broken" /\ stage' = "aborted" /\ Between /\ UNCHANGED <<globals, functions>>

(* A definition whose name is taken, or a translation: nothing changes.    *)
Rest == stage \in {"idle", "broken"} /\ Between /\ UNCHANGED <<globals, functions, stage>>

Next == \/ AddGlobal \/ Open \/ Close \/ Skip \/ Finish \/ Break \/ Clear \/ Abort \/ Rest
        \/ \E f \in Names, params \in Lists : Define(f, params)
        \/ \E x \in Names : Declare(x) \/ Use(x) \/ Call(x)
        \/ \E v \in Literals : UseLiteral(v)

Spec == Init /\ [][Next]_vars

=============================================================================
