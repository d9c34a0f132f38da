# A TLA+ model of insituc

insituc compiles a small language of real-valued functions to x87
floating-point code and runs it, either in an interpreter of that code
(`runtime::virtual_machine`) or translated to machine code
(`runtime::translator`, `runtime::instance`). This directory holds TLA+ modules
that model the parts of it where several pieces of bookkeeping must agree, the
TLC configurations that check them, and proofs for TLAPS.

Everything in insituc runs in one thread. What is hard in it is not concurrency
but long chains of small decisions that depend on each other: the machine has
eight registers and no more, so the assembler spills values to a frame and
reloads them, rotating the ring of registers as it goes; it does so from
counters alone, for code that it does not see executed; a caller lays out a
callee's frame from five numbers; and the interpreter and the translated program
each follow the stack pointer with an arithmetic of their own. A test executes
one such chain. The properties here are about all of them.

The build modelled is the default one (Debug): a failed `assert` stops the
program.

## The system

| component | state it keeps | operations | modelled in |
|---|---|---|---|
| parser (`parser/implementation/parser.hpp`, `shunting_yard_algorithm.hpp`) | none between calls | text to syntax tree | the grammar over tokens: `Text`; the shunting yard algorithm: `ShuntingYard` |
| transforms (`src/transform`) | of the derivator: the functions derived so far, the *descriptor* of their arguments, the callees of the one being derived, the variables in scope | `evaluate`, `derive`, `Jacobian`, `leaf`, `append` | evaluation of expressions: `Evaluator`; of functions, derivatives, leaf optimizer: `Derivator` |
| abstract syntax tree and its output (`ast/ast.hpp`, `ast/io.hpp`) | trees, some of which refer into others | print | `Expressions`, `Programs`, `Text` |
| compiler (`meta/compiler.hpp`, `src/meta/compiler.cpp`) | none of its own: it drives the assembler | one `compile` per kind of syntax node | the requests it may make: `Monitor`, `Linkage`, `Scenario`; the code of expressions: `CodeGeneration` |
| assembler (`meta/assembler.hpp`, `src/meta/assembler.cpp`) | `functions_`, `export_table_`, the function being assembled: `symbol_`, `local_variables_`, `brackets_`; the heap: `heap_`, globals, literals | `enter`, instructions by name, `leave`, `add_global_variable` | functions and brackets: `Monitor`, `Linkage`; names and heap: `Symbols` |
| monitor (`assembler::monitor`) | `used_`, `frame_used_`, `local_variables_count_`, `stack_pointer_`, `arity_`, and `function_` with `clobbered_`, `frame_clobbered_`, `climbing_`, `output_` and the code | `verify` of each instruction, `adjust`, `check` | `Monitor`, `SpillMachine` (the code emitted), `Linkage` (`check`) |
| interpreter (`runtime/interpreter/virtual_machine.hpp`, `src/runtime/virtual_machine.cpp`) | `fpregs_`, `stack_`, `stack_used_`, `stack_pointer_`, `frame_pointer_`, `output_`, `call_stack_`, `frame_stack_` | one `interpret` per instruction, `interpret_function` | `Fpu`, `SpillMachine` (one function), `Linkage` (programs), `VirtualMachine` and `CodeGeneration` (numbers) |
| translator and instance (`runtime/jit_compiler`) | `code_`, `entry_points_`, `stack_pointer_`; at run time rcx, rdx | one `translate` per instruction, `execute` | the addresses: `Linkage`; the bytes: `MachineCode`, `CodeGeneration` |
| xallocator (`memory/xallocator.hpp`) | executable pages | allocate, deallocate | no |

How they interact: the compiler walks a function's syntax tree and requests
instructions of the assembler; the assembler resolves names and passes each
instruction to its monitor; the monitor first emits, through itself, whatever
spill code the instruction needs, updates the counters and records the
instruction. When the function is left its counters become its *descriptor*,
which is all that the assembly of later functions, the interpreter and the
translator know of it. Recorded code is read by three readers: `monitor::check`,
the interpreter, the translator.

Between parser and compiler a program may be transformed, any number of times:
evaluated, which simplifies it; derived, which makes new functions of its
functions; trimmed by `leaf`. Derivatives do not own all of their trees but
refer into those they were derived from. What results is compiled, or printed
as a text that the parser reads.

What makes each component correct:

* monitor: no counter underflows; registers in use never exceed the registers
  there are; spilled values lie above the locals; `clobbered_` and
  `frame_clobbered_` bound what the code and its callees touch; verifying
  recorded code again changes nothing.
* emitted code: it computes what it would on an operand stack without limit.
* calls: the callee finds its arguments where its frame begins, its frame is
  within the caller's declared frame, it does not disturb the caller's registers,
  and it leaves the stack pointer where the caller expects it.
* interpreter and translated code address the same slots, and the processor
  decodes from the bytes the instruction that was meant, with its operand.
* compiler: the code of an expression computes the value of that expression,
  needs no operand of whoever is outside, and expressions with a wrong number of
  operands are refused.
* evaluator: the expression it gives has the value of the one it got, and it
  gives up only what has no value.
* derivator: what a derivative computes is the derivative of what its function
  computes, for every order and through calls and declarations; all functions it
  calls are there, before it and once, with as many arguments as are passed; only
  what has no derivative is refused.
* leaf optimizer: what it makes is the derivative for independent arguments.
* printer: what is printed can be read, and is the same program.
* names: the innermost declaration wins, literals and globals do not share heap
  cells, a failed compilation does not spoil the next one.

## The modules

| module | what it is |
|---|---|
| `Monitor` | the monitor's counters under every sequence of requests the compiler can make for one function. One action per kind of request. |
| `Fpu` | the ring of registers: rotation, push, pop, `check_head_tail`. |
| `SpillMachine` | `Monitor` together with the machine that executes what it emits. |
| `OperandStack` | the abstract specification: a function body on an operand stack of unlimited depth. |
| `Linkage` | whole programs: assembly of several functions from each other's descriptors, then execution by interpreter and translated code in lockstep. |
| `Scenario` | `Monitor` under the requests for one given function text. |
| `Symbols` | the assembler's names and heap: look-ups, scopes, literals, globals, refused compilations, `clear`. |
| `Scoping` | the abstract specification: what a name means in a program text. |
| `Algebra` | exact arithmetic with symbols: sums of products, and the laws of the functions of the FPU. |
| `Expressions` | the syntax tree of expressions and what they mean: the reference for compiler and evaluator. |
| `ShuntingYard` | the algorithm that finds the tree in a chain of operators. |
| `Evaluator` | the transformation that evaluates and simplifies expressions. |
| `MachineCode` | the bytes the translator makes of instructions, and the instructions a processor makes of bytes. |
| `Callees` | the functions that expressions and code can call. |
| `VirtualMachine` | what each instruction does with the operands, for any numbers, and the footprint the assembler knows it by. |
| `CodeGeneration` | the code the compiler makes of an expression, and `VirtualMachine`, with the numbers of `Algebra`, as the interpreter or the processor that computes with it. |
| `Calculus` | derivatives of the numbers of `Algebra`. |
| `Programs` | functions with declarations, blocks and calls, and what they compute: the reference for transformations and printer. |
| `Text` | programs as tokens: the printer and the grammar. |
| `Derivator` | derivatives of programs, evaluation of programs, the leaf optimizer. |
| `MonitorProofs` | theorems about `Monitor`. |
| `SymbolsProofs` | theorems about `Symbols`. |
| `SymbolsRefinementProofs` | the theorem that `Symbols` implements `Scoping`. |
| `SpillMachineProofs` | theorems about `SpillMachine`. |
| `SpillRefinementProofs` | the theorem that `SpillMachine` implements `OperandStack`. |
| `LinkageProofs` | theorems about `Linkage`. |
| `VirtualMachineProofs` | theorems about `VirtualMachine`. |
| `MC...` | values of the constants for TLC. |

### Monitor

The record `m` holds the counters: `used` is `used_`, `frameUsed` is
`frame_used_`, `locals` is `local_variables_count_`, `sp` is `stack_pointer_`,
and `clobbered`, `frameClobbered`, `climbing`, `output` are those of
`function_`. `brackets` is `brackets_` of the assembler. `mode` is the place in
the function's text: in an expression, in the middle of a declaration or of an
assignment, after `return`, left, or stopped by an assertion.

`Adjusted` is `adjust`: `Balanced` is its spill code, as far as it changes the
counters (`Reloaded` and `Spilled` are the recursive `verify` of the `fld` and
`fstp` it emits), `Settled` the rest. Every instruction the compiler issues
reaches `adjust` with one of a few footprints, so `Operate` takes a footprint of
`Effects` in place of a mnemonic. `fld st(i)` and `fstp st(i)` have actions of
their own (`Dup`, `Drop`), because what they ask of `adjust` depends on whether
the operand is in a register. Calls take a descriptor of `Callees`.

Functions compiled from the language have `input_` = 0 (`entry_definition`
passes 0), so it is left out. In the mode `store` the model also allows the
operations that compound assignments perform between two stores; it allows them
in any order, which is more than the compiler does.

The assertions of `endl` (`assembler.cpp:349`, `446`) say that no temporary is
left at the end of a statement; the actions that end a statement are enabled
only there.

### SpillMachine

`h` is the machine: `fpu` is `fpregs_`, `frame` the part of `stack_` from the
function's frame pointer on, `stackUsed` is `stack_used_` relative to it. Since
a function body has no jumps, each instruction is executed as soon as it is
emitted, so that each action is: `Monitor`'s step, the spill code computed from
the counters before it, the instruction. `fault` records an instruction that
fails or an assertion of the interpreter that does. Slots above `stack_used_`
are forgotten (`Junk`) and empty registers remember whether they were ever used
(`Fresh`, `Stale`), so that reading a dead value or using a register that is not
declared shows.

`OperandStack` is what a programmer would write: operands, locals, blocks,
results, no registers and no frame. `Refinement` maps the operand stack to the
spilled temporaries in the frame followed by the registers in use.

### Linkage

A program is assembled first: each function definition of `Bodies` is a list of
requests, which the actions `Assemble...` feed to the actions of `Monitor` while
they record the code. A call may go to any function assembled before that has
the right number of arguments and results. Then any function is started from
outside and the code executed instruction by instruction. `chain` is the stack
of active calls, with each frame pointer and the translator's notion of how far
the stack pointer has moved in each function; `vm` holds the interpreter's
counters and `ecx`, the register that holds the frame address in translated
code. Of the registers only the number in use is kept here; `SpillMachine` shows
that those in use are the top ones and carry the right values.

### Symbols

`functions` and `exports` are `functions_` and `export_table_`; `globals`,
`globalOffsets` and `literals` the three maps of heap offsets; a cell of `heap`
is represented by what it was made for, so that reading a wrong cell shows.
`locals` and `brackets` are `local_variables_` and `brackets_`, and `monitor`
keeps what the assertions of the assembler compare them with, and the operands
and calls recorded. `frame` is not in the code: it remembers, for each slot of
the frame, the declaration that wrote it last, so that `LocalOffset` can be
judged. `image` is the function table and the copy of the heap of an `instance`
made by the translator, which outlives changes of the assembler. `Refuse` is any
error that the compiler reports: it returns and leaves the assembler as it is.
The next `enter` then finds names left over and its assertion stops the program;
only `clear` helps, which is what the tests call.

`Scoping` has no offsets and no lists. Its state is a stack of scopes, each a
map from names to declarations; `Promise` maps to it the assembler: the scopes are
the parts of `local_variables_` between two brackets (`OpenScopes`), and `Stage` is
"broken" as long as something is left of a refused function. `NamesAsWritten` says
that the assembler implements it.

Literals are integers here, with -0 apart since it equals 0 and differs from it,
and NaN apart since the order of `std::map` does not tell it from other keys.
Either zero is loaded by `fldz`, so `Scoping` may always answer a literal with 0,
whether or not the program names 0 itself.

### Expressions, ShuntingYard, Evaluator, VirtualMachine, CodeGeneration

`tree` is an expression. It is evaluated or not (`Evaluate`; the tests do both),
then compiled (`Compile`) and the code interpreted, an action for each group of
instructions that the interpreter treats alike. `phase` says how far it is,
`rest` is the code that is left, `operands` the operand stack, `compared` the
two numbers whose comparison the condition codes hold. `longDouble` is the
choice of the build that decides whether arithmetic may have an operand in
memory.

`Compile` leaves the code as it is, for the interpreter, or replaces each
instruction by what the processor decodes of the bytes that the translator makes
of it (`Translated`), in one of the memory formats of the build: float or
double, or long double. The translator's tables and its bit arithmetic are
`Encoded` and `IndirectAddress`; the decoder is `Decoded` and `DecodedAccess`,
written from the layout of the FPU's instructions (an escape of three bits, a
mode, a field of three bits and a register) and from nothing of the translator,
so that an exchanged row, a bit added to the wrong byte or a displacement of the
wrong width gives another instruction or none (`Invalid`). Operands in memory
lie by turns in the heap and on either side of the stack pointer, at
displacements of one and of four bytes. One deviation the model shows as it is:
of a destination other than the top, `fbinary` reverses the bit that tells
`fsub` from `fsubr`, as the processor does.

The compiler is the recursive operator `Code`, with one operator for each of its
methods or group of methods of one pattern; `Refused` stands for a method that
returns false. `Excess` is the sum that `push` of the compiler counts operands by.

`VirtualMachine` has the instructions apart from the numbers they compute:
`LoadedValue`, `TransformedValue`, `CombinedValue` and the like are constants,
which `CodeGeneration` gives the functions of `Algebra`. `Footprint` is what
`verify` of the monitor assumes of each instruction.
The operand stack has no limit here and no frame: `SpillMachine` shows that the
registers behave like that. Below the operands lie two of the caller (`Caller`),
so that code that takes one too many shows.

The evaluator is `Evaluated`. It has two copies in the source, one that copies
the tree and one that moves it; they are alike line by line and are modelled
once. `Applied` is the overloaded evaluation of binary operators, `Folded` that
of intrinsics. An exception is the expression `Thrown`, a failed assertion
`Stopped`. What is read after it was moved away is `MovedFrom`: a literal, a
constant or a reference is still there, of anything else the content is lost.

A derivative does not copy what it was derived from, it refers to it (`Ref`, which
is `clone_or_ref`). The entries of the evaluator look through references: both
operands of an operator (`subexpression.cpp:523`), the operand of a minus (`:510`)
and each argument of an intrinsic (`intrinsic.cpp:1515`) are replaced by copies of
what they refer to (`Unref`, in `Operated`, `Evaluated` and `Invoked`). Below
these entries a reference is opaque: what an operand has for operands of its own
is not looked at unless a fold calls an entry again, as those do that make an
operator (`Operated`). `Invoked` also has the assertion of `intrinsic.cpp:1517`,
that a single argument is no list: lists among arguments are put in item by item
before, but not those that are referred to.

Numbers are those of `Algebra`: sums of products of symbols, exact. Values of
variables, and of functions of what is no number known exactly, are symbols of
their own, so that exchanged operands, a lost sign or a wrong factor give another
number, and the check covers every value of the variables at once. The laws are
those the identities of the program rest on: sines are odd, a power is an
exponential of a product, an absolute value of a square is that square.
`Meaning` of `Expressions` says what an expression is worth without any of the
program's methods: a chain of operators is split at the weakest, and values of
lists and calls are arguments in a row.

`Misfolded` lists four folds of the evaluator that change the value, which were
met in writing the model: scale2 of literals (finding 2), the cosine of the
constant pi, which becomes 0, lg of an exponential, which becomes two values,
and log2 and lg of a `pow` of one argument, which read it after it was moved
away. `FoldingKeepsMeaning` is claimed of everything else.

### Derivator, Programs, Calculus

`primitives` is the program, `derivatives` what was derived of it, `trimmed` a
derivative and what `leaf` made of it. `left` says that a transformation was
left by an exception or by a failed assertion. The actions are the
transformations: `Simplify` is `evaluate` of the program, `Derive` is `derive` of
its last function or `Jacobian` of all of them, `Join` puts the derivatives
behind the program, as the tests do before they compile both, so that they can be
derived again, `Trim` is `leaf`.

The derivative by x of a function of z has two arguments, z and z{x}, and every
further variable at most doubles them. Which argument is where is kept in
the descriptor: `Pushed` adds a block for one more variable, of the derivatives
of the blocks since the variable was taken last. `LvaluesDerived` is the
overload for names (arguments and local variables), `Expanded` that for values;
the two must lay out the same. `VariableDerivative` looks a name up in `locals`,
the scopes of the derivation. `Obtained` is `operator ()`: it looks for the
derivative among primitives and derivatives, or else obtains that of one order
less, derives it, evaluates what it got, derives the functions that are called,
and appends it.

Three faults of the code are modelled as they are.

* For a call with arguments the descriptor is replaced by the callee's and not put
  back (`derivator.cpp:239`: the guard restores a plain descriptor of its own).
  Where the derivative calls functions of different orders, as that of `g(z) * z`
  calls g{x} and g, the descriptor may be left that of g. It is read again by the
  declarations that follow, from the second order on, and by the arguments at
  the next order: both fail the assertion of `derivator.cpp:165`, the third
  derivative of `g(z) * z` for one.
* `expand` reads the end of its loop through a reference into the descriptor
  (`derivator.cpp:138`), which a call among the values has by then moved away: the
  read is of freed memory, and `freed` is what it finds, the old value or one more
  or less (`Bounds`). One more fails the assertion behind it; one less leaves the last
  block of arguments or values out.
* The evaluator makes a list of one value of `sin(-x)`, and likewise of twice,
  tg and ctg. If the program was evaluated before it is derived, the derivative may
  refer to that list: of `x / sin(-z)` it has the square of the divisor, and
  `intrinsic.cpp:1517` fails. An invocation with a wrong number of arguments
  (`chs(z, t)`, which the compiler would refuse) fails the assertions of the folds in
  the same way.

`RefusalsOwed` lists these circumstances (`Outdates`, `freed`, `Unfoldable`) and
says that no assertion fails in any other: the second derivative of `g(z) * z`,
the third of `g(z)`, any program without calls and without the operands of the third fault. That the faults do no worse is
said by the other two: a derivative that is not refused has the values of a derivative,
or its calls and declarations have a wrong number of values and the compiler
refuses it (`DerivativesDerive`, for whatever freed memory holds); and the numbers
are right unless the bound was too low (`DerivativesCompile`).

An entry computes what `Returned` of `Programs` says: arguments are numbers,
declarations bind one value after the other, blocks end, callees are evaluated
with the values of the arguments. Nothing of it knows of descriptors or of
duals. A variable that depends on others is a symbol, and its derivative another
(`Calculus`), so that one comparison covers all values. `DerivativesDerive` then
compares a derivative with the derivative of what its parent computes.

What is wrong without being undefined is named where it is excepted:

* `Hiding`: a local variable that hides the name it is computed from, as in
  `local z = z * x`, is in scope when its value is derived, and the derivative
  is that of the local;
* intrem has two values, but its derivative three, zero and the derivative of each
  argument (`derivator/intrinsic.cpp:144`);
* `Redeclared`: `leaf` replaces a derivative of an argument by zero also where a
  local variable of that name hides the argument.

The comment at `transform.hpp:13` advises to apply `Jacobian` to its joined
results for a Hessian. The second Jacobian asks for the first derivatives of the
same symbols, finds them in the program and derives nothing; `Join` and then
`Derive` with two variables is what gives second derivatives. A function that calls itself, which
the assembler would refuse, sends the derivator into a recursion without end; no
program of the checks has one.

### Text

A text is a sequence of tokens. `Printed...` is the output operator of the tree,
`...Read` the grammar, one operator for a rule, with positions. `Derivator`
prints each program it makes and reads it (`PrintedReadsBack`). The printer puts
brackets around what has operators and nothing else. A minus is
printed right before its operand; before a literal that has a sign of its own
this would be a text that the grammar refuses (`parser.hpp:285`), but the
evaluator leaves no such tree. Words are tokens:
that a name like `info` is not read as the number inf and a name `o`
(`parser.hpp:280`), and how many digits of a number are printed
(`io.hpp:108`), is outside of the model.

## The checks

| run | what it checks | bounds |
|---|---|---|
| `spill_machine` | all invariants of `Monitor`; no instruction fails, values in use are the top registers; the declared frame and registers cover what is touched; refinement of `OperandStack` | three registers, two numbers, one parameter, three kinds of callee, two locals, four temporaries, three open brackets |
| `spill_machine_full` | the refinement with the real number of registers | eight registers, ten temporaries, one local, eleven slots; at most one operand differs from zero at a time (`Sparse`) |
| `linkage` | frames of callers and callees, translated addresses, `monitor::check`, termination | three registers, nine function bodies, programs of four functions |
| `symbols` | look-ups of names: shadowing, blocks, parameters, `_`; literals and globals, recorded operands, calls, translated copies; refinement of `Scoping` | two names, a function of three parameters of which two share a name or one of none, two functions, four declarations, three brackets, five literals, three cells; scopes and heap explored apart (`ScopesOrHeap`) |
| `code_generation` | values, footprints and refusals of compiled expressions, with and without the evaluator; meaning kept by the evaluator, literals evaluated, exceptions only where there is no value | some ten thousand expressions, each interpreted and, translated, in all three memory formats: every intrinsic of no to three operands of ten kinds, every operator on those, chains of two to four operators, every operator between thirteen kinds of operand the evaluator tells apart, intrinsics of intrinsics, polynomials of up to four coefficients |
| `derivator` | derivatives, what they call and with how many values, refusals and failed assertions, `leaf`, evaluation of functions, text | the derivative of every intrinsic and every operator, of arguments, globals and literals; operands that the evaluator folds (signs, inverse functions, absolute values, lists) under every operator and intrinsic that refers to them; nine programs with calls in values, arguments and operands, eleven with declarations and blocks, by one variable, two, or one twice, some by three; Jacobians |
| `symbols_nan` | finding 5 | as the heap of `symbols`, three literals with NaN among them |
| `scenario_declare` | finding 1 below | the function's text |
| `evaluator_scaling` | finding 2 | scale2 of two operands, each 3, 7 or x |
| `extract_order` | finding 6 | extract of 3, 7 and x |
| `linkage_brackets` | finding 3 | two functions |
| `linkage_high` | finding 4 | three functions, stack above the 32-bit range |

Why the bounds are enough: `adjust` has three outcomes (reload, spill, neither)
and two ways round the ring for each turn. With three registers and four
temporaries every one of them happens with operands in
registers only, in the frame only, and in both; the run with eight registers
covers the turns by the real depth, in both directions. What the properties say
of a call depends on the descriptor, and the callees chosen include one without
a frame, one whose frame holds only its arguments, and one that itself called
and so climbs. The numbers are few, but the operations are not commutative and
depend on every operand, so that a lost, duplicated or exchanged value changes a
result. In `linkage` a chain of four functions has every combination of a leaf,
a function that spills, one that calls from within an expression, one that calls
from a block, and one that passes two results on as two arguments.

For names, four declarations in three nested scopes of two names are enough for
a name to be hidden twice, uncovered again and declared anew in a slot that an
inner scope had used. Scopes are explored for one function with hardly a heap, the
heap for two functions without locals: a local variable and a cell of the heap
meet only in a look-up, which the first part has. For the heap, three cells hold a global between two
literals, before them and after them, and two functions one of which can call
the other.

For expressions, the compiler looks at the kind of each operand and at its number
of values and the evaluator at kinds two levels deep (an intrinsic of an
intrinsic) and at literals that are 0, 1, -1, negative or none of these; the
operands are chosen so that every such case occurs on either side. Chains of
four operators have every order of the precedences -, / and ^, in which the
algorithm collapses none, some or all of what is pending. Expressions that are
nested more deeply are made of the same cases, since both programs are
recursive and look no further.

For derivatives, blocks overlap from the second derivative on, where the variable
is the same or another, and the third is the first to derive a variable taken
before the last. The programs call a function in a value, in an argument of a
call and beside another operand, and declare one, two and two by one call,
since these are the places where the descriptor is used again. Deeper programs
repeat them.

Every run is free to stop: a function or a program ends. Deadlock is therefore
not checked.

Fairness: `LinkageSpec` assumes weak fairness of the execution steps, and
nothing of the assembly. The interpreter is a loop over the instructions of a
function in one thread; it goes on unless an instruction fails. `Terminates`
then says that execution always ends, that is, that no instruction fails and
that calls do not recur.

### Findings

1. `assembler.cpp:600`. `local s, c = sincos(1) + g(2)` stops the assembler:
   the call spills the values below its argument, and they are still in the frame
   when the first variable is allocated. The assertion says that the frame holds
   locals only. `scenario_declare` shows it with eight registers.
2. `transform/evaluator/intrinsic.cpp:1297`. The evaluator makes 56 of
   scale2(3, 7), which is 7 times the third power of 2; compiled code computes 3
   times the seventh. `tokens.hpp:120` and the run-time tests
   (`runtime_test.cpp:585`) agree with the compiled code, the evaluator's test
   with the evaluator. What a program computes depends on whether it was
   evaluated first.
3. `virtual_machine.cpp:867` and `874`. `bra` and `ket` check the registers
   against `output_`, which after a call is the number of results of the callee.
   A block after a call therefore stops the interpreter, although the registers
   are as they should be. `linkage` shows that all other assertions hold.
4. `translator.cpp:272`, `288`. `sp_inc` and `sp_dec` are translated to an
   addition to `ecx` without the prefix that makes it 64 bits wide. On x86-64,
   which `CMakeLists.txt:35` selects, this clears the upper half of the address
   of the frame; it is harmless only if the stack lies in the lowest four
   gigabytes.

5. `assembler.hpp:376` says of `literal_offset` "appends to heap if not exists".
   The literal `nan`, which `x3::real_parser` reads, does not: it equals no
   literal, but in a `std::map` it is found as any key that it is compared with
   last, so that it gets another literal's cell, or another literal gets its.
6. `tokens.hpp:121` describes extract as "extracts the significand and the
   exponent <=> (x / scale2(1.0, logb(x))), logb(x)". Compiled code (`fxtract`,
   `compiler.cpp:1045`) and the evaluator (`transform/evaluator/intrinsic.cpp:1315`)
   give the exponent first, and so the tests expect it (`extract.txt:2`,
   `local e, s = extract(x)`; `evaluator_test.cpp:690`). Unlike in finding 2 the
   code agrees with itself and with its tests, so `Meaning`, and with it
   `ComputesMeaning` and `FoldingKeepsMeaning`, has the order of the tests, and
   `extract_order` shows that the description is wrong.

## The proofs

`MonitorProofs` proves every invariant of `Monitor` for every number of
registers from three on, every set of callees that satisfies the assertions of
`function::leave`, and every bound. The assumptions are those of `Monitor`:
`DepthAssumption`, `BoundsAssumption`, `CalleesAssumption`. The last of them is
what `FinishedFunctionIsCallee` proves of each function assembled, so the two
together carry from one function to the next.

The argument: `Inductive` adds to the type invariant, the register budget, the
frame layout and the nesting of brackets that the function's own bracket holds
the arguments only (`BodyBracket`; without it nothing says that the last `ket`
leaves the arguments in place) and that `ret` has recorded a positive number of
results covered by `clobbered_` (`ResultsRecorded`). The lemmas follow the
code: `DeepenedFields`, `SettledFields`, `ReloadedFields`, `SpilledFields`,
`BalancedFields` and `AdjustedFields` say what each part of `adjust` does to the
counters of a request that can be served, `RequestsServable` that every request
of the compiler is such a one, and `CalledFields`, `AllocatedFields`,
`ClosedFields`, `ReturnedFields` what the composite operations do.
`NextInductive` has a step per action. `ReloadNeverSpills` justifies that
`Reloaded` and `Spilled` do not model the nested `adjust` in full: it shows
that the nested call finds nothing to do.

`SymbolsProofs` proves every invariant of `Symbols` for every set of names,
literals and parameter lists: the tables are of their types (`SymbolsTypeOK`), the
names in scope are as many as the locals of the monitor at every bracket
(`NamesFollowMonitor`), each heap cell has one owner (`CellsOwned`), every operand
recorded goes on reading what the text named (`OperandsStand`), stores reach
globals only (`StoresReachGlobals`) and calls go back (`CallsGoBack`). All but the
first two are under the assumption `ProperLiterals` that no literal is NaN;
finding 5 shows that it is needed. `Inductive` adds types of the tables and
`SymbolFresh`: the function being compiled has a name that no function or global
has, without which `leave` could overwrite an entry of the export table. The
lemmas are about lists that grow at their end: an operand that reads a cell goes
on reading it (`ReadsOfLonger`), and a function added is read as those before
(`ReadsOfMore`). For names the invariant is `Scopes`, the types of brackets and
locals together with what the monitor keeps; a bracket that closes cuts both at
the same place.

`SymbolsRefinementProofs` proves that `Symbols` implements `Scoping`
(`AssemblerKeepsPromise`), for all names, literals, parameter lists and bounds and
under the same assumption on NaN: a name reaches the variable of the innermost
open scope that declares it, else the global; a call the function of that name; and
of a function that was refused nothing is seen later. The invariant `Kept` adds to
`Inductive` and `Scopes` that an exported name is that of its function
(`Registered`), that every local variable has a slot, and that an assembler whose
function has not begun has no locals (`FrameKept`); the last is why a definition
after a refused one meets the assertions of `enter` (`AbortMaps`). A scope is a part
of the list, in which a name means what its last place there has (`ScopeMeaning`).
The work is in lemmas on how the parts (`Cuts`) change: a bracket opened adds an
empty one (`CutsOpened`), a bracket closed takes the last away and leaves the others
(`CutsClosed`), a declaration extends the last, whose name it did not have
(`CutsDeclared`), the parameters make the first (`CutsEntered`), and the last place
of a name in the whole list lies in the innermost part that has the name
(`CutsUse`), which is why one search from the newest to the oldest finds it. Then
each action has a lemma (`KetMaps`, `AllocaMaps`, `UseLocalMaps` ...) that maps it to
one of `Scoping`.

`SpillMachineProofs` proves the invariants of `SpillMachine` for every number of
registers, every set of callees, every size of the frame that holds what a
statement may have, and every interpretation of the instructions: the emitted
code never pushes onto a full register, pops or reads an empty one, or leaves the
frame (`NoFault`), writes no slot beyond the frame the function declares
(`FrameCovered`) and uses no more registers than it declares
(`ClobberCovered`). To the assumptions of `Monitor` come three: instructions make
numbers of numbers (`ValuesAssumption`), the marks of an empty register are no
numbers (`MarksAssumption`), and the frame has room for the bounds of the model
(`FrameAssumption`).

The inductive invariant `MachineInductive` joins the invariant of the counters
(`Inductive`) with what they say of the machine: `Carries`, that the values in use
are on the top registers and in the slots in use, the other registers empty and
the slots beyond the declared frame unwritten; and `FreshBetween`, that as long as
fewer than all registers are declared nothing was spilled, and the registers
between those in use and those that were in use are fresh. Without the second,
`ClobberCovered` is not inductive: that a register below the top is fresh follows
from no counter. The argument has three layers. `RingReloaded` and
`RingSpilled` are about the ring alone: turned, loaded or stored, and turned back
it holds the same values in the same order. `SpillCodeCarries` makes of them
what the spill code of any request does (`Keeps`: each operand and each local
variable is what it was, whether in a register or in the frame), and
`ExecutedCarries` that an instruction after it that changes no more than its
footprint restores the invariant. Then each instruction has a lemma that says
that it does so, and calls, declarations, `ret` and brackets, which are more than
a footprint, one of their own. `MachineNextInductive` has a step per action.

`SpillRefinementProofs` proves that `SpillMachine` implements `OperandStack`
(`MachineImplementsStack`), under the same assumptions: whatever the number of
registers, locals, operands and callees, the emitted code with its spills and
reloads computes as on an operand stack of unlimited depth. `MachineInductive` is
the invariant, and each action of the machine has a lemma (`ApplyMaps`,
`StoreMaps`, `CallMaps` ...) that maps it to an action of the stack or to a
stutter. Most of them rest on `InstructionMoves`: for a request of the compiler,
with the spill code before it, the operands the instruction takes were the newest
ones (`Moved`), and those it leaves are the newest ones now, while all other
operands and all locals stand, each wherever it now lives. `MovedReplaces` makes
of this that the list of operands changes at its end only. Instructions that
name an operand further down (`CopyMaps`, `DropMaps`, `SquashMaps`) also have to
say where it was, in a register or in the frame, and calls (`CallPositions`, `CallMaps`) which slots
of the frame the arguments are passed in and which registers the callee declares.

`LinkageProofs` proves what `Linkage` states of whole programs, for every number
of registers, all function definitions the compiler can make requests for
(`BodiesAssumption`: any lists of such requests), programs of any length and
calls of any depth: no assertion of the interpreter fails and no instruction is
refused (`MachineAccepts`), frames nest (`FramesNested`), functions leave their
callers' registers alone (`RegistersAreOwn`), and `monitor::check` gives the
code it is given (`CheckSucceeds`). That interpreter and translated code address
the same slots (`AddressesAgree`) is proved under the hypothesis `StackIsLow`,
that the stack lies below the bound of a 32-bit address; finding 4 is that
nothing in the code sees to it, and the run `linkage_high` shows that without it
the property fails.

The inductive invariant `LinkageInductive` relates two times: the counters the
monitor had at an instruction when it was assembled are those the machine has
when it executes it. `Traced` says so of the code of a function: there is a list
of counters, one before each instruction and one at the end, in which each
instruction finds what it needs (`Executable`) and takes the counters to the next
ones, and which never exceed what the descriptor declares (`Fits`). While a
function is being assembled its list ends at the monitor's counters
(`InProgress`); a request of the compiler makes it longer (`RequestReaches`,
`CallReaches`), by the spill code and the instruction itself, and the descriptor
that grows with it still covers what came before (`ReachesCovered`). Of a
finished function the list is kept for good (`Linked`, `LinkedAppend`), since
functions assembled later change nothing for it. At run time each active call
stands at a place of its function's list (`Active`): the last one with the
machine's counters (`Agrees`), the others with those they will have when their
callee returns (`Suspended`). Then each kind of instruction has its step, `call`
adds a frame within the caller's and `ret` removes it. `AddressesAgree` needs the
further invariant `Addressing`, that `ecx` points to the slot of the stack
pointer, which arithmetic modulo `Word` keeps as long as the address does not
reach it. TLC checked both invariants on the instance of the run `linkage` before
they were proved. For `CheckSucceeds` the list of counters is also what `check`
goes through: from the counters in the list `verify` adds no spill code, since
the code has its own (`Stepped`).

That every execution ends (`Terminates`) is liveness, and beyond the prover; what
it rests on is proved. A function's code calls only functions assembled before it,
so in the chain of calls each function comes before that of its caller
(`CallsDescendHolds`), and no function is in the chain twice. Therefore each
function of a program has a number of instructions that its call in progress
still has before it (`Left`), and every step of the machine makes that number
smaller for one function and leaves it as it was for all functions assembled
later (`ExecutionDescends`): an instruction other than a call for the innermost
function, a call for the caller while it adds to a function further down, a
return to zero. That order is well-founded, so an execution cannot go on forever.
That it does not stop before its end is `MachineAccepts` together with the
fairness of the loop, and that some instruction is always enabled is left to the
run `linkage`.

`VirtualMachineProofs` proves of the virtual machine what `code_generation` checks
of compiled expressions, for all code that counts (`Counts`: each instruction is
one that the machine has, and finds the operands its footprint names among those
that the footprints before it left) and whatever the instructions compute: none
takes an operand of the caller's (`CallerUntouched`), each leaves everything
below its footprint and as many in its place as the footprint says
(`FootprintKept`), and at the end there are as many results as were counted
(`ResultsLeft`). The only assumption is `EntriesAssumption`, that functions have
numbers of arguments and results. The invariant `MachineCounted` says that the
operands of the caller lie below those of the code and that what is left of the
code counts from as many operands as there are above them. Each action has a
lemma (`BinariesKeeps`, `RegistersKeeps` ...) that computes its stack and compares
it with the footprint (`Rebuilt`). That the compiler emits such code is what the
run shows, since `CallerUntouched` asks of every instruction before it is
interpreted what `Counts` does. `CodeComposes` is the reason why it does: codes
that count by themselves count one after the other, whatever lies below.

Induction over data by the theorems of the library is beyond the installed
provers, but not induction itself: if a recursively defined list (`Replayed`)
differed from what it should be, there would be a smallest place where it does
(`Smallest`, from the library's theorem that the order of the natural numbers is
well-founded), and it does not differ there if it does not before.

The invariants of `Monitor` are checked by `spill_machine` together with the
machine that its code drives, and proved of every instance.

Only model-checked: what the run `derivator` checks; of `code_generation` that
compiled code counts, the numbers it computes, and refusals; and the liveness of
`Terminates`, whose safety part is proved.

The modules on expressions, text and derivatives are recursive, as the programs
they model, and out of the prover's reach. `MachineCode` is finite: its tables are
checked as a whole by the run.

## Not modelled

* The numeric side of instructions: NaN, infinities, rounding errors, the sign
  of zero, range checks of `fprem` and `fdiv`. Hence also what an expression
  without a value computes: compiled code makes a NaN of it, and where the
  evaluator simplifies, as in `0 * x` or `x ^ 0`, it does so for those x for
  which both sides have a value.
* How the parser splits characters into tokens, its pragmas (`ret`, `drop`),
  annotations of errors and error messages. Printer and derivator drop pragmas;
  the assembler's `ret` does not look at the `drop` it is given
  (`assembler.cpp:547`).
* Operators of compound assignments, which the derivator refuses as it does any
  assignment; programs with assignments are given no values by `Programs`.
* extract, pow2m1, arcsin and arccos without arguments: the compiler takes the
  last element of an empty list, which is undefined.
* Instructions that only a direct user of the assembler can issue (`fdecstp` and
  `fincstp` outside spill code, `ffree`, `ffreep`, `fst`, `fcom`), and functions
  with register inputs; `MachineCode` has their bytes. Of `ffreep` with operand 0
  the assembler computes the operand below it (`assembler.cpp:416`), and after
  `fxam` of an empty register the interpreter sets other codes
  (`virtual_machine.cpp:86`) than the comment at `assembler.cpp:293` names.
* That a function returns more values than there are registers is refused by an
  assertion (`assembler.cpp:555`) and nothing before it; `Monitor` has this step
  as `RetAborts`.
* The sign of zero: a literal -0.0 is loaded as `fldz` (`assembler.hpp:395`).
* Several runs of one `virtual_machine` of which some fail, and global variables
  together with the order of evaluation.
* The prologue of translated programs and how `instance` calls them (inline
  assembly), `xallocator`, layout and digits of what is printed, output of code.

## Plan

What is left, in this order:

1. `Session`: several runs of one `virtual_machine`, of which some fail.
2. `Linkage` in full detail with global variables and evaluation order.
3. The theorem that the processor decodes of `MachineCode` what was encoded: a
   case for each row of the tables, and the displacements of one and four bytes.
