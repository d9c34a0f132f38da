----------------------------- MODULE MachineCode -----------------------------
(***************************************************************************)
(* The bytes that the translator makes of instructions, and what the       *)
(* processor makes of the bytes.                                           *)
(*                                                                         *)
(* Instructions are written as in CodeGeneration.  Of an operand in memory *)
(* the address is encoded: <<op, "mem", address>>, where an address is     *)
(* <<base register, displacement in bytes>>.                               *)
(***************************************************************************)
EXTENDS Integers, Sequences, Functions, FiniteSetsExt, TLC

(* The formats of numbers in memory: a choice of the build.                *)
Formats == {"float", "double", "long double"}
SizeOf  == [f \in Formats |-> CASE f = "float" -> 4 [] f = "double" -> 8 [] f = "long double" -> 16]

(***************************************************************************)
(* The translator.                                                         *)
(***************************************************************************)
(* Instructions without an operand, by their first byte.                   *)
PlainCodes ==
  \hD9 :> [fnop |-> \hD0, fdecstp |-> \hF6, fincstp |-> \hF7, fxam |-> \hE5, ftst |-> \hE4,
           fabs |-> \hE1, fchs |-> \hE0, frndint |-> \hFC, fsqrt |-> \hFA, fcos |-> \hFF,
           fsin |-> \hFE, f2xm1 |-> \hF0, fldz |-> \hEE, fld1 |-> \hE8, fldpi |-> \hEB,
           fldl2e |-> \hEA, fldl2t |-> \hE9, fldlg2 |-> \hEC, fldln2 |-> \hED, fxch |-> \hC9,
           fscale |-> \hFD, fprem |-> \hF8, fprem1 |-> \hF5, fpatan |-> \hF3, fyl2x |-> \hF1,
           fyl2xp1 |-> \hF9, fptan |-> \hF2, fsincos |-> \hFB, fxtract |-> \hF4]
  @@ \hD8 :> [fcom |-> \hD1, fcomp |-> \hD9]
  @@ \hDA :> [fucompp |-> \hE9]
  @@ \hDB :> [fninit |-> \hE3]
  @@ \hDD :> [fucom |-> \hE1, fucomp |-> \hE9]
  @@ \hDE :> [fcompp |-> \hD9, fadd |-> \hC1, fsub |-> \hE9, fsubr |-> \hE1, fmul |-> \hC9,
              fdiv |-> \hF9, fdivr |-> \hF1]
  @@ \hDF :> [fnstsw |-> \hE0]

NamedCode(op) == LET b == CHOOSE k \in DOMAIN PlainCodes : op \in DOMAIN PlainCodes[k]
                 IN  <<b, PlainCodes[b][op]>>

(* unary, fsource and fdestination: the operand is in the second byte.     *)
RegisterCodes ==
  [fst |-> <<\hDD, \hD0>>, fstp |-> <<\hDD, \hD8>>, fld |-> <<\hD9, \hC0>>, fcom |-> <<\hD8, \hD0>>,
   fucom |-> <<\hDD, \hE0>>, fcomp |-> <<\hD8, \hD8>>, fucomp |-> <<\hDD, \hE8>>,
   ffree |-> <<\hDD, \hC0>>, ffreep |-> <<\hDF, \hC0>>, fxch |-> <<\hD9, \hC8>>]

SourceCodes ==
  [fcmovb  |-> <<\hDA, \hC0>>, fcmove  |-> <<\hDA, \hC8>>, fcmovbe  |-> <<\hDA, \hD0>>,
   fcmovu  |-> <<\hDA, \hD8>>, fcmovnb |-> <<\hDB, \hC0>>, fcmovne  |-> <<\hDB, \hC8>>,
   fcmovnbe |-> <<\hDB, \hD0>>, fcmovnu |-> <<\hDB, \hD8>>, fcomi   |-> <<\hDB, \hF0>>,
   fucomi  |-> <<\hDB, \hE8>>, fcomip  |-> <<\hDF, \hF0>>, fucomip  |-> <<\hDF, \hE8>>]

DestinationCodes ==
  [faddp |-> <<\hDE, \hC0>>, fsubp |-> <<\hDE, \hE8>>, fsubrp |-> <<\hDE, \hE0>>,
   fmulp |-> <<\hDE, \hC8>>, fdivp |-> <<\hDE, \hF8>>, fdivrp |-> <<\hDE, \hF0>>]

WithRegister(codes, op, i) == <<codes[op][1], codes[op][2] + i>>

(* fbinary: the bit that tells fsub from fsubr, and fdiv from fdivr, is    *)
(* reversed if the destination is not the top.                             *)
ArithmeticCodes ==
  [fadd |-> \hC0, fmul |-> \hC8, fsub |-> \hE0, fsubr |-> \hE8, fdiv |-> \hF0, fdivr |-> \hF8]
Opposite(op) ==
  CASE op = "fsub" -> "fsubr" [] op = "fsubr" -> "fsub" [] op = "fdiv" -> "fdivr" [] op = "fdivr" -> "fdiv"
    [] op \in {"fadd", "fmul"} -> op

MutantFBinary(op, d, s) ==
  IF d # 0 THEN <<\hDC, ArithmeticCodes[op] + d>> ELSE <<\hD8, ArithmeticCodes[op] + s>>
FBinary(op, d, s) ==
  IF d # 0 THEN <<\hDC, ArithmeticCodes[Opposite(op)] + d>> ELSE <<\hD8, ArithmeticCodes[op] + s>>

(* memory_access: not every instruction has an operand of 80 bits.         *)
MemoryFields ==
  [fadd |-> 0, fmul |-> 1, fcom |-> 2, fcomp |-> 3, fsub |-> 4, fsubr |-> 5, fdiv |-> 6, fdivr |-> 7]
TransferFields == [fld |-> 0, fst |-> 2, fstp |-> 3]

MemoryAccess(op, format) ==
  CASE format # "long double" /\ op \in DOMAIN MemoryFields ->
         <<IF format = "float" THEN \hD8 ELSE \hDC, 8 * MemoryFields[op]>>
    [] format # "long double" /\ op \in DOMAIN TransferFields ->
         <<IF format = "float" THEN \hD9 ELSE \hDD, 8 * TransferFields[op]>>
    [] format = "long double" /\ op = "fld"  -> <<\hDB, 8 * 5>>
    [] format = "long double" /\ op = "fstp" -> <<\hDB, 8 * 7>>

(* Base registers, as they are numbered.                                   *)
RegisterNumber == [a |-> 0, c |-> 1, d |-> 2, b |-> 3, sp |-> 4, bp |-> 5, si |-> 6, di |-> 7]

(* add_displacement: n bytes, the lowest first.                            *)
DisplacementBytes(displacement, n) == [k \in 1 .. n |-> (displacement \div 256^(k - 1)) % 256]

(* inderect_address: the mode and the base go into the second byte; of a   *)
(* displacement of some size both signs are encoded in the same width.     *)
MutantIndirectAddress(bytes, base, increase, size) ==
  LET width == CASE size = 0 /\ base # "bp"    -> 0
                 [] size = 0 /\ base = "bp"    -> 1
                 [] size # 0 /\ size <= 128    -> 1
                 [] size > 128                 -> 4
      mode  == CASE width = 0 -> 0 [] width = 1 -> 1 [] width = 4 -> 2
      scaled == IF base = "sp" THEN <<\h24>> ELSE <<>>
  IN  <<bytes[1], bytes[2] + 64 * mode + RegisterNumber[base]>>
        \o scaled \o DisplacementBytes(IF increase THEN size ELSE - size, width)
IndirectAddress(bytes, base, increase, size) ==
  LET width == CASE size = 0 /\ base # "bp"    -> 0
                 [] size = 0 /\ base = "bp"    -> 1
                 [] size # 0 /\ size <= 127    -> 1
                 [] size > 127                 -> 4
      mode  == CASE width = 0 -> 0 [] width = 1 -> 1 [] width = 4 -> 2
      scaled == IF base = "sp" THEN <<\h24>> ELSE <<>>
  IN  <<bytes[1], bytes[2] + 64 * mode + RegisterNumber[base]>>
        \o scaled \o DisplacementBytes(IF increase THEN size ELSE - size, width)

(* heap_access and stack_access: cell `offset`, the latter relative to the *)
(* stack pointer.                                                          *)
HeapAccess(op, format, offset) ==
  IndirectAddress(MemoryAccess(op, format), "d", TRUE, SizeOf[format] * offset)
StackAccess(op, format, offset, stackPointer) ==
  LET delta == IF offset < stackPointer THEN stackPointer - offset ELSE offset - stackPointer
  IN  IndirectAddress(MemoryAccess(op, format), "c", stackPointer < offset, SizeOf[format] * delta)

(* trunc: to a 64-bit integer below the stack pointer, and back.           *)
TruncCode == IndirectAddress(<<\hDD, \h08>>, "sp", FALSE, 8) \o IndirectAddress(<<\hDF, \h28>>, "sp", FALSE, 8)

(* translate, of instructions on registers.                                *)
Encoded(i) ==
  CASE i = <<"trunc">>                                       -> TruncCode
    [] Len(i) = 1 /\ i # <<"trunc">>                         -> NamedCode(i[1])
    [] Len(i) = 3                                            -> WithRegister(RegisterCodes, i[1], i[3])
    [] Len(i) = 4 /\ i[1] \in DOMAIN SourceCodes             -> WithRegister(SourceCodes, i[1], i[4])
    [] Len(i) = 4 /\ i[1] \in DOMAIN DestinationCodes        -> WithRegister(DestinationCodes, i[1], i[3])
    [] Len(i) = 4 /\ i[1] \in DOMAIN ArithmeticCodes         -> FBinary(i[1], i[3], i[4])

(***************************************************************************)
(* The processor: the FPU instructions by their three-bit fields.  The     *)
(* first byte is 11011 and an escape, the second has a mode, a field and a *)
(* register.                                                               *)
(***************************************************************************)
Invalid == <<"invalid">>

ArithmeticFields == <<"fadd", "fmul", "fcom", "fcomp", "fsub", "fsubr", "fdiv", "fdivr">>
(* Of escapes 4 and 6, where st(i) is the destination.                     *)
ReversedFields   == <<"fadd", "fmul", "", "", "fsubr", "fsub", "fdivr", "fdiv">>
PoppingFields    == <<"faddp", "fmulp", "", "", "fsubrp", "fsubp", "fdivrp", "fdivp">>

(* Of escape 1, by field and register.                                     *)
PlainFields ==
  <<<<"fchs", "fabs", "", "", "ftst", "fxam", "", "">>,
    <<"fld1", "fldl2t", "fldl2e", "fldpi", "fldlg2", "fldln2", "fldz", "">>,
    <<"f2xm1", "fyl2x", "fptan", "fpatan", "fxtract", "fprem1", "fdecstp", "fincstp">>,
    <<"fprem", "fyl2xp1", "fsqrt", "fsincos", "frndint", "fscale", "fsin", "fcos">>>>

Named1(name, rest) == IF name = "" THEN Invalid ELSE <<name>> \o rest

(* Instructions on registers: mode 3.                                      *)
OnRegisters(escape, field, i) ==
  LET Of(names) == names[field + 1]
  IN  CASE escape = 0 -> IF field \in {2, 3} THEN <<Of(ArithmeticFields), "st", i>>
                         ELSE <<Of(ArithmeticFields), "st", 0, i>>
        [] escape = 1 /\ field = 0 -> <<"fld", "st", i>>
        [] escape = 1 /\ field = 1 -> <<"fxch", "st", i>>
        [] escape = 1 /\ field = 2 -> IF i = 0 THEN <<"fnop">> ELSE Invalid
        [] escape = 1 /\ field = 3 -> Invalid
        [] escape = 1 /\ field > 3 -> Named1(PlainFields[field - 3][i + 1], <<>>)
        [] escape = 2 -> IF field = 5 /\ i = 1 THEN <<"fucompp">>
                         ELSE Named1(Of(<<"fcmovb", "fcmove", "fcmovbe", "fcmovu", "", "", "", "">>), <<"st", 0, i>>)
        [] escape = 3 -> IF field = 4 THEN IF i = 3 THEN <<"fninit">> ELSE Invalid
                         ELSE Named1(Of(<<"fcmovnb", "fcmovne", "fcmovnbe", "fcmovnu", "", "fucomi", "fcomi", "">>),
                                     <<"st", 0, i>>)
        [] escape = 4 -> Named1(Of(ReversedFields), <<"st", i, 0>>)
        [] escape = 5 -> Named1(Of(<<"ffree", "", "fst", "fstp", "fucom", "fucomp", "", "">>), <<"st", i>>)
        [] escape = 6 -> IF field = 3 /\ i = 1 THEN <<"fcompp">> ELSE Named1(Of(PoppingFields), <<"st", i, 0>>)
        [] escape = 7 -> IF field = 4 THEN IF i = 0 THEN <<"fnstsw">> ELSE Invalid
                         ELSE IF field = 0 THEN <<"ffreep", "st", i>>
                         ELSE Named1(Of(<<"", "", "", "", "", "fucomip", "fcomip", "">>), <<"st", 0, i>>)

(* Instructions with an operand in memory: other modes.  An instruction    *)
(* that loads or stores another format than `format` is not one of it.     *)
OnMemory(escape, field, format) ==
  LET Transfer == Named1(<<"fld", "", "fst", "fstp", "", "", "", "">>[field + 1], <<>>)
  IN  CASE escape = 0 /\ format = "float"  -> <<ArithmeticFields[field + 1]>>
        [] escape = 4 /\ format = "double" -> <<ArithmeticFields[field + 1]>>
        [] escape = 1 /\ format = "float"  -> Transfer
        [] escape = 5 /\ format = "double" -> Transfer
        [] escape = 5 /\ format = "integer" /\ field = 1 -> <<"fisttp">>
        [] escape = 7 /\ format = "integer" /\ field = 5 -> <<"fild">>
        [] escape = 3 /\ format = "long double" /\ field = 5 -> <<"fld">>
        [] escape = 3 /\ format = "long double" /\ field = 7 -> <<"fstp">>
        [] OTHER -> Invalid

SignedOf(bytes) ==
  LET Weight(k) == (IF k = Len(bytes) /\ bytes[k] > 127 THEN bytes[k] - 256 ELSE bytes[k]) * 256^(k - 1)
  IN  FoldFunction(+, 0, [k \in DOMAIN bytes |-> Weight(k)])

EscapeOf(bytes) == bytes[1] - \hD8
ModeOf(bytes)   == bytes[2] \div 64
FieldOf(bytes)  == (bytes[2] \div 8) % 8
RegisterOf(bytes) == bytes[2] % 8

(* The address after the second byte.                                      *)
AddressOf(bytes) ==
  LET base == CHOOSE r \in DOMAIN RegisterNumber : RegisterNumber[r] = RegisterOf(bytes)
      from == IF base = "sp" THEN 4 ELSE 3
      width == CASE ModeOf(bytes) = 0 -> 0 [] ModeOf(bytes) = 1 -> 1 [] ModeOf(bytes) = 2 -> 4
  IN  IF (base = "sp" /\ bytes[3] # \h24) \/ Len(bytes) # from + width - 1 THEN Invalid
      ELSE <<base, SignedOf(SubSeq(bytes, from, Len(bytes)))>>

(* One instruction that has an operand in memory.                          *)
DecodedAccess(bytes, format) ==
  OnMemory(EscapeOf(bytes), FieldOf(bytes), format) \o <<"mem", AddressOf(bytes)>>

(* One instruction on registers, by the names that the assembler uses:     *)
(* without operands where they are the usual ones.                         *)
Usual == [faddp |-> "fadd", fmulp |-> "fmul", fsubp |-> "fsub", fsubrp |-> "fsubr", fdivp |-> "fdiv",
          fdivrp |-> "fdivr"]
Assembled1(i) ==
  CASE i \in {<<op, "st", 1>> : op \in {"fxch", "fcom", "fcomp", "fucom", "fucomp"}} -> <<i[1]>>
    [] i \in {<<op, "st", 1, 0>> : op \in DOMAIN Usual}                             -> <<Usual[i[1]]>>
    [] OTHER                                                                        -> i

Decoded(bytes) ==
  IF ModeOf(bytes) = 3 THEN Assembled1(OnRegisters(EscapeOf(bytes), FieldOf(bytes), RegisterOf(bytes)))
  ELSE LET half == Len(bytes) \div 2
           first  == DecodedAccess(SubSeq(bytes, 1, half), "integer")
           second == DecodedAccess(SubSeq(bytes, half + 1, Len(bytes)), "integer")
       IN  IF first[1] = "fisttp" /\ second = <<"fild", "mem", first[3]>> THEN <<"trunc">> ELSE Invalid

=============================================================================
