------------------------------- MODULE Operands -------------------------------
(***************************************************************************)
(* The operands of the bytecode instructions, four times over: as they are *)
(* declared (cby/bytecode/insn.defs, priminsn.defs), and as the rewriter   *)
(* (rewrite.h), the disassembler (disasm.h) and the interpreter            *)
(* (interpreter.h) read them.  A layout says how many bytes each operand   *)
(* takes, which of them count the groups that follow, and the bytes of a   *)
(* group.  What an instruction computes is left out.  The interpreter      *)
(* reads the groups of casetbl, case, ffiinl and ffiprot where             *)
(* they lie and steps over them, or leaves the function.                   *)
(***************************************************************************)
EXTENDS Naturals, TLC

Fixed(fixed) == [fixed |-> fixed, count |-> {}, each |-> <<>>]
Counted(fixed, count, each) == [fixed |-> fixed, count |-> count, each |-> each]
Op(layout, names) == [op \in names |-> layout]

-----------------------------------------------------------------------------
(* The instructions and their operands as insn.defs and priminsn.defs      *)
(* declare them: what the compiler emits.                                  *)

Insn ==
     Op(Fixed(<<1>>), {"enter", "ret1", "jmp", "clos0"})
  @@ Op(Fixed(<<2, 1>>), {"limit"})
  @@ Op(Fixed(<<2>>), {"adj", "thread", "proc", "plocal"})
  @@ Op(Fixed(<<1, 1, 1>>), {"idx", "mov2", "con1", "ret3", "ifeq", "app2"})
  @@ Op(Fixed(<<2, 2, 2>>), {"idxl", "set", "movl2", "evfilt"})
  @@ Op(Fixed(<<1, 1>>),
       {"int8", "uint8", "xint8", "movc2", "movc3", "movc4", "mov1", "con0", "cont", "ret2",
        "if", "app1", "clos1", "clos2", "clos3", "clos4"})
  @@ Op(Fixed(<<2, 4>>),
       {"int32", "uint32", "float32", "string", "buffer", "xint", "xintn", "contl", "ifl",
        "ffiget", "ffiset"})
  @@ Op(Fixed(<<2, 8>>), {"int64", "uint64", "float64", "xint64"})
  @@ Op(Fixed(<<2, 2>>), {"movcl2", "movcl3", "movcl4", "movl1", "conl0", "tstate"})
  @@ Op(Fixed(<<1, 1, 1, 1>>), {"mov3", "choice", "con2", "ret4", "app3"})
  @@ Op(Fixed(<<1, 1, 1, 1, 1>>), {"mov4", "con3", "app4"})
  @@ Op(Counted(<<2, 4, 2>>, {3}, <<2>>), {"thk"})
  @@ Op(Fixed(<<1, 4>>), {"thk0"})
  @@ Op(Fixed(<<1, 1, 4>>), {"thk1", "fn0", "kapp1"})
  @@ Op(Fixed(<<1, 1, 1, 4>>), {"thk2", "fn1", "kapp2"})
  @@ Op(Fixed(<<1, 1, 1, 1, 4>>), {"thk3", "fn2", "kapp3"})
  @@ Op(Fixed(<<1, 1, 1, 1, 1, 4>>), {"thk4", "fn3", "kapp4"})
  @@ Op(Counted(<<2, 4, 1, 2>>, {4}, <<2>>), {"fn"})
  @@ Op(Fixed(<<1, 1, 1, 1, 1, 1, 4>>), {"fn4", "kapp5"})
  @@ Op(Counted(<<2, 2, 2>>, {3}, <<2>>), {"con"})
  @@ Op(Fixed(<<1, 1, 1, 1, 1, 1>>), {"con4", "app5"})
  @@ Op(Counted(<<2, 4, 4>>, {2, 3}, <<4>>), {"casetbl"})
  @@ Op(Counted(<<2, 2>>, {2}, <<4, 4>>), {"case"})
  @@ Op(Counted(<<1>>, {1}, <<2>>), {"ret"})
  @@ Op(Fixed(<<4, 2, 4>>), {"ifeql"})
  @@ Op(Fixed(<<4>>), {"jmpl"})
  @@ Op(Counted(<<4, 2, 1>>, {3}, <<2>>), {"kapp"})
  @@ Op(Counted(<<2, 1>>, {2}, <<2>>), {"app"})
  @@ Op(Fixed(<<1, 2, 2>>), {"clos"})
  @@ Op(Counted(<<4, 1>>, {2}, <<2>>), {"ffitail", "ffiprot"})
  @@ Op(Counted(<<2, 4, 1>>, {3}, <<2>>), {"ffiinl"})

PrimInsn ==
     Op(Fixed(<<1, 1>>),
       {"bitsToFloat32", "bitsToFloat64", "charToString", "charToUInt32", "float32Abs",
        "float32Acos", "float32Asin", "float32Atan", "float32Ceil", "float32Cos",
        "float32Cosh", "float32Exp", "float32Expm1", "float32Floor", "float32Log",
        "float32Log1p", "float32Neg", "float32Round", "float32Sin", "float32Sinh",
        "float32Sqrt", "float32Tan", "float32Tanh", "float32ToBits", "float32ToFloat64",
        "float32ToInt", "float32ToInt32", "float32ToInt64", "float32ToUInt32",
        "float32ToUInt64", "float32Trunc", "float64Abs", "float64Acos", "float64Asin",
        "float64Atan", "float64Ceil", "float64Cos", "float64Cosh", "float64Exp",
        "float64Expm1", "float64Floor", "float64Log", "float64Log1p", "float64Neg",
        "float64Round", "float64Sin", "float64Sinh", "float64Sqrt", "float64Tan",
        "float64Tanh", "float64ToBits", "float64ToFloat32", "float64ToInt", "float64ToInt32",
        "float64ToInt64", "float64ToUInt32", "float64ToUInt64", "float64Trunc",
        "int16ToInt32", "int16ToUInt16", "int32Neg", "int32Not", "int32ToFloat32",
        "int32ToFloat64", "int32ToInt", "int32ToInt16", "int32ToInt64", "int32ToInt8",
        "int32ToUInt32", "int32ToUInt64", "int64Neg", "int64Not", "int64ToFloat32",
        "int64ToFloat64", "int64ToInt", "int64ToInt32", "int64ToUInt32", "int64ToUInt64",
        "int8ToInt32", "int8ToUInt8", "intNeg", "intNot", "intToFloat32", "intToFloat64",
        "intToInt32", "intToInt64", "intToUInt32", "intToUInt64", "stringCursorBegin",
        "stringCursorEnd", "stringNull", "uint16ToUInt32", "uint16ToInt16", "uint32Neg",
        "uint32Not", "uint32ToChar", "uint32ToFloat32", "uint32ToFloat64", "uint32ToInt",
        "uint32ToInt32", "uint32ToInt64", "uint32ToUInt16", "uint32ToUInt64", "uint32ToUInt8",
        "uint64Neg", "uint64Not", "uint64ToFloat32", "uint64ToFloat64", "uint64ToInt",
        "uint64ToInt32", "uint64ToInt64", "uint64ToUInt32", "uint8ToUInt32", "uint8ToInt8",
        "stringBuilderNew", "stringBuilderBuild", "bufferSize", "arraySize", "bufferNew",
        "tag"})
  @@ Op(Fixed(<<1, 1, 1>>),
       {"charEq", "charLe", "charLt", "charNe", "float32Add", "float32Div", "float32Eq",
        "float32Le", "float32Lt", "float32Mul", "float32Ne", "float32Pow", "float32Sub",
        "float64Add", "float64Div", "float64Eq", "float64Le", "float64Lt", "float64Mul",
        "float64Ne", "float64Pow", "float64Sub", "int32Add", "int32And", "int32Div",
        "int32Eq", "int32Le", "int32Lt", "int32Mod", "int32Mul", "int32Ne", "int32Or",
        "int32Quo", "int32Rem", "int32Shl", "int32Shr", "int32Sub", "int32Xor", "int64Add",
        "int64And", "int64Div", "int64Eq", "int64Le", "int64Lt", "int64Mod", "int64Mul",
        "int64Ne", "int64Or", "int64Quo", "int64Rem", "int64Shl", "int64Shr", "int64Sub",
        "int64Xor", "intAdd", "intAnd", "intCmp", "intDiv", "intEq", "intLe", "intLt",
        "intMod", "intMul", "intNe", "intOr", "intQuo", "intRem", "intShl", "intShr",
        "intSub", "intXor", "stringCmp", "stringCursorEq", "stringCursorLe", "stringCursorLt",
        "stringCursorNe", "stringCursorGet", "stringCursorNext", "stringCursorPrev",
        "stringEq", "stringLe", "stringLt", "stringNe", "uint32Add", "uint32And", "uint32Div",
        "uint32Eq", "uint32Le", "uint32Lt", "uint32Mod", "uint32Mul", "uint32Ne", "uint32Or",
        "uint32Shl", "uint32Shr", "uint32Sub", "uint32Xor", "uint64Add", "uint64And",
        "uint64Div", "uint64Eq", "uint64Le", "uint64Lt", "uint64Mod", "uint64Mul", "uint64Ne",
        "uint64Or", "uint64Shl", "uint64Shr", "uint64Sub", "uint64Xor", "stringBuilderChar",
        "stringBuilderString", "arrayNew", "arrayRead", "bufferReadFloat32",
        "bufferReadFloat64", "bufferReadUInt16", "bufferReadUInt32", "bufferReadUInt64",
        "bufferReadUInt8", "identical"})
  @@ Op(Fixed(<<1, 1, 1, 1>>),
       {"stringSlice", "arrayClone", "arrayWrite", "bufferClone", "bufferWriteFloat32",
        "bufferWriteFloat64", "bufferWriteUInt16", "bufferWriteUInt32", "bufferWriteUInt64",
        "bufferWriteUInt8"})
  @@ Op(Fixed(<<1>>), {"lazyForce"})
  @@ Op(Fixed(<<1, 1, 1, 1, 1>>), {"arrayCas", "bufferFill"})
  @@ Op(Fixed(<<1, 1, 1, 1, 1, 1>>), {"arrayCopy", "bufferCmp", "bufferCopy"})

EncodedOperands == Insn @@ PrimInsn

(* opcodes.h                                                               *)
Opcode1 ==
  {"enter", "limit", "adj", "idx", "idxl", "set", "int8", "int32", "int64", "uint8", "uint32",
   "uint64", "float32", "float64", "string", "buffer", "xint", "xintn", "xint8", "xint64",
   "movc2", "movc3", "movc4", "movcl2", "movcl3", "movcl4", "mov1", "mov2", "mov3", "mov4",
   "movl1", "movl2", "choice", "thk", "thk0", "thk1", "thk2", "thk3", "thk4", "fn", "fn0",
   "fn1", "fn2", "fn3", "fn4", "con", "con0", "conl0", "con1", "con2", "con3", "con4",
   "casetbl", "case", "cont", "contl", "ret1", "ret2", "ret3", "ret4", "ret", "if", "ifl",
   "ifeq", "ifeql", "jmp", "jmpl", "kapp", "kapp1", "kapp2", "kapp3", "kapp4", "kapp5", "app",
   "app1", "app2", "app3", "app4", "app5", "clos0", "clos1", "clos2", "clos3", "clos4",
   "clos", "ffiget", "ffiset", "ffitail", "ffiinl", "ffiprot", "thread", "proc", "plocal",
   "tstate", "evfilt", "bitsToFloat32", "bitsToFloat64", "charEq", "charLe", "charLt",
   "charNe", "charToString", "charToUInt32", "float32Abs", "float32Acos", "float32Add",
   "float32Asin", "float32Atan", "float32Ceil", "float32Cos", "float32Cosh", "float32Div",
   "float32Eq", "float32Exp", "float32Expm1", "float32Floor", "float32Le", "float32Log",
   "float32Log1p", "float32Lt", "float32Mul", "float32Ne", "float32Neg", "float32Pow",
   "float32Round", "float32Sin", "float32Sinh", "float32Sqrt", "float32Sub", "float32Tan",
   "float32Tanh", "float32ToBits", "float32ToFloat64", "float32ToInt", "float32ToInt32",
   "float32ToInt64", "float32ToUInt32", "float32ToUInt64", "float32Trunc", "float64Abs",
   "float64Acos", "float64Add", "float64Asin", "float64Atan", "float64Ceil", "float64Cos"}

Opcode2 ==
  {"float64Cosh", "float64Div", "float64Eq", "float64Exp", "float64Expm1", "float64Floor",
   "float64Le", "float64Log", "float64Log1p", "float64Lt", "float64Mul", "float64Ne",
   "float64Neg", "float64Pow", "float64Round", "float64Sin", "float64Sinh", "float64Sqrt",
   "float64Sub", "float64Tan", "float64Tanh", "float64ToBits", "float64ToFloat32",
   "float64ToInt", "float64ToInt32", "float64ToInt64", "float64ToUInt32", "float64ToUInt64",
   "float64Trunc", "int16ToInt32", "int16ToUInt16", "int32Add", "int32And", "int32Div",
   "int32Eq", "int32Le", "int32Lt", "int32Mod", "int32Mul", "int32Ne", "int32Neg", "int32Not",
   "int32Or", "int32Quo", "int32Rem", "int32Shl", "int32Shr", "int32Sub", "int32ToFloat32",
   "int32ToFloat64", "int32ToInt", "int32ToInt16", "int32ToInt64", "int32ToInt8",
   "int32ToUInt32", "int32ToUInt64", "int32Xor", "int64Add", "int64And", "int64Div",
   "int64Eq", "int64Le", "int64Lt", "int64Mod", "int64Mul", "int64Ne", "int64Neg", "int64Not",
   "int64Or", "int64Quo", "int64Rem", "int64Shl", "int64Shr", "int64Sub", "int64ToFloat32",
   "int64ToFloat64", "int64ToInt", "int64ToInt32", "int64ToUInt32", "int64ToUInt64",
   "int64Xor", "int8ToInt32", "int8ToUInt8", "intAdd", "intAnd", "intCmp", "intDiv", "intEq",
   "intLe", "intLt", "intMod", "intMul", "intNe", "intNeg", "intNot", "intOr", "intQuo",
   "intRem", "intShl", "intShr", "intSub", "intToFloat32", "intToFloat64", "intToInt32",
   "intToInt64", "intToUInt32", "intToUInt64", "intXor", "stringCmp", "stringCursorBegin",
   "stringCursorEnd", "stringCursorEq", "stringCursorLe", "stringCursorLt", "stringCursorNe",
   "stringCursorGet", "stringCursorNext", "stringCursorPrev", "stringEq", "stringLe",
   "stringLt", "stringNe", "stringNull", "stringSlice", "uint16ToUInt32", "uint16ToInt16",
   "uint32Add", "uint32And", "uint32Div", "uint32Eq", "uint32Le", "uint32Lt", "uint32Mod",
   "uint32Mul", "uint32Ne", "uint32Neg", "uint32Not", "uint32Or", "uint32Shl", "uint32Shr",
   "uint32Sub", "uint32ToChar", "uint32ToFloat32", "uint32ToFloat64"}

Opcode3 ==
  {"uint32ToInt", "uint32ToInt32", "uint32ToInt64", "uint32ToUInt16", "uint32ToUInt64",
   "uint32ToUInt8", "uint32Xor", "uint64Add", "uint64And", "uint64Div", "uint64Eq",
   "uint64Le", "uint64Lt", "uint64Mod", "uint64Mul", "uint64Ne", "uint64Neg", "uint64Not",
   "uint64Or", "uint64Shl", "uint64Shr", "uint64Sub", "uint64ToFloat32", "uint64ToFloat64",
   "uint64ToInt", "uint64ToInt32", "uint64ToInt64", "uint64ToUInt32", "uint64Xor",
   "uint8ToUInt32", "uint8ToInt8", "lazyForce", "stringBuilderNew", "stringBuilderChar",
   "stringBuilderString", "stringBuilderBuild", "bufferSize", "arraySize", "arrayCas",
   "arrayClone", "arrayCopy", "arrayNew", "arrayRead", "arrayWrite", "bufferClone",
   "bufferCmp", "bufferCopy", "bufferFill", "bufferNew", "bufferReadFloat32",
   "bufferReadFloat64", "bufferReadUInt16", "bufferReadUInt32", "bufferReadUInt64",
   "bufferReadUInt8", "bufferWriteFloat32", "bufferWriteFloat64", "bufferWriteUInt16",
   "bufferWriteUInt32", "bufferWriteUInt64", "bufferWriteUInt8", "identical", "tag"}

Opcode == Opcode1 \cup Opcode2 \cup Opcode3

-----------------------------------------------------------------------------
(* rewrite.h: FETCH8, FETCH16 and FETCH32 of each case.                    *)

Rewrite01 ==
     Op(Fixed(<<1>>), {"enter"})
  @@ Op(Fixed(<<2, 1>>), {"limit"})
  @@ Op(Fixed(<<2>>), {"adj"})
  @@ Op(Fixed(<<1, 1, 1>>), {"idx", "mov2"})
  @@ Op(Fixed(<<2, 2, 2>>), {"idxl", "set"})
  @@ Op(Fixed(<<1, 1>>), {"int8", "uint8", "xint8", "movc2", "movc3", "movc4", "mov1"})
  @@ Op(Fixed(<<2, 4>>),
       {"int32", "uint32", "float32", "string", "buffer", "xint", "xintn"})
  @@ Op(Fixed(<<2, 8>>), {"int64", "uint64", "float64", "xint64"})
  @@ Op(Fixed(<<2, 2>>), {"movcl2", "movcl3", "movcl4"})
  @@ Op(Fixed(<<1, 1, 1, 1>>), {"mov3"})

Rewrite02 ==
     Op(Fixed(<<1, 1, 1, 1, 1>>), {"mov4"})
  @@ Op(Fixed(<<2, 2>>), {"movl1", "conl0"})
  @@ Op(Fixed(<<2, 2, 2>>), {"movl2"})
  @@ Op(Fixed(<<1, 1, 1, 1>>), {"choice"})
  @@ Op(Counted(<<2, 4, 2>>, {3}, <<2>>), {"thk"})
  @@ Op(Fixed(<<1, 4>>), {"thk0"})
  @@ Op(Fixed(<<1, 1, 4>>), {"thk1", "fn0"})
  @@ Op(Fixed(<<1, 1, 1, 4>>), {"thk2", "fn1"})
  @@ Op(Fixed(<<1, 1, 1, 1, 4>>), {"thk3", "fn2"})
  @@ Op(Fixed(<<1, 1, 1, 1, 1, 4>>), {"thk4", "fn3"})
  @@ Op(Counted(<<2, 4, 1, 2>>, {4}, <<2>>), {"fn"})
  @@ Op(Fixed(<<1, 1, 1, 1, 1, 1, 4>>), {"fn4"})
  @@ Op(Counted(<<2, 2, 2>>, {3}, <<2>>), {"con"})
  @@ Op(Fixed(<<1, 1>>), {"con0"})
  @@ Op(Fixed(<<1, 1, 1>>), {"con1"})

Rewrite03 ==
     Op(Fixed(<<1, 1, 1, 1>>), {"con2", "ret4"})
  @@ Op(Fixed(<<1, 1, 1, 1, 1>>), {"con3"})
  @@ Op(Fixed(<<1, 1, 1, 1, 1, 1>>), {"con4"})
  @@ Op(Counted(<<2, 4, 4>>, {2, 3}, <<4>>), {"casetbl"})
  @@ Op(Counted(<<2, 2>>, {2}, <<4, 4>>), {"case"})
  @@ Op(Fixed(<<1, 1>>), {"cont", "ret2", "if"})
  @@ Op(Fixed(<<2, 4>>), {"contl", "ifl"})
  @@ Op(Fixed(<<1>>), {"ret1", "jmp"})
  @@ Op(Fixed(<<1, 1, 1>>), {"ret3", "ifeq"})
  @@ Op(Counted(<<1>>, {1}, <<2>>), {"ret"})
  @@ Op(Fixed(<<4, 2, 4>>), {"ifeql"})
  @@ Op(Fixed(<<4>>), {"jmpl"})
  @@ Op(Counted(<<4, 2, 1>>, {3}, <<2>>), {"kapp"})
  @@ Op(Fixed(<<1, 1, 4>>), {"kapp1"})
  @@ Op(Fixed(<<1, 1, 1, 4>>), {"kapp2"})
  @@ Op(Fixed(<<1, 1, 1, 1, 4>>), {"kapp3"})
  @@ Op(Fixed(<<1, 1, 1, 1, 1, 4>>), {"kapp4"})

Rewrite04 ==
     Op(Fixed(<<1, 1, 1, 1, 1, 1, 4>>), {"kapp5"})
  @@ Op(Counted(<<2, 1>>, {2}, <<2>>), {"app"})
  @@ Op(Fixed(<<1, 1>>), {"app1", "clos1", "clos2", "clos3", "clos4", "bitsToFloat32"})
  @@ Op(Fixed(<<1, 1, 1>>), {"app2"})
  @@ Op(Fixed(<<1, 1, 1, 1>>), {"app3"})
  @@ Op(Fixed(<<1, 1, 1, 1, 1>>), {"app4"})
  @@ Op(Fixed(<<1, 1, 1, 1, 1, 1>>), {"app5"})
  @@ Op(Fixed(<<1>>), {"clos0"})
  @@ Op(Fixed(<<1, 2, 2>>), {"clos"})
  @@ Op(Fixed(<<2, 4>>), {"ffiget", "ffiset"})
  @@ Op(Counted(<<4, 1>>, {2}, <<2>>), {"ffitail", "ffiprot"})
  @@ Op(Counted(<<2, 4, 1>>, {3}, <<2>>), {"ffiinl"})
  @@ Op(Fixed(<<2>>), {"thread", "proc", "plocal"})
  @@ Op(Fixed(<<2, 2>>), {"tstate"})
  @@ Op(Fixed(<<2, 2, 2>>), {"evfilt"})

Rewrite05 ==
     Op(Fixed(<<1, 1>>),
       {"bitsToFloat64", "charToString", "charToUInt32", "float32Abs", "float32Acos",
        "float32Asin", "float32Atan", "float32Ceil", "float32Cos", "float32Cosh",
        "float32Exp", "float32Expm1", "float32Floor", "float32Log", "float32Log1p",
        "float32Neg"})
  @@ Op(Fixed(<<1, 1, 1>>),
       {"charEq", "charLe", "charLt", "charNe", "float32Add", "float32Div", "float32Eq",
        "float32Le", "float32Lt", "float32Mul", "float32Ne"})

Rewrite06 ==
     Op(Fixed(<<1, 1, 1>>),
       {"float32Pow", "float32Sub", "float64Add", "float64Div", "float64Eq"})
  @@ Op(Fixed(<<1, 1>>),
       {"float32Round", "float32Sin", "float32Sinh", "float32Sqrt", "float32Tan",
        "float32Tanh", "float32ToBits", "float32ToFloat64", "float32ToInt", "float32ToInt32",
        "float32ToInt64", "float32ToUInt32", "float32ToUInt64", "float32Trunc", "float64Abs",
        "float64Acos", "float64Asin", "float64Atan", "float64Ceil", "float64Cos",
        "float64Cosh", "float64Exp", "float64Expm1", "float64Floor"})

Rewrite07 ==
     Op(Fixed(<<1, 1, 1>>),
       {"float64Le", "float64Lt", "float64Mul", "float64Ne", "float64Pow", "float64Sub",
        "int32Add", "int32And", "int32Div"})
  @@ Op(Fixed(<<1, 1>>),
       {"float64Log", "float64Log1p", "float64Neg", "float64Round", "float64Sin",
        "float64Sinh", "float64Sqrt", "float64Tan", "float64Tanh", "float64ToBits",
        "float64ToFloat32", "float64ToInt", "float64ToInt32", "float64ToInt64",
        "float64ToUInt32", "float64ToUInt64", "float64Trunc", "int16ToInt32", "int16ToUInt16"})

Rewrite08 ==
     Op(Fixed(<<1, 1, 1>>),
       {"int32Eq", "int32Le", "int32Lt", "int32Mod", "int32Mul", "int32Ne", "int32Or",
        "int32Quo", "int32Rem", "int32Shl", "int32Shr", "int32Sub", "int32Xor", "int64Add",
        "int64And", "int64Div"})
  @@ Op(Fixed(<<1, 1>>),
       {"int32Neg", "int32Not", "int32ToFloat32", "int32ToFloat64", "int32ToInt",
        "int32ToInt16", "int32ToInt64", "int32ToInt8", "int32ToUInt32", "int32ToUInt64"})

Rewrite09 ==
     Op(Fixed(<<1, 1, 1>>),
       {"int64Eq", "int64Le", "int64Lt", "int64Mod", "int64Mul", "int64Ne", "int64Or",
        "int64Quo", "int64Rem", "int64Shl", "int64Shr", "int64Sub", "int64Xor", "intAdd",
        "intAnd", "intCmp"})
  @@ Op(Fixed(<<1, 1>>),
       {"int64Neg", "int64Not", "int64ToFloat32", "int64ToFloat64", "int64ToInt",
        "int64ToInt32", "int64ToUInt32", "int64ToUInt64", "int8ToInt32", "int8ToUInt8"})

Rewrite10 ==
     Op(Fixed(<<1, 1, 1>>),
       {"intDiv", "intEq", "intLe", "intLt", "intMod", "intMul", "intNe", "intOr", "intQuo",
        "intRem", "intShl", "intShr", "intSub", "intXor", "stringCmp", "stringCursorEq"})
  @@ Op(Fixed(<<1, 1>>),
       {"intNeg", "intNot", "intToFloat32", "intToFloat64", "intToInt32", "intToInt64",
        "intToUInt32", "intToUInt64", "stringCursorBegin", "stringCursorEnd"})

Rewrite11 ==
     Op(Fixed(<<1, 1, 1>>),
       {"stringCursorLe", "stringCursorLt", "stringCursorNe", "stringCursorGet",
        "stringCursorNext", "stringCursorPrev", "stringEq", "stringLe", "stringLt",
        "stringNe", "uint32Add", "uint32And", "uint32Div", "uint32Eq", "uint32Le", "uint32Lt",
        "uint32Mod", "uint32Mul", "uint32Ne"})
  @@ Op(Fixed(<<1, 1>>),
       {"stringNull", "uint16ToUInt32", "uint16ToInt16", "uint32Neg", "uint32Not"})
  @@ Op(Fixed(<<1, 1, 1, 1>>), {"stringSlice"})

Rewrite12 ==
     Op(Fixed(<<1, 1, 1>>),
       {"uint32Or", "uint32Shl", "uint32Shr", "uint32Sub", "uint32Xor", "uint64Add",
        "uint64And", "uint64Div", "uint64Eq", "uint64Le", "uint64Lt", "uint64Mod",
        "uint64Mul", "uint64Ne", "uint64Or"})
  @@ Op(Fixed(<<1, 1>>),
       {"uint32ToChar", "uint32ToFloat32", "uint32ToFloat64", "uint32ToInt", "uint32ToInt32",
        "uint32ToInt64", "uint32ToUInt16", "uint32ToUInt64", "uint32ToUInt8", "uint64Neg",
        "uint64Not"})

Rewrite13 ==
     Op(Fixed(<<1, 1, 1>>),
       {"uint64Shl", "uint64Shr", "uint64Sub", "uint64Xor", "stringBuilderChar",
        "stringBuilderString", "arrayNew", "arrayRead"})
  @@ Op(Fixed(<<1, 1>>),
       {"uint64ToFloat32", "uint64ToFloat64", "uint64ToInt", "uint64ToInt32", "uint64ToInt64",
        "uint64ToUInt32", "uint8ToUInt32", "uint8ToInt8", "stringBuilderNew",
        "stringBuilderBuild", "bufferSize", "arraySize"})
  @@ Op(Fixed(<<1>>), {"lazyForce"})
  @@ Op(Fixed(<<1, 1, 1, 1, 1>>), {"arrayCas"})
  @@ Op(Fixed(<<1, 1, 1, 1>>), {"arrayClone", "arrayWrite", "bufferClone"})
  @@ Op(Fixed(<<1, 1, 1, 1, 1, 1>>), {"arrayCopy"})

Rewrite14 ==
     Op(Fixed(<<1, 1, 1, 1, 1, 1>>), {"bufferCmp", "bufferCopy"})
  @@ Op(Fixed(<<1, 1, 1, 1, 1>>), {"bufferFill"})
  @@ Op(Fixed(<<1, 1>>), {"bufferNew", "tag"})
  @@ Op(Fixed(<<1, 1, 1>>),
       {"bufferReadFloat32", "bufferReadFloat64", "bufferReadUInt16", "bufferReadUInt32",
        "bufferReadUInt64", "bufferReadUInt8", "identical"})
  @@ Op(Fixed(<<1, 1, 1, 1>>),
       {"bufferWriteFloat32", "bufferWriteFloat64", "bufferWriteUInt16", "bufferWriteUInt32",
        "bufferWriteUInt64", "bufferWriteUInt8"})

RewriteOperands ==
     Rewrite01 @@ Rewrite02 @@ Rewrite03 @@ Rewrite04 @@ Rewrite05 @@
     Rewrite06 @@ Rewrite07 @@ Rewrite08 @@ Rewrite09 @@ Rewrite10 @@
     Rewrite11 @@ Rewrite12 @@ Rewrite13 @@ Rewrite14

-----------------------------------------------------------------------------
(* disasm.h                                                                *)

Disasm01 ==
     Op(Fixed(<<1>>), {"enter"})
  @@ Op(Fixed(<<2, 1>>), {"limit"})
  @@ Op(Fixed(<<2>>), {"adj"})
  @@ Op(Fixed(<<1, 1, 1>>), {"idx"})
  @@ Op(Fixed(<<2, 2, 2>>), {"idxl", "set"})
  @@ Op(Fixed(<<1, 1>>), {"int8", "uint8", "xint8", "movc2", "movc3", "movc4"})
  @@ Op(Fixed(<<2, 4>>),
       {"int32", "uint32", "float32", "string", "buffer", "xint", "xintn"})
  @@ Op(Fixed(<<2, 8>>), {"int64", "uint64", "float64", "xint64"})
  @@ Op(Fixed(<<2, 2>>), {"movcl2"})

Disasm02 ==
     Op(Fixed(<<2, 2>>), {"movcl3", "movcl4", "movl1"})
  @@ Op(Fixed(<<1, 1>>), {"mov1"})
  @@ Op(Fixed(<<1, 1, 1>>), {"mov2"})
  @@ Op(Fixed(<<1, 1, 1, 1>>), {"mov3", "choice"})
  @@ Op(Fixed(<<1, 1, 1, 1, 1>>), {"mov4"})
  @@ Op(Fixed(<<2, 2, 2>>), {"movl2"})
  @@ Op(Counted(<<2, 4, 2>>, {3}, <<2>>), {"thk"})
  @@ Op(Fixed(<<1, 4>>), {"thk0"})
  @@ Op(Fixed(<<1, 1, 4>>), {"thk1", "fn0"})
  @@ Op(Fixed(<<1, 1, 1, 4>>), {"thk2", "fn1"})
  @@ Op(Fixed(<<1, 1, 1, 1, 4>>), {"thk3"})
  @@ Op(Fixed(<<1, 1, 1, 1, 1, 4>>), {"thk4"})
  @@ Op(Counted(<<2, 4, 1, 2>>, {4}, <<2>>), {"fn"})

Disasm03 ==
     Op(Fixed(<<1, 1, 1, 1, 4>>), {"fn2"})
  @@ Op(Fixed(<<1, 1, 1, 1, 1, 4>>), {"fn3"})
  @@ Op(Fixed(<<1, 1, 1, 1, 1, 1, 4>>), {"fn4"})
  @@ Op(Counted(<<2, 2, 2>>, {3}, <<2>>), {"con"})
  @@ Op(Fixed(<<1, 1>>), {"con0", "cont", "ret2"})
  @@ Op(Fixed(<<2, 2>>), {"conl0"})
  @@ Op(Fixed(<<1, 1, 1>>), {"con1", "ret3"})
  @@ Op(Fixed(<<1, 1, 1, 1>>), {"con2"})
  @@ Op(Fixed(<<1, 1, 1, 1, 1>>), {"con3"})
  @@ Op(Fixed(<<1, 1, 1, 1, 1, 1>>), {"con4"})
  @@ Op(Counted(<<2, 4, 4>>, {2, 3}, <<4>>), {"casetbl"})
  @@ Op(Counted(<<2, 2>>, {2}, <<4, 4>>), {"case"})
  @@ Op(Fixed(<<2, 4>>), {"contl"})
  @@ Op(Fixed(<<1>>), {"ret1"})

Disasm04 ==
     Op(Fixed(<<1, 1, 1, 1>>), {"ret4", "app3"})
  @@ Op(Counted(<<1>>, {1}, <<2>>), {"ret"})
  @@ Op(Fixed(<<1, 1>>), {"if", "app1"})
  @@ Op(Fixed(<<2, 4>>), {"ifl"})
  @@ Op(Fixed(<<1, 1, 1>>), {"ifeq", "app2"})
  @@ Op(Fixed(<<4, 2, 4>>), {"ifeql"})
  @@ Op(Fixed(<<1>>), {"jmp"})
  @@ Op(Fixed(<<4>>), {"jmpl"})
  @@ Op(Counted(<<4, 2, 1>>, {3}, <<2>>), {"kapp"})
  @@ Op(Fixed(<<1, 1, 4>>), {"kapp1"})
  @@ Op(Fixed(<<1, 1, 1, 4>>), {"kapp2"})
  @@ Op(Fixed(<<1, 1, 1, 1, 4>>), {"kapp3"})
  @@ Op(Fixed(<<1, 1, 1, 1, 1, 4>>), {"kapp4"})
  @@ Op(Fixed(<<1, 1, 1, 1, 1, 1, 4>>), {"kapp5"})
  @@ Op(Counted(<<2, 1>>, {2}, <<2>>), {"app"})

Disasm05 ==
     Op(Fixed(<<1, 1, 1, 1, 1>>), {"app4"})
  @@ Op(Fixed(<<1, 1, 1, 1, 1, 1>>), {"app5"})
  @@ Op(Fixed(<<1>>), {"clos0"})
  @@ Op(Fixed(<<1, 1>>),
       {"clos1", "clos2", "clos3", "clos4", "bitsToFloat32", "bitsToFloat64"})
  @@ Op(Fixed(<<1, 2, 2>>), {"clos"})
  @@ Op(Fixed(<<2, 4>>), {"ffiget", "ffiset"})
  @@ Op(Counted(<<4, 1>>, {2}, <<2>>), {"ffitail", "ffiprot"})
  @@ Op(Counted(<<2, 4, 1>>, {3}, <<2>>), {"ffiinl"})
  @@ Op(Fixed(<<2>>), {"thread", "proc", "plocal"})
  @@ Op(Fixed(<<2, 2>>), {"tstate"})
  @@ Op(Fixed(<<2, 2, 2>>), {"evfilt"})

Disasm06 ==
     Op(Fixed(<<1, 1, 1>>),
       {"charEq", "charLe", "charLt", "charNe", "float32Add", "float32Div", "float32Eq",
        "float32Le", "float32Lt"})
  @@ Op(Fixed(<<1, 1>>),
       {"charToString", "charToUInt32", "float32Abs", "float32Acos", "float32Asin",
        "float32Atan", "float32Ceil", "float32Cos", "float32Cosh", "float32Exp",
        "float32Expm1", "float32Floor", "float32Log", "float32Log1p"})

Disasm07 ==
     Op(Fixed(<<1, 1, 1>>),
       {"float32Mul", "float32Ne", "float32Pow", "float32Sub", "float64Add"})
  @@ Op(Fixed(<<1, 1>>),
       {"float32Neg", "float32Round", "float32Sin", "float32Sinh", "float32Sqrt",
        "float32Tan", "float32Tanh", "float32ToBits", "float32ToFloat64", "float32ToInt",
        "float32ToInt32", "float32ToInt64", "float32ToUInt32", "float32ToUInt64",
        "float32Trunc", "float64Abs", "float64Acos", "float64Asin", "float64Atan"})

Disasm08 ==
     Op(Fixed(<<1, 1>>),
       {"float64Ceil", "float64Cos", "float64Cosh", "float64Exp", "float64Expm1",
        "float64Floor", "float64Log", "float64Log1p", "float64Neg", "float64Round",
        "float64Sin", "float64Sinh", "float64Sqrt", "float64Tan", "float64Tanh"})
  @@ Op(Fixed(<<1, 1, 1>>),
       {"float64Div", "float64Eq", "float64Le", "float64Lt", "float64Mul", "float64Ne",
        "float64Pow", "float64Sub"})

Disasm09 ==
     Op(Fixed(<<1, 1>>),
       {"float64ToBits", "float64ToFloat32", "float64ToInt", "float64ToInt32",
        "float64ToInt64", "float64ToUInt32", "float64ToUInt64", "float64Trunc",
        "int16ToInt32", "int16ToUInt16", "int32Neg", "int32Not"})
  @@ Op(Fixed(<<1, 1, 1>>),
       {"int32Add", "int32And", "int32Div", "int32Eq", "int32Le", "int32Lt", "int32Mod",
        "int32Mul", "int32Ne", "int32Or", "int32Quo"})

Disasm10 ==
     Op(Fixed(<<1, 1, 1>>),
       {"int32Rem", "int32Shl", "int32Shr", "int32Sub", "int32Xor", "int64Add", "int64And",
        "int64Div", "int64Eq", "int64Le", "int64Lt", "int64Mod", "int64Mul", "int64Ne"})
  @@ Op(Fixed(<<1, 1>>),
       {"int32ToFloat32", "int32ToFloat64", "int32ToInt", "int32ToInt16", "int32ToInt64",
        "int32ToInt8", "int32ToUInt32", "int32ToUInt64"})

Disasm11 ==
     Op(Fixed(<<1, 1>>),
       {"int64Neg", "int64Not", "int64ToFloat32", "int64ToFloat64", "int64ToInt",
        "int64ToInt32", "int64ToUInt32", "int64ToUInt64", "int8ToInt32", "int8ToUInt8"})
  @@ Op(Fixed(<<1, 1, 1>>),
       {"int64Or", "int64Quo", "int64Rem", "int64Shl", "int64Shr", "int64Sub", "int64Xor",
        "intAdd", "intAnd", "intCmp", "intDiv", "intEq"})

Disasm12 ==
     Op(Fixed(<<1, 1, 1>>),
       {"intLe", "intLt", "intMod", "intMul", "intNe", "intOr", "intQuo", "intRem", "intShl",
        "intShr", "intSub", "intXor", "stringCmp"})
  @@ Op(Fixed(<<1, 1>>),
       {"intNeg", "intNot", "intToFloat32", "intToFloat64", "intToInt32", "intToInt64",
        "intToUInt32", "intToUInt64", "stringCursorBegin"})

Disasm13 ==
     Op(Fixed(<<1, 1>>),
       {"stringCursorEnd", "stringNull", "uint16ToUInt32", "uint16ToInt16"})
  @@ Op(Fixed(<<1, 1, 1>>),
       {"stringCursorEq", "stringCursorLe", "stringCursorLt", "stringCursorNe",
        "stringCursorGet", "stringCursorNext", "stringCursorPrev", "stringEq", "stringLe",
        "stringLt", "stringNe", "uint32Add", "uint32And", "uint32Div", "uint32Eq", "uint32Le"})
  @@ Op(Fixed(<<1, 1, 1, 1>>), {"stringSlice"})

Disasm14 ==
     Op(Fixed(<<1, 1, 1>>),
       {"uint32Lt", "uint32Mod", "uint32Mul", "uint32Ne", "uint32Or", "uint32Shl",
        "uint32Shr", "uint32Sub", "uint32Xor", "uint64Add", "uint64And", "uint64Div"})
  @@ Op(Fixed(<<1, 1>>),
       {"uint32Neg", "uint32Not", "uint32ToChar", "uint32ToFloat32", "uint32ToFloat64",
        "uint32ToInt", "uint32ToInt32", "uint32ToInt64", "uint32ToUInt16", "uint32ToUInt64",
        "uint32ToUInt8"})

Disasm15 ==
     Op(Fixed(<<1, 1, 1>>),
       {"uint64Eq", "uint64Le", "uint64Lt", "uint64Mod", "uint64Mul", "uint64Ne", "uint64Or",
        "uint64Shl", "uint64Shr", "uint64Sub", "uint64Xor"})
  @@ Op(Fixed(<<1, 1>>),
       {"uint64Neg", "uint64Not", "uint64ToFloat32", "uint64ToFloat64", "uint64ToInt",
        "uint64ToInt32", "uint64ToInt64", "uint64ToUInt32", "uint8ToUInt32", "uint8ToInt8",
        "stringBuilderNew"})
  @@ Op(Fixed(<<1>>), {"lazyForce"})

Disasm16 ==
     Op(Fixed(<<1, 1, 1>>),
       {"stringBuilderChar", "stringBuilderString", "arrayNew", "arrayRead",
        "bufferReadFloat32", "bufferReadFloat64", "bufferReadUInt16"})
  @@ Op(Fixed(<<1, 1>>), {"stringBuilderBuild", "bufferSize", "arraySize", "bufferNew"})
  @@ Op(Fixed(<<1, 1, 1, 1, 1>>), {"arrayCas", "bufferFill"})
  @@ Op(Fixed(<<1, 1, 1, 1>>), {"arrayClone", "arrayWrite", "bufferClone"})
  @@ Op(Fixed(<<1, 1, 1, 1, 1, 1>>), {"arrayCopy", "bufferCmp", "bufferCopy"})

Disasm17 ==
     Op(Fixed(<<1, 1, 1>>),
       {"bufferReadUInt32", "bufferReadUInt64", "bufferReadUInt8", "identical"})
  @@ Op(Fixed(<<1, 1, 1, 1>>),
       {"bufferWriteFloat32", "bufferWriteFloat64", "bufferWriteUInt16", "bufferWriteUInt32",
        "bufferWriteUInt64", "bufferWriteUInt8"})
  @@ Op(Fixed(<<1, 1>>), {"tag"})

DisasmOperands ==
     Disasm01 @@ Disasm02 @@ Disasm03 @@ Disasm04 @@ Disasm05 @@ Disasm06 @@
     Disasm07 @@ Disasm08 @@ Disasm09 @@ Disasm10 @@ Disasm11 @@ Disasm12 @@
     Disasm13 @@ Disasm14 @@ Disasm15 @@ Disasm16 @@ Disasm17

-----------------------------------------------------------------------------
(* interpreter.h                                                           *)

Interp01 ==
     Op(Fixed(<<1>>), {"enter"})
  @@ Op(Fixed(<<2, 1>>), {"limit"})
  @@ Op(Fixed(<<2>>), {"adj"})
  @@ Op(Fixed(<<1, 1, 1>>), {"idx"})
  @@ Op(Fixed(<<2, 2, 2>>), {"idxl", "set"})
  @@ Op(Fixed(<<1, 1>>), {"int8", "uint8", "xint8", "movc2", "movc3", "movc4"})
  @@ Op(Fixed(<<2, 4>>),
       {"int32", "uint32", "float32", "string", "buffer", "xint", "xintn"})
  @@ Op(Fixed(<<2, 8>>), {"int64", "uint64", "float64", "xint64"})
  @@ Op(Fixed(<<2, 2>>), {"movcl2"})

Interp02 ==
     Op(Fixed(<<2, 2>>), {"movcl3", "movcl4", "movl1"})
  @@ Op(Fixed(<<1, 1>>), {"mov1"})
  @@ Op(Fixed(<<1, 1, 1>>), {"mov2"})
  @@ Op(Fixed(<<1, 1, 1, 1>>), {"mov3", "choice"})
  @@ Op(Fixed(<<1, 1, 1, 1, 1>>), {"mov4"})
  @@ Op(Fixed(<<2, 2, 2>>), {"movl2"})
  @@ Op(Counted(<<2, 4, 2>>, {3}, <<2>>), {"thk"})
  @@ Op(Fixed(<<1, 4>>), {"thk0"})
  @@ Op(Fixed(<<1, 1, 4>>), {"thk1"})
  @@ Op(Fixed(<<1, 1, 1, 4>>), {"thk2"})

Interp03 ==
     Op(Fixed(<<1, 1, 1, 1, 4>>), {"thk3", "fn2"})
  @@ Op(Fixed(<<1, 1, 1, 1, 1, 4>>), {"thk4", "fn3"})
  @@ Op(Counted(<<2, 4, 1, 2>>, {4}, <<2>>), {"fn"})
  @@ Op(Fixed(<<1, 1, 4>>), {"fn0"})
  @@ Op(Fixed(<<1, 1, 1, 4>>), {"fn1"})
  @@ Op(Fixed(<<1, 1, 1, 1, 1, 1, 4>>), {"fn4"})

Interp04 ==
     Op(Counted(<<2, 2, 2>>, {3}, <<2>>), {"con"})
  @@ Op(Fixed(<<1, 1>>), {"con0", "cont", "ret2"})
  @@ Op(Fixed(<<2, 2>>), {"conl0"})
  @@ Op(Fixed(<<1, 1, 1>>), {"con1"})
  @@ Op(Fixed(<<1, 1, 1, 1>>), {"con2"})
  @@ Op(Fixed(<<1, 1, 1, 1, 1>>), {"con3"})
  @@ Op(Fixed(<<1, 1, 1, 1, 1, 1>>), {"con4"})
  @@ Op(Counted(<<2, 4, 4>>, {2, 3}, <<4>>), {"casetbl"})
  @@ Op(Counted(<<2, 2>>, {2}, <<4, 4>>), {"case"})
  @@ Op(Fixed(<<2, 4>>), {"contl"})
  @@ Op(Fixed(<<1>>), {"ret1"})

Interp05 ==
     Op(Fixed(<<1, 1, 1>>), {"ret3", "ifeq"})
  @@ Op(Fixed(<<1, 1, 1, 1>>), {"ret4"})
  @@ Op(Counted(<<1>>, {1}, <<2>>), {"ret"})
  @@ Op(Fixed(<<1, 1>>), {"if"})
  @@ Op(Fixed(<<2, 4>>), {"ifl"})
  @@ Op(Fixed(<<4, 2, 4>>), {"ifeql"})
  @@ Op(Fixed(<<1>>), {"jmp"})
  @@ Op(Fixed(<<4>>), {"jmpl"})
  @@ Op(Counted(<<4, 2, 1>>, {3}, <<2>>), {"kapp"})
  @@ Op(Fixed(<<1, 1, 4>>), {"kapp1"})
  @@ Op(Fixed(<<1, 1, 1, 4>>), {"kapp2"})

Interp06 ==
     Op(Fixed(<<1, 1, 1, 1, 4>>), {"kapp3"})
  @@ Op(Fixed(<<1, 1, 1, 1, 1, 4>>), {"kapp4"})
  @@ Op(Fixed(<<1, 1, 1, 1, 1, 1, 4>>), {"kapp5"})
  @@ Op(Counted(<<2, 1>>, {2}, <<2>>), {"app"})
  @@ Op(Fixed(<<1, 1>>), {"app1"})
  @@ Op(Fixed(<<1, 1, 1>>), {"app2"})
  @@ Op(Fixed(<<1, 1, 1, 1>>), {"app3"})

Interp07 ==
     Op(Fixed(<<1, 1, 1, 1, 1>>), {"app4"})
  @@ Op(Fixed(<<1, 1, 1, 1, 1, 1>>), {"app5"})
  @@ Op(Fixed(<<1>>), {"clos0"})
  @@ Op(Fixed(<<1, 1>>), {"clos1", "clos2", "clos3", "clos4"})
  @@ Op(Fixed(<<1, 2, 2>>), {"clos"})
  @@ Op(Fixed(<<2, 4>>), {"ffiget", "ffiset"})
  @@ Op(Counted(<<4, 1>>, {2}, <<2>>), {"ffitail"})

Interp08 ==
     Op(Counted(<<2, 4, 1>>, {3}, <<2>>), {"ffiinl"})
  @@ Op(Counted(<<4, 1>>, {2}, <<>>), {"ffiprot"})
  @@ Op(Fixed(<<2>>), {"thread", "proc", "plocal"})
  @@ Op(Fixed(<<2, 2>>), {"tstate"})
  @@ Op(Fixed(<<2, 2, 2>>), {"evfilt"})
  @@ Op(Fixed(<<1, 1>>),
       {"bitsToFloat32", "bitsToFloat64", "charToString", "charToUInt32", "float32Abs",
        "float32Acos", "float32Asin", "float32Atan", "float32Ceil", "float32Cos",
        "float32Cosh", "float32Exp", "float32Expm1"})
  @@ Op(Fixed(<<1, 1, 1>>),
       {"charEq", "charLe", "charLt", "charNe", "float32Add", "float32Div", "float32Eq"})

Interp09 ==
     Op(Fixed(<<1, 1>>),
       {"float32Floor", "float32Log", "float32Log1p", "float32Neg", "float32Round",
        "float32Sin", "float32Sinh", "float32Sqrt", "float32Tan", "float32Tanh",
        "float32ToBits", "float32ToFloat64", "float32ToInt", "float32ToInt32",
        "float32ToInt64", "float32ToUInt32", "float32ToUInt64", "float32Trunc", "float64Abs",
        "float64Acos", "float64Asin"})
  @@ Op(Fixed(<<1, 1, 1>>),
       {"float32Le", "float32Lt", "float32Mul", "float32Ne", "float32Pow", "float32Sub",
        "float64Add"})

Interp10 ==
     Op(Fixed(<<1, 1>>),
       {"float64Atan", "float64Ceil", "float64Cos", "float64Cosh", "float64Exp",
        "float64Expm1", "float64Floor", "float64Log", "float64Log1p", "float64Neg",
        "float64Round", "float64Sin", "float64Sinh", "float64Sqrt", "float64Tan",
        "float64Tanh", "float64ToBits", "float64ToFloat32", "float64ToInt", "float64ToInt32"})
  @@ Op(Fixed(<<1, 1, 1>>),
       {"float64Div", "float64Eq", "float64Le", "float64Lt", "float64Mul", "float64Ne",
        "float64Pow", "float64Sub"})

Interp11 ==
     Op(Fixed(<<1, 1>>),
       {"float64ToInt64", "float64ToUInt32", "float64ToUInt64", "float64Trunc",
        "int16ToInt32", "int16ToUInt16", "int32Neg", "int32Not", "int32ToFloat32",
        "int32ToFloat64", "int32ToInt", "int32ToInt16"})
  @@ Op(Fixed(<<1, 1, 1>>),
       {"int32Add", "int32And", "int32Div", "int32Eq", "int32Le", "int32Lt", "int32Mod",
        "int32Mul", "int32Ne", "int32Or", "int32Quo", "int32Rem", "int32Shl", "int32Shr",
        "int32Sub"})

Interp12 ==
     Op(Fixed(<<1, 1>>),
       {"int32ToInt64", "int32ToInt8", "int32ToUInt32", "int32ToUInt64", "int64Neg",
        "int64Not", "int64ToFloat32", "int64ToFloat64", "int64ToInt", "int64ToInt32"})
  @@ Op(Fixed(<<1, 1, 1>>),
       {"int32Xor", "int64Add", "int64And", "int64Div", "int64Eq", "int64Le", "int64Lt",
        "int64Mod", "int64Mul", "int64Ne", "int64Or", "int64Quo", "int64Rem", "int64Shl",
        "int64Shr", "int64Sub"})

Interp13 ==
     Op(Fixed(<<1, 1>>),
       {"int64ToUInt32", "int64ToUInt64", "int8ToInt32", "int8ToUInt8", "intNeg", "intNot",
        "intToFloat32", "intToFloat64", "intToInt32"})
  @@ Op(Fixed(<<1, 1, 1>>),
       {"int64Xor", "intAdd", "intAnd", "intCmp", "intDiv", "intEq", "intLe", "intLt",
        "intMod", "intMul", "intNe", "intOr", "intQuo", "intRem", "intShl", "intShr", "intSub"})

Interp14 ==
     Op(Fixed(<<1, 1>>),
       {"intToInt64", "intToUInt32", "intToUInt64", "stringCursorBegin", "stringCursorEnd",
        "stringNull", "uint16ToUInt32", "uint16ToInt16"})
  @@ Op(Fixed(<<1, 1, 1>>),
       {"intXor", "stringCmp", "stringCursorEq", "stringCursorLe", "stringCursorLt",
        "stringCursorNe", "stringCursorGet", "stringCursorNext", "stringCursorPrev",
        "stringEq", "stringLe", "stringLt", "stringNe", "uint32Add", "uint32And", "uint32Div",
        "uint32Eq"})
  @@ Op(Fixed(<<1, 1, 1, 1>>), {"stringSlice"})

Interp15 ==
     Op(Fixed(<<1, 1, 1>>),
       {"uint32Le", "uint32Lt", "uint32Mod", "uint32Mul", "uint32Ne", "uint32Or", "uint32Shl",
        "uint32Shr", "uint32Sub", "uint32Xor", "uint64Add", "uint64And", "uint64Div",
        "uint64Eq", "uint64Le"})
  @@ Op(Fixed(<<1, 1>>),
       {"uint32Neg", "uint32Not", "uint32ToChar", "uint32ToFloat32", "uint32ToFloat64",
        "uint32ToInt", "uint32ToInt32", "uint32ToInt64", "uint32ToUInt16", "uint32ToUInt64",
        "uint32ToUInt8"})

Interp16 ==
     Op(Fixed(<<1, 1, 1>>),
       {"uint64Lt", "uint64Mod", "uint64Mul", "uint64Ne", "uint64Or", "uint64Shl",
        "uint64Shr", "uint64Sub", "uint64Xor", "stringBuilderChar"})
  @@ Op(Fixed(<<1, 1>>),
       {"uint64Neg", "uint64Not", "uint64ToFloat32", "uint64ToFloat64", "uint64ToInt",
        "uint64ToInt32", "uint64ToInt64", "uint64ToUInt32", "uint8ToUInt32", "uint8ToInt8",
        "stringBuilderNew"})
  @@ Op(Fixed(<<1>>), {"lazyForce"})

Interp17 ==
     Op(Fixed(<<1, 1, 1>>),
       {"stringBuilderString", "arrayNew", "arrayRead", "bufferReadFloat32",
        "bufferReadFloat64", "bufferReadUInt16", "bufferReadUInt32", "bufferReadUInt64",
        "bufferReadUInt8"})
  @@ Op(Fixed(<<1, 1>>), {"stringBuilderBuild", "bufferSize", "arraySize", "bufferNew"})
  @@ Op(Fixed(<<1, 1, 1, 1, 1>>), {"arrayCas", "bufferFill"})
  @@ Op(Fixed(<<1, 1, 1, 1>>), {"arrayClone", "arrayWrite", "bufferClone"})
  @@ Op(Fixed(<<1, 1, 1, 1, 1, 1>>), {"arrayCopy", "bufferCmp", "bufferCopy"})

Interp18 ==
     Op(Fixed(<<1, 1, 1, 1>>),
       {"bufferWriteFloat32", "bufferWriteFloat64", "bufferWriteUInt16", "bufferWriteUInt32",
        "bufferWriteUInt64", "bufferWriteUInt8"})
  @@ Op(Fixed(<<1, 1, 1>>), {"identical"})
  @@ Op(Fixed(<<1, 1>>), {"tag"})

InterpOperands ==
     Interp01 @@ Interp02 @@ Interp03 @@ Interp04 @@ Interp05 @@ Interp06 @@
     Interp07 @@ Interp08 @@ Interp09 @@ Interp10 @@ Interp11 @@ Interp12 @@
     Interp13 @@ Interp14 @@ Interp15 @@ Interp16 @@ Interp17 @@ Interp18

===============================================================================
