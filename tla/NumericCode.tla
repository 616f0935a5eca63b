------------------------------ MODULE NumericCode ------------------------------
(***************************************************************************)
(* A method body of numeric instructions, executed twice in step: by the   *)
(* C code the converters emit and by CIL (ECMA-335 III).  Every position   *)
(* of the evaluation stack carries the C variable (its type and value) and *)
(* the CIL entry (its kind and value); so does the last stored location.   *)
(*                                                                         *)
(* The CIL side is the reference.  It is written from the standard the     *)
(* converters cite, not from the code.                                     *)
(***************************************************************************)
EXTENDS NumericConverters

CONSTANTS
  Opcodes,     \* the opcodes the compiler emits in this instance
  Loaded,      \* types of the constants, arguments and locals it loads
  Stored,      \* types of the locations it stores to
  WellSigned,  \* it applies an opcode only to variables of the opcode's sign
  MaxDepth,    \* bound: depth of the evaluation stack
  MaxSteps     \* bound: length of the method body

VARIABLES
  stack,     \* evaluation stack, top last
  memory,    \* the location stored to last
  branch,    \* what the last branch decided: the C code, CIL
  refused,   \* a converter threw although the CIL is valid
  steps

vars == <<stack, memory, branch, refused, steps>>

-----------------------------------------------------------------------------
(* CIL                                                                     *)
Kind(t) ==
  CASE t \in Floats -> "F"
    [] t \in Pointers -> "native"
    [] t \in {"i8", "u8"} -> "int64"
    [] OTHER -> "int32"
KindType == [int32 |-> "i4", int64 |-> "i8", native |-> "ip", F |-> "r8"]
\* A value of a memory location of type t, on the stack.
Widened(t, v) == Converted(KindType[Kind(t)], v)
\* A value of the stack, in a memory location of type t.
Narrowed(t, v) == Converted(IF t = "bool" THEN "u1" ELSE t, v)

BinaryKind(j, k) ==
  IF j = k THEN j
  ELSE IF {j, k} = {"int32", "native"} THEN "native" ELSE "none"
OnStack(kind, v) == Converted(KindType[kind], v)
UnsignedOnStack(kind, v) == AsUnsigned(Width(KindType[kind]), v)

\* The operation has a result: division by zero and by -1 of the least integer
\* throw, floating point results are whole and in range.
Defined(op, kind, a, b) ==
  /\ op \in {"div", "rem"} =>
       /\ b # 0
       /\ b = -1 /\ kind # "F" => a # -(2^(Width(KindType[kind]) - 1))
  /\ kind = "F" =>
       /\ op \in ArithmeticOpcodes
       /\ op = "div" => a % Magnitude(b) = 0
       /\ Magnitude(Applied(op, 0, a, b)) < 2^Bits4

\* conv.<op> of v: int32 and int64 sources extend with the sign of the opcode.
ConvCil(op, kind, v) ==
  LET target == Last(ConvOpcodes[op])
      source == IF op \in {"conv_u8", "conv_u"} /\ kind # "F"
                  THEN UnsignedOnStack(kind, v) ELSE v
  IN Widened(target, Converted(target, source))
\* A floating point value is converted only if the target can hold it.
ConvDefined(op, kind, v) ==
  LET target == Last(ConvOpcodes[op])
  IN kind = "F" /\ target \notin Floats => Converted(target, v) = v

BranchCil(op, kind, a, b) ==
  LET u == UnsignedOnStack(kind, a)
      w == UnsignedOnStack(kind, b)
  IN CASE op = "beq" -> a = b
       [] op = "bne_un" -> u # w
       [] op = "blt" -> a < b
       [] op = "bgt" -> a > b
       [] op = "ble" -> a <= b
       [] op = "bge" -> a >= b
ConditionalCil(op, kind, a, b) ==
  LET u == UnsignedOnStack(kind, a)
      w == UnsignedOnStack(kind, b)
  IN Bit(CASE op = "ceq" -> a = b
           [] op = "cgt" -> a > b
           [] op = "clt" -> a < b
           [] op = "cgt_un" -> u > w
           [] op = "clt_un" -> u < w)

-----------------------------------------------------------------------------
(* Programs in which the sign of every opcode is that of the variables it  *)
(* is applied to.  A C variable of 4 or more bytes that is unsigned holds  *)
(* what CIL has as a signed entry, and C then computes differently.        *)
WideUnsigned(t) == t \in Unsigned /\ Width(t) >= Bits4
SameSign(op, types) ==
  IF op \in {"conv_u8", "conv_u"}
    THEN \A t \in types : t \in Unsigned \cup Floats \/ Width(t) = Width(Last(ConvOpcodes[op]))
    ELSE \/ \A t \in types : ~WideUnsigned(t)
         \/ /\ op \notin {"conv_i8", "conv_i", "div", "rem", "blt", "bgt", "ble", "bge"}
            /\ \A t, u \in types : Kind(t) = Kind(u)
Compiled(op, types) == op \in Opcodes /\ (WellSigned => SameSign(op, types))

-----------------------------------------------------------------------------
Entry(type, c, kind, cil) == [type |-> type, c |-> c, kind |-> kind, cil |-> cil]
Top == stack[Len(stack)]
Second == stack[Len(stack) - 1]
Below(n) == SubSeq(stack, 1, Len(stack) - n)

Empty == Entry("none", 0, "none", 0)
Step == steps < MaxSteps /\ ~refused /\ steps' = steps + 1
\* The converter throws: the method is not translated.
Refuse == refused' = TRUE /\ UNCHANGED <<stack, memory, branch>>
Push(n, e) == stack' = Append(Below(n), e) /\ UNCHANGED <<memory, branch, refused>>

\* Values of type t at its limits.
Boundary(t) ==
  LET w == Width(t)
  IN CASE t = "bool" -> {0, 1}
       [] t \in Floats -> {-1, 3}
       [] t \in Unsigned \ {"bool"} -> {0, 1, 2^w - 1}
       [] OTHER -> {-(2^(w-1)), -1, 2^(w-1) - 1}

Init ==
  /\ stack = <<>> /\ memory = Empty
  /\ branch = [c |-> FALSE, cil |-> FALSE]
  /\ refused = FALSE /\ steps = 0

\* ldc.i4, ldc.i8, ldc.r4, ldc.r8 and their short forms.
Ldc(t, v) ==
  /\ Step /\ "ldc" \in Opcodes /\ Len(stack) < MaxDepth
  /\ t \in {"i4", "i8", "r4", "r8"}
  /\ Push(0, Entry(t, v, Kind(t), v))

\* Mutant: a loaded argument gets a variable of the type CIL has for it.
LdargWidened(t, v) ==
  /\ Step /\ "ldarg" \in Opcodes /\ Len(stack) < MaxDepth
  /\ Push(0, Entry("i4", v, Kind(t), Widened(t, v)))
\* ldarg and its short forms; the caller gave the argument the value v.
Ldarg(t, v) ==
  /\ Step /\ "ldarg" \in Opcodes /\ Len(stack) < MaxDepth
  /\ Push(0, Entry(t, v, Kind(t), Widened(t, v)))

\* ldloc, ldsfld, ldfld: the variable has the type of the location.
Ldloc ==
  /\ Step /\ "ldloc" \in Opcodes /\ Len(stack) < MaxDepth /\ memory # Empty
  /\ Push(0, Entry(memory.type, memory.c, Kind(memory.type), Widened(memory.type, memory.cil)))

\* ldind.<type>: the variable has the type the address refers to, not the
\* opcode's.
Ldind ==
  /\ Step /\ "ldind" \in Opcodes /\ Len(stack) < MaxDepth /\ memory # Empty
  /\ Push(0, Entry(memory.type, memory.c, Kind(memory.type), Widened(memory.type, memory.cil)))

\* ldelem.<type> of an array whose elements have the size of the opcode's type.
Ldelem(op) ==
  LET t == LdelemOpcodes[op]
      element == memory.type
  IN /\ Step /\ op \in Opcodes /\ Len(stack) < MaxDepth /\ memory # Empty
     /\ Width(element) = Width(t) /\ Kind(element) = Kind(t)
     /\ IF ValidElementType(op, element)
          THEN Push(0, Entry(t, Converted(t, Casts(RightExpression(t, element), memory.c)),
                             Kind(t), Widened(t, Converted(t, memory.cil))))
          ELSE Refuse

\* The value on top goes to a location of type t.
Assign(t) ==
  /\ stack' = Below(1)
  /\ memory' = Entry(t, Converted(t, Casts(RightExpression(t, Top.type), Top.c)),
                     Kind(t), Narrowed(t, Top.cil))
  /\ UNCHANGED <<branch, refused>>
\* CIL lets the value be stored; what lands in a bool is false or true.  A store
\* has no sign, so an unsigned variable goes to any location of its kind; to a
\* native location, which is wider, the compiler converts it first.
Storable(t) ==
  /\ Len(stack) >= 1
  /\ \/ Top.kind = Kind(t)
     \/ Top.kind = "int32" /\ Kind(t) = "native" /\ (WellSigned => ~WideUnsigned(Top.type))
  /\ t = "bool" => Top.cil \in {0, 1}

\* Mutant: the stored value keeps the width of the stack.
StlocWide(t) ==
  /\ Step /\ "stloc" \in Opcodes /\ Storable(t)
  /\ stack' = Below(1)
  /\ memory' = Entry(t, Top.c, Kind(t), Narrowed(t, Top.cil))
  /\ UNCHANGED <<branch, refused>>
\* stloc and its short forms, stfld, stsfld.
Stloc(t) == Step /\ "stloc" \in Opcodes /\ Storable(t) /\ Assign(t)
\* stind.i4
Stind(t) ==
  /\ Step /\ "stind" \in Opcodes /\ Storable(t) /\ t \in {"i4", "u4"}
  /\ IF StindAccepts(t, Top.type) THEN Assign(t) ELSE Refuse
\* stelem.i4
StelemI4(t) ==
  /\ Step /\ "stelem_i4" \in Opcodes /\ Storable(t) /\ t \in {"i4", "u4"}
  /\ IF StelemI4Accepts(t, Top.type) THEN Assign(t) ELSE Refuse
\* stelem <t>
StelemAny(t) ==
  /\ Step /\ "stelem" \in Opcodes /\ Storable(t)
  /\ IF StelemAnyAccepts(t, Top.type) THEN Assign(t) ELSE Refuse

-----------------------------------------------------------------------------
Operands(op, kind) ==
  /\ Step /\ Len(stack) >= 2 /\ Compiled(op, {Top.type, Second.type})
  /\ kind = BinaryKind(Second.kind, Top.kind) /\ kind # "none"

\* The result of an operator on the two topmost variables.
Computed(op, x) ==
  Converted(x.type, Expression(op, x.cast, Second.type, Second.c, Top.type, Top.c))

Binary(op) ==
  \E kind \in DOMAIN KindType :
    /\ Operands(op, kind) /\ Defined(op, kind, Second.cil, Top.cil)
    /\ LET x == IF op \in ArithmeticOpcodes THEN Arithmetic(op, Second.type, Top.type)
                                            ELSE Logical(op, Second.type, Top.type)
       IN IF x = Invalid THEN Refuse
          ELSE Push(2, Entry(x.type, Computed(op, x), kind,
                 OnStack(kind, Applied(op, Width(KindType[kind]), Second.cil, Top.cil))))

Compare(op) ==
  \E kind \in DOMAIN KindType :
    /\ Operands(op, kind)
    /\ LET form == ConditionalOpcodes[op]
           x == Conditional(form.unsigned, Second.type, Top.type)
       IN IF x = Invalid THEN Refuse
          ELSE Push(2, Entry(x.type, Computed(form.op, x), "int32",
                             ConditionalCil(op, kind, Second.cil, Top.cil)))

\* A branch on two operands.
Branch(op) ==
  \E kind \in DOMAIN KindType :
    /\ Operands(op, kind)
    /\ branch' = [c |-> Expression(BranchOpcodes[op], "none",
                                   Second.type, Second.c, Top.type, Top.c) = 1,
                  cil |-> BranchCil(op, kind, Second.cil, Top.cil)]
    /\ stack' = Below(2)
    /\ UNCHANGED <<memory, refused>>

\* brtrue, brfalse
BranchOn(op) ==
  /\ Step /\ op \in Opcodes /\ Len(stack) >= 1 /\ Top.kind # "F"
  /\ branch' = [c |-> ApplyFalse(op, Top.c), cil |-> (op = "brtrue") = (Top.cil # 0)]
  /\ stack' = Below(1)
  /\ UNCHANGED <<memory, refused>>

Convert(op) ==
  /\ Step /\ Len(stack) >= 1 /\ Compiled(op, {Top.type})
  /\ ConvDefined(op, Top.kind, Top.cil)
  /\ LET casts == ConvOpcodes[op]
     IN IF ~ConvAccepts(op, Top.type) THEN Refuse
        ELSE Push(1, Entry(Last(casts), Casts(casts, Top.c), Kind(Last(casts)),
                           ConvCil(op, Top.kind, Top.cil)))

Dup ==
  /\ Step /\ "dup" \in Opcodes /\ Len(stack) \in 1 .. (MaxDepth - 1)
  /\ Push(0, Top)

Next ==
  \/ \E t \in Loaded : \E v \in Boundary(t) : Ldc(t, v) \/ Ldarg(t, v)
  \/ Ldloc
  \/ Ldind
  \/ \E op \in DOMAIN LdelemOpcodes : Ldelem(op)
  \/ \E t \in Stored : Stloc(t) \/ Stind(t) \/ StelemI4(t) \/ StelemAny(t)
  \/ \E op \in ArithmeticOpcodes \cup LogicalOpcodes : Binary(op)
  \/ \E op \in DOMAIN ConditionalOpcodes : Compare(op)
  \/ \E op \in DOMAIN BranchOpcodes : Branch(op)
  \/ \E op \in {"brtrue", "brfalse"} : BranchOn(op)
  \/ \E op \in DOMAIN ConvOpcodes : Convert(op)
  \/ Dup

Spec == Init /\ [][Next]_vars

-----------------------------------------------------------------------------
Cell == [type : Types \cup {"none"}, c : Int, kind : DOMAIN KindType \cup {"none"}, cil : Int]

\* Every C variable and location holds a value of its type, and its type is one
\* that stands for the kind of the CIL entry.
TypeOK ==
  /\ stack \in Seq(Cell) /\ Len(stack) <= MaxDepth /\ memory \in Cell
  /\ \A i \in 1 .. Len(stack) :
       /\ stack[i].kind = Kind(stack[i].type)
       /\ stack[i].c = Converted(stack[i].type, stack[i].c)
  /\ branch \in [c : BOOLEAN, cil : BOOLEAN]
  /\ refused \in BOOLEAN /\ steps \in 0 .. MaxSteps

\* Every C variable of the evaluation stack holds the value CIL has there.
StackAgrees ==
  \A i \in 1 .. Len(stack) : Widened(stack[i].type, stack[i].c) = stack[i].cil

\* So does every location that was stored to.
MemoryAgrees == memory # Empty => memory.c = memory.cil

\* The C code branches where CIL branches.
BranchesAgree == branch.c = branch.cil

=============================================================================
