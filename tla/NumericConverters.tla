--------------------------- MODULE NumericConverters ---------------------------
(***************************************************************************)
(* The converters of the numeric CIL instructions (IL2C.Core/ILConveters): *)
(* what each accepts from the evaluation stack, the type of the C variable *)
(* it pushes, and the value of the C expression it emits.                  *)
(*                                                                         *)
(* CIL knows only int32, int64, native int and F on the stack and leaves   *)
(* signedness to the opcodes.  IL2C gives every stack position a typed C   *)
(* variable instead, so a value keeps the C type it was loaded with and C  *)
(* applies its own conversions to it.                                      *)
(*                                                                         *)
(* Widths are scaled down: an integer of n bytes has Bits(n) bits.  Signed *)
(* C arithmetic wraps, as the supported compilers make it do for a single  *)
(* assignment.  Floating point values are whole numbers.                   *)
(***************************************************************************)
EXTENDS Integers, SequencesExt

CONSTANTS
  Bits1, Bits2, Bits4, Bits8,   \* bits of integers of 1, 2, 4 and 8 bytes
  PointerSize                   \* bytes of intptr_t: 4 or 8

-----------------------------------------------------------------------------
(* C types of variables, named after System.Metadata: i1 is int8_t and     *)
(* System.SByte, up is uintptr_t and System.UIntPtr.                       *)
Floats == {"r4", "r8"}
Pointers == {"ip", "up"}
Unsigned == {"bool", "u1", "u2", "u4", "u8", "up"}

IntegerPrimitive == {"i1", "u1", "i2", "u2", "i4", "u4", "i8", "u8"}
NumericPrimitive == IntegerPrimitive \cup Pointers \cup Floats
Types == NumericPrimitive \cup {"bool"}

\* Mutant: the size of a bool is taken for that of an int64.
StaticSizeOfValueBool(t) ==
  CASE t \in {"u1", "i1"} -> 1
    [] t \in {"i2", "u2"} -> 2
    [] t \in {"i4", "u4", "r4"} -> 4
    [] OTHER -> 8
StaticSizeOfValue(t) ==
  CASE t \in {"u1", "i1", "bool"} -> 1
    [] t \in {"i2", "u2"} -> 2
    [] t \in {"i4", "u4", "r4"} -> 4
    [] OTHER -> 8

IsInt32StackFriendlyType(t) ==
  t \in IntegerPrimitive \cup {"bool"} /\ StaticSizeOfValue(t) <= 4
IsInt64StackFriendlyType(t) ==
  t \in IntegerPrimitive \cup {"bool"} /\ StaticSizeOfValue(t) <= 8
IsFloatStackFriendlyType(t) == t \in Floats
IsIntPtrStackFriendlyType(t) == t \in Pointers

-----------------------------------------------------------------------------
(* What a C compiler makes of an expression.                               *)
Width(t) ==
  LET bytes == IF t \in Pointers THEN PointerSize ELSE StaticSizeOfValue(t)
  IN CASE bytes = 1 -> Bits1 [] bytes = 2 -> Bits2
       [] bytes = 4 -> Bits4 [] bytes = 8 -> Bits8

AsUnsigned(w, v) == v % 2^w
AsSigned(w, v) == ((v + 2^(w-1)) % 2^w) - 2^(w-1)

\* The value of (t)v.
Converted(t, v) ==
  CASE t = "bool" -> IF v = 0 THEN 0 ELSE 1
    [] t \in Floats -> v
    [] t \in Unsigned \ {"bool"} -> AsUnsigned(Width(t), v)
    [] OTHER -> AsSigned(Width(t), v)
\* At most two casts, the first one applied first.
Casts(ts, v) ==
  LET first == IF ts = <<>> THEN v ELSE Converted(ts[1], v)
  IN IF Len(ts) = 2 THEN Converted(ts[2], first) ELSE first

Promoted(t) == IF t \in Types \ Floats /\ Width(t) < Bits4 THEN "i4" ELSE t
\* The type both operands of an operator are converted to.
CommonType(t, u) ==
  LET p == Promoted(t)
      q == Promoted(u)
      wide == IF Width(p) >= Width(q) THEN Width(p) ELSE Width(q)
  IN IF {p, q} \cap Floats # {} THEN "r8"
     ELSE IF \E r \in {p, q} : r \in Unsigned /\ Width(r) = wide
       THEN IF wide = Bits4 THEN "u4" ELSE "u8"
       ELSE IF wide = Bits4 THEN "i4" ELSE "i8"

Magnitude(a) == IF a < 0 THEN -a ELSE a
Quotient(a, b) ==
  IF (a < 0) = (b < 0) THEN Magnitude(a) \div Magnitude(b)
                       ELSE -(Magnitude(a) \div Magnitude(b))
Bit(holds) == IF holds THEN 1 ELSE 0
\* &, | and ^ of the w lowest bits, from the highest one on.
OnBits(op, w, m, n) ==
  LET ones(k) == ((m \div 2^k) % 2) + ((n \div 2^k) % 2)
      holds(k) == ones(k) \in (CASE op = "and" -> {2} [] op = "or" -> {1, 2} [] op = "xor" -> {1})
      high[k \in 0 .. w] == IF k = 0 THEN 0 ELSE 2 * high[k - 1] + Bit(holds(w - k))
  IN high[w]
\* An operator on two integers, exact or on bits of width w.
Applied(op, w, a, b) ==
  CASE op = "add" -> a + b
    [] op = "sub" -> a - b
    [] op = "mul" -> a * b
    [] op = "div" -> Quotient(a, b)
    [] op = "rem" -> a - b * Quotient(a, b)
    [] op \in {"and", "or", "xor"} -> OnBits(op, w, AsUnsigned(w, a), AsUnsigned(w, b))
    [] op = "eq"  -> Bit(a = b)
    [] op = "ne"  -> Bit(a # b)
    [] op = "gt"  -> Bit(a > b)
    [] op = "ge"  -> Bit(a >= b)
    [] op = "lt"  -> Bit(a < b)
    [] op = "le"  -> Bit(a <= b)

\* The value of (cast)a op (cast)b, where a has type t and b type u.
Expression(op, cast, t, a, u, b) ==
  LET common == IF cast = "none" THEN CommonType(t, u) ELSE CommonType(cast, cast)
      operand(x, v) == Converted(common, IF cast = "none" THEN v ELSE Converted(cast, v))
  IN Converted(common, Applied(op, Width(common), operand(t, a), operand(u, b)))

-----------------------------------------------------------------------------
(* What a converter emits: the type it pushes and the casts of the         *)
(* operands; Invalid where it throws InvalidProgramSequenceException.      *)
Invalid == [type |-> "none", cast |-> "none"]
Emit(type, cast) == [type |-> type, cast |-> cast]

\* IntPtr = (Int32|IntPtr) op (Int32|IntPtr)
NativeOperands(t, u) ==
  \A x \in {t, u} : IsInt32StackFriendlyType(x) \/ IsIntPtrStackFriendlyType(x)

\* Mutant: native integers are computed in 32 bits.
ArithmeticNarrow(op, t, u) ==
  IF IsInt32StackFriendlyType(t) /\ IsInt32StackFriendlyType(u) THEN Emit("i4", "none")
  ELSE IF IsInt64StackFriendlyType(t) /\ IsInt64StackFriendlyType(u) THEN Emit("i8", "none")
  ELSE IF IsFloatStackFriendlyType(t) /\ IsFloatStackFriendlyType(u) THEN Emit("r8", "r8")
  ELSE IF NativeOperands(t, u) THEN Emit("ip", "i4")
  ELSE Invalid
Arithmetic(op, t, u) ==
  IF IsInt32StackFriendlyType(t) /\ IsInt32StackFriendlyType(u) THEN Emit("i4", "none")
  ELSE IF IsInt64StackFriendlyType(t) /\ IsInt64StackFriendlyType(u) THEN Emit("i8", "none")
  ELSE IF IsFloatStackFriendlyType(t) /\ IsFloatStackFriendlyType(u) THEN Emit("r8", "r8")
  ELSE IF NativeOperands(t, u) THEN Emit("ip", "ip")
  ELSE Invalid

Logical(op, t, u) ==
  IF IsInt32StackFriendlyType(t) /\ IsInt32StackFriendlyType(u) THEN Emit("i4", "none")
  ELSE IF IsInt64StackFriendlyType(t) /\ IsInt64StackFriendlyType(u) THEN Emit("i8", "none")
  ELSE IF NativeOperands(t, u) THEN Emit("ip", "ip")
  ELSE Invalid

ArithmeticOpcodes == {"add", "sub", "mul", "div", "rem"}
LogicalOpcodes == {"and", "or", "xor"}

\* Mutant: the unsigned comparisons compare as signed.
ConditionalSigned(unsigned, t, u) ==
  IF IsInt32StackFriendlyType(t) /\ IsInt32StackFriendlyType(u) THEN Emit("i4", "i4")
  ELSE IF IsInt64StackFriendlyType(t) \/ IsInt64StackFriendlyType(u) THEN Emit("i4", "i8")
  ELSE IF IsIntPtrStackFriendlyType(t) /\ IsIntPtrStackFriendlyType(u) THEN Emit("i4", "ip")
  ELSE Invalid
Conditional(unsigned, t, u) ==
  IF IsInt32StackFriendlyType(t) /\ IsInt32StackFriendlyType(u)
    THEN Emit("i4", IF unsigned THEN "u4" ELSE "i4")
  ELSE IF IsInt64StackFriendlyType(t) \/ IsInt64StackFriendlyType(u)
    THEN Emit("i4", IF unsigned THEN "u8" ELSE "i8")
  ELSE IF IsIntPtrStackFriendlyType(t) /\ IsIntPtrStackFriendlyType(u)
    THEN Emit("i4", IF unsigned THEN "up" ELSE "ip")
  ELSE Invalid

\* The C operator of each conditional opcode, and whether it is unsigned.
ConditionalOpcodes ==
  [cgt    |-> [op |-> "gt", unsigned |-> FALSE],
   cgt_un |-> [op |-> "gt", unsigned |-> TRUE],
   clt    |-> [op |-> "lt", unsigned |-> FALSE],
   clt_un |-> [op |-> "lt", unsigned |-> TRUE],
   ceq    |-> [op |-> "eq", unsigned |-> FALSE]]

\* The casts of each conversion, the one applied first at the left; the last
\* is the type that is pushed.
ConvOpcodes ==
  [conv_i1 |-> <<"i4", "i1">>, conv_i2 |-> <<"i4", "i2">>,
   conv_i4 |-> <<"i4">>, conv_i8 |-> <<"i8">>, conv_i |-> <<"ip">>,
   conv_u1 |-> <<"u4", "u1">>, conv_u2 |-> <<"u2">>,
   conv_u4 |-> <<"u4">>, conv_u8 |-> <<"u8">>, conv_u |-> <<"up">>,
   conv_r4 |-> <<"r4">>, conv_r8 |-> <<"r8">>]
\* Mutant: a conversion also takes a bool that nothing widened.
ConvAcceptsInteger(op, t) ==
  IF op \in {"conv_r4", "conv_r8"} THEN t \in Floats ELSE t \in IntegerPrimitive
ConvAccepts(op, t) ==
  IF op \in {"conv_r4", "conv_r8"} THEN t \in Floats ELSE t \in NumericPrimitive

\* Mutant: bge.s tests >.
BranchOpcodesStrict ==
  [beq |-> "eq", bne_un |-> "ne", blt |-> "lt", bgt |-> "gt",
   ble |-> "gt", bge |-> "gt"]
\* The C operator of a branch on two operands; they are compared as they are.
BranchOpcodes ==
  [beq |-> "eq", bne_un |-> "ne", blt |-> "lt", bgt |-> "gt",
   ble |-> "gt", bge |-> "ge"]
\* brtrue and brfalse: == or != against false, 0 or NULL.
ApplyFalse(op, v) == IF op = "brtrue" THEN v # 0 ELSE v = 0

\* The casts of a value of type rhs stored where lhs is expected.
RightExpression(lhs, rhs) ==
  IF lhs = rhs THEN <<>>
  ELSE IF rhs \in NumericPrimitive
    THEN IF lhs \in NumericPrimitive THEN <<lhs>> ELSE <<"bool">>
  ELSE IF lhs = "i4" THEN <<"i4">>
  ELSE <<"i4", lhs>>

\* The type each ldelem reads an element as, and the element types it takes.
LdelemOpcodes ==
  [ldelem_i1 |-> "i1", ldelem_i2 |-> "i2", ldelem_i4 |-> "i4", ldelem_i8 |-> "i8",
   ldelem_u1 |-> "u1", ldelem_u2 |-> "u2", ldelem_u4 |-> "u4",
   ldelem_r4 |-> "r4", ldelem_r8 |-> "r8"]
ValidElementType(op, element) ==
  CASE op \in {"ldelem_r4", "ldelem_r8"} -> IsFloatStackFriendlyType(element)
    [] op = "ldelem_i8" -> IsInt64StackFriendlyType(element)
    [] OTHER -> IsInt32StackFriendlyType(element)

\* What the stores through an address or into an array take; stloc, stfld and
\* stsfld take what has a right expression.
StelemI4Accepts(element, t) == t \in NumericPrimitive /\ IsInt32StackFriendlyType(element)
StindAccepts(dereferenced, t) == dereferenced = t
StelemAnyAccepts(element, t) == element = t
=============================================================================
