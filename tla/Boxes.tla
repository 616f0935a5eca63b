------------------------------- MODULE Boxes -------------------------------
(***************************************************************************)
(* Boxing: the box and unbox.any that BoxConverters writes, and            *)
(* il2c_box__, il2c_box2__ and il2c_unbox__, for the integer types.  The   *)
(* value of a type has Bits of its size, scaled down.                      *)
(***************************************************************************)
EXTENDS Integers

CONSTANTS
  Bits,         \* the bits of a value of 1, 2, 4 or 8 bytes
  WcharSizes    \* sizes of the C type of System.Char

VARIABLES
  wchar,        \* sizeof(wchar_t)
  stack,        \* the value on the evaluation stack: [type, value]
  object,       \* the box: [type, raw], or NoBox
  asked,        \* the operand of the last operation
  outcome,      \* and what it did
  expected      \* the value that .NET has there, in a set, or {} after code that it does not
                \* allow and boxes of a Char that the code gets wrong

vars == <<wchar, stack, object, asked, outcome, expected>>

NoBox == [type |-> "null", raw |-> 0]
Enums == {"Enum1", "Enum4"}     \* of Byte and of Int32
Unsigned == {"Byte", "UInt16", "UInt32", "UInt64", "Char", "Boolean", "Enum1"}
\* InternalStaticSizeOfValue, and the size in C.
Size(t) ==
  IF t \in {"SByte", "Byte", "Boolean", "Enum1"} THEN 1
  ELSE IF t \in {"Int16", "UInt16", "Char"} THEN 2
  ELSE IF t \in {"Int32", "UInt32", "Enum4"} THEN 4 ELSE 8
BodySize(t) == IF t = "Char" THEN wchar ELSE Size(t)
Types == Unsigned \cup {"SByte", "Int16", "Int32", "Int64", "Enum4"}

\* The value of a type in the low bits of n, and the values it has.
Wrap(n, t, bits) ==
  LET low == n % 2 ^ bits
  IN IF t \notin Unsigned /\ low >= 2 ^ (bits - 1) THEN low - 2 ^ bits ELSE low
Values(t) == {Wrap(n, t, Bits[Size(t)]) : n \in 0 .. 2 ^ Bits[Size(t)] - 1}

Init ==
  /\ wchar \in WcharSizes
  /\ \E t \in Types : \E n \in Values(t) : stack = [type |-> t, value |-> n] /\ expected = {n}
  /\ object = NoBox /\ asked = "none" /\ outcome = "pushed"
-----------------------------------------------------------------------------
\* il2c_box2__: the sizes it converts between, and the value that it converts,
\* which it reads with the sign of its type.
Converts(to, from) ==
  <<to, from>> \in {<<1, 2>>, <<1, 4>>, <<2, 1>>, <<2, 4>>, <<4, 1>>, <<4, 2>>, <<4, 8>>}
\* Mutant: the value is read without its sign.
UnsignedSource(t, n) == n % 2 ^ Bits[Size(t)]
Source(t, n) == n
Boxed(operand, raw) ==
  /\ object' = [type |-> operand, raw |-> raw % 2 ^ Bits[BodySize(operand)]] /\ outcome' = "boxed"
\* il2c_box__: as many bytes are copied as the box has, also those behind a
\* smaller value.
Copied(operand, t, n) ==
  IF BodySize(operand) <= BodySize(t) THEN Boxed(operand, n)
  ELSE \E above \in 0 .. 2 ^ (Bits[BodySize(operand)] - Bits[BodySize(t)]) - 1 :
         Boxed(operand, (n % 2 ^ Bits[BodySize(t)]) + above * 2 ^ Bits[BodySize(t)])
Threw(what) == UNCHANGED <<object>> /\ outcome' = what

\* What the C# compiler writes: it boxes an integer of eight bytes from one, and
\* others from one of four or less.
Verifiable(operand, t) == (Size(operand) = 8) <=> (Size(t) = 8)

\* The converters count two bytes for a Char.  Where its wchar_t has four,
\* il2c_box2__ throws for a Char and a type of four bytes, for which it has no
\* conversion (il2c.c:253); il2c_box__ copies four bytes of a value of two, and
\* an SByte gives all four its sign.
Small == {"Char", "Byte", "Boolean", "Enum1"}
Refused(operand, t) ==
  wchar = 4 /\ \/ operand = "Char" /\ Size(t) = 4
               \/ t = "Char" /\ Size(operand) = 4
Misjudged(operand, t) == Refused(operand, t) \/ (wchar = 4 /\ operand = "Char" /\ t \notin Small)

\* BoxConverter: all these types are Int64StackFriendly.
Box(operand) ==
  LET t == stack.type
      n == Source(t, stack.value)
  IN /\ outcome \in {"pushed", "unboxed"}
     /\ IF Size(operand) # Size(t)
        THEN IF Converts(BodySize(operand), BodySize(t)) THEN Boxed(operand, n) ELSE Threw("refused")
        ELSE Copied(operand, t, n)
     /\ expected' = IF Verifiable(operand, t) /\ ~Misjudged(operand, t)
                    THEN {Wrap(v, operand, Bits[Size(operand)]) : v \in expected} ELSE {}
     /\ asked' = operand /\ UNCHANGED <<wchar, stack>>

\* unbox.any, of the box or of a NULL reference.
Unbox(operand) ==
  /\ outcome \in {"pushed", "boxed"}
  /\ IF object = NoBox THEN Threw("NullReference") /\ UNCHANGED stack
     ELSE IF object.type # operand THEN Threw("InvalidCast") /\ UNCHANGED stack
     ELSE /\ stack' = [type |-> operand, value |-> Wrap(object.raw, operand, Bits[BodySize(operand)])]
          /\ object' = NoBox /\ outcome' = "unboxed"
  /\ asked' = operand /\ UNCHANGED <<wchar, expected>>

Next == \E t \in Types : Box(t) \/ Unbox(t)
Spec == Init /\ [][Next]_vars
-----------------------------------------------------------------------------
\* A box holds the value that .NET puts into it, truncated or with the sign of
\* the type that the C variable has, and gives it back to the type that made it
\* and to no other, through any chain of boxes (il2c.c:187, BoxConverters.cs:51).
\* Where wchar_t has four bytes the code throws for a Char boxed from a type of
\* four bytes, and for a Char boxed as one, although .NET and Box_Narrowing.cs:11
\* and Box_Widing.cs:13 have a box there; and of a Char boxed from a type of two
\* bytes or an SByte nothing is said.  In all other code boxing never throws.
BoxesAgree ==
  /\ outcome = "boxed" =>
       expected \subseteq {Wrap(object.raw, object.type, Bits[BodySize(object.type)])}
  /\ outcome = "refused" => ~Verifiable(asked, stack.type) \/ Refused(asked, stack.type)
  /\ outcome = "unboxed" => stack.type = asked /\ expected \subseteq {stack.value}
  /\ outcome = "InvalidCast" => asked # object.type
  /\ outcome = "NullReference" => object = NoBox
=============================================================================
