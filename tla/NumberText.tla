------------------------------ MODULE NumberText ------------------------------
(***************************************************************************)
(* The texts of the integer types: ToString and TryParse of System.SByte   *)
(* and the others on the conversions of Platform/strings.c.  Characters    *)
(* are their codes.  The widths are scaled down and keep their order.      *)
(***************************************************************************)
EXTENDS Integers, Sequences

CONSTANTS
  Bits1, Bits2, Bits4, Bits8,   \* widths of the integer types, in bits
  LongBits,                     \* width of C's long
  Texts,                        \* what a program may parse
  Unknown                       \* no value

VARIABLES type, value, text, parsed

vars == <<type, value, text, parsed>>

Wrap(v, bits, signed) ==
  LET low == v % 2^bits
  IN IF signed /\ low >= 2^(bits - 1) THEN low - 2^bits ELSE low
Lowest(bits, signed) == IF signed THEN -(2^(bits - 1)) ELSE 0
Highest(bits, signed) == IF signed THEN 2^(bits - 1) - 1 ELSE 2^bits - 1

\* The types: their width, the width of the conversion they use, and whether
\* TryParse compares the result with the limits of the type.
NotParsed == [ok |-> FALSE, result |-> Unknown]
Type(bits, signed, read, ranged) ==
  [bits |-> bits, signed |-> signed, read |-> read, ranged |-> ranged]
SByte == Type(Bits1, TRUE, LongBits, TRUE)
Byte == Type(Bits1, FALSE, LongBits, TRUE)
Int16 == Type(Bits2, TRUE, LongBits, TRUE)
UInt16 == Type(Bits2, FALSE, LongBits, TRUE)
Int32 == Type(Bits4, TRUE, LongBits, FALSE)
UInt32 == Type(Bits4, FALSE, LongBits, FALSE)
Int64 == Type(Bits8, TRUE, Bits8, FALSE)
UInt64 == Type(Bits8, FALSE, Bits8, FALSE)
Types == {SByte, Byte, Int16, UInt16, Int32, UInt32, Int64, UInt64}
Values(t) == Lowest(t.bits, t.signed) .. Highest(t.bits, t.signed)
-----------------------------------------------------------------------------
Minus == 45
Plus == 43
Space == 32
Zero == 48
IsDigit(c) == c \in Zero .. (Zero + 9)

Decimal(n) ==
  LET f[k \in 0 .. n] == IF k < 10 THEN <<Zero + k>> ELSE Append(f[k \div 10], Zero + (k % 10))
  IN f[n]

\* INTTOW of a negative value: the lowest is a literal, the others are negated.
Negative(v, bits) ==
  IF v = Lowest(bits, TRUE) THEN <<Minus>> \o Decimal(2^(bits - 1))
                            ELSE <<Minus>> \o Decimal(Wrap(-v, bits, FALSE))

\* il2c_i32tow, il2c_u32tow, il2c_i64tow and il2c_u64tow in base 10
TextOfValue(t, v) == IF v < 0 THEN Negative(v, IF t.bits <= Bits4 THEN Bits4 ELSE Bits8) ELSE Decimal(v)

\* Skips blanks; the position of the first digit, and the digits from there.
AfterBlanks(s) == CHOOSE i \in 1 .. Len(s) + 1 :
  /\ \A j \in 1 .. (i - 1) : s[j] = Space
  /\ i <= Len(s) => s[i] # Space
AfterSign(s) ==
  LET i == AfterBlanks(s)
  IN IF i <= Len(s) /\ s[i] \in {Minus, Plus} THEN i + 1 ELSE i
IsNegative(s) == AfterBlanks(s) <= Len(s) /\ s[AfterBlanks(s)] = Minus
DigitsEnd(s) == CHOOSE i \in AfterSign(s) .. Len(s) + 1 :
  /\ \A j \in AfterSign(s) .. (i - 1) : IsDigit(s[j])
  /\ i <= Len(s) => ~IsDigit(s[i])
DigitsOf(s) == [k \in 1 .. DigitsEnd(s) - AfterSign(s) |-> s[AfterSign(s) + k - 1] - Zero]

\* Mutant: the division rounds down.
QuotientFloor(a, b) == a \div b
\* C's division truncates.
Quotient(a, b) == IF a >= 0 THEN a \div b ELSE -((-a) \div b)
Remainder(a, b) == a - b * Quotient(a, b)

\* The number that digits stand for.
Total(digits) ==
  LET sum[i \in 0 .. Len(digits)] == IF i = 0 THEN 0 ELSE sum[i - 1] * 10 + digits[i]
  IN sum[Len(digits)]

\* il2c_wtoi32 and wcstoll in base 10: saturation at the limits of the type,
\* found before the digit is added.
Signed(s, bits) ==
  LET neg == IsNegative(s)
      limit == IF neg THEN Lowest(bits, TRUE) ELSE Highest(bits, TRUE)
      cutoff == Quotient(limit, 10)
      cutlim == IF neg THEN -Remainder(limit, 10) ELSE Remainder(limit, 10)
      Add(a, d) ==
        IF a.range THEN a
        ELSE IF \/ IF neg THEN a.acc < cutoff ELSE a.acc > cutoff
                \/ a.acc = cutoff /\ d > cutlim
        THEN [acc |-> limit, range |-> TRUE]
        ELSE [acc |-> IF neg THEN a.acc * 10 - d ELSE a.acc * 10 + d, range |-> FALSE]
      digits == DigitsOf(s)
      sum[i \in 0 .. Len(digits)] ==
        IF i = 0 THEN [acc |-> 0, range |-> FALSE] ELSE Add(sum[i - 1], digits[i])
      read == sum[Len(digits)]
  IN [value |-> read.acc, errno |-> read.range, any |-> digits # <<>>]

\* wcstoul and wcstoull: the magnitude saturates, a minus sign negates it.
Unsigned(s, bits) ==
  LET magnitude == Total(DigitsOf(s))
      range == magnitude > Highest(bits, FALSE)
      v == IF range THEN Highest(bits, FALSE)
           ELSE IF IsNegative(s) THEN Wrap(-magnitude, bits, FALSE) ELSE magnitude
  IN [value |-> v, errno |-> range, any |-> DigitsOf(s) # <<>>]

\* TryParse assigns the result in any case; what follows the digits is ignored.
TryParse(t, s) ==
  LET read == IF t.signed THEN Signed(s, t.read) ELSE Unsigned(s, t.read)
  IN [ok |-> /\ read.any /\ ~read.errno
             /\ t.ranged => read.value \in Values(t),
      result |-> Wrap(read.value, t.bits, t.signed)]

\* il2c_twtoi
Twtoi(s) ==
  LET digits == DigitsOf(s)
      sum[i \in 0 .. Len(digits)] ==
        IF i = 0 THEN 0 ELSE Wrap(sum[i - 1] * 10 + digits[i], Bits4, TRUE)
      n == sum[Len(digits)]
  IN [ok |-> digits # <<>>, value |-> IF IsNegative(s) THEN Wrap(-n, Bits4, TRUE) ELSE n]
-----------------------------------------------------------------------------
\* A text of the program, or the text of a value.
Init ==
  /\ type \in Types /\ parsed = NotParsed
  /\ \/ value \in Values(type) /\ text = TextOfValue(type, value)
     \/ value = Unknown /\ text \in Texts
Parse ==
  /\ parsed = NotParsed
  /\ parsed' = TryParse(type, text)
  /\ UNCHANGED <<type, value, text>>
Next == Parse
Spec == Init /\ [][Next]_vars
-----------------------------------------------------------------------------
\* The number that a text of an optional sign and digits stands for.
Number(s) == IF IsNegative(s) THEN -Total(DigitsOf(s)) ELSE Total(DigitsOf(s))
IsNumeral(s) == DigitsOf(s) # <<>> /\ DigitsEnd(s) = Len(s) + 1

\* A numeral is parsed exactly if the type has its value, and to that value, the
\* text of a value is a numeral for it, and il2c_twtoi agrees where Int32 has
\* the number (SByte.c:43 and its siblings, strings.c:10-267).  Unsigned types
\* are given no minus sign: wcstoul would negate (UInt32.c:53).
ParseAgrees ==
  /\ value # Unknown => IsNumeral(text) /\ Number(text) = value
  /\ parsed # NotParsed /\ IsNumeral(text) /\ (type.signed \/ ~IsNegative(text)) =>
       /\ parsed.ok <=> Number(text) \in Values(type)
       /\ parsed.ok => parsed.result = Number(text)
       /\ Number(text) \in Values(Int32) => Twtoi(text).ok /\ Twtoi(text).value = Number(text)
=============================================================================
