------------------------------ MODULE StringStore ------------------------------
(***************************************************************************)
(* The strings that System.String makes.  A string is its buffer: cells    *)
(* that new_string_internal__ allocates and the operation fills, read up   *)
(* to the first terminator.  Each comes with the text it should have.      *)
(***************************************************************************)
EXTENDS Integers, SequencesExt

CONSTANTS
  Literals,     \* texts of string literals: sequences of characters, not 0
  Utf8Texts,    \* [bytes, text]: encodings that native code hands in
  MaxStrings, MaxLength

VARIABLES
  store,        \* [cells, text] of the strings that were made
  thrown,       \* whether the last operation threw an exception
  char          \* the compiler's char, "signed" or "unsigned"

vars == <<store, thrown, char>>

Nul == 0
Unset == -1     \* a cell that nothing was copied to

wcslen(cells) ==
  LET ends == {i \in DOMAIN cells : cells[i] = Nul}
  IN (CHOOSE i \in ends : \A j \in ends : i <= j) - 1

\* memcpy of n cells of from, from its i-th on, to the j-th of cells on.
Copy(cells, j, from, i, n) ==
  [k \in DOMAIN cells |-> IF k \in j .. (j + n - 1) THEN from[i + (k - j)] ELSE cells[k]]
Allocate(n) == [k \in 1 .. n |-> Unset]

Init == store = <<>> /\ thrown = FALSE /\ char \in {"signed", "unsigned"}

Made(cells, text) ==
  /\ Len(store) < MaxStrings /\ Len(text) <= MaxLength
  /\ store' = Append(store, [cells |-> cells, text |-> text])
  /\ thrown' = FALSE /\ UNCHANGED char
-----------------------------------------------------------------------------
\* il2c_new_string_with_length__ for a native string and its length
NewString(text) ==
  Made([Copy(Allocate(Len(text) + 1), 1, text, 1, Len(text)) EXCEPT ![Len(text) + 1] = Nul], text)

\* A byte as the code compares it: ch0 <= 0x7f and so on.
AsChar(byte) == IF char = "signed" /\ byte >= 128 THEN byte - 256 ELSE byte
\* (wchar_t)ch0, of 16 bits.
AsWchar(c) == IF c < 0 THEN c + 65536 ELSE c
Lead(byte) ==
  LET c == AsChar(byte)
  IN IF c <= 127 THEN 1 ELSE IF c <= 223 THEN 2 ELSE IF c <= 239 THEN 3 ELSE IF c <= 247 THEN 4
     ELSE IF c <= 251 THEN 5 ELSE IF c <= 253 THEN 6 ELSE 1

\* il2c_get_utf8_length: one for each lead byte and one for the terminator.
Utf8Length(bytes) ==
  LET from[i \in 1 .. Len(bytes) + 6] ==
        IF i > Len(bytes) THEN 1 ELSE 1 + from[i + Lead(bytes[i])]
  IN from[1]

\* C's |, of numbers of at most 16 bits.
Bit(n, k) == (n \div (2 ^ k)) % 2
BitOr(m, n) == SumSet({2 ^ k : k \in {k \in 0 .. 15 : Bit(m, k) + Bit(n, k) > 0}})

\* How many bytes il2c_utf16_from_utf8_and_get_last takes for a character: of a
\* sequence of more than three bytes the first three.
\* Mutant: a sequence of three bytes is taken as one of two.
TakenAsTwo(byte) == IF Lead(byte) = 1 THEN 1 ELSE 2
Taken(byte) == IF Lead(byte) <= 3 THEN Lead(byte) ELSE 3
\* The character it makes of them; '?' for a longer sequence.
Character(bytes, i) ==
  LET at(k) == IF k > Len(bytes) THEN 0 ELSE bytes[k]
  IN IF Lead(bytes[i]) = 1 THEN AsWchar(AsChar(bytes[i]))
     ELSE IF Lead(bytes[i]) = 2 THEN ((at(i) % 32) * 64) + (at(i + 1) % 64)
     ELSE IF Lead(bytes[i]) = 3
          THEN BitOr((at(i) % 16) * 256, (at(i + 1) % 64) * 64) + (at(i + 2) % 64)
     ELSE 63
\* il2c_utf16_from_utf8_and_get_last
Decoded(bytes) ==
  LET from[i \in 1 .. Len(bytes) + 3] ==
        IF i > Len(bytes) THEN <<Nul>>
        ELSE <<Character(bytes, i)>> \o from[i + Taken(bytes[i])]
  IN from[1]

\* The text that is read: a signed char is never above 0x7f, each byte is a
\* character then, and only ASCII is what was encoded.
Given(u) ==
  IF char = "signed" THEN [i \in DOMAIN u.bytes |-> AsWchar(AsChar(u.bytes[i]))] ELSE u.text
\* il2c_new_string_from_utf8__
FromUtf8(u) ==
  LET written == Decoded(u.bytes)
  IN Made(Copy(Allocate(Utf8Length(u.bytes)), 1, written, 1, Len(written)), Given(u))

\* System_String_Concat; a null operand gives the other one.
Concat2(a, b) ==
  LET m == wcslen(a.cells)
      n == wcslen(b.cells)
  IN Made(Copy(Copy(Allocate(m + n + 1), 1, a.cells, 1, m), m + 1, b.cells, 1, n + 1),
          a.text \o b.text)
Concat3(a, b, c) ==
  LET l == wcslen(a.cells)
      m == wcslen(b.cells)
      n == wcslen(c.cells)
  IN Made(Copy(Copy(Copy(Allocate(l + m + n + 1), 1, a.cells, 1, l), l + 1, b.cells, 1, m),
               l + m + 1, c.cells, 1, n + 1),
          a.text \o b.text \o c.text)

\* System_String_Substring; the whole string is returned as it is.
SubstringFrom(a, startIndex) ==
  LET n == wcslen(a.cells)
  IN /\ startIndex \in 1 .. (n - 1)
     /\ Made(Copy(Allocate(n - startIndex + 1), 1, a.cells, startIndex + 1, n - startIndex + 1),
             SubSeq(a.text, startIndex + 1, Len(a.text)))

\* Mutant: the terminator is left out.
SubstringUnterminated(a, startIndex, length) ==
  /\ startIndex + length <= wcslen(a.cells)
  /\ startIndex # 0 \/ length # wcslen(a.cells)
  /\ Made(Copy(Allocate(length + 1), 1, a.cells, startIndex + 1, length + 1),
          SubSeq(a.text, startIndex + 1, startIndex + length))

Substring(a, startIndex, length) ==
  /\ startIndex + length <= wcslen(a.cells)
  /\ startIndex # 0 \/ length # wcslen(a.cells)
  /\ Made([Copy(Allocate(length + 1), 1, a.cells, startIndex + 1, length) EXCEPT
             ![length + 1] = Nul],
          SubSeq(a.text, startIndex + 1, startIndex + length))

\* System_String_get_Chars: IndexOutOfRangeException outside of the string.
OutOfRange(a, i) == i < 0 \/ i >= wcslen(a.cells)
GetChars(a, i) == thrown' = OutOfRange(a, i) /\ UNCHANGED <<store, char>>

Next ==
  \/ \E text \in Literals : NewString(text)
  \/ \E u \in Utf8Texts : FromUtf8(u)
  \/ \E a, b \in Range(store) : Concat2(a, b)
  \/ \E a, b, c \in Range(store) : Concat3(a, b, c)
  \/ \E a \in Range(store) : \E i \in 0 .. MaxLength :
       \/ SubstringFrom(a, i)
       \/ \E n \in 0 .. MaxLength : Substring(a, i, n)
       \/ GetChars(a, i - 1)
Spec == Init /\ [][Next]_vars
-----------------------------------------------------------------------------
\* wcscmp up to the terminators, System_String_Equals and op_Equality
SameText(a, b) ==
  /\ wcslen(a.cells) = wcslen(b.cells)
  /\ \A i \in 1 .. wcslen(a.cells) : a.cells[i] = b.cells[i]

\* System_String_IsNullOrWhiteSpace: up to the first character that is neither
\* a space nor a tab, or the terminator.
IsWhiteSpace(a) == \A i \in 1 .. wcslen(a.cells) : a.cells[i] \in {9, 32}

\* However a string was made, from strings that were made in any way, its
\* buffer holds its text and ends with it, and equal strings have equal texts
\* (String.c:36-260, 444-733).  The text of UTF-8 from native code is the one
\* that was encoded if char is unsigned; where it is signed, as for gcc and
\* MSVC on x86, the code decodes nothing but ASCII and takes every other byte
\* for a character of its own (String.c:123, 188): the buffer has one for each
\* byte.  Of characters from U+0800 on only the number is compared:
\* il2c_utf16_from_utf8_and_get_last puts their first four bits in the wrong
\* place (String.c:202).
Exact(text) == \A i \in DOMAIN text : text[i] < 2048
StringsAgree ==
  /\ \A s \in Range(store) :
       /\ Len(s.cells) = Len(s.text) + 1 /\ wcslen(s.cells) = Len(s.text)
       /\ Exact(s.text) => SubSeq(s.cells, 1, Len(s.text)) = s.text
       /\ Exact(s.text) => (IsWhiteSpace(s) <=> Range(s.text) \subseteq {9, 32})
  /\ \A s, t \in Range(store) :
       Exact(s.text) /\ Exact(t.text) => (SameText(s, t) <=> s.text = t.text)
=============================================================================
