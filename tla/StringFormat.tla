----------------------------- MODULE StringFormat -----------------------------
(***************************************************************************)
(* System.String.Format: il2c_format_string__ goes three times through the *)
(* composite format, a character per step.  The first pass counts the      *)
(* items, the second formats the arguments and adds up the length, the     *)
(* third writes into a string of that length.                              *)
(***************************************************************************)
EXTENDS Integers, Sequences, Functions

CONSTANTS
  Formats,      \* composite formats: sequences of characters
  Arguments,    \* lists of arguments
  UInt16Max     \* stands for UINT16_MAX

VARIABLES
  format, args,
  pass,
  state,        \* "fetch", "index0", "index" or "format"
  index,        \* of the character that is read next
  start,        \* compositeFormatStartIndex: where the literal text starts
  formatStart, argumentIndex,
  itemCount, itemIndex, length,
  formatted,    \* ppFormattedString
  target,       \* what was written into the string
  result

vars == <<format, args, pass, state, index, start, formatStart, argumentIndex, itemCount,
          itemIndex, length, formatted, target, result>>

Nul == "nul"
Opening == "{"
Closing == "}"
Space == " "
Digits == <<"0", "1", "2", "3", "4", "5", "6", "7", "8", "9">>
Digit(c) == CHOOSE d \in 0 .. 9 : Digits[d + 1] = c
IsDigit(c) == c \in Range(Digits)

\* The text of an argument: of IFormattable.ToString, of Object.ToString, or
\* the empty string for null.
TextOf(arg, fmt) ==
  IF arg = "null" THEN <<>> ELSE IF arg = "formattable" THEN <<"n">> \o fmt ELSE <<"o", "o">>

Init ==
  /\ format \in Formats /\ args \in Arguments
  /\ pass = 1 /\ state = "fetch" /\ index = 1 /\ start = 1 /\ formatStart = 1
  /\ argumentIndex = 0
  /\ itemCount = 0 /\ itemIndex = 0 /\ length = 0
  /\ formatted = <<>> /\ target = <<>> /\ result = "running"

ch == IF index <= Len(format) THEN format[index] ELSE Nul
Text(from, to) == SubSeq(format, from, to)
Read(s) == result = "running" /\ state = s /\ index' = index + 1 /\ UNCHANGED <<format, args>>
-----------------------------------------------------------------------------
\* The token writers of the three steps.
TokenWriter(text) ==
  /\ length' = IF pass = 2 THEN length + Len(text) ELSE length
  /\ target' = IF pass = 3 THEN target \o text ELSE target

\* The items are counted by numbers of 16 bits.
Count(n) == (n + 1) % (UInt16Max + 1)

\* Mutant: the second step takes the arguments in their order.
ArgumentWriterInOrder(fmt) ==
  /\ argumentIndex < Len(args)
  /\ CASE pass = 1 -> /\ itemCount' = Count(itemCount)
                      /\ UNCHANGED <<formatted, length, itemIndex, target>>
       [] pass = 2 -> LET text == TextOf(args[(itemIndex % Len(args)) + 1], fmt)
                      IN /\ formatted' = Append(formatted, text)
                         /\ length' = length + Len(text)
                         /\ itemIndex' = Count(itemIndex)
                         /\ UNCHANGED <<itemCount, target>>
       [] OTHER -> /\ target' = target \o formatted[itemIndex + 1]
                   /\ itemIndex' = Count(itemIndex)
                   /\ UNCHANGED <<itemCount, formatted, length>>

\* The argument writers of the three steps; the first refuses an index.
ArgumentWriter(fmt) ==
  /\ argumentIndex < Len(args)
  /\ CASE pass = 1 -> /\ itemCount' = Count(itemCount)
                      /\ UNCHANGED <<formatted, length, itemIndex, target>>
       [] pass = 2 -> LET text == TextOf(args[argumentIndex + 1], fmt)
                      IN /\ formatted' = Append(formatted, text)
                         /\ length' = length + Len(text)
                         /\ itemIndex' = Count(itemIndex)
                         /\ UNCHANGED <<itemCount, target>>
       [] OTHER -> /\ target' = target \o formatted[itemIndex + 1]
                   /\ itemIndex' = Count(itemIndex)
                   /\ UNCHANGED <<itemCount, formatted, length>>

NoArgument == UNCHANGED <<itemCount, itemIndex, formatted>>
Nothing == NoArgument /\ UNCHANGED <<length, target>>
Refuse ==
  /\ result' = "FormatException"
  /\ Nothing /\ UNCHANGED <<pass, state, start, formatStart, argumentIndex>>
-----------------------------------------------------------------------------
\* Literal text up to a brace.
Fetch ==
  /\ Read("fetch") /\ ch # Nul
  /\ IF ch = Opening THEN state' = "index0" /\ argumentIndex' = 0
     ELSE UNCHANGED <<state, argumentIndex>>
  /\ Nothing /\ UNCHANGED <<pass, start, formatStart, result>>

\* The end of a pass: the rest of the literal text, then the next pass.
EndPass ==
  /\ result = "running" /\ state = "fetch" /\ ch = Nul
  /\ TokenWriter(Text(start, index - 1))
  /\ IF pass = 3
     THEN result' = "done" /\ UNCHANGED <<pass, index, start, itemIndex>>
     ELSE /\ pass' = pass + 1 /\ index' = 1 /\ start' = 1 /\ itemIndex' = 0
          /\ UNCHANGED result
  /\ UNCHANGED <<format, args, state, formatStart, argumentIndex, itemCount, formatted>>

AddDigit ==
  /\ argumentIndex * 10 + Digit(ch) <= UInt16Max
  /\ argumentIndex' = argumentIndex * 10 + Digit(ch)
  /\ state' = "index"

FirstDigit ==
  /\ Read("index0") /\ IsDigit(ch)
  /\ AddDigit
  /\ TokenWriter(Text(start, index - 2))
  /\ NoArgument /\ UNCHANGED <<pass, start, formatStart, result>>

\* An escaped brace: the literal text up to the first of the two.
Escaped ==
  /\ Read("index0") /\ ch = Opening
  /\ TokenWriter(Text(start, index - 1))
  /\ start' = index + 1 /\ state' = "fetch"
  /\ NoArgument /\ UNCHANGED <<pass, formatStart, argumentIndex, result>>

Blank ==
  /\ Read("index0") /\ ch = Space
  /\ Nothing /\ UNCHANGED <<pass, state, start, formatStart, argumentIndex, result>>

NextDigit ==
  /\ Read("index") /\ IsDigit(ch)
  /\ AddDigit
  /\ Nothing /\ UNCHANGED <<pass, start, formatStart, result>>

FormatStarts ==
  /\ Read("index") /\ ch = ":"
  /\ formatStart' = index + 1 /\ state' = "format"
  /\ Nothing /\ UNCHANGED <<pass, start, argumentIndex, result>>

FormatGoesOn ==
  /\ Read("format") /\ ch \notin {Closing, Nul}
  /\ Nothing /\ UNCHANGED <<pass, state, start, formatStart, argumentIndex, result>>

\* An item ends, with or without a format of its own.
Item ==
  /\ Read(state) /\ state \in {"index", "format"} /\ ch = Closing
  /\ ArgumentWriter(IF state = "format" THEN Text(formatStart, index - 1) ELSE <<>>)
  /\ start' = index + 1 /\ state' = "fetch"
  /\ UNCHANGED <<pass, formatStart, argumentIndex, result>>

Invalid ==
  \/ state = "index0" /\ ~IsDigit(ch) /\ ch \notin {Opening, Space}
  \/ state = "index" /\ ~IsDigit(ch) /\ ch \notin {":", Closing}
  \/ state = "format" /\ ch = Nul
  \/ state \in {"index0", "index"} /\ IsDigit(ch) /\ argumentIndex * 10 + Digit(ch) > UInt16Max
  \/ state \in {"index", "format"} /\ ch = Closing /\ argumentIndex >= Len(args)
Reject == Read(state) /\ Invalid /\ Refuse

Next ==
  \/ Fetch \/ EndPass \/ FirstDigit \/ Escaped \/ Blank \/ NextDigit
  \/ FormatStarts \/ FormatGoesOn \/ Item \/ Reject
Spec == Init /\ [][Next]_vars
-----------------------------------------------------------------------------
\* What .NET makes of a composite format from its i-th character on: a text,
\* Bad for a FormatException, or Other for formats this property leaves out:
\* braces that close nothing, braces in an item's format, and blanks or an
\* alignment in an item.
Bad == <<"bad">>
Other == <<"other">>
Then(text, rest) == IF rest \in {Bad, Other} THEN rest ELSE text \o rest
Number(digits) ==
  LET sum[i \in 0 .. Len(digits)] == IF i = 0 THEN 0 ELSE sum[i - 1] * 10 + Digit(digits[i])
  IN sum[Len(digits)]
LeftOut(digits) == {Space, ","} \cap Range(digits) # {}
\* What stands between two braces.
ItemText(body, given) ==
  LET colons == {j \in DOMAIN body : body[j] = ":"}
      cut == IF colons = {} THEN Len(body) + 1 ELSE CHOOSE j \in colons : \A k \in colons : j <= k
      digits == SubSeq(body, 1, cut - 1)
  IN IF Opening \in Range(body) \/ LeftOut(digits) THEN Other
     ELSE IF digits = <<>> \/ (\E j \in DOMAIN digits : ~IsDigit(digits[j])) THEN Bad
     ELSE IF Number(digits) >= Len(given) THEN Bad
     ELSE TextOf(given[Number(digits) + 1], SubSeq(body, cut + 1, Len(body)))
Composite(s, given) ==
  LET n == Len(s)
      Closings(i) == {j \in i .. n : s[j] = Closing}
      from[i \in 1 .. n + 2] ==
        IF i > n THEN <<>>
        ELSE IF s[i] = Closing THEN Other
        ELSE IF s[i] # Opening THEN Then(<<s[i]>>, from[i + 1])
        ELSE IF i < n /\ s[i + 1] = Opening THEN Then(<<Opening>>, from[i + 2])
        ELSE IF Closings(i) = {} THEN IF {Opening, Space} \cap Range(SubSeq(s, i + 1, n)) # {} THEN Other ELSE Bad
        ELSE LET j == CHOOSE j \in Closings(i) : \A k \in Closings(i) : j <= k
                 text == ItemText(SubSeq(s, i + 1, j - 1), given)
             IN IF text \in {Bad, Other} THEN text ELSE Then(text, from[j + 1])
  IN from[1]

\* String.Format returns what .NET does or throws where .NET throws; the second
\* and the third pass find the items that the first one counted and the string
\* is as long as the second one said (the asserts of String.c:1001).  Left out
\* are formats of which the code does not do what .NET does: it keeps both
\* braces of a doubled closing one and takes a single one as text (String.c:301),
\* skips blanks in front of a number (365), and refuses blanks behind it and an
\* alignment such as that of {0,5} (401), which .NET formats.
FormatAgrees ==
  /\ result = "done" =>
       /\ Len(target) = length /\ itemIndex = itemCount
       /\ Composite(format, args) # Other => target = Composite(format, args)
  /\ result = "FormatException" => pass = 1 /\ Composite(format, args) \in {Bad, Other}
=============================================================================
