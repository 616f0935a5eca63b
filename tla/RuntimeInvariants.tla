-------------------------- MODULE RuntimeInvariants --------------------------
(***************************************************************************)
(* The inductive invariants of MCRuntime, and what they are made of, for   *)
(* the proofs in MCRuntimeProofs: FrameInv and CliInv of the exceptions,   *)
(* WriterInv of the handler writer, StoreInv of the strings, BoxInv of the *)
(* boxes, NumbersInv of the texts of numbers, FormatInv of the composite   *)
(* formats.                                                                *)
(***************************************************************************)
EXTENDS MCRuntime

\* The inductive invariant: a handler that runs has its exception, and every
\* block is of a function.
Handled ==
  \A i \in 1 .. Top : stack[i].call >= 1 /\ (stack[i].at = "catch" => stack[i].ex # Null)
FrameInv == TypeOK /\ FramesAreLive /\ Handled

\* Where a search ends that remembers the finally handlers before the catching one:
\* at the innermost of all of them, however it is written.
FirstOf(C) == Max({0} \cup C)
EndOf(C, F) == Max({0} \cup C \cup F)

\* What more is true of the blocks where handlers are never left from within
\* and a leave leaves one block: control is behind a handler in the innermost
\* block only, and a block that may be entered again holds no exception.
PartInv ==
  \A i \in 1 .. Top :
    /\ stack[i].at \in {"try", "leave", stack[i].kind}
    /\ stack[i].at = "try" => stack[i].ex = Null
    /\ stack[i].at = "leave" => i = Top
    /\ stack[i].at = "leave" \/ (stack[i].at = "finally" /\ stack[i].ex = Null)
         => stack[i].continuation = 1
    /\ stack[i].kind = "finally" => stack[i].filter = {}
CliInv == FrameInv /\ PartInv

SeenTop == IF Top > 0 /\ stack[Top].at = "leave" THEN Top - 1 ELSE Top
SeenBlock ==
  [kind : Kinds, filter : SUBSET Exceptions, call : Nat, at : Parts,
   ex : Exceptions \cup {Null}, remain : Int]
-----------------------------------------------------------------------------
\* The parts of a handler: 0 is the try, then the clauses.
PartStart(h, p) == IF p = 0 THEN h.start ELSE h.clauses[p].start
PartEnd(h, p) == IF p = 0 THEN h.end ELSE h.clauses[p].end
Handlers == body.handlers
PartsOf(h) == 0 .. Len(h.clauses)
Legit(h) == h \in HandlerType /\ WellFormed(h)

\* The inductive invariant of the controller.  A handler on the stack is in the
\* part that its state says, or between two of its parts; what is above it on
\* the stack lies in that part.  A handler that was started and is no longer on
\* the stack lies behind.
Depths == 1 .. Len(states)
Of(k) == Handlers[states[k].handler]
InPart(k) == states[k].clause = 0 \/ states[k].inBlock
Opening(k) == PartStart(Of(k), states[k].clause)
Closing(k) == PartEnd(Of(k), states[k].clause)

StateType == [handler : Nat, clause : Nat, inBlock : BOOLEAN]
BlockType == [nest : Nat, part : Int]
StatesTyped ==
  /\ states \in Seq(StateType)
  /\ \A k \in Depths :
       /\ states[k].handler \in 1 .. (queue - 1)
       /\ states[k].clause \in 0 .. Len(Of(k).clauses) + 1
       /\ states[k].inBlock => states[k].clause \in 1 .. Len(Of(k).clauses)
WriterTypes ==
  /\ body \in Bodies
  /\ offset \in 1 .. BodyLength + 1
  /\ queue \in 1 .. Len(Handlers) + 1
  /\ StatesTyped

\* The open blocks are those of the stack, and the name is that of the top.
BlocksOfStates ==
  /\ blocks \in Seq(BlockType) /\ Len(blocks) = Len(states)
  /\ \A k \in Depths :
       blocks[k] = [nest |-> k - 1, part |-> IF InPart(k) THEN states[k].clause ELSE -1]
  /\ nestName = Len(states) - 1
Nested ==
  \A j, k \in Depths : j < k =>
    states[j].handler < states[k].handler /\ InPart(j) /\ LastEnd(Of(k)) <= Closing(j)
Reached ==
  \A k \in Depths :
    IF InPart(k) THEN Opening(k) <= offset /\ offset <= Closing(k)
    ELSE offset = IF states[k].clause <= Len(Of(k).clauses) THEN Opening(k) ELSE LastEnd(Of(k))
OnStack(g) == \E k \in Depths : states[k].handler = g
Started ==
  /\ \A g \in 1 .. Len(Handlers) :
       IF g < queue THEN Handlers[g].start <= offset ELSE offset <= Handlers[g].start
  /\ \A g \in 1 .. (queue - 1) : ~OnStack(g) =>
       /\ LastEnd(Handlers[g]) <= offset
       /\ \A k \in Depths : g < states[k].handler => LastEnd(Handlers[g]) <= Of(k).start

\* Where code is written, every handler on the stack is inside of its part.
Inside(o) == \A k \in Depths : InPart(k) /\ Opening(k) <= o /\ o < Closing(k)
Phases ==
  /\ phase \in {"update", "emit", "finish", "done", "refused"}
  /\ phase = "update" => offset <= BodyLength
  /\ phase = "emit" =>
       /\ offset <= BodyLength /\ Inside(offset)
       /\ \A g \in 1 .. Len(Handlers) : queue <= g => offset < Handlers[g].start
  /\ phase \in {"finish", "refused"} => offset = BodyLength + 1 /\ Inside(BodyLength)
  /\ phase = "refused" => Len(states) > 1
  /\ phase = "done" => offset = BodyLength + 1 /\ states = <<>> /\ queue = Len(Handlers) + 1
CorrectAt(o) ==
  /\ Len(written[o].blocks) = Cardinality(Writer!Around(o))
  /\ \A h \in Writer!Around(o) :
       written[o].blocks[Writer!Depth(h, o) + 1] =
         [nest |-> Writer!Depth(h, o), part |-> Writer!PartOf(Handlers[h], o)]
  /\ written[o].nest = Cardinality(Writer!Around(o)) - 1
Written ==
  /\ written \in Seq([blocks : Seq(BlockType), nest : Int]) /\ Len(written) = offset - 1
  /\ \A o \in 1 .. (offset - 1) : CorrectAt(o)

\* The binding of a handler that is finished.
BindingOf(g) ==
  [handler |-> g,
   goto |-> \A f \in 1 .. (g - 1) : Writer!ContainsOffset(Handlers[f], body.leave.target)]
Bound ==
  Writer!NumberedByDepth =>
    \A g \in 1 .. (queue - 1) :
      ~OnStack(g) /\ Writer!ContainsOffset(Handlers[g], body.leave.from) =>
        Contains(bindings, BindingOf(g))
StackInv == WriterTypes /\ BlocksOfStates /\ Nested /\ Reached /\ Started
WriterInv == StackInv /\ Phases /\ Written /\ bindings \in Seq([handler : Nat, goto : BOOLEAN]) /\ Bound
-----------------------------------------------------------------------------
\* A buffer that holds a text: as many characters, the same ones up to U+07FF,
\* and a terminator.
Stores(cells, chars) ==
  /\ chars \in Seq(Nat \ {0}) /\ cells \in Seq(Int) /\ Len(cells) = Len(chars) + 1
  /\ cells[Len(chars) + 1] = 0
  /\ \A i \in 1 .. Len(chars) : cells[i] # 0 /\ (chars[i] < 2048 => cells[i] = chars[i])
\* n characters of h, behind its first p, are those of f behind its first i.
Same(h, p, f, i, n) == \A k \in 1 .. n : h[p + k] = f[i + k]
\* The first n cells hold characters.
Holds(cells, chars, n) ==
  \A i \in 1 .. n : cells[i] # 0 /\ (chars[i] < 2048 => cells[i] = chars[i])
StoreInv ==
  /\ store \in Seq([cells : Seq(Int), text : Seq(Nat \ {0})])
  /\ char \in {"signed", "unsigned"}
  /\ \A i \in 1 .. Len(store) : Stores(store[i].cells, store[i].text)

\* m characters of from, behind its first i, are copied behind the first p cells.
Copied(c, size, cells, p, t, from, i, m) ==
  /\ size \in Nat /\ cells \in [1 .. size -> Int] /\ p \in Nat /\ t \in Nat
  /\ from \in [1 .. t -> Int] /\ i \in Nat /\ m \in Nat /\ i + m <= t /\ p + m <= size
  /\ c = Strings!Copy(cells, p + 1, from, i + 1, m)

\* f is base behind the first l numbers, and on them what step makes of its value
\* at the next one.
Descends(f, n, l, base, next, step) ==
  f = [i \in 1 .. n |-> IF i > l THEN base ELSE step[<<i, f[next[i]]>>]]
\* The same value by value, with the set of the values.
Descended(f, n, l, V, base, next, step) ==
  /\ f = [i \in 1 .. n |-> f[i]]
  /\ \A i \in 1 .. n : f[i] \in V /\ f[i] = IF i > l THEN base ELSE step[<<i, f[next[i]]>>]

\* The bytes from the i-th on are those of the character c.
EncodedFrom(bytes, i, c) ==
  /\ bytes \in Seq(Nat) /\ i \in Nat \ {0} /\ c \in Nat \ {0} /\ c < Plane
  /\ i + Len(Encoded(c)) <= Len(bytes) + 1
  /\ \A k \in DOMAIN Encoded(c) : bytes[i + k - 1] = Encoded(c)[k]

\* A text in UTF-8, and where the bytes of its characters are.
Utf8(u, place) ==
  /\ u.text \in Seq(Nat \ {0}) /\ u.bytes \in Seq(Nat)
  /\ place \in [1 .. Len(u.text) + 1 -> 1 .. Len(u.bytes) + 1] /\ EncodedAt(u, place)

\* The bytes b are decoded to the text t, its i-th character from place[i] on.
Placed(b, t, place) ==
  /\ t \in Seq(Nat \ {0}) /\ Len(t) \in Nat /\ Len(b) \in Nat
  /\ place \in [1 .. Len(t) + 1 -> 1 .. Len(b) + 1]
  /\ place[1] = 1 /\ place[Len(t) + 1] = Len(b) + 1
  /\ \A i \in 1 .. Len(t) :
       /\ place[i] \in 1 .. Len(b) /\ place[i + 1] = place[i] + Strings!Lead(b[place[i]])
       /\ Strings!Taken(b[place[i]]) = Strings!Lead(b[place[i]])
       /\ Strings!Character(b, place[i]) \in Nat \ {0}
       /\ t[i] < 2048 => Strings!Character(b, place[i]) = t[i]

\* w holds the last characters of d, from the i-th of n on, and the terminator.
Ending(w, d, i, n) ==
  /\ w \in Seq(Nat) /\ Len(w) = (n + 1 - i) + 1 /\ w[(n + 1 - i) + 1] = 0
  /\ \A k \in 1 .. (n + 1 - i) : w[k] = d[i + k - 1]

\* w has as many characters as the text t, of which those below U+0800 are the
\* text's, and a terminator.
Reads(w, t) ==
  /\ w \in Seq(Nat) /\ Len(w) = Len(t) + 1 /\ w[Len(t) + 1] = 0
  /\ \A i \in 1 .. Len(t) : w[i] # 0 /\ (t[i] < 2048 => w[i] = t[i])
-----------------------------------------------------------------------------
\* How many bytes the types take.
Sizes == {1, 2, 4, 8}

\* What .NET has on the stack or in the box is what the C code has there, and
\* for a small type one of two bytes.
BoxInv ==
  /\ wchar \in WcharSizes
  /\ did \in {"pushed", "boxed", "unboxed", "refused", "InvalidCast", "NullReference"}
  /\ pushed.type \in Boxing!Types /\ pushed.value \in Int
  /\ did \in {"pushed", "unboxed"} =>
       /\ box = Boxing!NoBox /\ expected \subseteq {pushed.value}
       /\ pushed.type \in Boxing!Small => expected \subseteq 0 .. 2 ^ Bits[2] - 1
  /\ did = "boxed" =>
       /\ box.type \in Boxing!Types /\ box.raw \in Int
       /\ expected \subseteq {Boxing!Wrap(box.raw, box.type, Bits[Boxing!BodySize(box.type)])}
       /\ box.type \in Boxing!Small => expected \subseteq 0 .. 2 ^ Bits[2] - 1
  /\ Boxing!BoxesAgree
-----------------------------------------------------------------------------
\* f is base at 0 and at every other number up to n what step makes of its value
\* at an earlier one.
Ascends(f, n, V, base, step, prev) ==
  f \in [0 .. n -> V] /\ f[0] = base /\ \A i \in 1 .. n : f[i] = step[<<i, f[prev[i]]>>]

\* The sums of the beginnings of digits, one digit after the other.
Sums(f, ds, n) ==
  /\ n = Len(ds) /\ f[0] = 0 /\ \A i \in 1 .. n : f[i] = f[i - 1] * 10 + ds[i]
  /\ \A i \in 0 .. n : f[i] \in Nat
  /\ Numbers!Total(ds) = f[n]

\* The digits of a text of digits.
Digits(t) == [k \in 1 .. Len(t) |-> t[k] - 48]

\* The conversion of a signed type: a digit is added to the number, unless the limit
\* would be passed.
AddDigit(neg, limit, a, d) ==
  LET cutoff == Numbers!Quotient(limit, 10)
      cutlim == IF neg THEN -Numbers!Remainder(limit, 10) ELSE Numbers!Remainder(limit, 10)
  IN IF a.range THEN a
     ELSE IF \/ IF neg THEN a.acc < cutoff ELSE a.acc > cutoff
             \/ a.acc = cutoff /\ d > cutlim
     THEN [acc |-> limit, range |-> TRUE]
     ELSE [acc |-> IF neg THEN a.acc * 10 - d ELSE a.acc * 10 + d, range |-> FALSE]
\* A magnitude with its sign, and what the conversion makes of it.
Signing(neg, a) == IF neg THEN -a ELSE a
Capped(neg, lim, a) ==
  IF a > lim THEN [acc |-> Signing(neg, lim), range |-> TRUE]
  ELSE [acc |-> Signing(neg, a), range |-> FALSE]

\* What a text is and gives: that of a value is its numeral, and what TryParse
\* makes of it is fixed.
NumberRight(t, v, s, p) ==
  /\ t \in Numbers!Types /\ s \in Seq(Nat)
  /\ v # Unknown => Numbers!IsNumeral(s) /\ Numbers!Number(s) = v
  /\ p \in {Numbers!NotParsed, Numbers!TryParse(t, s)}
NumbersInv == NumberRight(type, value, text, parsed)
-----------------------------------------------------------------------------
\* Texts, and what a composite format may be for .NET.
Texts == Seq(Characters)
Outcomes == Texts \cup {Format!Bad, Format!Other}

\* All characters of a text from a to b are digits.
AllDigits(s, a, b) == \A k \in a .. b : Format!IsDigit(s[k])

\* An item whose number ends before cut.
CutAt(b, c) ==
  /\ c \in 1 .. Len(b) + 1
  /\ c <= Len(b) => b[c] = ":"
  /\ \A k \in 1 .. c - 1 : b[k] # ":"
ItemOf(b, given, c) ==
  IF Format!Opening \in Format!Range(b) \/ Format!LeftOut(SubSeq(b, 1, c - 1)) THEN Format!Other
  ELSE IF c = 1 \/ ~AllDigits(b, 1, c - 1) THEN Format!Bad
  ELSE IF Format!Number(SubSeq(b, 1, c - 1)) >= Len(given) THEN Format!Bad
  ELSE Format!TextOf(given[Format!Number(SubSeq(b, 1, c - 1)) + 1], SubSeq(b, c + 1, Len(b)))

\* f[i] is what .NET makes of a format from its i-th character on.
Doubled(s, i) == i < Len(s) /\ s[i + 1] = Format!Opening
Closings(s, i) == {j \in i .. Len(s) : s[j] = Format!Closing}
FirstClosing(s, i, j) == j \in Closings(s, i) /\ \A k \in Closings(s, i) : j <= k
Unclosed(s, i) ==
  IF {Format!Opening, Format!Space} \cap Format!Range(SubSeq(s, i + 1, Len(s))) # {} THEN Format!Other ELSE Format!Bad
ItemThen(t, r) == IF t \in {Format!Bad, Format!Other} THEN t ELSE Format!Then(t, r)
Composes(f, s, given) ==
  /\ f[1] = Format!Composite(s, given)
  /\ \A i \in 1 .. Len(s) + 2 : f[i] \in Outcomes
  /\ f[Len(s) + 1] = <<>>
  /\ \A i \in 1 .. Len(s) :
       /\ s[i] = Format!Closing => f[i] = Format!Other
       /\ s[i] \notin {Format!Opening, Format!Closing} => f[i] = Format!Then(<<s[i]>>, f[i + 1])
       /\ s[i] = Format!Opening /\ Doubled(s, i) => f[i] = Format!Then(<<Format!Opening>>, f[i + 2])
       /\ s[i] = Format!Opening /\ ~Doubled(s, i) =>
            /\ Closings(s, i) = {} => f[i] = Unclosed(s, i)
            /\ \A j : FirstClosing(s, i, j) =>
                 f[i] = ItemThen(Format!ItemText(SubSeq(s, i + 1, j - 1), given), f[j + 1])

\* b is what stands behind an opening brace, up to the first closing one.
Body(s, p, j, b) ==
  /\ j \in p + 1 .. Len(s) /\ s[j] = Format!Closing
  /\ \A k \in p + 1 .. j - 1 : s[k] # Format!Closing
  /\ b \in Texts /\ Len(b) = j - p - 1
  /\ \A k \in 1 .. Len(b) : b[k] = s[p + k]
  /\ \A m, n \in Nat : 1 <= m /\ n <= Len(b) => SubSeq(b, m, n) = SubSeq(s, p + m, p + n)

\* What .NET refuses, or this property leaves out.
NoText == {Format!Bad, Format!Other}
\* An item begins in p and ends in k, and its number before q; if it does not end
\* there too, a format follows.
ItemEnds(s, p, q, k) ==
  /\ p \in 1 .. Len(s) /\ s[p] = Format!Opening
  /\ q \in Nat /\ p + 2 <= q /\ AllDigits(s, p + 1, q - 1)
  /\ k \in q .. Len(s) /\ s[k] = Format!Closing /\ (k = q \/ s[q] = ":")
  /\ \A i \in q .. k - 1 : s[i] # Format!Closing

\* Where a pass is behind a character: the state that reads the next one, where the
\* literal text starts, where a format does, the index of an argument, the texts of
\* the items so far, and the text that was written.  No pass goes on behind what
\* the first one refuses.
Config(where, from, formatFrom, argument, texts, out) ==
  [where |-> where, from |-> from, formatFrom |-> formatFrom, argument |-> argument,
   texts |-> texts, out |-> out]
Configs ==
  [where : {"fetch", "index0", "index", "format", "refused"}, from : Nat \ {0}, formatFrom : Nat \ {0},
   argument : Nat, texts : Seq(Texts), out : Texts]
Refused(c) == Config("refused", c.from, c.formatFrom, c.argument, c.texts, c.out)
ItemOfArgument(c, s, given, i) ==
  Format!TextOf(given[c.argument + 1],
                   IF c.where = "format" THEN SubSeq(s, c.formatFrom, i - 1) ELSE <<>>)
NewIndex(c, s, i) == c.argument * 10 + Format!Digit(s[i])
\* It is so behind the i-th character if it is c before.
After(c, s, given, i) ==
  IF c.where = "fetch"
  THEN IF s[i] = Format!Opening
       THEN Config("index0", c.from, c.formatFrom, 0, c.texts, c.out) ELSE c
  ELSE IF c.where \in {"index0", "index"} /\ Format!IsDigit(s[i])
  THEN IF NewIndex(c, s, i) > UInt16Max THEN Refused(c)
       ELSE Config("index", c.from, c.formatFrom, NewIndex(c, s, i), c.texts,
                   IF c.where = "index0" THEN c.out \o SubSeq(s, c.from, i - 2) ELSE c.out)
  ELSE IF c.where = "index0" /\ s[i] = Format!Opening
  THEN Config("fetch", i + 1, c.formatFrom, c.argument, c.texts,
              c.out \o SubSeq(s, c.from, i - 1))
  ELSE IF c.where = "index0" /\ s[i] = Format!Space THEN c
  ELSE IF c.where = "index" /\ s[i] = ":"
  THEN Config("format", c.from, i + 1, c.argument, c.texts, c.out)
  ELSE IF c.where \in {"index", "format"} /\ s[i] = Format!Closing
  THEN IF c.argument >= Len(given) THEN Refused(c)
       ELSE Config("fetch", i + 1, c.formatFrom, c.argument,
                   Append(c.texts, ItemOfArgument(c, s, given, i)),
                   c.out \o ItemOfArgument(c, s, given, i))
  ELSE IF c.where = "format" THEN c
  ELSE Refused(c)
AtFirst == Config("fetch", 1, 1, 0, <<>>, <<>>)
Trace(t, s, given) ==
  /\ t \in [0 .. Len(s) -> Configs] /\ t[0] = AtFirst
  /\ \A i \in 1 .. Len(s) : t[i] = After(t[i - 1], s, given, i)

\* The literal text starts behind the items, which have at least three characters
\* each.
Bounded(c, i) ==
  /\ c.from \in 1 .. i + 1
  /\ c.where = "index0" => c.from <= i /\ c.argument = 0
  /\ c.where \in {"index", "format"} => c.from <= i - 1
  /\ 3 * Len(c.texts) <= c.from - 1

\* The texts of the items stay.
Extends(u, v) == Len(u) <= Len(v) /\ \A m \in 1 .. Len(u) : m \in 1 .. Len(v) /\ v[m] = u[m]

\* An item of the composition f starts at p, and its number ends before q.
ItemStarts(c, p, q, f, s) ==
  /\ p \in 1 .. Len(s) /\ s[p] = Format!Opening /\ q \in Nat /\ p + 2 <= q
  /\ f[1] = Format!Then(c.out, f[p])
  /\ AllDigits(s, p + 1, q - 1) /\ c.argument = Format!Number(SubSeq(s, p + 1, q - 1))
FormatStarts(c, p, q, i, f, s) ==
  /\ ItemStarts(c, p, q, f, s)
  /\ q <= i /\ s[q] = ":" /\ c.formatFrom = q + 1
  /\ \A k \in q .. i : s[k] # Format!Closing
\* The text so far and what .NET makes of the rest give what .NET makes of it all.
Matches(c, i, f, s) ==
  /\ c.where = "refused" => f[1] \in NoText
  /\ c.where = "fetch" => f[1] = Format!Then(c.out \o SubSeq(s, c.from, i), f[i + 1])
  /\ c.where = "index0" =>
       /\ i >= 1 /\ s[i] = Format!Opening
       /\ f[1] = Format!Then(c.out \o SubSeq(s, c.from, i - 1), f[i])
  /\ c.where = "index" => \E p : ItemStarts(c, p, i + 1, f, s)
  /\ c.where = "format" => \E p, q : FormatStarts(c, p, q, i, f, s)
Midway(c, i, f, s, given) ==
  /\ Composes(f, s, given) /\ f[1] # Format!Other
  /\ c \in Configs /\ Bounded(c, i - 1) /\ Matches(c, i - 1, f, s)
  /\ Len(given) \in Nat /\ Len(given) <= UInt16Max

\* What a pass has written when it has read the whole format.
Whole(t, s) == t[Len(s)].out \o SubSeq(s, t[Len(s)].from, Len(s))

\* The inductive invariant: a pass stands in its trace, and has counted, formatted
\* and written what it should up to there.
StandsAt(c) ==
  /\ state = c.where /\ start = c.from
  /\ state # "fetch" => argumentIndex = c.argument
  /\ state = "format" => formatStart = c.formatFrom
Carried(c, e, w) ==
  /\ pass = 1 =>
       itemCount = Len(c.texts) /\ itemIndex = 0 /\ length = 0 /\ formatted = <<>> /\ written3 = <<>>
  /\ pass # 1 => e.where = "fetch" /\ itemCount = Len(e.texts) /\ itemIndex = Len(c.texts)
  /\ pass = 2 => formatted = c.texts /\ length = Len(c.out) /\ written3 = <<>>
  /\ pass = 3 => formatted = e.texts /\ length = Len(w) /\ written3 = c.out
Passing(t) ==
  /\ pass \in 1 .. 3 /\ index \in 1 .. Len(format) + 1
  /\ StandsAt(t[index - 1])
  /\ Carried(t[index - 1], t[Len(format)], Whole(t, format))
FormatInv ==
  /\ format \in Formats /\ args \in Arguments
  /\ result = "running" => \E t : Trace(t, format, args) /\ Passing(t)
  /\ Format!FormatAgrees

\* A pass reads a character.
InPass(t) ==
  /\ format \in Formats /\ args \in Arguments /\ Trace(t, format, args)
  /\ Passing(t) /\ result = "running"

\* A pass is before the i-th character of the format s.
Before(t, i, s, given) ==
  /\ format = s /\ args = given /\ index = i /\ i \in 1 .. Len(s)
  /\ InPass(t)
=============================================================================
