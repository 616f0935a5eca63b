------------------------------- MODULE MCRuntime -------------------------------
(***************************************************************************)
(* Model-checking instances of what supports the code of a method body:    *)
(* the frames of exceptions (ExceptionFrames) and the blocks written       *)
(* around the code (HandlerWriter), String.Format (StringFormat), strings  *)
(* (StringStore), the texts of numbers (NumberText), the tables of virtual *)
(* methods (TypeTables) and boxing (Boxes).  A behaviour is of one of      *)
(* them.                                                                   *)
(***************************************************************************)
EXTENDS ExceptionFrames, SequencesExt

CONSTANTS
  Part, Bodies, BodyLength, FormatLength, Formats, Arguments, Characters, UInt16Max,
  Literals, Utf8Texts, MaxStrings, MaxLength, Unknown, NumberTexts, Bits, WcharSizes
VARIABLES
  part,
  body, offset, queue, states, nestName, blocks, written, bindings, phase,
  format, args, pass, state, index, start, formatStart, argumentIndex, itemCount, itemIndex,
  length, formatted, written3, result,
  store, thrown, char,
  type, value, text, parsed,
  hierarchy, object, static, at, op, operand, callee,
  wchar, pushed, box, asked, did, expected

FilterChoice == {{"A"}, {"A", "B"}}

-----------------------------------------------------------------------------
\* Handlers: one or two catch clauses or a finally clause, right behind the try.
Clause(kind, from, to) == [kind |-> kind, start |-> from, end |-> to]
Handler(from, to, clauses) == [start |-> from, end |-> to, clauses |-> clauses]
End == BodyLength + 1
OneClause ==
  {Handler(c[1], c[2], <<Clause(c[4], c[2], c[3])>>) :
     c \in {c \in (1 .. End) \X (1 .. End) \X (1 .. End) \X {"catch", "finally"} :
              c[1] < c[2] /\ c[2] < c[3]}}
TwoClauses ==
  {Handler(c[1], c[2], <<Clause("catch", c[2], c[3]), Clause("catch", c[3], c[4])>>) :
     c \in {c \in (1 .. End) \X (1 .. End) \X (1 .. End) \X (1 .. End) :
              c[1] < c[2] /\ c[2] < c[3] /\ c[3] < c[4]}}

LastEnd(h) == h.clauses[Len(h.clauses)].end
Ends(h) == {h.end} \cup {h.clauses[c].end : c \in DOMAIN h.clauses}
\* h follows g, or is in one part of g, and does not start where a part of g
\* ends: the controller would take the start first.
Behind(g, h) ==
  /\ h.start \notin Ends(g)
  /\ \/ h.start >= LastEnd(g)
     \/ /\ h.start >= g.start /\ LastEnd(h) <= LastEnd(g)
        /\ \A e \in Ends(g) : h.start < e => LastEnd(h) <= e
HandlerLists ==
  LET one == OneClause \cup TwoClauses
      two == {l \in one \X one : Behind(l[1], l[2])}
      three == {l \in {<<l[1], l[2], h>> : l \in two, h \in OneClause} :
                  Behind(l[1], l[3]) /\ Behind(l[2], l[3])}
  IN {<<h>> : h \in one} \cup two \cup three

\* A leave goes from a try or catch part out of at least one handler, and into
\* none.
Place(hs, o) ==
  {p \in (DOMAIN hs) \X (0 .. 2) :
     LET h == hs[p[1]]
     IN IF p[2] = 0 THEN h.start <= o /\ o < h.end
        ELSE p[2] \in DOMAIN h.clauses /\ h.clauses[p[2]].start <= o /\ o < h.clauses[p[2]].end}
Leaves(hs) ==
  {[from |-> l[1], target |-> l[2]] :
     l \in {l \in (1 .. BodyLength) \X (1 .. BodyLength) :
              /\ Place(hs, l[2]) \subseteq Place(hs, l[1]) /\ Place(hs, l[2]) # Place(hs, l[1])
              /\ \A h \in DOMAIN hs : \A p \in 1 .. 2 :
                   <<h, p>> \in Place(hs, l[1]) /\ <<h, p>> \notin Place(hs, l[2]) =>
                     hs[h].clauses[p].kind # "finally"}}
BodyChoice ==
  UNION {{[handlers |-> hs, leave |-> l] : l \in Leaves(hs)} : hs \in HandlerLists}

\* What CIL says of the handlers of a body: clauses behind each other and behind
\* the try, inside of the body, and no handler across a part of another.
HandlerType ==
  [start : Nat, end : Nat,
   clauses : Seq([kind : {"catch", "finally"}, start : Nat, end : Nat])]
WellFormed(h) ==
  /\ 1 <= h.start /\ h.start < h.end
  /\ h.clauses # <<>> /\ h.clauses[1].start = h.end
  /\ \A c \in DOMAIN h.clauses :
       /\ h.clauses[c].start < h.clauses[c].end
       /\ c + 1 \in DOMAIN h.clauses => h.clauses[c + 1].start = h.clauses[c].end
  /\ LastEnd(h) <= BodyLength + 1
ASSUME BodyAssumption ==
  /\ BodyLength \in Nat \ {0}
  /\ \A b \in Bodies :
       /\ b.handlers \in Seq(HandlerType)
       /\ b.leave \in [from : 1 .. BodyLength, target : 1 .. BodyLength]
       /\ \A h \in DOMAIN b.handlers : WellFormed(b.handlers[h])
       /\ \A g, h \in DOMAIN b.handlers : g < h => Behind(b.handlers[g], b.handlers[h])
-----------------------------------------------------------------------------
FormatChoice == UNION {[1 .. n -> {"{", "}", "0", "1", ":", "x"}] : n \in 0 .. FormatLength}
                \cup {<<"x", "{", " ", "0", "}">>, <<"{", "0", ",", "1", "}">>}
CharacterChoice == {"{", "}", "0", "1", ":", ",", "x", " ", "n", "o"}
ArgumentChoice == {<<"formattable">>, <<"object", "formattable">>, <<"null", "formattable">>}
\* Characters of one, two and three bytes.
Utf8Choice ==
  {[bytes |-> <<97>>, text |-> <<97>>],
   [bytes |-> <<32, 195, 169>>, text |-> <<32, 233>>],
   [bytes |-> <<223, 191>>, text |-> <<2047>>],
   [bytes |-> <<226, 130, 172, 97>>, text |-> <<8364, 97>>]}
LiteralChoice == {<<>>, <<97>>, <<32>>, <<9, 32>>}
\* An optional blank and sign, up to three digits, and what may follow.
TextChoice ==
  {pre \o digits \o post :
     pre \in {<<>>, <<43>>, <<45>>, <<32, 45>>},
     digits \in UNION {[1 .. n -> 48 .. 57] : n \in 0 .. 3},
     post \in {<<>>, <<97>>}}
-----------------------------------------------------------------------------
\* Hierarchies: methods M of classes that declare interfaces, or not.
NewMethod(name, slot, final, visible, overrides) ==
  [name |-> name, arity |-> 1, types |-> <<>>,
   slot |-> slot, final |-> final, visible |-> visible, overrides |-> overrides]
RootClass == [interfaces |-> {}, methods |-> <<NewMethod("ToString", "newslot", FALSE, TRUE, {})>>]
Option(name) ==
  {<<>>} \cup {<<NewMethod(name, o[1], o[2], TRUE, {})>> :
     o \in {<<"none", FALSE>>, <<"newslot", FALSE>>, <<"newslot", TRUE>>, <<"reuse", FALSE>>}}
ExplicitOnes(is) ==
  FlattenSeq([i \in 1 .. 2 |->
    IF -i \in is THEN <<NewMethod(<<"I.M", "J.M">>[i], "newslot", TRUE, FALSE, {<<-i, 1>>})>> ELSE <<>>])
ClassChoice(interfaces, others) ==
  UNION {{[interfaces |-> is, methods |-> a \o ExplicitOnes(ex) \o m] :
            ex \in SUBSET is, m \in Option("M"), a \in others} : is \in SUBSET interfaces}

NamedBelow(cs, c, name) ==
  SelectSeq(FlattenSeq([k \in 1 .. c |-> cs[k].methods]), LAMBDA m : m.name = name)
\* A final method implements an interface; an override has a method to override;
\* a class that declares an interface has or inherits a virtual method for it,
\* which nothing hides.
Legal(cs) ==
  \A c \in 2 .. Len(cs) :
    /\ \A i \in DOMAIN cs[c].methods :
         /\ cs[c].methods[i].final => cs[c].interfaces # {}
         /\ cs[c].methods[i].slot = "reuse" =>
           LET below == NamedBelow(cs, c - 1, cs[c].methods[i].name)
           IN /\ below # <<>> /\ below[Len(below)].slot # "none" /\ ~below[Len(below)].final
              /\ below[Len(below)].visible = cs[c].methods[i].visible
    /\ \A t \in cs[c].interfaces :
         LET named == NamedBelow(cs, c, "M")
         IN \/ <<t, 1>> \in UNION {m.overrides : m \in Range(cs[c].methods)}
            \/ named # <<>> /\ named[Len(named)].slot # "none"
HierarchyChoice ==
  LET extra == {<<>>, <<NewMethod("A", "newslot", FALSE, TRUE, {})>>,
                <<NewMethod("A", "newslot", FALSE, FALSE, {})>>}
      later == {<<>>, <<NewMethod("A", "reuse", FALSE, TRUE, {})>>,
                <<NewMethod("A", "reuse", FALSE, FALSE, {})>>,
                <<NewMethod("A", "newslot", FALSE, FALSE, {})>>}
      one == ClassChoice({-1}, {<<>>})  two == ClassChoice({-1, -2}, {<<>>})
      chains == {<<RootClass, a, b, c>> : a \in one, b \in one, c \in one}
                \cup {<<RootClass, a, b>> : a \in two, b \in two}
                \cup {<<RootClass, a, b>> : a \in ClassChoice({}, extra), b \in ClassChoice({-1}, later)}
  IN {[classes |-> cs, interfaces |-> [t \in {-1, -2} |-> <<[name |-> "M", arity |-> 1, types |-> <<>>]>>]] :
        cs \in {cs \in chains : Legal(cs)}}
-----------------------------------------------------------------------------
Writer == INSTANCE HandlerWriter WITH Length <- BodyLength
writerVars == <<body, offset, queue, states, nestName, blocks, written, bindings, phase>>

Format == INSTANCE StringFormat WITH target <- written3
formatVars == <<format, args, pass, state, index, start, formatStart, argumentIndex, itemCount,
                itemIndex, length, formatted, written3, result>>
\* What String.Format is called with.  Its check of the arguments keeps their number
\* in 16 bits (String.c:1086); nothing checks the number of items, which have at
\* least three characters each: a format has no more than are counted.  The texts
\* of arguments have the characters n and o.
ASSUME FormatAssumption ==
  /\ UInt16Max \in Nat
  /\ {"n", "o"} \subseteq Characters /\ {Format!Nul, "bad", "other"} \cap Characters = {}
  /\ \A f \in Formats : f \in Seq(Characters) /\ Len(f) < 3 * (UInt16Max + 1)
  /\ \A a \in Arguments : a \in Seq({"formattable", "object", "null"}) /\ Len(a) <= UInt16Max
Strings == INSTANCE StringStore
\* The bytes of a character of the first plane in UTF-8.
Plane == 65536
Encoded(c) ==
  IF c < 128 THEN <<c>>
  ELSE IF c < 2048 THEN <<192 + (c \div 64), 128 + (c % 64)>>
  ELSE <<224 + (c \div 4096), 128 + ((c \div 64) % 64), 128 + (c % 64)>>
\* The bytes encode the text; those of its i-th character begin at place[i].
EncodedAt(u, place) ==
  /\ place[1] = 1 /\ place[Len(u.text) + 1] = Len(u.bytes) + 1
  /\ \A i \in DOMAIN u.text :
       LET e == Encoded(u.text[i])
       IN /\ u.text[i] < Plane /\ place[i + 1] = place[i] + Len(e)
          /\ \A k \in DOMAIN e : u.bytes[place[i] + k - 1] = e[k]
\* Texts have no terminator, native code hands in UTF-8; C's | of two numbers is 0
\* only if both are.
ASSUME TextAssumption ==
  /\ Literals \subseteq Seq(Nat \ {0})
  /\ \A u \in Utf8Texts :
       /\ u.text \in Seq(Nat \ {0}) /\ u.bytes \in Seq(Nat)
       /\ \A i \in DOMAIN u.bytes : u.bytes[i] \in 1 .. 255
       /\ \E place \in [1 .. Len(u.text) + 1 -> 1 .. Len(u.bytes) + 1] : EncodedAt(u, place)
  /\ MaxLength \in Nat
Nibble == 0 .. 15
Sextet == 0 .. 63
ASSUME OrAssumption ==
  \A a \in Nibble, b \in Sextet :
    LET n == Strings!BitOr(a * 256, b * 64)
    IN n \in Nat /\ (n = 0 => a = 0 /\ b = 0)
stringVars == <<store, thrown, char>>
\* The bits of a value of 1, 2, 4 and 8 bytes, scaled down.
ScaledBits == [n \in {1, 2, 4, 8} |-> IF n = 8 THEN 6 ELSE IF n = 4 THEN 5 ELSE n + 2]
ASSUME BitsAssumption ==
  /\ WcharSizes \subseteq {2, 4} /\ NumberTexts \subseteq Seq(Nat)
  /\ Bits \in [{1, 2, 4, 8} -> Nat \ {0}] /\ 2 ^ (Bits[4] - Bits[2]) \in Nat
  /\ \A n \in {1, 2, 4, 8} :
       /\ 2 ^ (Bits[n] - 1) \in Nat \ {0} /\ 2 ^ Bits[n] = 2 * 2 ^ (Bits[n] - 1)
       /\ \A k \in {1, 2, 4, 8} : k < n => Bits[k] < Bits[n] /\ 2 ^ Bits[k] <= 2 ^ (Bits[n] - 1)
\* C's long is as wide as an Int32.
Numbers == INSTANCE NumberText
  WITH Bits1 <- Bits[1], Bits2 <- Bits[2], Bits4 <- Bits[4], Bits8 <- Bits[8], LongBits <- Bits[4],
       Texts <- NumberTexts
numberVars == <<type, value, text, parsed>>

Types == INSTANCE TypeTables WITH Hierarchies <- HierarchyChoice, NoMethod <- <<>>
typeVars == <<hierarchy, object, static, at, op, operand, callee>>

Boxing == INSTANCE Boxes WITH stack <- pushed, object <- box, outcome <- did
boxVars == <<wchar, pushed, box, asked, did, expected>>

FormatIdle ==
  /\ format = 0 /\ args = 0 /\ pass = 0 /\ state = 0 /\ index = 0 /\ start = 0
  /\ formatStart = 0 /\ argumentIndex = 0 /\ itemCount = 0 /\ itemIndex = 0
  /\ length = 0 /\ formatted = 0 /\ written3 = 0 /\ result = 0
WriterIdle ==
  /\ body = 0 /\ offset = 0 /\ queue = 0 /\ states = 0 /\ nestName = 0
  /\ blocks = 0 /\ written = 0 /\ bindings = 0 /\ phase = 0
StringsIdle == store = <<>> /\ thrown = FALSE /\ char = "unsigned"
NumbersIdle == type = 0 /\ value = 0 /\ text = 0 /\ parsed = 0
TypesIdle ==
  /\ hierarchy = 0 /\ object = 0 /\ static = 0 /\ at = 0 /\ op = 0 /\ operand = 0 /\ callee = 0
BoxingIdle ==
  /\ wchar = 0 /\ pushed = 0 /\ box = 0 /\ asked = 0 /\ did = 0 /\ expected = 0
RuntimeInit ==
  /\ part \in Part
  /\ Init
  /\ IF part = "writer" THEN Writer!Init ELSE WriterIdle
  /\ IF part = "format" THEN Format!Init ELSE FormatIdle
  /\ IF part = "strings" THEN Strings!Init ELSE StringsIdle
  /\ IF part = "numbers" THEN Numbers!Init ELSE NumbersIdle
  /\ IF part = "types" THEN Types!Init ELSE TypesIdle
  /\ IF part = "boxes" THEN Boxing!Init ELSE BoxingIdle
RuntimeNext ==
  \/ /\ part = "exceptions" /\ Next
     /\ UNCHANGED <<part, writerVars, formatVars, stringVars, numberVars, typeVars, boxVars>>
  \/ /\ part = "writer" /\ Writer!Next
     /\ UNCHANGED <<part, vars, formatVars, stringVars, numberVars, typeVars, boxVars>>
  \/ /\ part = "format" /\ Format!Next
     /\ UNCHANGED <<part, vars, writerVars, stringVars, numberVars, typeVars, boxVars>>
  \/ /\ part = "strings" /\ Strings!Next
     /\ UNCHANGED <<part, vars, writerVars, formatVars, numberVars, typeVars, boxVars>>
  \/ /\ part = "numbers" /\ Numbers!Next
     /\ UNCHANGED <<part, vars, writerVars, formatVars, stringVars, typeVars, boxVars>>
  \* A call changes nothing that later steps see: they go on from before it.
  \/ /\ part = "types" /\ callee = <<>> /\ Types!Next
     /\ UNCHANGED <<part, vars, writerVars, formatVars, stringVars, numberVars, boxVars>>
  \/ /\ part = "boxes" /\ Boxing!Next
     /\ UNCHANGED <<part, vars, writerVars, formatVars, stringVars, numberVars, typeVars>>
allVars == <<vars, part, writerVars, formatVars, stringVars, numberVars, typeVars, boxVars>>
RuntimeSpec == RuntimeInit /\ [][RuntimeNext]_allVars

\* Code is written in the C blocks of the handlers it is in, and a leave becomes
\* a goto behind the last block it leaves (HandlerWriter).
CodeInItsBlocks == part = "writer" => Writer!CodeInItsBlocks /\ Writer!LeaveBound
\* String.Format does what .NET does, in the space it counted (StringFormat).
FormatAgrees == part = "format" => Format!FormatAgrees
\* Strings hold their texts however they were made (StringStore).
StringsAgree == part = "strings" => Strings!StringsAgree
\* Numbers are read and written as in .NET (NumberText).
ParseAgrees == part = "numbers" => Numbers!ParseAgrees
\* Calls and casts find the methods and references of .NET (TypeTables).
DispatchAgrees == part = "types" => Types!DispatchAgrees
\* Boxes hold the values of .NET and give them back (Boxes).
BoxesAgree == part = "boxes" => Boxing!BoxesAgree
=============================================================================
