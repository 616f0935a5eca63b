--------------------------- MODULE MCTranslatorProofs --------------------------
(***************************************************************************)
(* The translation of a method body.                                       *)
(*                                                                         *)
(* First, what is decoded, and what the decoded code does, for methods of  *)
(* any length with any handlers, branches and types.                       *)
(*                                                                         *)
(* The argument: an emitter says what its instruction does at the stack    *)
(* recorded for its offset (Fetched); that stack comes from a start of the *)
(* method or from an instruction emitted before (Justified), so that CIL   *)
(* reaches what is emitted; and what follows an emitted instruction is     *)
(* decoded or still queued (Followed), so that what CIL reaches is emitted *)
(* when no path remains.  If all paths to an offset agree on the types     *)
(* there, the stacks recorded at both ends of every step fit (Typed), and  *)
(* execution has at each offset the stack recorded for it (Runs).          *)
(*                                                                         *)
(* Second, that the C code of the numeric instructions computes what CIL   *)
(* computes, for method bodies of any length, integers of any widths and   *)
(* pointers of 4 or 8 bytes.                                               *)
(*                                                                         *)
(* The argument: the value of a C variable and that of the CIL entry it    *)
(* stands for have the same bits in the width of the entry (Alike), and    *)
(* each is a value of its type (Fits): they agree (Agree).  So they are    *)
(* the same unless the variable is wide and has no sign.  Sums,            *)
(* differences, products and bitwise operators of numbers alike are alike, *)
(* and a conversion depends on the bits alone; quotients, orders and wider *)
(* conversions need the values themselves, which a program has where the   *)
(* sign of the opcode is that of the variables (SameSign).                 *)
(***************************************************************************)
EXTENDS MCTranslator, SequenceTheorems, FiniteSetTheorems, WellFoundedInduction, TLAPS

\* The slots of a stack: one at each depth.
Stacks == {s \in Seq(Slot) : \A d \in 1 .. Len(s) : s[d][1] = d}
Holders == [types : SUBSET EntryTypes, selected : EntryTypes \cup {"none"}]
Paths == [offset : Offsets, slots : Stacks]
Ops == {"pop", "dup", "ret", "throw", "endfinally", "prefix", "push", "br", "brtrue", "leave"}
Emitters ==
  [offset : Offsets, op : Ops, read : Slot \cup {NoSlot}, written : Slot \cup {NoSlot},
   label : Offsets \cup {NoOffset}, index : Nat]
Current == StackSnapshot(stackList, stackPointer)

DecodeTypes ==
  /\ handlers \in Seq(Handlers) /\ code \in [Offsets -> Instructions \cup {None}]
  /\ phase \in {"dequeue", "move", "prepare", "refused", "done", "run"}
  /\ stackList \in Seq(Holders) /\ stackPointer \in -1 .. Len(stackList) /\ stackPointer <= MaxDepth
  /\ phase \in {"move", "prepare"} => stackPointer >= 0 /\ Current \in Stacks
  /\ phase = "move" => nextOffset \in 1 .. Length + 1
  /\ phase = "prepare" => currentCode \in Offsets /\ nextOffset = currentCode + 1
  /\ DOMAIN snapshots \subseteq 1 .. Length + 1 /\ snapshots \in [DOMAIN snapshots -> Stacks]
  /\ pathRemains \in Seq(Paths)
  /\ \A i \in DOMAIN pathRemains :
       Len(pathRemains[i].slots) <= Len(stackList) /\ Len(pathRemains[i].slots) <= MaxDepth
  /\ labelNames \subseteq Offsets /\ continuations \in Seq(Offsets) /\ emitters \in Seq(Emitters)

\* What an instruction reads and writes, and the stack that it leaves.
Reads(s, i) == IF Pops(i) = 1 THEN s[Len(s)] ELSE NoSlot
Writes(s, i) ==
  IF i.op = "push" THEN <<Len(s) + 1, i.type>>
  ELSE IF i.op = "dup" THEN <<Len(s) + 1, s[Len(s)][2]>> ELSE NoSlot
Out(s, i) ==
  LET kept == IF Pops(i) = 0 \/ i.op = "dup" THEN s ELSE Front(s)
  IN IF i.op \in {"push", "dup"} THEN Append(kept, Writes(s, i)) ELSE kept

\* An emitter says what its instruction does at the stack it was decoded with.
EmitterOf(e, i, s) ==
  /\ i \in Instructions /\ e.op = i.op /\ Len(s) >= Pops(i) /\ Len(s) <= MaxDepth
  /\ e.read = Reads(s, i) /\ e.written = Writes(s, i)
  /\ i.op \in {"push", "dup"} => Len(s) < MaxDepth
  /\ i.op \in {"br", "brtrue"} => e.label = i.target /\ e.label \in labelNames
  /\ i.op \notin {"br", "brtrue"} => e.label = NoOffset
  /\ i.op = "leave" =>
       s = <<>> /\ e.index \in DOMAIN continuations /\ continuations[e.index] = i.target
EmittedAt == {emitters[i].offset : i \in DOMAIN emitters}
Fetched ==
  /\ \A o \in Offsets : code[o] # None <=> Decoded(o)
  /\ \A i \in DOMAIN emitters :
       EmitterOf(emitters[i], code[emitters[i].offset], snapshots[emitters[i].offset])
  /\ \A i, j \in DOMAIN emitters : emitters[i].offset = emitters[j].offset => i = j
  /\ phase \in {"dequeue", "move", "done", "run"} => DOMAIN snapshots = EmittedAt
  /\ phase = "prepare" =>
       /\ DOMAIN snapshots = EmittedAt \cup {currentCode} /\ currentCode \notin EmittedAt
       /\ snapshots[currentCode] = Current
       /\ code[currentCode].op \in {"push", "dup"} => stackPointer < MaxDepth
       /\ code[currentCode].op = "leave" => stackPointer = 0
  /\ phase = "refused" => EmittedAt \subseteq DOMAIN snapshots

\* Every stack that is decoded comes from a start of the method or from an
\* instruction emitted before.
Begins(o, s) ==
  \/ Path(o, s) = Path(1, <<>>)
  \/ \E i \in DOMAIN handlers : Path(o, s) = HandlerPath(handlers[i])
Leads(p, o, s) == o \in Successors(p) /\ s = Out(snapshots[p], code[p])
Origin(o, s, n) == Begins(o, s) \/ \E j \in 1 .. n : Leads(emitters[j].offset, o, s)
Justified ==
  /\ \A i \in DOMAIN emitters : Origin(emitters[i].offset, snapshots[emitters[i].offset], i - 1)
  /\ \A i \in DOMAIN pathRemains :
       Origin(pathRemains[i].offset, pathRemains[i].slots, Len(emitters))
  /\ phase = "move" => Origin(nextOffset, Current, Len(emitters))
  /\ phase = "prepare" => Origin(currentCode, Current, Len(emitters))

\* What follows an emitted instruction is decoded or will be.
Awaited(o) ==
  \/ Decoded(o)
  \/ \E i \in DOMAIN pathRemains : pathRemains[i].offset = o
  \/ phase = "move" /\ nextOffset = o
Followed ==
  /\ Awaited(1) /\ \A i \in DOMAIN handlers : Awaited(handlers[i].start)
  /\ \A i \in DOMAIN emitters : \A o \in Successors(emitters[i].offset) : Awaited(o)
  /\ phase \in {"done", "run"} => pathRemains = <<>>

Prefixed ==
  /\ phase = "move" /\ prefixCode # NoOffset /\ currentCode = prefixCode =>
       /\ nextOffset = currentCode + 1 /\ currentCode \in Offsets
       /\ code[currentCode].op = "prefix"
  /\ phase = "prepare" /\ prefixCode # NoOffset =>
       /\ prefixCode = currentCode - 1 /\ prefixCode \in Offsets /\ code[prefixCode].op = "prefix"

\* The stacks agree along every step of the method.
Typed ==
  /\ snapshots[1] = <<>>
  /\ \A i \in DOMAIN handlers : snapshots[handlers[i].start] = HandlerPath(handlers[i]).slots
  /\ \A o \in DOMAIN snapshots : \A q \in Successors(o) : snapshots[q] = Out(snapshots[o], code[o])
Caught ==
  \A i \in DOMAIN handlers : handlers[i].kind = "catch" =>
    \E j \in DOMAIN handlers :
      /\ handlers[j].start = handlers[i].start
      /\ catchVariables[handlers[i].start] = <<1, handlers[j].type>>
Runs ==
  /\ phase # "run" => pc = NoOffset /\ live = <<>> /\ leaving = NoOffset
  /\ phase = "run" /\ ~Merges => Typed
  /\ pc # NoOffset /\ ~Merges => pc \in DOMAIN snapshots /\ live = snapshots[pc]
  /\ pc = NoOffset /\ ~Merges => live = <<>>
  /\ leaving # NoOffset /\ ~Merges =>
       /\ leaving \in DOMAIN continuations /\ Decoded(continuations[leaving])
       /\ snapshots[continuations[leaving]] = <<>>

DecodeInv ==
  DecodeTypes /\ Fetched /\ Justified /\ Followed /\ Prefixed /\ Caught /\ Runs
-----------------------------------------------------------------------------
\* Instructions, by what the proofs ask of them.
LEMMA InstructionIs ==
  ASSUME NEW i \in Instructions
  PROVE  /\ i.op \in Ops /\ i # None /\ i.op # "none"
         /\ i.op = "push" => i.type \in EntryTypes
         /\ i.op \in {"br", "brtrue", "leave"} => i.target \in Offsets
         /\ Pops(i) \in {0, 1}
         /\ Pops(i) = 1 <=> i.op \in {"pop", "brtrue", "throw", "dup"}
         /\ IsEndOfPath(i) <=> i.op \in {"br", "ret", "throw", "leave", "endfinally"}
<1>1. i \in Plain \cup Pushes \cup Jumps
  BY DEF Instructions
<1>2. CASE i \in Plain
  BY <1>2 DEF Plain, Ops, None, Pops, IsEndOfPath
<1>3. CASE i \in Pushes
  BY <1>3 DEF Pushes, Ops, None, Pops, IsEndOfPath
<1>4. CASE i \in Jumps
  BY <1>4, DecodeAssumption DEF Jumps, Ops, None, Pops, IsEndOfPath
<1> QED BY <1>1, <1>2, <1>3, <1>4

\* A snapshot, entry by entry.
LEMMA SnapshotIs ==
  ASSUME NEW list, NEW n \in Nat
  PROVE  /\ Len(StackSnapshot(list, n)) = n
         /\ DOMAIN StackSnapshot(list, n) = 1 .. n
         /\ \A d \in 1 .. n : StackSnapshot(list, n)[d] = <<d, list[d].selected>>
         /\ n <= MaxDepth /\ (\A d \in 1 .. n : list[d].selected \in EntryTypes) =>
              StackSnapshot(list, n) \in Stacks
<1>1. /\ Len(StackSnapshot(list, n)) = n
      /\ DOMAIN StackSnapshot(list, n) = 1 .. n
      /\ \A d \in 1 .. n : StackSnapshot(list, n)[d] = <<d, list[d].selected>>
  BY DEF StackSnapshot, GetCurrent
<1>2. ASSUME n <= MaxDepth, \A d \in 1 .. n : list[d].selected \in EntryTypes
      PROVE  StackSnapshot(list, n) \in Stacks
  <2>1. ASSUME NEW d \in 1 .. n PROVE StackSnapshot(list, n)[d] \in Slot
    <3>1. d \in 1 .. MaxDepth + 1 /\ list[d].selected \in EntryTypes
      BY <1>2, DecodeAssumption
    <3>2. <<d, list[d].selected>> \in Slot
      BY <3>1 DEF Slot
    <3> QED BY <3>2, <1>1
  <2>2. StackSnapshot(list, n) \in Seq(Slot)
    BY <2>1, <1>1 DEF StackSnapshot
  <2> QED BY <2>2, <1>1 DEF Stacks
<1> QED BY <1>1, <1>2

\* A stack, entry by entry.
LEMMA StackIs ==
  ASSUME NEW s \in Stacks
  PROVE  /\ s \in Seq(Slot) /\ Len(s) \in Nat /\ DOMAIN s = 1 .. Len(s)
         /\ \A d \in 1 .. Len(s) :
              s[d] \in Slot /\ s[d][2] \in EntryTypes /\ s[d] = <<d, s[d][2]>> /\ s[d] # NoSlot
         /\ Len(s) = 0 <=> s = <<>>
<1>1. s \in Seq(Slot) /\ Len(s) \in Nat /\ DOMAIN s = 1 .. Len(s)
  BY LenProperties DEF Stacks
<1>2. ASSUME NEW d \in 1 .. Len(s)
      PROVE  s[d] \in Slot /\ s[d][2] \in EntryTypes /\ s[d] = <<d, s[d][2]>> /\ s[d] # NoSlot
  <2>1. s[d] \in Slot /\ s[d][1] = d
    BY <1>1 DEF Stacks
  <2> QED BY <2>1 DEF Slot, NoSlot
<1> QED BY <1>1, <1>2, EmptySeq

\* Stacks of the same depth and the same types are equal.
LEMMA StacksEqual ==
  ASSUME NEW s \in Stacks, NEW r \in Stacks, Len(s) = Len(r),
         \A d \in 1 .. Len(s) : s[d][2] = r[d][2]
  PROVE  s = r
<1>1. s \in Seq(Slot) /\ r \in Seq(Slot)
  BY StackIs
<1>2. ASSUME NEW d \in 1 .. Len(s) PROVE s[d] = r[d]
  <2>1. s[d] = <<d, s[d][2]>>
    BY StackIs
  <2>2. r[d] = <<d, r[d][2]>>
    BY StackIs
  <2> QED BY <2>1, <2>2
<1> QED BY <1>1, <1>2, SeqEqual

\* A stack without its topmost entry.
LEMMA FrontIs ==
  ASSUME NEW s \in Stacks, Len(s) > 0
  PROVE  /\ Front(s) \in Stacks /\ Len(Front(s)) = Len(s) - 1
         /\ \A d \in 1 .. Len(s) - 1 : Front(s)[d] = s[d]
<1>7. Len(s) \in Nat
  BY StackIs
<1>1. PICK n \in Nat : n = Len(s) - 1
  BY <1>7
<1>2. \A d \in 1 .. n : s[d] \in Slot
  BY <1>1, StackIs
<1>3. /\ SubSeq(s, 1, n) \in Seq(Slot)
      /\ Len(SubSeq(s, 1, n)) = IF 1 <= n THEN n - 1 + 1 ELSE 0
      /\ \A d \in 1 .. n - 1 + 1 : SubSeq(s, 1, n)[d] = s[1 + d - 1]
  BY <1>2, SubSeqProperties
<1>4. Front(s) = SubSeq(s, 1, n)
  BY <1>1 DEF Front
<1>5. Len(Front(s)) = n /\ \A d \in 1 .. n : Front(s)[d] = s[d]
  BY <1>3, <1>4
<1>6. \A d \in 1 .. n : Front(s)[d][1] = d
  BY <1>5, <1>1, StackIs
<1> QED BY <1>1, <1>3, <1>4, <1>5, <1>6 DEF Stacks

\* A stack with an entry more.
LEMMA PushedIs ==
  ASSUME NEW s \in Stacks, NEW t \in EntryTypes, Len(s) < MaxDepth
  PROVE  /\ <<Len(s) + 1, t>> \in Slot
         /\ Append(s, <<Len(s) + 1, t>>) \in Stacks
         /\ Len(Append(s, <<Len(s) + 1, t>>)) = Len(s) + 1
         /\ \A d \in 1 .. Len(s) : Append(s, <<Len(s) + 1, t>>)[d] = s[d]
         /\ Append(s, <<Len(s) + 1, t>>)[Len(s) + 1] = <<Len(s) + 1, t>>
<1> DEFINE new == <<Len(s) + 1, t>>
<1>1. new \in Slot
  BY StackIs, DecodeAssumption DEF Slot
<1>2. /\ Append(s, new) \in Seq(Slot) /\ Len(Append(s, new)) = Len(s) + 1
      /\ \A d \in 1 .. Len(s) : Append(s, new)[d] = s[d]
      /\ Append(s, new)[Len(s) + 1] = new
  BY <1>1, StackIs, AppendProperties
<1>3. \A d \in 1 .. Len(Append(s, new)) : Append(s, new)[d][1] = d
  BY <1>2, StackIs
<1> QED BY <1>1, <1>2, <1>3 DEF Stacks

\* The stack an instruction leaves.
LEMMA OutIs ==
  ASSUME NEW s \in Stacks, NEW i \in Instructions, Len(s) >= Pops(i), Len(s) <= MaxDepth,
         i.op \in {"push", "dup"} => Len(s) < MaxDepth
  PROVE  /\ Out(s, i) \in Stacks /\ Len(Out(s, i)) <= MaxDepth
         /\ Reads(s, i) \in Slot \cup {NoSlot} /\ Writes(s, i) \in Slot \cup {NoSlot}
         /\ Reads(s, i) # NoSlot <=> Pops(i) = 1
         /\ Writes(s, i) # NoSlot <=> i.op \in {"push", "dup"}
<1>1. Len(s) \in Nat /\ MaxDepth \in Nat
  BY StackIs, DecodeAssumption
<1>2. CASE i.op = "push"
  BY <1>1, <1>2, InstructionIs, PushedIs, StackIs DEF Out, Reads, Writes, NoSlot
<1>3. CASE i.op = "dup"
  <2>1. Pops(i) = 1 /\ Len(s) \in 1 .. Len(s) /\ s[Len(s)][2] \in EntryTypes
    BY <1>1, <1>3, InstructionIs, StackIs
  <2> QED BY <2>1, <1>1, <1>3, PushedIs, StackIs DEF Out, Reads, Writes, NoSlot
<1>4. CASE i.op \in {"pop", "brtrue", "throw"}
  <2>1. Pops(i) = 1 /\ Len(s) \in 1 .. Len(s) /\ s[Len(s)] \in Slot /\ s[Len(s)] # NoSlot
    BY <1>1, <1>4, InstructionIs, StackIs
  <2> QED BY <2>1, <1>1, <1>4, FrontIs DEF Out, Reads, Writes
<1>5. CASE Pops(i) = 0 /\ i.op # "push"
  BY <1>1, <1>5, InstructionIs DEF Out, Reads, Writes
<1> QED BY <1>2, <1>3, <1>4, <1>5, InstructionIs

-----------------------------------------------------------------------------
\* Induction over a set of numbers.
LEMMA AllNumbers ==
  ASSUME NEW P \in SUBSET Nat, 0 \in P, \A n \in P : n + 1 \in P
  PROVE  P = Nat
<1> SUFFICES ASSUME Nat \ P # {} PROVE FALSE
  OBVIOUS
<1>1. IsWellFoundedOn(OpToRel(<, Nat), Nat)
  BY NatLessThanWellFounded
<1>2. PICK n \in Nat \ P : \A m \in Nat \ P : ~(<<m, n>> \in OpToRel(<, Nat))
  BY <1>1, WFMin
<1>3. n \in Nat /\ n \notin P
  BY <1>2
<1>4. n # 0
  BY <1>3
<1>5. PICK m \in Nat : m + 1 = n
  <2>1. n - 1 \in Nat /\ (n - 1) + 1 = n
    BY <1>3, <1>4
  <2> QED BY <2>1
<1>6. m < n
  BY <1>3, <1>5
<1>7. <<m, n>> \in OpToRel(<, Nat)
  BY <1>3, <1>6 DEF OpToRel
<1>8. m \in P
  BY <1>2, <1>7
<1> QED BY <1>3, <1>5, <1>8

\* The points reached in one more instruction.
Extended(S) == S \cup UNION {Follow(point) : point \in S}
Approximates(g, n) == g = [k \in 0 .. n |-> IF k = 0 THEN Starts ELSE Extended(g[k - 1])]

\* The recursive definition of Reached has a solution, which Reached is.
LEMMA ReachedIs ==
  Reached[0] = Starts /\ \A n \in Nat : Reached[n + 1] = Extended(Reached[n])
<1> DEFINE Some == {n \in Nat : \E g : Approximates(g, n)}
           Sole == {n \in Nat : \A g, h : Approximates(g, n) /\ Approximates(h, n) => g = h}
           Solves(f) == f = [n \in Nat |-> IF n = 0 THEN Starts ELSE Extended(f[n - 1])]
<1>1. ASSUME NEW g, NEW n \in Nat, Approximates(g, n + 1)
      PROVE  /\ Approximates([k \in 0 .. n |-> g[k]], n)
             /\ g[n + 1] = Extended(g[n])
  BY <1>1 DEF Approximates
<1>2. Some = Nat
  <2>1. 0 \in Some
    <3>1. Approximates([k \in 0 .. 0 |-> Starts], 0)
      BY DEF Approximates
    <3> QED BY <3>1
  <2>2. ASSUME NEW n \in Some PROVE n + 1 \in Some
    <3>1. PICK g : Approximates(g, n)
      OBVIOUS
    <3> DEFINE h == [k \in 0 .. n + 1 |-> IF k = n + 1 THEN Extended(g[n]) ELSE g[k]]
    <3>2. Approximates(h, n + 1)
      <4>1. DOMAIN h = 0 .. n + 1
        OBVIOUS
      <4>2. ASSUME NEW k \in 0 .. n + 1
            PROVE  h[k] = IF k = 0 THEN Starts ELSE Extended(h[k - 1])
        BY <3>1 DEF Approximates
      <4> HIDE DEF h
      <4>3. h = [k \in 0 .. n + 1 |-> h[k]]
        BY DEF h
      <4> QED BY <4>2, <4>3 DEF Approximates
    <3> QED BY <3>2
  <2> HIDE DEF Some
  <2>3. Some \in SUBSET Nat
    BY DEF Some
  <2> QED BY <2>1, <2>2, <2>3, AllNumbers
<1>3. Sole = Nat
  <2>1. 0 \in Sole
    BY DEF Approximates
  <2>2. ASSUME NEW n \in Sole PROVE n + 1 \in Sole
    <3> SUFFICES ASSUME NEW g, NEW h, Approximates(g, n + 1), Approximates(h, n + 1)
                 PROVE  g = h
      OBVIOUS
    <3> DEFINE gn == [k \in 0 .. n |-> g[k]]
               hn == [k \in 0 .. n |-> h[k]]
    <3>0. n \in Nat
      OBVIOUS
    <3>1. Approximates(gn, n) /\ Approximates(hn, n) /\ g[n + 1] = Extended(g[n])
          /\ h[n + 1] = Extended(h[n])
      BY <3>0, <1>1
    <3>6. gn = hn
      <4> HIDE DEF gn, hn
      <4> QED BY <3>1
    <3>2. \A k \in 0 .. n : g[k] = h[k]
      <4>1. \A k \in 0 .. n : g[k] = gn[k] /\ h[k] = hn[k]
        OBVIOUS
      <4> HIDE DEF gn, hn
      <4> QED BY <4>1, <3>6
    <3>3. g[n + 1] = h[n + 1]
      BY <3>0, <3>1, <3>2
    <3>4. \A k \in 0 .. n + 1 : g[k] = h[k]
      BY <3>2, <3>3
    <3>5. g = [k \in 0 .. n + 1 |-> g[k]] /\ h = [k \in 0 .. n + 1 |-> h[k]]
      BY DEF Approximates
    <3> QED BY <3>4, <3>5
  <2> HIDE DEF Sole
  <2>3. Sole \in SUBSET Nat
    BY DEF Sole
  <2> QED BY <2>1, <2>2, <2>3, AllNumbers
<1> DEFINE G(n) == CHOOSE g : Approximates(g, n)
           F == [n \in Nat |-> G(n)[n]]
<1>4. \A n \in Nat : Approximates(G(n), n)
  BY <1>2
<1>5. \A n \in Nat : \A g : Approximates(g, n) => g = G(n)
  BY <1>3, <1>4
<1> HIDE DEF G, Some, Sole
<1>6. Solves(F)
  <2>1. F[0] = Starts
    BY <1>4 DEF Approximates
  <2>2. ASSUME NEW n \in Nat PROVE F[n + 1] = Extended(F[n])
    <3>0. n + 1 \in Nat /\ Approximates(G(n + 1), n + 1)
      BY <1>4
    <3>3. PICK g : g = G(n + 1)
      OBVIOUS
    <3>4. Approximates([k \in 0 .. n |-> g[k]], n) /\ g[n + 1] = Extended(g[n])
      BY <3>0, <3>3, <1>1
    <3>5. [k \in 0 .. n |-> g[k]] = G(n)
      BY <3>4, <1>5
    <3>1. [k \in 0 .. n |-> G(n + 1)[k]] = G(n) /\ G(n + 1)[n + 1] = Extended(G(n + 1)[n])
      BY <3>3, <3>4, <3>5
    <3>2. G(n + 1)[n] = G(n)[n]
      BY <3>1
    <3> QED BY <3>1, <3>2
  <2> HIDE DEF F
  <2>3. ASSUME NEW n \in Nat PROVE F[n] = IF n = 0 THEN Starts ELSE Extended(F[n - 1])
    <3>1. CASE n = 0
      BY <3>1, <2>1
    <3>2. CASE n # 0
      <4>1. PICK m \in Nat : n = m + 1 /\ m = n - 1
        BY <3>2
      <4> QED BY <4>1, <2>2
    <3> QED BY <3>1, <3>2
  <2>4. F = [n \in Nat |-> F[n]]
    BY DEF F
  <2> QED BY <2>3, <2>4
<1>7. Solves(Reached)
  <2>1. Reached = CHOOSE f : Solves(f)
    BY DEF Reached, Extended
  <2> QED BY <2>1, <1>6
<1> HIDE DEF Solves
<1>8. Reached = [n \in Nat |-> IF n = 0 THEN Starts ELSE Extended(Reached[n - 1])]
  BY <1>7 DEF Solves
<1>9. ASSUME NEW n \in Nat PROVE Reached[n + 1] = Extended(Reached[n])
  <2>1. n + 1 \in Nat /\ n + 1 # 0 /\ (n + 1) - 1 = n
    OBVIOUS
  <2> QED BY <2>1, <1>8
<1> QED BY <1>8, <1>9

-----------------------------------------------------------------------------
\* The types of a stack's entries, and the point of CIL that a stack is decoded at.
Types(s) == [d \in 1 .. Len(s) |-> s[d][2]]
Point(o, s) == [offset |-> o, entries |-> Types(s)]

\* The types of a stack determine it.
LEMMA TypesIs ==
  ASSUME NEW s \in Stacks
  PROVE  /\ Types(s) \in Seq(EntryTypes) /\ Len(Types(s)) = Len(s)
         /\ \A d \in 1 .. Len(s) : Types(s)[d] = s[d][2]
         /\ \A r \in Stacks : Types(s) = Types(r) => s = r
         /\ Types(s) = <<>> <=> s = <<>>
<1>1. Len(s) \in Nat /\ \A d \in 1 .. Len(s) : s[d][2] \in EntryTypes
  BY StackIs
<1>2. /\ Types(s) \in Seq(EntryTypes) /\ Len(Types(s)) = Len(s)
      /\ \A d \in 1 .. Len(s) : Types(s)[d] = s[d][2]
  BY <1>1 DEF Types
<1>3. ASSUME NEW r \in Stacks, Types(s) = Types(r) PROVE s = r
  <2>1. Len(r) \in Nat /\ Len(Types(r)) = Len(r) /\ \A d \in 1 .. Len(r) : Types(r)[d] = r[d][2]
    BY StackIs DEF Types
  <2> QED BY <1>2, <1>3, <2>1, StacksEqual
<1>4. <<>> \in Stacks /\ Types(<<>>) = <<>>
  BY DEF Stacks, Types
<1> QED BY <1>2, <1>3, <1>4

\* What an instruction does to the entries of CIL, it does to the slots.
LEMMA AfterIs ==
  ASSUME NEW s \in Stacks, NEW i \in Instructions, Len(s) >= Pops(i), Len(s) <= MaxDepth,
         i.op \in {"push", "dup"} => Len(s) < MaxDepth, i.op = "leave" => s = <<>>
  PROVE  After(i, Types(s)) = Types(Out(s, i))
<1>0. Len(s) \in Nat /\ Out(s, i) \in Stacks
  BY StackIs, OutIs
<1>1. CASE i.op = "push"
  <2>1. After(i, Types(s)) = Append(Types(s), i.type) /\ i.type \in EntryTypes
    BY <1>1, InstructionIs DEF After
  <2>2. Out(s, i) = Append(s, <<Len(s) + 1, i.type>>)
    BY <1>1, InstructionIs DEF Out, Writes
  <2>3. /\ Len(Out(s, i)) = Len(s) + 1
        /\ \A d \in 1 .. Len(s) : Out(s, i)[d] = s[d]
        /\ Out(s, i)[Len(s) + 1] = <<Len(s) + 1, i.type>>
    BY <2>1, <2>2, <1>1, PushedIs
  <2>4. Len(Types(Out(s, i))) = Len(s) + 1
        /\ \A d \in 1 .. Len(s) + 1 : Types(Out(s, i))[d] = Out(s, i)[d][2]
    BY <1>0, <2>3, TypesIs
  <2>5. /\ Append(Types(s), i.type) \in Seq(EntryTypes)
        /\ Len(Append(Types(s), i.type)) = Len(s) + 1
        /\ \A d \in 1 .. Len(s) : Append(Types(s), i.type)[d] = s[d][2]
        /\ Append(Types(s), i.type)[Len(s) + 1] = i.type
    BY <2>1, TypesIs, AppendProperties
  <2>6. \A d \in 1 .. Len(s) + 1 : Append(Types(s), i.type)[d] = Types(Out(s, i))[d]
    BY <2>3, <2>4, <2>5, <1>0
  <2> QED BY <2>1, <2>4, <2>5, <2>6, <1>0, TypesIs, SeqEqual
<1>2. CASE i.op = "dup"
  <2> DEFINE t == s[Len(s)][2]
  <2>1. Len(s) \in 1 .. Len(s) /\ Pops(i) = 1
    BY <1>0, <1>2, InstructionIs
  <2>2. t \in EntryTypes /\ Last(Types(s)) = t
    BY <2>1, StackIs, TypesIs DEF Last
  <2>3. After(i, Types(s)) = Append(Types(s), t)
    BY <1>2, <2>2 DEF After
  <2>4. Out(s, i) = Append(s, <<Len(s) + 1, t>>)
    BY <1>2, <2>1 DEF Out, Writes
  <2> HIDE DEF t
  <2>5. /\ Len(Out(s, i)) = Len(s) + 1
        /\ \A d \in 1 .. Len(s) : Out(s, i)[d] = s[d]
        /\ Out(s, i)[Len(s) + 1] = <<Len(s) + 1, t>>
    BY <2>2, <2>4, <1>2, PushedIs
  <2>6. Len(Types(Out(s, i))) = Len(s) + 1
        /\ \A d \in 1 .. Len(s) + 1 : Types(Out(s, i))[d] = Out(s, i)[d][2]
    BY <1>0, <2>5, TypesIs
  <2>7. /\ Append(Types(s), t) \in Seq(EntryTypes) /\ Len(Append(Types(s), t)) = Len(s) + 1
        /\ \A d \in 1 .. Len(s) : Append(Types(s), t)[d] = s[d][2]
        /\ Append(Types(s), t)[Len(s) + 1] = t
    BY <2>2, TypesIs, AppendProperties
  <2>8. \A d \in 1 .. Len(s) + 1 : Append(Types(s), t)[d] = Types(Out(s, i))[d]
    BY <2>5, <2>6, <2>7, <1>0
  <2> QED BY <2>3, <2>6, <2>7, <2>8, <1>0, TypesIs, SeqEqual
<1>3. CASE i.op \in {"pop", "brtrue", "throw"}
  <2>1. PICK n \in Nat : n = Len(s) - 1
    <3>1. Len(s) - 1 \in Nat
      BY <1>0, <1>3, InstructionIs
    <3> QED BY <3>1
  <2>2. After(i, Types(s)) = SubSeq(Types(s), 1, n)
    BY <1>3, <2>1, TypesIs DEF After, Front
  <2>3. Out(s, i) = Front(s) /\ Len(Front(s)) = n /\ \A d \in 1 .. n : Front(s)[d] = s[d]
    BY <1>0, <1>3, <2>1, InstructionIs, FrontIs DEF Out
  <2>4. ASSUME NEW d \in 1 .. n PROVE Types(s)[d] \in EntryTypes /\ Types(s)[d] = s[d][2]
    <3>1. d \in 1 .. Len(s)
      BY <2>1, <1>0
    <3> QED BY <3>1, TypesIs, StackIs
  <2>5. /\ SubSeq(Types(s), 1, n) \in Seq(EntryTypes)
        /\ Len(SubSeq(Types(s), 1, n)) = IF 1 <= n THEN n - 1 + 1 ELSE 0
        /\ \A d \in 1 .. n - 1 + 1 : SubSeq(Types(s), 1, n)[d] = Types(s)[1 + d - 1]
    BY <2>4, SubSeqProperties
  <2>6. Len(SubSeq(Types(s), 1, n)) = n /\ \A d \in 1 .. n : SubSeq(Types(s), 1, n)[d] = s[d][2]
    BY <2>4, <2>5
  <2>7. /\ Types(Front(s)) \in Seq(EntryTypes) /\ Len(Types(Front(s))) = n
        /\ \A d \in 1 .. n : Types(Front(s))[d] = s[d][2]
    BY <1>0, <2>3, TypesIs
  <2> QED BY <2>2, <2>3, <2>5, <2>6, <2>7, SeqEqual
<1>4. CASE i.op \in {"br", "ret", "endfinally", "prefix"}
  BY <1>4, InstructionIs DEF After, Out
<1>5. CASE i.op = "leave"
  BY <1>5, InstructionIs, TypesIs DEF After, Out
<1> QED BY <1>1, <1>2, <1>3, <1>4, <1>5, InstructionIs DEF Ops

\* What is reached stays reached with more instructions.
LEMMA ReachedGrows ==
  ASSUME NEW m \in Nat, NEW n \in Nat, m <= n
  PROVE  Reached[m] \subseteq Reached[n]
<1> DEFINE P == {k \in Nat : Reached[m] \subseteq Reached[m + k]}
<1>1. 0 \in P
  BY DEF P
<1>2. ASSUME NEW k \in P PROVE k + 1 \in P
  <2>1. m + k \in Nat /\ m + (k + 1) = (m + k) + 1
    OBVIOUS
  <2>2. Reached[m + k] \subseteq Reached[(m + k) + 1]
    BY <2>1, ReachedIs DEF Extended
  <2> QED BY <2>1, <2>2
<1>3. P \in SUBSET Nat
  OBVIOUS
<1> HIDE DEF P
<1>4. P = Nat
  BY <1>1, <1>2, <1>3, AllNumbers
<1>5. n - m \in Nat /\ m + (n - m) = n
  OBVIOUS
<1> QED BY <1>4, <1>5 DEF P

-----------------------------------------------------------------------------
\* An emitter, its instruction and its stack.
LEMMA EmitterIs ==
  ASSUME DecodeTypes, Fetched, NEW k \in DOMAIN emitters, NEW o, o = emitters[k].offset
  PROVE  /\ o \in Offsets /\ Decoded(o) /\ snapshots[o] \in Stacks
         /\ code[o] \in Instructions /\ EmitterOf(emitters[k], code[o], snapshots[o])
         /\ Out(snapshots[o], code[o]) \in Stacks
         /\ After(code[o], Types(snapshots[o])) = Types(Out(snapshots[o], code[o]))
<1>1. emitters[k] \in Emitters
  BY ElementOfSeq, LenProperties DEF DecodeTypes
<1>2. o \in Offsets /\ EmitterOf(emitters[k], code[o], snapshots[o])
  BY <1>1 DEF Emitters, Fetched
<1>3. o \in DOMAIN snapshots
  BY DEF Fetched, EmittedAt, DecodeTypes
<1>4. snapshots[o] \in Stacks
  BY <1>3 DEF DecodeTypes
<1> QED BY <1>2, <1>3, <1>4, OutIs, AfterIs DEF EmitterOf, Decoded

\* Where the method starts, CIL does.
LEMMA BeginsIs ==
  ASSUME DecodeTypes, NEW o, NEW s, Begins(o, s)
  PROVE  Point(o, s) \in Starts
<1>1. CASE Path(o, s) = Path(1, <<>>)
  <2>1. o = 1 /\ s = <<>>
    BY <1>1 DEF Path
  <2>2. Types(<<>>) = <<>>
    BY DEF Types
  <2> QED BY <2>1, <2>2 DEF Point, Starts
<1>2. ASSUME NEW i \in DOMAIN handlers, Path(o, s) = HandlerPath(handlers[i])
      PROVE  Point(o, s) \in Starts
  <2> DEFINE h == handlers[i]
  <2>1. o = h.start /\ s = IF h.kind = "catch" THEN << <<1, h.type>> >> ELSE <<>>
    BY <1>2 DEF Path, HandlerPath
  <2>2. Types(s) = IF h.kind = "catch" THEN <<h.type>> ELSE <<>>
    BY <2>1 DEF Types
  <2>3. h \in Range(handlers)
    BY DEF Range
  <2> HIDE DEF h
  <2> QED BY <2>1, <2>2, <2>3 DEF Point, Starts
<1> QED BY <1>1, <1>2 DEF Begins

\* An emitter leads where an execution of CIL goes.
LEMMA LeadsFollows ==
  ASSUME DecodeTypes, Fetched, NEW k \in DOMAIN emitters, NEW o, o = emitters[k].offset,
         NEW q \in Successors(o)
  PROVE  Point(q, Out(snapshots[o], code[o])) \in Follow(Point(o, snapshots[o]))
<1>1. /\ o \in 1 .. Length /\ snapshots[o] \in Stacks /\ code[o] \in Instructions
      /\ Len(snapshots[o]) >= Pops(code[o]) /\ Len(snapshots[o]) <= MaxDepth
      /\ After(code[o], Types(snapshots[o])) = Types(Out(snapshots[o], code[o]))
  BY EmitterIs DEF EmitterOf, Offsets
<1>2. Len(Types(snapshots[o])) = Len(snapshots[o]) /\ Len(snapshots[o]) \in Nat
  BY <1>1, TypesIs, StackIs
<1>3. code[o] # None /\ ~(o > Length) /\ ~(Len(snapshots[o]) > MaxDepth)
      /\ ~(Len(snapshots[o]) < Pops(code[o]))
  BY <1>1, <1>2, InstructionIs, DecodeAssumption
<1> QED BY <1>1, <1>2, <1>3 DEF Follow, Point

\* The points of the emitters are reached, each after at most as many instructions
\* as were emitted before it.
LEMMA PointsReached ==
  ASSUME DecodeTypes, Fetched, Justified, NEW k \in DOMAIN emitters, NEW o, o = emitters[k].offset
  PROVE  \E n \in 0 .. k - 1 : Point(o, snapshots[o]) \in Reached[n]
<1> DEFINE At(j) == Point(emitters[j].offset, snapshots[emitters[j].offset])
           P == {n \in Nat : \A j \in DOMAIN emitters : j <= n =>
                               \E m \in 0 .. j - 1 : At(j) \in Reached[m]}
<1>0. DOMAIN emitters = 1 .. Len(emitters) /\ Len(emitters) \in Nat
  BY LenProperties DEF DecodeTypes
<1>1. 0 \in P
  BY <1>0
<1>2. ASSUME NEW n \in P PROVE n + 1 \in P
  <2> SUFFICES ASSUME NEW j \in DOMAIN emitters, j = n + 1
               PROVE  \E m \in 0 .. j - 1 : At(j) \in Reached[m]
    BY <1>0
  <2>1. Origin(emitters[j].offset, snapshots[emitters[j].offset], j - 1)
    BY DEF Justified
  <2>2. CASE Begins(emitters[j].offset, snapshots[emitters[j].offset])
    <3>1. At(j) \in Reached[0]
      BY <2>2, BeginsIs, ReachedIs
    <3>2. 0 \in 0 .. j - 1
      OBVIOUS
    <3> QED BY <3>1, <3>2
  <2>3. ASSUME NEW i \in 1 .. j - 1,
               Leads(emitters[i].offset, emitters[j].offset, snapshots[emitters[j].offset])
        PROVE  \E m \in 0 .. j - 1 : At(j) \in Reached[m]
    <3>1. i \in DOMAIN emitters /\ i <= n /\ i \in Nat
      BY <1>0
    <3>2. PICK m \in 0 .. i - 1 : At(i) \in Reached[m]
      BY <3>1
    <3>3. At(j) \in Follow(At(i))
      BY <2>3, <3>1, LeadsFollows DEF Leads
    <3>4. m \in Nat /\ m + 1 \in 0 .. j - 1
      BY <3>1
    <3> HIDE DEF At
    <3>5. Reached[m + 1] = Extended(Reached[m])
      BY <3>4, ReachedIs
    <3>6. At(j) \in Reached[m + 1]
      BY <3>2, <3>3, <3>5 DEF Extended
    <3> QED BY <3>4, <3>6
  <2> QED BY <2>1, <2>2, <2>3 DEF Origin
<1>3. P \in SUBSET Nat
  OBVIOUS
<1> HIDE DEF P
<1>4. P = Nat
  BY <1>1, <1>2, <1>3, AllNumbers
<1>5. k \in P /\ k <= k
  BY <1>0, <1>4
<1> QED BY <1>5 DEF P

\* There are no more emitters than offsets.
LEMMA EmittersBounded ==
  ASSUME DecodeTypes, Fetched
  PROVE  Len(emitters) \in Nat /\ Len(emitters) <= Length
<1>1. DOMAIN emitters = 1 .. Len(emitters) /\ Len(emitters) \in Nat
  BY LenProperties DEF DecodeTypes
<1> DEFINE f == [k \in 1 .. Len(emitters) |-> emitters[k].offset]
<1>2. f \in [1 .. Len(emitters) -> 1 .. Length]
  <2>1. \A k \in 1 .. Len(emitters) : emitters[k].offset \in 1 .. Length
    BY <1>1, EmitterIs DEF Offsets
  <2> QED BY <2>1
<1>3. \A j, k \in 1 .. Len(emitters) : f[j] = f[k] => j = k
  BY <1>1 DEF Fetched
<1> HIDE DEF f
<1>4. f \in Injection(1 .. Len(emitters), 1 .. Length)
  BY <1>2, <1>3 DEF Injection, IsInjective
<1>5. IsFiniteSet(1 .. Length) /\ Cardinality(1 .. Length) = Length
  BY DecodeAssumption, FS_Interval
<1>6. Cardinality(1 .. Len(emitters)) = Len(emitters)
  <2>1. PICK n \in Nat : n = Len(emitters)
    BY <1>1
  <2>2. Cardinality(1 .. n) = IF 1 > n THEN 0 ELSE n - 1 + 1
    BY FS_Interval
  <2>3. Cardinality(1 .. n) = n
    BY <2>2
  <2> QED BY <2>1, <2>3
<1> QED BY <1>1, <1>4, <1>5, <1>6, FS_Injection

\* So CIL reaches what was emitted.
LEMMA EmittedReached ==
  ASSUME DecodeTypes, Fetched, Justified, NEW k \in DOMAIN emitters, NEW o, o = emitters[k].offset
  PROVE  /\ Point(o, snapshots[o]) \in Points
         /\ \A q \in Successors(o) : Point(q, Out(snapshots[o], code[o])) \in Points
<1>1. PICK n \in 0 .. k - 1 : Point(o, snapshots[o]) \in Reached[n]
  BY PointsReached
<1>2. k \in Nat /\ k <= Length
  <2>1. k \in 1 .. Len(emitters)
    BY LenProperties DEF DecodeTypes
  <2> QED BY <2>1, EmittersBounded, DecodeAssumption
<1>3. n \in Nat /\ n <= Length + MaxDepth /\ n + 1 \in Nat /\ n + 1 <= Length + MaxDepth
      /\ Length + MaxDepth \in Nat
  BY <1>2, DecodeAssumption
<1>4. Reached[n] \subseteq Points /\ Reached[n + 1] \subseteq Points
  BY <1>3, ReachedGrows DEF Points
<1>5. Reached[n + 1] = Extended(Reached[n])
  BY <1>3, ReachedIs
<1>6. ASSUME NEW q \in Successors(o)
      PROVE  Point(q, Out(snapshots[o], code[o])) \in Reached[n + 1]
  <2>1. Point(q, Out(snapshots[o], code[o])) \in Follow(Point(o, snapshots[o]))
    BY LeadsFollows
  <2> QED BY <2>1, <1>1, <1>5 DEF Extended
<1> QED BY <1>1, <1>4, <1>6

\* What CIL reaches was emitted, when no path remains.
LEMMA ReachedEmitted ==
  ASSUME DecodeTypes, Fetched, Followed, phase = "done", NEW p \in Points
  PROVE  p.offset \in EmittedAt
<1>1. \A o : Awaited(o) <=> o \in EmittedAt
  <2>1. DOMAIN pathRemains = {}
    BY DEF Followed
  <2> QED BY <2>1 DEF Awaited, Decoded, Fetched
<1> DEFINE P == {n \in Nat : \A r \in Reached[n] : r.offset \in EmittedAt}
<1>2. 0 \in P
  <2> SUFFICES ASSUME NEW r \in Starts PROVE r.offset \in EmittedAt
    BY ReachedIs
  <2>1. CASE r = [offset |-> 1, entries |-> <<>>]
    BY <2>1, <1>1 DEF Followed
  <2>2. ASSUME NEW h \in Range(handlers), r.offset = h.start PROVE r.offset \in EmittedAt
    <3>1. PICK i \in DOMAIN handlers : h = handlers[i]
      BY DEF Range
    <3> QED BY <2>2, <3>1, <1>1 DEF Followed
  <2> QED BY <2>1, <2>2 DEF Starts
<1>3. ASSUME NEW n \in P PROVE n + 1 \in P
  <2> SUFFICES ASSUME NEW r \in Reached[n + 1] PROVE r.offset \in EmittedAt
    OBVIOUS
  <2>1. CASE r \in Reached[n]
    BY <2>1
  <2>2. ASSUME NEW u \in Reached[n], r \in Follow(u) PROVE r.offset \in EmittedAt
    <3>1. u.offset \in EmittedAt
      OBVIOUS
    <3>2. r.offset \in Successors(u.offset)
      BY <2>2 DEF Follow
    <3>3. PICK k \in DOMAIN emitters : u.offset = emitters[k].offset
      BY <3>1 DEF EmittedAt
    <3> QED BY <3>2, <3>3, <1>1 DEF Followed
  <2> QED BY <2>1, <2>2, ReachedIs DEF Extended
<1>4. P \in SUBSET Nat
  OBVIOUS
<1> HIDE DEF P
<1>5. P = Nat
  BY <1>2, <1>3, <1>4, AllNumbers
<1>6. Length + MaxDepth \in P
  BY <1>5, DecodeAssumption
<1> QED BY <1>6 DEF P, Points

\* The stacks of a verified method agree along every step.
LEMMA VerifiedTyped ==
  ASSUME DecodeTypes, Fetched, Justified, Followed, phase = "done", Verified, Merges = FALSE
  PROVE  Typed
<1>1. \A o : Awaited(o) <=> o \in EmittedAt
  <2>1. DOMAIN pathRemains = {}
    BY DEF Followed
  <2> QED BY <2>1 DEF Awaited, Decoded, Fetched
<1>2. \A p, r \in Points : p.offset = r.offset => p.entries = r.entries
  BY DEF Verified
<1>3. ASSUME NEW o \in EmittedAt, NEW s \in Stacks, Point(o, s) \in Points
      PROVE  snapshots[o] = s
  <2>1. PICK k \in DOMAIN emitters : o = emitters[k].offset
    BY DEF EmittedAt
  <2>2. Point(o, snapshots[o]) \in Points /\ snapshots[o] \in Stacks
    BY <2>1, EmittedReached, EmitterIs
  <2>3. Types(snapshots[o]) = Types(s)
    BY <2>2, <1>3, <1>2 DEF Point
  <2> QED BY <2>2, <2>3, TypesIs
<1>4. ASSUME NEW o, NEW s \in Stacks, Begins(o, s), Awaited(o) PROVE snapshots[o] = s
  <2>1. Point(o, s) \in Reached[0]
    BY <1>4, BeginsIs, ReachedIs
  <2>2. Length + MaxDepth \in Nat /\ 0 <= Length + MaxDepth
    BY DecodeAssumption
  <2>3. Point(o, s) \in Points
    BY <2>1, <2>2, ReachedGrows DEF Points
  <2> QED BY <2>3, <1>1, <1>3, <1>4
<1>5. snapshots[1] = <<>>
  <2>1. <<>> \in Stacks
    BY DEF Stacks
  <2> QED BY <2>1, <1>4 DEF Begins, Followed
<1>6. ASSUME NEW i \in DOMAIN handlers
      PROVE  snapshots[handlers[i].start] = HandlerPath(handlers[i]).slots
  <2>1. handlers[i] \in Handlers
    BY ElementOfSeq, LenProperties DEF DecodeTypes
  <2>2. HandlerPath(handlers[i]).slots \in Stacks
    <3>1. <<1, handlers[i].type>> \in Slot
      BY <2>1, DecodeAssumption DEF Handlers, Slot
    <3>2. << <<1, handlers[i].type>> >> \in Stacks /\ <<>> \in Stacks
      BY <3>1 DEF Stacks
    <3> QED BY <3>2 DEF HandlerPath, Path
  <2>3. Begins(handlers[i].start, HandlerPath(handlers[i]).slots)
    BY DEF Begins, HandlerPath, Path
  <2> QED BY <2>2, <2>3, <1>4 DEF Followed
<1>7. ASSUME NEW o \in DOMAIN snapshots, NEW q \in Successors(o)
      PROVE  snapshots[q] = Out(snapshots[o], code[o])
  <2>1. PICK k \in DOMAIN emitters : o = emitters[k].offset
    BY DEF Fetched, EmittedAt
  <2>2. Out(snapshots[o], code[o]) \in Stacks /\ Point(q, Out(snapshots[o], code[o])) \in Points
    BY <2>1, EmitterIs, EmittedReached
  <2>3. q \in EmittedAt
    BY <2>1, <1>1 DEF Followed
  <2> QED BY <2>2, <2>3, <1>3
<1> QED BY <1>5, <1>6, <1>7 DEF Typed

-----------------------------------------------------------------------------
\* The invariant holds before anything is decoded.
LEMMA InitDecode == Init => DecodeInv
<1> SUFFICES ASSUME Init PROVE DecodeInv
  OBVIOUS
<1> USE DEF Init
<1>1. handlers \in Seq(Handlers)
  BY DecodeAssumption
<1>2. /\ Len(handlers) \in Nat /\ DOMAIN handlers = 1 .. Len(handlers)
      /\ \A i \in DOMAIN handlers : handlers[i] \in Handlers
  BY <1>1, LenProperties, ElementOfSeq
<1> DEFINE first == <<Path(1, <<>>)>>
           rest == [i \in DOMAIN handlers |-> HandlerPath(handlers[i])]
<1>3. Path(1, <<>>) \in Paths
  BY DecodeAssumption DEF Path, Paths, Stacks, Offsets
<1>4. ASSUME NEW i \in DOMAIN handlers PROVE HandlerPath(handlers[i]) \in Paths
  <2>1. handlers[i].type \in EntryTypes /\ handlers[i].start \in Offsets
    BY <1>2 DEF Handlers
  <2>2. <<1, handlers[i].type>> \in Slot
    BY <2>1, DecodeAssumption DEF Slot
  <2>3. << <<1, handlers[i].type>> >> \in Stacks /\ <<>> \in Stacks
    BY <2>2 DEF Stacks
  <2> QED BY <2>1, <2>3 DEF HandlerPath, Path, Paths
<1>5. first \in Seq(Paths) /\ rest \in Seq(Paths) /\ Len(first) = 1 /\ Len(rest) = Len(handlers)
  BY <1>2, <1>3, <1>4
<1>6. /\ pathRemains \in Seq(Paths) /\ DOMAIN pathRemains = 1 .. Len(handlers) + 1
      /\ pathRemains[1] = Path(1, <<>>)
      /\ \A i \in DOMAIN handlers : pathRemains[i + 1] = HandlerPath(handlers[i])
  <2>1. pathRemains = first \o rest
    OBVIOUS
  <2>2. /\ first \o rest \in Seq(Paths) /\ Len(first \o rest) = Len(handlers) + 1
        /\ \A i \in 1 .. Len(handlers) + 1 :
             (first \o rest)[i] = IF i <= 1 THEN first[i] ELSE rest[i - 1]
    <3> HIDE DEF first, rest, Init
    <3>1. /\ first \o rest \in Seq(Paths) /\ Len(first \o rest) = Len(first) + Len(rest)
          /\ \A i \in 1 .. Len(first) + Len(rest) :
               (first \o rest)[i] = IF i <= Len(first) THEN first[i] ELSE rest[i - Len(first)]
      <4>1. first \in Seq(Paths) /\ rest \in Seq(Paths)
        BY <1>5
      <4> QED BY ONLY <4>1, ConcatProperties
    <3>2. Len(first) + Len(rest) = Len(handlers) + 1
      BY <1>5, <1>2
    <3> QED BY <3>1, <3>2, <1>5
  <2>3. first[1] = Path(1, <<>>) /\ \A i \in DOMAIN handlers : rest[i] = HandlerPath(handlers[i])
    OBVIOUS
  <2>4. DOMAIN (first \o rest) = 1 .. Len(handlers) + 1
    <3> HIDE DEF first, rest
    <3> QED BY <2>2, LenProperties
  <2> HIDE DEF first, rest, Init
  <2>5. \A i \in DOMAIN handlers : i + 1 \in 1 .. Len(handlers) + 1 /\ (i + 1) - 1 = i /\ ~(i + 1 <= 1)
    BY <1>2
  <2>6. \A i \in DOMAIN handlers : (first \o rest)[i + 1] = HandlerPath(handlers[i])
    BY <2>2, <2>3, <2>5
  <2>7. 1 \in 1 .. Len(handlers) + 1
    BY <1>2
  <2>8. (first \o rest)[1] = Path(1, <<>>)
    BY <2>2, <2>3, <2>7
  <2> QED BY ONLY <2>1, <2>2, <2>4, <2>6, <2>8
<1>7. ASSUME NEW i \in DOMAIN pathRemains
      PROVE  \/ pathRemains[i] = Path(1, <<>>)
             \/ \E j \in DOMAIN handlers : pathRemains[i] = HandlerPath(handlers[j])
  <2>1. CASE i = 1
    BY <2>1, <1>6
  <2>2. CASE i # 1
    <3>1. PICK j \in DOMAIN handlers : i = j + 1
      <4>1. i - 1 \in DOMAIN handlers /\ i = (i - 1) + 1
        BY <1>2, <1>6, <2>2
      <4> QED BY <4>1
    <3> QED BY <3>1, <1>6
  <2> QED BY <2>1, <2>2
<1>8. stackList \in Seq(Holders) /\ (handlers # <<>> => Len(stackList) = 1)
  <2>1. CASE handlers = <<>>
    BY <2>1
  <2>2. CASE handlers # <<>>
    <3> DEFINE last == Max(Catches(handlers))
    <3>1. \A i \in Catches(handlers) : handlers[i].type \in EntryTypes
      BY <1>2 DEF Catches, Handlers
    <3>2. Catches(handlers) # {} => last \in Catches(handlers)
      <4> SUFFICES ASSUME Catches(handlers) # {} PROVE last \in Catches(handlers)
        OBVIOUS
      <4> DEFINE P == {n \in Nat : n <= Len(handlers) =>
                         \/ \E i \in Catches(handlers) : \A j \in Catches(handlers) : i >= j
                         \/ \A i \in Catches(handlers) : i <= Len(handlers) - n}
      <4>1. Catches(handlers) \subseteq 1 .. Len(handlers)
        BY <1>2 DEF Catches
      <4>2. 0 \in P
        BY <1>2, <4>1
      <4>3. ASSUME NEW n \in P PROVE n + 1 \in P
        <5> SUFFICES ASSUME n + 1 <= Len(handlers),
                            NEW i \in Catches(handlers), ~(i <= Len(handlers) - (n + 1))
                     PROVE  \E k \in Catches(handlers) : \A j \in Catches(handlers) : k >= j
          BY <1>2
        <5>1. i \in Nat /\ n <= Len(handlers) /\ i >= Len(handlers) - n
          BY <1>2, <4>1
        <5>2. CASE \A k \in Catches(handlers) : k <= Len(handlers) - n
          <6>1. \A k \in Catches(handlers) : i >= k
            BY <5>1, <5>2, <4>1, <1>2
          <6> QED BY <6>1
        <5> QED BY <5>1, <5>2
      <4>4. P \in SUBSET Nat
        OBVIOUS
      <4> HIDE DEF P
      <4>5. P = Nat
        BY <4>2, <4>3, <4>4, AllNumbers
      <4>6. Len(handlers) \in P
        BY <4>5, <1>2
      <4>7. \E i \in Catches(handlers) : \A j \in Catches(handlers) : i >= j
        BY <4>6, <4>1, <1>2 DEF P
      <4> QED BY <4>7 DEF Max
    <3> HIDE DEF last
    <3>3. [types |-> {handlers[i].type : i \in Catches(handlers)},
           selected |-> IF Catches(handlers) = {} THEN "none" ELSE handlers[last].type] \in Holders
      BY <3>1, <3>2 DEF Holders
    <3> QED BY <2>2, <3>3 DEF last
  <2> QED BY <2>1, <2>2
<1> HIDE DEF first, rest
<1>9. \A i \in DOMAIN pathRemains :
        Len(pathRemains[i].slots) <= Len(stackList) /\ Len(pathRemains[i].slots) <= MaxDepth
  <2> SUFFICES ASSUME NEW i \in DOMAIN pathRemains
               PROVE Len(pathRemains[i].slots) <= Len(stackList)
                     /\ Len(pathRemains[i].slots) <= MaxDepth
    OBVIOUS
  <2>0. Len(stackList) \in Nat
    BY <1>8, LenProperties
  <2>1. CASE pathRemains[i] = Path(1, <<>>)
    BY <2>0, <2>1, DecodeAssumption DEF Path
  <2>2. CASE \E j \in DOMAIN handlers : pathRemains[i] = HandlerPath(handlers[j])
    <3>1. handlers # <<>>
      BY <2>2, <1>2
    <3> QED BY <3>1, <2>2, <1>8, DecodeAssumption DEF HandlerPath, Path
  <2> QED BY <1>7, <2>1, <2>2
<1>10. DecodeTypes
  <2>1. code \in [Offsets -> Instructions \cup {None}] /\ snapshots = <<>> /\ DOMAIN snapshots = {}
    OBVIOUS
  <2>2. stackPointer \in -1 .. Len(stackList) /\ stackPointer <= MaxDepth
    BY <1>8, LenProperties, DecodeAssumption
  <2>3. phase = "dequeue" /\ labelNames = {} /\ continuations = <<>> /\ emitters = <<>>
        /\ snapshots \in [DOMAIN snapshots -> Stacks]
    OBVIOUS
  <2>4. continuations \in Seq(Offsets) /\ emitters \in Seq(Emitters)
    BY <2>3
  <2> HIDE DEF Init
  <2> QED BY <1>1, <1>6, <1>8, <1>9, <2>1, <2>2, <2>3, <2>4 DEF DecodeTypes
<1>11. Fetched
  BY DEF Fetched, EmittedAt, Decoded
<1>12. Justified
  <2>1. \A i \in DOMAIN pathRemains : Path(pathRemains[i].offset, pathRemains[i].slots) = pathRemains[i]
    BY <1>7 DEF Path, HandlerPath
  <2>2. \A i \in DOMAIN pathRemains : Begins(pathRemains[i].offset, pathRemains[i].slots)
    BY <1>7, <2>1 DEF Begins
  <2>3. phase = "dequeue" /\ DOMAIN emitters = {}
    OBVIOUS
  <2> HIDE DEF Init
  <2> QED BY <2>2, <2>3 DEF Justified, Origin
<1>13. Followed
  <2>1. Awaited(1)
    <3>1. 1 \in DOMAIN pathRemains /\ pathRemains[1].offset = 1
      BY <1>2, <1>6 DEF Path
    <3> QED BY <3>1 DEF Awaited
  <2>2. ASSUME NEW i \in DOMAIN handlers PROVE Awaited(handlers[i].start)
    <3>1. i + 1 \in DOMAIN pathRemains /\ pathRemains[i + 1].offset = handlers[i].start
      BY <1>2, <1>6 DEF Path, HandlerPath
    <3> QED BY <3>1 DEF Awaited
  <2> QED BY <2>1, <2>2 DEF Followed
<1>14. Prefixed
  BY DEF Prefixed
<1>15. Caught
  <2> SUFFICES ASSUME NEW i \in DOMAIN handlers, handlers[i].kind = "catch"
               PROVE  \E j \in DOMAIN handlers :
                        /\ handlers[j].start = handlers[i].start
                        /\ catchVariables[handlers[i].start] = <<1, handlers[j].type>>
    BY DEF Caught
  <2> DEFINE o == handlers[i].start
             g == CHOOSE h \in Range(handlers) : h.start = o
  <2>1. i \in Catches(handlers) /\ handlers[i] \in Range(handlers)
    BY DEF Catches, Range
  <2>2. g \in Range(handlers) /\ g.start = o
    BY <2>1
  <2>3. catchVariables[o] = <<1, g.type>>
    BY <2>1
  <2>4. PICK j \in DOMAIN handlers : g = handlers[j]
    BY <2>2 DEF Range
  <2> QED BY <2>2, <2>3, <2>4
<1>16. Runs
  BY DEF Runs
<1> QED
  BY <1>10, <1>11, <1>12, <1>13, <1>14, <1>15, <1>16 DEF DecodeInv

-----------------------------------------------------------------------------
\* A step that decodes executes nothing.
LEMMA DecodesOnly ==
  ASSUME Caught, Runs, UNCHANGED <<handlers, catchVariables, execution>>,
         phase # "run", phase' # "run"
  PROVE  Caught' /\ Runs'
BY DEF Caught, Runs, execution

\* What was emitted keeps its instruction and its stack.
Kept ==
  /\ handlers' = handlers
  /\ \A o \in EmittedAt : code'[o] = code[o] /\ snapshots'[o] = snapshots[o]
  /\ Len(emitters') \in Nat /\ Len(emitters) <= Len(emitters')
  /\ \A j \in 1 .. Len(emitters) : emitters'[j] = emitters[j]

\* What leads to a stack leads to it from then on.
LEMMA OriginStays ==
  ASSUME DecodeTypes, Kept, NEW o, NEW s, NEW n \in Nat, n <= Len(emitters), Origin(o, s, n)
  PROVE  Origin(o, s, n)'
<1>1. CASE Begins(o, s)
  <2>1. Begins(o, s)'
    BY <1>1 DEF Begins, Kept
  <2> QED BY <2>1 DEF Origin
<1>2. ASSUME NEW j \in 1 .. n, Leads(emitters[j].offset, o, s)
      PROVE  Origin(o, s, n)'
  <2>1. j \in 1 .. Len(emitters) /\ j \in DOMAIN emitters
    BY LenProperties DEF DecodeTypes
  <2>2. PICK p : p = emitters[j].offset
    OBVIOUS
  <2>3. p \in EmittedAt /\ emitters'[j] = emitters[j]
    BY <2>1, <2>2 DEF EmittedAt, Kept
  <2>4. code'[p] = code[p] /\ snapshots'[p] = snapshots[p]
    BY <2>3 DEF Kept
  <2>5. Leads(p, o, s)
    BY <1>2, <2>2
  <2>6. Leads(p, o, s)'
    BY <2>4, <2>5 DEF Leads, Successors
  <2>7. Leads(emitters[j].offset, o, s)'
    BY <2>2, <2>3, <2>6
  <2> QED BY <2>7 DEF Origin
<1> QED BY <1>1, <1>2 DEF Origin

\* A step that emits nothing has to justify only what it queues or turns to.
LEMMA JustifiedStays ==
  ASSUME DecodeTypes, Justified, Kept, emitters' = emitters,
         \A i \in DOMAIN pathRemains' :
           Origin(pathRemains'[i].offset, pathRemains'[i].slots, Len(emitters)),
         phase' = "move" => Origin(nextOffset', Current', Len(emitters)),
         phase' = "prepare" => Origin(currentCode', Current', Len(emitters))
  PROVE  Justified'
<1>1. Len(emitters) \in Nat /\ DOMAIN emitters = 1 .. Len(emitters)
  BY LenProperties DEF DecodeTypes
<1>2. ASSUME NEW i \in DOMAIN emitters'
      PROVE  Origin(emitters[i].offset, snapshots[emitters[i].offset], i - 1)'
  <2>1. i \in DOMAIN emitters /\ i - 1 \in Nat /\ i - 1 <= Len(emitters)
    BY <1>1
  <2>2. PICK o, s : o = emitters[i].offset /\ s = snapshots[emitters[i].offset]
    OBVIOUS
  <2>3. Origin(o, s, i - 1)
    BY <2>1, <2>2 DEF Justified
  <2>4. Origin(o, s, i - 1)'
    BY <2>1, <2>3, OriginStays
  <2>5. o = emitters'[i].offset /\ s = snapshots'[emitters'[i].offset]
    BY <2>1, <2>2 DEF Kept, EmittedAt
  <2> QED BY <2>4, <2>5
<1>3. ASSUME NEW i \in DOMAIN pathRemains'
      PROVE  Origin(pathRemains[i].offset, pathRemains[i].slots, Len(emitters))'
  <2>1. PICK o, s, n : o = pathRemains'[i].offset /\ s = pathRemains'[i].slots /\ n = Len(emitters)
    OBVIOUS
  <2>2. Origin(o, s, n)'
    BY <2>1, <1>1, OriginStays
  <2> QED BY <2>1, <2>2
<1>4. ASSUME phase' = "move" PROVE Origin(nextOffset, Current, Len(emitters))'
  <2>1. PICK o, s, n : o = nextOffset' /\ s = Current' /\ n = Len(emitters)
    OBVIOUS
  <2>2. Origin(o, s, n)'
    BY <2>1, <1>1, <1>4, OriginStays
  <2> QED BY <2>1, <2>2
<1>5. ASSUME phase' = "prepare" PROVE Origin(currentCode, Current, Len(emitters))'
  <2>1. PICK o, s, n : o = currentCode' /\ s = Current' /\ n = Len(emitters)
    OBVIOUS
  <2>2. Origin(o, s, n)'
    BY <2>1, <1>1, <1>5, OriginStays
  <2> QED BY <2>1, <2>2
<1> QED BY <1>2, <1>3, <1>4, <1>5 DEF Justified

\* A step that emits nothing must forget nothing that is awaited.
LEMMA FollowedStays ==
  ASSUME Followed, Kept, emitters' = emitters, \A o : Awaited(o) => Awaited(o)',
         phase' \in {"done", "run"} => pathRemains' = <<>>
  PROVE  Followed'
<1>1. ASSUME NEW k \in DOMAIN emitters, NEW p, p = emitters[k].offset
      PROVE  Successors(p)' = Successors(p)
  <2>1. code'[p] = code[p]
    BY <1>1 DEF Kept, EmittedAt
  <2> QED BY <2>1 DEF Successors
<1>2. ASSUME NEW k \in DOMAIN emitters', NEW o \in Successors(emitters[k].offset)'
      PROVE  Awaited(o)'
  <2>1. PICK p : p = emitters[k].offset
    OBVIOUS
  <2>2. Successors(emitters[k].offset)' = Successors(p)'
    BY <2>1
  <2>3. o \in Successors(p)
    BY <1>1, <2>1, <2>2, <1>2
  <2>4. Awaited(o)
    BY <2>1, <2>3 DEF Followed
  <2> QED BY <2>4
<1>3. Awaited(1)' /\ \A i \in DOMAIN handlers' : Awaited(handlers[i].start)'
  <2>1. ASSUME NEW i \in DOMAIN handlers' PROVE Awaited(handlers[i].start)'
    <3>1. PICK o : o = handlers[i].start
      OBVIOUS
    <3>2. Awaited(o) /\ handlers'[i].start = o
      BY <3>1 DEF Followed, Kept
    <3>3. Awaited(o)'
      BY <3>2
    <3> QED BY <3>2, <3>3
  <2> QED BY <2>1 DEF Followed
<1> QED BY <1>2, <1>3 DEF Followed

\* A path starts with the stack that it was queued with.
LEMMA RestoredIs ==
  ASSUME NEW list \in Seq(Holders), NEW s \in Stacks, Len(s) <= Len(list)
  PROVE  /\ Restored(list, s) \in Seq(Holders) /\ Len(Restored(list, s)) = Len(list)
         /\ StackSnapshot(Restored(list, s), Len(s)) = s
<1>1. /\ Len(list) \in Nat /\ \A d \in 1 .. Len(list) : list[d] \in Holders
      /\ Len(s) \in Nat /\ DOMAIN s = 1 .. Len(s)
      /\ \A d \in 1 .. Len(s) : s[d][2] \in EntryTypes /\ s[d] = <<d, s[d][2]>>
  BY LenProperties, ElementOfSeq, StackIs
<1>2. ASSUME NEW d \in 1 .. Len(list) PROVE Restored(list, s)[d] \in Holders
  BY <1>1 DEF Restored, Holders
<1>3. Restored(list, s) \in Seq(Holders) /\ Len(Restored(list, s)) = Len(list)
  BY <1>1, <1>2 DEF Restored
<1>4. ASSUME NEW d \in 1 .. Len(s) PROVE Restored(list, s)[d].selected = s[d][2]
  BY <1>1 DEF Restored
<1>5. \A d \in 1 .. Len(s) : StackSnapshot(Restored(list, s), Len(s))[d] = s[d]
  <2>1. PICK r, n : r = Restored(list, s) /\ n = Len(s)
    OBVIOUS
  <2>2. \A d \in 1 .. n : StackSnapshot(r, n)[d] = <<d, r[d].selected>>
    <3> HIDE <2>1
    <3> QED BY DEF StackSnapshot, GetCurrent
  <2>3. \A d \in 1 .. n : s[d] = <<d, r[d].selected>>
    BY <2>1, <1>1, <1>4
  <2> QED BY <2>1, <2>2, <2>3
<1>6. s = [d \in 1 .. Len(s) |-> s[d]]
  <2>1. s \in [1 .. Len(s) -> Slot]
    BY StackIs, LenProperties
  <2> QED BY <2>1
<1>7. StackSnapshot(Restored(list, s), Len(s)) =
        [d \in 1 .. Len(s) |-> StackSnapshot(Restored(list, s), Len(s))[d]]
  BY DEF StackSnapshot
<1>8. StackSnapshot(Restored(list, s), Len(s)) = s
  <2> DEFINE r == StackSnapshot(Restored(list, s), Len(s))
  <2> HIDE DEF r
  <2> QED BY <1>5, <1>6, <1>7 DEF r
<1> QED BY <1>3, <1>8

\* A dequeued path is decoded or skipped, and then its target was decoded.
LEMMA DequeueStep == DecodeInv /\ TryDequeueNextPath => DecodeInv'
<1> SUFFICES ASSUME DecodeInv, TryDequeueNextPath PROVE DecodeInv'
  OBVIOUS
<1>1. /\ DecodeTypes /\ Fetched /\ Justified /\ Followed /\ Prefixed /\ Caught /\ Runs
      /\ phase = "dequeue" /\ pathRemains # <<>> /\ pathRemains' = Tail(pathRemains)
      /\ UNCHANGED <<handlers, code, currentCode, snapshots, labelNames, catchVariables,
                     continuations, emitters, execution>>
  BY DEF DecodeInv, TryDequeueNextPath
<1>2. PICK path : path = Head(pathRemains)
  OBVIOUS
<1>3. /\ pathRemains' \in Seq(Paths) /\ Len(pathRemains) \in Nat /\ Len(pathRemains) > 0
      /\ DOMAIN pathRemains = 1 .. Len(pathRemains) /\ DOMAIN pathRemains' = 1 .. Len(pathRemains) - 1
      /\ \A i \in DOMAIN pathRemains' :
           i + 1 \in DOMAIN pathRemains /\ pathRemains'[i] = pathRemains[i + 1]
      /\ path \in Paths /\ path = pathRemains[1] /\ 1 \in DOMAIN pathRemains
  <2>1. pathRemains \in Seq(Paths)
    BY <1>1 DEF DecodeTypes
  <2>2. /\ pathRemains' \in Seq(Paths) /\ Len(pathRemains') = Len(pathRemains) - 1
        /\ \A i \in 1 .. Len(pathRemains') : pathRemains'[i] = pathRemains[i + 1]
        /\ path \in Paths
    BY <2>1, <1>1, <1>2, HeadTailProperties
  <2>3. Len(pathRemains) \in Nat /\ Len(pathRemains) > 0 /\ path = pathRemains[1]
    BY <2>1, <1>1, <1>2, EmptySeq
  <2>4. DOMAIN pathRemains = 1 .. Len(pathRemains) /\ DOMAIN pathRemains' = 1 .. Len(pathRemains) - 1
    BY <2>1, <2>2, LenProperties
  <2> QED BY <2>2, <2>3, <2>4
<1>4. /\ path.offset \in Offsets /\ path.slots \in Stacks
      /\ Len(path.slots) <= Len(stackList) /\ Len(path.slots) <= MaxDepth
  BY <1>1, <1>3 DEF DecodeTypes, Paths
<1>5. \/ /\ Decoded(path.offset)
         /\ UNCHANGED <<phase, stackList, stackPointer, nextOffset, prefixCode>>
      \/ /\ stackPointer' = Len(path.slots) /\ stackList' = Restored(stackList, path.slots)
         /\ nextOffset' = path.offset /\ prefixCode' = NoOffset /\ phase' = "move"
  BY <1>2 DEF TryDequeueNextPath
<1>6. /\ stackList' \in Seq(Holders) /\ Len(stackList') = Len(stackList)
      /\ stackPointer' \in -1 .. Len(stackList') /\ stackPointer' <= MaxDepth
      /\ phase' = "move" => /\ stackPointer' >= 0 /\ Current' = path.slots
                            /\ nextOffset' = path.offset /\ prefixCode' = NoOffset
      /\ phase' \in {"dequeue", "move"} /\ (phase' = "dequeue" => Decoded(path.offset))
  <2>1. CASE UNCHANGED <<phase, stackList, stackPointer, nextOffset, prefixCode>>
             /\ Decoded(path.offset)
    BY <2>1, <1>1 DEF DecodeTypes
  <2>2. CASE /\ stackPointer' = Len(path.slots) /\ stackList' = Restored(stackList, path.slots)
             /\ nextOffset' = path.offset /\ prefixCode' = NoOffset /\ phase' = "move"
    <3>1. stackList \in Seq(Holders)
      BY <1>1 DEF DecodeTypes
    <3>2. stackList' \in Seq(Holders) /\ Len(stackList') = Len(stackList)
          /\ StackSnapshot(stackList', stackPointer') = path.slots
      BY <3>1, <2>2, <1>4, RestoredIs
    <3>3. Len(path.slots) \in Nat /\ Len(stackList) \in Nat
      BY <3>1, <1>4, StackIs, LenProperties
    <3> QED BY <3>2, <3>3, <2>2, <1>4 DEF Current
  <2> QED BY <1>5, <2>1, <2>2
<1>7. DecodeTypes'
  <2>1. \A i \in DOMAIN pathRemains' :
          Len(pathRemains'[i].slots) <= Len(stackList') /\ Len(pathRemains'[i].slots) <= MaxDepth
    BY <1>1, <1>3, <1>6 DEF DecodeTypes
  <2>2. phase' = "move" => nextOffset' \in 1 .. Length + 1
    BY <1>4, <1>6, DecodeAssumption DEF Offsets
  <2>3. phase' = "move" => Current' \in Stacks
    BY <1>4, <1>6
  <2> QED BY <1>1, <1>3, <1>6, <2>1, <2>2, <2>3 DEF DecodeTypes
<1>8. Fetched'
  BY <1>1, <1>6 DEF Fetched, Decoded, EmittedAt, EmitterOf
<1>9. Kept /\ Len(emitters) \in Nat /\ DOMAIN emitters = 1 .. Len(emitters)
  BY <1>1, LenProperties DEF Kept, DecodeTypes
<1>10. Justified'
  <2>1. \A i \in DOMAIN pathRemains' :
          Origin(pathRemains'[i].offset, pathRemains'[i].slots, Len(emitters))
    BY <1>1, <1>3 DEF Justified
  <2>2. Origin(path.offset, path.slots, Len(emitters))
    BY <1>1, <1>3 DEF Justified
  <2>3. phase' = "move" => Origin(nextOffset', Current', Len(emitters))
    BY <2>2, <1>6
  <2> QED BY <2>1, <2>3, <1>1, <1>6, <1>9, JustifiedStays
<1>11. Followed'
  <2>1. ASSUME NEW o, Awaited(o) PROVE Awaited(o)'
    <3>1. CASE Decoded(o)
      BY <3>1, <1>1 DEF Awaited, Decoded
    <3>2. ASSUME NEW i \in DOMAIN pathRemains, pathRemains[i].offset = o
          PROVE  Awaited(o)'
      <4>1. CASE i = 1
        <5>1. o = path.offset
          BY <3>2, <4>1, <1>3
        <5> QED BY <5>1, <1>6, <1>1 DEF Awaited, Decoded
      <4>2. CASE i # 1
        <5>1. PICK j \in DOMAIN pathRemains' : i = j + 1
          <6>1. i - 1 \in DOMAIN pathRemains' /\ i = (i - 1) + 1
            BY <1>3, <4>2
          <6> QED BY <6>1
        <5>2. pathRemains'[j].offset = o
          BY <5>1, <3>2, <1>3
        <5> QED BY <5>1, <5>2 DEF Awaited
      <4> QED BY <4>1, <4>2
    <3> QED BY <2>1, <3>1, <3>2, <1>1 DEF Awaited
  <2> QED BY <2>1, <1>1, <1>6, <1>9, FollowedStays
<1>12. Prefixed'
  BY <1>6 DEF Prefixed
<1>13. Caught' /\ Runs'
  BY <1>1, <1>6, DecodesOnly
<1> QED BY <1>7, <1>8, <1>10, <1>11, <1>12, <1>13 DEF DecodeInv

\* A step that changes only where the decoder goes next.
LEMMA TurnStep ==
  ASSUME DecodeInv,
         UNCHANGED <<handlers, code, stackList, stackPointer, snapshots, pathRemains, labelNames,
                     catchVariables, continuations, emitters, execution>>,
         \/ phase = "dequeue" /\ phase' = "done" /\ pathRemains = <<>>
         \/ phase = "move" /\ phase' = "dequeue" /\ Decoded(nextOffset)
         \/ phase = "prepare" /\ phase' = "refused"
  PROVE  DecodeInv'
<1>1. /\ DecodeTypes /\ Fetched /\ Justified /\ Followed /\ Prefixed /\ Caught /\ Runs
      /\ phase # "run" /\ phase' \in {"dequeue", "done", "refused"}
  BY DEF DecodeInv
<1>2. DecodeTypes'
  BY <1>1 DEF DecodeTypes
<1>3. Fetched'
  BY <1>1 DEF Fetched, Decoded, EmittedAt, EmitterOf
<1>4. Kept
  BY <1>1, LenProperties DEF Kept, DecodeTypes
<1>5. Justified'
  <2>1. \A i \in DOMAIN pathRemains' :
          Origin(pathRemains'[i].offset, pathRemains'[i].slots, Len(emitters))
    BY <1>1 DEF Justified
  <2> QED BY <2>1, <1>1, <1>4, JustifiedStays
<1>6. Followed'
  <2>1. ASSUME NEW o, Awaited(o) PROVE Awaited(o)'
    BY <2>1, <1>1 DEF Awaited, Decoded
  <2> QED BY <2>1, <1>1, <1>4, FollowedStays
<1>7. Prefixed'
  BY <1>1 DEF Prefixed
<1>8. Caught' /\ Runs'
  BY <1>1, DecodesOnly
<1> QED BY <1>2, <1>3, <1>5, <1>6, <1>7, <1>8 DEF DecodeInv

\* The next instruction is recorded with the stack it is decoded with.
LEMMA MoveNextStep == DecodeInv /\ MoveNext => DecodeInv'
<1> SUFFICES ASSUME DecodeInv, MoveNext PROVE DecodeInv'
  OBVIOUS
<1>1. /\ DecodeTypes /\ Fetched /\ Justified /\ Followed /\ Prefixed /\ Caught /\ Runs
      /\ phase = "move" /\ ~Decoded(nextOffset)
      /\ UNCHANGED <<handlers, stackList, stackPointer, pathRemains, labelNames,
                     catchVariables, continuations, emitters, execution>>
  BY DEF DecodeInv, MoveNext
<1>2. PICK n \in 1 .. Length + 1 : n = nextOffset
  BY <1>1 DEF DecodeTypes
<1>3. PICK s \in Stacks : s = Current
  BY <1>1 DEF DecodeTypes
<1>4. /\ DOMAIN snapshots' = DOMAIN snapshots \cup {n} /\ snapshots'[n] = s
      /\ \A o \in DOMAIN snapshots : snapshots'[o] = snapshots[o]
      /\ snapshots' \in [DOMAIN snapshots' -> Stacks] /\ n \notin DOMAIN snapshots
  <2>1. /\ snapshots' = [o \in DOMAIN snapshots \cup {n} |-> IF o = n THEN s ELSE snapshots[o]]
        /\ n \notin DOMAIN snapshots
    BY <1>1, <1>2, <1>3 DEF MoveNext, RecordSnapshot, Current, Decoded
  <2>2. snapshots \in [DOMAIN snapshots -> Stacks]
    BY <1>1 DEF DecodeTypes
  <2> QED BY <2>1, <2>2
<1>5. DOMAIN snapshots = EmittedAt /\ n \notin EmittedAt
  BY <1>1, <1>4 DEF Fetched
<1>6. code \in [Offsets -> Instructions \cup {None}] /\ Length \in Nat /\ Offsets = 1 .. Length
  BY <1>1, DecodeAssumption DEF DecodeTypes, Offsets
<1>7. \/ n > Length /\ phase' = "refused" /\ UNCHANGED <<code, currentCode, prefixCode, nextOffset>>
      \/ /\ n <= Length /\ phase' = "prepare"
         /\ currentCode' = n /\ nextOffset' = n + 1
         /\ prefixCode' = IF currentCode # prefixCode THEN NoOffset ELSE prefixCode
         /\ \E i \in Candidates(n) : code' = [code EXCEPT ![n] = i]
  BY <1>2, <1>6 DEF MoveNext
<1>8. /\ phase' \in {"refused", "prepare"} /\ (phase' = "prepare" => n \in Offsets)
      /\ code' \in [Offsets -> Instructions \cup {None}]
      /\ \A o \in Offsets : o # n => code'[o] = code[o]
      /\ n \in Offsets => /\ code'[n] \in Instructions /\ code'[n] # None
                          /\ code'[n].op \in {"push", "dup"} => stackPointer < MaxDepth
                          /\ code'[n].op = "leave" => stackPointer = 0
  <2>1. CASE n > Length
    BY <2>1, <1>6, <1>7
  <2>2. CASE n <= Length
    <3>1. PICK i \in Candidates(n) : code' = [code EXCEPT ![n] = i]
      BY <2>2, <1>2, <1>6, <1>7
    <3>2. n \in Offsets /\ code[n] = None
      BY <2>2, <1>2, <1>4, <1>6, <1>1 DEF Fetched, Decoded
    <3>3. /\ i \in Instructions /\ (i.op \in {"push", "dup"} => stackPointer < MaxDepth)
          /\ i.op = "leave" => stackPointer = 0
      BY <3>1, <3>2 DEF Candidates
    <3>4. i # None
      BY <3>3, InstructionIs
    <3> QED BY <3>1, <3>2, <3>3, <3>4, <2>2, <1>6, <1>7
  <2> QED BY <1>2, <1>6, <2>1, <2>2
<1>9. Current' = s
  BY <1>1, <1>3 DEF Current
<1>10. stackPointer \in Nat /\ DOMAIN snapshots' \subseteq 1 .. Length + 1
  BY <1>1, <1>2, <1>4 DEF DecodeTypes
<1>11. DecodeTypes'
  <2>1. phase' = "prepare" => currentCode' \in Offsets /\ nextOffset' = currentCode' + 1
    BY <1>7, <1>8
  <2> QED BY <2>1, <1>1, <1>4, <1>8, <1>9, <1>10 DEF DecodeTypes
<1>12. EmittedAt' = EmittedAt /\ EmittedAt \subseteq DOMAIN snapshots'
  BY <1>1, <1>4, <1>5 DEF EmittedAt
<1>13. Kept /\ Len(emitters) \in Nat /\ DOMAIN emitters = 1 .. Len(emitters)
  <2>1. \A o \in EmittedAt : o \in Offsets /\ o # n
    BY <1>1, <1>5, EmitterIs DEF EmittedAt
  <2> QED BY <2>1, <1>1, <1>4, <1>5, <1>8, LenProperties DEF Kept, DecodeTypes
<1>14. Fetched'
  <2>1. \A o \in Offsets : code'[o] # None <=> o \in DOMAIN snapshots'
    <3> SUFFICES ASSUME NEW o \in Offsets PROVE code'[o] # None <=> o \in DOMAIN snapshots'
      OBVIOUS
    <3>1. CASE o = n
      BY <3>1, <1>4, <1>8
    <3>2. CASE o # n
      BY <3>2, <1>1, <1>4, <1>8 DEF Fetched, Decoded
    <3> QED BY <3>1, <3>2
  <2>2. ASSUME NEW i \in DOMAIN emitters
        PROVE  EmitterOf(emitters[i], code[emitters[i].offset], snapshots[emitters[i].offset])'
    <3>1. PICK o : o = emitters[i].offset
      OBVIOUS
    <3>2. o \in EmittedAt /\ code'[o] = code[o] /\ snapshots'[o] = snapshots[o]
      BY <3>1, <1>13 DEF Kept, EmittedAt
    <3>3. EmitterOf(emitters[i], code[o], snapshots[o])
      BY <3>1, <1>1 DEF Fetched
    <3> QED BY <3>1, <3>2, <3>3, <1>1 DEF EmitterOf
  <2>3. \A i, j \in DOMAIN emitters' : emitters'[i].offset = emitters'[j].offset => i = j
    BY <1>1 DEF Fetched
  <2>4. phase' = "prepare" =>
          /\ DOMAIN snapshots' = EmittedAt' \cup {currentCode'} /\ currentCode' \notin EmittedAt'
          /\ snapshots'[currentCode'] = Current'
          /\ code'[currentCode'].op \in {"push", "dup"} => stackPointer' < MaxDepth
          /\ code'[currentCode'].op = "leave" => stackPointer' = 0
    BY <1>1, <1>4, <1>5, <1>7, <1>8, <1>9, <1>12
  <2> QED BY <2>1, <2>2, <2>3, <2>4, <1>1, <1>8, <1>12 DEF Fetched, Decoded
<1>15. Justified'
  <2>1. \A i \in DOMAIN pathRemains' :
          Origin(pathRemains'[i].offset, pathRemains'[i].slots, Len(emitters))
    BY <1>1 DEF Justified
  <2>2. Origin(n, s, Len(emitters))
    BY <1>1, <1>2, <1>3 DEF Justified
  <2>3. phase' = "prepare" => Origin(currentCode', Current', Len(emitters))
    BY <2>2, <1>7, <1>9
  <2> QED BY <2>1, <2>3, <1>1, <1>8, <1>13, JustifiedStays
<1>16. Followed'
  <2>1. ASSUME NEW o, Awaited(o) PROVE Awaited(o)'
    BY <2>1, <1>1, <1>2, <1>4 DEF Awaited, Decoded
  <2> QED BY <2>1, <1>1, <1>8, <1>13, FollowedStays
<1>17. Prefixed'
  <2> SUFFICES ASSUME phase' = "prepare", prefixCode' # NoOffset
               PROVE  /\ prefixCode' = currentCode' - 1 /\ prefixCode' \in Offsets
                      /\ code'[prefixCode'].op = "prefix"
    BY <1>8 DEF Prefixed
  <2>1. currentCode' = n /\ currentCode = prefixCode /\ prefixCode' = prefixCode
    BY <1>7
  <2>2. n = currentCode + 1 /\ currentCode \in Offsets /\ code[currentCode].op = "prefix"
    BY <2>1, <1>1, <1>2 DEF Prefixed
  <2>3. prefixCode' # n /\ prefixCode' \in Offsets
    BY <2>1, <2>2, <1>6
  <2> QED BY <2>1, <2>2, <2>3, <1>6, <1>8
<1>18. Caught' /\ Runs'
  BY <1>1, <1>8, DecodesOnly
<1> QED BY <1>11, <1>14, <1>15, <1>16, <1>17, <1>18 DEF DecodeInv

-----------------------------------------------------------------------------
IsJump(i) == i.op \in {"br", "brtrue", "leave"}

\* An instruction is emitted: what its action has to show.
LEMMA EmitStep ==
  ASSUME DecodeInv, phase = "prepare",
         NEW c \in Offsets, c = currentCode, NEW i \in Instructions, i = code[c],
         NEW s \in Stacks, s = Current, Len(s) >= Pops(i), Len(s) <= MaxDepth,
         phase' = IF IsEndOfPath(i) THEN "dequeue" ELSE "move",
         UNCHANGED <<handlers, code, nextOffset, currentCode, snapshots, catchVariables, execution>>,
         NEW e \in Emitters, emitters' = Append(emitters, e), e.offset = c, e.op = i.op,
         e.read = Reads(s, i), e.written = Writes(s, i),
         labelNames \subseteq labelNames', labelNames' \subseteq Offsets,
         i.op \in {"br", "brtrue"} => e.label = i.target /\ e.label \in labelNames',
         i.op \notin {"br", "brtrue"} => e.label = NoOffset,
         continuations' \in Seq(Offsets),
         \A k \in DOMAIN continuations :
           k \in DOMAIN continuations' /\ continuations'[k] = continuations[k],
         i.op = "leave" => e.index \in DOMAIN continuations' /\ continuations'[e.index] = i.target,
         stackList' \in Seq(Holders), Len(stackList) <= Len(stackList'),
         stackPointer' \in 0 .. Len(stackList'), Current' = Out(s, i),
         IF IsJump(i) THEN pathRemains' = Append(pathRemains, Path(i.target, Out(s, i)))
                     ELSE pathRemains' = pathRemains,
         prefixCode' = prefixCode \/ (i.op = "prefix" /\ prefixCode' = c)
  PROVE  DecodeInv'
<1>1. /\ DecodeTypes /\ Fetched /\ Justified /\ Followed /\ Prefixed /\ Caught /\ Runs
      /\ phase # "run" /\ phase' \in {"dequeue", "move"}
  BY DEF DecodeInv
<1>2. /\ DOMAIN snapshots = EmittedAt \cup {c} /\ c \notin EmittedAt /\ snapshots[c] = s
      /\ i.op \in {"push", "dup"} => Len(s) < MaxDepth
      /\ i.op = "leave" => s = <<>>
      /\ nextOffset = c + 1
  <2>1. stackPointer \in Nat
    BY <1>1 DEF DecodeTypes
  <2>2. Len(s) = stackPointer
    BY <2>1, SnapshotIs DEF Current
  <2> QED BY <2>1, <2>2, <1>1, StackIs DEF Fetched, DecodeTypes
<1>3. /\ Len(emitters) \in Nat /\ DOMAIN emitters = 1 .. Len(emitters)
      /\ DOMAIN emitters' = 1 .. Len(emitters) + 1 /\ Len(emitters') = Len(emitters) + 1
      /\ emitters' \in Seq(Emitters) /\ emitters'[Len(emitters) + 1] = e
      /\ \A k \in 1 .. Len(emitters) : emitters'[k] = emitters[k]
  <2>1. emitters \in Seq(Emitters)
    BY <1>1 DEF DecodeTypes
  <2> QED BY <2>1, AppendProperties, LenProperties
<1>4. Kept
  BY <1>1, <1>3 DEF Kept
<1>5. /\ Out(s, i) \in Stacks /\ Len(Out(s, i)) <= MaxDepth
      /\ Len(Out(s, i)) = stackPointer'
  <2>1. Len(Current') = stackPointer'
    BY SnapshotIs, LenProperties DEF Current
  <2> QED BY <2>1, <1>2, OutIs
<1>6. /\ IsJump(i) => i.target \in Offsets
      /\ pathRemains' \in Seq(Paths)
      /\ \A k \in DOMAIN pathRemains : k \in DOMAIN pathRemains' /\ pathRemains'[k] = pathRemains[k]
      /\ \A k \in DOMAIN pathRemains' :
           k \in DOMAIN pathRemains \/ (IsJump(i) /\ pathRemains'[k] = Path(i.target, Out(s, i)))
      /\ IsJump(i) => \E k \in DOMAIN pathRemains' : pathRemains'[k] = Path(i.target, Out(s, i))
  <2>1. pathRemains \in Seq(Paths)
    BY <1>1 DEF DecodeTypes
  <2>2. IsJump(i) => i.target \in Offsets
    BY InstructionIs DEF IsJump
  <2>3. CASE ~IsJump(i)
    BY <2>1, <2>3
  <2>4. CASE IsJump(i)
    <3>1. PICK q \in Paths : q = Path(i.target, Out(s, i))
      BY <2>2, <2>4, <1>5 DEF Path, Paths
    <3>2. pathRemains' = Append(pathRemains, q)
      BY <2>4, <3>1
    <3>3. Len(pathRemains) \in Nat /\ DOMAIN pathRemains = 1 .. Len(pathRemains)
      BY <2>1, LenProperties
    <3>4. /\ pathRemains' \in Seq(Paths) /\ DOMAIN pathRemains' = 1 .. Len(pathRemains) + 1
          /\ \A k \in 1 .. Len(pathRemains) : pathRemains'[k] = pathRemains[k]
          /\ pathRemains'[Len(pathRemains) + 1] = q
      BY <2>1, <3>2, AppendProperties, LenProperties
    <3>5. \A k \in DOMAIN pathRemains' : k \in DOMAIN pathRemains \/ k = Len(pathRemains) + 1
      BY <3>3, <3>4
    <3>6. Len(pathRemains) + 1 \in DOMAIN pathRemains'
      BY <3>3, <3>4
    <3> QED BY <2>2, <2>4, <3>1, <3>3, <3>4, <3>5, <3>6
  <2> QED BY <2>3, <2>4
<1>7. DecodeTypes'
  <2>1. ASSUME NEW k \in DOMAIN pathRemains'
        PROVE  /\ Len(pathRemains'[k].slots) <= Len(stackList')
               /\ Len(pathRemains'[k].slots) <= MaxDepth
    <3>1. CASE k \in DOMAIN pathRemains
      <4>1. /\ pathRemains[k] \in Paths /\ pathRemains'[k] = pathRemains[k]
            /\ Len(pathRemains[k].slots) <= Len(stackList) /\ Len(pathRemains[k].slots) <= MaxDepth
        BY <3>1, <1>1, <1>6, LenProperties, ElementOfSeq DEF DecodeTypes
      <4>2. Len(pathRemains[k].slots) \in Nat /\ Len(stackList) \in Nat /\ Len(stackList') \in Nat
        BY <4>1, <1>1, StackIs, LenProperties DEF Paths, DecodeTypes
      <4> QED BY <4>1, <4>2
    <3>2. CASE pathRemains'[k] = Path(i.target, Out(s, i))
      BY <3>2, <1>5 DEF Path
    <3> QED BY <3>1, <3>2, <1>6
  <2>2. stackPointer' \in -1 .. Len(stackList') /\ stackPointer' <= MaxDepth /\ stackPointer' >= 0
    BY <1>5, LenProperties
  <2>3. Current' \in Stacks
    BY <1>5
  <2>4. nextOffset' \in 1 .. Length + 1
    BY <1>2, DecodeAssumption DEF Offsets
  <2> QED BY <2>1, <2>2, <2>3, <2>4, <1>1, <1>3, <1>6 DEF DecodeTypes
<1>8. EmittedAt' = EmittedAt \cup {c}
  <2>1. ASSUME NEW o \in EmittedAt' PROVE o \in EmittedAt \cup {c}
    BY <1>3 DEF EmittedAt
  <2>2. ASSUME NEW o \in EmittedAt PROVE o \in EmittedAt'
    <3>1. PICK k \in DOMAIN emitters : o = emitters[k].offset
      BY DEF EmittedAt
    <3>2. k \in DOMAIN emitters' /\ emitters'[k] = emitters[k]
      BY <3>1, <1>3
    <3> QED BY <3>1, <3>2 DEF EmittedAt
  <2>3. c \in EmittedAt'
    <3>1. Len(emitters) + 1 \in DOMAIN emitters'
      BY <1>3
    <3> QED BY <3>1, <1>3 DEF EmittedAt
  <2> QED BY <2>1, <2>2, <2>3
<1>9. Fetched'
  <2>1. ASSUME NEW k \in DOMAIN emitters'
        PROVE  EmitterOf(emitters[k], code[emitters[k].offset], snapshots[emitters[k].offset])'
    <3>1. CASE k \in DOMAIN emitters
      <4>1. emitters'[k] = emitters[k]
            /\ EmitterOf(emitters[k], code[emitters[k].offset], snapshots[emitters[k].offset])
        BY <3>1, <1>1, <1>3 DEF Fetched
      <4> QED BY <4>1 DEF EmitterOf
    <3>2. CASE k = Len(emitters) + 1
      <4>1. emitters'[k] = e /\ code'[c] = i /\ snapshots'[c] = s
        BY <3>2, <1>2, <1>3
      <4>2. EmitterOf(e, i, s)'
        BY <1>2 DEF EmitterOf
      <4> QED BY <4>1, <4>2
    <3> QED BY <3>1, <3>2, <1>3
  <2>2. ASSUME NEW j \in DOMAIN emitters', NEW k \in DOMAIN emitters',
               emitters'[j].offset = emitters'[k].offset
        PROVE  j = k
    <3>1. \A n \in DOMAIN emitters : emitters'[n] = emitters[n] /\ emitters[n].offset # c
      BY <1>2, <1>3 DEF EmittedAt
    <3>2. \A n \in DOMAIN emitters' : n \in DOMAIN emitters \/ n = Len(emitters) + 1
      BY <1>3
    <3> QED BY <2>2, <3>1, <3>2, <1>1, <1>3 DEF Fetched
  <2> QED BY <2>1, <2>2, <1>1, <1>2, <1>8 DEF Fetched, Decoded
<1>10. PICK last : last = Len(emitters) + 1
  OBVIOUS
<1>11. ASSUME NEW o, NEW r, Leads(c, o, r)
       PROVE  Origin(o, r, last)'
  <2>1. Leads(c, o, r)'
    BY <1>11 DEF Leads, Successors
  <2>2. emitters'[last].offset = c /\ last \in 1 .. last
    BY <1>10, <1>3
  <2>3. Leads(emitters[last].offset, o, r)'
    BY <2>1, <2>2
  <2> QED BY <2>2, <2>3 DEF Origin
<1>12. ASSUME NEW o, NEW r, NEW n \in Nat, n <= Len(emitters), Origin(o, r, n)
       PROVE  Origin(o, r, n)' /\ Origin(o, r, last)'
  <2>1. Origin(o, r, n)'
    BY <1>12, <1>1, <1>4, OriginStays
  <2>2. 1 .. n \subseteq 1 .. last
    BY <1>10, <1>3, <1>12
  <2> QED BY <2>1, <2>2 DEF Origin
<1>13. IsJump(i) => Leads(c, i.target, Out(s, i))
  BY <1>2 DEF IsJump, Leads, Successors
<1>14. ~IsEndOfPath(i) => Leads(c, c + 1, Out(s, i))
  BY <1>2 DEF Leads, Successors
<1>15. Justified'
  <2>1. ASSUME NEW k \in DOMAIN emitters'
        PROVE  Origin(emitters[k].offset, snapshots[emitters[k].offset], k - 1)'
    <3>1. CASE k \in DOMAIN emitters
      <4>1. PICK o, r : o = emitters[k].offset /\ r = snapshots[emitters[k].offset]
        OBVIOUS
      <4>2. k - 1 \in Nat /\ k - 1 <= Len(emitters)
        BY <3>1, <1>3
      <4>3. Origin(o, r, k - 1)
        BY <3>1, <4>1, <1>1 DEF Justified
      <4>4. PICK n : n = k - 1
        OBVIOUS
      <4>5. Origin(o, r, n)'
        BY <4>2, <4>3, <4>4, <1>12
      <4>6. emitters'[k].offset = o /\ snapshots'[emitters'[k].offset] = r
        BY <3>1, <4>1, <1>3
      <4> QED BY <4>4, <4>5, <4>6
    <3>2. CASE k = Len(emitters) + 1
      <4>1. PICK n : n = Len(emitters)
        OBVIOUS
      <4>2. Origin(c, s, n)
        BY <4>1, <1>1 DEF Justified
      <4>3. Origin(c, s, n)'
        BY <4>1, <4>2, <1>3, <1>12
      <4>4. k - 1 = n /\ emitters'[k].offset = c /\ snapshots'[c] = s
        BY <3>2, <4>1, <1>2, <1>3
      <4> QED BY <4>3, <4>4
    <3> QED BY <3>1, <3>2, <1>3
  <2>2. ASSUME NEW k \in DOMAIN pathRemains'
        PROVE  Origin(pathRemains[k].offset, pathRemains[k].slots, Len(emitters))'
    <3>1. PICK o, r, n : o = pathRemains'[k].offset /\ r = pathRemains'[k].slots /\ n = Len(emitters')
      OBVIOUS
    <3>2. CASE k \in DOMAIN pathRemains
      <4>1. Origin(o, r, Len(emitters))
        BY <3>1, <3>2, <1>1, <1>6 DEF Justified
      <4> QED BY <4>1, <3>1, <1>10, <1>3, <1>12
    <3>3. CASE IsJump(i) /\ pathRemains'[k] = Path(i.target, Out(s, i))
      <4>1. o = i.target /\ r = Out(s, i)
        BY <3>1, <3>3 DEF Path
      <4> QED BY <4>1, <3>1, <3>3, <1>10, <1>3, <1>11, <1>13
    <3> QED BY <3>2, <3>3, <1>6
  <2>3. ASSUME phase' = "move" PROVE Origin(nextOffset, Current, Len(emitters))'
    <3>1. PICK o, r, n : o = nextOffset' /\ r = Current' /\ n = Len(emitters')
      OBVIOUS
    <3>2. o = c + 1 /\ r = Out(s, i) /\ ~IsEndOfPath(i) /\ n = last
      BY <3>1, <2>3, <1>2, <1>3, <1>10
    <3>3. Origin(o, r, n)'
      BY <3>2, <1>11, <1>14
    <3> QED BY <3>1, <3>3
  <2> QED BY <2>1, <2>2, <2>3, <1>1 DEF Justified
<1>16. ASSUME NEW o, Awaited(o) PROVE Awaited(o)'
  BY <1>16, <1>1, <1>6 DEF Awaited, Decoded
<1>17. ASSUME NEW o \in Successors(c) PROVE Awaited(o)'
  <2>1. CASE IsJump(i) /\ o = i.target
    BY <2>1, <1>6 DEF Awaited, Path
  <2>2. CASE ~IsEndOfPath(i) /\ o = c + 1
    BY <2>2, <1>2 DEF Awaited
  <2> QED BY <2>1, <2>2, <1>17 DEF Successors, IsJump
<1>18. Followed'
  <2>1. ASSUME NEW k \in DOMAIN emitters', NEW o \in Successors(emitters[k].offset)'
        PROVE  Awaited(o)'
    <3>1. PICK p : p = emitters'[k].offset
      OBVIOUS
    <3>2. o \in Successors(p)
      BY <2>1, <3>1 DEF Successors
    <3>3. CASE k \in DOMAIN emitters
      BY <3>1, <3>2, <3>3, <1>1, <1>3, <1>16 DEF Followed
    <3>4. CASE k = Len(emitters) + 1
      BY <3>1, <3>2, <3>4, <1>3, <1>17
    <3> QED BY <3>3, <3>4, <1>3
  <2>2. Awaited(1)'
    BY <1>1, <1>16 DEF Followed
  <2>3. ASSUME NEW j \in DOMAIN handlers' PROVE Awaited(handlers[j].start)'
    <3>1. PICK o : o = handlers[j].start /\ o = handlers'[j].start
      OBVIOUS
    <3>2. Awaited(o)
      BY <3>1, <1>1 DEF Followed
    <3> QED BY <3>1, <3>2, <1>16
  <2> QED BY <2>1, <2>2, <2>3, <1>1 DEF Followed
<1>19. Prefixed'
  <2> SUFFICES ASSUME phase' = "move", prefixCode' # NoOffset, currentCode' = prefixCode'
               PROVE  /\ nextOffset' = currentCode' + 1 /\ currentCode' \in Offsets
                      /\ code'[currentCode'].op = "prefix"
    BY <1>1 DEF Prefixed
  <2>1. CASE prefixCode' = prefixCode
    <3>1. prefixCode = currentCode - 1
      BY <2>1, <1>1 DEF Prefixed
    <3>2. c - 1 # c
      BY DEF Offsets
    <3> QED BY <2>1, <3>1, <3>2
  <2>2. CASE i.op = "prefix" /\ prefixCode' = c
    BY <2>2, <1>2
  <2> QED BY <2>1, <2>2
<1>20. Caught' /\ Runs'
  BY <1>1, DecodesOnly
<1> QED BY <1>7, <1>9, <1>15, <1>18, <1>19, <1>20 DEF DecodeInv

-----------------------------------------------------------------------------
\* The stacks that an instruction leaves.
LEMMA PushStackIs ==
  ASSUME NEW list \in Seq(Holders), NEW p \in 0 .. Len(list), NEW t \in EntryTypes,
         NEW s \in Stacks, s = StackSnapshot(list, p), p < MaxDepth
  PROVE  /\ PushStack(list, p, t) \in Seq(Holders)
         /\ Len(list) <= Len(PushStack(list, p, t)) /\ p + 1 <= Len(PushStack(list, p, t))
         /\ StackSnapshot(PushStack(list, p, t), p + 1) = Append(s, <<p + 1, t>>)
<1> DEFINE longer == IF p >= Len(list) THEN Append(list, Holder) ELSE list
           new == PushStack(list, p, t)
<1>1. Len(list) \in Nat /\ p \in Nat /\ Holder \in Holders
  BY LenProperties DEF Holder, Holders
<1>2. /\ longer \in Seq(Holders) /\ Len(list) <= Len(longer) /\ p + 1 <= Len(longer)
      /\ \A d \in 1 .. Len(list) : longer[d] = list[d]
  <2>1. CASE p >= Len(list)
    <3>1. /\ Append(list, Holder) \in Seq(Holders) /\ Len(Append(list, Holder)) = Len(list) + 1
          /\ \A d \in 1 .. Len(list) : Append(list, Holder)[d] = list[d]
      BY <1>1, AppendProperties
    <3> QED BY <2>1, <3>1, <1>1
  <2>2. CASE ~(p >= Len(list))
    BY <2>2, <1>1
  <2> QED BY <2>1, <2>2
<1>3. /\ new = [longer EXCEPT ![p + 1] = [types |-> longer[p + 1].types \cup {t}, selected |-> t]]
  BY DEF PushStack, GetOrAdd
<1> HIDE DEF longer, new
<1>4. /\ Len(longer) \in Nat /\ DOMAIN longer = 1 .. Len(longer) /\ p + 1 \in 1 .. Len(longer)
      /\ \A d \in 1 .. Len(longer) : longer[d] \in Holders
  BY <1>1, <1>2, LenProperties, ElementOfSeq
<1>5. [types |-> longer[p + 1].types \cup {t}, selected |-> t] \in Holders
  BY <1>4 DEF Holders
<1>6. new \in Seq(Holders) /\ Len(new) = Len(longer)
  BY <1>2, <1>3, <1>4, <1>5, ExceptSeq
<1>7. \A d \in 1 .. p : new[d] = list[d]
  BY <1>1, <1>2, <1>3, <1>4
<1>8. new[p + 1].selected = t
  BY <1>3, <1>4
<1>9. Len(s) = p /\ \A d \in 1 .. p : s[d] = <<d, list[d].selected>> /\ s[d][2] \in EntryTypes
  BY <1>1, SnapshotIs, StackIs
<1>10. /\ Append(s, <<p + 1, t>>) \in Stacks /\ Len(Append(s, <<p + 1, t>>)) = p + 1
       /\ \A d \in 1 .. p : Append(s, <<p + 1, t>>)[d] = s[d]
       /\ Append(s, <<p + 1, t>>)[p + 1] = <<p + 1, t>>
  BY <1>9, PushedIs
<1>11. ASSUME NEW d \in 1 .. p + 1
       PROVE  new[d].selected \in EntryTypes /\ <<d, new[d].selected>> = Append(s, <<p + 1, t>>)[d]
  <2>0. d = p + 1 \/ d \in 1 .. p
    BY <1>1
  <2>1. CASE d = p + 1
    BY <2>1, <1>8, <1>10
  <2>2. CASE d \in 1 .. p
    BY <2>2, <1>7, <1>9, <1>10
  <2> QED BY <2>0, <2>1, <2>2
<1>12. /\ StackSnapshot(new, p + 1) \in Stacks /\ Len(StackSnapshot(new, p + 1)) = p + 1
       /\ \A d \in 1 .. p + 1 : StackSnapshot(new, p + 1)[d] = <<d, new[d].selected>>
  <2>1. p + 1 \in Nat /\ p + 1 <= MaxDepth
    BY <1>1, DecodeAssumption
  <2> QED BY <2>1, <1>11, SnapshotIs
<1>13. StackSnapshot(new, p + 1) = Append(s, <<p + 1, t>>)
  BY <1>10, <1>11, <1>12, StacksEqual
<1> QED BY <1>2, <1>6, <1>13 DEF new

\* The stack below the topmost entry.
LEMMA PopStackIs ==
  ASSUME NEW list, NEW p \in Nat, p > 0, NEW s \in Stacks, s = StackSnapshot(list, p)
  PROVE  StackSnapshot(list, p - 1) = Front(s)
<1>1. PICK n \in Nat : n = p - 1
  OBVIOUS
<1>2. Len(s) = p /\ \A d \in 1 .. p : s[d] = <<d, list[d].selected>> /\ s[d] \in Slot
  BY SnapshotIs, StackIs
<1>3. Front(s) \in Stacks /\ Len(Front(s)) = n /\ \A d \in 1 .. n : Front(s)[d] = s[d]
  BY <1>1, <1>2, FrontIs
<1>4. Front(s) = [d \in 1 .. n |-> Front(s)[d]]
  <2>1. Front(s) \in [1 .. n -> Slot]
    BY <1>3, StackIs, LenProperties
  <2> QED BY <2>1
<1>5. StackSnapshot(list, n) = [d \in 1 .. n |-> <<d, list[d].selected>>]
  BY DEF StackSnapshot, GetCurrent
<1>6. \A d \in 1 .. n : Front(s)[d] = <<d, list[d].selected>>
  BY <1>1, <1>2, <1>3
<1> DEFINE f == Front(s)
<1> HIDE DEF f
<1>7. f = [d \in 1 .. n |-> <<d, list[d].selected>>]
  BY <1>4, <1>6 DEF f
<1> QED BY <1>1, <1>5, <1>7 DEF f

\* What is known when an instruction is prepared.
LEMMA PrepareIs ==
  ASSUME DecodeInv, phase = "prepare", stackPointer >= Pops(code[currentCode])
  PROVE  /\ currentCode \in Offsets /\ code[currentCode] \in Instructions
         /\ Current \in Stacks /\ Len(Current) = stackPointer /\ stackPointer \in Nat
         /\ stackPointer <= MaxDepth /\ stackPointer \in 0 .. Len(stackList)
         /\ stackList \in Seq(Holders) /\ continuations \in Seq(Offsets)
         /\ labelNames \subseteq Offsets
         /\ Pops(code[currentCode]) = 1 => stackPointer > 0 /\ Top = Current[stackPointer]
         /\ code[currentCode].op \in {"push", "dup"} => stackPointer < MaxDepth
         /\ code[currentCode].op = "leave" => stackPointer = 0
<1>1. DecodeTypes /\ Fetched
  BY DEF DecodeInv
<1>2. currentCode \in Offsets /\ Current \in Stacks /\ stackPointer \in Nat
  BY <1>1 DEF DecodeTypes
<1>3. Len(Current) = stackPointer
  BY <1>2, SnapshotIs DEF Current
<1>4. code[currentCode] \in Instructions
  BY <1>1, <1>2 DEF Fetched, Decoded, DecodeTypes
<1>5. ASSUME Pops(code[currentCode]) = 1 PROVE stackPointer > 0 /\ Top = Current[stackPointer]
  <2>1. stackPointer > 0 /\ stackPointer \in 1 .. stackPointer
    BY <1>2, <1>5
  <2> QED BY <2>1, <1>2, SnapshotIs DEF Current, Top, GetCurrent
<1> QED BY <1>1, <1>2, <1>3, <1>4, <1>5 DEF DecodeTypes, Fetched

\* The emitter that a converter makes.
LEMMA EmittedIs ==
  ASSUME NEW c, NEW read, NEW written, NEW label, NEW index, NEW e, NEW i, c = currentCode, i = code[c],
         c \in Offsets, i \in Instructions,
         read \in Slot \cup {NoSlot}, written \in Slot \cup {NoSlot},
         label \in Offsets \cup {NoOffset}, index \in Nat,
         emitters' = Emit(read, written, label, index),
         e = [offset |-> c, op |-> i.op, read |-> read, written |-> written,
              label |-> label, index |-> index]
  PROVE  /\ e \in Emitters /\ emitters' = Append(emitters, e)
         /\ e.offset = c /\ e.op = i.op /\ e.read = read /\ e.written = written
         /\ e.label = label /\ e.index = index
<1>1. i.op \in Ops
  BY InstructionIs
<1> QED BY <1>1 DEF Emit, Emitters

\* An instruction that does not jump and keeps the continuations.
LEMMA StraightStep ==
  ASSUME DecodeInv, NEW ops, Preparing(ops), ~IsJump(code[currentCode]),
         emitters' = Emit(Reads(Current, code[currentCode]), Writes(Current, code[currentCode]),
                          NoOffset, 0),
         stackList' \in Seq(Holders), Len(stackList) <= Len(stackList'),
         stackPointer' \in 0 .. Len(stackList'), Current' = Out(Current, code[currentCode]),
         UNCHANGED <<pathRemains, labelNames, continuations>>,
         \/ prefixCode' = prefixCode
         \/ code[currentCode].op = "prefix" /\ prefixCode' = currentCode
  PROVE  DecodeInv'
<1>1. /\ phase = "prepare" /\ stackPointer >= Pops(code[currentCode])
      /\ phase' = IF IsEndOfPath(code[currentCode]) THEN "dequeue" ELSE "move"
      /\ UNCHANGED <<handlers, code, nextOffset, currentCode, snapshots, catchVariables, execution>>
  BY DEF Preparing
<1>2. PICK c \in Offsets : c = currentCode
  BY <1>1, PrepareIs
<1>3. PICK i \in Instructions : i = code[c]
  BY <1>1, <1>2, PrepareIs
<1>4. PICK s \in Stacks : s = Current
  BY <1>1, PrepareIs
<1>5. /\ Len(s) >= Pops(i) /\ Len(s) <= MaxDepth /\ continuations \in Seq(Offsets)
      /\ labelNames \subseteq Offsets
      /\ i.op \in {"push", "dup"} => Len(s) < MaxDepth
  BY <1>1, <1>2, <1>3, <1>4, PrepareIs
<1>6. Reads(s, i) \in Slot \cup {NoSlot} /\ Writes(s, i) \in Slot \cup {NoSlot}
  BY <1>5, OutIs
<1>7. PICK e : e = [offset |-> c, op |-> i.op, read |-> Reads(s, i), written |-> Writes(s, i),
                    label |-> NoOffset, index |-> 0]
  OBVIOUS
<1>8. /\ e \in Emitters /\ emitters' = Append(emitters, e)
      /\ e.offset = c /\ e.op = i.op /\ e.read = Reads(s, i) /\ e.written = Writes(s, i)
      /\ e.label = NoOffset
  BY <1>2, <1>3, <1>4, <1>6, <1>7, EmittedIs
<1>9. i.op \notin {"br", "brtrue", "leave"} /\ ~IsJump(i)
  BY <1>2, <1>3 DEF IsJump
<1>10. \/ prefixCode' = prefixCode
       \/ i.op = "prefix" /\ prefixCode' = c
  BY <1>2, <1>3
<1>11. Current' = Out(s, i)
  BY <1>2, <1>3, <1>4
<1> QED BY <1>1, <1>2, <1>3, <1>4, <1>5, <1>8, <1>9, <1>10, <1>11, EmitStep

\* An instruction that queues the path of its target.
LEMMA JumpStep ==
  ASSUME DecodeInv, NEW ops, Preparing(ops), IsJump(code[currentCode]),
         NEW label \in Offsets \cup {NoOffset}, NEW index \in Nat,
         label = IF code[currentCode].op = "leave" THEN NoOffset ELSE code[currentCode].target,
         emitters' = Emit(Reads(Current, code[currentCode]), NoSlot, label, index),
         stackPointer' \in 0 .. Len(stackList), stackList' = stackList,
         Current' = Out(Current, code[currentCode]),
         pathRemains' = Append(pathRemains, Path(code[currentCode].target, Current')),
         labelNames' = labelNames \cup {code[currentCode].target},
         continuations' \in Seq(Offsets),
         \A k \in DOMAIN continuations :
           k \in DOMAIN continuations' /\ continuations'[k] = continuations[k],
         code[currentCode].op = "leave" =>
           index \in DOMAIN continuations' /\ continuations'[index] = code[currentCode].target,
         prefixCode' = prefixCode
  PROVE  DecodeInv'
<1>1. /\ phase = "prepare" /\ stackPointer >= Pops(code[currentCode])
      /\ phase' = IF IsEndOfPath(code[currentCode]) THEN "dequeue" ELSE "move"
      /\ UNCHANGED <<handlers, code, nextOffset, currentCode, snapshots, catchVariables, execution>>
  BY DEF Preparing
<1>2. PICK c \in Offsets : c = currentCode
  BY <1>1, PrepareIs
<1>3. PICK i \in Instructions : i = code[c]
  BY <1>1, <1>2, PrepareIs
<1>4. PICK s \in Stacks : s = Current
  BY <1>1, PrepareIs
<1>5. /\ Len(s) >= Pops(i) /\ Len(s) <= MaxDepth /\ stackList \in Seq(Holders)
      /\ labelNames \subseteq Offsets
  BY <1>1, <1>2, <1>3, <1>4, PrepareIs
<1>6. /\ i.op \in {"br", "brtrue", "leave"} /\ IsJump(i) /\ i.target \in Offsets
      /\ i.op \notin {"push", "dup", "prefix"}
  BY <1>2, <1>3, InstructionIs DEF IsJump
<1>7. Reads(s, i) \in Slot \cup {NoSlot} /\ Writes(s, i) = NoSlot
  BY <1>5, <1>6, OutIs
<1>8. PICK e : e = [offset |-> c, op |-> i.op, read |-> Reads(s, i), written |-> NoSlot,
                    label |-> label, index |-> index]
  OBVIOUS
<1>9. /\ e \in Emitters /\ emitters' = Append(emitters, e)
      /\ e.offset = c /\ e.op = i.op /\ e.read = Reads(s, i) /\ e.written = Writes(s, i)
      /\ e.label = label /\ e.index = index
  BY <1>2, <1>3, <1>4, <1>7, <1>8, EmittedIs
<1>10. /\ labelNames \subseteq labelNames' /\ labelNames' \subseteq Offsets
       /\ i.op \in {"br", "brtrue"} => e.label = i.target /\ e.label \in labelNames'
       /\ i.op \notin {"br", "brtrue"} => e.label = NoOffset
       /\ i.op = "leave" => e.index \in DOMAIN continuations' /\ continuations'[e.index] = i.target
  BY <1>2, <1>3, <1>5, <1>6, <1>9
<1>11. Current' = Out(s, i) /\ pathRemains' = Append(pathRemains, Path(i.target, Out(s, i)))
  BY <1>2, <1>3, <1>4
<1>12. stackList' \in Seq(Holders) /\ Len(stackList) <= Len(stackList')
       /\ stackPointer' \in 0 .. Len(stackList')
  BY <1>5, LenProperties
<1> QED BY <1>1, <1>2, <1>3, <1>4, <1>5, <1>6, <1>9, <1>10, <1>11, <1>12, EmitStep

-----------------------------------------------------------------------------
\* Push writes the slot above the topmost.
LEMMA PushStep == DecodeInv /\ Push => DecodeInv'
<1> SUFFICES ASSUME DecodeInv, Push PROVE DecodeInv'
  OBVIOUS
<1>1. PICK i : i = code[currentCode]
  OBVIOUS
<1>2. /\ Preparing({"push"}) /\ i.op = "push"
      /\ phase = "prepare" /\ stackPointer >= Pops(code[currentCode])
      /\ stackList' = PushStack(stackList, stackPointer, i.type)
      /\ stackPointer' = stackPointer + 1
      /\ emitters' = Emit(NoSlot, <<stackPointer + 1, i.type>>, NoOffset, 0)
      /\ UNCHANGED <<prefixCode, pathRemains, labelNames, continuations>>
  BY <1>1 DEF Push, Preparing
<1>3. PICK s \in Stacks : s = Current
  BY <1>2, PrepareIs
<1>4. /\ i \in Instructions /\ i.type \in EntryTypes /\ Pops(i) = 0 /\ ~IsJump(i)
      /\ Len(s) = stackPointer /\ stackPointer < MaxDepth /\ stackPointer \in 0 .. Len(stackList)
      /\ stackList \in Seq(Holders)
  BY <1>1, <1>2, <1>3, PrepareIs, InstructionIs DEF IsJump
<1>5. Reads(s, i) = NoSlot /\ Writes(s, i) = <<stackPointer + 1, i.type>>
      /\ Out(s, i) = Append(s, <<stackPointer + 1, i.type>>)
  BY <1>2, <1>4 DEF Reads, Writes, Out
<1>6. /\ stackList' \in Seq(Holders)
      /\ Len(stackList) <= Len(stackList') /\ stackPointer + 1 <= Len(stackList')
      /\ Current' = Append(s, <<stackPointer + 1, i.type>>)
  BY <1>2, <1>3, <1>4, PushStackIs DEF Current
<1>7. stackPointer' \in 0 .. Len(stackList')
  BY <1>2, <1>4, <1>6, LenProperties
<1> QED BY <1>1, <1>2, <1>3, <1>4, <1>5, <1>6, <1>7, StraightStep

\* Dup reads the topmost slot and writes the one above.
LEMMA DupStep == DecodeInv /\ Dup => DecodeInv'
<1> SUFFICES ASSUME DecodeInv, Dup PROVE DecodeInv'
  OBVIOUS
<1>1. PICK i, t : i = code[currentCode] /\ t = Top[2]
  OBVIOUS
<1>2. /\ Preparing({"dup"}) /\ i.op = "dup"
      /\ phase = "prepare" /\ stackPointer >= Pops(code[currentCode])
      /\ stackList' = PushStack(stackList, stackPointer, t)
      /\ stackPointer' = stackPointer + 1
      /\ emitters' = Emit(Top, <<stackPointer + 1, t>>, NoOffset, 0)
      /\ UNCHANGED <<prefixCode, pathRemains, labelNames, continuations>>
  BY <1>1 DEF Dup, Preparing
<1>3. PICK s \in Stacks : s = Current
  BY <1>2, PrepareIs
<1>4. /\ i \in Instructions /\ Pops(i) = 1 /\ ~IsJump(i)
      /\ Len(s) = stackPointer /\ stackPointer < MaxDepth /\ stackPointer \in 0 .. Len(stackList)
      /\ stackList \in Seq(Holders) /\ stackPointer > 0 /\ Top = s[stackPointer]
  BY <1>1, <1>2, <1>3, PrepareIs, InstructionIs DEF IsJump
<1>5. t \in EntryTypes
  <2>1. stackPointer \in 1 .. Len(s)
    BY <1>4
  <2> QED BY <2>1, <1>1, <1>4, StackIs
<1>6. Reads(s, i) = Top /\ Writes(s, i) = <<stackPointer + 1, t>>
      /\ Out(s, i) = Append(s, <<stackPointer + 1, t>>)
  BY <1>1, <1>2, <1>4 DEF Reads, Writes, Out
<1>7. /\ stackList' \in Seq(Holders)
      /\ Len(stackList) <= Len(stackList') /\ stackPointer + 1 <= Len(stackList')
      /\ Current' = Append(s, <<stackPointer + 1, t>>)
  BY <1>2, <1>3, <1>4, <1>5, PushStackIs DEF Current
<1>8. stackPointer' \in 0 .. Len(stackList')
  BY <1>2, <1>4, <1>7, LenProperties
<1> QED BY <1>1, <1>2, <1>3, <1>4, <1>6, <1>7, <1>8, StraightStep

\* Pop and throw read the topmost slot.
LEMMA PopStep == DecodeInv /\ Pop => DecodeInv'
<1> SUFFICES ASSUME DecodeInv, Pop PROVE DecodeInv'
  OBVIOUS
<1>1. PICK i : i = code[currentCode]
  OBVIOUS
<1>2. /\ Preparing({"pop", "throw"}) /\ i.op \in {"pop", "throw"}
      /\ phase = "prepare" /\ stackPointer >= Pops(code[currentCode])
      /\ stackPointer' = stackPointer - 1
      /\ emitters' = Emit(Top, NoSlot, NoOffset, 0)
      /\ UNCHANGED <<stackList, prefixCode, pathRemains, labelNames, continuations>>
  BY <1>1 DEF Pop, Preparing
<1>3. PICK s \in Stacks : s = Current
  BY <1>2, PrepareIs
<1>4. /\ i \in Instructions /\ Pops(i) = 1 /\ ~IsJump(i)
      /\ Len(s) = stackPointer /\ stackPointer \in 0 .. Len(stackList)
      /\ stackList \in Seq(Holders) /\ stackPointer > 0 /\ Top = s[stackPointer]
  BY <1>1, <1>2, <1>3, PrepareIs, InstructionIs DEF IsJump
<1>5. Reads(s, i) = Top /\ Writes(s, i) = NoSlot /\ Out(s, i) = Front(s)
  BY <1>2, <1>4 DEF Reads, Writes, Out
<1>6. Current' = Front(s) /\ stackPointer' \in 0 .. Len(stackList') /\ Len(stackList) <= Len(stackList')
  BY <1>2, <1>3, <1>4, LenProperties, PopStackIs DEF Current
<1> QED BY <1>1, <1>2, <1>3, <1>4, <1>5, <1>6, StraightStep

\* What neither reads nor writes a slot.
LEMMA QuietStep ==
  ASSUME DecodeInv, NEW ops, Preparing(ops), ops \subseteq {"ret", "endfinally", "prefix"},
         emitters' = Emit(NoSlot, NoSlot, NoOffset, 0),
         UNCHANGED <<stackList, stackPointer, pathRemains, labelNames, continuations>>,
         \/ prefixCode' = prefixCode
         \/ code[currentCode].op = "prefix" /\ prefixCode' = currentCode
  PROVE  DecodeInv'
<1>1. PICK i : i = code[currentCode]
  OBVIOUS
<1>2. /\ i.op \in {"ret", "endfinally", "prefix"}
      /\ phase = "prepare" /\ stackPointer >= Pops(code[currentCode])
  BY <1>1 DEF Preparing
<1>3. PICK s \in Stacks : s = Current
  BY <1>2, PrepareIs
<1>4. /\ i \in Instructions /\ Pops(i) = 0 /\ ~IsJump(i)
      /\ stackPointer \in 0 .. Len(stackList) /\ stackList \in Seq(Holders)
  BY <1>1, <1>2, PrepareIs, InstructionIs DEF IsJump
<1>5. Reads(s, i) = NoSlot /\ Writes(s, i) = NoSlot /\ Out(s, i) = s
  BY <1>2, <1>4 DEF Reads, Writes, Out
<1>6. Current' = s /\ stackPointer' \in 0 .. Len(stackList') /\ Len(stackList) <= Len(stackList')
  BY <1>3, <1>4, LenProperties DEF Current
<1> QED BY <1>1, <1>3, <1>4, <1>5, <1>6, StraightStep

\* Ret, endfinally and a prefix touch no slot.
LEMMA EndStep == DecodeInv /\ (End \/ SetPrefixCode) => DecodeInv'
<1>1. ASSUME DecodeInv, End PROVE DecodeInv'
  BY <1>1, QuietStep DEF End
<1>2. ASSUME DecodeInv, SetPrefixCode PROVE DecodeInv'
  <2>1. code[currentCode].op = "prefix"
    BY <1>2 DEF SetPrefixCode, Preparing
  <2> QED BY <2>1, <1>2, QuietStep DEF SetPrefixCode
<1> QED BY <1>1, <1>2

\* A branch queues its target with the stack that it leaves.
LEMMA BrStep == DecodeInv /\ (Br \/ Brtrue) => DecodeInv'
<1> SUFFICES ASSUME DecodeInv, Br \/ Brtrue PROVE DecodeInv'
  OBVIOUS
<1>1. PICK i : i = code[currentCode]
  OBVIOUS
<1>2. /\ Preparing({"br", "brtrue"}) /\ i.op \in {"br", "brtrue"}
      /\ phase = "prepare" /\ stackPointer >= Pops(code[currentCode])
      /\ UNCHANGED <<stackList, prefixCode, continuations>>
      /\ labelNames' = labelNames \cup {i.target}
  BY <1>1 DEF Br, Brtrue, Preparing, EnqueueNewPath
<1>3. PICK s \in Stacks : s = Current
  BY <1>2, PrepareIs
<1>4. /\ i \in Instructions /\ i.target \in Offsets /\ IsJump(i) /\ i.op # "leave"
      /\ Len(s) = stackPointer /\ stackPointer \in 0 .. Len(stackList) /\ stackPointer \in Nat
      /\ stackList \in Seq(Holders) /\ continuations \in Seq(Offsets)
  BY <1>1, <1>2, <1>3, PrepareIs, InstructionIs DEF IsJump
<1>5. /\ emitters' = Emit(Reads(s, i), NoSlot, i.target, 0) /\ Current' = Out(s, i)
      /\ pathRemains' = Append(pathRemains, Path(i.target, Current'))
      /\ stackPointer' \in 0 .. Len(stackList)
  <2>1. CASE Br
    <3>1. Pops(i) = 0 /\ i.op = "br"
      BY <1>1, <1>4, <2>1, InstructionIs DEF Br, Preparing
    <3>2. Reads(s, i) = NoSlot /\ Out(s, i) = s
      BY <3>1 DEF Reads, Out
    <3>3. Current' = s
      BY <2>1, <1>2, <1>3 DEF Br, Current
    <3> QED BY <3>2, <3>3, <2>1, <1>1, <1>2, <1>3, <1>4 DEF Br, EnqueueNewPath, Current
  <2>2. CASE Brtrue
    <3>1. Pops(i) = 1 /\ i.op = "brtrue"
      BY <1>1, <1>4, <2>2, InstructionIs DEF Brtrue, Preparing
    <3>2. stackPointer > 0 /\ Top = s[stackPointer] /\ stackPointer' = stackPointer - 1
      BY <3>1, <2>2, <1>1, <1>2, <1>3, PrepareIs DEF Brtrue
    <3>3. Reads(s, i) = Top /\ Out(s, i) = Front(s)
      BY <3>1, <3>2, <1>4 DEF Reads, Out
    <3>4. Current' = Front(s) /\ Current' = StackSnapshot(stackList, stackPointer - 1)
      BY <3>2, <1>2, <1>3, <1>4, PopStackIs DEF Current
    <3>5. stackPointer' \in 0 .. Len(stackList)
      BY <3>2, <1>4, LenProperties
    <3> QED BY <3>3, <3>4, <3>5, <2>2, <1>1 DEF Brtrue, EnqueueNewPath
  <2> QED BY <2>1, <2>2
<1> QED BY <1>1, <1>2, <1>3, <1>4, <1>5, JumpStep

\* The table of continuations keeps what it has and gets the target.
LEMMA ContinuationIs ==
  ASSUME continuations \in Seq(Offsets), NEW target \in Offsets, NEW table,
         table = RegisterLeaveContinuation(target), NEW n, n = ContinuationIndex(table, target)
  PROVE  /\ table \in Seq(Offsets)
         /\ \A k \in DOMAIN continuations : k \in DOMAIN table /\ table[k] = continuations[k]
         /\ n \in DOMAIN table /\ table[n] = target /\ n \in Nat
<1>1. Len(continuations) \in Nat /\ DOMAIN continuations = 1 .. Len(continuations)
  BY LenProperties
<1>2. /\ table \in Seq(Offsets) /\ \E k \in DOMAIN table : table[k] = target
      /\ \A k \in DOMAIN continuations : k \in DOMAIN table /\ table[k] = continuations[k]
  <2>1. CASE Contains(continuations, target)
    BY <2>1, <1>1 DEF Contains, RegisterLeaveContinuation
  <2>2. CASE ~Contains(continuations, target)
    <3>1. table = Append(continuations, target)
      BY <2>2 DEF RegisterLeaveContinuation
    <3>2. /\ table \in Seq(Offsets) /\ DOMAIN table = 1 .. Len(continuations) + 1
          /\ table[Len(continuations) + 1] = target
          /\ \A k \in 1 .. Len(continuations) : table[k] = continuations[k]
      BY <3>1, AppendProperties, LenProperties
    <3>3. Len(continuations) + 1 \in DOMAIN table
      BY <3>2, <1>1
    <3> QED BY <3>2, <3>3, <1>1
  <2> QED BY <2>1, <2>2
<1>3. n \in DOMAIN table /\ table[n] = target
  BY <1>2 DEF ContinuationIndex
<1>4. n \in Nat
  <2>1. DOMAIN table = 1 .. Len(table)
    BY <1>2, LenProperties
  <2> QED BY <2>1, <1>3
<1> QED BY <1>2, <1>3, <1>4

\* A leave queues its target and registers it.
LEMMA LeaveStep == DecodeInv /\ Leave => DecodeInv'
<1> SUFFICES ASSUME DecodeInv, Leave PROVE DecodeInv'
  OBVIOUS
<1>1. PICK i, target, table :
        /\ i = code[currentCode] /\ target = i.target /\ table = RegisterLeaveContinuation(target)
  OBVIOUS
<1>2. PICK n : n = ContinuationIndex(table, target)
  OBVIOUS
<1>3. /\ Preparing({"leave"}) /\ i.op = "leave"
      /\ phase = "prepare" /\ stackPointer >= Pops(code[currentCode])
      /\ UNCHANGED <<stackList, stackPointer, prefixCode>> /\ continuations' = table
      /\ labelNames' = labelNames \cup {target}
      /\ pathRemains' = Append(pathRemains, Path(target, StackSnapshot(stackList, stackPointer)))
      /\ emitters' = Emit(NoSlot, NoSlot, NoOffset, n)
  BY <1>1, <1>2 DEF Leave, Preparing, EnqueueNewPath
<1>4. PICK s \in Stacks : s = Current
  BY <1>3, PrepareIs
<1>5. /\ i \in Instructions /\ target \in Offsets /\ IsJump(i) /\ Pops(i) = 0
      /\ stackPointer \in 0 .. Len(stackList) /\ continuations \in Seq(Offsets)
  BY <1>1, <1>3, PrepareIs, InstructionIs DEF IsJump
<1>6. Reads(s, i) = NoSlot /\ Out(s, i) = s /\ Current' = s
  BY <1>3, <1>4, <1>5 DEF Reads, Out, Current
<1>7. /\ table \in Seq(Offsets)
      /\ \A k \in DOMAIN continuations : k \in DOMAIN table /\ table[k] = continuations[k]
      /\ n \in DOMAIN table /\ table[n] = target /\ n \in Nat
  <2>1. target \in Offsets /\ continuations \in Seq(Offsets)
    BY <1>5
  <2>2. table = RegisterLeaveContinuation(target)
    BY <1>1
  <2> QED BY ONLY <2>1, <2>2, <1>2, ContinuationIs
<1>8. pathRemains' = Append(pathRemains, Path(target, Current'))
  BY <1>3, <1>4, <1>6 DEF Current
<1> QED BY <1>1, <1>3, <1>4, <1>5, <1>6, <1>7, <1>8, JumpStep

-----------------------------------------------------------------------------
\* A step that executes leaves what was decoded.
LEMMA ExecuteStep ==
  ASSUME DecodeInv, phase \in {"done", "run"}, phase' = "run",
         UNCHANGED <<handlers, code, decoder>>, Runs'
  PROVE  DecodeInv'
<1>1. /\ DecodeTypes /\ Fetched /\ Justified /\ Followed /\ Caught
      /\ UNCHANGED <<handlers, code, stackList, stackPointer, nextOffset, currentCode, prefixCode,
                     snapshots, pathRemains, labelNames, catchVariables, continuations, emitters>>
  BY DEF DecodeInv, decoder
<1>2. DecodeTypes'
  BY <1>1 DEF DecodeTypes
<1>3. Fetched'
  BY <1>1 DEF Fetched, Decoded, EmittedAt, EmitterOf
<1>4. Kept
  BY <1>1, LenProperties DEF Kept, DecodeTypes
<1>5. Justified'
  <2>1. \A i \in DOMAIN pathRemains' :
          Origin(pathRemains'[i].offset, pathRemains'[i].slots, Len(emitters))
    BY <1>1 DEF Justified
  <2> QED BY <2>1, <1>1, <1>4, JustifiedStays
<1>6. Followed'
  <2>1. ASSUME NEW o, Awaited(o) PROVE Awaited(o)'
    BY <2>1, <1>1 DEF Awaited, Decoded
  <2>2. pathRemains' = <<>>
    BY <1>1 DEF Followed
  <2> QED BY <2>1, <2>2, <1>1, <1>4, FollowedStays
<1>7. Prefixed' /\ Caught'
  BY <1>1 DEF Prefixed, Caught
<1> QED BY <1>2, <1>3, <1>5, <1>6, <1>7 DEF DecodeInv

\* What is awaited when no path remains was decoded.
LEMMA AllDecoded ==
  ASSUME DecodeInv, phase \in {"done", "run"}, NEW o, Awaited(o)
  PROVE  o \in DOMAIN snapshots
<1>1. DOMAIN pathRemains = {}
  BY DEF DecodeInv, Followed
<1> QED BY <1>1 DEF Awaited, Decoded

\* The emitter at an offset that was decoded.
LEMMA EmitterAt ==
  ASSUME DecodeInv, phase = "run", NEW o \in DOMAIN snapshots
  PROVE  /\ Emitter(o) \in Range(emitters) /\ Emitter(o).offset = o
         /\ o \in Offsets /\ snapshots[o] \in Stacks /\ code[o] \in Instructions
         /\ EmitterOf(Emitter(o), code[o], snapshots[o])
         /\ \A q \in Successors(o) : q \in DOMAIN snapshots
<1>1. DecodeTypes /\ Fetched /\ Followed /\ o \in EmittedAt
  BY DEF DecodeInv, Fetched
<1>2. PICK k \in DOMAIN emitters : o = emitters[k].offset
  BY <1>1 DEF EmittedAt
<1>3. emitters[k] \in Range(emitters)
  BY <1>2 DEF Range
<1>4. Emitter(o) \in Range(emitters) /\ Emitter(o).offset = o
  BY <1>2, <1>3 DEF Emitter
<1>5. PICK j \in DOMAIN emitters : Emitter(o) = emitters[j]
  BY <1>4 DEF Range
<1>6. ASSUME NEW q \in Successors(o) PROVE q \in DOMAIN snapshots
  BY <1>1, <1>2, AllDecoded DEF Followed
<1> QED BY <1>1, <1>4, <1>5, <1>6, EmitterIs

\* Where execution is, and with which slots.
LEMMA RunningIs ==
  ASSUME DecodeInv, phase = "run", pc # NoOffset, Merges = FALSE, NEW e, e = Emitter(pc)
  PROVE  /\ Typed /\ pc \in DOMAIN snapshots /\ live = snapshots[pc] /\ live \in Stacks
         /\ code[pc] \in Instructions /\ EmitterOf(e, code[pc], live)
         /\ \A q \in Successors(pc) :
              q \in DOMAIN snapshots /\ snapshots[q] = Out(live, code[pc])
<1>1. Typed /\ pc \in DOMAIN snapshots /\ live = snapshots[pc]
  BY DEF DecodeInv, Runs
<1> QED BY <1>1, EmitterAt DEF Typed

\* The start of a handler has the stack that the handler is entered with.
LEMMA HandlerIs ==
  ASSUME DecodeInv, phase = "run", Merges = FALSE, NEW h \in Range(handlers)
  PROVE  /\ h.start \in DOMAIN snapshots /\ snapshots[h.start] = HandlerPath(h).slots
         /\ h.kind = "catch" => snapshots[h.start] = <<catchVariables[h.start]>>
         /\ h.kind # "catch" => snapshots[h.start] = <<>>
<1>1. PICK i \in DOMAIN handlers : h = handlers[i]
  BY DEF Range
<1>2. h.start \in DOMAIN snapshots
  BY <1>1, AllDecoded DEF DecodeInv, Followed
<1>3. Typed /\ Caught
  BY DEF DecodeInv, Runs
<1>4. snapshots[h.start] = HandlerPath(h).slots
  BY <1>1, <1>3 DEF Typed
<1>5. ASSUME h.kind = "catch" PROVE snapshots[h.start] = <<catchVariables[h.start]>>
  <2>1. PICK j \in DOMAIN handlers :
          handlers[j].start = h.start /\ catchVariables[h.start] = <<1, handlers[j].type>>
    BY <1>1, <1>3, <1>5 DEF Caught
  <2>2. snapshots[h.start] = HandlerPath(handlers[j]).slots
    BY <2>1, <1>3 DEF Typed
  <2>3. snapshots[h.start] = << <<1, h.type>> >>
    BY <1>4, <1>5 DEF HandlerPath, Path
  <2>4. handlers[j].kind = "catch"
    BY <2>2, <2>3 DEF HandlerPath, Path
  <2>5. snapshots[h.start] = << <<1, handlers[j].type>> >>
    BY <2>2, <2>4 DEF HandlerPath, Path
  <2> QED BY <2>1, <2>5
<1>6. h.kind # "catch" => snapshots[h.start] = <<>>
  BY <1>4 DEF HandlerPath, Path
<1> QED BY <1>2, <1>4, <1>5, <1>6

\* Execution starts in a verified method, with nothing on the stack.
LEMMA StartStep == DecodeInv /\ Start => DecodeInv'
<1> SUFFICES ASSUME DecodeInv, Start PROVE DecodeInv'
  OBVIOUS
<1>1. /\ phase = "done" /\ Verified /\ phase' = "run" /\ pc' = 1
      /\ UNCHANGED <<handlers, code, decoder, live, leaving>>
      /\ UNCHANGED <<snapshots, continuations>>
  BY DEF Start, decoder
<1>2. live = <<>> /\ leaving = NoOffset
  BY <1>1 DEF DecodeInv, Runs
<1>3. ASSUME ~Merges PROVE Typed /\ 1 \in DOMAIN snapshots /\ snapshots[1] = <<>>
  <2>1. Typed
    BY <1>1, <1>3, VerifiedTyped, DecodeAssumption DEF DecodeInv
  <2> QED BY <2>1, <1>1, AllDecoded DEF Typed, DecodeInv, Followed
<1>4. Typed => Typed'
  BY <1>1 DEF Typed, Successors
<1>5. Runs'
  BY <1>1, <1>2, <1>3, <1>4 DEF Runs
<1> QED BY <1>1, <1>5, ExecuteStep

\* An executing step that leaves the delayed leave alone.
LEMMA GoStep ==
  ASSUME DecodeInv, phase = "run", phase' = "run", UNCHANGED <<handlers, code, decoder>>,
         ~Merges /\ leaving' # NoOffset =>
           \/ leaving' = leaving
           \/ /\ leaving' \in DOMAIN continuations /\ continuations[leaving'] \in DOMAIN snapshots
              /\ snapshots[continuations[leaving']] = <<>>,
         ~Merges /\ pc' # NoOffset => pc' \in DOMAIN snapshots /\ live' = snapshots[pc'],
         ~Merges /\ pc' = NoOffset => live' = <<>>
  PROVE  DecodeInv'
<1>1. UNCHANGED <<snapshots, continuations>> /\ Runs
  BY DEF decoder, DecodeInv
<1>2. Typed => Typed'
  BY <1>1 DEF Typed, Successors
<1>3. ASSUME ~Merges, leaving' # NoOffset
      PROVE  /\ leaving' \in DOMAIN continuations' /\ Decoded(continuations[leaving])'
             /\ snapshots'[continuations'[leaving']] = <<>>
  BY <1>1, <1>3 DEF Runs, Decoded
<1>4. Runs'
  BY <1>1, <1>2, <1>3 DEF Runs
<1> QED BY <1>4, ExecuteStep

\* An instruction leaves the stack that its successor was decoded with.
LEMMA AdvanceStep == DecodeInv /\ Advance => DecodeInv'
<1> SUFFICES ASSUME DecodeInv, Advance PROVE DecodeInv'
  OBVIOUS
<1>1. PICK e : e = Emitter(pc)
  OBVIOUS
<1>2. /\ phase = "run" /\ phase' = "run" /\ pc # NoOffset /\ UNCHANGED <<handlers, code, decoder>>
      /\ e.op \notin {"ret", "throw", "leave", "endfinally"}
      /\ live' = Stack(e) /\ leaving' = leaving
      /\ (e.op # "br" /\ pc' = pc + 1) \/ (e.label # NoOffset /\ pc' = e.label)
  BY <1>1 DEF Advance, Running
<1>3. ASSUME ~Merges PROVE pc' \in DOMAIN snapshots /\ live' = snapshots[pc']
  <2>1. PICK i : i = code[pc]
    OBVIOUS
  <2>2. /\ live \in Stacks /\ i \in Instructions /\ EmitterOf(e, i, live)
        /\ \A q \in Successors(pc) : q \in DOMAIN snapshots /\ snapshots[q] = Out(live, i)
    BY <1>1, <1>2, <1>3, <2>1, RunningIs, DecodeAssumption
  <2>3. pc' \in Successors(pc)
    <3>1. CASE e.op # "br" /\ pc' = pc + 1
      <4>1. ~IsEndOfPath(i)
        BY <3>1, <1>2, <2>2 DEF IsEndOfPath, EmitterOf
      <4> QED BY <4>1, <3>1, <2>1 DEF Successors
    <3>2. CASE e.label # NoOffset /\ pc' = e.label
      <4>1. i.op \in {"br", "brtrue"} /\ e.label = i.target
        BY <3>2, <2>2 DEF EmitterOf
      <4> QED BY <4>1, <3>2, <2>1 DEF Successors
    <3> QED BY <3>1, <3>2, <1>2
  <2>4. live' = Out(live, i)
    <3>1. /\ e.op = i.op /\ e.read = Reads(live, i) /\ e.written = Writes(live, i)
          /\ (e.read = NoSlot <=> Pops(i) = 0) /\ (e.written = NoSlot <=> i.op \notin {"push", "dup"})
      BY <2>2, OutIs, InstructionIs DEF EmitterOf
    <3> QED BY <3>1, <1>2 DEF Stack, Out
  <2> QED BY <2>2, <2>3, <2>4
<1>4. ~Merges => pc' # NoOffset
  BY <1>3 DEF DecodeInv, DecodeTypes, NoOffset, decoder
<1> QED BY <1>2, <1>3, <1>4, GoStep

\* A leave goes to its target or to the finally handler, with nothing on the stack.
LEMMA LeaveBlockStep == DecodeInv /\ LeaveBlock => DecodeInv'
<1> SUFFICES ASSUME DecodeInv, LeaveBlock PROVE DecodeInv'
  OBVIOUS
<1>1. PICK e, finallies :
        e = Emitter(pc) /\ finallies = {h \in Range(handlers) : h.kind = "finally" /\ pc \in h.tried}
  OBVIOUS
<1>2. /\ phase = "run" /\ phase' = "run" /\ pc # NoOffset /\ UNCHANGED <<handlers, code, decoder>>
      /\ e.op = "leave" /\ live' = <<>>
      /\ IF finallies = {} THEN pc' = continuations[e.index] /\ leaving' = leaving
         ELSE pc' = (CHOOSE h \in finallies : TRUE).start /\ leaving' = e.index
  BY <1>1 DEF LeaveBlock, Running
<1>3. ASSUME ~Merges
      PROVE  /\ e.index \in DOMAIN continuations /\ continuations[e.index] \in DOMAIN snapshots
             /\ snapshots[continuations[e.index]] = <<>>
  <2>1. PICK i : i = code[pc]
    OBVIOUS
  <2>2. /\ live \in Stacks /\ i \in Instructions /\ EmitterOf(e, i, live)
        /\ \A q \in Successors(pc) : q \in DOMAIN snapshots /\ snapshots[q] = Out(live, i)
    BY <1>1, <1>2, <1>3, <2>1, RunningIs, DecodeAssumption
  <2>3. i.op = "leave" /\ live = <<>> /\ e.index \in DOMAIN continuations
        /\ continuations[e.index] = i.target
    BY <1>2, <2>2 DEF EmitterOf
  <2>4. i.target \in Successors(pc) /\ Out(live, i) = <<>>
    BY <2>1, <2>3 DEF Successors, Out, Pops
  <2> QED BY <2>2, <2>3, <2>4
<1>4. ASSUME ~Merges, finallies # {} PROVE pc' \in DOMAIN snapshots /\ live' = snapshots[pc']
  <2>1. PICK h : h = CHOOSE f \in finallies : TRUE
    OBVIOUS
  <2>2. h \in Range(handlers) /\ h.kind # "catch" /\ pc' = h.start
    BY <2>1, <1>1, <1>2, <1>4
  <2> QED BY <2>2, <1>2, <1>4, HandlerIs, DecodeAssumption
<1> QED BY <1>2, <1>3, <1>4, GoStep

\* The end of a finally handler goes on with the leave, if one is delayed.
LEMMA EndFinallyStep == DecodeInv /\ (EndFinally \/ Stop) => DecodeInv'
<1>1. ASSUME DecodeInv, EndFinally PROVE DecodeInv'
  <2>1. /\ phase = "run" /\ phase' = "run" /\ UNCHANGED <<handlers, code, decoder>>
        /\ live' = <<>> /\ leaving' = NoOffset
        /\ pc' = IF leaving = NoOffset THEN NoOffset ELSE continuations[leaving]
    BY <1>1 DEF EndFinally, Running
  <2>2. ~Merges /\ pc' # NoOffset => pc' \in DOMAIN snapshots /\ live' = snapshots[pc']
    BY <1>1, <2>1 DEF DecodeInv, Runs, Decoded
  <2> QED BY <1>1, <2>1, <2>2, GoStep
<1>2. ASSUME DecodeInv, Stop PROVE DecodeInv'
  <2>1. /\ phase = "run" /\ phase' = "run" /\ UNCHANGED <<handlers, code, decoder>>
        /\ leaving' = leaving /\ pc' = NoOffset /\ live' = <<>>
    BY <1>2 DEF Stop, Running
  <2> QED BY <1>2, <2>1, GoStep
<1> QED BY <1>1, <1>2

\* A catch handler is entered with the exception in the slot it reads.
LEMMA RaiseStep ==
  ASSUME DecodeInv, NEW h \in Range(handlers), Raise(h)
  PROVE  DecodeInv'
<1>1. /\ phase = "run" /\ phase' = "run" /\ UNCHANGED <<handlers, code, decoder>>
      /\ pc' = h.start /\ leaving' = NoOffset
      /\ live' = IF h.kind = "catch" THEN <<catchVariables[h.start]>> ELSE <<>>
  BY DEF Raise
<1>2. ASSUME ~Merges PROVE pc' \in DOMAIN snapshots /\ live' = snapshots[pc']
  BY <1>1, <1>2, HandlerIs, DecodeAssumption
<1>3. ~Merges => pc' # NoOffset
  BY <1>2 DEF DecodeInv, DecodeTypes, NoOffset
<1> QED BY <1>1, <1>2, <1>3, GoStep

-----------------------------------------------------------------------------
\* Every step keeps the invariant.
LEMMA NextDecode == DecodeInv /\ [Next]_vars => DecodeInv'
<1> SUFFICES ASSUME DecodeInv, [Next]_vars PROVE DecodeInv'
  OBVIOUS
<1>1. CASE TryDequeueNextPath
  BY <1>1, DequeueStep
<1>2. CASE Finish \/ EndPath \/ Underflow
  <2>1. CASE Finish
    BY <2>1, TurnStep DEF Finish
  <2>2. CASE EndPath
    BY <2>2, TurnStep DEF EndPath
  <2>3. CASE Underflow
    BY <2>3, TurnStep DEF Underflow, decoder
  <2> QED BY <1>2, <2>1, <2>2, <2>3
<1>3. CASE MoveNext
  BY <1>3, MoveNextStep
<1>4. CASE Push \/ Dup \/ Pop \/ End \/ SetPrefixCode \/ Br \/ Brtrue \/ Leave
  BY <1>4, PushStep, DupStep, PopStep, EndStep, BrStep, LeaveStep
<1>5. CASE Start \/ Advance \/ Stop \/ LeaveBlock \/ EndFinally
  BY <1>5, StartStep, AdvanceStep, LeaveBlockStep, EndFinallyStep
<1>6. CASE \E h \in Range(handlers) : Raise(h)
  BY <1>6, RaiseStep
<1>7. CASE UNCHANGED vars
  <2>1. UNCHANGED <<handlers, code, phase, stackList, stackPointer, nextOffset, currentCode,
                    prefixCode, snapshots, pathRemains, labelNames, catchVariables, continuations,
                    emitters, pc, live, leaving>>
    BY <1>7 DEF vars, decoder, execution
  <2>2. DecodeTypes /\ Fetched /\ Justified /\ Followed /\ Prefixed /\ Caught /\ Runs
    BY DEF DecodeInv
  <2>3. DecodeTypes' /\ Fetched'
    BY <2>1, <2>2 DEF DecodeTypes, Fetched, Decoded, EmittedAt, EmitterOf, Current
  <2>4. Kept
    BY <2>1, <2>2, LenProperties DEF Kept, DecodeTypes
  <2>5. Justified'
    <3>1. /\ \A i \in DOMAIN pathRemains' :
               Origin(pathRemains'[i].offset, pathRemains'[i].slots, Len(emitters))
          /\ phase' = "move" => Origin(nextOffset', Current', Len(emitters))
          /\ phase' = "prepare" => Origin(currentCode', Current', Len(emitters))
      BY <2>1, <2>2 DEF Justified, Current
    <3> QED BY <3>1, <2>1, <2>2, <2>4, JustifiedStays
  <2>6. Followed'
    <3>1. ASSUME NEW o, Awaited(o) PROVE Awaited(o)'
      BY <3>1, <2>1 DEF Awaited, Decoded
    <3>2. phase' \in {"done", "run"} => pathRemains' = <<>>
      BY <2>1, <2>2 DEF Followed
    <3> QED BY <3>1, <3>2, <2>1, <2>2, <2>4, FollowedStays
  <2>7. Prefixed' /\ Caught'
    BY <2>1, <2>2 DEF Prefixed, Caught
  <2>8. Runs'
    <3>1. Typed => Typed'
      BY <2>1 DEF Typed, Successors
    <3> QED BY <3>1, <2>1, <2>2 DEF Runs, Decoded
  <2> QED BY <2>3, <2>5, <2>6, <2>7, <2>8 DEF DecodeInv
<1> QED BY <1>1, <1>2, <1>3, <1>4, <1>5, <1>6, <1>7 DEF Next, Decode

\* Every behaviour of the decoder and of what it emitted satisfies DecodeInv.
THEOREM DecodeInvariant == Spec => []DecodeInv
BY InitDecode, NextDecode, PTL DEF Spec

\* The type invariant of DecodeContext follows.
LEMMA DecodeTypeOK == DecodeInv /\ Merges = FALSE => TypeOK
<1> SUFFICES ASSUME DecodeInv, Merges = FALSE PROVE TypeOK
  OBVIOUS
<1>1. DecodeTypes /\ Runs
  BY DEF DecodeInv
<1>2. ASSUME NEW d \in 1 .. Len(stackList)
      PROVE  stackList[d].types \subseteq EntryTypes /\ stackList[d].selected \in EntryTypes \cup {"none"}
  <2>1. stackList[d] \in Holders
    BY <1>1, LenProperties, ElementOfSeq DEF DecodeTypes
  <2> QED BY <2>1 DEF Holders
<1>3. ASSUME NEW o \in DOMAIN snapshots, NEW d \in DOMAIN snapshots[o] PROVE snapshots[o][d] \in Slot
  <2>1. snapshots[o] \in Stacks
    BY <1>1 DEF DecodeTypes
  <2> QED BY <2>1, StackIs
<1>4. Range(continuations) \subseteq Offsets
  <2>1. \A k \in DOMAIN continuations : continuations[k] \in Offsets
    BY <1>1, LenProperties, ElementOfSeq DEF DecodeTypes
  <2> QED BY <2>1 DEF Range
<1>5. pc \in 0 .. Length + 1 /\ Range(live) \subseteq Slot
  <2>1. CASE pc = NoOffset
    BY <2>1, <1>1, DecodeAssumption DEF Runs, Range, NoOffset
  <2>2. CASE pc # NoOffset
    <3>1. pc \in 1 .. Length + 1 /\ live \in Stacks
      BY <2>2, <1>1 DEF Runs, DecodeTypes
    <3>2. Range(live) \subseteq Slot
      BY <3>1, StackIs DEF Range
    <3> QED BY <3>1, <3>2, DecodeAssumption
  <2> QED BY <2>1, <2>2
<1> QED BY <1>1, <1>2, <1>3, <1>4, <1>5 DEF TypeOK, DecodeTypes

\* Of a method whose paths join with equal types, the state has its type.
THEOREM DecodeWellTyped == ASSUME Merges = FALSE PROVE Spec => []TypeOK
<1>1. DecodeInv => TypeOK
  BY DecodeTypeOK
<1> QED BY <1>1, DecodeInvariant, PTL

\* ReachableEmitted follows: at the end what is emitted is what CIL reaches.
LEMMA DecodeReachable == DecodeInv => ReachableEmitted
<1> SUFFICES ASSUME DecodeInv PROVE ReachableEmitted
  OBVIOUS
<1>1. DecodeTypes /\ Fetched /\ Justified /\ Followed
  BY DEF DecodeInv
<1>2. IsInjective([i \in DOMAIN emitters |-> emitters[i].offset])
  BY <1>1 DEF IsInjective, Fetched
<1>3. {e.offset : e \in Range(emitters)} = EmittedAt
  BY DEF Range, EmittedAt
<1>4. ASSUME phase = "done" PROVE EmittedAt = {p.offset : p \in Points}
  <2>1. ASSUME NEW o \in EmittedAt PROVE o \in {p.offset : p \in Points}
    <3>1. PICK k \in DOMAIN emitters : o = emitters[k].offset
      BY DEF EmittedAt
    <3>2. Point(o, snapshots[o]) \in Points /\ Point(o, snapshots[o]).offset = o
      BY <3>1, <1>1, EmittedReached DEF Point
    <3> QED BY <3>2
  <2>2. ASSUME NEW p \in Points PROVE p.offset \in EmittedAt
    BY <1>1, <1>4, ReachedEmitted
  <2> QED BY <2>1, <2>2
<1>5. ASSUME NEW e \in Range(emitters), e.label # NoOffset PROVE e.label \in labelNames
  <2>1. PICK k \in DOMAIN emitters : e = emitters[k]
    BY DEF Range
  <2> QED BY <2>1, <1>1, <1>5 DEF Fetched, EmitterOf
<1> QED BY <1>2, <1>3, <1>4, <1>5 DEF ReachableEmitted

\* ReachableEmitted, for every method: what is emitted, once each, is what an
\* execution of CIL can reach, and its gotos find their labels.
THEOREM EmitsTheReachable == Spec => []ReachableEmitted
BY DecodeInvariant, DecodeReachable, PTL

\* LeavesReachTarget follows: each emitter keeps its continuation.
LEMMA DecodeLeaves == DecodeInv => LeavesReachTarget
<1> SUFFICES ASSUME DecodeInv, NEW e \in Range(emitters), e.op = "leave"
             PROVE  continuations[e.index] = code[e.offset].target
  BY DEF LeavesReachTarget
<1>1. PICK k \in DOMAIN emitters : e = emitters[k]
  BY DEF Range
<1>2. EmitterOf(e, code[e.offset], snapshots[e.offset])
  BY <1>1 DEF DecodeInv, Fetched
<1> QED BY <1>2 DEF EmitterOf

\* LeavesReachTarget, for every method: the index emitted for a leave is that of
\* its own target.
THEOREM LeavesGoToTarget == Spec => []LeavesReachTarget
BY DecodeInvariant, DecodeLeaves, PTL

\* PrefixApplies follows.
LEMMA DecodePrefixes == DecodeInv => PrefixApplies
BY DEF DecodeInv, Prefixed, PrefixApplies

\* PrefixApplies, for every method: a prefix is for the instruction behind it.
THEOREM PrefixesApplyOnce == Spec => []PrefixApplies
BY DecodeInvariant, DecodePrefixes, PTL

\* SlotHoldsValue follows: execution has the stack that each instruction was decoded with.
LEMMA DecodeSlots == DecodeInv /\ Merges = FALSE => SlotHoldsValue
<1> SUFFICES ASSUME DecodeInv, Merges = FALSE, phase = "run", pc # NoOffset, NEW e, e = Emitter(pc)
             PROVE  /\ e.read # NoSlot => live # <<>> /\ Last(live) = e.read
                    /\ e.written \notin Range(live)
  BY DEF SlotHoldsValue
<1>1. live \in Stacks /\ code[pc] \in Instructions /\ EmitterOf(e, code[pc], live)
  BY RunningIs
<1>2. PICK i \in Instructions : i = code[pc]
  BY <1>1
<1>3. /\ e.read = Reads(live, i) /\ e.written = Writes(live, i)
      /\ Len(live) >= Pops(i) /\ Len(live) \in Nat
  BY <1>1, <1>2, StackIs DEF EmitterOf
<1>4. ASSUME e.read # NoSlot PROVE live # <<>> /\ Last(live) = e.read
  <2>1. Pops(i) = 1 /\ Len(live) # 0
    BY <1>3, <1>4, InstructionIs DEF Reads
  <2>2. live # <<>>
    BY <2>1, <1>1, StackIs
  <2> QED BY <2>1, <2>2, <1>3 DEF Reads, Last
<1>5. ASSUME NEW d \in 1 .. Len(live) PROVE e.written # live[d]
  <2>1. live[d][1] = d /\ live[d] # NoSlot /\ live[d] = <<d, live[d][2]>> /\ d # Len(live) + 1
    BY <1>1, <1>3, StackIs
  <2>2. \/ e.written = NoSlot
        \/ \E t : e.written = <<Len(live) + 1, t>>
    BY <1>3 DEF Writes
  <2> QED BY <2>1, <2>2
<1>6. e.written \notin Range(live)
  BY <1>1, <1>5, StackIs DEF Range
<1> QED BY <1>4, <1>6

\* SlotHoldsValue, for every method whose paths join with equal types: an
\* instruction reads the slot that the value on top of the stack was put in.
THEOREM SlotsHoldTheirValues == ASSUME Merges = FALSE PROVE Spec => []SlotHoldsValue
<1>1. DecodeInv => SlotHoldsValue
  BY DecodeSlots
<1> QED BY <1>1, DecodeInvariant, PTL

-----------------------------------------------------------------------------
\* n and r are k multiples of m apart.
Apart(m, n, r, k) == n = r + k * m

\* The remainder of n by m is the one number below m that lies whole multiples
\* of m from n.
LEMMA RemainderIs ==
  ASSUME NEW m \in Nat \ {0}, NEW n \in Int
  PROVE  /\ n % m \in 0 .. m - 1
         /\ n \div m \in Int /\ Apart(m, n, n % m, n \div m)
         /\ \A r \in 0 .. m - 1, k \in Int : Apart(m, n, r, k) => n % m = r
<1>1. n % m \in 0 .. m - 1 /\ n \div m \in Int /\ n = (n % m) + (n \div m) * m
  OBVIOUS
<1>2. ASSUME NEW r \in 0 .. m - 1, NEW k \in Int, Apart(m, n, r, k) PROVE n % m = r
  <2>0. n = r + k * m BY <1>2 DEF Apart
  <2>1. (k - (n \div m)) * m = (n % m) - r
    BY <1>1, <2>0
  <2>2. k - (n \div m) \in Int /\ -m < (k - (n \div m)) * m /\ (k - (n \div m)) * m < m
    BY <1>1, <2>1
  <2> DEFINE d == k - (n \div m)
  <2>3. d \in Int /\ -m < d * m /\ d * m < m
    BY <2>2
  <2> HIDE DEF d
  <2>4. d = 0
    <3>1. d >= 1 => d * m >= m BY <2>3
    <3>2. d <= -1 => d * m <= -m BY <2>3
    <3> QED BY <2>3, <3>1, <3>2
  <2> QED BY <2>1, <2>4, <1>1 DEF d
<1> QED BY <1>1, <1>2 DEF Apart

Congruent(m, x, y) == x % m = y % m

\* Numbers have the same remainder when they lie whole multiples apart.
LEMMA SameRemainder ==
  ASSUME NEW m \in Nat \ {0}, NEW x \in Int, NEW y \in Int
  PROVE  /\ Congruent(m, x, y) => \E k \in Int : Apart(m, x, y, k)
         /\ \A k \in Int : Apart(m, x, y, k) => Congruent(m, x, y)
<1> DEFINE p == x \div m
           q == y \div m
           r == x % m
           t == y % m
<1>1. /\ p \in Int /\ q \in Int /\ r \in Int /\ t \in 0 .. m - 1
      /\ x = r + p * m /\ y = t + q * m
  BY RemainderIs DEF Apart
<1> HIDE DEF p, q, r, t
<1>2. ASSUME r = t PROVE \E k \in Int : Apart(m, x, y, k)
  <2>1. x = y + (p - q) * m /\ p - q \in Int BY <1>1, <1>2
  <2> QED BY <2>1 DEF Apart
<1>3. ASSUME NEW k \in Int, Apart(m, x, y, k) PROVE r = t
  <2>1. k + q \in Int /\ x = t + (k + q) * m BY <1>3, <1>1 DEF Apart
  <2>2. Apart(m, x, t, k + q) BY <2>1 DEF Apart
  <2>3. x % m = t BY <2>1, <2>2, <1>1, RemainderIs
  <2> QED BY <2>3 DEF r
<1> QED BY <1>2, <1>3 DEF r, t, Congruent

\* Sums, differences and products of numbers with the same remainders have the
\* same remainder.
LEMMA RemaindersOfResults ==
  ASSUME NEW m \in Nat \ {0}, NEW a \in Int, NEW b \in Int, NEW x \in Int, NEW y \in Int,
         Congruent(m, a, x), Congruent(m, b, y)
  PROVE  /\ Congruent(m, a + b, x + y)
         /\ Congruent(m, a - b, x - y)
         /\ Congruent(m, a * b, x * y)
<1>1. PICK j \in Int : a = x + j * m BY SameRemainder DEF Apart
<1>2. PICK k \in Int : b = y + k * m BY SameRemainder DEF Apart
<1>3. a + b = (x + y) + (j + k) * m /\ a - b = (x - y) + (j - k) * m
  BY <1>1, <1>2
<1>4. a * b = x * y + (x * k + j * y + j * k * m) * m
  BY <1>1, <1>2
<1>5. /\ j + k \in Int /\ j - k \in Int /\ x * k + j * y + j * k * m \in Int
      /\ a + b \in Int /\ x + y \in Int /\ a - b \in Int /\ x - y \in Int
      /\ a * b \in Int /\ x * y \in Int
  OBVIOUS
<1>6. /\ Apart(m, a + b, x + y, j + k) /\ Apart(m, a - b, x - y, j - k)
      /\ Apart(m, a * b, x * y, x * k + j * y + j * k * m)
  BY <1>3, <1>4 DEF Apart
<1>7. Congruent(m, a + b, x + y) BY <1>5, <1>6, SameRemainder
<1>8. Congruent(m, a - b, x - y) BY <1>5, <1>6, SameRemainder
<1>9. Congruent(m, a * b, x * y)
  <2> DEFINE c == a * b
             z == x * y
             n == x * k + j * y + j * k * m
  <2>1. c \in Int /\ z \in Int /\ n \in Int /\ Apart(m, c, z, n) BY <1>5, <1>6
  <2> HIDE DEF c, z, n
  <2>2. Congruent(m, c, z) BY <2>1, SameRemainder
  <2> QED BY <2>2 DEF c, z
<1> QED BY <1>7, <1>8, <1>9

\* Remainders by a multiple of m decide those by m.
LEMMA RemainderOfMultiple ==
  ASSUME NEW m \in Nat \ {0}, NEW f \in Nat, NEW p \in Nat \ {0}, p = f * m,
         NEW x \in Int, NEW y \in Int, Congruent(p, x, y)
  PROVE  Congruent(m, x, y)
<1>1. PICK k \in Int : x = y + k * p BY SameRemainder DEF Apart
<1>2. k * f \in Int /\ x = y + (k * f) * m BY <1>1
<1>3. Apart(m, x, y, k * f) BY <1>2 DEF Apart
<1> QED BY <1>2, <1>3, SameRemainder
-----------------------------------------------------------------------------
Widths == {Bits1, Bits2, Bits4, Bits8}
\* Two numbers have the same w lowest bits.
Alike(w, x, y) == Numeric!AsUnsigned(w, x) = Numeric!AsUnsigned(w, y)

\* The powers of two that bound the integers of a type.
LEMMA PowerIs ==
  ASSUME NEW w \in Widths
  PROVE  /\ w \in Nat \ {0} /\ 2 ^ w \in Nat \ {0} /\ 2 ^ (w - 1) \in Nat \ {0}
         /\ 2 ^ w = 2 * 2 ^ (w - 1)
<1>1. w \in Nat \ {0} BY NumericAssumption DEF Widths
<1>2. 2 ^ (w - 1) \in Nat \ {0} /\ 2 ^ w = 2 * 2 ^ (w - 1) BY NumericAssumption DEF Widths
<1> DEFINE h == 2 ^ (w - 1)
<1>3. h \in Nat \ {0} /\ 2 ^ w = 2 * h BY <1>2
<1> HIDE DEF h
<1>4. 2 * h \in Nat \ {0} BY <1>3
<1> QED BY <1>1, <1>2, <1>3, <1>4

\* A number is cut to its w lowest bits, and read with or without a sign.
LEMMA CutIs ==
  ASSUME NEW w \in Widths, NEW v \in Int
  PROVE  /\ Numeric!AsUnsigned(w, v) \in 0 .. 2 ^ w - 1
         /\ Numeric!AsSigned(w, v) \in -(2 ^ (w - 1)) .. 2 ^ (w - 1) - 1
         /\ Alike(w, Numeric!AsUnsigned(w, v), v)
         /\ Alike(w, Numeric!AsSigned(w, v), v)
         /\ v \in 0 .. 2 ^ w - 1 => Numeric!AsUnsigned(w, v) = v
         /\ v \in -(2 ^ (w - 1)) .. 2 ^ (w - 1) - 1 => Numeric!AsSigned(w, v) = v
<1> DEFINE m == 2 ^ w
           h == 2 ^ (w - 1)
<1>1. m \in Nat \ {0} /\ h \in Nat \ {0} /\ m = 2 * h BY PowerIs
<1>2. \A n : Numeric!AsUnsigned(w, n) = n % m BY DEF Numeric!AsUnsigned
<1>3. \A n : Numeric!AsSigned(w, n) = ((n + h) % m) - h BY DEF Numeric!AsSigned
<1> HIDE DEF m, h
<1>4. ASSUME NEW n \in Int
      PROVE  /\ n % m \in 0 .. m - 1 /\ (n % m) % m = n % m
             /\ n \in 0 .. m - 1 => n % m = n
  <2> DEFINE r == n % m
             q == n \div m
  <2>1. r \in 0 .. m - 1 /\ q \in Int /\ Apart(m, n, r, q) BY <1>1, RemainderIs
  <2>2. \A t \in 0 .. m - 1, k \in Int : Apart(m, n, t, k) => r = t BY <1>1, RemainderIs
  <2> HIDE DEF q, r
  <2>3. r \in Int BY <2>1, <1>1
  <2>4. n % m = r % m BY <2>1, <2>3, <1>1, SameRemainder DEF Congruent
  <2>5. n \in 0 .. m - 1 => r = n
    <3>1. Apart(m, n, n, 0) BY <1>1 DEF Apart
    <3> QED BY <3>1, <2>2
  <2> QED BY <2>1, <2>4, <2>5 DEF r
<1> DEFINE n == v + h
           s == n % m
<1>5. n \in Int BY <1>1
<1>6. s \in 0 .. m - 1 /\ s % m = n % m /\ (n \in 0 .. m - 1 => s = n) BY <1>4, <1>5
<1>7. Numeric!AsSigned(w, v) = s - h BY <1>3
<1>8. n = v + h OBVIOUS
<1> HIDE DEF n, s
<1>9. s - h \in -h .. h - 1 BY <1>6, <1>1
<1>10. (s - h) % m = v % m
  <2>1. s \in Int /\ h \in Int /\ Congruent(m, s, n) /\ Congruent(m, h, h) BY <1>6, <1>1 DEF Congruent
  <2>2. Congruent(m, s - h, n - h) BY <2>1, <1>1, <1>5, RemaindersOfResults
  <2>3. n - h = v BY <1>1, <1>8
  <2> QED BY <2>2, <2>3 DEF Congruent
<1>11. v \in -h .. h - 1 => s - h = v
  <2>1. v \in -h .. h - 1 => n \in 0 .. m - 1 BY <1>1, <1>8
  <2> QED BY <2>1, <1>1, <1>6, <1>8
<1> QED BY <1>2, <1>4, <1>7, <1>9, <1>10, <1>11 DEF Alike, m, h

\* Numbers with the same bits are cut alike, and one of them lies in each range.
LEMMA AlikeIs ==
  ASSUME NEW w \in Widths, NEW x \in Int, NEW y \in Int, Alike(w, x, y)
  PROVE  /\ Numeric!AsUnsigned(w, x) = Numeric!AsUnsigned(w, y)
         /\ Numeric!AsSigned(w, x) = Numeric!AsSigned(w, y)
         /\ x \in 0 .. 2 ^ w - 1 /\ y \in 0 .. 2 ^ w - 1 => x = y
         /\ x \in -(2 ^ (w - 1)) .. 2 ^ (w - 1) - 1 /\ y \in -(2 ^ (w - 1)) .. 2 ^ (w - 1) - 1 => x = y
<1>1. Numeric!AsUnsigned(w, x) = Numeric!AsUnsigned(w, y) BY DEF Alike
<1>2. Numeric!AsSigned(w, x) = Numeric!AsSigned(w, y)
  <2> DEFINE m == 2 ^ w
             h == 2 ^ (w - 1)
  <2>1. m \in Nat \ {0} /\ h \in Nat \ {0} BY PowerIs
  <2>2. Congruent(m, x, y) BY <1>1 DEF Numeric!AsUnsigned, Congruent
  <2>3. \A n : Numeric!AsSigned(w, n) = ((n + h) % m) - h BY DEF Numeric!AsSigned
  <2> HIDE DEF m, h
  <2>4. (x + h) % m = (y + h) % m
    <3>1. h \in Int /\ Congruent(m, h, h) BY <2>1 DEF Congruent
    <3>2. Congruent(m, x + h, y + h) BY <2>1, <2>2, <3>1, RemaindersOfResults
    <3> QED BY <3>2 DEF Congruent
  <2> QED BY <2>3, <2>4
<1> QED BY <1>1, <1>2, CutIs

\* What is alike in more bits is alike in fewer.
LEMMA AlikeInFewer ==
  ASSUME NEW w \in Widths, NEW v \in Widths, w <= v, NEW x \in Int, NEW y \in Int, Alike(v, x, y)
  PROVE  Alike(w, x, y)
<1>1. CASE w = v BY <1>1
<1>2. CASE w # v
  <2> DEFINE m == 2 ^ w
             p == 2 ^ v
             f == 2 ^ (v - w)
  <2>1. m \in Nat \ {0} /\ p \in Nat \ {0} BY PowerIs
  <2>2. w < v BY <1>2, PowerIs
  <2>3. f \in Nat /\ p = f * m BY <2>2, NumericAssumption DEF Widths
  <2>4. Congruent(p, x, y) BY DEF Alike, Numeric!AsUnsigned, Congruent
  <2> HIDE DEF m, p, f
  <2>5. Congruent(m, x, y) BY <2>1, <2>3, <2>4, RemainderOfMultiple
  <2> QED BY <2>5 DEF Alike, Numeric!AsUnsigned, Congruent, m
<1> QED BY <1>1, <1>2

\* Being alike is an equivalence, and sums, differences and products keep it.
LEMMA AlikeResults ==
  ASSUME NEW w \in Widths, NEW a \in Int, NEW b \in Int, NEW x \in Int, NEW y \in Int,
         Alike(w, a, x), Alike(w, b, y)
  PROVE  Alike(w, a + b, x + y) /\ Alike(w, a - b, x - y) /\ Alike(w, a * b, x * y)
<1> DEFINE m == 2 ^ w
<1>1. m \in Nat \ {0} BY PowerIs
<1>2. Congruent(m, a, x) /\ Congruent(m, b, y) BY DEF Alike, Numeric!AsUnsigned, Congruent
<1> HIDE DEF m
<1>3. Congruent(m, a + b, x + y) /\ Congruent(m, a - b, x - y) /\ Congruent(m, a * b, x * y)
  BY <1>1, <1>2, RemaindersOfResults
<1> QED BY <1>3 DEF Alike, Numeric!AsUnsigned, Congruent, m
-----------------------------------------------------------------------------
TypeNames == {"i1", "u1", "i2", "u2", "i4", "u4", "i8", "u8", "ip", "up", "r4", "r8", "bool"}
\* Types whose values CIL may have with the other sign.
IsWide(t) == t \in {"u4", "u8", "up"}
\* v is a value of type t.
Fits(t, v) ==
  /\ v \in Int
  /\ t = "bool" => v \in {0, 1}
  /\ t \in {"u1", "u2", "u4", "u8", "up"} => v \in 0 .. 2 ^ Numeric!Width(t) - 1
  /\ t \in {"i1", "i2", "i4", "i8", "ip"} =>
       v \in -(2 ^ (Numeric!Width(t) - 1)) .. 2 ^ (Numeric!Width(t) - 1) - 1

\* The types one by one.
LEMMA TypesAre == Numeric!Types = TypeNames
BY DEF Numeric!Types, Numeric!NumericPrimitive, Numeric!IntegerPrimitive, Numeric!Pointers,
       Numeric!Floats, TypeNames

\* The widths of the types.
LEMMA WidthIs ==
  /\ Numeric!Width("i1") = Bits1 /\ Numeric!Width("u1") = Bits1 /\ Numeric!Width("bool") = Bits1
  /\ Numeric!Width("i2") = Bits2 /\ Numeric!Width("u2") = Bits2
  /\ Numeric!Width("i4") = Bits4 /\ Numeric!Width("u4") = Bits4 /\ Numeric!Width("r4") = Bits4
  /\ Numeric!Width("i8") = Bits8 /\ Numeric!Width("u8") = Bits8 /\ Numeric!Width("r8") = Bits8
  /\ Numeric!Width("ip") = Numeric!Width("up")
  /\ Numeric!Width("ip") = IF PointerSize = 4 THEN Bits4 ELSE Bits8
<1>1. \A t : t \notin Numeric!Pointers => Numeric!Width(t) =
        (IF t \in {"u1", "i1", "bool"} THEN Bits1 ELSE IF t \in {"i2", "u2"} THEN Bits2
         ELSE IF t \in {"i4", "u4", "r4"} THEN Bits4 ELSE Bits8)
  <2> SUFFICES ASSUME NEW t, t \notin Numeric!Pointers
               PROVE  Numeric!Width(t) =
                 (IF t \in {"u1", "i1", "bool"} THEN Bits1 ELSE IF t \in {"i2", "u2"} THEN Bits2
                  ELSE IF t \in {"i4", "u4", "r4"} THEN Bits4 ELSE Bits8)
    OBVIOUS
  <2>1. CASE t \in {"u1", "i1", "bool"} BY <2>1 DEF Numeric!Width, Numeric!StaticSizeOfValue
  <2>2. CASE t \in {"i2", "u2"} BY <2>2 DEF Numeric!Width, Numeric!StaticSizeOfValue
  <2>3. CASE t \in {"i4", "u4", "r4"} BY <2>3 DEF Numeric!Width, Numeric!StaticSizeOfValue
  <2>4. CASE t \notin {"u1", "i1", "bool", "i2", "u2", "i4", "u4", "r4"}
    BY <2>4 DEF Numeric!Width, Numeric!StaticSizeOfValue
  <2> QED BY <2>1, <2>2, <2>3, <2>4
<1>2. \A t \in Numeric!Pointers : Numeric!Width(t) = IF PointerSize = 4 THEN Bits4 ELSE Bits8
  BY NumericAssumption DEF Numeric!Width
<1> QED BY <1>1, <1>2 DEF Numeric!Pointers

\* The widths and their powers of two are ordered.
LEMMA WidthsOrdered ==
  /\ \A t \in TypeNames : Numeric!Width(t) \in Widths
  /\ \A v, w \in Widths : v <= w =>
       /\ 2 ^ v <= 2 ^ w /\ 2 ^ (v - 1) <= 2 ^ (w - 1)
       /\ v < w => 2 ^ v <= 2 ^ (w - 1)
  /\ 2 <= 2 ^ Bits1 /\ 4 <= 2 ^ Bits2 /\ 8 <= 2 ^ Bits4
  /\ Bits1 < Bits4 /\ Bits2 < Bits4 /\ Bits4 < Bits8
<1>1. \A t \in TypeNames : Numeric!Width(t) \in Widths
  BY WidthIs DEF TypeNames, Widths
<1>2. ASSUME NEW v \in Widths, NEW w \in Widths, v < w
      PROVE  2 ^ v <= 2 ^ (w - 1) /\ 2 ^ v <= 2 ^ w /\ 2 ^ (v - 1) <= 2 ^ (w - 1)
  <2>1. 2 ^ v <= 2 ^ (w - 1) BY <1>2, NumericAssumption DEF Widths
  <2> DEFINE a == 2 ^ v
             b == 2 ^ (w - 1)
             c == 2 ^ w
             d == 2 ^ (v - 1)
  <2>2. a \in Nat /\ b \in Nat /\ c = 2 * b /\ d \in Nat /\ a = 2 * d /\ a <= b BY <2>1, PowerIs
  <2> HIDE DEF a, b, c, d
  <2>3. a <= c /\ d <= b BY <2>2
  <2> QED BY <2>2, <2>3 DEF a, b, c, d
<1>3. \A v, w \in Widths : v <= w =>
        /\ 2 ^ v <= 2 ^ w /\ 2 ^ (v - 1) <= 2 ^ (w - 1)
        /\ v < w => 2 ^ v <= 2 ^ (w - 1)
  <2> SUFFICES ASSUME NEW v \in Widths, NEW w \in Widths, v <= w
               PROVE  /\ 2 ^ v <= 2 ^ w /\ 2 ^ (v - 1) <= 2 ^ (w - 1)
                      /\ v < w => 2 ^ v <= 2 ^ (w - 1)
    OBVIOUS
  <2>1. CASE v < w BY <2>1, <1>2
  <2>2. CASE v = w
    <3>1. 2 ^ v \in Nat /\ 2 ^ (v - 1) \in Nat BY PowerIs
    <3> QED BY <3>1, <2>2, PowerIs
  <2>3. v < w \/ v = w BY PowerIs
  <2> QED BY <2>1, <2>2, <2>3
<1>4. Bits1 < Bits2 /\ Bits1 < Bits4 /\ Bits2 < Bits4 /\ Bits4 < Bits8
  BY NumericAssumption
<1>5. 2 <= 2 ^ Bits1 /\ 4 <= 2 ^ Bits2 /\ 8 <= 2 ^ Bits4
  <2>1. Bits1 \in Widths /\ Bits2 \in Widths /\ Bits4 \in Widths BY DEF Widths
  <2> DEFINE a == 2 ^ Bits1
             b == 2 ^ (Bits2 - 1)
             c == 2 ^ Bits2
             d == 2 ^ (Bits4 - 1)
             e == 2 ^ Bits4
             f == 2 ^ (Bits1 - 1)
  <2>2. a = 2 * f /\ f \in Nat \ {0} /\ b \in Nat \ {0} /\ c = 2 * b /\ d \in Nat \ {0} /\ e = 2 * d
    BY <2>1, PowerIs
  <2>3. a <= b /\ c <= d BY <2>1, <1>2, <1>4
  <2> HIDE DEF a, b, c, d, e, f
  <2>4. 2 <= a /\ 4 <= c /\ 8 <= e BY <2>2, <2>3
  <2> QED BY <2>4 DEF a, c, e
<1> QED BY <1>1, <1>3, <1>4, <1>5

\* The value that a type keeps of a number is one of the type, has its bits and
\* is the number itself where the type can hold it.
LEMMA ConvertedIs ==
  ASSUME NEW t \in TypeNames, NEW v \in Int
  PROVE  /\ Fits(t, Numeric!Converted(t, v)) /\ Numeric!Converted(t, v) \in Int
         /\ t \notin {"r4", "r8", "bool"} => Alike(Numeric!Width(t), Numeric!Converted(t, v), v)
         /\ Fits(t, v) => Numeric!Converted(t, v) = v
         /\ t \in {"r4", "r8"} => Numeric!Converted(t, v) = v
<1> DEFINE w == Numeric!Width(t)
<1>1. w \in Widths BY WidthsOrdered
<1>2. CASE t \in {"r4", "r8"}
  <2>1. Numeric!Converted(t, v) = v BY <1>2 DEF Numeric!Converted, Numeric!Floats, Numeric!Unsigned
  <2> QED BY <1>2, <2>1 DEF Fits
<1>3. CASE t = "bool"
  <2>1. Numeric!Converted(t, v) = IF v = 0 THEN 0 ELSE 1 BY <1>3 DEF Numeric!Converted, Numeric!Floats, Numeric!Unsigned
  <2> QED BY <1>3, <2>1 DEF Fits
<1>4. CASE t \in {"u1", "u2", "u4", "u8", "up"}
  <2>1. Numeric!Converted(t, v) = Numeric!AsUnsigned(w, v)
    BY <1>4 DEF Numeric!Converted, Numeric!Floats, Numeric!Unsigned
  <2> HIDE DEF w
  <2>2. /\ Numeric!AsUnsigned(w, v) \in 0 .. 2 ^ w - 1 /\ Alike(w, Numeric!AsUnsigned(w, v), v)
        /\ v \in 0 .. 2 ^ w - 1 => Numeric!AsUnsigned(w, v) = v
    BY <1>1, CutIs
  <2>3. Numeric!AsUnsigned(w, v) \in Int BY <2>2
  <2> QED BY <1>4, <2>1, <2>2, <2>3 DEF Fits, w
<1>5. CASE t \in {"i1", "i2", "i4", "i8", "ip"}
  <2>1. Numeric!Converted(t, v) = Numeric!AsSigned(w, v)
    BY <1>5 DEF Numeric!Converted, Numeric!Floats, Numeric!Unsigned
  <2> HIDE DEF w
  <2>2. /\ Numeric!AsSigned(w, v) \in -(2 ^ (w - 1)) .. 2 ^ (w - 1) - 1
        /\ Alike(w, Numeric!AsSigned(w, v), v)
        /\ v \in -(2 ^ (w - 1)) .. 2 ^ (w - 1) - 1 => Numeric!AsSigned(w, v) = v
    BY <1>1, CutIs
  <2>3. Numeric!AsSigned(w, v) \in Int BY <2>2
  <2> QED BY <1>5, <2>1, <2>2, <2>3 DEF Fits, w
<1> QED BY <1>2, <1>3, <1>4, <1>5 DEF TypeNames

\* Numbers of the same bits are converted alike.
LEMMA ConvertedAlike ==
  ASSUME NEW t \in TypeNames \ {"r4", "r8", "bool"}, NEW x \in Int, NEW y \in Int,
         Alike(Numeric!Width(t), x, y)
  PROVE  Numeric!Converted(t, x) = Numeric!Converted(t, y)
<1>1. Numeric!Width(t) \in Widths BY WidthsOrdered
<1>2. CASE t \in {"u1", "u2", "u4", "u8", "up"}
  BY <1>1, <1>2, AlikeIs DEF Numeric!Converted, Numeric!Floats, Numeric!Unsigned
<1>3. CASE t \in {"i1", "i2", "i4", "i8", "ip"}
  BY <1>1, <1>3, AlikeIs DEF Numeric!Converted, Numeric!Floats, Numeric!Unsigned
<1> QED BY <1>2, <1>3 DEF TypeNames

\* A value of a type is one of any signed type that has more bits or, if the
\* first has a sign as well, as many.
LEMMA FitsInWider ==
  ASSUME NEW t \in TypeNames \ {"r4", "r8"}, NEW u \in {"i1", "i2", "i4", "i8", "ip"}, NEW v, Fits(t, v),
         \/ Numeric!Width(t) < Numeric!Width(u)
         \/ t \in {"i1", "i2", "i4", "i8", "ip"} /\ Numeric!Width(t) <= Numeric!Width(u)
  PROVE  Fits(u, v)
<1> DEFINE x == Numeric!Width(t)
           w == Numeric!Width(u)
<1>1. x \in Widths /\ w \in Widths /\ x <= w BY WidthsOrdered, PowerIs DEF TypeNames
<1> HIDE DEF x, w
<1> DEFINE a == 2 ^ x
           b == 2 ^ (x - 1)
           c == 2 ^ (w - 1)
<1>2. a \in Nat \ {0} /\ b \in Nat \ {0} /\ c \in Nat \ {0} /\ a = 2 * b /\ b <= c /\ (x < w => a <= c)
  BY <1>1, PowerIs, WidthsOrdered
<1>3. /\ v \in Int /\ (t = "bool" => v \in {0, 1})
      /\ t \in {"u1", "u2", "u4", "u8", "up"} => v \in 0 .. a - 1
      /\ t \in {"i1", "i2", "i4", "i8", "ip"} => v \in -b .. b - 1
      /\ t \notin {"i1", "i2", "i4", "i8", "ip"} => x < w
  BY DEF Fits, x, w
<1> HIDE DEF a, b, c
<1>4. v \in -c .. c - 1
  <2>1. CASE t = "bool" BY <2>1, <1>2, <1>3
  <2>2. CASE t \in {"u1", "u2", "u4", "u8", "up"} BY <2>2, <1>2, <1>3
  <2>3. CASE t \in {"i1", "i2", "i4", "i8", "ip"} BY <2>3, <1>2, <1>3
  <2> QED BY <2>1, <2>2, <2>3 DEF TypeNames
<1> QED BY <1>3, <1>4 DEF Fits, c, w
-----------------------------------------------------------------------------
\* The type that CIL gives a value of type t on its stack.
Stands(t) == Numeric!KindType[Numeric!Kind(t)]
\* A floating point number as it is taken to be in range.
Small(v) == v < 2 ^ Bits4 /\ -v < 2 ^ Bits4

\* The kinds of the types, and how wide and of which sign they are in CIL.
LEMMA KindIs ==
  ASSUME NEW t \in TypeNames
  PROVE  /\ Numeric!Kind(t) = (IF t \in {"r4", "r8"} THEN "F" ELSE IF t \in {"ip", "up"} THEN "native"
                               ELSE IF t \in {"i8", "u8"} THEN "int64" ELSE "int32")
         /\ Numeric!KindType["int32"] = "i4" /\ Numeric!KindType["int64"] = "i8"
         /\ Numeric!KindType["native"] = "ip" /\ Numeric!KindType["F"] = "r8"
         /\ Stands(t) = (IF t \in {"r4", "r8"} THEN "r8" ELSE IF t \in {"ip", "up"} THEN "ip"
                         ELSE IF t \in {"i8", "u8"} THEN "i8" ELSE "i4")
         /\ Stands(t) \in TypeNames \ {"bool"} /\ Stands(Stands(t)) = Stands(t)
         /\ \A v : Numeric!Widened(t, v) = Numeric!Converted(Stands(t), v)
         /\ DOMAIN Numeric!KindType = {"int32", "int64", "native", "F"}
<1>1. \A s \in TypeNames :
        Numeric!Kind(s) = (IF s \in {"r4", "r8"} THEN "F" ELSE IF s \in {"ip", "up"} THEN "native"
                           ELSE IF s \in {"i8", "u8"} THEN "int64" ELSE "int32")
  BY DEF Numeric!Kind, Numeric!Floats, Numeric!Pointers, TypeNames
<1>2. /\ Numeric!KindType["int32"] = "i4" /\ Numeric!KindType["int64"] = "i8"
      /\ Numeric!KindType["native"] = "ip" /\ Numeric!KindType["F"] = "r8"
      /\ DOMAIN Numeric!KindType = {"int32", "int64", "native", "F"}
  BY DEF Numeric!KindType
<1>3. \A s \in TypeNames :
        Stands(s) = (IF s \in {"r4", "r8"} THEN "r8" ELSE IF s \in {"ip", "up"} THEN "ip"
                     ELSE IF s \in {"i8", "u8"} THEN "i8" ELSE "i4")
  BY <1>1, <1>2 DEF Stands
<1>4. {"r8", "ip", "i8", "i4"} \subseteq TypeNames BY DEF TypeNames
<1>5. \A v : Numeric!Widened(t, v) = Numeric!Converted(Stands(t), v) BY DEF Numeric!Widened, Stands
<1>6. Stands(t) \in TypeNames \ {"bool"} BY <1>3, <1>4
<1>7. Stands(Stands(t)) = Stands(t) BY <1>3, <1>4
<1> QED BY <1>1, <1>2, <1>3, <1>5, <1>6, <1>7

\* CIL has at least as many bits, and the sign of all types but the wide unsigned.
LEMMA StandsIsWider ==
  ASSUME NEW t \in TypeNames \ {"r4", "r8"}
  PROVE  /\ Numeric!Width(t) <= Numeric!Width(Stands(t)) /\ Stands(t) \in {"i4", "i8", "ip"}
         /\ Numeric!Width(t) \in Widths /\ Numeric!Width(Stands(t)) \in Widths
         /\ ~IsWide(t) => \A v : Fits(t, v) => Fits(Stands(t), v)
<1>1. Stands(t) \in {"i4", "i8", "ip"} BY KindIs
<1>2. Numeric!Width(t) \in Widths /\ Numeric!Width(Stands(t)) \in Widths
  BY <1>1, WidthsOrdered DEF TypeNames
<1>3. Bits1 \in Nat /\ Bits2 \in Nat /\ Bits4 \in Nat /\ Bits8 \in Nat BY NumericAssumption
<1>4. /\ Stands("up") = "ip" /\ Stands("ip") = "ip" /\ Stands("u8") = "i8" /\ Stands("i8") = "i8"
      /\ Stands("i4") = "i4" /\ Stands("u4") = "i4" /\ Stands("u1") = "i4" /\ Stands("i1") = "i4"
      /\ Stands("u2") = "i4" /\ Stands("i2") = "i4" /\ Stands("bool") = "i4"
  BY KindIs DEF TypeNames
<1>5. Numeric!Width(t) <= Numeric!Width(Stands(t))
  BY <1>3, <1>4, WidthIs, WidthsOrdered DEF TypeNames
<1>6. ASSUME ~IsWide(t), NEW v, Fits(t, v) PROVE Fits(Stands(t), v)
  <2>1. \/ Numeric!Width(t) < Numeric!Width(Stands(t))
        \/ t \in {"i1", "i2", "i4", "i8", "ip"}
    BY <1>3, <1>4, <1>6, WidthIs, WidthsOrdered DEF TypeNames, IsWide
  <2> QED BY <2>1, <1>1, <1>5, <1>6, FitsInWider
<1> QED BY <1>1, <1>2, <1>5, <1>6

\* Zero is a value of every type, and one of the types with at least four bytes.
LEMMA ZeroFits ==
  ASSUME NEW t \in TypeNames
  PROVE  Fits(t, 0) /\ (t \notin {"i1", "i2"} => Fits(t, 1))
<1> DEFINE w == Numeric!Width(t)
           a == 2 ^ w
           b == 2 ^ (w - 1)
<1>1. w \in Widths /\ a \in Nat \ {0} /\ b \in Nat \ {0} /\ a = 2 * b BY WidthsOrdered, PowerIs
<1>2. t \in {"i4", "i8", "ip"} => w \in {Bits4, Bits8}
  BY WidthIs
<1>3. w \in {Bits4, Bits8} => 8 <= a
  <2>1. Bits4 \in Widths /\ Bits8 \in Widths /\ Bits4 \in Nat /\ Bits8 \in Nat /\ Bits4 <= Bits8
    BY NumericAssumption DEF Widths
  <2>2. 8 <= 2 ^ Bits4 /\ 2 ^ Bits4 <= 2 ^ Bits8 /\ 2 ^ Bits4 \in Nat /\ 2 ^ Bits8 \in Nat
    BY <2>1, WidthsOrdered, PowerIs
  <2> HIDE DEF w
  <2>3. 8 <= 2 ^ Bits8 BY <2>2
  <2> QED BY <2>2, <2>3
<1> HIDE DEF a, b, w
<1>4. /\ 0 \in 0 .. a - 1 /\ 1 \in 0 .. a - 1 /\ 0 \in -b .. b - 1
      /\ 8 <= a => 1 \in -b .. b - 1
  BY <1>1
<1>5. /\ t \in {"u1", "u2", "u4", "u8", "up"} => 0 \in 0 .. 2 ^ Numeric!Width(t) - 1 /\ 1 \in 0 .. 2 ^ Numeric!Width(t) - 1
      /\ 0 \in -(2 ^ (Numeric!Width(t) - 1)) .. 2 ^ (Numeric!Width(t) - 1) - 1
      /\ t \in {"i4", "i8", "ip"} => 1 \in -(2 ^ (Numeric!Width(t) - 1)) .. 2 ^ (Numeric!Width(t) - 1) - 1
  BY <1>2, <1>3, <1>4 DEF a, b, w
<1> QED BY <1>5 DEF Fits

\* A C variable of type t with the value c stands for the CIL entry with value z.
Agree(t, c, z) ==
  /\ t \in TypeNames /\ Fits(t, c) /\ Fits(Stands(t), z)
  /\ t \in {"r4", "r8"} => c = z /\ Small(c)
  /\ t \notin {"r4", "r8"} => Alike(Numeric!Width(Stands(t)), c, z)

\* Then it holds the value itself, or reads as it.
LEMMA AgreeIs ==
  ASSUME NEW t, NEW c, NEW z, Agree(t, c, z)
  PROVE  /\ t \in TypeNames /\ c \in Int /\ z \in Int
         /\ Numeric!Converted(t, c) = c /\ Numeric!Widened(t, c) = z
         /\ ~IsWide(t) => c = z
         /\ t \notin {"r4", "r8"} => (c = 0 <=> z = 0)
         /\ t \in {"u1", "u2", "u4", "u8", "up"} => c = Numeric!AsUnsigned(Numeric!Width(Stands(t)), z)
<1> DEFINE s == Stands(t)
           w == Numeric!Width(s)
<1>1. t \in TypeNames /\ c \in Int /\ z \in Int /\ Fits(t, c) /\ Fits(s, z) BY DEF Agree, Fits
<1>2. Numeric!Converted(t, c) = c BY <1>1, ConvertedIs
<1>3. CASE t \in {"r4", "r8"}
  <2>1. c = z /\ s = "r8" BY <1>1, <1>3, KindIs DEF Agree
  <2>2. Numeric!Widened(t, c) = Numeric!Converted("r8", c) BY <1>1, <2>1, KindIs
  <2>3. "r8" \in TypeNames BY DEF TypeNames
  <2>4. Numeric!Converted("r8", c) = c BY <1>1, <2>3, ConvertedIs
  <2> QED BY <1>1, <1>2, <1>3, <2>1, <2>2, <2>4
<1>4. CASE t \notin {"r4", "r8"}
  <2>1. Alike(w, c, z) BY <1>4 DEF Agree
  <2>2. /\ s \in {"i4", "i8", "ip"} /\ Numeric!Width(t) \in Widths /\ w \in Widths
        /\ Numeric!Width(t) <= w
        /\ ~IsWide(t) => \A v : Fits(t, v) => Fits(s, v)
    BY <1>1, <1>4, StandsIsWider
  <2>3. \A v : Numeric!Widened(t, v) = Numeric!Converted(s, v) BY <1>1, KindIs
  <2> HIDE DEF s
  <2>4. s \in TypeNames BY <2>2 DEF TypeNames
  <2>5. Numeric!Converted(s, c) = Numeric!Converted(s, z) BY <1>1, <2>1, <2>2, <2>4, ConvertedAlike
  <2>6. Numeric!Converted(s, z) = z BY <1>1, <2>4, ConvertedIs
  <2>7. ~IsWide(t) => c = z
    <3>1. ~IsWide(t) => Fits(s, c) BY <1>1, <2>2
    <3>2. ~IsWide(t) => Numeric!Converted(s, c) = c BY <1>1, <3>1, <2>4, ConvertedIs
    <3> QED BY <3>2, <2>5, <2>6
  <2>8. t \in {"u1", "u2", "u4", "u8", "up"} => c = Numeric!AsUnsigned(w, z)
    <3> HIDE DEF w
    <3> SUFFICES ASSUME t \in {"u1", "u2", "u4", "u8", "up"} PROVE c = Numeric!AsUnsigned(w, z)
      OBVIOUS
    <3> DEFINE a == 2 ^ Numeric!Width(t)
               b == 2 ^ w
    <3>1. c \in 0 .. a - 1 BY <1>1 DEF Fits
    <3>2. a \in Nat /\ b \in Nat /\ a <= b BY <2>2, PowerIs, WidthsOrdered
    <3> HIDE DEF a
    <3>3. c \in 0 .. b - 1 BY <3>1, <3>2
    <3>4. Numeric!AsUnsigned(w, c) = c BY <3>3, <2>2, <1>1, CutIs
    <3> QED BY <3>4, <1>1, <2>1, <2>2, AlikeIs
  <2>9. c = 0 <=> z = 0
    <3>1. c = 0 => z = 0
      <4>1. Fits(s, 0) BY <2>2, <2>4, ZeroFits
      <4>2. 0 \in Int /\ (c = 0 => Numeric!Converted(s, c) = 0) BY <4>1, <2>4, ConvertedIs
      <4> QED BY <4>2, <2>5, <2>6
    <3>2. z = 0 => c = 0
      <4>1. CASE ~IsWide(t) BY <4>1, <2>7
      <4>2. CASE IsWide(t)
        <5> HIDE DEF w
        <5>1. c = Numeric!AsUnsigned(w, z) BY <4>2, <2>8 DEF IsWide
        <5> DEFINE b == 2 ^ w
        <5>2. b \in Nat \ {0} BY <2>2, PowerIs
        <5>3. 0 \in 0 .. b - 1 /\ 0 \in Int BY <5>2
        <5>4. Numeric!AsUnsigned(w, 0) = 0 BY <2>2, <5>3, CutIs
        <5> QED BY <5>1, <5>4
      <4> QED BY <4>1, <4>2
    <3> QED BY <3>1, <3>2
  <2> QED BY <1>1, <1>2, <2>3, <2>5, <2>6, <2>7, <2>8, <2>9, <1>4 DEF s
<1> QED BY <1>3, <1>4
-----------------------------------------------------------------------------
\* A nonempty set of numbers has a smallest one.
LEMMA SmallestNumber ==
  ASSUME NEW S \in SUBSET Nat, S # {}
  PROVE  \E s \in S : \A t \in S : s <= t
<1> DEFINE R == OpToRel(<, Nat)
<1>1. \A a, b \in Nat : <<a, b>> \in R <=> a < b
  BY Zenon DEF OpToRel
<1>2. IsWellFoundedOn(R, Nat)
  BY NatLessThanWellFounded
<1> HIDE DEF R
<1>3. PICK s \in S : \A t \in S : ~(<<t, s>> \in R)
  BY <1>2, WFMin
<1>4. ASSUME NEW t \in S PROVE s <= t
  <2>1. ~(t < s) BY <1>1, <1>3
  <2> QED BY <2>1
<1> QED BY <1>4

\* f sums up the bits b from the highest one on.
SumsUp(f, b, w) == f = [k \in 0 .. w |-> IF k = 0 THEN 0 ELSE 2 * f[k - 1] + b[k]]

\* Bits can be summed up, and the sum is a number.
LEMMA BitsHaveSum ==
  ASSUME NEW w \in Nat, NEW b \in [1 .. w -> {0, 1}]
  PROVE  /\ \E f : SumsUp(f, b, w)
         /\ \A f : SumsUp(f, b, w) => f[w] \in Nat
<1>1. \E f : SumsUp(f, b, w)
  <2> DEFINE Bad == {n \in Nat : n <= w /\ ~ \E f : SumsUp(f, b, n)}
  <2>1. ASSUME Bad # {} PROVE FALSE
    <3>1. Bad \in SUBSET Nat OBVIOUS
    <3> HIDE DEF Bad
    <3>2. PICK n \in Bad : \A k \in Bad : n <= k BY <2>1, <3>1, SmallestNumber
    <3>3. n \in Nat /\ n <= w /\ ~ \E f : SumsUp(f, b, n) BY <3>2 DEF Bad
    <3>4. n # 0
      <4> DEFINE f == [k \in 0 .. 0 |-> 0]
      <4>1. SumsUp(f, b, 0) BY DEF SumsUp
      <4> QED BY <4>1, <3>3
    <3>5. n - 1 \in Nat /\ n - 1 <= w /\ ~(n <= n - 1) BY <3>3, <3>4
    <3>6. n - 1 \notin Bad BY <3>2, <3>5
    <3>7. PICK f : SumsUp(f, b, n - 1) BY <3>5, <3>6 DEF Bad
    <3> DEFINE g == [k \in 0 .. n |-> IF k = n THEN 2 * f[n - 1] + b[n] ELSE f[k]]
    <3>8. ASSUME NEW k \in 0 .. n PROVE g[k] = IF k = 0 THEN 0 ELSE 2 * g[k - 1] + b[k]
      <4>1. f = [j \in 0 .. n - 1 |-> IF j = 0 THEN 0 ELSE 2 * f[j - 1] + b[j]]
        BY <3>7 DEF SumsUp
      <4>2. CASE k = n
        <5>1. k # 0 /\ k - 1 \in 0 .. n /\ k - 1 # n /\ k - 1 = n - 1 BY <4>2, <3>3, <3>4
        <5>2. g[k] = 2 * f[n - 1] + b[n] /\ g[k - 1] = f[n - 1] BY <5>1, <4>2
        <5> QED BY <5>1, <5>2, <4>2
      <4>3. CASE k # n
        <5>1. k \in 0 .. n - 1 BY <4>3, <3>3
        <5>2. f[k] = IF k = 0 THEN 0 ELSE 2 * f[k - 1] + b[k]
          <6> DEFINE F(j) == IF j = 0 THEN 0 ELSE 2 * f[j - 1] + b[j]
          <6>1. f = [j \in 0 .. n - 1 |-> F(j)] BY <4>1
          <6> HIDE DEF F
          <6>2. f[k] = F(k) BY <6>1, <5>1
          <6> QED BY <6>2 DEF F
        <5>3. g[k] = f[k] BY <4>3
        <5>4. k # 0 => k - 1 \in 0 .. n /\ k - 1 # n BY <5>1, <3>3
        <5>5. k # 0 => g[k - 1] = f[k - 1] BY <5>4
        <5> QED BY <5>2, <5>3, <5>5
      <4> QED BY <4>2, <4>3
    <3>9. g = [k \in 0 .. n |-> g[k]] OBVIOUS
    <3> HIDE DEF g
    <3>10. g = [k \in 0 .. n |-> IF k = 0 THEN 0 ELSE 2 * g[k - 1] + b[k]] BY <3>8, <3>9
    <3>11. SumsUp(g, b, n) BY <3>10 DEF SumsUp
    <3> QED BY <3>11, <3>3
  <2>2. w \notin Bad BY <2>1
  <2>3. w <= w OBVIOUS
  <2> QED BY <2>2, <2>3
<1>2. ASSUME NEW f, SumsUp(f, b, w) PROVE f[w] \in Nat
  <2> DEFINE Bad == {n \in Nat : n <= w /\ f[n] \notin Nat}
  <2>1. \A n \in 0 .. w : f[n] = IF n = 0 THEN 0 ELSE 2 * f[n - 1] + b[n]
    <3> DEFINE F(j) == IF j = 0 THEN 0 ELSE 2 * f[j - 1] + b[j]
    <3>1. f = [j \in 0 .. w |-> F(j)] BY <1>2 DEF SumsUp
    <3> HIDE DEF F
    <3>2. \A n \in 0 .. w : f[n] = F(n) BY <3>1
    <3> QED BY <3>2 DEF F
  <2>2. ASSUME Bad # {} PROVE FALSE
    <3>1. Bad \in SUBSET Nat OBVIOUS
    <3> HIDE DEF Bad
    <3>2. PICK n \in Bad : \A k \in Bad : n <= k BY <2>2, <3>1, SmallestNumber
    <3>3. n \in 0 .. w /\ n \in Nat /\ f[n] \notin Nat BY <3>2 DEF Bad
    <3>4. n # 0 BY <3>3, <2>1
    <3>5. n - 1 \in Nat /\ n - 1 <= w /\ ~(n <= n - 1) /\ n \in 1 .. w BY <3>3, <3>4
    <3>6. f[n - 1] \in Nat BY <3>2, <3>5 DEF Bad
    <3>7. b[n] \in {0, 1} BY <3>5
    <3>8. f[n] = 2 * f[n - 1] + b[n] BY <3>3, <3>4, <2>1
    <3> QED BY <3>3, <3>6, <3>7, <3>8
  <2> QED BY <2>2
<1> QED BY <1>1, <1>2

\* The bits that &, | and ^ leave are those of a number.
LEMMA OnBitsIs ==
  ASSUME NEW op, NEW w \in Nat, NEW m, NEW n
  PROVE  Numeric!OnBits(op, w, m, n) \in Nat
<1> DEFINE Ones(k) == ((m \div 2 ^ k) % 2) + ((n \div 2 ^ k) % 2)
           Holds(k) == Ones(k) \in (CASE op = "and" -> {2} [] op = "or" -> {1, 2} [] op = "xor" -> {1})
           Term(k) == Numeric!Bit(Holds(w - k))
           b == [k \in 1 .. w |-> Term(k)]
           High == CHOOSE f : f = [k \in 0 .. w |-> IF k = 0 THEN 0 ELSE 2 * f[k - 1] + Term(k)]
<1>1. Numeric!OnBits(op, w, m, n) = High[w]
  BY DEF Numeric!OnBits
<1>2. \A k : Term(k) \in {0, 1}
  BY DEF Numeric!Bit
<1> HIDE DEF Term
<1>3. b \in [1 .. w -> {0, 1}]
  BY <1>2
<1>4. \A f : SumsUp(f, b, w) <=> f = [k \in 0 .. w |-> IF k = 0 THEN 0 ELSE 2 * f[k - 1] + Term(k)]
  <2> SUFFICES ASSUME NEW f
      PROVE [k \in 0 .. w |-> IF k = 0 THEN 0 ELSE 2 * f[k - 1] + b[k]] =
            [k \in 0 .. w |-> IF k = 0 THEN 0 ELSE 2 * f[k - 1] + Term(k)]
    BY DEF SumsUp
  <2>1. \A k \in 0 .. w : k # 0 => b[k] = Term(k) OBVIOUS
  <2> HIDE DEF b
  <2> QED BY <2>1
<1> HIDE DEF b
<1>5. \E f : f = [k \in 0 .. w |-> IF k = 0 THEN 0 ELSE 2 * f[k - 1] + Term(k)]
  BY <1>3, <1>4, BitsHaveSum
<1>6. High = [k \in 0 .. w |-> IF k = 0 THEN 0 ELSE 2 * High[k - 1] + Term(k)]
  BY <1>5
<1> HIDE DEF High
<1>7. SumsUp(High, b, w) BY <1>4, <1>6
<1> QED BY <1>1, <1>3, <1>7, BitsHaveSum
-----------------------------------------------------------------------------
SignedNames == {"i1", "i2", "i4", "i8", "ip"}
\* The types of the results of operators.
Commons == {"i4", "u4", "i8", "u8"}

\* The unsigned types of four and more bytes.
LEMMA WideIs ==
  ASSUME NEW x \in TypeNames
  PROVE  Numeric!WideUnsigned(x) <=> IsWide(x)
BY WidthIs, WidthsOrdered, NumericAssumption
DEF Numeric!WideUnsigned, Numeric!Unsigned, IsWide, TypeNames

\* What the compiler's opcodes say of the types of their operands.
LEMMA SignIs ==
  ASSUME NEW op, NEW t \in TypeNames, NEW u \in TypeNames, Numeric!SameSign(op, {t, u})
  PROVE  /\ op \in {"div", "rem", "blt", "bgt", "ble", "bge", "conv_i8", "conv_i"} =>
              ~IsWide(t) /\ ~IsWide(u)
         /\ op \notin {"conv_u8", "conv_u"} =>
              Numeric!Kind(t) = Numeric!Kind(u) \/ (~IsWide(t) /\ ~IsWide(u))
<1>1. \A x \in TypeNames : Numeric!WideUnsigned(x) <=> IsWide(x) BY WideIs
<1> DEFINE Signed == {"conv_i8", "conv_i", "div", "rem", "blt", "bgt", "ble", "bge"}
           AllSigned == \A x \in {t, u} : ~Numeric!WideUnsigned(x)
           OneKind == \A x, y \in {t, u} : Numeric!Kind(x) = Numeric!Kind(y)
<1>2. Numeric!SameSign(op, {t, u}) OBVIOUS
<1>3. op \notin {"conv_u8", "conv_u"} => AllSigned \/ (op \notin Signed /\ OneKind)
  BY <1>2 DEF Numeric!SameSign
<1>4. AllSigned => ~IsWide(t) /\ ~IsWide(u)
  BY <1>1
<1>5. OneKind => Numeric!Kind(t) = Numeric!Kind(u)
  OBVIOUS
<1> HIDE DEF OneKind, AllSigned
<1>6. Signed \cap {"conv_u8", "conv_u"} = {} OBVIOUS
<1> QED BY <1>3, <1>4, <1>5, <1>6

\* The type of an operator on two integers: as wide as the wider of the two in
\* CIL, and of no sign only if one of them is wide and has none.
LEMMA CommonIs ==
  ASSUME NEW t \in TypeNames \ {"r4", "r8"}, NEW u \in TypeNames \ {"r4", "r8"}
  PROVE  /\ Numeric!CommonType(t, u) \in Commons
         /\ Numeric!Width(Numeric!CommonType(t, u)) =
              IF Numeric!Width(Stands(t)) >= Numeric!Width(Stands(u))
                THEN Numeric!Width(Stands(t)) ELSE Numeric!Width(Stands(u))
         /\ ~IsWide(t) /\ ~IsWide(u) => Numeric!CommonType(t, u) \in {"i4", "i8"}
<1> DEFINE p == Numeric!Promoted(t)
           q == Numeric!Promoted(u)
           wide == IF Numeric!Width(p) >= Numeric!Width(q) THEN Numeric!Width(p) ELSE Numeric!Width(q)
<1>1. Numeric!CommonType(t, u) =
        IF {p, q} \cap Numeric!Floats # {} THEN "r8"
        ELSE IF \E r \in {p, q} : r \in Numeric!Unsigned /\ Numeric!Width(r) = wide
          THEN IF wide = Bits4 THEN "u4" ELSE "u8"
          ELSE IF wide = Bits4 THEN "i4" ELSE "i8"
  BY DEF Numeric!CommonType
<1>2. ASSUME NEW x \in TypeNames \ {"r4", "r8"}
      PROVE  /\ Numeric!Promoted(x) = IF x \in {"bool", "i1", "u1", "i2", "u2"} THEN "i4" ELSE x
             /\ Numeric!Width(Numeric!Promoted(x)) = Numeric!Width(Stands(x))
             /\ Numeric!Width(Stands(x)) \in {Bits4, Bits8}
             /\ Numeric!Promoted(x) \notin Numeric!Floats
             /\ Numeric!Promoted(x) \in Numeric!Unsigned => IsWide(x)
  <2>1. Bits1 < Bits4 /\ Bits2 < Bits4 /\ Bits4 < Bits8 /\ Bits1 \in Nat /\ Bits2 \in Nat /\ Bits4 \in Nat /\ Bits8 \in Nat
    BY NumericAssumption, WidthsOrdered
  <2>2. x \in Numeric!Types /\ x \notin Numeric!Floats BY TypesAre DEF Numeric!Floats
  <2>3. Numeric!Promoted(x) = IF Numeric!Width(x) < Bits4 THEN "i4" ELSE x
    BY <2>2 DEF Numeric!Promoted
  <2>4. Numeric!Promoted(x) = IF x \in {"bool", "i1", "u1", "i2", "u2"} THEN "i4" ELSE x
    BY <2>1, <2>3, WidthIs DEF TypeNames
  <2>5. Stands(x) = (IF x \in {"ip", "up"} THEN "ip" ELSE IF x \in {"i8", "u8"} THEN "i8" ELSE "i4")
    BY KindIs
  <2>6. /\ Numeric!Width(Numeric!Promoted(x)) = Numeric!Width(Stands(x))
        /\ Numeric!Width(Stands(x)) \in {Bits4, Bits8}
    BY <2>4, <2>5, WidthIs DEF TypeNames
  <2>7. Numeric!Promoted(x) \notin Numeric!Floats /\ (Numeric!Promoted(x) \in Numeric!Unsigned => IsWide(x))
    BY <2>4 DEF Numeric!Floats, Numeric!Unsigned, IsWide, TypeNames
  <2> QED BY <2>4, <2>6, <2>7
<1>3. Numeric!CommonType(t, u) =
        IF \E r \in {p, q} : r \in Numeric!Unsigned /\ Numeric!Width(r) = wide
          THEN IF wide = Bits4 THEN "u4" ELSE "u8"
          ELSE IF wide = Bits4 THEN "i4" ELSE "i8"
  BY <1>1, <1>2
<1>4. wide = IF Numeric!Width(Stands(t)) >= Numeric!Width(Stands(u))
               THEN Numeric!Width(Stands(t)) ELSE Numeric!Width(Stands(u))
  BY <1>2
<1>5. wide \in {Bits4, Bits8} BY <1>2
<1>6. ~IsWide(t) /\ ~IsWide(u) => p \notin Numeric!Unsigned /\ q \notin Numeric!Unsigned BY <1>2
<1> HIDE DEF p, q, wide
<1>7. Numeric!Width(Numeric!CommonType(t, u)) = wide BY <1>3, <1>5, WidthIs
<1> QED BY <1>3, <1>4, <1>6, <1>7 DEF Commons

\* The operands of an expression are converted to the type of their cast, if
\* there is one, and to the type of the operator.
LEMMA ExpressionIs ==
  ASSUME NEW op, NEW cast, NEW t, NEW a, NEW u, NEW b
  PROVE  /\ cast = "none" =>
              LET C == Numeric!CommonType(t, u)
              IN Numeric!Expression(op, cast, t, a, u, b) =
                   Numeric!Converted(C, Numeric!Applied(op, Numeric!Width(C), Numeric!Converted(C, a), Numeric!Converted(C, b)))
         /\ cast # "none" =>
              LET C == Numeric!CommonType(cast, cast)
              IN Numeric!Expression(op, cast, t, a, u, b) =
                   Numeric!Converted(C, Numeric!Applied(op, Numeric!Width(C),
                     Numeric!Converted(C, Numeric!Converted(cast, a)), Numeric!Converted(C, Numeric!Converted(cast, b))))
BY DEF Numeric!Expression

\* The operators.
LEMMA AppliedIs ==
  ASSUME NEW w, NEW a, NEW b
  PROVE  /\ Numeric!Applied("add", w, a, b) = a + b
         /\ Numeric!Applied("sub", w, a, b) = a - b
         /\ Numeric!Applied("mul", w, a, b) = a * b
         /\ Numeric!Applied("div", w, a, b) = Numeric!Quotient(a, b)
         /\ Numeric!Applied("rem", w, a, b) = a - b * Numeric!Quotient(a, b)
         /\ \A op \in {"and", "or", "xor"} :
              Numeric!Applied(op, w, a, b) = Numeric!OnBits(op, w, Numeric!AsUnsigned(w, a), Numeric!AsUnsigned(w, b))
         /\ Numeric!Applied("eq", w, a, b) = Numeric!Bit(a = b)
         /\ Numeric!Applied("ne", w, a, b) = Numeric!Bit(a # b)
         /\ Numeric!Applied("gt", w, a, b) = Numeric!Bit(a > b)
         /\ Numeric!Applied("ge", w, a, b) = Numeric!Bit(a >= b)
         /\ Numeric!Applied("lt", w, a, b) = Numeric!Bit(a < b)
         /\ Numeric!Applied("le", w, a, b) = Numeric!Bit(a <= b)
BY DEF Numeric!Applied

\* A quotient and a remainder are numbers.
LEMMA QuotientIs ==
  ASSUME NEW a \in Int, NEW b \in Int \ {0}
  PROVE  Numeric!Quotient(a, b) \in Int /\ a - b * Numeric!Quotient(a, b) \in Int
<1> DEFINE m == Numeric!Magnitude(a)
           n == Numeric!Magnitude(b)
           q == Numeric!Quotient(a, b)
<1>1. m \in Nat /\ n \in Nat \ {0} BY DEF Numeric!Magnitude
<1>2. q = IF (a < 0) = (b < 0) THEN m \div n ELSE -(m \div n) BY DEF Numeric!Quotient
<1> HIDE DEF m, n, q
<1>3. m \div n \in Int BY <1>1
<1>4. q \in Int BY <1>2, <1>3
<1>5. a - b * q \in Int BY <1>4
<1> QED BY <1>4, <1>5 DEF q
-----------------------------------------------------------------------------
\* A value that is loaded.
LEMMA WidenedAgrees ==
  ASSUME NEW t \in TypeNames, NEW v, Fits(t, v), t \in {"r4", "r8"} => Small(v)
  PROVE  Agree(t, v, Numeric!Widened(t, v))
<1> DEFINE s == Stands(t)
           z == Numeric!Widened(t, v)
<1>1. v \in Int /\ s \in TypeNames /\ s # "bool" /\ z = Numeric!Converted(s, v) BY KindIs DEF Fits
<1>2. t \in {"r4", "r8"} <=> s \in {"r4", "r8"} BY KindIs
<1> HIDE DEF s, z
<1>3. /\ Fits(s, z) /\ z \in Int
      /\ s \notin {"r4", "r8", "bool"} => Alike(Numeric!Width(s), z, v)
      /\ s \in {"r4", "r8"} => z = v
  BY <1>1, ConvertedIs
<1>4. Alike(Numeric!Width(s), z, v) => Alike(Numeric!Width(s), v, z) BY DEF Alike
<1> QED BY <1>1, <1>2, <1>3, <1>4 DEF Agree, s, z

\* A value that C and CIL have in common.
LEMMA ExactAgrees ==
  ASSUME NEW t \in {"i4", "i8", "ip", "r4", "r8"}, NEW v, Fits(t, v), t \in {"r4", "r8"} => Small(v)
  PROVE  Agree(t, v, v)
<1>1. t \in TypeNames BY DEF TypeNames
<1>2. Stands(t) = t \/ (t = "r4" /\ Stands(t) = "r8") BY <1>1, KindIs
<1>3. Numeric!Widened(t, v) = v
  <2>1. Stands(t) \in TypeNames /\ Numeric!Widened(t, v) = Numeric!Converted(Stands(t), v) /\ v \in Int
    BY <1>1, KindIs DEF Fits
  <2>2. Fits(Stands(t), v) BY <1>2 DEF Fits
  <2> QED BY <2>1, <2>2, ConvertedIs
<1> QED BY <1>1, <1>3, WidenedAgrees

\* What two operands of operators on kinds are.
Kinds(t, u) == Numeric!BinaryKind(Numeric!Kind(t), Numeric!Kind(u))
\* The kind of a result, and the kinds of operands that have one.
LEMMA KindsAre ==
  ASSUME NEW t \in TypeNames, NEW u \in TypeNames, Kinds(t, u) # "none"
  PROVE  /\ Kinds(t, u) \in {"int32", "int64", "native", "F"}
         /\ Kinds(t, u) = "F" => t \in {"r4", "r8"} /\ u \in {"r4", "r8"}
         /\ Kinds(t, u) # "F" => t \notin {"r4", "r8"} /\ u \notin {"r4", "r8"}
         /\ Kinds(t, u) = "int32" => Stands(t) = "i4" /\ Stands(u) = "i4"
         /\ Kinds(t, u) = "int64" => Stands(t) = "i8" /\ Stands(u) = "i8"
         /\ Kinds(t, u) = "native" =>
              /\ Stands(t) \in {"i4", "ip"} /\ Stands(u) \in {"i4", "ip"}
              /\ Stands(t) = "ip" \/ Stands(u) = "ip"
         /\ Numeric!KindType[Kinds(t, u)] \in {"i4", "i8", "ip", "r8"}
         /\ Numeric!Kind(t) = Numeric!Kind(u) =>
              Stands(t) = Stands(u) /\ Numeric!KindType[Kinds(t, u)] = Stands(t)
         /\ Numeric!Kind(Numeric!KindType[Kinds(t, u)]) = Kinds(t, u)
<1>1. /\ Numeric!Kind(t) = (IF t \in {"r4", "r8"} THEN "F" ELSE IF t \in {"ip", "up"} THEN "native"
                            ELSE IF t \in {"i8", "u8"} THEN "int64" ELSE "int32")
      /\ Stands(t) = (IF t \in {"r4", "r8"} THEN "r8" ELSE IF t \in {"ip", "up"} THEN "ip"
                      ELSE IF t \in {"i8", "u8"} THEN "i8" ELSE "i4")
      /\ Numeric!KindType["int32"] = "i4" /\ Numeric!KindType["int64"] = "i8"
      /\ Numeric!KindType["native"] = "ip" /\ Numeric!KindType["F"] = "r8"
  BY KindIs
<1>2. /\ Numeric!Kind(u) = (IF u \in {"r4", "r8"} THEN "F" ELSE IF u \in {"ip", "up"} THEN "native"
                            ELSE IF u \in {"i8", "u8"} THEN "int64" ELSE "int32")
      /\ Stands(u) = (IF u \in {"r4", "r8"} THEN "r8" ELSE IF u \in {"ip", "up"} THEN "ip"
                      ELSE IF u \in {"i8", "u8"} THEN "i8" ELSE "i4")
  BY KindIs
<1>3. /\ Numeric!Kind("i4") = "int32" /\ Numeric!Kind("i8") = "int64"
      /\ Numeric!Kind("ip") = "native" /\ Numeric!Kind("r8") = "F"
  BY KindIs DEF TypeNames
<1>4. Kinds(t, u) = IF Numeric!Kind(t) = Numeric!Kind(u) THEN Numeric!Kind(t)
                    ELSE IF {Numeric!Kind(t), Numeric!Kind(u)} = {"int32", "native"} THEN "native" ELSE "none"
  BY DEF Kinds, Numeric!BinaryKind
<1>5. CASE Numeric!Kind(t) = Numeric!Kind(u)
  BY <1>1, <1>2, <1>3, <1>4, <1>5
<1>6. CASE Numeric!Kind(t) # Numeric!Kind(u)
  <2>1. {Numeric!Kind(t), Numeric!Kind(u)} = {"int32", "native"} /\ Kinds(t, u) = "native"
    BY <1>4, <1>6
  <2>2. \/ Numeric!Kind(t) = "int32" /\ Numeric!Kind(u) = "native"
        \/ Numeric!Kind(t) = "native" /\ Numeric!Kind(u) = "int32"
    BY <2>1, <1>6
  <2> QED BY <2>1, <2>2, <1>1, <1>2, <1>3, <1>6
<1> QED BY <1>5, <1>6

\* The operands of an operator as it computes them: in the type of the operator,
\* alike what CIL computes with, and the same if neither is wide without a sign.
Operands(C, cast, t, a, x, w) ==
  LET A == Numeric!Converted(C, IF cast = "none" THEN a ELSE Numeric!Converted(cast, a))
  IN A \in Int /\ Alike(w, A, x) /\ (~IsWide(t) /\ C \in {"i4", "i8"} => A = x)

\* What C makes of an operand, cast or not.
LEMMA OperandIs ==
  ASSUME NEW t, NEW a, NEW x, Agree(t, a, x), t \notin {"r4", "r8"},
         NEW C \in Commons, NEW cast \in {"none", "ip"}, NEW w \in Widths,
         Numeric!Width(C) = w, cast = "ip" => Numeric!Width("ip") = w,
         Numeric!Width(Stands(t)) <= w,
         Numeric!Width(Stands(t)) = w \/ ~IsWide(t)
  PROVE  Operands(C, cast, t, a, x, w)
<1> DEFINE v == IF cast = "none" THEN a ELSE Numeric!Converted("ip", a)
           A == Numeric!Converted(C, v)
<1>1. t \in TypeNames /\ a \in Int /\ x \in Int /\ (~IsWide(t) => a = x) BY AgreeIs
<1>2. Alike(w, a, x)
  <2>1. CASE Numeric!Width(Stands(t)) = w BY <2>1 DEF Agree
  <2>2. CASE ~IsWide(t) BY <2>2, <1>1 DEF Alike
  <2> QED BY <2>1, <2>2
<1>3. C \in TypeNames /\ "ip" \in TypeNames /\ C \notin {"r4", "r8", "bool"} BY DEF Commons, TypeNames
<1>4. v \in Int /\ Alike(w, v, a)
  <2>1. CASE cast = "none" BY <2>1, <1>1 DEF Alike
  <2>2. CASE cast = "ip" BY <2>2, <1>1, <1>3, ConvertedIs
  <2> QED BY <2>1, <2>2
<1> HIDE DEF v
<1>5. A \in Int /\ Alike(w, A, v) BY <1>3, <1>4, ConvertedIs
<1>6. Alike(w, A, x) BY <1>2, <1>4, <1>5 DEF Alike
<1>7. ASSUME ~IsWide(t), C \in {"i4", "i8"} PROVE A = x
  <2>1. Stands(t) \in {"i4", "i8", "ip"} /\ Fits(Stands(t), a) /\ Stands(t) \in TypeNames \ {"r4", "r8"}
    BY <1>1, <1>7, StandsIsWider DEF Agree, TypeNames
  <2>2. Fits(C, a) BY <2>1, <1>7, FitsInWider
  <2>3. cast = "ip" => Fits("ip", a) BY <2>1, FitsInWider
  <2>4. v = a
    <3>1. cast = "ip" => Numeric!Converted("ip", a) = a BY <1>1, <1>3, <2>3, ConvertedIs
    <3> QED BY <3>1 DEF v
  <2>5. A = a BY <1>1, <1>3, <2>2, <2>4, ConvertedIs
  <2> QED BY <2>5, <1>1, <1>7
<1> HIDE DEF A
<1>8. A = Numeric!Converted(C, IF cast = "none" THEN a ELSE Numeric!Converted(cast, a)) BY DEF A, v
<1> QED BY <1>5, <1>6, <1>7, <1>8 DEF Operands
-----------------------------------------------------------------------------
\* What the converters ask of a type is what kind it has in CIL.
LEMMA FriendlyIs ==
  \A c \in TypeNames :
    /\ Numeric!IsInt32StackFriendlyType(c) <=> Numeric!Kind(c) = "int32"
    /\ Numeric!IsInt64StackFriendlyType(c) <=> Numeric!Kind(c) \in {"int32", "int64"}
    /\ Numeric!IsFloatStackFriendlyType(c) <=> Numeric!Kind(c) = "F"
    /\ Numeric!IsIntPtrStackFriendlyType(c) <=> Numeric!Kind(c) = "native"
    /\ Numeric!Kind(c) \in {"int32", "int64", "native", "F"}
<1> SUFFICES ASSUME NEW c \in TypeNames
             PROVE  /\ Numeric!IsInt32StackFriendlyType(c) <=> Numeric!Kind(c) = "int32"
                    /\ Numeric!IsInt64StackFriendlyType(c) <=> Numeric!Kind(c) \in {"int32", "int64"}
                    /\ Numeric!IsFloatStackFriendlyType(c) <=> Numeric!Kind(c) = "F"
                    /\ Numeric!IsIntPtrStackFriendlyType(c) <=> Numeric!Kind(c) = "native"
                    /\ Numeric!Kind(c) \in {"int32", "int64", "native", "F"}
  OBVIOUS
<1>1. Numeric!Kind(c) = (IF c \in {"r4", "r8"} THEN "F" ELSE IF c \in {"ip", "up"} THEN "native"
                         ELSE IF c \in {"i8", "u8"} THEN "int64" ELSE "int32")
  BY KindIs
<1>2. Numeric!StaticSizeOfValue(c) =
        IF c \in {"u1", "i1", "bool"} THEN 1 ELSE IF c \in {"i2", "u2"} THEN 2
        ELSE IF c \in {"i4", "u4", "r4"} THEN 4 ELSE 8
  <2>1. CASE c \in {"u1", "i1", "bool"} BY <2>1 DEF Numeric!StaticSizeOfValue
  <2>2. CASE c \in {"i2", "u2"} BY <2>2 DEF Numeric!StaticSizeOfValue
  <2>3. CASE c \in {"i4", "u4", "r4"} BY <2>3 DEF Numeric!StaticSizeOfValue
  <2>4. CASE c \notin {"u1", "i1", "bool", "i2", "u2", "i4", "u4", "r4"} BY <2>4 DEF Numeric!StaticSizeOfValue
  <2> QED BY <2>1, <2>2, <2>3, <2>4
<1>3. c \in Numeric!IntegerPrimitive \cup {"bool"} <=> c \notin {"ip", "up", "r4", "r8"}
  BY DEF Numeric!IntegerPrimitive, TypeNames
<1>4. Numeric!StaticSizeOfValue(c) <= 8 /\ (Numeric!StaticSizeOfValue(c) <= 4 <=> c \notin {"i8", "u8", "ip", "up", "r8"})
  BY <1>2 DEF TypeNames
<1> QED BY <1>1, <1>3, <1>4 DEF Numeric!IsInt32StackFriendlyType, Numeric!IsInt64StackFriendlyType,
       Numeric!IsFloatStackFriendlyType, Numeric!IsIntPtrStackFriendlyType, Numeric!Floats, Numeric!Pointers

\* The converter of an arithmetic or logical opcode.
Emitted(op, t, u) ==
  IF op \in Numeric!ArithmeticOpcodes THEN Numeric!Arithmetic(op, t, u) ELSE Numeric!Logical(op, t, u)
\* The operands of an opcode: what C has and what CIL has.
Applies(op, t, a, x, u, b, y) ==
  /\ Agree(t, a, x) /\ Agree(u, b, y) /\ Kinds(t, u) # "none"
  /\ Numeric!SameSign(op, {u, t})

\* The type that is pushed and the type of the casts.
LEMMA ConverterIs ==
  ASSUME NEW op, NEW t \in TypeNames, NEW u \in TypeNames, Kinds(t, u) # "none",
         Emitted(op, t, u) # Numeric!Invalid
  PROVE  LET X == Emitted(op, t, u) IN
         /\ X.type = Numeric!KindType[Kinds(t, u)]
         /\ Kinds(t, u) \in {"int32", "int64"} => X.cast = "none"
         /\ Kinds(t, u) = "native" => X.cast = "ip"
         /\ Kinds(t, u) = "F" => X.cast = "r8"
<1> DEFINE X == Emitted(op, t, u)
           K == Kinds(t, u)
<1>1. /\ Numeric!KindType["int32"] = "i4" /\ Numeric!KindType["int64"] = "i8"
      /\ Numeric!KindType["native"] = "ip" /\ Numeric!KindType["F"] = "r8"
  BY KindIs
<1>2. \A c \in TypeNames :
        /\ Numeric!IsInt32StackFriendlyType(c) <=> Numeric!Kind(c) = "int32"
        /\ Numeric!IsInt64StackFriendlyType(c) <=> Numeric!Kind(c) \in {"int32", "int64"}
        /\ Numeric!IsFloatStackFriendlyType(c) <=> Numeric!Kind(c) = "F"
        /\ Numeric!IsIntPtrStackFriendlyType(c) <=> Numeric!Kind(c) = "native"
        /\ Numeric!Kind(c) \in {"int32", "int64", "native", "F"}
  BY FriendlyIs
<1>3. K = IF Numeric!Kind(t) = Numeric!Kind(u) THEN Numeric!Kind(t)
          ELSE IF {Numeric!Kind(t), Numeric!Kind(u)} = {"int32", "native"} THEN "native" ELSE "none"
  BY DEF Kinds, Numeric!BinaryKind
<1> DEFINE k == Numeric!Kind(t)
           j == Numeric!Kind(u)
<1>4. X = IF k = "int32" /\ j = "int32" THEN Numeric!Emit("i4", "none")
          ELSE IF k \in {"int32", "int64"} /\ j \in {"int32", "int64"} THEN Numeric!Emit("i8", "none")
          ELSE IF k = "F" /\ j = "F" /\ op \in Numeric!ArithmeticOpcodes THEN Numeric!Emit("r8", "r8")
          ELSE IF k \in {"int32", "native"} /\ j \in {"int32", "native"} THEN Numeric!Emit("ip", "ip")
          ELSE Numeric!Invalid
  <2>1. Numeric!NativeOperands(t, u) <=> k \in {"int32", "native"} /\ j \in {"int32", "native"}
    BY <1>2 DEF Numeric!NativeOperands
  <2>2. CASE op \in Numeric!ArithmeticOpcodes
    BY <1>2, <2>1, <2>2 DEF Emitted, Numeric!Arithmetic
  <2>3. CASE op \notin Numeric!ArithmeticOpcodes
    BY <1>2, <2>1, <2>3 DEF Emitted, Numeric!Logical
  <2> QED BY <2>2, <2>3
<1>5. \A c, d : Numeric!Emit(c, d).type = c /\ Numeric!Emit(c, d).cast = d BY DEF Numeric!Emit
<1>6. k \in {"int32", "int64", "native", "F"} /\ j \in {"int32", "int64", "native", "F"} BY <1>2
<1>7. X # Numeric!Invalid /\ K # "none" OBVIOUS
<1> HIDE DEF X, K, k, j
<1>8. \/ K = "int32" /\ X = Numeric!Emit("i4", "none")
      \/ K = "int64" /\ X = Numeric!Emit("i8", "none")
      \/ K = "native" /\ X = Numeric!Emit("ip", "ip")
      \/ K = "F" /\ X = Numeric!Emit("r8", "r8")
  <2>1. K = IF k = j THEN k ELSE IF {k, j} = {"int32", "native"} THEN "native" ELSE "none"
    BY <1>3 DEF k, j
  <2>2. CASE k = j BY <2>1, <2>2, <1>4, <1>6, <1>7
  <2>3. CASE k # j
    <3>1. {k, j} = {"int32", "native"} /\ K = "native" BY <2>1, <2>3, <1>7
    <3>2. (k = "int32" /\ j = "native") \/ (k = "native" /\ j = "int32") BY <3>1, <2>3
    <3> QED BY <3>1, <3>2, <1>4
  <2> QED BY <2>2, <2>3
<1>9. /\ X.type = Numeric!KindType[K]
      /\ K \in {"int32", "int64"} => X.cast = "none"
      /\ K = "native" => X.cast = "ip"
      /\ K = "F" => X.cast = "r8"
  BY <1>1, <1>5, <1>8
<1> QED BY <1>9 DEF X, K

\* An operator on numbers with the same bits gives numbers with the same bits;
\* a division needs the numbers themselves.
LEMMA ResultAlike ==
  ASSUME NEW op \in {"add", "sub", "mul", "div", "rem", "and", "or", "xor"}, NEW w \in Widths,
         NEW a \in Int, NEW b \in Int, NEW x \in Int, NEW y \in Int, Alike(w, a, x), Alike(w, b, y),
         op \in {"div", "rem"} => a = x /\ b = y /\ y # 0
  PROVE  /\ Numeric!Applied(op, w, a, b) \in Int /\ Numeric!Applied(op, w, x, y) \in Int
         /\ Alike(w, Numeric!Applied(op, w, a, b), Numeric!Applied(op, w, x, y))
<1>1. CASE op \in {"add", "sub", "mul"}
  <2>1. Alike(w, a + b, x + y) /\ Alike(w, a - b, x - y) /\ Alike(w, a * b, x * y) BY AlikeResults
  <2>2. a * b \in Int /\ x * y \in Int OBVIOUS
  <2> QED BY <1>1, <2>1, <2>2, AppliedIs
<1>2. CASE op \in {"and", "or", "xor"}
  <2>1. w \in Nat BY PowerIs
  <2>2. Numeric!Applied(op, w, a, b) = Numeric!Applied(op, w, x, y)
    BY <1>2, AppliedIs, AlikeIs
  <2>3. Numeric!Applied(op, w, x, y) \in Nat BY <1>2, <2>1, AppliedIs, OnBitsIs
  <2> QED BY <2>2, <2>3 DEF Alike
<1>3. CASE op \in {"div", "rem"}
  <2>1. Numeric!Applied(op, w, x, y) \in Int BY <1>3, AppliedIs, QuotientIs
  <2> QED BY <1>3, <2>1 DEF Alike
<1> QED BY <1>1, <1>2, <1>3

\* Arithmetic and logic: the C variable that is pushed stands for what CIL pushes.
LEMMA BinaryAgrees ==
  ASSUME NEW op \in Numeric!ArithmeticOpcodes \cup Numeric!LogicalOpcodes,
         NEW t, NEW a, NEW x, NEW u, NEW b, NEW y, Applies(op, t, a, x, u, b, y),
         Emitted(op, t, u) # Numeric!Invalid, Numeric!Defined(op, Kinds(t, u), x, y)
  PROVE  LET X == Emitted(op, t, u)
             k == Kinds(t, u)
         IN /\ Numeric!Kind(X.type) = k /\ X.type \in TypeNames
            /\ Agree(X.type, Numeric!Converted(X.type, Numeric!Expression(op, X.cast, t, a, u, b)),
                     Numeric!OnStack(k, Numeric!Applied(op, Numeric!Width(Numeric!KindType[k]), x, y)))
<1> DEFINE X == Emitted(op, t, u)
           k == Kinds(t, u)
           T == Numeric!KindType[k]
           w == Numeric!Width(T)
           E == Numeric!Expression(op, X.cast, t, a, u, b)
           Z == Numeric!Applied(op, w, x, y)
<1>1. /\ t \in TypeNames /\ u \in TypeNames /\ a \in Int /\ x \in Int /\ b \in Int /\ y \in Int
      /\ ~IsWide(t) => a = x
      /\ ~IsWide(u) => b = y
  BY AgreeIs DEF Applies
<1>2. /\ X.type = T /\ Numeric!Kind(T) = k
      /\ T \in {"i4", "i8", "ip", "r8"} /\ T \in TypeNames
      /\ k \in {"int32", "int64"} => X.cast = "none"
      /\ k = "native" => X.cast = "ip"
      /\ k = "F" => X.cast = "r8"
  BY <1>1, ConverterIs, KindsAre DEF Applies, TypeNames
<1>3. /\ k \in {"int32", "int64", "native", "F"}
      /\ k = "F" => t \in {"r4", "r8"} /\ u \in {"r4", "r8"} /\ T = "r8"
      /\ k # "F" => t \notin {"r4", "r8"} /\ u \notin {"r4", "r8"} /\ T \in {"i4", "i8", "ip"}
      /\ k = "int32" => Stands(t) = "i4" /\ Stands(u) = "i4" /\ T = "i4"
      /\ k = "int64" => Stands(t) = "i8" /\ Stands(u) = "i8" /\ T = "i8"
      /\ k = "native" => Stands(t) \in {"i4", "ip"} /\ Stands(u) \in {"i4", "ip"} /\ T = "ip"
      /\ Numeric!Kind(t) = Numeric!Kind(u) => Stands(t) = T /\ Stands(u) = T
  BY <1>1, KindsAre, KindIs DEF Applies
<1>4. /\ op \in {"div", "rem"} => ~IsWide(t) /\ ~IsWide(u) /\ y # 0
      /\ Numeric!Kind(t) = Numeric!Kind(u) \/ (~IsWide(t) /\ ~IsWide(u))
  <2>1. op \notin {"conv_u8", "conv_u"} BY DEF Numeric!ArithmeticOpcodes, Numeric!LogicalOpcodes
  <2>2. Numeric!SameSign(op, {u, t}) BY DEF Applies
  <2> QED BY <1>1, <2>1, <2>2, SignIs DEF Numeric!Defined
<1>5. op \in {"add", "sub", "mul", "div", "rem", "and", "or", "xor"}
  BY DEF Numeric!ArithmeticOpcodes, Numeric!LogicalOpcodes
<1>6. Numeric!OnStack(k, Z) = Numeric!Converted(T, Z)
  BY DEF Numeric!OnStack
<1>7. CASE k = "F"
  <2>1. T = "r8" /\ X.cast = "r8" /\ a = x /\ b = y /\ "r8" \in TypeNames
    BY <1>2, <1>3, <1>7 DEF Applies, Agree, TypeNames
  <2>2. op \in {"add", "sub", "mul", "div", "rem"} /\ Numeric!Magnitude(Numeric!Applied(op, 0, x, y)) < 2 ^ Bits4
    BY <1>7 DEF Numeric!Defined, Numeric!ArithmeticOpcodes
  <2>3. Numeric!Applied(op, 0, x, y) = Z /\ Z \in Int
    <3>1. op \in {"div", "rem"} => y # 0 BY <1>4
    <3> DEFINE f == CASE op = "add" -> x + y [] op = "sub" -> x - y [] op = "mul" -> x * y
                      [] op = "div" -> Numeric!Quotient(x, y) [] op = "rem" -> x - y * Numeric!Quotient(x, y)
    <3>2. ASSUME NEW v PROVE Numeric!Applied(op, v, x, y) = f BY <2>2, AppliedIs
    <3>3. x * y \in Int BY <1>1
    <3>4. y # 0 => Numeric!Quotient(x, y) \in Int /\ x - y * Numeric!Quotient(x, y) \in Int BY <1>1, QuotientIs
    <3>5. f \in Int BY <2>2, <3>1, <3>3, <3>4, <1>1
    <3> HIDE DEF f
    <3>6. Numeric!Applied(op, 0, x, y) = f BY <3>2
    <3>7. Z = f BY <3>2
    <3> QED BY <3>5, <3>6, <3>7
  <2>4. Numeric!CommonType("r8", "r8") = "r8"
    <3>1. Numeric!Promoted("r8") = "r8" BY TypesAre DEF Numeric!Promoted, Numeric!Floats
    <3> QED BY <3>1 DEF Numeric!CommonType, Numeric!Floats
  <2>5. Numeric!Converted("r8", x) = x /\ Numeric!Converted("r8", y) = y /\ Numeric!Converted("r8", Z) = Z
    BY <1>1, <2>1, <2>3, ConvertedIs
  <2>6. E = Z
    <3>1. E = Numeric!Converted("r8", Numeric!Applied(op, Numeric!Width("r8"),
                Numeric!Converted("r8", Numeric!Converted("r8", a)), Numeric!Converted("r8", Numeric!Converted("r8", b))))
      BY <2>1, <2>4, ExpressionIs
    <3> QED BY <3>1, <2>1, <2>5
  <2> HIDE DEF Z, E
  <2>7. Small(Z)
    <3> DEFINE m == 2 ^ Bits4
    <3>1. m \in Nat BY PowerIs DEF Widths
    <3>2. Numeric!Magnitude(Z) < m BY <2>2, <2>3
    <3> HIDE DEF m
    <3>3. Z < m /\ -Z < m BY <2>3, <3>1, <3>2 DEF Numeric!Magnitude
    <3> QED BY <3>3 DEF Small, m
  <2>8. Fits("r8", Z) BY <2>3 DEF Fits
  <2>9. Agree("r8", Z, Z) BY <2>7, <2>8, ExactAgrees
  <2>10. Agree(T, Numeric!Converted(T, E), Numeric!Converted(T, Z)) BY <2>1, <2>5, <2>6, <2>9
  <2> QED BY <1>2, <1>6, <2>10 DEF E, Z
<1>8. CASE k # "F"
  <2> DEFINE C == IF X.cast = "none" THEN Numeric!CommonType(t, u) ELSE Numeric!CommonType("ip", "ip")
             A == Numeric!Converted(C, IF X.cast = "none" THEN a ELSE Numeric!Converted(X.cast, a))
             B == Numeric!Converted(C, IF X.cast = "none" THEN b ELSE Numeric!Converted(X.cast, b))
  <2>1. w \in Widths BY <1>2, WidthsOrdered
  <2>2. X.cast \in {"none", "ip"} /\ (X.cast = "ip" <=> k = "native") BY <1>2, <1>3, <1>8
  <2>3. /\ C \in Commons /\ Numeric!Width(C) = w
        /\ ~IsWide(t) /\ ~IsWide(u) => C \in {"i4", "i8"}
    <3>1. "ip" \in TypeNames \ {"r4", "r8"} /\ ~IsWide("ip") /\ Stands("ip") = "ip"
      BY KindIs DEF TypeNames, IsWide
    <3>2. t \in TypeNames \ {"r4", "r8"} /\ u \in TypeNames \ {"r4", "r8"} BY <1>1, <1>3, <1>8
    <3>3. CASE k = "native" BY <3>1, <3>3, <2>2, <1>3, CommonIs
    <3>4. CASE k # "native" BY <3>2, <3>4, <2>2, <1>3, <1>8, CommonIs
    <3> QED BY <3>3, <3>4
  <2>4. /\ Numeric!Width(Stands(t)) <= w /\ (Numeric!Width(Stands(t)) = w \/ ~IsWide(t))
        /\ Numeric!Width(Stands(u)) <= w /\ (Numeric!Width(Stands(u)) = w \/ ~IsWide(u))
    <3>1. Numeric!Width("i4") = Bits4 /\ (Numeric!Width("ip") = Bits4 \/ Numeric!Width("ip") = Bits8)
          /\ Bits4 \in Nat /\ Bits8 \in Nat /\ Bits4 <= Bits8
      BY WidthIs, NumericAssumption
    <3>2. CASE Numeric!Kind(t) = Numeric!Kind(u)
      <4>1. w \in Nat BY <2>1, PowerIs
      <4> QED BY <3>2, <4>1, <1>3
    <3>3. CASE ~IsWide(t) /\ ~IsWide(u)
      <4>1. Stands(t) = T \/ (Stands(t) = "i4" /\ T = "ip") BY <1>3, <1>8
      <4>2. Stands(u) = T \/ (Stands(u) = "i4" /\ T = "ip") BY <1>3, <1>8
      <4>3. w \in Nat BY <2>1, PowerIs
      <4> QED BY <3>1, <3>3, <4>1, <4>2, <4>3
    <3> QED BY <3>2, <3>3, <1>4
  <2>5. X.cast = "ip" => Numeric!Width("ip") = w BY <2>2, <1>3
  <2> HIDE DEF C, w, X
  <2>6. Operands(C, X.cast, t, a, x, w) /\ Operands(C, X.cast, u, b, y, w)
    <3>1. Agree(t, a, x) /\ Agree(u, b, y) /\ t \notin {"r4", "r8"} /\ u \notin {"r4", "r8"}
      BY <1>3, <1>8 DEF Applies
    <3> QED BY <3>1, <2>1, <2>2, <2>3, <2>4, <2>5, OperandIs
  <2>7. /\ A \in Int /\ B \in Int /\ Alike(w, A, x) /\ Alike(w, B, y)
        /\ op \in {"div", "rem"} => A = x /\ B = y /\ y # 0
    <3>1. A \in Int /\ Alike(w, A, x) /\ (~IsWide(t) /\ C \in {"i4", "i8"} => A = x) BY <2>6 DEF Operands
    <3>2. B \in Int /\ Alike(w, B, y) /\ (~IsWide(u) /\ C \in {"i4", "i8"} => B = y) BY <2>6 DEF Operands
    <3> QED BY <3>1, <3>2, <2>3, <1>4
  <2>8. E = Numeric!Converted(C, Numeric!Applied(op, w, A, B))
    <3>1. CASE X.cast = "none"
      BY <3>1, <2>3, ExpressionIs DEF C
    <3>2. CASE X.cast = "ip"
      BY <3>2, <2>3, ExpressionIs DEF C
    <3> QED BY <3>1, <3>2, <2>2
  <2> DEFINE R == Numeric!Applied(op, w, A, B)
  <2> HIDE DEF A, B, E, Z
  <2>9. R \in Int /\ Z \in Int /\ Alike(w, R, Z)
    BY <2>7, <2>1, <1>1, <1>5, ResultAlike DEF Z
  <2> HIDE DEF R
  <2>10. E \in Int /\ Alike(w, E, Z)
    <3>1. C \in TypeNames /\ C \notin {"r4", "r8", "bool"} BY <2>3 DEF Commons, TypeNames
    <3>2. E \in Int /\ Alike(w, E, R) BY <3>1, <2>3, <2>8, <2>9, ConvertedIs DEF R
    <3> QED BY <3>2, <2>9 DEF Alike
  <2>11. T \in TypeNames \ {"r4", "r8", "bool"} /\ T \in {"i4", "i8", "ip"} BY <1>3, <1>8 DEF TypeNames
  <2> HIDE DEF T
  <2>12. Numeric!Converted(T, E) = Numeric!Converted(T, Z)
    <3>1. Alike(Numeric!Width(T), E, Z) BY <2>10 DEF w
    <3> QED BY <3>1, <2>9, <2>10, <2>11, ConvertedAlike
  <2>13. Fits(T, Numeric!Converted(T, Z)) BY <2>9, <2>11, ConvertedIs
  <2>14. Agree(T, Numeric!Converted(T, E), Numeric!Converted(T, Z)) BY <2>11, <2>12, <2>13, ExactAgrees
  <2> QED BY <1>2, <1>6, <2>14 DEF E, Z, T, X, w
<1> QED BY <1>7, <1>8
-----------------------------------------------------------------------------
(* Comparisons.                                                            *)
CastNames == {"i4", "u4", "i8", "u8", "ip", "up"}
\* The type that operands cast to one type are compared in.
LEMMA CastCommonIs ==
  ASSUME NEW cast \in CastNames
  PROVE  LET C == Numeric!CommonType(cast, cast)
         IN /\ C \in Commons /\ Numeric!Width(C) = Numeric!Width(cast)
            /\ IF cast \in {"u4", "u8", "up"} THEN C \in {"u4", "u8"} ELSE C \in {"i4", "i8"}
<1>1. cast \in TypeNames \ {"r4", "r8"} /\ Stands(cast) = (IF cast \in {"ip", "up"} THEN "ip" ELSE IF cast \in {"i8", "u8"} THEN "i8" ELSE "i4")
  BY KindIs DEF CastNames, TypeNames
<1>2. Numeric!Width(Stands(cast)) = Numeric!Width(cast) BY <1>1, WidthIs DEF CastNames
<1>3. Numeric!Width(cast) \in {Bits4, Bits8} BY WidthIs DEF CastNames
<1>4. CASE cast \notin {"u4", "u8", "up"}
  <2>1. ~IsWide(cast) BY <1>4 DEF IsWide
  <2> QED BY <1>1, <1>2, <1>4, <2>1, CommonIs
<1>5. CASE cast \in {"u4", "u8", "up"}
  <2>1. Numeric!Promoted(cast) = cast
    <3>1. Bits4 \in Nat /\ Bits8 \in Nat /\ Bits4 < Bits8 BY NumericAssumption
    <3>2. ~(Numeric!Width(cast) < Bits4) BY <1>3, <3>1
    <3> QED BY <3>2 DEF Numeric!Promoted
  <2>2. Numeric!CommonType(cast, cast) = IF Numeric!Width(cast) = Bits4 THEN "u4" ELSE "u8"
    <3>1. cast \notin Numeric!Floats /\ cast \in Numeric!Unsigned BY <1>5 DEF Numeric!Floats, Numeric!Unsigned
    <3> QED BY <2>1, <3>1 DEF Numeric!CommonType
  <2> QED BY <2>2, <1>3, <1>5, WidthIs DEF Commons
<1> QED BY <1>4, <1>5

\* Numbers of few bits compare without their sign in more bits as in few.
LEMMA UnsignedOrder ==
  ASSUME NEW w \in Widths, NEW v \in Widths, w <= v, NEW x \in Int,
         x \in -(2 ^ (w - 1)) .. 2 ^ (w - 1) - 1
  PROVE  Numeric!AsUnsigned(v, x) = IF x >= 0 THEN x ELSE x + 2 ^ v
<1> DEFINE m == 2 ^ v
           h == 2 ^ (v - 1)
           g == 2 ^ (w - 1)
<1>1. m \in Nat \ {0} /\ h \in Nat \ {0} /\ m = 2 * h /\ g \in Nat \ {0} /\ g <= h
  BY PowerIs, WidthsOrdered
<1>2. Numeric!AsUnsigned(v, x) = x % m BY DEF Numeric!AsUnsigned
<1>3. x \in -g .. g - 1 OBVIOUS
<1> HIDE DEF m, h, g
<1>4. CASE x >= 0
  <2>1. x \in 0 .. m - 1 BY <1>1, <1>3, <1>4
  <2>2. Apart(m, x, x, 0) BY <1>1 DEF Apart
  <2>3. x % m = x BY <1>1, <2>1, <2>2, RemainderIs
  <2> QED BY <1>2, <1>4, <2>3
<1>5. CASE x < 0
  <2> DEFINE r == x + m
             k == -1
  <2>1. r \in 0 .. m - 1 /\ k \in Int BY <1>1, <1>3, <1>5
  <2>2. Apart(m, x, r, k) BY <1>1 DEF Apart
  <2> HIDE DEF r, k
  <2>3. x % m = r BY <1>1, <2>1, <2>2, RemainderIs
  <2> QED BY <1>2, <1>5, <2>3 DEF m, r
<1> QED BY <1>4, <1>5

\* An operand of a comparison, cast to a type at least as wide as its own.
LEMMA ComparedOperand ==
  ASSUME NEW t, NEW a, NEW x, Agree(t, a, x), t \notin {"r4", "r8"},
         NEW cast \in CastNames, Numeric!Width(Stands(t)) <= Numeric!Width(cast),
         Numeric!Width(Stands(t)) = Numeric!Width(cast) \/ ~IsWide(t)
  PROVE  Numeric!Converted(Numeric!CommonType(cast, cast), Numeric!Converted(cast, a)) =
           IF cast \in {"u4", "u8", "up"} THEN Numeric!AsUnsigned(Numeric!Width(cast), x) ELSE x
<1> DEFINE C == Numeric!CommonType(cast, cast)
           v == Numeric!Width(cast)
           A == Numeric!Converted(cast, a)
<1>1. t \in TypeNames /\ a \in Int /\ x \in Int /\ (~IsWide(t) => a = x) BY AgreeIs
<1>2. /\ C \in TypeNames \ {"r4", "r8", "bool"} /\ Numeric!Width(C) = v
      /\ IF cast \in {"u4", "u8", "up"} THEN C \in {"u4", "u8"} ELSE C \in {"i4", "i8"}
      /\ cast \in TypeNames /\ cast \notin {"r4", "r8", "bool"}
  BY CastCommonIs DEF CastNames, Commons, TypeNames
<1>3. v \in Widths BY <1>2, WidthsOrdered
<1>4. Alike(v, a, x)
  <2>1. CASE Numeric!Width(Stands(t)) = v BY <2>1 DEF Agree
  <2>2. CASE ~IsWide(t) BY <2>2, <1>1 DEF Alike
  <2> QED BY <2>1, <2>2
<1>5. A \in Int /\ Alike(v, A, a) BY <1>1, <1>2, ConvertedIs
<1>6. Alike(v, A, x) BY <1>4, <1>5 DEF Alike
<1> HIDE DEF A
<1>7. Numeric!Converted(C, A) = Numeric!Converted(C, x) BY <1>1, <1>2, <1>5, <1>6, ConvertedAlike
<1>8. CASE cast \in {"u4", "u8", "up"}
  <2>1. C \in {"u4", "u8"} BY <1>2, <1>8
  <2>2. Numeric!Converted(C, x) = Numeric!AsUnsigned(Numeric!Width(C), x)
    BY <2>1 DEF Numeric!Converted, Numeric!Floats, Numeric!Unsigned
  <2> QED BY <1>2, <1>7, <1>8, <2>2 DEF A
<1>9. CASE cast \notin {"u4", "u8", "up"}
  <2>1. C \in {"i4", "i8"} BY <1>2, <1>9
  <2>2. Stands(t) \in {"i4", "i8", "ip"} /\ Stands(t) \in TypeNames \ {"r4", "r8"} /\ Fits(Stands(t), x)
    BY <1>1, StandsIsWider DEF Agree, TypeNames
  <2>3. Fits(C, x) BY <2>1, <2>2, <1>2, FitsInWider
  <2>4. Numeric!Converted(C, x) = x BY <1>1, <1>2, <2>3, ConvertedIs
  <2> QED BY <1>7, <1>9, <2>4 DEF A
<1> QED BY <1>8, <1>9

\* The operator of a comparison on A and B, and what it decides.
Relations == {"eq", "ne", "gt", "ge", "lt", "le"}
Related(op, a, b) ==
  CASE op = "eq" -> a = b [] op = "ne" -> a # b [] op = "gt" -> a > b
    [] op = "ge" -> a >= b [] op = "lt" -> a < b [] op = "le" -> a <= b
\* The C expression has the value 1 if the operands are related, and otherwise 0.
LEMMA RelationIs ==
  ASSUME NEW op \in Relations, NEW w, NEW C \in Commons \cup {"r8"}, NEW a, NEW b
  PROVE  Numeric!Converted(C, Numeric!Applied(op, w, a, b)) = Numeric!Bit(Related(op, a, b))
<1>1. Numeric!Applied(op, w, a, b) = Numeric!Bit(Related(op, a, b))
  BY AppliedIs DEF Relations, Related
<1> DEFINE r == Numeric!Bit(Related(op, a, b))
<1>2. r = 0 \/ r = 1 BY DEF Numeric!Bit
<1> HIDE DEF r
<1>3. r \in Int /\ C \in TypeNames /\ C \notin {"i1", "i2"} BY <1>2 DEF Commons, TypeNames
<1>4. Fits(C, r) BY <1>2, <1>3, ZeroFits
<1>5. Numeric!Converted(C, r) = r BY <1>3, <1>4, ConvertedIs
<1> QED BY <1>1, <1>5 DEF r

\* What a comparison casts its operands to: as wide as what CIL has, or wider
\* where one is an int32 and the other a native int.
LEMMA ConditionalIs ==
  ASSUME NEW unsigned \in BOOLEAN, NEW t \in TypeNames, NEW u \in TypeNames, Kinds(t, u) # "none",
         Numeric!Conditional(unsigned, t, u) # Numeric!Invalid
  PROVE  LET X == Numeric!Conditional(unsigned, t, u) IN
         /\ X.type = "i4" /\ X.cast \in CastNames /\ Kinds(t, u) # "F"
         /\ X.cast \in {"u4", "u8", "up"} <=> unsigned
         /\ \/ /\ Numeric!Kind(t) = Numeric!Kind(u)
               /\ Numeric!Width(X.cast) = Numeric!Width(Numeric!KindType[Kinds(t, u)])
            \/ /\ Numeric!Kind(t) # Numeric!Kind(u) /\ Kinds(t, u) = "native"
               /\ Numeric!Width(X.cast) = Bits8
<1> DEFINE X == Numeric!Conditional(unsigned, t, u)
           j == Numeric!Kind(t)
           k == Numeric!Kind(u)
           K == Kinds(t, u)
           int32 == j = "int32" /\ k = "int32"
           int64 == j \in {"int32", "int64"} \/ k \in {"int32", "int64"}
           native == j = "native" /\ k = "native"
<1>1. X = IF int32 THEN Numeric!Emit("i4", IF unsigned THEN "u4" ELSE "i4")
          ELSE IF int64 THEN Numeric!Emit("i4", IF unsigned THEN "u8" ELSE "i8")
          ELSE IF native THEN Numeric!Emit("i4", IF unsigned THEN "up" ELSE "ip")
          ELSE Numeric!Invalid
  BY FriendlyIs DEF Numeric!Conditional
<1>2. /\ j \in {"int32", "int64", "native", "F"} /\ k \in {"int32", "int64", "native", "F"}
      /\ K = IF j = k THEN j ELSE IF {j, k} = {"int32", "native"} THEN "native" ELSE "none"
  BY FriendlyIs DEF Kinds, Numeric!BinaryKind
<1>3. /\ Numeric!KindType["int32"] = "i4" /\ Numeric!KindType["int64"] = "i8"
      /\ Numeric!KindType["native"] = "ip" /\ Numeric!KindType["F"] = "r8"
  BY KindIs
<1>4. X # Numeric!Invalid OBVIOUS
<1>5. \A c, d : Numeric!Emit(c, d).type = c /\ Numeric!Emit(c, d).cast = d BY DEF Numeric!Emit
<1>6. K # "none" OBVIOUS
<1> HIDE DEF X, j, k, K
<1>7. \/ j = k /\ K = "int32" /\ X = Numeric!Emit("i4", IF unsigned THEN "u4" ELSE "i4")
      \/ j = k /\ K = "int64" /\ X = Numeric!Emit("i4", IF unsigned THEN "u8" ELSE "i8")
      \/ j = k /\ K = "native" /\ X = Numeric!Emit("i4", IF unsigned THEN "up" ELSE "ip")
      \/ j # k /\ K = "native" /\ X = Numeric!Emit("i4", IF unsigned THEN "u8" ELSE "i8")
  <2>1. CASE j = k BY <1>1, <1>2, <1>4, <2>1
  <2>2. CASE j # k
    <3>1. {j, k} = {"int32", "native"} /\ K = "native" BY <1>2, <1>6, <2>2
    <3>2. (j = "int32" /\ k = "native") \/ (j = "native" /\ k = "int32") BY <3>1, <2>2
    <3> QED BY <3>1, <3>2, <1>1
  <2> QED BY <2>1, <2>2
<1>8. /\ X.type = "i4" /\ X.cast \in CastNames /\ K # "F"
      /\ X.cast \in {"u4", "u8", "up"} <=> unsigned
  BY <1>5, <1>7 DEF CastNames
<1>9. \/ j = k /\ Numeric!Width(X.cast) = Numeric!Width(Numeric!KindType[K])
      \/ j # k /\ K = "native" /\ Numeric!Width(X.cast) = Bits8
  BY <1>3, <1>5, <1>7, WidthIs
<1> QED BY <1>8, <1>9 DEF X, j, k, K

\* Comparisons: the C variable that is pushed holds what CIL pushes.
LEMMA CompareAgrees ==
  ASSUME NEW op \in {"cgt", "cgt_un", "clt", "clt_un", "ceq"},
         NEW t, NEW a, NEW x, NEW u, NEW b, NEW y, Applies(op, t, a, x, u, b, y),
         Numeric!Conditional(Numeric!ConditionalOpcodes[op].unsigned, t, u) # Numeric!Invalid
  PROVE  LET X == Numeric!Conditional(Numeric!ConditionalOpcodes[op].unsigned, t, u)
         IN /\ X.type = "i4"
            /\ Agree("i4", Numeric!Converted("i4", Numeric!Expression(Numeric!ConditionalOpcodes[op].op, X.cast, t, a, u, b)),
                     Numeric!ConditionalCil(op, Kinds(t, u), x, y))
<1> DEFINE f == Numeric!ConditionalOpcodes[op].op
           s == Numeric!ConditionalOpcodes[op].unsigned
           X == Numeric!Conditional(s, t, u)
           k == Kinds(t, u)
           T == Numeric!KindType[k]
           v == Numeric!Width(X.cast)
           V == Numeric!Width(T)
           C == Numeric!CommonType(X.cast, X.cast)
           A == Numeric!Converted(C, Numeric!Converted(X.cast, a))
           B == Numeric!Converted(C, Numeric!Converted(X.cast, b))
           p == Numeric!AsUnsigned(V, x)
           q == Numeric!AsUnsigned(V, y)
<1>1. /\ f = (IF op \in {"cgt", "cgt_un"} THEN "gt" ELSE IF op = "ceq" THEN "eq" ELSE "lt")
      /\ s \in BOOLEAN /\ (s <=> op \in {"cgt_un", "clt_un"})
  <2>1. /\ Numeric!ConditionalOpcodes["cgt"].op = "gt" /\ Numeric!ConditionalOpcodes["cgt"].unsigned = FALSE
        /\ Numeric!ConditionalOpcodes["clt"].op = "lt" /\ Numeric!ConditionalOpcodes["clt"].unsigned = FALSE
        /\ Numeric!ConditionalOpcodes["ceq"].op = "eq" /\ Numeric!ConditionalOpcodes["ceq"].unsigned = FALSE
    BY DEF Numeric!ConditionalOpcodes
  <2>2. /\ Numeric!ConditionalOpcodes["cgt_un"].op = "gt" /\ Numeric!ConditionalOpcodes["cgt_un"].unsigned = TRUE
        /\ Numeric!ConditionalOpcodes["clt_un"].op = "lt" /\ Numeric!ConditionalOpcodes["clt_un"].unsigned = TRUE
    BY DEF Numeric!ConditionalOpcodes
  <2>3. CASE op \in {"cgt", "clt", "ceq"} BY <2>1, <2>3
  <2>4. CASE op \in {"cgt_un", "clt_un"} BY <2>2, <2>4
  <2> QED BY <2>3, <2>4
<1>2. /\ t \in TypeNames /\ u \in TypeNames /\ a \in Int /\ x \in Int /\ b \in Int /\ y \in Int
      /\ k # "none" /\ Agree(t, a, x) /\ Agree(u, b, y)
  BY AgreeIs DEF Applies
<1>3. /\ X.type = "i4" /\ X.cast \in CastNames /\ k # "F" /\ (X.cast \in {"u4", "u8", "up"} <=> s)
      /\ \/ Numeric!Kind(t) = Numeric!Kind(u) /\ v = V
         \/ Numeric!Kind(t) # Numeric!Kind(u) /\ k = "native" /\ v = Bits8
  <2>1. s \in BOOLEAN BY <1>1
  <2> QED BY <1>2, <2>1, ConditionalIs
<1>4. /\ t \in TypeNames \ {"r4", "r8"} /\ u \in TypeNames \ {"r4", "r8"}
      /\ Numeric!Kind(t) = Numeric!Kind(u) => Stands(t) = T /\ Stands(u) = T
      /\ k = "native" => T = "ip" /\ Stands(t) \in {"i4", "ip"} /\ Stands(u) \in {"i4", "ip"}
  BY <1>2, <1>3, KindsAre, KindIs
<1>5. Numeric!Kind(t) # Numeric!Kind(u) => ~IsWide(t) /\ ~IsWide(u)
  <2>1. op \notin {"conv_u8", "conv_u"} OBVIOUS
  <2>2. Numeric!SameSign(op, {u, t}) BY DEF Applies
  <2> QED BY <1>2, <2>1, <2>2, SignIs
<1>6. /\ Bits4 \in Nat /\ Bits8 \in Nat /\ Bits4 < Bits8
      /\ Numeric!Width("i4") = Bits4 /\ Numeric!Width("ip") \in {Bits4, Bits8}
      /\ Bits4 \in Widths /\ Bits8 \in Widths
  BY NumericAssumption, WidthIs DEF Widths
<1>7. v \in {Bits4, Bits8} BY <1>3, WidthIs DEF CastNames
<1>8. /\ Numeric!Width(Stands(t)) <= v /\ (Numeric!Width(Stands(t)) = v \/ ~IsWide(t))
      /\ Numeric!Width(Stands(u)) <= v /\ (Numeric!Width(Stands(u)) = v \/ ~IsWide(u))
  <2>1. CASE Numeric!Kind(t) = Numeric!Kind(u)
    <3>1. Numeric!Width(Stands(t)) = v /\ Numeric!Width(Stands(u)) = v BY <2>1, <1>3, <1>4
    <3> QED BY <3>1, <1>6, <1>7
  <2>2. CASE Numeric!Kind(t) # Numeric!Kind(u)
    <3>1. k = "native" /\ v = Bits8 BY <2>2, <1>3
    <3>2. Stands(t) \in {"i4", "ip"} /\ Stands(u) \in {"i4", "ip"} BY <3>1, <1>4
    <3> QED BY <2>2, <3>1, <3>2, <1>5, <1>6
  <2> QED BY <2>1, <2>2
<1>9. /\ A = (IF s THEN Numeric!AsUnsigned(v, x) ELSE x)
      /\ B = (IF s THEN Numeric!AsUnsigned(v, y) ELSE y)
  BY <1>2, <1>3, <1>4, <1>8, ComparedOperand
<1>10. C \in Commons BY <1>3, CastCommonIs
<1>11. Numeric!Expression(f, X.cast, t, a, u, b) = Numeric!Bit(Related(f, A, B))
  <2>1. f \in Relations BY <1>1 DEF Relations
  <2>2. X.cast # "none" BY <1>3 DEF CastNames
  <2> QED BY <2>1, <2>2, <1>10, ExpressionIs, RelationIs
<1>12. s => (A > B <=> p > q) /\ (A < B <=> p < q)
  <2> SUFFICES ASSUME s PROVE (A > B <=> p > q) /\ (A < B <=> p < q) OBVIOUS
  <2>1. CASE v = V BY <2>1, <1>9
  <2>2. CASE v # V
    <3>1. k = "native" /\ v = Bits8 /\ T = "ip" BY <2>2, <1>3, <1>4
    <3>2. V \in Widths /\ V <= v /\ v \in Widths /\ V <= V
      <4>1. V = Numeric!Width("ip") /\ v = Bits8 BY <3>1
      <4> HIDE DEF V, v
      <4> QED BY <4>1, <1>6
    <3>3. Fits("ip", x) /\ Fits("ip", y)
      <4>1. /\ Stands(t) \in TypeNames \ {"r4", "r8"} /\ Stands(u) \in TypeNames \ {"r4", "r8"}
            /\ Fits(Stands(t), x) /\ Fits(Stands(u), y)
            /\ Stands(t) \in {"i4", "ip"} /\ Stands(u) \in {"i4", "ip"}
        BY <1>2, <1>4, <3>1 DEF Agree, TypeNames
      <4>2. Numeric!Width(Stands(t)) <= Numeric!Width("ip") /\ Numeric!Width(Stands(u)) <= Numeric!Width("ip")
        BY <4>1, <1>6
      <4> QED BY <4>1, <4>2, FitsInWider
    <3>4. x \in -(2 ^ (V - 1)) .. 2 ^ (V - 1) - 1 /\ y \in -(2 ^ (V - 1)) .. 2 ^ (V - 1) - 1
      BY <3>1, <3>3 DEF Fits
    <3> HIDE DEF V, v, A, B, p, q, T, k
    <3>5. /\ p = (IF x >= 0 THEN x ELSE x + 2 ^ V) /\ q = (IF y >= 0 THEN y ELSE y + 2 ^ V)
          /\ A = (IF x >= 0 THEN x ELSE x + 2 ^ v) /\ B = (IF y >= 0 THEN y ELSE y + 2 ^ v)
      <4>1. p = (IF x >= 0 THEN x ELSE x + 2 ^ V) BY <1>2, <3>2, <3>4, UnsignedOrder DEF p
      <4>2. q = (IF y >= 0 THEN y ELSE y + 2 ^ V) BY <1>2, <3>2, <3>4, UnsignedOrder DEF q
      <4>3. A = (IF x >= 0 THEN x ELSE x + 2 ^ v) BY <1>2, <1>9, <3>2, <3>4, UnsignedOrder
      <4>4. B = (IF y >= 0 THEN y ELSE y + 2 ^ v) BY <1>2, <1>9, <3>2, <3>4, UnsignedOrder
      <4> QED BY <4>1, <4>2, <4>3, <4>4
    <3> DEFINE m == 2 ^ V
               n == 2 ^ v
               h == 2 ^ (V - 1)
    <3>6. m \in Nat /\ n \in Nat /\ h \in Nat /\ m = 2 * h /\ m <= n
      BY <3>2, PowerIs, WidthsOrdered
    <3>7. x \in -h .. h - 1 /\ y \in -h .. h - 1 BY <3>4
    <3> HIDE DEF m, n, h
    <3>8. /\ p = (IF x >= 0 THEN x ELSE x + m) /\ q = (IF y >= 0 THEN y ELSE y + m)
          /\ A = (IF x >= 0 THEN x ELSE x + n) /\ B = (IF y >= 0 THEN y ELSE y + n)
      BY <3>5 DEF m, n
    <3> QED BY <3>6, <3>7, <3>8
  <2> QED BY <2>1, <2>2
<1>13. Numeric!ConditionalCil(op, k, x, y) = Numeric!Bit(Related(f, A, B))
  <2>1. Numeric!ConditionalCil(op, k, x, y) =
          Numeric!Bit(CASE op = "ceq" -> x = y [] op = "cgt" -> x > y [] op = "clt" -> x < y
                        [] op = "cgt_un" -> p > q [] op = "clt_un" -> p < q)
    BY DEF Numeric!ConditionalCil, Numeric!UnsignedOnStack
  <2> HIDE DEF A, B, p, q, f, s, k
  <2>2. CASE op = "ceq" BY <2>1, <2>2, <1>1, <1>9 DEF Related
  <2>3. CASE op \in {"cgt", "clt"} BY <2>1, <2>3, <1>1, <1>9 DEF Related
  <2>4. CASE op = "cgt_un"
    <3>1. Related(f, A, B) <=> p > q BY <2>4, <1>1, <1>12 DEF Related
    <3> QED BY <2>1, <2>4, <3>1 DEF Numeric!Bit
  <2>5. CASE op = "clt_un"
    <3>1. Related(f, A, B) <=> p < q BY <2>5, <1>1, <1>12 DEF Related
    <3> QED BY <2>1, <2>5, <3>1 DEF Numeric!Bit
  <2> QED BY <2>2, <2>3, <2>4, <2>5
<1> DEFINE r == Numeric!Bit(Related(f, A, B))
<1>14. r = 0 \/ r = 1 BY DEF Numeric!Bit
<1> HIDE DEF r
<1>15. r \in Int /\ "i4" \in TypeNames /\ Fits("i4", r) BY <1>14, ZeroFits DEF TypeNames
<1>16. Numeric!Converted("i4", r) = r BY <1>15, ConvertedIs
<1>17. Agree("i4", r, r) BY <1>15, ExactAgrees
<1> QED BY <1>3, <1>11, <1>13, <1>16, <1>17 DEF r

\* Numbers that fit in a type are the same if they have the same bits.
LEMMA SameBits ==
  ASSUME NEW t \in TypeNames \ {"r4", "r8", "bool"}, NEW x, NEW y, Fits(t, x), Fits(t, y)
  PROVE  Alike(Numeric!Width(t), x, y) <=> x = y
<1>1. /\ x \in Int /\ y \in Int /\ Numeric!Width(t) \in Widths
      /\ t \in {"u1", "u2", "u4", "u8", "up"} \/ t \in {"i1", "i2", "i4", "i8", "ip"}
  BY WidthsOrdered DEF Fits, TypeNames
<1> DEFINE w == Numeric!Width(t)
<1>2. \/ x \in 0 .. 2 ^ w - 1 /\ y \in 0 .. 2 ^ w - 1
      \/ x \in -(2 ^ (w - 1)) .. 2 ^ (w - 1) - 1 /\ y \in -(2 ^ (w - 1)) .. 2 ^ (w - 1) - 1
  BY <1>1 DEF Fits
<1> HIDE DEF w
<1>3. x = y => Alike(w, x, y) BY DEF Alike
<1>4. ASSUME Alike(w, x, y) PROVE x = y
  <2>1. w \in Widths BY <1>1 DEF w
  <2> QED BY <1>1, <1>2, <1>4, <2>1, AlikeIs
<1> QED BY <1>3, <1>4 DEF w

\* The operands of a branch, compared as they are: what C has and what CIL has
\* are equal together, and the same if neither is wide without a sign.
LEMMA BranchOperands ==
  ASSUME NEW op, op \notin {"conv_u8", "conv_u"},
         NEW t, NEW a, NEW x, NEW u, NEW b, NEW y, Applies(op, t, a, x, u, b, y)
  PROVE  LET C == Numeric!CommonType(t, u)
             A == Numeric!Converted(C, a)
             B == Numeric!Converted(C, b)
         IN /\ C \in Commons \cup {"r8"}
            /\ A = B <=> x = y
            /\ x = y <=> Numeric!UnsignedOnStack(Kinds(t, u), x) = Numeric!UnsignedOnStack(Kinds(t, u), y)
            /\ ~IsWide(t) /\ ~IsWide(u) => A = x /\ B = y
<1> DEFINE C == Numeric!CommonType(t, u)
           A == Numeric!Converted(C, a)
           B == Numeric!Converted(C, b)
           k == Kinds(t, u)
           T == Numeric!KindType[k]
           V == Numeric!Width(T)
           p == Numeric!UnsignedOnStack(k, x)
           q == Numeric!UnsignedOnStack(k, y)
<1>1. /\ t \in TypeNames /\ u \in TypeNames /\ a \in Int /\ x \in Int /\ b \in Int /\ y \in Int
      /\ ~IsWide(t) => a = x
      /\ ~IsWide(u) => b = y
      /\ k # "none" /\ Agree(t, a, x) /\ Agree(u, b, y)
  BY AgreeIs DEF Applies
<1>2. /\ k \in {"int32", "int64", "native", "F"}
      /\ k = "F" => t \in {"r4", "r8"} /\ u \in {"r4", "r8"}
      /\ k # "F" => t \in TypeNames \ {"r4", "r8"} /\ u \in TypeNames \ {"r4", "r8"}
      /\ Numeric!Kind(t) = Numeric!Kind(u) => Stands(t) = T /\ Stands(u) = T
      /\ k = "native" => Stands(t) \in {"i4", "ip"} /\ Stands(u) \in {"i4", "ip"}
  BY <1>1, KindsAre
<1>3. /\ k = "F" => T = "r8"
      /\ k # "F" => T \in {"i4", "i8", "ip"}
      /\ k = "native" => T = "ip"
  <2>1. /\ Numeric!KindType["int32"] = "i4" /\ Numeric!KindType["int64"] = "i8"
        /\ Numeric!KindType["native"] = "ip" /\ Numeric!KindType["F"] = "r8"
    BY <1>1, KindIs
  <2> QED BY <1>2, <2>1
<1>4. p = q <=> Alike(V, x, y) BY DEF Alike, Numeric!UnsignedOnStack
<1>5. CASE k = "F"
  <2>1. /\ t \in {"r4", "r8"} /\ u \in {"r4", "r8"} /\ T = "r8" /\ a = x /\ b = y
        /\ Small(x) /\ Small(y)
    BY <1>1, <1>2, <1>3, <1>5 DEF Agree
  <2>2. C = "r8"
    <3>1. Numeric!Promoted(t) = t
      BY <2>1 DEF Numeric!Promoted, Numeric!Floats
    <3> QED BY <2>1, <3>1 DEF Numeric!CommonType, Numeric!Floats
  <2>3. A = x /\ B = y
    <3>1. "r8" \in TypeNames BY DEF TypeNames
    <3> QED BY <1>1, <2>1, <2>2, <3>1, ConvertedIs
  <2>4. p = q <=> x = y
    <3> DEFINE w == Bits8
               h == 2 ^ (w - 1)
               m == 2 ^ Bits4
    <3>1. w \in Widths /\ Bits4 \in Widths /\ V = w BY <2>1, WidthIs DEF Widths
    <3>2. h \in Nat /\ m \in Nat /\ m <= h BY <3>1, PowerIs, WidthsOrdered
    <3>3. x < m /\ -x < m /\ y < m /\ -y < m BY <2>1 DEF Small
    <3> HIDE DEF h, m, w
    <3>4. x \in -h .. h - 1 /\ y \in -h .. h - 1 BY <1>1, <3>2, <3>3
    <3>5. ASSUME Alike(w, x, y) PROVE x = y
      BY <1>1, <3>1, <3>4, <3>5, AlikeIs DEF h
    <3>6. x = y => Alike(w, x, y) BY DEF Alike
    <3> QED BY <1>4, <3>1, <3>5, <3>6
  <2> QED BY <2>2, <2>3, <2>4
<1>6. CASE k # "F"
  <2> DEFINE w == Numeric!Width(C)
  <2>1. /\ C \in Commons
        /\ w = IF Numeric!Width(Stands(t)) >= Numeric!Width(Stands(u))
                 THEN Numeric!Width(Stands(t)) ELSE Numeric!Width(Stands(u))
        /\ ~IsWide(t) /\ ~IsWide(u) => C \in {"i4", "i8"}
    BY <1>2, <1>6, CommonIs
  <2>2. Numeric!Kind(t) = Numeric!Kind(u) \/ (~IsWide(t) /\ ~IsWide(u))
    <3>1. Numeric!SameSign(op, {u, t}) BY DEF Applies
    <3> QED BY <1>1, <3>1, SignIs
  <2>3. w \in Widths /\ Numeric!Width(Stands(t)) \in Nat /\ Numeric!Width(Stands(u)) \in Nat
    <3>1. Numeric!Width(Stands(t)) \in Widths /\ Numeric!Width(Stands(u)) \in Widths
      BY <1>2, <1>6, StandsIsWider
    <3> QED BY <2>1, <3>1, PowerIs
  <2> HIDE DEF w, C
  <2>4. Operands(C, "none", t, a, x, w) /\ Operands(C, "none", u, b, y, w)
    <3>1. CASE Numeric!Kind(t) = Numeric!Kind(u)
      <4>1. Numeric!Width(Stands(t)) = w /\ Numeric!Width(Stands(u)) = w BY <3>1, <2>1, <1>2
      <4>2. w <= w BY <2>3, <4>1
      <4> QED BY <4>1, <4>2, <1>1, <1>2, <1>6, <2>1, <2>3, OperandIs DEF w
    <3>2. CASE ~IsWide(t) /\ ~IsWide(u)
      <4>1. Numeric!Width(Stands(t)) <= w /\ Numeric!Width(Stands(u)) <= w BY <2>1, <2>3
      <4> QED BY <4>1, <3>2, <1>1, <1>2, <1>6, <2>1, <2>3, OperandIs DEF w
    <3> QED BY <3>1, <3>2, <2>2
  <2>5. /\ A \in Int /\ Alike(w, A, x) /\ (~IsWide(t) /\ C \in {"i4", "i8"} => A = x)
        /\ B \in Int /\ Alike(w, B, y) /\ (~IsWide(u) /\ C \in {"i4", "i8"} => B = y)
    BY <2>4 DEF Operands
  <2>6. C \in TypeNames \ {"r4", "r8", "bool"} BY <2>1 DEF Commons, TypeNames
  <2>7. Fits(C, A) /\ Fits(C, B) BY <2>6, <1>1, ConvertedIs
  <2>8. T \in TypeNames \ {"r4", "r8", "bool"} /\ T \in {"i1", "i2", "i4", "i8", "ip"} BY <1>3, <1>6 DEF TypeNames
  <2>9. Fits(T, x) /\ Fits(T, y)
    <3>1. CASE Numeric!Kind(t) = Numeric!Kind(u)
      BY <3>1, <1>1, <1>2 DEF Agree
    <3>2. CASE Numeric!Kind(t) # Numeric!Kind(u)
      <4>1. k = "native" BY <3>2, <1>1 DEF Kinds, Numeric!BinaryKind
      <4>2. T = "ip" /\ Stands(t) \in {"i4", "ip"} /\ Stands(u) \in {"i4", "ip"} BY <4>1, <1>2, <1>3
      <4>3. Fits(Stands(t), x) /\ Fits(Stands(u), y) BY <1>1 DEF Agree
      <4>4. Numeric!Width("i4") <= Numeric!Width("ip") /\ Numeric!Width("ip") <= Numeric!Width("ip")
        BY WidthIs, NumericAssumption
      <4>5. Stands(t) \in TypeNames \ {"r4", "r8"} /\ Stands(u) \in TypeNames \ {"r4", "r8"} BY <4>2 DEF TypeNames
      <4> QED BY <4>2, <4>3, <4>4, <4>5, FitsInWider
    <3> QED BY <3>1, <3>2
  <2>10. p = q <=> x = y BY <1>4, <2>8, <2>9, SameBits
  <2>11. A = B <=> x = y
    <3>1. CASE ~IsWide(t) /\ ~IsWide(u) BY <3>1, <2>1, <2>5
    <3>2. CASE Numeric!Kind(t) = Numeric!Kind(u)
      <4>1. w = V BY <3>2, <2>1, <1>2
      <4>2. Alike(w, A, B) <=> A = B BY <2>6, <2>7, SameBits DEF w
      <4>3. Alike(w, A, B) <=> Alike(w, x, y) BY <2>5 DEF Alike
      <4> QED BY <4>1, <4>2, <4>3, <1>4, <2>10
    <3> QED BY <3>1, <3>2, <2>2
  <2>12. ~IsWide(t) /\ ~IsWide(u) => A = x /\ B = y BY <2>1, <2>5
  <2> QED BY <2>1, <2>10, <2>11, <2>12 DEF C
<1> QED BY <1>5, <1>6

\* Branches on two operands but ble: the C code decides as CIL does.
LEMMA BranchAgrees ==
  ASSUME NEW op \in {"beq", "bne_un", "blt", "bgt", "bge"},
         NEW t, NEW a, NEW x, NEW u, NEW b, NEW y, Applies(op, t, a, x, u, b, y)
  PROVE  (Numeric!Expression(Numeric!BranchOpcodes[op], "none", t, a, u, b) = 1)
           <=> Numeric!BranchCil(op, Kinds(t, u), x, y)
<1> DEFINE C == Numeric!CommonType(t, u)
           A == Numeric!Converted(C, a)
           B == Numeric!Converted(C, b)
           k == Kinds(t, u)
           f == Numeric!BranchOpcodes[op]
           p == Numeric!UnsignedOnStack(k, x)
           q == Numeric!UnsignedOnStack(k, y)
<1>1. /\ C \in Commons \cup {"r8"} /\ (A = B <=> x = y) /\ (x = y <=> p = q)
      /\ ~IsWide(t) /\ ~IsWide(u) => A = x /\ B = y
  <2>1. op \notin {"conv_u8", "conv_u"} OBVIOUS
  <2> QED BY <2>1, BranchOperands
<1>2. op \in {"blt", "bgt", "bge"} => A = x /\ B = y
  <2>1. Numeric!SameSign(op, {u, t}) /\ t \in TypeNames /\ u \in TypeNames BY AgreeIs DEF Applies
  <2> QED BY <1>1, <2>1, SignIs
<1>3. f = (CASE op = "beq" -> "eq" [] op = "bne_un" -> "ne" [] op = "blt" -> "lt"
             [] op = "bgt" -> "gt" [] op = "bge" -> "ge")
  BY DEF Numeric!BranchOpcodes
<1> HIDE DEF f, p, q, A, B
<1>4. Numeric!Expression(f, "none", t, a, u, b) = Numeric!Bit(Related(f, A, B))
  <2>1. f \in Relations BY <1>3 DEF Relations
  <2> QED BY <2>1, <1>1, ExpressionIs, RelationIs DEF A, B
<1>5. Numeric!Bit(Related(f, A, B)) = 1 <=> Related(f, A, B) BY DEF Numeric!Bit
<1>6. Numeric!BranchCil(op, k, x, y) =
        (CASE op = "beq" -> x = y [] op = "bne_un" -> p # q [] op = "blt" -> x < y
           [] op = "bgt" -> x > y [] op = "bge" -> x >= y)
  BY DEF Numeric!BranchCil, p, q
<1>7. Related(f, A, B) <=> Numeric!BranchCil(op, k, x, y)
  <2>1. CASE op = "beq" BY <2>1, <1>1, <1>3, <1>6 DEF Related
  <2>2. CASE op = "bne_un" BY <2>2, <1>1, <1>3, <1>6 DEF Related
  <2>3. CASE op \in {"blt", "bgt", "bge"} BY <2>3, <1>2, <1>3, <1>6 DEF Related
  <2> QED BY <2>1, <2>2, <2>3
<1> QED BY <1>4, <1>5, <1>7 DEF f
-----------------------------------------------------------------------------
(* Conversions, loads of elements and stores.                              *)
ConvNames ==
  {"conv_i1", "conv_i2", "conv_i4", "conv_i8", "conv_i", "conv_u1", "conv_u2", "conv_u4",
   "conv_u8", "conv_u", "conv_r4", "conv_r8"}
Target(op) ==
  CASE op = "conv_i1" -> "i1" [] op = "conv_i2" -> "i2" [] op = "conv_i4" -> "i4"
    [] op = "conv_i8" -> "i8" [] op = "conv_i" -> "ip" [] op = "conv_u1" -> "u1"
    [] op = "conv_u2" -> "u2" [] op = "conv_u4" -> "u4" [] op = "conv_u8" -> "u8"
    [] op = "conv_u" -> "up" [] op = "conv_r4" -> "r4" [] op = "conv_r8" -> "r8"
Between(op) == CASE op \in {"conv_i1", "conv_i2"} -> "i4" [] op = "conv_u1" -> "u4"

\* Casts one after the other.
LEMMA CastsAre ==
  ASSUME NEW v
  PROVE  /\ Numeric!Casts(<<>>, v) = v
         /\ \A t : Numeric!Casts(<<t>>, v) = Numeric!Converted(t, v)
         /\ \A t, u : Numeric!Casts(<<t, u>>, v) = Numeric!Converted(u, Numeric!Converted(t, v))
BY DEF Numeric!Casts

\* What the conversions push.
LEMMA ConvIs ==
  ASSUME NEW op \in ConvNames, NEW v
  PROVE  /\ Numeric!Last(Numeric!ConvOpcodes[op]) = Target(op)
         /\ Numeric!Casts(Numeric!ConvOpcodes[op], v) =
              IF op \in {"conv_i1", "conv_i2", "conv_u1"}
                THEN Numeric!Converted(Target(op), Numeric!Converted(Between(op), v))
                ELSE Numeric!Converted(Target(op), v)
<1>1. Numeric!ConvOpcodes[op] =
        IF op \in {"conv_i1", "conv_i2", "conv_u1"} THEN <<Between(op), Target(op)>> ELSE <<Target(op)>>
  BY DEF ConvNames, Numeric!ConvOpcodes, Target, Between
<1>2. \A t, u : Numeric!Last(<<t>>) = t /\ Numeric!Last(<<u, t>>) = t BY DEF Numeric!Last
<1> DEFINE x == Between(op)
           y == Target(op)
<1>5. /\ Numeric!Last(<<y>>) = y /\ Numeric!Last(<<x, y>>) = y
      /\ Numeric!Casts(<<y>>, v) = Numeric!Converted(y, v)
      /\ Numeric!Casts(<<x, y>>, v) = Numeric!Converted(y, Numeric!Converted(x, v))
  BY <1>2, CastsAre, Zenon
<1>3. CASE op \in {"conv_i1", "conv_i2", "conv_u1"}
  <2>1. Numeric!ConvOpcodes[op] = <<x, y>> BY <1>1, <1>3, Zenon
  <2> HIDE DEF x, y
  <2>2. /\ Numeric!Last(Numeric!ConvOpcodes[op]) = y
        /\ Numeric!Casts(Numeric!ConvOpcodes[op], v) = Numeric!Converted(y, Numeric!Converted(x, v))
    BY <2>1, <1>5, Zenon
  <2> QED BY <2>2, <1>3, Zenon DEF x, y
<1>4. CASE op \notin {"conv_i1", "conv_i2", "conv_u1"}
  <2>1. Numeric!ConvOpcodes[op] = <<y>> BY <1>1, <1>4, Zenon
  <2> HIDE DEF x, y
  <2>2. /\ Numeric!Last(Numeric!ConvOpcodes[op]) = y
        /\ Numeric!Casts(Numeric!ConvOpcodes[op], v) = Numeric!Converted(y, v)
    BY <2>1, <1>5, Zenon
  <2> QED BY <2>2, <1>4, Zenon DEF x, y
<1> QED BY <1>3, <1>4

\* Casting to a wider type first changes nothing.
LEMMA NarrowingIs ==
  ASSUME NEW t \in {"i1", "i2", "u1"}, NEW u \in {"i4", "u4"}, NEW v \in Int
  PROVE  Numeric!Converted(t, Numeric!Converted(u, v)) = Numeric!Converted(t, v)
<1> DEFINE x == Numeric!Converted(u, v)
<1>1. t \in TypeNames \ {"r4", "r8", "bool"} /\ u \in TypeNames /\ u \notin {"r4", "r8", "bool"} BY DEF TypeNames
<1>2. x \in Int /\ Alike(Numeric!Width(u), x, v) BY <1>1, ConvertedIs
<1>3. /\ Numeric!Width(u) = Bits4 /\ Bits4 \in Widths
      /\ Numeric!Width(t) \in Widths /\ Numeric!Width(t) <= Bits4
  BY WidthIs, NumericAssumption DEF Widths
<1> HIDE DEF x
<1>4. Alike(Numeric!Width(t), x, v) BY <1>2, <1>3, AlikeInFewer
<1>5. Numeric!Converted(t, x) = Numeric!Converted(t, v) BY <1>1, <1>2, <1>4, ConvertedAlike
<1> QED BY <1>5 DEF x

\* Conversions: the C variable that is pushed stands for what CIL pushes.
LEMMA ConvertAgrees ==
  ASSUME NEW op \in ConvNames, NEW t, NEW c, NEW z, Agree(t, c, z), Numeric!SameSign(op, {t}),
         Numeric!ConvAccepts(op, t), Numeric!ConvDefined(op, Numeric!Kind(t), z)
  PROVE  Agree(Target(op), Numeric!Casts(Numeric!ConvOpcodes[op], c), Numeric!ConvCil(op, Numeric!Kind(t), z))
<1> DEFINE T == Target(op)
           k == Numeric!Kind(t)
           source == IF op \in {"conv_u8", "conv_u"} /\ k # "F" THEN Numeric!UnsignedOnStack(k, z) ELSE z
           d == Numeric!Casts(Numeric!ConvOpcodes[op], c)
<1>1. /\ t \in TypeNames /\ c \in Int /\ z \in Int
      /\ ~IsWide(t) => c = z
      /\ t \in {"u1", "u2", "u4", "u8", "up"} => c = Numeric!AsUnsigned(Numeric!Width(Stands(t)), z)
  BY AgreeIs
<1>2. T \in TypeNames /\ T # "bool" BY DEF ConvNames, Target, TypeNames
<1>3. Numeric!Last(Numeric!ConvOpcodes[op]) = T /\ d = Numeric!Converted(T, c)
  <2>1. CASE op \in {"conv_i1", "conv_i2", "conv_u1"}
    <3>1. T \in {"i1", "i2", "u1"} /\ Between(op) \in {"i4", "u4"} BY <2>1 DEF Target, Between
    <3>2. d = Numeric!Converted(T, Numeric!Converted(Between(op), c)) /\ Numeric!Last(Numeric!ConvOpcodes[op]) = T
      BY <2>1, ConvIs
    <3> QED BY <3>1, <3>2, <1>1, NarrowingIs
  <2>2. CASE op \notin {"conv_i1", "conv_i2", "conv_u1"} BY <2>2, ConvIs
  <2> QED BY <2>1, <2>2
<1>4. Numeric!ConvCil(op, k, z) = Numeric!Widened(T, Numeric!Converted(T, source))
  BY <1>3 DEF Numeric!ConvCil
<1>5. t \notin {"r4", "r8"} => k # "F" /\ Numeric!KindType[k] = Stands(t) /\ k \in {"int32", "int64", "native"}
  BY <1>1, KindIs DEF Stands
<1>6. t \in {"r4", "r8"} => k = "F" /\ c = z /\ Small(c) BY <1>1, KindIs DEF Agree
<1>7. T \in {"r4", "r8"} => op \in {"conv_r4", "conv_r8"} /\ t \in {"r4", "r8"}
  <2>1. T \in {"r4", "r8"} => op \in {"conv_r4", "conv_r8"} BY DEF ConvNames, Target
  <2> QED BY <2>1 DEF Numeric!ConvAccepts, Numeric!Floats
<1>8. t # "bool"
  BY DEF Numeric!ConvAccepts, Numeric!Floats, Numeric!NumericPrimitive, Numeric!IntegerPrimitive, Numeric!Pointers
<1>9. Numeric!Converted(T, source) = Numeric!Converted(T, c)
  <2>1. CASE t \in {"r4", "r8"} BY <2>1, <1>6
  <2>2. CASE t \notin {"r4", "r8"} /\ op \in {"conv_u8", "conv_u"}
    <3> DEFINE w == Numeric!Width(Stands(t))
               s == Numeric!AsUnsigned(w, z)
    <3>1. source = s BY <2>2, <1>5 DEF Numeric!UnsignedOnStack
    <3>2. T \in {"u8", "up"} BY <2>2 DEF Target
    <3>3. t \in Numeric!Unsigned \cup Numeric!Floats \/ Numeric!Width(t) = Numeric!Width(T)
      BY <2>2, <1>3 DEF Numeric!SameSign
    <3>4. CASE t \in {"u1", "u2", "u4", "u8", "up"} BY <3>1, <3>4, <1>1
    <3>5. CASE t \notin {"u1", "u2", "u4", "u8", "up"}
      <4>1. Numeric!Width(t) = Numeric!Width(T) BY <3>3, <3>5, <2>2, <1>8 DEF Numeric!Unsigned, Numeric!Floats
      <4>2. t \in {"i1", "i2", "i4", "i8", "ip"} BY <3>5, <2>2, <1>1, <1>8 DEF TypeNames
      <4>3. Bits1 # Bits4 /\ Bits1 # Bits8 /\ Bits2 # Bits4 /\ Bits2 # Bits8 BY NumericAssumption
      <4>4. Stands(t) = t
        <5>1. Numeric!Width(T) \in {Bits4, Bits8} BY <3>2, WidthIs
        <5>2. t \in {"i4", "i8", "ip"} BY <4>1, <4>2, <4>3, <5>1, WidthIs
        <5> QED BY <5>2, <1>1, KindIs
      <4>5. w = Numeric!Width(T) /\ w \in Widths BY <4>1, <4>4, <1>2, WidthsOrdered
      <4>6. c = z BY <4>2, <1>1 DEF IsWide
      <4> HIDE DEF w
      <4>7. Alike(w, s, z) /\ s \in Int
        <5>1. Alike(w, s, z) /\ s \in 0 .. 2 ^ w - 1 BY <4>5, <1>1, CutIs
        <5>2. 2 ^ w \in Nat BY <4>5, PowerIs
        <5> QED BY <5>1, <5>2
      <4> HIDE DEF s
      <4>8. Alike(Numeric!Width(T), s, z) BY <4>5, <4>7
      <4>9. T \in TypeNames \ {"r4", "r8", "bool"} BY <3>2 DEF TypeNames
      <4>10. Numeric!Converted(T, s) = Numeric!Converted(T, z) BY <4>7, <4>8, <4>9, <1>1, ConvertedAlike
      <4> QED BY <4>6, <4>10, <3>1
    <3> QED BY <3>4, <3>5
  <2>3. CASE t \notin {"r4", "r8"} /\ op \in {"conv_i8", "conv_i"}
    <3>1. {t, t} = {t} OBVIOUS
    <3>2. ~IsWide(t)
      <4>1. Numeric!SameSign(op, {t, t}) BY <3>1
      <4> QED BY <4>1, <2>3, <1>1, SignIs
    <3> QED BY <3>2, <2>3, <1>1
  <2>4. CASE t \notin {"r4", "r8"} /\ op \notin {"conv_u8", "conv_u", "conv_i8", "conv_i"}
    <3>1. T \in {"i1", "i2", "i4", "u1", "u2", "u4"}
      <4>1. T \notin {"r4", "r8"} BY <1>7, <2>4
      <4> QED BY <4>1, <2>4 DEF Target, ConvNames
    <3>2. Numeric!Width(T) \in Widths /\ Numeric!Width(T) <= Bits4 /\ Bits4 \in Widths
      BY <3>1, WidthIs, NumericAssumption DEF Widths
    <3>3. Numeric!Width(Stands(t)) \in {Bits4, Bits8} BY <2>4, <1>1, StandsIsWider, WidthIs
    <3>4. Bits4 <= Numeric!Width(Stands(t)) /\ Numeric!Width(Stands(t)) \in Widths
      BY <3>3, NumericAssumption DEF Widths
    <3>5. Numeric!Width(T) <= Numeric!Width(Stands(t)) BY <3>2, <3>4, PowerIs
    <3>6. Alike(Numeric!Width(Stands(t)), c, z) BY <2>4 DEF Agree
    <3>7. Alike(Numeric!Width(T), c, z) BY <3>2, <3>4, <3>5, <3>6, <1>1, AlikeInFewer
    <3>8. T \in TypeNames \ {"r4", "r8", "bool"} BY <3>1 DEF TypeNames
    <3>9. Numeric!Converted(T, c) = Numeric!Converted(T, z) BY <3>7, <3>8, <1>1, ConvertedAlike
    <3> QED BY <3>9, <2>4
  <2> QED BY <2>1, <2>2, <2>3, <2>4
<1> HIDE DEF T, d, source, k
<1>10. Fits(T, d) BY <1>1, <1>2, <1>3, ConvertedIs
<1>11. T \in {"r4", "r8"} => Small(d)
  <2>1. T \in {"r4", "r8"} => d = c BY <1>1, <1>2, <1>3, ConvertedIs
  <2> QED BY <2>1, <1>6, <1>7
<1>12. Numeric!ConvCil(op, k, z) = Numeric!Widened(T, d) BY <1>3, <1>4, <1>9
<1> QED BY <1>2, <1>10, <1>11, <1>12, WidenedAgrees DEF T, d, k

\* The least value of a bool fits wherever a bool is stored.
LEMMA BoolFits ==
  ASSUME NEW v \in {0, 1}, NEW t \in TypeNames, t \notin {"i1", "i2"}
  PROVE  Fits(t, v) /\ Numeric!Converted(t, v) = v
<1>1. Fits(t, v) BY ZeroFits
<1>2. v \in Int OBVIOUS
<1> QED BY <1>1, <1>2, ConvertedIs

\* The casts of an assignment.
LEMMA RightIs ==
  ASSUME NEW lhs \in TypeNames, NEW rhs \in TypeNames, NEW v
  PROVE  Numeric!Casts(Numeric!RightExpression(lhs, rhs), v) =
           IF lhs = rhs THEN v
           ELSE IF rhs # "bool" THEN Numeric!Converted(IF lhs # "bool" THEN lhs ELSE "bool", v)
           ELSE IF lhs = "i4" THEN Numeric!Converted("i4", v)
           ELSE Numeric!Converted(lhs, Numeric!Converted("i4", v))
<1>1. \A t \in TypeNames : t \in Numeric!NumericPrimitive <=> t # "bool"
  BY DEF TypeNames, Numeric!NumericPrimitive, Numeric!IntegerPrimitive, Numeric!Pointers, Numeric!Floats
<1>2. Numeric!RightExpression(lhs, rhs) =
        IF lhs = rhs THEN <<>>
        ELSE IF rhs # "bool" THEN IF lhs # "bool" THEN <<lhs>> ELSE <<"bool">>
        ELSE IF lhs = "i4" THEN <<"i4">> ELSE <<"i4", lhs>>
  BY <1>1 DEF Numeric!RightExpression
<1> DEFINE casts == Numeric!RightExpression(lhs, rhs)
<1> HIDE DEF casts
<1>3. CASE lhs = rhs
  <2>1. casts = <<>> BY <1>2, <1>3 DEF casts
  <2> QED BY <1>3, <2>1, CastsAre DEF casts
<1>4. CASE lhs # rhs /\ rhs # "bool"
  <2>1. casts = <<lhs>> BY <1>2, <1>4 DEF casts
  <2>2. Numeric!Casts(casts, v) = Numeric!Converted(lhs, v) BY <2>1, CastsAre
  <2> QED BY <1>4, <2>2 DEF casts
<1>5. CASE lhs # rhs /\ rhs = "bool"
  <2>1. casts = IF lhs = "i4" THEN <<"i4">> ELSE <<"i4", lhs>> BY <1>2, <1>5 DEF casts
  <2>2. lhs = "i4" => Numeric!Casts(casts, v) = Numeric!Converted("i4", v) BY <2>1, CastsAre
  <2>3. lhs # "i4" => Numeric!Casts(casts, v) = Numeric!Converted(lhs, Numeric!Converted("i4", v))
    BY <2>1, CastsAre
  <2> QED BY <1>5, <2>2, <2>3 DEF casts
<1> QED BY <1>3, <1>4, <1>5

\* Assigned to a variable of its own or of another number type, a value is
\* converted to that type once.
LEMMA AssignedIs ==
  ASSUME NEW lhs \in TypeNames, NEW rhs \in TypeNames, NEW v \in Int, lhs = "bool" \/ rhs = "bool" => v \in {0, 1}
  PROVE  Numeric!Converted(lhs, Numeric!Casts(Numeric!RightExpression(lhs, rhs), v)) = Numeric!Converted(lhs, v)
<1> DEFINE x == Numeric!Converted(lhs, v)
<1>1. Fits(lhs, x) /\ x \in Int BY ConvertedIs
<1>2. Numeric!Converted(lhs, x) = x BY <1>1, ConvertedIs
<1>3. CASE lhs = rhs BY <1>3, RightIs
<1>4. CASE lhs # rhs /\ rhs # "bool" BY <1>2, <1>4, RightIs
<1>5. CASE lhs # rhs /\ rhs = "bool"
  <2>1. "i4" \in TypeNames /\ v \in {0, 1} BY <1>5 DEF TypeNames
  <2>2. Numeric!Converted("i4", v) = v BY <2>1, BoolFits
  <2>3. Numeric!Casts(Numeric!RightExpression(lhs, rhs), v) \in {v, x} BY <1>5, <2>2, RightIs
  <2> QED BY <1>2, <2>3
<1> QED BY <1>3, <1>4, <1>5

LoadNames ==
  {"ldelem_i1", "ldelem_i2", "ldelem_i4", "ldelem_i8", "ldelem_u1", "ldelem_u2", "ldelem_u4",
   "ldelem_r4", "ldelem_r8"}
\* Loads of elements: the C variable that is pushed stands for what CIL pushes.
LEMMA LdelemAgrees ==
  ASSUME NEW op \in LoadNames, NEW e \in TypeNames, NEW v, Fits(e, v), e \in {"r4", "r8"} => Small(v),
         Numeric!Kind(e) = Numeric!Kind(Numeric!LdelemOpcodes[op])
  PROVE  LET t == Numeric!LdelemOpcodes[op]
         IN Agree(t, Numeric!Converted(t, Numeric!Casts(Numeric!RightExpression(t, e), v)),
                  Numeric!Widened(t, Numeric!Converted(t, v)))
<1> DEFINE t == Numeric!LdelemOpcodes[op]
           d == Numeric!Converted(t, v)
<1>1. t \in TypeNames /\ t # "bool" BY DEF LoadNames, Numeric!LdelemOpcodes, TypeNames
<1>2. v \in Int /\ (e = "bool" => v \in {0, 1}) BY DEF Fits
<1> HIDE DEF t
<1>3. Numeric!Converted(t, Numeric!Casts(Numeric!RightExpression(t, e), v)) = d BY <1>1, <1>2, AssignedIs
<1>4. t \in {"r4", "r8"} => e \in {"r4", "r8"}
  <2>1. Numeric!Kind(e) = Numeric!Kind(t) BY DEF t
  <2> QED BY <1>1, <2>1, KindIs
<1>5. Fits(t, d) /\ (t \in {"r4", "r8"} => d = v) BY <1>1, <1>2, ConvertedIs
<1> HIDE DEF d
<1>6. t \in {"r4", "r8"} => Small(d) BY <1>4, <1>5
<1>7. Agree(t, d, Numeric!Widened(t, d)) BY <1>1, <1>5, <1>6, WidenedAgrees
<1> QED BY <1>3, <1>7 DEF t, d

\* What a location holds: the same for C and for CIL.
Holds(t, c, z) ==
  t \in TypeNames /\ Fits(t, c) /\ c = z /\ (t \in {"r4", "r8"} => Small(c))
\* Stores: the location gets the value CIL stores there.
LEMMA AssignAgrees ==
  ASSUME NEW t \in TypeNames, NEW u, NEW c, NEW z, Agree(u, c, z),
         \/ Numeric!Kind(u) = Numeric!Kind(t)
         \/ Numeric!Kind(u) = "int32" /\ Numeric!Kind(t) = "native" /\ ~IsWide(u),
         t = "bool" => z \in {0, 1}
  PROVE  Holds(t, Numeric!Converted(t, Numeric!Casts(Numeric!RightExpression(t, u), c)), Numeric!Narrowed(t, z))
<1> DEFINE d == Numeric!Converted(t, c)
<1>1. /\ u \in TypeNames /\ c \in Int /\ z \in Int /\ Numeric!Converted(u, c) = c
      /\ ~IsWide(u) => c = z
  BY AgreeIs
<1>2. ASSUME IsWide(u)
      PROVE  /\ Stands(t) = Stands(u) /\ u \in TypeNames \ {"r4", "r8", "bool"}
             /\ t \in TypeNames \ {"r4", "r8"} /\ Alike(Numeric!Width(Stands(u)), c, z)
  <2>1. Numeric!Kind(t) = Numeric!Kind(u) BY <1>2
  <2>2. u \notin {"r4", "r8", "bool", "i1", "i2"} BY <1>2 DEF IsWide
  <2>3. Numeric!Kind(u) # "F" BY <1>1, <2>2, KindIs
  <2>4. t \notin {"r4", "r8"} BY <2>1, <2>3, KindIs
  <2> QED BY <1>1, <2>1, <2>2, <2>4 DEF Stands, Agree
<1>3. ASSUME IsWide(u), NEW s \in TypeNames \ {"r4", "r8", "bool"}, Stands(s) = Stands(u)
      PROVE  Numeric!Converted(s, c) = Numeric!Converted(s, z)
  <2> DEFINE v == Numeric!Width(s)
             w == Numeric!Width(Stands(u))
  <2>1. v \in Widths /\ w \in Widths /\ v <= w BY <1>3, StandsIsWider
  <2>2. Alike(w, c, z) BY <1>2, <1>3
  <2> HIDE DEF v, w
  <2>3. Alike(v, c, z) BY <1>1, <2>1, <2>2, AlikeInFewer
  <2> QED BY <1>1, <2>3, ConvertedAlike DEF v
<1>4. t = "bool" \/ u = "bool" => c \in {0, 1} /\ c = z
  <2>1. CASE u = "bool"
    <3>1. ~IsWide(u) BY <2>1 DEF IsWide
    <3> QED BY <1>1, <2>1, <3>1 DEF Agree, Fits
  <2>2. CASE t = "bool" /\ ~IsWide(u) BY <1>1, <2>2
  <2>3. CASE t = "bool" /\ IsWide(u)
    <3>1. z \in {0, 1} /\ u \in TypeNames /\ u \notin {"i1", "i2"} BY <1>1, <2>3 DEF IsWide
    <3>2. Numeric!Converted(u, z) = z BY <3>1, BoolFits
    <3>3. Numeric!Converted(u, c) = Numeric!Converted(u, z) BY <1>2, <1>3, <2>3
    <3> QED BY <1>1, <3>1, <3>2, <3>3
  <2> QED BY <2>1, <2>2, <2>3
<1>5. Numeric!Converted(t, Numeric!Casts(Numeric!RightExpression(t, u), c)) = d
  BY <1>1, <1>4, AssignedIs
<1>6. Numeric!Narrowed(t, z) = d
  <2>1. CASE t = "bool"
    <3>1. "u1" \in TypeNames /\ "bool" \in TypeNames /\ z \in {0, 1} BY <2>1 DEF TypeNames
    <3>2. Numeric!Converted("u1", z) = z /\ Numeric!Converted("bool", z) = z BY <3>1, BoolFits
    <3> QED BY <2>1, <3>2, <1>4 DEF Numeric!Narrowed
  <2>2. CASE t # "bool" /\ ~IsWide(u) BY <2>2, <1>1 DEF Numeric!Narrowed
  <2>3. CASE t # "bool" /\ IsWide(u)
    <3>1. Numeric!Converted(t, c) = Numeric!Converted(t, z) BY <1>2, <1>3, <2>3
    <3> QED BY <2>3, <3>1 DEF Numeric!Narrowed
  <2> QED BY <2>1, <2>2, <2>3
<1>7. t \in {"r4", "r8"} => Small(c)
  <2>1. t \in {"r4", "r8"} => u \in {"r4", "r8"} BY <1>1, KindIs
  <2> QED BY <2>1 DEF Agree
<1>8. Fits(t, d) /\ (t \in {"r4", "r8"} => d = c) BY <1>1, ConvertedIs
<1> HIDE DEF d
<1>9. t \in {"r4", "r8"} => Small(d) BY <1>7, <1>8
<1>10. Holds(t, d, d) BY <1>8, <1>9 DEF Holds
<1> QED BY <1>5, <1>6, <1>10 DEF d

\* The boundary values of a type are of the type.
LEMMA BoundaryFits ==
  ASSUME NEW t \in TypeNames, NEW v \in Numeric!Boundary(t)
  PROVE  Fits(t, v) /\ (t \in {"r4", "r8"} => Small(v))
<1> DEFINE w == Numeric!Width(t)
           m == 2 ^ w
           h == 2 ^ (w - 1)
<1>1. w \in Widths BY WidthsOrdered
<1>2. m \in Nat \ {0} /\ h \in Nat \ {0} BY <1>1, PowerIs
<1>3. v \in (CASE t = "bool" -> {0, 1} [] t \in Numeric!Floats -> {-1, 3}
               [] t \in Numeric!Unsigned \ {"bool"} -> {0, 1, m - 1} [] OTHER -> {-h, -1, h - 1})
  BY DEF Numeric!Boundary
<1>4. m >= 2
  <2>1. 2 <= 2 ^ Bits1 /\ \A x \in Widths : 2 ^ Bits1 <= 2 ^ x
    BY WidthsOrdered, NumericAssumption DEF Widths
  <2> DEFINE n == 2 ^ Bits1
  <2>2. n \in Nat /\ 2 <= n /\ n <= m
    <3>1. Bits1 \in Widths BY DEF Widths
    <3>2. n \in Nat BY <3>1, PowerIs
    <3> QED BY <1>1, <2>1, <3>2
  <2>3. m \in Nat BY <1>2
  <2> HIDE DEF m, n
  <2> QED BY <2>2, <2>3
<1>5. 8 <= 2 ^ Bits4 /\ 2 ^ Bits4 \in Nat BY WidthsOrdered, PowerIs DEF Widths
<1> HIDE DEF w, m, h
<1>6. CASE t = "bool"
  <2>1. v \in {0, 1} BY <1>3, <1>6 DEF Numeric!Floats, Numeric!Unsigned
  <2> QED BY <2>1, <1>6 DEF Fits
<1>7. CASE t \in {"r4", "r8"}
  <2>1. v \in {-1, 3} BY <1>3, <1>7 DEF Numeric!Floats, Numeric!Unsigned
  <2> DEFINE n == 2 ^ Bits4
  <2>2. n \in Nat /\ 8 <= n BY <1>5
  <2> HIDE DEF n
  <2>3. v < n /\ -v < n BY <2>1, <2>2
  <2>4. v \in Int BY <2>1
  <2> QED BY <2>3, <2>4, <1>7 DEF Fits, Small, n
<1>8. CASE t \in {"u1", "u2", "u4", "u8", "up"}
  <2>1. v \in {0, 1, m - 1} BY <1>3, <1>8 DEF Numeric!Floats, Numeric!Unsigned
  <2>2. v \in Int /\ v \in 0 .. m - 1 BY <2>1, <1>2, <1>4
  <2> QED BY <2>2, <1>8 DEF Fits, w, m
<1>9. CASE t \in {"i1", "i2", "i4", "i8", "ip"}
  <2>1. v \in {-h, -1, h - 1} BY <1>3, <1>9 DEF Numeric!Floats, Numeric!Unsigned
  <2>2. v \in Int /\ v \in -h .. h - 1 BY <2>1, <1>2
  <2> QED BY <2>2, <1>9 DEF Fits, w, h
<1> QED BY <1>6, <1>7, <1>8, <1>9 DEF TypeNames
-----------------------------------------------------------------------------
(* The state.                                                              *)
\* Entries of the evaluation stack whose variable stands for what CIL has.
Pairs == {e \in Numeric!Cell : e.kind = Numeric!Kind(e.type) /\ Agree(e.type, e.c, e.cil)}
Locations ==
  {Numeric!Empty} \cup
  {e \in Numeric!Cell : e.kind = Numeric!Kind(e.type) /\ e.type # "none" /\ Holds(e.type, e.c, e.cil)}
NumericInv ==
  /\ stack \in Seq(Pairs) /\ Len(stack) <= NumericDepth /\ memory \in Locations
  /\ branch \in [c : BOOLEAN, cil : BOOLEAN]
  /\ "ble" \notin NumericOpcodes => branch.c = branch.cil
  /\ refused \in BOOLEAN /\ steps \in 0 .. MaxSteps

\* A variable that stands for what CIL has makes an entry that agrees.
LEMMA EntryIs ==
  ASSUME NEW t, NEW c, NEW z, Agree(t, c, z)
  PROVE  Numeric!Entry(t, c, Numeric!Kind(t), z) \in Pairs
<1>1. t \in TypeNames /\ c \in Int /\ z \in Int BY AgreeIs
<1>2. Numeric!Kind(t) \in DOMAIN Numeric!KindType /\ t \in Numeric!Types \cup {"none"} BY <1>1, KindIs, TypesAre
<1> DEFINE k == Numeric!Kind(t)
<1> HIDE DEF k
<1> DEFINE e == Numeric!Entry(t, c, k, z)
<1>3. e \in Numeric!Cell BY <1>1, <1>2 DEF Numeric!Cell, Numeric!Entry, k
<1>4. e.type = t /\ e.c = c /\ e.kind = k /\ e.cil = z BY DEF Numeric!Entry
<1> HIDE DEF e
<1>5. e \in Pairs BY <1>3, <1>4 DEF Pairs, k
<1> QED BY <1>5 DEF e, k

\* So does a location that holds what CIL stored.
LEMMA LocationIs ==
  ASSUME NEW t, NEW c, NEW z, Holds(t, c, z)
  PROVE  Numeric!Entry(t, c, Numeric!Kind(t), z) \in Locations
<1>1. t \in TypeNames /\ c \in Int /\ z \in Int BY DEF Holds, Fits
<1>2. Numeric!Kind(t) \in DOMAIN Numeric!KindType /\ t \in Numeric!Types \cup {"none"} /\ t # "none"
  BY <1>1, KindIs, TypesAre DEF TypeNames
<1> DEFINE k == Numeric!Kind(t)
<1> HIDE DEF k
<1> DEFINE e == Numeric!Entry(t, c, k, z)
<1>3. e \in Numeric!Cell BY <1>1, <1>2 DEF Numeric!Cell, Numeric!Entry, k
<1>4. e.type = t /\ e.c = c /\ e.kind = k /\ e.cil = z BY DEF Numeric!Entry
<1> HIDE DEF e
<1>5. e \in Locations BY <1>2, <1>3, <1>4 DEF Locations, k
<1> QED BY <1>5 DEF e, k

\* What an entry of the stack has.
LEMMA PairIs ==
  ASSUME NEW e \in Pairs
  PROVE  /\ e.kind = Numeric!Kind(e.type) /\ Agree(e.type, e.c, e.cil)
         /\ e.type \in TypeNames /\ e.c \in Int /\ e.cil \in Int
BY AgreeIs DEF Pairs

\* The location that was stored to.
LEMMA StoredIs ==
  ASSUME NEW e \in Locations, e # Numeric!Empty
  PROVE  /\ e \in Numeric!Cell /\ e.kind = Numeric!Kind(e.type) /\ Holds(e.type, e.c, e.cil)
         /\ e.type \in TypeNames /\ Fits(e.type, e.c) /\ e.c = e.cil /\ (e.type \in {"r4", "r8"} => Small(e.c))
BY DEF Locations, Holds

\* The evaluation stack below its n topmost entries.
LEMMA BelowIs ==
  ASSUME stack \in Seq(Pairs), NEW n \in 0 .. Len(stack)
  PROVE  /\ Numeric!Below(n) \in Seq(Pairs) /\ Len(Numeric!Below(n)) = Len(stack) - n
         /\ \A e \in Pairs : Append(Numeric!Below(n), e) \in Seq(Pairs)
                             /\ Len(Append(Numeric!Below(n), e)) = Len(stack) - n + 1
         /\ Len(stack) \in Nat
         /\ Len(stack) >= 1 => Numeric!Top \in Pairs
         /\ Len(stack) >= 2 => Numeric!Second \in Pairs
<1> DEFINE b == Numeric!Below(n)
<1>1. Len(stack) \in Nat /\ \A i \in 1 .. Len(stack) : stack[i] \in Pairs OBVIOUS
<1>2. b \in Seq(Pairs) /\ Len(b) = Len(stack) - n
  BY <1>1, SubSeqProperties DEF Numeric!Below
<1>3. (Len(stack) >= 1 => Numeric!Top \in Pairs) /\ (Len(stack) >= 2 => Numeric!Second \in Pairs)
  BY <1>1 DEF Numeric!Top, Numeric!Second
<1> HIDE DEF b
<1>4. \A e \in Pairs : Append(b, e) \in Seq(Pairs) /\ Len(Append(b, e)) = Len(stack) - n + 1
  BY <1>1, <1>2
<1> QED BY <1>1, <1>2, <1>3, <1>4 DEF b

\* A step that pushes an entry that agrees.
LEMMA PushKeeps ==
  ASSUME NumericInv, Numeric!Step, NEW n \in 0 .. Len(stack), Len(stack) - n < NumericDepth,
         NEW e \in Pairs, Numeric!Push(n, e)
  PROVE  NumericInv'
<1>1. NumericDepth \in Nat /\ MaxSteps \in Nat BY NumericAssumption
<1>2. stack' \in Seq(Pairs) /\ Len(stack') = Len(stack) - n + 1 /\ Len(stack) \in Nat
  BY BelowIs DEF NumericInv, Numeric!Push
<1>3. Len(stack') <= NumericDepth BY <1>1, <1>2
<1>4. steps' \in 0 .. MaxSteps BY <1>1 DEF NumericInv, Numeric!Step
<1>5. memory' = memory /\ branch' = branch /\ refused' = refused BY DEF Numeric!Push
<1> QED BY <1>2, <1>3, <1>4, <1>5 DEF NumericInv

\* A step that ends the translation.
LEMMA RefuseKeeps ==
  ASSUME NumericInv, Numeric!Step, Numeric!Refuse
  PROVE  NumericInv'
<1>1. steps' \in 0 .. MaxSteps BY NumericAssumption DEF NumericInv, Numeric!Step
<1>2. memory' = memory /\ branch' = branch /\ refused' = TRUE /\ stack' = stack BY DEF Numeric!Refuse
<1> QED BY <1>1, <1>2 DEF NumericInv

\* Constants and arguments.
LEMMA LdcStep ==
  ASSUME NumericInv, NEW t \in Loaded, NEW v \in Numeric!Boundary(t), Numeric!Ldc(t, v) \/ Numeric!Ldarg(t, v)
  PROVE  NumericInv'
<1>1. t \in TypeNames BY NumericAssumption, TypesAre
<1>2. Fits(t, v) /\ (t \in {"r4", "r8"} => Small(v)) BY <1>1, BoundaryFits
<1>3. Numeric!Step /\ Len(stack) < NumericDepth BY DEF Numeric!Ldc, Numeric!Ldarg
<1>4. 0 \in 0 .. Len(stack) /\ Len(stack) - 0 < NumericDepth BY <1>3 DEF NumericInv
<1>5. CASE Numeric!Ldc(t, v)
  <2>1. t \in {"i4", "i8", "r4", "r8"} /\ Numeric!Push(0, Numeric!Entry(t, v, Numeric!Kind(t), v))
    BY <1>5 DEF Numeric!Ldc
  <2>2. Agree(t, v, v) BY <1>2, <2>1, ExactAgrees
  <2>3. Numeric!Entry(t, v, Numeric!Kind(t), v) \in Pairs BY <2>2, EntryIs
  <2> QED BY <1>3, <1>4, <2>1, <2>3, PushKeeps
<1>6. CASE Numeric!Ldarg(t, v)
  <2>1. Numeric!Push(0, Numeric!Entry(t, v, Numeric!Kind(t), Numeric!Widened(t, v)))
    BY <1>6 DEF Numeric!Ldarg
  <2>2. Agree(t, v, Numeric!Widened(t, v)) BY <1>1, <1>2, WidenedAgrees
  <2>3. Numeric!Entry(t, v, Numeric!Kind(t), Numeric!Widened(t, v)) \in Pairs BY <2>2, EntryIs
  <2> QED BY <1>3, <1>4, <2>1, <2>3, PushKeeps
<1> QED BY <1>5, <1>6

\* Loads of what was stored.
LEMMA LdlocStep ==
  ASSUME NumericInv, Numeric!Ldloc \/ Numeric!Ldind
  PROVE  NumericInv'
<1> DEFINE e == Numeric!Entry(memory.type, memory.c, Numeric!Kind(memory.type), Numeric!Widened(memory.type, memory.cil))
<1>1. /\ Numeric!Step /\ Len(stack) < NumericDepth /\ memory # Numeric!Empty /\ Numeric!Push(0, e)
  BY DEF Numeric!Ldloc, Numeric!Ldind
<1>2. memory.c = memory.cil /\ memory.type \in TypeNames /\ Fits(memory.type, memory.c)
      /\ (memory.type \in {"r4", "r8"} => Small(memory.c))
  BY <1>1, StoredIs DEF NumericInv
<1>3. Agree(memory.type, memory.c, Numeric!Widened(memory.type, memory.cil)) BY <1>2, WidenedAgrees
<1>4. e \in Pairs BY <1>3, EntryIs
<1> HIDE DEF e
<1>5. 0 \in 0 .. Len(stack) /\ Len(stack) - 0 < NumericDepth BY <1>1 DEF NumericInv
<1> QED BY <1>1, <1>4, <1>5, PushKeeps

\* Loads of elements.
LEMMA LdelemStep ==
  ASSUME NumericInv, NEW op \in DOMAIN Numeric!LdelemOpcodes, Numeric!Ldelem(op)
  PROVE  NumericInv'
<1> DEFINE t == Numeric!LdelemOpcodes[op]
           c == Numeric!Converted(t, Numeric!Casts(Numeric!RightExpression(t, memory.type), memory.c))
           z == Numeric!Widened(t, Numeric!Converted(t, memory.cil))
           e == Numeric!Entry(t, c, Numeric!Kind(t), z)
<1>1. /\ Numeric!Step /\ Len(stack) < NumericDepth /\ memory # Numeric!Empty
      /\ Numeric!Kind(memory.type) = Numeric!Kind(t) /\ (Numeric!Push(0, e) \/ Numeric!Refuse)
  BY DEF Numeric!Ldelem
<1>2. memory.c = memory.cil /\ memory.type \in TypeNames /\ Fits(memory.type, memory.c)
      /\ (memory.type \in {"r4", "r8"} => Small(memory.c))
  BY <1>1, StoredIs DEF NumericInv
<1>3. op \in LoadNames BY DEF LoadNames, Numeric!LdelemOpcodes
<1>4. Agree(t, c, z) BY <1>1, <1>2, <1>3, LdelemAgrees
<1>5. e \in Pairs BY <1>4, EntryIs
<1> HIDE DEF e
<1>6. 0 \in 0 .. Len(stack) /\ Len(stack) - 0 < NumericDepth BY <1>1 DEF NumericInv
<1> QED BY <1>1, <1>5, <1>6, PushKeeps, RefuseKeeps

\* A value goes to a location.
LEMMA AssignStep ==
  ASSUME NumericInv, WellSigned, NEW t \in Stored, Numeric!Storable(t), Numeric!Step, Numeric!Assign(t)
  PROVE  NumericInv'
<1> DEFINE u == Numeric!Top.type
           c == Numeric!Top.c
           z == Numeric!Top.cil
           d == Numeric!Converted(t, Numeric!Casts(Numeric!RightExpression(t, u), c))
           x == Numeric!Narrowed(t, z)
<1>1. t \in TypeNames BY NumericAssumption, TypesAre
<1>2. /\ Len(stack) >= 1
      /\ \/ Numeric!Top.kind = Numeric!Kind(t)
         \/ Numeric!Top.kind = "int32" /\ Numeric!Kind(t) = "native" /\ ~Numeric!WideUnsigned(u)
      /\ t = "bool" => z \in {0, 1}
  BY DEF Numeric!Storable
<1>3. /\ 1 \in 0 .. Len(stack) /\ stack \in Seq(Pairs) /\ Len(stack) \in Nat /\ Numeric!Top \in Pairs
      /\ Numeric!Below(1) \in Seq(Pairs) /\ Len(Numeric!Below(1)) = Len(stack) - 1
  <2>1. stack \in Seq(Pairs) /\ Len(stack) \in Nat /\ 1 \in 0 .. Len(stack) BY <1>2 DEF NumericInv
  <2> QED BY <2>1, <1>2, BelowIs
<1>4. Agree(u, c, z) /\ Numeric!Top.kind = Numeric!Kind(u) BY <1>3, PairIs
<1>5. Numeric!WideUnsigned(u) <=> IsWide(u)
  <2>1. u \in TypeNames BY <1>4 DEF Agree
  <2> QED BY <2>1, WideIs
<1>6. Holds(t, d, x) BY <1>1, <1>2, <1>4, <1>5, AssignAgrees
<1>7. Numeric!Entry(t, d, Numeric!Kind(t), x) \in Locations BY <1>6, LocationIs
<1>8. /\ stack' = Numeric!Below(1) /\ memory' = Numeric!Entry(t, d, Numeric!Kind(t), x)
      /\ branch' = branch /\ refused' = refused
  BY DEF Numeric!Assign
<1>9. steps' \in 0 .. MaxSteps BY NumericAssumption DEF NumericInv, Numeric!Step
<1>10. Len(stack') <= NumericDepth BY <1>3, <1>8, NumericAssumption DEF NumericInv
<1> QED BY <1>3, <1>7, <1>8, <1>9, <1>10 DEF NumericInv

\* Stores to variables, through addresses and into arrays.
LEMMA StoreStep ==
  ASSUME NumericInv, WellSigned, NEW t \in Stored,
         Numeric!Stloc(t) \/ Numeric!Stind(t) \/ Numeric!StelemI4(t) \/ Numeric!StelemAny(t)
  PROVE  NumericInv'
<1>1. Numeric!Step /\ Numeric!Storable(t) /\ (Numeric!Assign(t) \/ Numeric!Refuse)
  BY DEF Numeric!Stloc, Numeric!Stind, Numeric!StelemI4, Numeric!StelemAny
<1> QED BY <1>1, AssignStep, RefuseKeeps

\* The operands of an operator are the two topmost entries.
LEMMA OperandsAre ==
  ASSUME NumericInv, WellSigned, NEW op, NEW kind, Numeric!Operands(op, kind)
  PROVE  /\ Numeric!Step /\ op \in NumericOpcodes
         /\ stack \in Seq(Pairs) /\ 2 \in 0 .. Len(stack) /\ Len(stack) - 2 < NumericDepth
         /\ kind = Kinds(Numeric!Second.type, Numeric!Top.type) /\ kind # "none"
         /\ Applies(op, Numeric!Second.type, Numeric!Second.c, Numeric!Second.cil,
                    Numeric!Top.type, Numeric!Top.c, Numeric!Top.cil)
<1>1. /\ Numeric!Step /\ op \in NumericOpcodes /\ Len(stack) >= 2
      /\ Numeric!SameSign(op, {Numeric!Top.type, Numeric!Second.type})
      /\ kind = Numeric!BinaryKind(Numeric!Second.kind, Numeric!Top.kind) /\ kind # "none"
  BY DEF Numeric!Operands, Numeric!Compiled
<1>2. stack \in Seq(Pairs) /\ Len(stack) \in Nat /\ Len(stack) <= NumericDepth /\ NumericDepth \in Nat
  BY NumericAssumption DEF NumericInv
<1>3. 2 \in 0 .. Len(stack) /\ Len(stack) - 2 < NumericDepth BY <1>1, <1>2
<1>4. Numeric!Second \in Pairs /\ Numeric!Top \in Pairs BY <1>1, <1>2, <1>3, BelowIs
<1>5. /\ Numeric!Second.kind = Numeric!Kind(Numeric!Second.type)
      /\ Agree(Numeric!Second.type, Numeric!Second.c, Numeric!Second.cil)
      /\ Numeric!Top.kind = Numeric!Kind(Numeric!Top.type)
      /\ Agree(Numeric!Top.type, Numeric!Top.c, Numeric!Top.cil)
  BY <1>4, PairIs
<1>6. kind = Kinds(Numeric!Second.type, Numeric!Top.type) BY <1>1, <1>5 DEF Kinds
<1> QED BY <1>1, <1>2, <1>3, <1>5, <1>6 DEF Applies

\* Arithmetic and logic on the two topmost entries.
LEMMA BinaryStep ==
  ASSUME NumericInv, WellSigned, NEW op \in Numeric!ArithmeticOpcodes \cup Numeric!LogicalOpcodes,
         Numeric!Binary(op)
  PROVE  NumericInv'
<1> DEFINE t == Numeric!Second.type
           a == Numeric!Second.c
           x == Numeric!Second.cil
           u == Numeric!Top.type
           b == Numeric!Top.c
           y == Numeric!Top.cil
           X == Emitted(op, t, u)
<1>1. PICK kind \in DOMAIN Numeric!KindType :
        /\ Numeric!Operands(op, kind) /\ Numeric!Defined(op, kind, x, y)
        /\ IF X = Numeric!Invalid THEN Numeric!Refuse
           ELSE Numeric!Push(2, Numeric!Entry(X.type, Numeric!Computed(op, X), kind,
                  Numeric!OnStack(kind, Numeric!Applied(op, Numeric!Width(Numeric!KindType[kind]), x, y))))
  BY DEF Numeric!Binary, Emitted
<1> DEFINE c == Numeric!Converted(X.type, Numeric!Expression(op, X.cast, t, a, u, b))
           z == Numeric!OnStack(kind, Numeric!Applied(op, Numeric!Width(Numeric!KindType[kind]), x, y))
<1>2. /\ Numeric!Step /\ 2 \in 0 .. Len(stack) /\ Len(stack) - 2 < NumericDepth
      /\ kind = Kinds(t, u) /\ Applies(op, t, a, x, u, b, y)
  BY <1>1, OperandsAre
<1>3. CASE X = Numeric!Invalid BY <1>1, <1>2, <1>3, RefuseKeeps
<1>4. CASE X # Numeric!Invalid
  <2>1. Numeric!Kind(X.type) = kind /\ Agree(X.type, c, z)
    BY <1>1, <1>2, <1>4, BinaryAgrees
  <2>2. Numeric!Push(2, Numeric!Entry(X.type, c, kind, z)) BY <1>1, <1>4 DEF Numeric!Computed
  <2>3. Numeric!Entry(X.type, c, kind, z) \in Pairs BY <2>1, EntryIs
  <2> HIDE DEF c, z, X
  <2> QED BY <1>2, <2>2, <2>3, PushKeeps
<1> QED BY <1>3, <1>4

\* Comparisons of the two topmost entries.
LEMMA CompareStep ==
  ASSUME NumericInv, WellSigned, NEW op \in DOMAIN Numeric!ConditionalOpcodes, Numeric!Compare(op)
  PROVE  NumericInv'
<1> DEFINE t == Numeric!Second.type
           a == Numeric!Second.c
           x == Numeric!Second.cil
           u == Numeric!Top.type
           b == Numeric!Top.c
           y == Numeric!Top.cil
           f == Numeric!ConditionalOpcodes[op]
           X == Numeric!Conditional(f.unsigned, t, u)
<1>1. PICK kind \in DOMAIN Numeric!KindType :
        /\ Numeric!Operands(op, kind)
        /\ IF X = Numeric!Invalid THEN Numeric!Refuse
           ELSE Numeric!Push(2, Numeric!Entry(X.type, Numeric!Computed(f.op, X), "int32",
                                              Numeric!ConditionalCil(op, kind, x, y)))
  BY DEF Numeric!Compare
<1> DEFINE c == Numeric!Converted(X.type, Numeric!Expression(f.op, X.cast, t, a, u, b))
           z == Numeric!ConditionalCil(op, kind, x, y)
<1>2. /\ Numeric!Step /\ 2 \in 0 .. Len(stack) /\ Len(stack) - 2 < NumericDepth
      /\ kind = Kinds(t, u) /\ Applies(op, t, a, x, u, b, y)
  BY <1>1, OperandsAre
<1>3. op \in {"cgt", "cgt_un", "clt", "clt_un", "ceq"} BY DEF Numeric!ConditionalOpcodes
<1>4. CASE X = Numeric!Invalid BY <1>1, <1>2, <1>4, RefuseKeeps
<1>5. CASE X # Numeric!Invalid
  <2>1. X.type = "i4" /\ Agree("i4", c, z) BY <1>2, <1>3, <1>5, CompareAgrees
  <2>2. Numeric!Kind("i4") = "int32" BY KindIs DEF TypeNames
  <2>3. Numeric!Push(2, Numeric!Entry("i4", c, "int32", z)) BY <1>1, <1>5, <2>1 DEF Numeric!Computed
  <2> HIDE DEF c, z, X
  <2>4. Numeric!Entry("i4", c, "int32", z) \in Pairs BY <2>1, <2>2, EntryIs
  <2> QED BY <1>2, <2>3, <2>4, PushKeeps
<1> QED BY <1>4, <1>5

\* Conversions of the topmost entry.
LEMMA ConvertStep ==
  ASSUME NumericInv, WellSigned, NEW op \in DOMAIN Numeric!ConvOpcodes, Numeric!Convert(op)
  PROVE  NumericInv'
<1> DEFINE t == Numeric!Top.type
           c == Numeric!Top.c
           z == Numeric!Top.cil
           casts == Numeric!ConvOpcodes[op]
           T == Numeric!Last(casts)
           d == Numeric!Casts(casts, c)
           x == Numeric!ConvCil(op, Numeric!Top.kind, z)
<1>1. /\ Numeric!Step /\ Len(stack) >= 1 /\ Numeric!SameSign(op, {t})
      /\ Numeric!ConvDefined(op, Numeric!Top.kind, z)
      /\ IF ~Numeric!ConvAccepts(op, t) THEN Numeric!Refuse
         ELSE Numeric!Push(1, Numeric!Entry(T, d, Numeric!Kind(T), x))
  BY DEF Numeric!Convert, Numeric!Compiled
<1>2. /\ stack \in Seq(Pairs) /\ Len(stack) \in Nat /\ Len(stack) <= NumericDepth /\ NumericDepth \in Nat
  BY NumericAssumption DEF NumericInv
<1>3. 1 \in 0 .. Len(stack) /\ Len(stack) - 1 < NumericDepth BY <1>1, <1>2
<1>4. Numeric!Top \in Pairs BY <1>1, <1>2, <1>3, BelowIs
<1>5. Agree(t, c, z) /\ Numeric!Top.kind = Numeric!Kind(t) BY <1>4, PairIs
<1>6. op \in ConvNames BY DEF Numeric!ConvOpcodes, ConvNames
<1>7. CASE ~Numeric!ConvAccepts(op, t) BY <1>1, <1>7, RefuseKeeps
<1>8. CASE Numeric!ConvAccepts(op, t)
  <2>1. T = Target(op) BY <1>6, ConvIs
  <2>2. Agree(T, d, x) BY <1>1, <1>5, <1>6, <1>8, <2>1, ConvertAgrees
  <2>3. Numeric!Push(1, Numeric!Entry(T, d, Numeric!Kind(T), x)) BY <1>1, <1>8
  <2> HIDE DEF T, d, x
  <2>4. Numeric!Entry(T, d, Numeric!Kind(T), x) \in Pairs BY <2>2, EntryIs
  <2> QED BY <1>1, <1>3, <2>3, <2>4, PushKeeps
<1> QED BY <1>7, <1>8

\* A copy of the topmost entry.
LEMMA DupNumeric ==
  ASSUME NumericInv, Numeric!Dup
  PROVE  NumericInv'
<1>1. Numeric!Step /\ Len(stack) \in 1 .. (NumericDepth - 1) /\ Numeric!Push(0, Numeric!Top) BY DEF Numeric!Dup
<1>2. stack \in Seq(Pairs) /\ Len(stack) \in Nat /\ NumericDepth \in Nat BY NumericAssumption DEF NumericInv
<1>3. 0 \in 0 .. Len(stack) /\ Len(stack) - 0 < NumericDepth /\ Len(stack) >= 1 BY <1>1, <1>2
<1>4. Numeric!Top \in Pairs BY <1>2, <1>3, BelowIs
<1> QED BY <1>1, <1>3, <1>4, PushKeeps

\* A step that decides a branch and leaves the stack below its operands.
LEMMA DecidedKeeps ==
  ASSUME NumericInv, Numeric!Step, NEW n \in 0 .. Len(stack), NEW j \in BOOLEAN, NEW k \in BOOLEAN,
         "ble" \notin NumericOpcodes => (j <=> k),
         branch' = [c |-> j, cil |-> k], stack' = Numeric!Below(n),
         memory' = memory, refused' = refused
  PROVE  NumericInv'
<1>1. NumericDepth \in Nat /\ MaxSteps \in Nat BY NumericAssumption
<1>2. stack' \in Seq(Pairs) /\ Len(stack') = Len(stack) - n /\ Len(stack) \in Nat
  BY BelowIs DEF NumericInv
<1>3. Len(stack') <= NumericDepth BY <1>1, <1>2 DEF NumericInv
<1>4. steps' \in 0 .. MaxSteps BY <1>1 DEF NumericInv, Numeric!Step
<1>5. branch' \in [c : BOOLEAN, cil : BOOLEAN] OBVIOUS
<1>6. branch'.c = j /\ branch'.cil = k OBVIOUS
<1>7. "ble" \notin NumericOpcodes => branch'.c = branch'.cil
  <2>1. ASSUME j <=> k PROVE j = k
    <3>1. CASE j = TRUE
      <4>1. k = TRUE BY <2>1, <3>1
      <4> QED BY <3>1, <4>1
    <3>2. CASE j = FALSE
      <4>1. k = FALSE BY <2>1, <3>2
      <4> QED BY <3>2, <4>1
    <3> QED BY <3>1, <3>2
  <2> QED BY <1>6, <2>1
<1> QED BY <1>2, <1>3, <1>4, <1>5, <1>7 DEF NumericInv

\* Branches on the two topmost entries.
LEMMA BranchStep ==
  ASSUME NumericInv, WellSigned, NEW op \in DOMAIN Numeric!BranchOpcodes, Numeric!Branch(op)
  PROVE  NumericInv'
<1> DEFINE t == Numeric!Second.type
           a == Numeric!Second.c
           x == Numeric!Second.cil
           u == Numeric!Top.type
           b == Numeric!Top.c
           y == Numeric!Top.cil
           j == Numeric!Expression(Numeric!BranchOpcodes[op], "none", t, a, u, b) = 1
<1>1. PICK kind \in DOMAIN Numeric!KindType :
        /\ Numeric!Operands(op, kind)
        /\ branch' = [c |-> j, cil |-> Numeric!BranchCil(op, kind, x, y)]
        /\ stack' = Numeric!Below(2) /\ memory' = memory /\ refused' = refused
  BY DEF Numeric!Branch
<1> DEFINE k == Numeric!BranchCil(op, kind, x, y)
<1>2. /\ Numeric!Step /\ 2 \in 0 .. Len(stack) /\ op \in NumericOpcodes
      /\ kind = Kinds(t, u) /\ Applies(op, t, a, x, u, b, y)
  BY <1>1, OperandsAre
<1>3. op \in {"beq", "bne_un", "blt", "bgt", "ble", "bge"} BY DEF Numeric!BranchOpcodes
<1>4. op # "ble" => (j <=> k) BY <1>2, <1>3, BranchAgrees
<1>5. j \in BOOLEAN OBVIOUS
<1>6. k \in BOOLEAN
  <2> DEFINE p == Numeric!UnsignedOnStack(kind, x)
             q == Numeric!UnsignedOnStack(kind, y)
  <2>1. k = (CASE op = "beq" -> x = y [] op = "bne_un" -> p # q [] op = "blt" -> x < y
               [] op = "bgt" -> x > y [] op = "ble" -> x <= y [] op = "bge" -> x >= y)
    BY DEF Numeric!BranchCil
  <2> HIDE DEF k, p, q
  <2>2. CASE op = "beq" BY <2>1, <2>2
  <2>3. CASE op = "bne_un" BY <2>1, <2>3
  <2>4. CASE op = "blt" BY <2>1, <2>4
  <2>5. CASE op = "bgt" BY <2>1, <2>5
  <2>6. CASE op = "ble" BY <2>1, <2>6
  <2>7. CASE op = "bge" BY <2>1, <2>7
  <2> QED BY <1>3, <2>2, <2>3, <2>4, <2>5, <2>6, <2>7
<1> HIDE DEF j, k
<1>7. branch' = [c |-> j, cil |-> k] BY <1>1 DEF k
<1>8. "ble" \notin NumericOpcodes => (j <=> k) BY <1>2, <1>4
<1> QED BY <1>1, <1>2, <1>5, <1>6, <1>7, <1>8, DecidedKeeps

\* Branches on the topmost entry.
LEMMA BranchOnStep ==
  ASSUME NumericInv, NEW op \in {"brtrue", "brfalse"}, Numeric!BranchOn(op)
  PROVE  NumericInv'
<1> DEFINE t == Numeric!Top.type
           c == Numeric!Top.c
           z == Numeric!Top.cil
           j == Numeric!ApplyFalse(op, c)
           k == (op = "brtrue") = (z # 0)
<1>1. /\ Numeric!Step /\ Len(stack) >= 1 /\ Numeric!Top.kind # "F"
      /\ branch' = [c |-> j, cil |-> k]
      /\ stack' = Numeric!Below(1) /\ memory' = memory /\ refused' = refused
  BY DEF Numeric!BranchOn
<1>2. stack \in Seq(Pairs) /\ Len(stack) \in Nat BY DEF NumericInv
<1>3. 1 \in 0 .. Len(stack) BY <1>1, <1>2
<1>4. Numeric!Top \in Pairs BY <1>1, <1>2, <1>3, BelowIs
<1>5. Agree(t, c, z) /\ Numeric!Top.kind = Numeric!Kind(t) /\ t \in TypeNames BY <1>4, PairIs
<1>6. t \notin {"r4", "r8"} BY <1>1, <1>5, KindIs
<1>7. c = 0 <=> z = 0 BY <1>5, <1>6, AgreeIs
<1>8. j <=> k BY <1>7 DEF Numeric!ApplyFalse
<1>9. j \in BOOLEAN /\ k \in BOOLEAN
  <2>1. j \in BOOLEAN BY DEF Numeric!ApplyFalse
  <2>2. k \in BOOLEAN BY Zenon
  <2> QED BY <2>1, <2>2
<1> HIDE DEF j, k
<1> QED BY <1>1, <1>3, <1>8, <1>9, DecidedKeeps

\* A method starts with an empty stack.
LEMMA InitNumeric == Numeric!Init => NumericInv
<1> SUFFICES ASSUME Numeric!Init PROVE NumericInv OBVIOUS
<1>1. /\ stack = <<>> /\ memory = Numeric!Empty /\ branch = [c |-> FALSE, cil |-> FALSE]
      /\ refused = FALSE /\ steps = 0
  BY DEF Numeric!Init
<1>2. stack \in Seq(Pairs) /\ Len(stack) = 0 BY <1>1
<1>3. memory \in Locations BY <1>1 DEF Locations
<1>4. branch \in [c : BOOLEAN, cil : BOOLEAN] /\ branch.c = branch.cil BY <1>1
<1>5. NumericDepth \in Nat /\ MaxSteps \in Nat BY NumericAssumption
<1>6. Len(stack) <= NumericDepth /\ steps \in 0 .. MaxSteps BY <1>1, <1>2, <1>5
<1> QED BY <1>1, <1>2, <1>3, <1>4, <1>6 DEF NumericInv

\* Every instruction keeps C and CIL in step.
LEMMA NextNumeric ==
  ASSUME WellSigned, NumericInv, Numeric!Next
  PROVE  NumericInv'
<1>1. ASSUME NEW t \in Loaded, NEW v \in Numeric!Boundary(t), Numeric!Ldc(t, v) \/ Numeric!Ldarg(t, v)
      PROVE NumericInv'
  BY <1>1, LdcStep
<1>2. CASE Numeric!Ldloc \/ Numeric!Ldind BY <1>2, LdlocStep
<1>3. ASSUME NEW op \in DOMAIN Numeric!LdelemOpcodes, Numeric!Ldelem(op) PROVE NumericInv'
  BY <1>3, LdelemStep
<1>4. ASSUME NEW t \in Stored,
             Numeric!Stloc(t) \/ Numeric!Stind(t) \/ Numeric!StelemI4(t) \/ Numeric!StelemAny(t)
      PROVE NumericInv'
  BY <1>4, StoreStep
<1>5. ASSUME NEW op \in Numeric!ArithmeticOpcodes \cup Numeric!LogicalOpcodes, Numeric!Binary(op) PROVE NumericInv'
  BY <1>5, BinaryStep
<1>6. ASSUME NEW op \in DOMAIN Numeric!ConditionalOpcodes, Numeric!Compare(op) PROVE NumericInv'
  BY <1>6, CompareStep
<1>7. ASSUME NEW op \in DOMAIN Numeric!BranchOpcodes, Numeric!Branch(op) PROVE NumericInv'
  BY <1>7, BranchStep
<1>8. ASSUME NEW op \in {"brtrue", "brfalse"}, Numeric!BranchOn(op) PROVE NumericInv'
  BY <1>8, BranchOnStep
<1>9. ASSUME NEW op \in DOMAIN Numeric!ConvOpcodes, Numeric!Convert(op) PROVE NumericInv'
  BY <1>9, ConvertStep
<1>10. CASE Numeric!Dup BY <1>10, DupNumeric
<1> QED BY <1>1, <1>2, <1>3, <1>4, <1>5, <1>6, <1>7, <1>8, <1>9, <1>10 DEF Numeric!Next

\* What agrees has its type.
LEMMA NumericTypeOK == NumericInv => Numeric!TypeOK
<1> SUFFICES ASSUME NumericInv PROVE Numeric!TypeOK OBVIOUS
<1>1. stack \in Seq(Pairs) /\ Pairs \subseteq Numeric!Cell BY DEF NumericInv, Pairs
<1>2. stack \in Seq(Numeric!Cell) BY <1>1
<1>3. memory \in Numeric!Cell
  <2>1. "none" \in DOMAIN Numeric!KindType \cup {"none"} /\ 0 \in Int /\ "none" \in Numeric!Types \cup {"none"} OBVIOUS
  <2>2. Numeric!Empty \in Numeric!Cell BY <2>1 DEF Numeric!Empty, Numeric!Entry, Numeric!Cell
  <2> QED BY <2>2 DEF NumericInv, Locations
<1>4. ASSUME NEW i \in 1 .. Len(stack)
      PROVE  stack[i].kind = Numeric!Kind(stack[i].type)
             /\ stack[i].c = Numeric!Converted(stack[i].type, stack[i].c)
  <2>1. stack[i] \in Pairs BY <1>1
  <2> QED BY <2>1, PairIs, AgreeIs
<1> QED BY <1>2, <1>3, <1>4 DEF NumericInv, Numeric!TypeOK

\* The invariant says what the runs check.
LEMMA NumericAgrees ==
  ASSUME NumericInv
  PROVE  /\ StackAgrees /\ MemoryAgrees
         /\ "ble" \notin NumericOpcodes => BranchesAgree
<1>1. stack \in Seq(Pairs) BY DEF NumericInv
<1>2. ASSUME NEW i \in 1 .. Len(stack) PROVE Numeric!Widened(stack[i].type, stack[i].c) = stack[i].cil
  <2>1. stack[i] \in Pairs BY <1>1
  <2> QED BY <2>1, PairIs, AgreeIs
<1>3. StackAgrees BY <1>2 DEF StackAgrees, Numeric!StackAgrees
<1>4. MemoryAgrees BY StoredIs DEF NumericInv, MemoryAgrees, Numeric!MemoryAgrees
<1>5. "ble" \notin NumericOpcodes => BranchesAgree BY DEF NumericInv, BranchesAgree, Numeric!BranchesAgree
<1> QED BY <1>3, <1>4, <1>5

\* Steps of the decoder leave the numeric code alone.
LEMMA NumericStep ==
  ASSUME WellSigned, NumericInv, [TranslatorNext]_allVars
  PROVE  NumericInv'
<1>1. CASE UNCHANGED <<stack, memory, branch, refused, steps>> BY <1>1 DEF NumericInv
<1>2. CASE Numeric!Next BY <1>2, NextNumeric
<1>3. UNCHANGED <<stack, memory, branch, refused, steps>> \/ Numeric!Next
  BY DEF TranslatorNext, allVars, numericVars
<1> QED BY <1>1, <1>2, <1>3

\* Steps of the numeric code leave the decoder alone.
LEMMA DecodeStays == DecodeInv /\ [TranslatorNext]_allVars => DecodeInv'
<1> SUFFICES ASSUME DecodeInv, [TranslatorNext]_allVars PROVE DecodeInv' OBVIOUS
<1>1. [Next]_vars BY DEF TranslatorNext, allVars
<1> QED BY <1>1, NextDecode

\* Whatever is translated, the two invariants hold.
THEOREM TranslatorInvariant == ASSUME WellSigned PROVE TranslatorSpec => [](DecodeInv /\ NumericInv)
<1>1. TranslatorInit => DecodeInv /\ NumericInv BY InitDecode, InitNumeric DEF TranslatorInit
<1>2. DecodeInv /\ NumericInv /\ [TranslatorNext]_allVars => (DecodeInv /\ NumericInv)'
  BY DecodeStays, NumericStep
<1> QED BY <1>1, <1>2, PTL DEF TranslatorSpec

\* The state of the translator has its type, and every C variable of the numeric
\* code holds a value of its type.
THEOREM TranslatorWellTyped ==
  ASSUME WellSigned, Merges = FALSE PROVE TranslatorSpec => []TypesOK
<1>1. DecodeInv /\ NumericInv => TypesOK BY DecodeTypeOK, NumericTypeOK DEF TypesOK
<1> QED BY <1>1, TranslatorInvariant, PTL

\* The C variables of the evaluation stack hold what CIL has there: the casts of
\* the converters and C's own conversions lose and add nothing.
THEOREM StacksAgree == ASSUME WellSigned PROVE TranslatorSpec => []StackAgrees
<1>1. DecodeInv /\ NumericInv => StackAgrees BY NumericAgrees
<1> QED BY <1>1, TranslatorInvariant, PTL

\* What is stored is what CIL stores.
THEOREM StoredValuesAgree == ASSUME WellSigned PROVE TranslatorSpec => []MemoryAgrees
<1>1. DecodeInv /\ NumericInv => MemoryAgrees BY NumericAgrees
<1> QED BY <1>1, TranslatorInvariant, PTL

\* The C code branches where CIL does, in a program without ble, which the
\* converter tests with the wrong operator.
THEOREM BranchesDecideAlike ==
  ASSUME WellSigned, "ble" \notin NumericOpcodes PROVE TranslatorSpec => []BranchesAgree
<1>1. DecodeInv /\ NumericInv => BranchesAgree BY NumericAgrees
<1> QED BY <1>1, TranslatorInvariant, PTL
=============================================================================
