----------------------------- MODULE DecodeContext -----------------------------
(***************************************************************************)
(* How IL2C decodes a method body (IL2C.Core/Translators/DecodeContext.cs, *)
(* driven by AssemblyPreparer.PrepareMethodBody), and what the decoded C   *)
(* code then does.                                                         *)
(*                                                                         *)
(* CIL keeps values on an evaluation stack; the C code keeps each in a     *)
(* local variable, a slot, chosen by stack depth and type.  Which slot an  *)
(* instruction reads is fixed once, by the path that decodes it first.     *)
(* The second half of the module executes the emitted code and carries     *)
(* along, for each entry of the CIL stack, the slot its value was put in.  *)
(*                                                                         *)
(* The instruction at an offset is chosen when it is first decoded, so     *)
(* that every method body of the given length is covered.  Every           *)
(* instruction has size 1; offsets count from 1.                           *)
(***************************************************************************)
EXTENDS Integers, SequencesExt, FiniteSets

CONSTANTS
  Length,       \* bound: instructions of a method body
  MaxDepth,     \* bound: depth of the evaluation stack
  EntryTypes,        \* types of stack entries
  Opcodes,      \* instructions the compiler emits in this instance
  Targets,      \* bound: offsets that are branched to
  HandlerSets,  \* the sequences of exception handlers a body may have
  Merges        \* paths may join with entries of different types

Offsets == 1 .. Length
Handlers == [tried : SUBSET Offsets, kind : {"catch", "finally"},
             start : Offsets, type : EntryTypes]

ASSUME DecodeAssumption ==
  /\ Length \in Nat \ {0} /\ MaxDepth \in Nat \ {0} /\ Merges \in BOOLEAN
  /\ Targets \subseteq Offsets /\ HandlerSets \subseteq Seq(Handlers)

VARIABLES
  handlers,         \* exception handlers of the method
  code,             \* instruction at each offset, None until decoded
  phase,            \* what the decoder does next
  stackList,        \* for each depth, the slot types used so far and the current
  stackPointer,
  nextOffset, currentCode, prefixCode,
  snapshots,        \* stackSnapshortsAtOffset
  pathRemains,
  labelNames,       \* offsets that get a label
  catchVariables,   \* slot of the exception, by the start of its handler
  continuations,    \* leaveContinuationsByTarget: targets, in order of their index
  emitters,         \* what was emitted, in the order of decoding
  pc, live, leaving \* execution: next offset, slots of the CIL stack, delayed leave

decoder == <<stackList, stackPointer, nextOffset, currentCode, prefixCode,
             snapshots, pathRemains, labelNames, catchVariables, continuations, emitters>>
execution == <<pc, live, leaving>>
vars == <<handlers, code, phase, decoder, execution>>

None == [op |-> "none"]
NoSlot == <<>>
NoOffset == 0

Plain == {[op |-> o] : o \in {"pop", "dup", "ret", "throw", "endfinally", "prefix"}}
Pushes == {[op |-> "push", type |-> t] : t \in EntryTypes}
Jumps == {[op |-> o, target |-> t] : o \in {"br", "brtrue", "leave"}, t \in Targets}
Instructions == {i \in Plain \cup Pushes \cup Jumps : i.op \in Opcodes}

IsEndOfPath(i) == i.op \in {"br", "ret", "throw", "leave", "endfinally"}
Pops(i) == IF i.op \in {"pop", "brtrue", "throw", "dup"} THEN 1 ELSE 0

-----------------------------------------------------------------------------
(* Slots                                                                   *)
Holder == [types |-> {}, selected |-> "none"]

\* StackInformationHolder.GetOrAdd at a depth.
GetOrAdd(list, depth, t) ==
  [list EXCEPT ![depth] = [types |-> @.types \cup {t}, selected |-> t]]
GetCurrent(list, depth) == <<depth, list[depth].selected>>

\* The slots of the entries up to a depth.
StackSnapshot(list, depth) == [d \in 1 .. depth |-> GetCurrent(list, d)]

PushStack(list, pointer, t) ==
  GetOrAdd(IF pointer >= Len(list) THEN Append(list, Holder) ELSE list, pointer + 1, t)

-----------------------------------------------------------------------------
(* Decoding                                                                *)
Path(offset, slots) == [offset |-> offset, slots |-> slots]

\* The catch handlers' exceptions share the holder of depth 1.
Catches(hs) == {i \in DOMAIN hs : hs[i].kind = "catch"}
HandlerPath(h) ==
  Path(h.start, IF h.kind = "catch" THEN << <<1, h.type>> >> ELSE <<>>)

Init ==
  /\ handlers \in HandlerSets
  /\ code = [o \in Offsets |-> None]
  /\ phase = "dequeue"
  /\ stackList = IF handlers = <<>> THEN <<>>
                 ELSE <<[types |-> {handlers[i].type : i \in Catches(handlers)},
                         selected |-> IF Catches(handlers) = {} THEN "none"
                                      ELSE handlers[Max(Catches(handlers))].type]>>
  /\ stackPointer = -1 /\ nextOffset = NoOffset
  /\ currentCode = NoOffset /\ prefixCode = NoOffset
  /\ snapshots = [o \in {} |-> <<>>]
  /\ pathRemains = <<Path(1, <<>>)>> \o [i \in DOMAIN handlers |-> HandlerPath(handlers[i])]
  /\ labelNames = {}
  /\ catchVariables = [o \in {handlers[i].start : i \in Catches(handlers)} |->
       <<1, (CHOOSE h \in Range(handlers) : h.start = o).type>>]
  /\ continuations = <<>> /\ emitters = <<>>
  /\ pc = NoOffset /\ live = <<>> /\ leaving = NoOffset

Decoded(o) == o \in DOMAIN snapshots

\* Restore the entries of a path: select the slot of each, in its type.
Restored(list, slots) ==
  [d \in 1 .. Len(list) |->
     IF d > Len(slots) THEN list[d]
     ELSE [types |-> list[d].types \cup {slots[d][2]}, selected |-> slots[d][2]]]

\* Mutant: a path starts with the selection the last one left.
TryDequeueNextPathStale ==
  /\ phase = "dequeue" /\ pathRemains # <<>>
  /\ pathRemains' = Tail(pathRemains)
  /\ LET path == Head(pathRemains)
         equal == Decoded(path.offset) /\ snapshots[path.offset] = path.slots
     IN IF equal
        THEN UNCHANGED <<phase, stackList, stackPointer, nextOffset, prefixCode>>
        ELSE /\ stackPointer' = Len(path.slots) /\ UNCHANGED stackList
             /\ nextOffset' = path.offset /\ prefixCode' = NoOffset /\ phase' = "move"
  /\ UNCHANGED <<handlers, code, currentCode, snapshots, labelNames, catchVariables,
                 continuations, emitters, execution>>
\* Mutant: a path whose target was decoded stays in the queue.
TryDequeueNextPathStays ==
  /\ phase = "dequeue" /\ pathRemains # <<>>
  /\ LET path == Head(pathRemains)
         equal == Decoded(path.offset) /\ snapshots[path.offset] = path.slots
     IN IF equal
        THEN UNCHANGED <<phase, pathRemains, stackList, stackPointer, nextOffset, prefixCode>>
        ELSE /\ stackPointer' = Len(path.slots) /\ pathRemains' = Tail(pathRemains)
             /\ stackList' = Restored(stackList, path.slots)
             /\ nextOffset' = path.offset /\ prefixCode' = NoOffset /\ phase' = "move"
  /\ UNCHANGED <<handlers, code, currentCode, snapshots, labelNames, catchVariables,
                 continuations, emitters, execution>>
\* Take the next path, unless its target was already decoded with equal slots.
TryDequeueNextPath ==
  /\ phase = "dequeue" /\ pathRemains # <<>>
  /\ pathRemains' = Tail(pathRemains)
  /\ LET path == Head(pathRemains)
         equal == Decoded(path.offset) /\ snapshots[path.offset] = path.slots
     IN IF equal
        THEN UNCHANGED <<phase, stackList, stackPointer, nextOffset, prefixCode>>
        ELSE /\ stackPointer' = Len(path.slots)
             /\ stackList' = Restored(stackList, path.slots)
             /\ nextOffset' = path.offset /\ prefixCode' = NoOffset /\ phase' = "move"
  /\ UNCHANGED <<handlers, code, currentCode, snapshots, labelNames, catchVariables,
                 continuations, emitters, execution>>

\* No path remains: the emitters are ordered by offset.
Finish ==
  /\ phase = "dequeue" /\ pathRemains = <<>>
  /\ phase' = "done" /\ nextOffset' = NoOffset /\ prefixCode' = NoOffset
  /\ UNCHANGED <<handlers, code, stackList, stackPointer, currentCode, snapshots,
                 pathRemains, labelNames, catchVariables, continuations, emitters, execution>>

\* The next offset was decoded: this path is finished.
EndPath ==
  /\ phase = "move" /\ Decoded(nextOffset)
  /\ phase' = "dequeue" /\ currentCode' = NoOffset /\ prefixCode' = NoOffset
  /\ UNCHANGED <<handlers, code, stackList, stackPointer, nextOffset, snapshots,
                 pathRemains, labelNames, catchVariables, continuations, emitters, execution>>

\* Instructions a compiler may have put at the offset.  A prefix has an
\* instruction behind it, and leave finds only values that were popped.
Candidates(offset) ==
  IF code[offset] # None THEN {code[offset]}
  ELSE {i \in Instructions :
          /\ i.op \in {"push", "dup"} => stackPointer < MaxDepth
          /\ i.op = "leave" => stackPointer = 0
          /\ i.op = "prefix" => prefixCode = NoOffset \/ currentCode # prefixCode}

\* stackSnapshortsAtOffset gets the slots at the next offset.
RecordSnapshot ==
  snapshots' = [o \in DOMAIN snapshots \cup {nextOffset} |->
                  IF o = nextOffset THEN StackSnapshot(stackList, stackPointer)
                  ELSE snapshots[o]]

\* Mutant: a prefix stays for all that follows.
MoveNextPrefixed ==
  /\ phase = "move" /\ ~Decoded(nextOffset)
  /\ RecordSnapshot
  /\ IF nextOffset > Length
     THEN /\ phase' = "refused"
          /\ UNCHANGED <<code, currentCode, prefixCode, nextOffset>>
     ELSE /\ \E i \in Candidates(nextOffset) : code' = [code EXCEPT ![nextOffset] = i]
          /\ UNCHANGED prefixCode
          /\ currentCode' = nextOffset /\ nextOffset' = nextOffset + 1
          /\ phase' = "prepare"
  /\ UNCHANGED <<handlers, stackList, stackPointer, pathRemains, labelNames,
                 catchVariables, continuations, emitters, execution>>
\* Go on to the next instruction; refuse a body that runs off its end.
MoveNext ==
  /\ phase = "move" /\ ~Decoded(nextOffset)
  /\ RecordSnapshot
  /\ IF nextOffset > Length
     THEN /\ phase' = "refused"
          /\ UNCHANGED <<code, currentCode, prefixCode, nextOffset>>
     ELSE /\ \E i \in Candidates(nextOffset) : code' = [code EXCEPT ![nextOffset] = i]
          /\ prefixCode' = IF currentCode # prefixCode THEN NoOffset ELSE prefixCode
          /\ currentCode' = nextOffset /\ nextOffset' = nextOffset + 1
          /\ phase' = "prepare"
  /\ UNCHANGED <<handlers, stackList, stackPointer, pathRemains, labelNames,
                 catchVariables, continuations, emitters, execution>>

-----------------------------------------------------------------------------
(* The converters' Prepare: what each does to the context, and the C code  *)
(* it will emit (the slots it reads and writes, the label it goes to, the  *)
(* index of the continuation it leaves to).                                *)
Emit(read, written, label, index) ==
  Append(emitters, [offset |-> currentCode, op |-> code[currentCode].op, read |-> read,
                    written |-> written, label |-> label, index |-> index])

\* PopStack finds the stack empty.
Underflow ==
  /\ phase = "prepare" /\ stackPointer < Pops(code[currentCode])
  /\ phase' = "refused"
  /\ UNCHANGED <<handlers, code, decoder, execution>>

Preparing(ops) ==
  /\ phase = "prepare" /\ code[currentCode].op \in ops
  /\ stackPointer >= Pops(code[currentCode])
  /\ phase' = IF IsEndOfPath(code[currentCode]) THEN "dequeue" ELSE "move"
  /\ UNCHANGED <<handlers, code, nextOffset, currentCode, snapshots, catchVariables, execution>>
Top == GetCurrent(stackList, stackPointer)

\* ldc, ldarg, ldstr, ...
Push ==
  /\ Preparing({"push"})
  /\ stackList' = PushStack(stackList, stackPointer, code[currentCode].type)
  /\ stackPointer' = stackPointer + 1
  /\ emitters' = Emit(NoSlot, <<stackPointer + 1, code[currentCode].type>>, NoOffset, 0)
  /\ UNCHANGED <<prefixCode, pathRemains, labelNames, continuations>>

Dup ==
  /\ Preparing({"dup"})
  /\ stackList' = PushStack(stackList, stackPointer, Top[2])
  /\ stackPointer' = stackPointer + 1
  /\ emitters' = Emit(Top, <<stackPointer + 1, Top[2]>>, NoOffset, 0)
  /\ UNCHANGED <<prefixCode, pathRemains, labelNames, continuations>>

\* pop, throw
Pop ==
  /\ Preparing({"pop", "throw"})
  /\ stackPointer' = stackPointer - 1
  /\ emitters' = Emit(Top, NoSlot, NoOffset, 0)
  /\ UNCHANGED <<stackList, prefixCode, pathRemains, labelNames, continuations>>

\* ret, endfinally
End ==
  /\ Preparing({"ret", "endfinally"})
  /\ emitters' = Emit(NoSlot, NoSlot, NoOffset, 0)
  /\ UNCHANGED <<stackList, stackPointer, prefixCode, pathRemains, labelNames, continuations>>

\* constrained.: two prefixes in a row are refused.
SetPrefixCode ==
  /\ Preparing({"prefix"}) /\ prefixCode = NoOffset
  /\ prefixCode' = currentCode
  /\ emitters' = Emit(NoSlot, NoSlot, NoOffset, 0)
  /\ UNCHANGED <<stackList, stackPointer, pathRemains, labelNames, continuations>>

\* EnqueueNewPath: the target is decoded later, from the entries of here.
EnqueueNewPath(target, pointer) ==
  /\ pathRemains' = Append(pathRemains, Path(target, StackSnapshot(stackList, pointer)))
  /\ labelNames' = labelNames \cup {target}

Br ==
  /\ Preparing({"br"})
  /\ EnqueueNewPath(code[currentCode].target, stackPointer)
  /\ emitters' = Emit(NoSlot, NoSlot, code[currentCode].target, 0)
  /\ UNCHANGED <<stackList, stackPointer, prefixCode, continuations>>

\* Mutant: a conditional branch does not queue the path of its target.
BrtrueFallsThrough ==
  /\ Preparing({"brtrue"})
  /\ stackPointer' = stackPointer - 1
  /\ labelNames' = labelNames \cup {code[currentCode].target}
  /\ emitters' = Emit(Top, NoSlot, code[currentCode].target, 0)
  /\ UNCHANGED <<stackList, prefixCode, continuations, pathRemains>>
\* brtrue, brfalse
Brtrue ==
  /\ Preparing({"brtrue"})
  /\ stackPointer' = stackPointer - 1
  /\ EnqueueNewPath(code[currentCode].target, stackPointer - 1)
  /\ emitters' = Emit(Top, NoSlot, code[currentCode].target, 0)
  /\ UNCHANGED <<stackList, prefixCode, continuations>>

\* leaveContinuationsByTarget: the leaves to one target share an index.
RegisterLeaveContinuation(target) ==
  IF Contains(continuations, target) THEN continuations ELSE Append(continuations, target)

\* Mutant: a leave takes the index registered last.
ContinuationIndexLast(table, target) == Len(table)
ContinuationIndex(table, target) == CHOOSE i \in DOMAIN table : table[i] = target

Leave ==
  LET target == code[currentCode].target
      table == RegisterLeaveContinuation(target)
  IN /\ Preparing({"leave"})
     /\ EnqueueNewPath(target, stackPointer)
     /\ continuations' = table
     /\ emitters' = Emit(NoSlot, NoSlot, NoOffset, ContinuationIndex(table, target))
     /\ UNCHANGED <<stackList, stackPointer, prefixCode>>

Decode ==
  \/ TryDequeueNextPath \/ Finish \/ EndPath \/ MoveNext \/ Underflow
  \/ Push \/ Dup \/ Pop \/ End \/ SetPrefixCode \/ Br \/ Brtrue \/ Leave

-----------------------------------------------------------------------------
(* What CIL allows: the entries each instruction finds, over all paths.    *)
After(i, entries) ==
  CASE i.op = "push" -> Append(entries, i.type)
    [] i.op = "dup" -> Append(entries, Last(entries))
    [] i.op \in {"pop", "brtrue", "throw"} -> Front(entries)
    [] i.op = "leave" -> <<>>
    [] OTHER -> entries
Successors(o) ==
  LET i == code[o]
  IN (IF IsEndOfPath(i) THEN {} ELSE {o + 1}) \cup
     (IF i.op \in {"br", "brtrue", "leave"} THEN {i.target} ELSE {})

Starts == {[offset |-> 1, entries |-> <<>>]} \cup
  {[offset |-> h.start, entries |-> IF h.kind = "catch" THEN <<h.type>> ELSE <<>>] :
     h \in Range(handlers)}
Follow(point) ==
  IF \/ point.offset > Length \/ Len(point.entries) > MaxDepth
     \/ code[point.offset] = None \/ Len(point.entries) < Pops(code[point.offset])
  THEN {}
  ELSE {[offset |-> o, entries |-> After(code[point.offset], point.entries)] :
          o \in Successors(point.offset)}
\* Every point an execution can be at, in at most n instructions.
Reached[n \in Nat] ==
  IF n = 0 THEN Starts
  ELSE LET before == Reached[n - 1]
       IN before \cup UNION {Follow(point) : point \in before}
Points == Reached[Length + MaxDepth]

\* The paths to an offset agree on the number of entries there and, unless
\* Merges, on their types.
Verified ==
  LET points == Points
  IN \A p, q \in points : p.offset = q.offset =>
       IF Merges THEN Len(p.entries) = Len(q.entries) ELSE p.entries = q.entries
\* A protected block is entered and left with nothing on the stack, and left by
\* leave; a finally handler ends by endfinally.
Structured ==
  LET points == Points
      around(p) == {h \in Range(handlers) : p.offset \in h.tried}
  IN /\ \A p \in points : around(p) # {} /\ (p.offset - 1) \notin (CHOOSE h \in around(p) : TRUE).tried
            => p.entries = <<>>
     /\ \A o \in Offsets : code[o] # None /\ code[o].op \notin {"leave", "throw"} =>
          \A h \in Range(handlers) : (o \in h.tried) => Successors(o) \subseteq h.tried

-----------------------------------------------------------------------------
(* Executing the emitted code.                                             *)
Emitter(o) == CHOOSE e \in Range(emitters) : e.offset = o

Start ==
  /\ phase = "done" /\ Verified /\ Structured
  /\ phase' = "run" /\ pc' = 1
  /\ UNCHANGED <<handlers, code, decoder, live, leaving>>

\* The CIL stack after the emitted code e: pop what it read, push what it wrote.
Stack(e) ==
  LET kept == IF e.read = NoSlot \/ e.op = "dup" THEN live ELSE Front(live)
  IN IF e.written = NoSlot THEN kept ELSE Append(kept, e.written)

Running(ops) ==
  /\ phase = "run" /\ pc # NoOffset /\ Emitter(pc).op \in ops
  /\ UNCHANGED <<handlers, code, phase, decoder>>
Advance ==
  /\ Running(Opcodes \ {"ret", "throw", "leave", "endfinally"})
  /\ live' = Stack(Emitter(pc)) /\ UNCHANGED leaving
  /\ \/ Emitter(pc).op # "br" /\ pc' = pc + 1
     \/ Emitter(pc).label # NoOffset /\ pc' = Emitter(pc).label
Stop ==
  /\ Running({"ret", "throw"})
  /\ pc' = NoOffset /\ live' = <<>> /\ UNCHANGED leaving
\* il2c_leave: through the finally handler of the block, if it has one.
LeaveBlock ==
  LET finallies == {h \in Range(handlers) : h.kind = "finally" /\ pc \in h.tried}
  IN /\ Running({"leave"}) /\ live' = <<>>
     /\ IF finallies = {}
        THEN pc' = continuations[Emitter(pc).index] /\ UNCHANGED leaving
        ELSE /\ pc' = (CHOOSE h \in finallies : TRUE).start
             /\ leaving' = Emitter(pc).index
\* il2c_endfinally: to the continuation, or on with the exception.
EndFinally ==
  /\ Running({"endfinally"}) /\ live' = <<>> /\ leaving' = NoOffset
  /\ pc' = IF leaving = NoOffset THEN NoOffset ELSE continuations[leaving]

\* An instruction of a protected block throws what its catch handler takes.
Raise(h) ==
  /\ phase = "run" /\ pc \in h.tried
  /\ pc' = h.start /\ leaving' = NoOffset
  /\ live' = IF h.kind = "catch" THEN <<catchVariables[h.start]>> ELSE <<>>
  /\ UNCHANGED <<handlers, code, phase, decoder>>

Next ==
  \/ Decode \/ Start \/ Advance \/ Stop \/ LeaveBlock \/ EndFinally
  \/ \E h \in Range(handlers) : Raise(h)

Spec == Init /\ [][Next]_vars
-----------------------------------------------------------------------------
Slot == (1 .. MaxDepth + 1) \X EntryTypes
TypeOK ==
  /\ phase \in {"dequeue", "move", "prepare", "refused", "done", "run"}
  /\ \A d \in 1 .. Len(stackList) :
       stackList[d].types \subseteq EntryTypes /\ stackList[d].selected \in EntryTypes \cup {"none"}
  /\ stackPointer \in -1 .. Len(stackList)
  /\ \A o \in DOMAIN snapshots : \A d \in DOMAIN snapshots[o] : snapshots[o][d] \in Slot
  /\ Range(continuations) \subseteq Offsets /\ labelNames \subseteq Offsets
  /\ pc \in 0 .. Length + 1 /\ Range(live) \subseteq Slot

\* What is emitted is what an execution can reach, and the targets of its gotos
\* are there and labelled.  An offset is emitted once: PrepareMethodBody puts the
\* emitters into a dictionary by offset (AssemblyPreparer.cs:127), which takes
\* none twice.
ReachableEmitted ==
  /\ IsInjective([i \in DOMAIN emitters |-> emitters[i].offset])
  /\ phase = "done" =>
    /\ {e.offset : e \in Range(emitters)} = {p.offset : p \in Points}
    /\ \A e \in Range(emitters) : e.label # NoOffset => e.label \in labelNames

\* The slot an instruction reads is the one the topmost value was put in, on
\* whichever path the execution came, and no value is written over while it is
\* still on the stack.
SlotHoldsValue ==
  phase = "run" /\ pc # NoOffset =>
    LET e == Emitter(pc)
    IN /\ e.read # NoSlot => live # <<>> /\ Last(live) = e.read
       /\ e.written \notin Range(live)

\* A leave goes to its own target, through the finally handler or not.
LeavesReachTarget ==
  \A e \in Range(emitters) : e.op = "leave" =>
    continuations[e.index] = code[e.offset].target

\* An instruction is prefixed by the one just before it or by none.
PrefixApplies ==
  phase = "prepare" /\ prefixCode # NoOffset =>
    prefixCode = currentCode - 1 /\ code[prefixCode].op = "prefix"
=============================================================================
