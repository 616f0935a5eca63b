---------------------------- MODULE HandlerWriter ----------------------------
(***************************************************************************)
(* How the blocks of il2c_try are written around the code of a method      *)
(* body: ExceptionHandlerController goes through the code in the order of  *)
(* its offsets and calls back FunctionWriter where a handler's try part or *)
(* one of its clauses starts or ends.                                      *)
(*                                                                         *)
(* A handler is [start, end, clauses], a clause [kind, start, end]; the    *)
(* ends are the first offsets behind.  Of the leaves of the body one is    *)
(* followed.                                                               *)
(***************************************************************************)
EXTENDS Integers, FiniteSets, Sequences, Functions

CONSTANTS
  Length,       \* offsets of the body: 1 .. Length
  Bodies        \* [handlers, leave]: ordered handlers and [from, target] of a leave

VARIABLES
  body,
  offset,       \* of the code that is written next
  queue,        \* the first handler that was not started
  states,       \* the stack of ExceptionHandlerStates
  nestName,     \* currentExceptionNestedFrameIndexName, -1 for null
  blocks,       \* the C blocks that are open, the innermost last
  written,      \* per offset: the blocks its C code is in and the name it uses
  bindings,     \* per handler: what its end does with the leave
  phase

vars == <<body, offset, queue, states, nestName, blocks, written, bindings, phase>>

handlers == body.handlers
Top == states[Len(states)]
Handler(state) == handlers[state.handler]
Clause(state) == Handler(state).clauses[state.clause]
Within(range, o) == range.start <= o /\ o < range.end
ContainsOffset(h, o) ==
  \/ Within(h, o)
  \/ \E c \in DOMAIN h.clauses : Within(h.clauses[c], o)

Init ==
  /\ body \in Bodies
  /\ offset = 1 /\ queue = 1 /\ states = <<>> /\ nestName = -1
  /\ blocks = <<>> /\ written = <<>> /\ bindings = <<>>
  /\ phase = "update"

SetTop(state) == states' = [states EXCEPT ![Len(states)] = state]
SetPart(part) == blocks' = [blocks EXCEPT ![Len(blocks)].part = part]
-----------------------------------------------------------------------------
\* Update: a handler that starts here is pushed, il2c_try is written.
StartsHere == queue <= Len(handlers) /\ handlers[queue].start = offset
TryStart ==
  /\ phase = "update" /\ StartsHere
  /\ nestName' = Len(states)
  /\ blocks' = Append(blocks, [nest |-> Len(states), part |-> 0])
  /\ states' = Append(states, [handler |-> queue, clause |-> 0, inBlock |-> FALSE])
  /\ queue' = queue + 1
  /\ UNCHANGED <<body, offset, written, bindings, phase>>

\* The innermost handler is asked once nothing starts.
Asked == phase = "update" /\ ~StartsHere /\ states # <<>>

TryEnd ==
  /\ Asked /\ Top.clause = 0
  /\ Handler(Top).end = offset
  /\ SetPart(-1)
  /\ SetTop([Top EXCEPT !.clause = 1])
  /\ UNCHANGED <<body, offset, queue, nestName, written, bindings, phase>>

InClauses == Top.clause \in DOMAIN Handler(Top).clauses
CatchStarts == Asked /\ InClauses /\ ~Top.inBlock /\ Clause(Top).start = offset
\* il2c_catch or il2c_finally, of the block that has the current name.
CatchStart ==
  /\ CatchStarts
  /\ blocks' = [b \in DOMAIN blocks |->
                  IF blocks[b].nest = nestName THEN [blocks[b] EXCEPT !.part = Top.clause]
                                               ELSE blocks[b]]
  /\ SetTop([Top EXCEPT !.inBlock = TRUE])
  /\ phase' = "emit"
  /\ UNCHANGED <<body, offset, queue, nestName, written, bindings>>

CatchEnds == Top.inBlock /\ Clause(Top).end = offset
CatchEnd ==
  /\ Asked /\ InClauses /\ CatchEnds
  /\ SetPart(-1)
  /\ SetTop([Top EXCEPT !.inBlock = FALSE, !.clause = @ + 1])
  /\ UNCHANGED <<body, offset, queue, nestName, written, bindings, phase>>

\* Mutant: every enclosing handler gets a goto.
BindingAtOnce(parent) ==
  IF ~ContainsOffset(Handler(Top), body.leave.from) THEN <<>> ELSE <<[handler |-> Top.handler, goto |-> TRUE]>>

\* il2c_leave_bind or il2c_leave_through for a leave that starts inside; the
\* depth of the parent serves as the number of its handler.
Binding(parent) ==
  IF ~ContainsOffset(Handler(Top), body.leave.from) THEN <<>>
  ELSE <<[handler |-> Top.handler,
          goto |-> \/ parent < 0
                   \/ ContainsOffset(handlers[parent + 1], body.leave.target)]>>

\* Mutant: the name of the block that ended is kept.
FinishedKeepsName ==
  LET parent == Len(states) - 2
  IN /\ bindings' = bindings \o Binding(parent)
     /\ blocks' = SubSeq(blocks, 1, Len(blocks) - 1)
     /\ states' = SubSeq(states, 1, Len(states) - 1)
     /\ UNCHANGED nestName

\* finished: il2c_leave_to with the bindings, il2c_end_try, the parent's name.
Finished ==
  LET parent == Len(states) - 2
  IN /\ bindings' = bindings \o Binding(parent)
     /\ blocks' = SubSeq(blocks, 1, Len(blocks) - 1)
     /\ states' = SubSeq(states, 1, Len(states) - 1)
     /\ nestName' = parent

EndTry ==
  /\ Asked /\ Top.clause > Len(Handler(Top).clauses)
  /\ Finished
  /\ UNCHANGED <<body, offset, queue, written, phase>>

\* Neither a start nor an end is left at this offset.
Settled ==
  /\ phase = "update" /\ ~StartsHere
  /\ states # <<>> =>
       \/ Top.clause = 0 /\ Handler(Top).end # offset
       \/ InClauses /\ ~Top.inBlock /\ Clause(Top).start # offset
       \/ InClauses /\ Top.inBlock /\ ~CatchEnds
  /\ phase' = "emit"
  /\ UNCHANGED <<body, offset, queue, states, nestName, blocks, written, bindings>>

\* The emitter of the code, which may ask for the current name.
EmitCode ==
  /\ phase = "emit"
  /\ written' = Append(written, [blocks |-> blocks, nest |-> nestName])
  /\ offset' = offset + 1
  /\ phase' = IF offset = Length THEN "finish" ELSE "update"
  /\ UNCHANGED <<body, queue, states, nestName, blocks, bindings>>

\* TryFinish: the last clause of the only handler that is left ends with the code.
MayFinish ==
  /\ queue > Len(handlers) /\ Len(states) = 1
  /\ Top.clause >= Len(Handler(Top).clauses) /\ Top.inBlock
TryFinish ==
  /\ phase = "finish" /\ MayFinish
  /\ Finished
  /\ phase' = "done"
  /\ UNCHANGED <<body, offset, queue, written>>

\* InvalidProgramSequenceException if a handler is left.
IsFinished == queue > Len(handlers) /\ states = <<>>
CheckFinished ==
  /\ phase = "finish" /\ ~MayFinish
  /\ phase' = IF IsFinished THEN "done" ELSE "refused"
  /\ UNCHANGED <<body, offset, queue, states, nestName, blocks, written, bindings>>

Next ==
  \/ TryStart \/ TryEnd \/ CatchStart \/ CatchEnd \/ EndTry \/ Settled \/ EmitCode
  \/ TryFinish \/ CheckFinished
Spec == Init /\ [][Next]_vars
-----------------------------------------------------------------------------
\* The part of a handler that an offset is in: 0 for try, else the clause.
PartOf(h, o) == IF Within(h, o) THEN 0 ELSE CHOOSE c \in DOMAIN h.clauses : Within(h.clauses[c], o)
Around(o) == {h \in DOMAIN handlers : ContainsOffset(handlers[h], o)}
Depth(h, o) == Cardinality({g \in Around(o) : g < h})

\* The C code of an instruction is in the blocks of exactly the handlers that
\* the instruction is in, in their order and in the right part of each, and the
\* name it may use is that of the innermost (ExceptionHandlerController.cs:127).
\* A body is refused only when two handlers end with its last instruction.
CodeInItsBlocks ==
  /\ \A o \in DOMAIN written :
       /\ Len(written[o].blocks) = Cardinality(Around(o))
       /\ \A h \in Around(o) :
            written[o].blocks[Depth(h, o) + 1] = [nest |-> Depth(h, o), part |-> PartOf(handlers[h], o)]
       /\ written[o].nest = Cardinality(Around(o)) - 1
  /\ phase = "done" => blocks = <<>> /\ Len(written) = Length
  /\ phase = "refused" => Cardinality(Around(Length)) > 1

\* The depth of a handler is its number among the handlers.
NumberedByDepth == \A h \in DOMAIN handlers : Depth(h, handlers[h].start) = h - 1

\* A leave is handed from block to block outwards and becomes a goto at the end
\* of the outermost block that it leaves (FunctionWriter.cs:435).
LeaveBound ==
  phase = "done" /\ NumberedByDepth =>
    \A h \in Around(body.leave.from) \ Around(body.leave.target) :
      [handler |-> h,
       goto |-> \A g \in Around(body.leave.from) : g < h => g \in Around(body.leave.target)]
        \in Range(bindings)
=============================================================================
