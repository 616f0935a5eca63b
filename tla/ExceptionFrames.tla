--------------------------- MODULE ExceptionFrames ---------------------------
(***************************************************************************)
(* Exceptions of one thread: the frames that il2c_try links, the search    *)
(* of il2c_throw and il2c_rethrow for the handler to jump to, and the C    *)
(* blocks that il2c_leave, il2c_finally and il2c_leave_to make of a body.  *)
(*                                                                         *)
(* A block of the C stack holds its IL2C_EXCEPTION_FRAME and the place     *)
(* control is at in it; il2c_longjmp cuts the stack.  A failed il2c_assert *)
(* has no effect.                                                          *)
(***************************************************************************)
EXTENDS Integers, Sequences, FiniteSetsExt

CONSTANTS
  Exceptions,
  Filters,      \* what the catch handlers of a block catch
  Null,
  MaxBlocks,    \* bound: blocks that are entered and not left
  MaxCalls,     \* bound: calls that have not returned
  MaxLeave,     \* blocks that one leave leaves
  Escaping      \* whether exceptions leave handlers from within, see Contained

ASSUME ExceptionAssumption ==
  /\ Filters \subseteq SUBSET Exceptions /\ Null \notin Exceptions
  /\ MaxBlocks \in Nat /\ MaxCalls \in Nat \ {0} /\ MaxLeave \in Nat
  /\ Escaping \in BOOLEAN

VARIABLES
  stack,        \* the il2c_try blocks of the C stack
  calls,        \* functions on the C stack
  target,       \* pUnwindTarget: an index into stack, 0 for NULL
  pFrame,       \* the number of execution frames that are linked
  outcome       \* "running" or "unhandled"

vars == <<stack, calls, target, pFrame, outcome>>

Top == Len(stack)
Kinds == {"catch", "finally"}
Parts == {"try", "catch", "finally", "leave"}
Block ==
  [kind : Kinds, filter : SUBSET Exceptions, call : Nat, at : Parts, continuation : Nat,
   next : Nat, frame : Nat, ex : Exceptions \cup {Null}, entries : Nat]

Init ==
  /\ stack = <<>> /\ calls = 1 /\ target = 0 /\ pFrame = 1
  /\ outcome = "running"

\* Control is in managed code of the innermost block.
Managed ==
  /\ outcome = "running"
  /\ Top > 0 => stack[Top].at # "leave"
-----------------------------------------------------------------------------
\* Mutant: the frame is linked behind the first one.
TryBehind(kind, filter) ==
  /\ Managed /\ Top < MaxBlocks
  /\ stack' = Append(stack,
       [kind |-> kind, filter |-> filter, call |-> calls, at |-> "try", continuation |-> 0,
        next |-> 0, frame |-> pFrame, ex |-> Null, entries |-> 0])
  /\ target' = Top + 1
  /\ UNCHANGED <<calls, pFrame, outcome>>

\* il2c_try: link the frame, then setjmp.
Try(kind, filter) ==
  /\ Managed /\ Top < MaxBlocks
  /\ stack' = Append(stack,
       [kind |-> kind, filter |-> filter, call |-> calls, at |-> "try", continuation |-> 0,
        next |-> target, frame |-> pFrame, ex |-> Null, entries |-> 0])
  /\ target' = Top + 1
  /\ UNCHANGED <<calls, pFrame, outcome>>

\* A function links an execution frame and unlinks it before it returns.
Call ==
  /\ Managed /\ calls < MaxCalls
  /\ calls' = calls + 1
  /\ pFrame' = pFrame + 1
  /\ UNCHANGED <<stack, target, outcome>>
Return ==
  /\ Managed /\ calls > 1
  /\ \A i \in 1 .. Top : stack[i].call < calls
  /\ calls' = calls - 1
  /\ pFrame' = pFrame - 1
  /\ UNCHANGED <<stack, target, outcome>>
-----------------------------------------------------------------------------
\* The frames from i on: the least set that has i, if it is one, and with each
\* frame the next.
Chain(i) ==
  LET closed == {S \in SUBSET (1 .. Top) :
                   \A k \in {i} \cup {stack[j].next : j \in S} : k = 0 \/ k \in S}
  IN {k \in 1 .. Top : \A S \in closed : k \in S}

\* The frame filter: the catch handlers, or the finally handler.
Catches(i, e) == stack[i].kind = "catch" /\ e \in stack[i].filter

\* il2c_do_throw__
DoThrow(e, i) ==
  /\ stack' = [SubSeq(stack, 1, i) EXCEPT ![i].ex = e, ![i].at = stack[i].kind,
                                          ![i].entries = @ + 1]
  /\ target' = i
  /\ pFrame' = stack[i].frame
  /\ calls' = stack[i].call
  /\ UNCHANGED outcome

\* Mutant: the handler that catches is entered at once.
SelectedFirstChance(e, from) ==
  LET catching == {i \in Chain(from) : Catches(i, e)}
  IN IF catching # {} THEN Max(catching)
     ELSE Max({0} \cup {i \in Chain(from) : stack[i].kind = "finally"})

\* The walk of il2c_throw_internal__ remembers the first finally handler and
\* ends at the first frame that catches; 0 when neither was found.
Selected(e, from) ==
  LET caught == Max({0} \cup {i \in Chain(from) : Catches(i, e)})
      finallies == {i \in Chain(from) : stack[i].kind = "finally" /\ i > caught}
  IN Max({caught} \cup finallies)

ThrowInternal(e, from, linked) ==
  IF Selected(e, from) = 0
  THEN outcome' = "unhandled" /\ target' = linked /\ UNCHANGED <<stack, calls, pFrame>>
  ELSE DoThrow(e, Selected(e, from))

\* Programs in which an exception does not leave a handler it is thrown in,
\* unless the handler itself throws it and runs for an exception: the search
\* skips only the current frame, and only if that holds an exception.
Protecting(n) == {i \in 1 .. n : stack[i].at = "try"}
Contained(e, n) ==
  LET caught == Max({0} \cup {i \in Protecting(n) : Catches(i, e)})
      reached == Max({caught} \cup {i \in Protecting(n) : stack[i].kind = "finally"})
  IN \A i \in (reached + 1) .. n : stack[i].at = "try" \/ (i = Top /\ stack[i].ex # Null)

\* il2c_throw__, for a throw of the program or of the runtime
FirstFrame ==
  IF target = 0 THEN 0 ELSE IF stack[target].ex # Null THEN stack[target].next ELSE target
Throw(e) ==
  /\ Managed
  /\ Escaping \/ Contained(e, Top)
  /\ ThrowInternal(e, FirstFrame, target)

\* il2c_rethrow: from the frame that holds an exception, which it unlinks, or
\* with the exception of the nearest one that does.
NearestCaught == Max({0} \cup {i \in Chain(target) : stack[i].ex # Null})
RethrowInternal ==
  IF stack[target].ex # Null
  THEN ThrowInternal(stack[target].ex, stack[target].next, stack[target].next)
  ELSE ThrowInternal(stack[NearestCaught].ex, target, target)

\* A rethrow is in a catch handler, possibly in a block of its own.
CatchesHere(i) ==
  /\ stack[i].at = "catch" /\ stack[i].call = calls
  /\ \A j \in (i + 1) .. Top : stack[j].at = "try"
Rethrow ==
  /\ Managed
  /\ \E i \in 1 .. Top : CatchesHere(i) /\ (Escaping \/ Contained(stack[i].ex, Top))
  /\ RethrowInternal
-----------------------------------------------------------------------------
\* il2c_leave: out of the switch, into the finally handler if there is one.
Leave(n) ==
  /\ Managed /\ n <= Top
  /\ \A i \in (Top - n + 1) .. Top : stack[i].call = calls /\ stack[i].at # "finally"
  /\ stack' = [stack EXCEPT ![Top].continuation = n,
                            ![Top].at = IF stack[Top].kind = "finally" THEN "finally" ELSE "leave",
                            ![Top].entries = IF stack[Top].kind = "finally" THEN @ + 1 ELSE @]
  /\ UNCHANGED <<calls, target, pFrame, outcome>>

\* il2c_endfinally: rethrow if the frame holds an exception.
EndFinally ==
  /\ Managed /\ Top > 0
  /\ stack[Top].at = "finally" /\ stack[Top].call = calls
  /\ IF stack[Top].ex # Null
     THEN /\ Escaping \/ Contained(stack[Top].ex, Top)
          /\ RethrowInternal
     ELSE /\ stack' = [stack EXCEPT ![Top].at = "leave"]
          /\ UNCHANGED <<calls, target, pFrame, outcome>>

\* il2c_leave_to and the end of the block: unlink, then goto the label of the
\* continuation, or hand it to the parent block and go on behind this one.
LeaveTo ==
  LET parent == SubSeq(stack, 1, Top - 1)
      left == stack[Top].continuation
  IN /\ Top > 0 /\ stack[Top].at = "leave"
     /\ target' = stack[Top].next
     /\ stack' = IF left <= 1 THEN parent ELSE [parent EXCEPT ![Top - 1].continuation = left - 1]
     /\ UNCHANGED <<calls, pFrame, outcome>>
-----------------------------------------------------------------------------
Next ==
  \/ \E filter \in Filters : Try("catch", filter)
  \/ Try("finally", {})
  \/ Call \/ Return
  \/ \E e \in Exceptions : Throw(e)
  \/ Rethrow
  \/ \E n \in 1 .. MaxLeave : Leave(n)
  \/ EndFinally \/ LeaveTo

Spec == Init /\ [][Next]_vars
-----------------------------------------------------------------------------
TypeOK ==
  /\ stack \in Seq(Block) /\ calls \in Nat \ {0}
  /\ target \in Nat /\ pFrame \in Nat
  /\ outcome \in {"running", "unhandled"}

\* The list starts at the innermost C block and goes through all of them, also
\* after a jump out of several calls, and the collector finds the execution
\* frames of the functions that are still called: il2c_unlink_unwind_target__
\* takes off the frame it is given (il2c_exception.c:39), nothing refers to a
\* frame whose C block is gone.
FramesAreLive ==
  /\ outcome = "running" => target = Top
  /\ pFrame = calls
  /\ \A i \in 1 .. Top : stack[i].next = i - 1 /\ stack[i].frame = stack[i].call

\* il2c_exception.c:137 says that a throw inside a caught block skips its frame:
\* no catch handler is entered again before control has left its block.
CatchEnteredOnce == \A i \in 1 .. Top : stack[i].kind = "catch" => stack[i].entries <= 1

\* What the program sees: a block that is being left is gone.
Seen(i) ==
  LET b == stack[i]
  IN [kind |-> b.kind, filter |-> b.filter, call |-> b.call, at |-> b.at, ex |-> b.ex,
      remain |-> IF b.at = "finally" /\ b.ex = Null THEN i - b.continuation ELSE 0]
SeenBlocks ==
  [i \in 1 .. (IF Top > 0 /\ stack[Top].at = "leave" THEN Top - 1 ELSE Top) |-> Seen(i)]
Cli == INSTANCE CliExceptions WITH blocks <- SeenBlocks, calls <- pFrame, None <- Null

\* Handlers run when and in the order CIL says, with the exception it says
\* (il2c_exception.c:61-187 with the blocks of il2c.h:422-470).
ImplementsCli == Cli!Spec
=============================================================================
