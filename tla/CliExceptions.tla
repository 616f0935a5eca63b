---------------------------- MODULE CliExceptions ----------------------------
(***************************************************************************)
(* What a method body may expect of throw, rethrow, leave and endfinally.  *)
(*                                                                         *)
(* An exception goes to the handlers of the blocks it was thrown in, from  *)
(* the innermost outwards and across calls; a block whose handler runs     *)
(* already does not protect it.  The finally handlers on the way to the    *)
(* catch handler run first.  Leaving blocks runs their finally handlers.   *)
(***************************************************************************)
EXTENDS Integers, Sequences, FiniteSetsExt

CONSTANTS
  Exceptions,
  Filters,      \* what the catch handlers of a block catch
  None,         \* no exception
  MaxBlocks,    \* bound: blocks that are entered and not left
  MaxCalls      \* bound: calls that have not returned

VARIABLES
  blocks,       \* the blocks control is in, the innermost last
  calls,        \* methods that have been called
  outcome       \* "running", or "unhandled" once nothing handles an exception

vars == <<blocks, calls, outcome>>

\* A block in its try, catch or finally part; the exception that brought it
\* there; in a finally handler without one, how many blocks will remain.
Block(kind, filter, call, at, ex, remain) ==
  [kind |-> kind, filter |-> filter, call |-> call, at |-> at, ex |-> ex, remain |-> remain]
Init == blocks = <<>> /\ calls = 1 /\ outcome = "running"

EnterTry(kind, filter) ==
  /\ outcome = "running" /\ Len(blocks) < MaxBlocks
  /\ blocks' = Append(blocks, Block(kind, filter, calls, "try", None, 0))
  /\ UNCHANGED <<calls, outcome>>

Call ==
  /\ outcome = "running" /\ calls < MaxCalls
  /\ calls' = calls + 1
  /\ UNCHANGED <<blocks, outcome>>
Return ==
  /\ outcome = "running" /\ calls > 1
  /\ \A i \in DOMAIN blocks : blocks[i].call < calls
  /\ calls' = calls - 1
  /\ UNCHANGED <<blocks, outcome>>

\* The handler among the first n blocks that e reaches next, 0 if there is none.
Protecting(n) == {i \in 1 .. n : blocks[i].at = "try"}
Catcher(e, n) == Max({0} \cup {i \in Protecting(n) : e \in blocks[i].filter})
Reached(e, n) ==
  Max({Catcher(e, n)} \cup
      {i \in Protecting(n) : blocks[i].kind = "finally" /\ i > Catcher(e, n)})
Raise(e, n) ==
  LET i == Reached(e, n)
  IN IF i = 0
     THEN outcome' = "unhandled" /\ UNCHANGED <<blocks, calls>>
     ELSE /\ blocks' = [SubSeq(blocks, 1, i) EXCEPT ![i].at = blocks[i].kind, ![i].ex = e]
          /\ calls' = blocks[i].call
          /\ UNCHANGED outcome

Throw(e) == outcome = "running" /\ Raise(e, Len(blocks))

\* Inside a catch handler, possibly in a block of its own.
CatchesHere(i) ==
  /\ blocks[i].at = "catch" /\ blocks[i].call = calls
  /\ \A j \in (i + 1) .. Len(blocks) : blocks[j].at = "try"
Rethrow ==
  /\ outcome = "running"
  /\ \E i \in DOMAIN blocks : CatchesHere(i) /\ Raise(blocks[i].ex, Len(blocks))

\* On the way out to the first n blocks.
Exit(n, from) ==
  LET finallies == {i \in (n + 1) .. from : blocks[i].kind = "finally" /\ blocks[i].at = "try"}
      i == Max({0} \cup finallies)
  IN /\ blocks' = IF i = 0 THEN SubSeq(blocks, 1, n)
                  ELSE [SubSeq(blocks, 1, i) EXCEPT ![i].at = "finally", ![i].remain = n]
     /\ UNCHANGED <<calls, outcome>>

Leave(n) ==
  /\ outcome = "running" /\ n < Len(blocks)
  /\ \A i \in (n + 1) .. Len(blocks) : blocks[i].call = calls /\ blocks[i].at # "finally"
  /\ Exit(n, Len(blocks))

EndFinally ==
  LET top == blocks[Len(blocks)]
  IN /\ outcome = "running" /\ blocks # <<>>
     /\ top.at = "finally" /\ top.call = calls
     /\ IF top.ex # None THEN Raise(top.ex, Len(blocks) - 1)
                         ELSE Exit(top.remain, Len(blocks) - 1)

Next ==
  \/ \E filter \in Filters : EnterTry("catch", filter)
  \/ EnterTry("finally", {})
  \/ Call \/ Return
  \/ \E e \in Exceptions : Throw(e)
  \/ Rethrow
  \/ \E n \in 0 .. Len(blocks) : Leave(n)
  \/ EndFinally

Spec == Init /\ [][Next]_vars
=============================================================================
