------------------------------ MODULE SharedHeap ------------------------------
(***************************************************************************)
(* The list of headers, which threads that allocate push on while another  *)
(* thread collects: il2c_allocator.c, and marking and sweeping of il2c_gc.c *)
(* at the grain of their reads, stores and atomic instructions.            *)
(*                                                                         *)
(* One thread collects at a time (CollectGate).  It holds the locks of the *)
(* others, but those only stop frames: an allocation goes on beside it.    *)
(* Objects have no fields and no finalizer (GcHeap); every thread has one  *)
(* frame with one slot, and its temporary anchor.                          *)
(***************************************************************************)
EXTENDS Integers, SequencesExt

CONSTANTS
  Threads,
  Headers,      \* blocks of the C heap; a freed one may be allocated again
  Null

VARIABLES
  begin,        \* g_pBeginHeader__
  pNext,        \* of each header
  init, mark,   \* its characteristic: INITIALIZED, MARK_INDEX
  index,        \* g_CollectionMarkIndex__
  allocated,    \* the blocks that malloc gave and free did not take back
  anchor, slot, \* the references of each thread
  at,           \* where a thread is
  header,       \* the block it makes into an object
  read,         \* pNext that it read from begin; afterwards the index it read
  collector,    \* the thread that collects, or Null
  roots,        \* the references that it has not read yet: <<thread, "anchor" or "slot">>,
                \* a sequence
  current, previous,     \* pCurrentHeader; the header of ppUnlinkTarget, or "begin"
  scheduled     \* pScheduledHeader

heapVars == <<begin, pNext, init, mark, index, allocated>>
refVars == <<anchor, slot>>
threadVars == <<at, header, read>>
sweepVars == <<collector, roots, current, previous, scheduled>>
vars == <<begin, pNext, init, mark, index, allocated, anchor, slot, at, header, read,
          collector, roots, current, previous, scheduled>>

Init ==
  /\ begin = Null /\ pNext = [h \in Headers |-> Null]
  /\ init = [h \in Headers |-> FALSE] /\ mark = [h \in Headers |-> 0] /\ index = 0
  /\ allocated = {}
  /\ anchor = [t \in Threads |-> Null] /\ slot = [t \in Threads |-> Null]
  /\ at = [t \in Threads |-> "managed"] /\ header = [t \in Threads |-> Null]
  /\ read = [t \in Threads |-> Null]
  /\ collector = Null /\ roots = <<>> /\ current = Null /\ previous = "begin" /\ scheduled = <<>>

At(t, from, to) == at[t] = from /\ at' = [at EXCEPT ![t] = to]
-----------------------------------------------------------------------------
\* Managed code keeps the result in its slot, or drops what it has there.
Keep(t) ==
  /\ at[t] = "managed"
  /\ \E r \in {anchor[t], Null} : slot' = [slot EXCEPT ![t] = r]
  /\ UNCHANGED <<heapVars, anchor, threadVars, sweepVars>>

\* il2c_get_uninitialized_object_internal__: it collects first, unless another
\* thread does.
New(t) ==
  /\ At(t, "managed", IF collector = Null THEN "invert" ELSE "malloc")
  /\ IF collector = Null THEN collector' = t ELSE UNCHANGED collector
  /\ UNCHANGED <<heapVars, refVars, header, read, roots, current, previous, scheduled>>
\* The block is cleared.
Malloc(t) ==
  /\ At(t, "malloc", "head")
  /\ \E h \in Headers \ allocated :
       /\ allocated' = allocated \cup {h} /\ header' = [header EXCEPT ![t] = h]
       /\ pNext' = [pNext EXCEPT ![h] = Null]
       /\ init' = [init EXCEPT ![h] = FALSE] /\ mark' = [mark EXCEPT ![h] = 0]
  /\ UNCHANGED <<begin, index, refVars, read, sweepVars>>
ReadHead(t) ==
  /\ At(t, "head", "link")
  /\ read' = [read EXCEPT ![t] = begin] /\ pNext' = [pNext EXCEPT ![header[t]] = begin]
  /\ UNCHANGED <<begin, init, mark, index, allocated, refVars, header, sweepVars>>
\* il2c_icmpxchgptr.
\* Mutant: what was read is not compared.
SameAsAnything(t) == TRUE
Same(t) == begin = read[t]
Link(t) ==
  /\ At(t, "link", IF Same(t) THEN "index" ELSE "head")
  /\ IF Same(t) THEN begin' = header[t] ELSE UNCHANGED begin
  /\ read' = [read EXCEPT ![t] = Null]
  /\ UNCHANGED <<pNext, init, mark, index, allocated, refVars, header, sweepVars>>
ReadIndex(t) ==
  /\ At(t, "index", "mark")
  /\ read' = [read EXCEPT ![t] = index]
  /\ UNCHANGED <<heapVars, refVars, header, sweepVars>>
SetMark(t) ==
  /\ At(t, "mark", "anchor")
  /\ mark' = [mark EXCEPT ![header[t]] = read[t]] /\ init' = [init EXCEPT ![header[t]] = FALSE]
  /\ read' = [read EXCEPT ![t] = Null]
  /\ UNCHANGED <<begin, pNext, index, allocated, refVars, header, sweepVars>>
\* il2c_get_uninitialized_object__
SetAnchor(t) ==
  /\ At(t, "anchor", "initialize")
  /\ anchor' = [anchor EXCEPT ![t] = header[t]]
  /\ UNCHANGED <<heapVars, slot, header, read, sweepVars>>
Initialize(t) ==
  /\ At(t, "initialize", "initialized")
  /\ init' = [init EXCEPT ![header[t]] = TRUE]
  /\ UNCHANGED <<begin, pNext, mark, index, allocated, refVars, header, read, sweepVars>>
Return(t) ==
  /\ At(t, "initialized", "managed")
  /\ header' = [header EXCEPT ![t] = Null]
  /\ UNCHANGED <<heapVars, refVars, read, sweepVars>>
-----------------------------------------------------------------------------
\* il2c_collect__ of the collector c.
Invert(c) ==
  /\ At(c, "invert", "marking")
  /\ index' = 1 - index
  /\ \E order \in SetToSeqs(Threads) :
       roots' = FlattenSeq([i \in DOMAIN order |-> <<<<order[i], "anchor">>, <<order[i], "slot">>>>])
  /\ UNCHANGED <<begin, pNext, init, mark, allocated, refVars, header, read,
                 collector, current, previous, scheduled>>
\* The mark handler of Thread objects: a reference of a thread is read, and its
\* object marked; the test and the il2c_ixor of il2c_gc.c are one step, and what is
\* written to free blocks is not kept.
MarkRoot(c) ==
  /\ at[c] = "marking" /\ roots # <<>>
  /\ LET r == Head(roots)
         o == IF r[2] = "anchor" THEN anchor[r[1]] ELSE slot[r[1]]
     IN IF o \in allocated THEN mark' = [mark EXCEPT ![o] = index] ELSE UNCHANGED mark
  /\ roots' = Tail(roots)
  /\ UNCHANGED <<begin, pNext, init, index, allocated, refVars, threadVars,
                 collector, current, previous, scheduled>>
BeginSweep(c) ==
  /\ At(c, "marking", "sweep") /\ roots = <<>>
  /\ current' = begin /\ previous' = "begin"
  /\ UNCHANGED <<heapVars, refVars, header, read, collector, roots, scheduled>>

Garbage(h) == init[h] /\ mark[h] # index
SweepKeep(c) ==
  /\ at[c] = "sweep" /\ current # Null /\ ~Garbage(current)
  /\ previous' = current /\ current' = pNext[current]
  /\ UNCHANGED <<heapVars, refVars, threadVars, collector, roots, scheduled>>
\* *ppUnlinkTarget = pNext
SweepUnlink(c) ==
  /\ at[c] = "sweep" /\ current # Null /\ Garbage(current)
  /\ IF previous = "begin"
     THEN begin' = pNext[current] /\ UNCHANGED pNext
     ELSE pNext' = [pNext EXCEPT ![previous] = pNext[current]] /\ UNCHANGED begin
  /\ scheduled' = <<current>> \o scheduled /\ current' = pNext[current]
  /\ UNCHANGED <<init, mark, index, allocated, refVars, threadVars, collector, roots, previous>>
SweepFree(c) ==
  /\ at[c] = "sweep" /\ current = Null /\ scheduled # <<>>
  /\ allocated' = allocated \ {Head(scheduled)} /\ scheduled' = Tail(scheduled)
  /\ pNext' = [pNext EXCEPT ![Head(scheduled)] = Null]
  /\ init' = [init EXCEPT ![Head(scheduled)] = FALSE]
  /\ mark' = [mark EXCEPT ![Head(scheduled)] = 0]
  /\ UNCHANGED <<begin, index, refVars, threadVars, collector, roots, current, previous>>
EndCollection(c) ==
  /\ At(c, "sweep", "malloc") /\ current = Null /\ scheduled = <<>>
  /\ collector' = Null /\ previous' = "begin"
  /\ UNCHANGED <<heapVars, refVars, header, read, roots, current, scheduled>>

Allocate(t) ==
  \/ Keep(t) \/ New(t) \/ Malloc(t) \/ ReadHead(t) \/ Link(t)
  \/ ReadIndex(t) \/ SetMark(t) \/ SetAnchor(t) \/ Initialize(t) \/ Return(t)
Collect(c) ==
  Invert(c) \/ MarkRoot(c) \/ BeginSweep(c) \/ SweepKeep(c) \/ SweepUnlink(c)
  \/ SweepFree(c) \/ EndCollection(c)
Next == \E t \in Threads : Allocate(t) \/ Collect(t)
Spec == Init /\ [][Next]_vars
-----------------------------------------------------------------------------
\* What a walk of the list comes to: the least set that has its head, and with
\* each header what that points to.
Walk ==
  LET closed == {S \in SUBSET (Headers \cup {Null}) :
                   begin \in S /\ \A h \in S \ {Null} : pNext[h] \in S}
  IN {h \in Headers \cup {Null} : \A S \in closed : h \in S}
Listed == Walk \ {Null}

\* However pushes and the sweep meet, the list ends, no block that was given
\* back to the heap is in it, and no object is discarded that is not INITIALIZED
\* (il2c_allocator.c:103, il2c_gc.c:381).
ListSound ==
  /\ Null \in Walk
  /\ Listed \subseteq allocated \ ToSet(scheduled)
  /\ \A h \in ToSet(scheduled) : init[h] /\ h \in allocated

\* An object that a thread is constructing is marked until it is initialized
\* (the comments of il2c_allocator.c:116 and 155), so that it is not freed.
ConstructedSurvives ==
  \A t \in Threads :
    at[t] \in {"index", "mark", "anchor", "initialize", "initialized"} => header[t] \in allocated
===============================================================================
