-------------------------------- MODULE GcHeap --------------------------------
(***************************************************************************)
(* The managed heap of a program with one thread: what it allocates, what  *)
(* it can reach, and how il2c_collect__ marks, finalizes and frees.        *)
(*                                                                         *)
(* There is no step that clears the marks.  A header is marked when its    *)
(* mark bit equals g_CollectionMarkIndex__, and a collection begins by     *)
(* inverting the index: correctness rests on every listed header having    *)
(* the same bit between collections.                                       *)
(*                                                                         *)
(* A finalizer runs in the middle of the sweep.  It is managed code with a *)
(* frame of its own; the collections it asks for are turned away; what it  *)
(* stores decides whether the sweep's verdicts are still right when the    *)
(* memory is given back.                                                   *)
(*                                                                         *)
(* Abstractions: an execution frame has one reference slot; a finalizable  *)
(* object is one whose class overrides Finalize; constants (string         *)
(* literals), value types inside objects, and the thread object itself,    *)
(* which is a root, are left out.  Between linking a header and making it  *)
(* INITIALIZED one thread does nothing that could collect.                 *)
(***************************************************************************)
EXTENDS Naturals, FiniteSets, SequencesExt

CONSTANTS
  Objects,      \* heap blocks, used again after they are freed
  Finalizable,  \* those whose class overrides Finalize
  Fields,       \* reference fields of an object
  Globals,      \* static fields and fixed references
  Null,         \* the null reference
  MaxFrames,    \* bound: execution frames
  FinalizerOps, \* what finalizers do besides reading and storing references
  Careless      \* finalizers keep references to what the sweep discards

ASSUME ObjectAssumption ==
  /\ IsFiniteSet(Objects)
  /\ Finalizable \subseteq Objects
  /\ Null \notin Objects
ASSUME ProgramAssumption ==
  /\ MaxFrames \in Nat \ {0}
  /\ FinalizerOps \subseteq {"new", "register"}
  /\ Careless \in BOOLEAN

VARIABLES
  \* the program
  frames,       \* the reference slot of each linked execution frame
  anchor,       \* pTemporaryReferenceAnchor
  globals,      \* static fields and fixed references
  field,        \* the fields of each object
  \* the collector
  headers,      \* the list from g_pBeginHeader__, newest first
  index,        \* g_CollectionMarkIndex__
  mark,         \* MARK_INDEX of each header
  finalized,    \* headers with FINALIZER_CALLED
  pending,      \* g_PendingRemains__
  pc,           \* where the thread is
  cont,         \* where the collection returns to, or "none"
  grey,         \* references the marking has still to look at
  left,         \* headers the sweep has still to visit
  scheduled,    \* pScheduledHeader: unlinked, freed when the sweep is over
  remains,      \* headers the sweep has kept
  base          \* frames below the running finalizer's own

programVars == <<frames, anchor, globals, field>>
listVars == <<headers, mark, finalized>>
sweepVars == <<pending, left, scheduled, remains>>
vars == <<frames, anchor, globals, field, headers, index, mark, finalized,
          pending, pc, cont, grey, left, scheduled, remains, base>>

Ref == Objects \cup {Null}
AnyRefs(S) == S \ {Null}
Zeroed == [f \in Fields |-> Null]
Refs(o) == AnyRefs({field[o][f] : f \in Fields})

\* What follows from references R through the fields of objects.
Reachable(R) ==
  {o \in Objects :
     \A S \in SUBSET Objects :
       R \subseteq S /\ (\A p \in S : Refs(p) \subseteq S) => o \in S}

GlobalRefs == AnyRefs({globals[g] : g \in Globals})
FrameRefs == AnyRefs(ToSet(frames))
Roots == AnyRefs({anchor}) \cup GlobalRefs \cup FrameRefs
Live == Reachable(Roots)

Listed == ToSet(headers)
Allocated == Listed \cup scheduled
Marked(o) == mark[o] = index
Collecting == cont # "none"
InFinalizer == Collecting /\ pc \in {"managed", "new", "retry", "return", "wait"}
Top == frames[Len(frames)]

Pc == {"managed", "new", "retry", "return", "wait", "mark", "sweep", "stopped", "aborted"}
Conts == {"none", "managed", "new", "retry", "return", "wait", "shutdown"}
-----------------------------------------------------------------------------
Init ==
  /\ frames = <<Null>>
  /\ anchor = Null
  /\ globals = [g \in Globals |-> Null]
  /\ field = [o \in Objects |-> Zeroed]
  /\ headers = <<>>
  /\ index = 0
  /\ mark = [o \in Objects |-> 0]
  /\ finalized = {}
  /\ pending = 0
  /\ pc = "managed"
  /\ cont = "none"
  /\ grey = {}
  /\ left = 0
  /\ scheduled = {}
  /\ remains = 0
  /\ base = 0
-----------------------------------------------------------------------------
\* The references the running method can read: its slot, its caller's (the
\* arguments), the globals, and the fields of the object in its slot.
Readable ==
  {Top, Null} \cup {globals[g] : g \in Globals}
    \cup (IF Len(frames) > base + 1 THEN {frames[Len(frames) - 1]} ELSE {})
    \cup (IF Top = Null THEN {} ELSE Refs(Top))

\* What the sweep has discarded, or will without asking a finalizer.
Discarded ==
  scheduled \cup
    {o \in Listed : ~Marked(o) /\ (o \notin Finalizable \/ o \in finalized)}

\* Roots that outlive the running finalizer.
OuterRoots == GlobalRefs \cup AnyRefs({frames[i] : i \in 1 .. base})

\* Finalizers do what FinalizerOps lets them do; careful ones do neither during
\* the final shutdown, whose later rounds find the static fields dangling.
MayDo(op) == InFinalizer => op \in FinalizerOps /\ (cont = "shutdown" => Careless)

\* Objects a later collection hands to their finalizer if nobody holds them.
Registered == {o \in Listed : Marked(o) /\ o \in Finalizable \ finalized}

\* A careful finalizer leaves nothing the sweep discards where the program, or a
\* finalizer in a later collection, can find it.  After the final shutdown
\* nobody looks.
Careful ==
  ~Careless /\ InFinalizer /\ cont # "shutdown" =>
    Reachable(OuterRoots \cup Registered) \cap Discarded = {}

Assign ==
  /\ pc = "managed" /\ frames # <<>>
  /\ \E x \in Readable : frames' = [frames EXCEPT ![Len(frames)] = x]
  /\ UNCHANGED <<anchor, globals, field, listVars, index, sweepVars,
                 pc, cont, grey, base>>

StoreGlobal ==
  /\ pc = "managed" /\ frames # <<>>
  /\ \E g \in Globals, x \in {Top, Null} : globals' = [globals EXCEPT ![g] = x]
  /\ UNCHANGED <<frames, anchor, field, listVars, index, sweepVars,
                 pc, cont, grey, base>>
  /\ Careful'

StoreField ==
  /\ pc = "managed" /\ frames # <<>> /\ Top # Null
  /\ \E f \in Fields, x \in Readable : field' = [field EXCEPT ![Top][f] = x]
  /\ UNCHANGED <<frames, anchor, globals, listVars, index, sweepVars,
                 pc, cont, grey, base>>
  /\ Careful'

\* GC.SuppressFinalize and GC.ReRegisterForFinalize.
Suppress ==
  /\ pc = "managed" /\ frames # <<>> /\ Top \in Finalizable
  /\ finalized' = finalized \cup {Top}
  /\ UNCHANGED <<programVars, headers, mark, index, sweepVars,
                 pc, cont, grey, base>>
  /\ Careful'

ReRegister ==
  /\ pc = "managed" /\ frames # <<>> /\ Top \in Finalizable
  /\ MayDo("register")
  /\ Careless \/ Top \notin scheduled
  /\ finalized' = finalized \ {Top}
  /\ UNCHANGED <<programVars, headers, mark, index, sweepVars,
                 pc, cont, grey, base>>
  /\ Careful'

\* A call links the frame of the callee, its slot zeroed.
Call ==
  /\ pc = "managed" /\ frames # <<>> /\ Len(frames) < MaxFrames + base
  /\ frames' = Append(frames, Null)
  /\ UNCHANGED <<anchor, globals, field, listVars, index, sweepVars,
                 pc, cont, grey, base>>
-----------------------------------------------------------------------------
\* Mutant: static and fixed references are not walked.
MarkRootsWithoutGlobals == AnyRefs({anchor}) \cup FrameRefs
\* Static fields, the thread's anchor and frames, fixed references.
MarkRoots == Roots

\* il2c_collect__: turned away in a finalizer; otherwise the index is inverted
\* and the marking starts from the roots.
Collect(to) ==
  IF Collecting
  THEN /\ pc' = to
       /\ UNCHANGED <<index, cont, grey>>
  ELSE /\ index' = 1 - index
       /\ grey' = MarkRoots
       /\ pc' = "mark"
       /\ cont' = to

\* GC.Collect, a call of new, a return, GC.WaitForPendingFinalizers.
CollectFor(to) ==
  /\ pc = "managed" /\ frames # <<>>
  /\ to = "new" => MayDo("new")
  /\ to = "return" => Len(frames) > base + 1
  /\ to = "wait" => ~Collecting /\ pending > 0
  /\ Collect(to)
  /\ UNCHANGED <<programVars, listVars, sweepVars, base>>

\* The loop of GC.WaitForPendingFinalizers.
WaitAgain ==
  /\ pc = "wait" /\ pending > 0
  /\ Collect("wait")
  /\ UNCHANGED <<programVars, listVars, sweepVars, base>>

\* Mutant: one collection is thought to be enough.
WaitOnce ==
  /\ pc = "wait"
  /\ pc' = "managed"
  /\ UNCHANGED <<programVars, listVars, index, sweepVars, cont, grey, base>>

WaitDone ==
  /\ pc = "wait" /\ pending = 0
  /\ pc' = "managed"
  /\ UNCHANGED <<programVars, listVars, index, sweepVars, cont, grey, base>>

\* Mutant: the characteristic starts as zero whatever the current index.
NewUnmarked(o) ==
  /\ pc \in {"new", "retry"}
  /\ o \in Objects \ Allocated
  /\ headers' = <<o>> \o headers
  /\ mark' = [mark EXCEPT ![o] = 0]
  /\ finalized' = finalized \ {o}
  /\ field' = [field EXCEPT ![o] = Zeroed]
  /\ anchor' = o
  /\ frames' = [frames EXCEPT ![Len(frames)] = o]
  /\ pc' = "managed"
  /\ UNCHANGED <<globals, index, sweepVars, cont, grey, base>>

\* il2c_get_uninitialized_object__: a cleared block, linked in front with the
\* current mark, anchored, and assigned by the caller.
New(o) ==
  /\ pc \in {"new", "retry"}
  /\ o \in Objects \ Allocated
  /\ headers' = <<o>> \o headers
  /\ mark' = [mark EXCEPT ![o] = index]
  /\ finalized' = finalized \ {o}
  /\ field' = [field EXCEPT ![o] = Zeroed]
  /\ anchor' = o
  /\ frames' = [frames EXCEPT ![Len(frames)] = o]
  /\ pc' = "managed"
  /\ UNCHANGED <<globals, index, sweepVars, cont, grey, base>>

\* No memory: collect once more, then give up.
NewFails ==
  /\ pc = "new" /\ Objects = Allocated
  /\ Collect("retry")
  /\ UNCHANGED <<programVars, listVars, sweepVars, base>>

Abort ==
  /\ pc = "retry" /\ Objects = Allocated
  /\ pc' = "aborted"
  /\ UNCHANGED <<programVars, listVars, index, sweepVars, cont, grey, base>>

\* il2c_unlink_execution_frame__ after its collection: the value returned is
\* anchored, the caller assigns it or drops it.
Return ==
  /\ pc = "return"
  /\ \E x \in {Top, Null}, keep \in BOOLEAN :
       /\ anchor' = x
       /\ frames' = IF keep
                    THEN [Front(frames) EXCEPT ![Len(frames) - 1] = x]
                    ELSE Front(frames)
  /\ pc' = "managed"
  /\ UNCHANGED <<globals, field, listVars, index, sweepVars, cont, grey, base>>
-----------------------------------------------------------------------------
\* Mutant: the fields of a marked object are not traversed.
MarkStepShallow ==
  /\ pc = "mark" /\ grey # {}
  /\ mark' = [o \in Objects |-> IF o \in grey THEN index ELSE mark[o]]
  /\ grey' = {}
  /\ UNCHANGED <<programVars, headers, finalized, index, sweepVars, pc, cont, base>>

\* Mark whatever is referenced and not yet marked, go on with its fields.
MarkStep ==
  /\ pc = "mark" /\ grey # {}
  /\ LET white == {o \in grey : ~Marked(o)} IN
       /\ mark' = [o \in Objects |-> IF o \in white THEN index ELSE mark[o]]
       /\ grey' = UNION {Refs(o) : o \in white}
  /\ UNCHANGED <<programVars, headers, finalized, index, sweepVars, pc, cont, base>>

StartSweep ==
  /\ pending' = 0
  /\ remains' = 0
  /\ left' = Len(headers)
  /\ pc' = "sweep"

MarkDone ==
  /\ pc = "mark" /\ grey = {}
  /\ StartSweep
  /\ UNCHANGED <<programVars, listVars, index, cont, grey, scheduled, base>>

\* The header the sweep is at.  Finalizers link new headers in front of it.
Position == Len(headers) - left + 1
Current == headers[Position]
\* Mutant: the test of FINALIZER_CALLED is inverted.
NeedsFinalizerInverted == Current \in Finalizable /\ Current \in finalized
NeedsFinalizer == Current \in Finalizable /\ Current \notin finalized

SweepKeep ==
  /\ pc = "sweep" /\ left > 0 /\ Marked(Current)
  /\ left' = left - 1
  /\ remains' = remains + 1
  /\ UNCHANGED <<programVars, listVars, index, pending, scheduled,
                 pc, cont, grey, base>>

\* Mutant: put on the free list but not unlinked.
SweepScheduleOnly ==
  /\ pc = "sweep" /\ left > 0 /\ ~Marked(Current) /\ ~NeedsFinalizer
  /\ scheduled' = scheduled \cup {Current}
  /\ left' = left - 1
  /\ UNCHANGED <<programVars, listVars, index, pending, remains,
                 pc, cont, grey, base>>

\* Mutant: unlinked, but the walk does not go on to the next header.
SweepUnlinkStays ==
  /\ pc = "sweep" /\ left > 0 /\ ~Marked(Current) /\ ~NeedsFinalizer
  /\ headers' = RemoveAt(headers, Position)
  /\ scheduled' = scheduled \cup {Current}
  /\ UNCHANGED <<programVars, mark, finalized, index, pending, left, remains,
                 pc, cont, grey, base>>

SweepUnlink ==
  /\ pc = "sweep" /\ left > 0 /\ ~Marked(Current) /\ ~NeedsFinalizer
  /\ headers' = RemoveAt(headers, Position)
  /\ scheduled' = scheduled \cup {Current}
  /\ left' = left - 1
  /\ UNCHANGED <<programVars, mark, finalized, index, pending, remains,
                 pc, cont, grey, base>>

\* Mutant: FINALIZER_CALLED is not set.
SweepFinalizeUnflagged ==
  /\ pc = "sweep" /\ left > 0 /\ ~Marked(Current) /\ NeedsFinalizer
  /\ mark' = [mark EXCEPT ![Current] = 1 - @]
  /\ base' = Len(frames)
  /\ frames' = Append(frames, Current)
  /\ pc' = "managed"
  /\ UNCHANGED <<anchor, globals, field, headers, finalized, index, sweepVars, cont, grey>>

\* The flag first, then the temporary mark, then the call with this in a slot.
SweepFinalize ==
  /\ pc = "sweep" /\ left > 0 /\ ~Marked(Current) /\ NeedsFinalizer
  /\ finalized' = finalized \cup {Current}
  /\ mark' = [mark EXCEPT ![Current] = 1 - @]
  /\ base' = Len(frames)
  /\ frames' = Append(frames, Current)
  /\ pc' = "managed"
  /\ UNCHANGED <<anchor, globals, field, headers, index, sweepVars, cont, grey>>

\* Mutant: the finalized object is not counted among those that remain.
FinalizerReturnNotRemaining ==
  /\ pc = "managed" /\ InFinalizer /\ Len(frames) = base + 1
  /\ frames' = Front(frames)
  /\ anchor' = Null
  /\ base' = 0
  /\ pending' = pending + 1
  /\ left' = left - 1
  /\ pc' = "sweep"
  /\ UNCHANGED <<globals, field, listVars, index, remains, scheduled, cont, grey>>

\* The finalizer unlinks its frame and returns nothing.
FinalizerReturn ==
  /\ pc = "managed" /\ InFinalizer /\ Len(frames) = base + 1
  /\ frames' = Front(frames)
  /\ anchor' = Null
  /\ base' = 0
  /\ pending' = pending + 1
  /\ remains' = remains + 1
  /\ left' = left - 1
  /\ pc' = "sweep"
  /\ UNCHANGED <<globals, field, listVars, index, scheduled, cont, grey>>

\* The memory of what was unlinked is given back, its content is lost.
FreeScheduled ==
  /\ scheduled' = {}
  /\ field' = [o \in Objects |-> IF o \in scheduled THEN Zeroed ELSE field[o]]
  /\ mark' = [o \in Objects |-> IF o \in scheduled THEN 0 ELSE mark[o]]
  /\ finalized' = finalized \ scheduled

SweepDone ==
  /\ pc = "sweep" /\ left = 0 /\ cont # "shutdown"
  /\ FreeScheduled
  /\ remains' = 0
  /\ pc' = cont
  /\ cont' = "none"
  /\ UNCHANGED <<frames, anchor, globals, headers, index, pending, left, grey, base>>
-----------------------------------------------------------------------------
\* il2c_collect_for_final_shutdown__: nothing is marked, so everything is
\* garbage after each inversion; repeat until nothing remains.
Shutdown ==
  /\ pc = "managed" /\ ~Collecting /\ Len(frames) = 1
  /\ frames' = <<>>
  /\ anchor' = Null
  /\ index' = 1 - index
  /\ cont' = "shutdown"
  /\ StartSweep
  /\ UNCHANGED <<globals, field, listVars, scheduled, grey, base>>

\* Mutant: the index is not inverted for another round.
ShutdownAgainMarked ==
  /\ pc = "sweep" /\ left = 0 /\ cont = "shutdown" /\ remains > 0
  /\ FreeScheduled
  /\ StartSweep
  /\ UNCHANGED <<frames, anchor, globals, headers, index, cont, grey, base>>

ShutdownAgain ==
  /\ pc = "sweep" /\ left = 0 /\ cont = "shutdown" /\ remains > 0
  /\ FreeScheduled
  /\ index' = 1 - index
  /\ StartSweep
  /\ UNCHANGED <<frames, anchor, globals, headers, cont, grey, base>>

ShutdownDone ==
  /\ pc = "sweep" /\ left = 0 /\ cont = "shutdown" /\ remains = 0
  /\ FreeScheduled
  /\ pc' = "stopped"
  /\ UNCHANGED <<frames, anchor, globals, headers, index, pending, left,
                 remains, cont, grey, base>>
-----------------------------------------------------------------------------
Program ==
  \/ Assign \/ StoreGlobal \/ StoreField \/ Suppress \/ ReRegister \/ Call
  \/ \E to \in {"managed", "new", "return", "wait"} : CollectFor(to)
  \/ Shutdown

Runtime ==
  \/ WaitAgain \/ WaitDone
  \/ \E o \in Objects : New(o)
  \/ NewFails \/ Abort \/ Return
  \/ MarkStep \/ MarkDone
  \/ SweepKeep \/ SweepUnlink \/ SweepFinalize \/ SweepDone
  \/ ShutdownAgain \/ ShutdownDone

Next == Program \/ Runtime \/ FinalizerReturn

Spec == Init /\ [][Next]_vars
-----------------------------------------------------------------------------
TypeOK ==
  /\ frames \in Seq(Ref)
  /\ anchor \in Ref
  /\ globals \in [Globals -> Ref]
  /\ field \in [Objects -> [Fields -> Ref]]
  /\ headers \in Seq(Objects)
  /\ index \in {0, 1}
  /\ mark \in [Objects -> {0, 1}]
  /\ finalized \in SUBSET Objects
  /\ pending \in Nat
  /\ pc \in Pc
  /\ cont \in Conts
  /\ grey \in SUBSET Objects
  /\ left \in 0 .. Len(headers)
  /\ scheduled \in SUBSET Objects
  /\ remains \in Nat
  /\ base \in 0 .. Len(frames)

\* Managed code that runs outside a collection finds every listed header marked
\* with the current index, so that inverting the index unmarks all of them at
\* once (il2c_gc.c:552-556): allocation, resurrection and collections turned
\* away in finalizers leave no header behind with the other bit.
SharedMark == ~Collecting => \A o \in Listed : Marked(o)

\* When the sweep has asked no finalizer yet, the marked headers are exactly
\* the objects the program reaches (il2c_gc.c:558-563): the traversal neither
\* stops at a stale mark nor marks garbage.
MarkedIsLive ==
  pc = "sweep" /\ left = Len(headers) /\ cont # "shutdown" =>
    {o \in Listed : Marked(o)} = Live

\* Whatever managed code can reach is allocated; outside finalizers it is also
\* listed, that is, not about to be freed (il2c_gc.c:383-394 and 411-433).
NoDangling ==
  /\ pc \in {"managed", "new", "retry", "return", "wait"} => Live \subseteq Allocated
  /\ ~Collecting => Live \subseteq Listed

\* The list has every header once, and no header the free list has too: each
\* block is freed once, though finalizers change the list while it is walked
\* (il2c_gc.c:383-386 and 391-394).
FreedOnce ==
  /\ IsInjective(headers)
  /\ Listed \cap scheduled = {}

\* il2c_gc.c:358 marks an object before its finalizer "reserving resurrection",
\* and keeps it because the "finalizer perhaps made resurrection" (line 372):
\* what a finalizer brings back is whole.
ResurrectionReserved == ~Collecting => Live \subseteq Allocated

\* Memory of an object that overrides Finalize is given back only when its
\* finalizer was called, or suppressed, and not registered again since
\* (il2c_gc.c:352-375).
FinalizedBeforeFreed ==
  [][\A o \in Finalizable : o \in Allocated /\ o \notin Allocated' => o \in finalized]_vars

\* When GC.WaitForPendingFinalizers returns from its loop nothing is left that
\* the program does not reach (GC.c:36-42): the last collection called no
\* finalizer, so it kept only what it had marked.
WaitLeavesNoGarbage ==
  [][WaitDone => Listed = Live]_vars

\* The final shutdown frees every object (il2c_gc.c:634-663).
ShutdownFreesAll == pc = "stopped" => Allocated = {}
-----------------------------------------------------------------------------
\* The runtime does its steps; a finalizer comes to its end.
Fairness == WF_vars(Runtime) /\ SF_vars(FinalizerReturn)
         /\ SF_vars(InFinalizer /\ CollectFor("return"))
FairSpec == Spec /\ Fairness

\* GC.WaitForPendingFinalizers returns: finalizers that neither allocate nor
\* register again are used up.
WaitReturns == pc = "wait" ~> pc = "managed" /\ ~Collecting

\* The final shutdown ends under the same condition.
ShutdownEnds == cont = "shutdown" ~> pc = "stopped"
=============================================================================
