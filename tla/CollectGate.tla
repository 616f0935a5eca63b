----------------------------- MODULE CollectGate -----------------------------
(***************************************************************************)
(* Who may collect, and what a collection stops: the protocol between the  *)
(* threads of a translated program and the garbage collector.              *)
(*                                                                         *)
(* il2c_collect__ lets a thread in only when it takes the counter          *)
(* g_ExecutingCollection__ from 0 to 1.  The winner takes the global lock, *)
(* then the lockForCollect of every thread object it finds in the root     *)
(* references, marks, sweeps (running finalizers, which are managed code,  *)
(* on its own stack) and gives the locks back.  Other threads are stopped  *)
(* only where they take their own lockForCollect: when they link or unlink *)
(* an execution frame.  A throw unlinks frames without it.                 *)
(*                                                                         *)
(* The build modelled has POSIX threads and no giant lock: a lock is a     *)
(* recursive mutex and an unlock by a thread that is not the owner fails   *)
(* and changes nothing.  Objects and marks are the business of GcHeap; of  *)
(* them this module keeps only which thread objects the collection marked. *)
(***************************************************************************)
EXTENDS Naturals, Sequences, FiniteSets, RootSlots

CONSTANTS
  Threads,      \* the native threads, each with its Thread object
  Main,         \* the thread that initialized the runtime
  None,         \* the null reference, an unowned lock
  MaxFrames     \* bound: execution frames one thread has linked

ASSUME ThreadAssumption ==
  /\ IsFiniteSet(Threads)
  /\ Main \in Threads
  /\ None \notin Threads
ASSUME FrameAssumption == MaxFrames \in Nat

VARIABLES
  executing,    \* g_ExecutingCollection__
  globalLock,   \* g_GlobalLockForCollect__: its owner
  lock,         \* lockForCollect of each thread: owner and recursion count
  slots,        \* g_pRootReferences__: the slots of all blocks
  pc,           \* where each thread is
  cont,         \* where the collection a thread performs returns to, or "none"
  frames,       \* execution frames linked on each thread
  base,         \* frames that belong to the caller of the running finalizer
  walk,         \* slots the walk over the root references has still to visit
  target,       \* the thread object a thread is working on
  handle,       \* context.rawHandle of each thread
  marked,       \* thread objects the last collection marked
  world         \* history: thread objects registered when the walk began

gateVars == <<executing, globalLock, lock, slots, walk, marked, world>>
threadVars == <<pc, cont, frames, base, target, handle>>
vars == <<executing, globalLock, lock, slots, walk, marked, world,
          pc, cont, frames, base, target, handle>>

CollectPc == {"global", "enter", "enterLock", "mark", "sweep", "finLock",
              "exit", "globalExit", "leave"}
FramePc   == {"linking", "linked", "unlinking", "unlinked"}
SkipPc    == {"skip", "skipUnlink"}
StartPc   == {"create", "publish"}
Pc == CollectPc \cup FramePc \cup SkipPc \cup StartPc
        \cup {"unborn", "spin", "managed", "unregister", "dead"}

Lock == [owner : Threads \cup {None}, count : Nat]
Free == [owner |-> None, count |-> 0]

\* pthread_mutex_lock of a recursive mutex would not block thread t.
Available(u, t) == lock[u].owner \in {None, t}
Entered(u, t) == [lock EXCEPT ![u] = [owner |-> t, count |-> @.count + 1]]
\* Mutant: the owner is not checked.
UnlockedByAnyone(l, t) ==
  IF l.count = 1 THEN Free ELSE [owner |-> l.owner, count |-> l.count - 1]
\* pthread_mutex_unlock by thread t: an error without effect unless t owns it.
Unlocked(l, t) == IF l.owner # t THEN l
                  ELSE IF l.count = 1 THEN Free
                  ELSE [owner |-> t, count |-> l.count - 1]
Exited(u, t) == [lock EXCEPT ![u] = Unlocked(@, t)]

Registered(u) == Assigned(slots, u)
Collecting(t) == cont[t] # "none"
Collectors == {t \in Threads : Collecting(t)}
Skippers == {t \in Threads : pc[t] \in SkipPc}

Goto(t, from, to) == pc[t] = from /\ pc' = [pc EXCEPT ![t] = to]
-----------------------------------------------------------------------------
\* The main thread has attached itself (il2c_acquire_thread_context__); the
\* other thread objects are allocated and not started.
Init ==
  /\ executing = 0
  /\ globalLock = None
  /\ lock = [u \in Threads |-> Free]
  /\ slots = NewBlock(Main, None)
  /\ pc = [t \in Threads |-> IF t = Main THEN "managed" ELSE "unborn"]
  /\ cont = [t \in Threads |-> "none"]
  /\ frames = [t \in Threads |-> 0]
  /\ base = [t \in Threads |-> 0]
  /\ walk = [t \in Threads |-> 0]
  /\ target = [t \in Threads |-> None]
  /\ handle = [t \in Threads |-> IF t = Main THEN "open" ELSE "none"]
  /\ marked = {}
  /\ world = {}
-----------------------------------------------------------------------------
\* Bounds: managed code nests MaxFrames calls, a finalizer calls one level deep.
FrameBound(t) == IF Collecting(t) THEN base[t] + 1 ELSE MaxFrames

\* il2c_link_execution_frame__: push a frame under the thread's own lock.
Link(t) ==
  /\ Goto(t, "managed", "linking")
  /\ frames[t] < FrameBound(t)
  /\ UNCHANGED <<gateVars, cont, frames, base, target, handle>>

LinkLock(t) ==
  /\ Goto(t, "linking", "linked")
  /\ Available(t, t)
  /\ lock' = Entered(t, t)
  /\ UNCHANGED <<executing, globalLock, slots, walk, marked, world,
                 cont, frames, base, target, handle>>

LinkPush(t) ==
  /\ Goto(t, "linked", "managed")
  /\ frames' = [frames EXCEPT ![t] = @ + 1]
  /\ lock' = Exited(t, t)
  /\ UNCHANGED <<executing, globalLock, slots, walk, marked, world,
                 cont, base, target, handle>>

\* il2c_unlink_execution_frame__ after its collection: pop under the lock.  A
\* started thread that pops its bottom frame goes on to leave the root
\* references.
UnlinkLock(t) ==
  /\ Goto(t, "unlinking", "unlinked")
  /\ Available(t, t)
  /\ lock' = Entered(t, t)
  /\ UNCHANGED <<executing, globalLock, slots, walk, marked, world,
                 cont, frames, base, target, handle>>

UnlinkPop(t) ==
  /\ pc[t] = "unlinked"
  /\ pc' = [pc EXCEPT ![t] =
              IF t # Main /\ frames[t] = 1 THEN "unregister" ELSE "managed"]
  /\ frames' = [frames EXCEPT ![t] = @ - 1]
  /\ lock' = Exited(t, t)
  /\ UNCHANGED <<executing, globalLock, slots, walk, marked, world,
                 cont, base, target, handle>>

\* il2c_do_throw__: the chain is set back to the frame of the method that has the
\* handler, without the thread's lock.  A started thread catches all it throws in
\* its bottom frame; programs catch in a finalizer what it throws.
Throw(t) ==
  /\ pc[t] = "managed"
  /\ \E n \in base[t] + 1 .. frames[t] - 1 : frames' = [frames EXCEPT ![t] = n]
  /\ UNCHANGED <<gateVars, pc, cont, base, target, handle>>
-----------------------------------------------------------------------------
\* Thread.Start: register the thread object, create the native thread, publish
\* its handle.  It is asserted that the thread was not started before.
Start(t, u) ==
  /\ Goto(t, "managed", "create")
  /\ pc[u] = "unborn"
  /\ handle[u] = "none"
  /\ \A s \in Threads : target[s] # u
  /\ slots' = Register(slots, u, None)
  /\ target' = [target EXCEPT ![t] = u]
  /\ UNCHANGED <<executing, globalLock, lock, walk, marked, world,
                 cont, frames, base, handle>>

Create(t) ==
  /\ pc[t] = "create"
  /\ pc' = [pc EXCEPT ![t] = "publish", ![target[t]] = "spin"]
  /\ UNCHANGED <<gateVars, cont, frames, base, target, handle>>

\* Mutant: the handle goes to the thread that starts, not to the started one.
PublishToStarter(t) ==
  /\ Goto(t, "publish", "managed")
  /\ handle' = [handle EXCEPT ![t] = "open"]
  /\ target' = [target EXCEPT ![t] = None]
  /\ UNCHANGED <<gateVars, cont, frames, base>>

Publish(t) ==
  /\ Goto(t, "publish", "managed")
  /\ handle' = [handle EXCEPT ![target[t]] = "open"]
  /\ target' = [target EXCEPT ![t] = None]
  /\ UNCHANGED <<gateVars, cont, frames, base>>

\* InternalEntryPoint: wait for the handle, then link the bottom frame.
Spin(t) ==
  /\ Goto(t, "spin", "linking")
  /\ handle[t] # "none"
  /\ UNCHANGED <<gateVars, cont, frames, base, target, handle>>

\* InternalEntryPoint, last statement.
UnregisterSelf(t) ==
  /\ Goto(t, "unregister", "dead")
  /\ slots' = Unregister(slots, t, None)
  /\ UNCHANGED <<executing, globalLock, lock, walk, marked, world,
                 cont, frames, base, target, handle>>
-----------------------------------------------------------------------------
\* Mutant: off by one.
TurnedAwayLate(count) == count > 2
\* What the increment returned tells whether somebody collects already.
TurnedAway(count) == count >= 2

\* il2c_collect__, the counter.  Managed code collects before every allocation
\* and in GC.Collect (it goes on in "managed"), and before it unlinks a frame
\* (it goes on in "unlinking").  A finalizer returns only what it linked.
CollectBegin(t, to) ==
  /\ pc[t] = "managed"
  /\ to = "unlinking" => frames[t] > base[t]
  /\ executing' = executing + 1
  /\ IF TurnedAway(executing')
     THEN /\ pc' = [pc EXCEPT ![t] =
                      IF to = "unlinking" THEN "skipUnlink" ELSE "skip"]
          /\ cont' = cont
     ELSE /\ pc' = [pc EXCEPT ![t] = "global"]
          /\ cont' = [cont EXCEPT ![t] = to]
  /\ UNCHANGED <<globalLock, lock, slots, walk, marked, world,
                 frames, base, target, handle>>

\* Mutant: the early return does not undo the increment.
SkipWithoutDecrement(t) ==
  /\ pc[t] \in SkipPc
  /\ pc' = [pc EXCEPT ![t] =
              IF pc[t] = "skipUnlink" THEN "unlinking" ELSE "managed"]
  /\ UNCHANGED <<gateVars, cont, frames, base, target, handle>>

\* Someone else collects, or this thread does and called from a finalizer.
Skip(t) ==
  /\ pc[t] \in SkipPc
  /\ executing' = executing - 1
  /\ pc' = [pc EXCEPT ![t] =
              IF pc[t] = "skipUnlink" THEN "unlinking" ELSE "managed"]
  /\ UNCHANGED <<globalLock, lock, slots, walk, marked, world,
                 cont, frames, base, target, handle>>

GlobalEnter(t) ==
  /\ Goto(t, "global", "enter")
  /\ globalLock = None
  /\ globalLock' = t
  /\ walk' = [walk EXCEPT ![t] = Len(slots)]
  /\ world' = {u \in Threads : Registered(u)}
  /\ UNCHANGED <<executing, lock, slots, marked,
                 cont, frames, base, target, handle>>

\* The slot the walk is at: positions counted from the end of the table.
Visited(t) == slots[Len(slots) - walk[t] + 1]

\* il2c_enter_for_collect__: read a slot, then lock what was read.
EnterRead(t) ==
  /\ pc[t] = "enter"
  /\ walk[t] > 0
  /\ walk' = [walk EXCEPT ![t] = @ - 1]
  /\ target' = [target EXCEPT ![t] = Visited(t)]
  /\ pc' = [pc EXCEPT ![t] = IF Visited(t) = None THEN "enter" ELSE "enterLock"]
  /\ UNCHANGED <<executing, globalLock, lock, slots, marked, world,
                 cont, frames, base, handle>>

EnterLock(t) ==
  /\ Goto(t, "enterLock", "enter")
  /\ Available(target[t], t)
  /\ lock' = Entered(target[t], t)
  /\ target' = [target EXCEPT ![t] = None]
  /\ UNCHANGED <<executing, globalLock, slots, walk, marked, world,
                 cont, frames, base, handle>>

\* Mutant: the walk stops one slot early.
EnterDoneEarly(t) ==
  /\ Goto(t, "enter", "mark")
  /\ walk[t] <= 1
  /\ UNCHANGED <<gateVars, cont, frames, base, target, handle>>

EnterDone(t) ==
  /\ Goto(t, "enter", "mark")
  /\ walk[t] = 0
  /\ UNCHANGED <<gateVars, cont, frames, base, target, handle>>

\* Step 2 of the collection, as far as thread objects go.
Mark(t) ==
  /\ Goto(t, "mark", "sweep")
  /\ marked' = {u \in Threads : Registered(u)}
  /\ UNCHANGED <<executing, globalLock, lock, slots, walk, world,
                 cont, frames, base, target, handle>>

\* The sweep calls the finalizer of an ordinary object: managed code on the
\* collector's stack, until it has returned from everything it called.
FinalizerCall(t) ==
  /\ Goto(t, "sweep", "managed")
  /\ base' = [base EXCEPT ![t] = frames[t]]
  /\ UNCHANGED <<gateVars, cont, frames, target, handle>>

FinalizerReturn(t) ==
  /\ Goto(t, "managed", "sweep")
  /\ Collecting(t)
  /\ frames[t] = base[t]
  /\ base' = [base EXCEPT ![t] = 0]
  /\ UNCHANGED <<gateVars, cont, frames, target, handle>>

\* Thread.Finalize on the object of a thread that has ended: exchange the
\* handle, then unlock and destroy lockForCollect.
ThreadFinalize(t, u) ==
  /\ Goto(t, "sweep", "finLock")
  /\ pc[u] = "dead"
  /\ u \notin marked
  /\ handle[u] = "open"
  /\ handle' = [handle EXCEPT ![u] = "closed"]
  /\ target' = [target EXCEPT ![t] = u]
  /\ UNCHANGED <<gateVars, cont, frames, base>>

ThreadFinalizeLock(t) ==
  /\ Goto(t, "finLock", "sweep")
  /\ lock' = Exited(target[t], t)
  /\ target' = [target EXCEPT ![t] = None]
  /\ UNCHANGED <<executing, globalLock, slots, walk, marked, world,
                 cont, frames, base, handle>>

SweepDone(t) ==
  /\ Goto(t, "sweep", "exit")
  /\ walk' = [walk EXCEPT ![t] = Len(slots)]
  /\ UNCHANGED <<executing, globalLock, lock, slots, marked, world,
                 cont, frames, base, target, handle>>

\* il2c_exit_for_collect__: unlock whatever thread the slot names now.
ExitSlot(t) ==
  /\ pc[t] = "exit"
  /\ walk[t] > 0
  /\ lock' = IF Visited(t) = None THEN lock ELSE Exited(Visited(t), t)
  /\ walk' = [walk EXCEPT ![t] = @ - 1]
  /\ UNCHANGED <<executing, globalLock, slots, marked, world, threadVars>>

\* Mutant: the walk stops one slot early.
ExitDoneEarly(t) ==
  /\ Goto(t, "exit", "globalExit")
  /\ walk[t] <= 1
  /\ UNCHANGED <<gateVars, cont, frames, base, target, handle>>

ExitDone(t) ==
  /\ Goto(t, "exit", "globalExit")
  /\ walk[t] = 0
  /\ UNCHANGED <<gateVars, cont, frames, base, target, handle>>

\* Mutant: the global lock is not given back.
GlobalExitForgotten(t) ==
  /\ Goto(t, "globalExit", "leave")
  /\ UNCHANGED <<gateVars, cont, frames, base, target, handle>>

GlobalExit(t) ==
  /\ Goto(t, "globalExit", "leave")
  /\ globalLock' = None
  /\ UNCHANGED <<executing, lock, slots, walk, marked, world,
                 cont, frames, base, target, handle>>

CollectEnd(t) ==
  /\ pc[t] = "leave"
  /\ executing' = executing - 1
  /\ pc' = [pc EXCEPT ![t] = cont[t]]
  /\ cont' = [cont EXCEPT ![t] = "none"]
  /\ UNCHANGED <<globalLock, lock, slots, walk, marked, world,
                 frames, base, target, handle>>
-----------------------------------------------------------------------------
ThreadNext(t) ==
  \/ Link(t) \/ LinkLock(t) \/ LinkPush(t)
  \/ UnlinkLock(t) \/ UnlinkPop(t) \/ Throw(t)
  \/ \E u \in Threads : Start(t, u)
  \/ Create(t) \/ Publish(t) \/ Spin(t) \/ UnregisterSelf(t)
  \/ \E to \in {"managed", "unlinking"} : CollectBegin(t, to)
  \/ Skip(t) \/ GlobalEnter(t)
  \/ EnterRead(t) \/ EnterLock(t) \/ EnterDone(t) \/ Mark(t)
  \/ FinalizerCall(t) \/ FinalizerReturn(t)
  \/ \E u \in Threads : ThreadFinalize(t, u)
  \/ ThreadFinalizeLock(t) \/ SweepDone(t)
  \/ ExitSlot(t) \/ ExitDone(t) \/ GlobalExit(t) \/ CollectEnd(t)

Next == \E t \in Threads : ThreadNext(t)

Spec == Init /\ [][Next]_vars
-----------------------------------------------------------------------------
TypeOK ==
  /\ executing \in Nat
  /\ globalLock \in Threads \cup {None}
  /\ lock \in [Threads -> Lock]
  /\ slots \in Seq(Threads \cup {None})
  /\ pc \in [Threads -> Pc]
  /\ cont \in [Threads -> {"none", "managed", "unlinking"}]
  /\ frames \in [Threads -> Nat]
  /\ base \in [Threads -> Nat]
  /\ walk \in [Threads -> Nat]
  /\ target \in [Threads -> Threads \cup {None}]
  /\ handle \in [Threads -> {"none", "open", "closed"}]
  /\ marked \in SUBSET Threads
  /\ world \in SUBSET Threads

\* The counter lets one thread collect at a time, although every thread
\* increments it without a lock and a finalizer of the collector calls
\* il2c_collect__ again (il2c_gc.c:505).
OneCollector ==
  \A t, u \in Threads : Collecting(t) /\ Collecting(u) => t = u

\* g_ExecutingCollection__ counts exactly the threads between its increment
\* and its decrement, the collector once more while a finalizer of its own is
\* being turned away.  It returns to 0, so collections cannot stay disabled.
CounterExact == executing = Cardinality(Collectors) + Cardinality(Skippers)

\* While the collector marks, the chain of execution frames that it reads through
\* the object of a thread registered when it began to take the locks changes in
\* no other way than by a throw of that thread (il2c_exception.c:55): no call links
\* a frame and no return unlinks one (il2c_allocator.c:181-194 and 219-225).  What
\* a throw unlinks the collector may still be reading.
FramesChangeByThrowOnly ==
  [][\A t, u \in Threads :
       pc[t] = "mark" /\ u \in world \ {t} => UNCHANGED frames[u] \/ Throw(u)]_vars

\* lockForCollect of a thread that is still registered is held by another
\* thread only during that thread's collection, and by itself only there or
\* while it changes its frames: no collection leaves a live thread locked out,
\* whoever starts or ends between the two walks (il2c_gc.c:439-493).
LocksGivenBack ==
  \A t, u \in Threads : Registered(u) /\ lock[u].owner = t =>
    \/ Collecting(t)
    \/ t = u /\ pc[u] \in {"linked", "unlinked"}
-----------------------------------------------------------------------------
\* Steps a scheduled thread takes without waiting for anybody's permission.
Proceed(t) ==
  \/ LinkPush(t) \/ UnlinkPop(t) \/ Skip(t) \/ Create(t) \/ Publish(t) \/ Spin(t)
  \/ EnterRead(t) \/ EnterDone(t) \/ Mark(t) \/ ThreadFinalizeLock(t)
  \/ ExitSlot(t) \/ ExitDone(t) \/ GlobalExit(t) \/ CollectEnd(t)

Acquire(t) == LinkLock(t) \/ UnlinkLock(t) \/ EnterLock(t) \/ GlobalEnter(t)

\* Every thread is scheduled; a mutex that is free again and again is obtained
\* by each thread that waits for it; a finalizer returns from what it called and
\* from itself, and a sweep has finitely many of them to call.
Fairness ==
  \A t \in Threads :
    /\ WF_vars(Proceed(t))
    /\ SF_vars(Acquire(t))
    /\ SF_vars(Collecting(t) /\ CollectBegin(t, "unlinking"))
    /\ SF_vars(FinalizerReturn(t))
    /\ SF_vars(SweepDone(t))

FairSpec == Spec /\ Fairness

\* A thread whose collection has begun gets back to its managed code: the locks
\* the collector waits for are held only by threads that go on without it.
CollectReturns == \A t \in Threads : Collecting(t) ~> ~Collecting(t)

\* A thread that was created runs its delegate: the handle it spins on is
\* published, and the collector does not keep it from linking its bottom frame.
StartedThreadRuns == \A t \in Threads : pc[t] = "spin" ~> pc[t] = "managed"
=============================================================================
