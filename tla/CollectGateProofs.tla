-------------------------- MODULE CollectGateProofs --------------------------
(***************************************************************************)
(* The collector gate for any number of threads: type correctness, the     *)
(* exactness of g_ExecutingCollection__ and the mutual exclusion of        *)
(* collections that rests on it; then the locks: no collection leaves a    *)
(* registered thread locked out, and while the collector marks no call and *)
(* no return of another thread changes its chain of execution frames.      *)
(*                                                                         *)
(* None of the first three is inductive alone.  The counter is a natural   *)
(* number because it is the size of two sets of threads; those sets change *)
(* as said only if the code between the increment and the decrement is run *)
(* by collectors alone; and a frame counter is a natural number only if    *)
(* every pop follows a push of the same thread, finalizers included.       *)
(* GateInv collects these facts.                                           *)
(*                                                                         *)
(* The locks rest on the two walks over the root references, which read a  *)
(* table that other threads fill and empty between two steps of the walk.  *)
(* A position counted from the end never moves, so the table is described  *)
(* by who is at which position (SlotAt).  A registered thread has exactly  *)
(* one (TableInv); what the walk has passed and what is ahead of it then   *)
(* tells which locks the collector owns, and that it entered each of them  *)
(* once (LockInv).  With a second collector, or a counter that lets one    *)
(* in, none of this would hold, so GateInv is used throughout.             *)
(***************************************************************************)
EXTENDS CollectGate, FiniteSetTheorems, SequenceTheorems, WellFoundedInduction,
        NaturalsInduction, TLAPS

\* A walk never has more slots to visit than there are.
WalkInTable == \A t \in Threads : walk[t] <= Len(slots)

\* An owned mutex has been entered at least once.
OwnedIsCounted == \A u \in Threads : lock[u].owner # None => lock[u].count >= 1

\* The steps between the increment and the decrement belong to collectors, and
\* a thread outside managed code that waits to start or has ended is none.
CollectorAtWork ==
  \A t \in Threads :
    /\ pc[t] \in CollectPc => Collecting(t)
    /\ pc[t] \in {"unborn", "spin", "unregister", "dead"} => ~Collecting(t)

\* There is a frame to pop wherever one will be popped: right ahead, after the
\* collection that precedes the pop, or after a finalizer that interrupts it.
InCollection(t) == pc[t] \in CollectPc
FrameToPop ==
  \A t \in Threads :
    /\ pc[t] \in {"skipUnlink", "unlinking", "unlinked"} => frames[t] > base[t]
    /\ cont[t] = "unlinking" =>
         IF InCollection(t) THEN frames[t] > 0 ELSE base[t] > 0
    /\ InCollection(t) \/ ~Collecting(t) => base[t] = 0
    /\ frames[t] >= base[t]

\* A started thread runs managed code only on top of its bottom frame.
BottomFrame ==
  \A t \in Threads \ {Main} :
    /\ pc[t] \notin {"unborn", "spin", "linking", "linked", "unregister", "dead"}
         => frames[t] > 0
    /\ Collecting(t) /\ ~InCollection(t) => base[t] > 0

\* A thread that is about to be created waits to be born, for one starter only.
StartsUnborn ==
  \A t \in Threads : pc[t] = "create" =>
    /\ target[t] \in Threads
    /\ pc[target[t]] = "unborn"
    /\ \A s \in Threads \ {t} : pc[s] = "create" => target[s] # target[t]

GateInv ==
  /\ TypeOK
  /\ WalkInTable
  /\ OwnedIsCounted
  /\ CollectorAtWork
  /\ FrameToPop
  /\ BottomFrame
  /\ StartsUnborn
  /\ CounterExact
  /\ OneCollector
-----------------------------------------------------------------------------
\* Registering and unregistering keep a table a table, never a shorter one.
LEMMA SlotsKept ==
  ASSUME NEW S, NEW null \in S, NEW table \in Seq(S), NEW ref \in S
  PROVE  /\ Register(table, ref, null) \in Seq(S)
         /\ Len(Register(table, ref, null)) >= Len(table)
         /\ Unregister(table, ref, null) \in Seq(S)
         /\ Len(Unregister(table, ref, null)) = Len(table)
<1>1. NewBlock(ref, null) \in Seq(S)
  BY DEF NewBlock, BlockSize
<1>2. /\ NewBlock(ref, null) \o table \in Seq(S)
      /\ Len(NewBlock(ref, null) \o table) >= Len(table)
  BY <1>1
<1>3. ASSUME NEW i, NEW x \in S
      PROVE  /\ [table EXCEPT ![i] = x] \in Seq(S)
             /\ Len([table EXCEPT ![i] = x]) = Len(table)
  <2>1. CASE i \in 1 .. Len(table)
    BY <2>1, ExceptSeq
  <2>2. CASE i \notin 1 .. Len(table)
    <3>1. table = [j \in 1 .. Len(table) |-> table[j]] /\ DOMAIN table = 1 .. Len(table)
      BY LenProperties, SeqDef
    <3>2. [table EXCEPT ![i] = x] = table
      BY <2>2, <3>1
    <3> QED BY <3>2
  <2> QED BY <2>1, <2>2
<1>4. /\ Len(table) \in Nat
      /\ \A i, x : x \in S => /\ [table EXCEPT ![i] = x] \in Seq(S)
                              /\ Len([table EXCEPT ![i] = x]) = Len(table)
  BY <1>3, LenProperties
<1>5. /\ Register(table, ref, null) \in Seq(S)
      /\ Len(Register(table, ref, null)) >= Len(table)
  <2>1. CASE Register(table, ref, null) = table
    BY <1>4, <2>1
  <2>2. CASE Register(table, ref, null) = NewBlock(ref, null) \o table
    BY <1>2, <2>2
  <2>3. CASE Register(table, ref, null) = [table EXCEPT ![FirstSlot(table, null)] = ref]
    <3> DEFINE k == FirstSlot(table, null)
    <3>1. Register(table, ref, null) = [table EXCEPT ![k] = ref]
      BY <2>3
    <3> HIDE DEF k
    <3>2. /\ [table EXCEPT ![k] = ref] \in Seq(S)
          /\ Len([table EXCEPT ![k] = ref]) = Len(table)
      BY <1>4
    <3> QED BY <1>4, <3>1, <3>2
  <2> QED BY <2>1, <2>2, <2>3 DEF Register
<1>6. /\ Unregister(table, ref, null) \in Seq(S)
      /\ Len(Unregister(table, ref, null)) = Len(table)
  <2> DEFINE k == FirstSlot(table, ref)
  <2>1. Unregister(table, ref, null) \in {table, [table EXCEPT ![k] = null]}
    BY DEF Unregister
  <2> HIDE DEF k
  <2>2. /\ [table EXCEPT ![k] = null] \in Seq(S)
        /\ Len([table EXCEPT ![k] = null]) = Len(table)
    BY <1>4
  <2> QED BY <2>1, <2>2
<1> QED BY <1>5, <1>6

\* Entering and exiting keep a lock a lock that is counted while it is owned.
LEMMA LockKept ==
  ASSUME TypeOK, OwnedIsCounted, NEW u, NEW t \in Threads,
         lock' = Entered(u, t) \/ lock' = Exited(u, t)
  PROVE  lock' \in [Threads -> Lock] /\ OwnedIsCounted'
<1>1. \A v \in Threads : lock[v] \in Lock /\ (lock[v].owner # None => lock[v].count >= 1)
  BY DEF TypeOK, OwnedIsCounted
<1>2. CASE lock' = Entered(u, t)
  <2>1. lock' = [v \in Threads |-> IF v = u THEN [owner |-> t, count |-> lock[v].count + 1]
                                   ELSE lock[v]]
    BY <1>2 DEF TypeOK, Entered
  <2> QED BY <1>1, <2>1 DEF OwnedIsCounted, Lock
<1>3. CASE lock' = Exited(u, t)
  <2>1. lock' = [v \in Threads |-> IF v = u THEN Unlocked(lock[v], t) ELSE lock[v]]
    BY <1>3 DEF TypeOK, Exited
  <2>2. ASSUME NEW v \in Threads
        PROVE  /\ Unlocked(lock[v], t) \in Lock
               /\ Unlocked(lock[v], t).owner # None => Unlocked(lock[v], t).count >= 1
    BY <1>1, ThreadAssumption DEF Unlocked, Free, Lock
  <2> QED BY <1>1, <2>1, <2>2 DEF OwnedIsCounted
<1> QED BY <1>2, <1>3

\* A step that moves one thread outside the skip path and touches neither the
\* counter nor who collects keeps the counter exact and the collector alone.
LEMMA CounterKept ==
  ASSUME CounterExact, OneCollector, UNCHANGED <<executing, cont>>,
         \A v \in Threads : pc'[v] \in SkipPc <=> pc[v] \in SkipPc
  PROVE  CounterExact' /\ OneCollector'
<1>1. Collectors' = Collectors /\ Skippers' = Skippers
  BY DEF Collectors, Skippers, Collecting
<1> QED BY <1>1 DEF CounterExact, OneCollector, Collecting
-----------------------------------------------------------------------------
\* The runtime starts with no collector, nobody counted and only Main registered.
LEMMA InitGateInv == Init => GateInv
<1> SUFFICES ASSUME Init PROVE GateInv
  OBVIOUS
<1> USE ThreadAssumption
<1>1. slots \in Seq(Threads \cup {None}) /\ Len(slots) = BlockSize
  BY DEF Init, NewBlock, BlockSize
<1>2. TypeOK
  BY <1>1 DEF Init, TypeOK, Free, Lock, Pc, CollectPc, FramePc, SkipPc, StartPc
<1>3. WalkInTable /\ OwnedIsCounted /\ CollectorAtWork /\ FrameToPop /\ BottomFrame /\ StartsUnborn
  BY <1>1 DEF Init, BlockSize, Free, WalkInTable, OwnedIsCounted, CollectorAtWork,
              FrameToPop, BottomFrame, InCollection, StartsUnborn, CollectPc, Collecting
<1>4. Collectors = {} /\ Skippers = {}
  BY DEF Init, Collectors, Skippers, Collecting, SkipPc
<1>5. CounterExact
  BY <1>4, FS_EmptySet DEF CounterExact, Init
<1>6. OneCollector
  BY DEF Init, OneCollector, Collecting
<1> QED BY <1>2, <1>3, <1>5, <1>6 DEF GateInv
-----------------------------------------------------------------------------
\* The only ways a step touches a lock, the table, or the walks.
LEMMA LockSteps ==
  ASSUME NEW t \in Threads, ThreadNext(t)
  PROVE  lock' = lock \/ \E u : lock' = Entered(u, t) \/ lock' = Exited(u, t)
BY DEF ThreadNext, gateVars, threadVars,
       Link, LinkLock, LinkPush, UnlinkLock, UnlinkPop, Throw, Start, Create,
       Publish, Spin, UnregisterSelf, CollectBegin, Skip, GlobalEnter,
       EnterRead, EnterLock, EnterDone, Mark, FinalizerCall, FinalizerReturn,
       ThreadFinalize, ThreadFinalizeLock, SweepDone, ExitSlot, ExitDone,
       GlobalExit, CollectEnd

\* The table changes by Thread.Start and at the end of a thread only.
LEMMA SlotSteps ==
  ASSUME NEW t \in Threads, ThreadNext(t)
  PROVE  \/ slots' = slots
         \/ \E u \in Threads : \/ slots' = Register(slots, u, None)
                               \/ slots' = Unregister(slots, u, None)
BY DEF ThreadNext, gateVars, threadVars,
       Link, LinkLock, LinkPush, UnlinkLock, UnlinkPop, Throw, Start, Create,
       Publish, Spin, UnregisterSelf, CollectBegin, Skip, GlobalEnter,
       EnterRead, EnterLock, EnterDone, Mark, FinalizerCall, FinalizerReturn,
       ThreadFinalize, ThreadFinalizeLock, SweepDone, ExitSlot, ExitDone,
       GlobalExit, CollectEnd

\* A walk starts at the length of the table and then only counts down.
LEMMA WalkSteps ==
  ASSUME NEW t \in Threads, ThreadNext(t)
  PROVE  \/ walk' = walk
         \/ slots' = slots /\ walk' = [walk EXCEPT ![t] = Len(slots)]
         \/ slots' = slots /\ walk[t] > 0 /\ walk' = [walk EXCEPT ![t] = @ - 1]
BY DEF ThreadNext, gateVars, threadVars,
       Link, LinkLock, LinkPush, UnlinkLock, UnlinkPop, Throw, Start, Create,
       Publish, Spin, UnregisterSelf, CollectBegin, Skip, GlobalEnter,
       EnterRead, EnterLock, EnterDone, Mark, FinalizerCall, FinalizerReturn,
       ThreadFinalize, ThreadFinalizeLock, SweepDone, ExitSlot, ExitDone,
       GlobalExit, CollectEnd

\* The counter and the set of collectors change where il2c_collect__ counts,
\* turns a call away, or ends; the other steps leave both alone.
LEMMA CounterSteps ==
  ASSUME GateInv, NEW t \in Threads, ThreadNext(t)
  PROVE  \/ \E to \in {"managed", "unlinking"} : CollectBegin(t, to)
         \/ Skip(t)
         \/ CollectEnd(t)
         \/ /\ UNCHANGED <<executing, cont>>
            /\ \A v \in Threads : pc'[v] \in SkipPc <=> pc[v] \in SkipPc
<1> SUFFICES ASSUME ~Skip(t), ~CollectEnd(t),
                    ~ \E to \in {"managed", "unlinking"} : CollectBegin(t, to)
             PROVE  /\ UNCHANGED <<executing, cont>>
                    /\ \A v \in Threads : pc'[v] \in SkipPc <=> pc[v] \in SkipPc
  OBVIOUS
<1>1. CASE Create(t)
  BY <1>1 DEF Create, gateVars, GateInv, TypeOK, StartsUnborn, SkipPc
<1>2. pc \in [Threads -> Pc]
  BY DEF GateInv, TypeOK
<1>3. CASE \/ Link(t) \/ LinkLock(t) \/ LinkPush(t) \/ UnlinkLock(t) \/ UnlinkPop(t) \/ Throw(t)
           \/ \E u \in Threads : Start(t, u)
  BY <1>2, <1>3 DEF SkipPc, Goto, gateVars, threadVars,
       Link, LinkLock, LinkPush, UnlinkLock, UnlinkPop, Throw, Start
<1>4. CASE \/ Publish(t) \/ Spin(t) \/ UnregisterSelf(t) \/ GlobalEnter(t)
           \/ EnterRead(t) \/ EnterLock(t) \/ EnterDone(t) \/ Mark(t)
  BY <1>2, <1>4 DEF SkipPc, Goto, gateVars, threadVars, Publish, Spin,
       UnregisterSelf, GlobalEnter, EnterRead, EnterLock, EnterDone, Mark
<1>5. CASE \/ FinalizerCall(t) \/ FinalizerReturn(t)
           \/ \E u \in Threads : ThreadFinalize(t, u)
           \/ ThreadFinalizeLock(t) \/ SweepDone(t)
           \/ ExitSlot(t) \/ ExitDone(t) \/ GlobalExit(t)
  BY <1>2, <1>5 DEF SkipPc, Goto, gateVars, threadVars, FinalizerCall,
       FinalizerReturn, ThreadFinalize, ThreadFinalizeLock, SweepDone,
       ExitSlot, ExitDone, GlobalExit
<1> QED BY <1>1, <1>3, <1>4, <1>5 DEF ThreadNext
-----------------------------------------------------------------------------
\* The locks and the table, for every step.
LEMMA LocksAndSlotsKept ==
  ASSUME GateInv, NEW t \in Threads, ThreadNext(t)
  PROVE  /\ lock' \in [Threads -> Lock] /\ OwnedIsCounted'
         /\ slots' \in Seq(Threads \cup {None})
         /\ walk' \in [Threads -> Nat] /\ WalkInTable'
<1>1. lock' \in [Threads -> Lock] /\ OwnedIsCounted'
  <2>1. CASE lock' = lock
    BY <2>1 DEF GateInv, TypeOK, OwnedIsCounted
  <2>2. CASE \E u : lock' = Entered(u, t) \/ lock' = Exited(u, t)
    BY <2>2, LockKept DEF GateInv
  <2> QED BY <2>1, <2>2, LockSteps
<1>2. /\ slots' \in Seq(Threads \cup {None})
      /\ Len(slots') \in Nat /\ Len(slots') >= Len(slots)
  <2>1. slots \in Seq(Threads \cup {None})
    BY DEF GateInv, TypeOK
  <2>2. CASE slots' = slots
    BY <2>1, <2>2
  <2>3. ASSUME NEW u \in Threads,
               slots' = Register(slots, u, None) \/ slots' = Unregister(slots, u, None)
        PROVE  /\ slots' \in Seq(Threads \cup {None})
               /\ Len(slots') \in Nat /\ Len(slots') >= Len(slots)
    <3>1. /\ Register(slots, u, None) \in Seq(Threads \cup {None})
          /\ Len(Register(slots, u, None)) >= Len(slots)
          /\ Unregister(slots, u, None) \in Seq(Threads \cup {None})
          /\ Len(Unregister(slots, u, None)) = Len(slots)
      <4> DEFINE S == Threads \cup {None}
      <4>1. None \in S /\ slots \in Seq(S) /\ u \in S
        BY <2>1
      <4> HIDE DEF S
      <4>2. /\ Register(slots, u, None) \in Seq(S)
            /\ Len(Register(slots, u, None)) >= Len(slots)
            /\ Unregister(slots, u, None) \in Seq(S)
            /\ Len(Unregister(slots, u, None)) = Len(slots)
        BY <4>1, SlotsKept
      <4> QED BY <4>2 DEF S
    <3>2. Len(slots) \in Nat
      BY <2>1
    <3>3. CASE slots' = Register(slots, u, None)
      BY <3>1, <3>2, <3>3
    <3>4. CASE slots' = Unregister(slots, u, None)
      BY <3>1, <3>2, <3>4
    <3> QED BY <2>3, <3>3, <3>4
  <2> QED BY <2>2, <2>3, SlotSteps, <2>1
<1>3. walk' \in [Threads -> Nat] /\ WalkInTable'
  <2>1. walk \in [Threads -> Nat] /\ Len(slots) \in Nat /\ WalkInTable
    BY DEF GateInv, TypeOK
  <2> QED BY <1>2, <2>1, WalkSteps DEF WalkInTable
<1> QED BY <1>1, <1>2, <1>3

\* The slot a walk is at holds a thread object or nothing.
LEMMA VisitedType ==
  ASSUME TypeOK, WalkInTable, NEW t \in Threads, walk[t] > 0
  PROVE  Visited(t) \in Threads \cup {None}
<1>1. Len(slots) - walk[t] + 1 \in 1 .. Len(slots)
  BY DEF TypeOK, WalkInTable
<1> QED BY <1>1, ElementOfSeq DEF TypeOK, Visited

\* The program counters and what goes with them, one step per action.
LEMMA ControlKept ==
  ASSUME GateInv, NEW t \in Threads, ThreadNext(t)
  PROVE  /\ pc' \in [Threads -> Pc]
         /\ cont' \in [Threads -> {"none", "managed", "unlinking"}]
         /\ CollectorAtWork' /\ StartsUnborn'
<1> DEFINE Control == /\ pc' \in [Threads -> Pc]
                      /\ cont' \in [Threads -> {"none", "managed", "unlinking"}]
                      /\ CollectorAtWork' /\ StartsUnborn'
<1> USE ThreadAssumption DEF GateInv, TypeOK, CollectorAtWork, StartsUnborn,
        Goto, Collecting, Pc, CollectPc, FramePc, SkipPc, StartPc, gateVars, threadVars
<1>1. CASE Link(t)
  BY <1>1 DEF Link
<1>2. CASE LinkLock(t)
  BY <1>2 DEF LinkLock
<1>3. CASE LinkPush(t)
  BY <1>3 DEF LinkPush
<1>4. CASE UnlinkLock(t)
  BY <1>4 DEF UnlinkLock
<1>5. CASE UnlinkPop(t)
  <2>1. frames[t] = 1 /\ t # Main => ~Collecting(t)
    BY <1>5 DEF UnlinkPop, FrameToPop, BottomFrame, InCollection
  <2>2. CASE t # Main /\ frames[t] = 1
    <3>1. pc' = [pc EXCEPT ![t] = "unregister"] /\ cont' = cont /\ target' = target
          /\ pc[t] = "unlinked"
      BY <1>5, <2>2 DEF UnlinkPop
    <3> QED BY <2>1, <2>2, <3>1
  <2>3. CASE ~(t # Main /\ frames[t] = 1)
    <3>1. pc' = [pc EXCEPT ![t] = "managed"] /\ cont' = cont /\ target' = target
          /\ pc[t] = "unlinked"
      BY <1>5, <2>3 DEF UnlinkPop
    <3> QED BY <3>1
  <2> QED BY <2>2, <2>3
<1>6. ASSUME NEW u \in Threads, Start(t, u) PROVE Control
  <2>1. pc' = [pc EXCEPT ![t] = "create"] /\ target' = [target EXCEPT ![t] = u]
        /\ cont' = cont /\ pc[t] = "managed" /\ pc[u] = "unborn" /\ u # t
        /\ \A s \in Threads : target[s] # u
    BY <1>6 DEF Start
  <2>2. pc' \in [Threads -> Pc] /\ CollectorAtWork'
    BY <2>1
  <2>3. ASSUME NEW s \in Threads, pc'[s] = "create"
        PROVE  /\ target'[s] \in Threads
               /\ pc'[target'[s]] = "unborn"
               /\ \A r \in Threads \ {s} : pc'[r] = "create" => target'[r] # target'[s]
    <3>1. CASE s = t
      BY <2>1, <3>1
    <3>2. CASE s # t
      BY <2>1, <2>3, <3>2
    <3> QED BY <3>1, <3>2
  <2> QED BY <2>1, <2>2, <2>3
<1>7. CASE Create(t)
  <2> DEFINE u == target[t]
  <2>1. /\ pc' = [pc EXCEPT ![t] = "publish", ![u] = "spin"]
        /\ cont' = cont /\ target' = target /\ pc[t] = "create"
    BY <1>7 DEF Create
  <2>2. /\ u \in Threads /\ pc[u] = "unborn"
        /\ \A s \in Threads \ {t} : pc[s] = "create" => target[s] # u
    BY <2>1
  <2> HIDE DEF u
  <2>3. u # t /\ ~Collecting(u)
    BY <2>1, <2>2
  <2>4. /\ pc' \in [Threads -> Pc]
        /\ pc'[t] = "publish" /\ pc'[u] = "spin"
        /\ \A s \in Threads : s # t /\ s # u => pc'[s] = pc[s]
    BY <2>1, <2>2, <2>3
  <2>5. ASSUME NEW s \in Threads
        PROVE  /\ pc'[s] \in CollectPc => Collecting(s)'
               /\ pc'[s] \in {"unborn", "spin", "unregister", "dead"} => ~Collecting(s)'
    <3>1. CASE s = t
      BY <2>4, <3>1
    <3>2. CASE s = u
      BY <2>1, <2>3, <2>4, <3>2
    <3>3. CASE s # t /\ s # u
      BY <2>1, <2>4, <3>3
    <3> QED BY <3>1, <3>2, <3>3
  <2>6. CollectorAtWork'
    BY <2>5
  <2>7. ASSUME NEW s \in Threads, pc'[s] = "create"
        PROVE  /\ target'[s] \in Threads
               /\ pc'[target'[s]] = "unborn"
               /\ \A r \in Threads \ {s} : pc'[r] = "create" => target'[r] # target'[s]
    <3>1. s # t /\ s # u /\ pc[s] = "create"
      BY <2>4, <2>7
    <3>2. target[s] # u /\ target[s] \in Threads /\ pc[target[s]] = "unborn"
      BY <2>2, <3>1
    <3>3. pc'[target[s]] = "unborn"
      BY <2>1, <2>4, <3>2
    <3>4. ASSUME NEW r \in Threads \ {s}, pc'[r] = "create"
          PROVE  target[r] # target[s]
      <4>1. pc[r] = "create"
        BY <2>4, <3>4
      <4> QED BY <3>1, <4>1
    <3> QED BY <2>1, <3>2, <3>3, <3>4
  <2>8. StartsUnborn'
    BY <2>7
  <2> QED BY <2>1, <2>4, <2>6, <2>8
<1>8. CASE Publish(t)
  BY <1>8 DEF Publish
<1>9. CASE Spin(t)
  BY <1>9 DEF Spin
<1>10. CASE UnregisterSelf(t)
  BY <1>10 DEF UnregisterSelf
<1>11. ASSUME NEW to \in {"managed", "unlinking"}, CollectBegin(t, to) PROVE Control
  <2>1. CASE TurnedAway(executing')
    <3>1. PICK q \in SkipPc : pc' = [pc EXCEPT ![t] = q]
      BY <1>11, <2>1 DEF CollectBegin
    <3>2. cont' = cont /\ target' = target /\ pc[t] = "managed"
      BY <1>11, <2>1 DEF CollectBegin
    <3> QED BY <3>1, <3>2
  <2>2. CASE ~TurnedAway(executing')
    <3>1. /\ pc' = [pc EXCEPT ![t] = "global"] /\ cont' = [cont EXCEPT ![t] = to]
          /\ target' = target /\ pc[t] = "managed"
      BY <1>11, <2>2 DEF CollectBegin
    <3> QED BY <1>11, <3>1
  <2> QED BY <2>1, <2>2
<1>12. CASE Skip(t)
  BY <1>12 DEF Skip
<1>13. CASE GlobalEnter(t)
  BY <1>13 DEF GlobalEnter
<1>14. CASE EnterRead(t)
  BY <1>14 DEF EnterRead
<1>15. CASE EnterLock(t)
  BY <1>15 DEF EnterLock
<1>16. CASE EnterDone(t)
  BY <1>16 DEF EnterDone
<1>17. CASE Mark(t)
  BY <1>17 DEF Mark
<1>18. CASE FinalizerCall(t)
  BY <1>18 DEF FinalizerCall
<1>19. CASE FinalizerReturn(t)
  BY <1>19 DEF FinalizerReturn
<1>20. ASSUME NEW u \in Threads, ThreadFinalize(t, u) PROVE Control
  BY <1>20 DEF ThreadFinalize
<1>21. CASE ThreadFinalizeLock(t)
  BY <1>21 DEF ThreadFinalizeLock
<1>22. CASE SweepDone(t)
  BY <1>22 DEF SweepDone
<1>23. CASE ExitSlot(t)
  BY <1>23 DEF ExitSlot
<1>24. CASE ExitDone(t)
  BY <1>24 DEF ExitDone
<1>25. CASE GlobalExit(t)
  BY <1>25 DEF GlobalExit
<1>26. CASE CollectEnd(t)
  BY <1>26 DEF CollectEnd
<1>27. CASE Throw(t)
  BY <1>27 DEF Throw
<1> QED BY <1>1, <1>2, <1>3, <1>4, <1>5, <1>6, <1>7, <1>8, <1>9, <1>10,
           <1>11, <1>12, <1>13, <1>14, <1>15, <1>16, <1>17, <1>18, <1>19,
           <1>20, <1>21, <1>22, <1>23, <1>24, <1>25, <1>26, <1>27 DEF ThreadNext

\* The two sets the counter counts are finite; if it is 0 both are empty.
LEMMA CountedSets ==
  /\ IsFiniteSet(Collectors) /\ Cardinality(Collectors) \in Nat
  /\ IsFiniteSet(Skippers) /\ Cardinality(Skippers) \in Nat
<1>1. Collectors \in SUBSET Threads /\ Skippers \in SUBSET Threads
  BY DEF Collectors, Skippers
<1> QED BY <1>1, ThreadAssumption, FS_Subset, FS_CardinalityType

\* A counter of 0 means that nobody collects and nobody is being turned away.
LEMMA NobodyCounted ==
  ASSUME CounterExact, executing = 0, NEW t \in Threads
  PROVE  ~Collecting(t)
<1>1. Cardinality(Collectors) = 0
  BY CountedSets DEF CounterExact
<1>2. Collectors = {}
  BY <1>1, CountedSets, FS_EmptySet
<1> QED BY <1>2 DEF Collectors

\* The frame counts, one step per action.
LEMMA FramesKept ==
  ASSUME GateInv, NEW t \in Threads, ThreadNext(t)
  PROVE  /\ frames' \in [Threads -> Nat] /\ base' \in [Threads -> Nat]
         /\ FrameToPop' /\ BottomFrame'
<1> DEFINE Counts == /\ frames' \in [Threads -> Nat] /\ base' \in [Threads -> Nat]
                     /\ FrameToPop' /\ BottomFrame'
<1> USE DEF GateInv, TypeOK, CollectorAtWork, FrameToPop, BottomFrame, InCollection,
        Goto, Collecting, Pc, CollectPc, FramePc, SkipPc, StartPc, gateVars, threadVars
<1>1. CASE Link(t)
  BY <1>1 DEF Link
<1>2. CASE LinkLock(t)
  BY <1>2 DEF LinkLock
<1>3. CASE LinkPush(t)
  BY <1>3 DEF LinkPush
<1>4. CASE UnlinkLock(t)
  BY <1>4 DEF UnlinkLock
<1>5. CASE UnlinkPop(t)
  BY <1>5 DEF UnlinkPop
<1>6. ASSUME NEW u \in Threads, Start(t, u) PROVE Counts
  BY <1>6 DEF Start
<1>7. CASE Create(t)
  BY <1>7 DEF Create, StartsUnborn
<1>8. CASE Publish(t)
  BY <1>8 DEF Publish
<1>9. CASE Spin(t)
  BY <1>9 DEF Spin
<1>10. CASE UnregisterSelf(t)
  BY <1>10 DEF UnregisterSelf
<1>11. ASSUME NEW to \in {"managed", "unlinking"}, CollectBegin(t, to) PROVE Counts
  <2>1. UNCHANGED <<frames, base>> /\ pc[t] = "managed"
        /\ (to = "unlinking" => frames[t] > base[t])
    BY <1>11 DEF CollectBegin
  <2>2. CASE TurnedAway(executing')
    <3>1. /\ pc' = [pc EXCEPT ![t] = IF to = "unlinking" THEN "skipUnlink" ELSE "skip"]
          /\ cont' = cont
      BY <1>11, <2>2 DEF CollectBegin
    <3>2. CASE to = "unlinking"
      BY <2>1, <3>1, <3>2
    <3>3. CASE to # "unlinking"
      BY <2>1, <3>1, <3>3
    <3> QED BY <3>2, <3>3
  <2>3. CASE ~TurnedAway(executing')
    <3>1. pc' = [pc EXCEPT ![t] = "global"] /\ cont' = [cont EXCEPT ![t] = to]
      BY <1>11, <2>3 DEF CollectBegin
    <3>2. executing = 0
      BY <1>11, <2>3 DEF CollectBegin, TurnedAway
    <3>3. cont[t] = "none"
      BY <3>2, NobodyCounted
    <3>4. base[t] = 0
      BY <3>3
    <3>5. FrameToPop'
      BY <2>1, <3>1, <3>4
    <3>6. BottomFrame'
      BY <2>1, <3>1, <3>4
    <3> QED BY <2>1, <3>5, <3>6
  <2> QED BY <2>2, <2>3
<1>12. CASE Skip(t)
  BY <1>12 DEF Skip
<1>13. CASE GlobalEnter(t)
  BY <1>13 DEF GlobalEnter
<1>14. CASE EnterRead(t)
  BY <1>14 DEF EnterRead
<1>15. CASE EnterLock(t)
  BY <1>15 DEF EnterLock
<1>16. CASE EnterDone(t)
  BY <1>16 DEF EnterDone
<1>17. CASE Mark(t)
  BY <1>17 DEF Mark
<1>18. CASE FinalizerCall(t)
  BY <1>18 DEF FinalizerCall
<1>19. CASE FinalizerReturn(t)
  BY <1>19 DEF FinalizerReturn
<1>20. ASSUME NEW u \in Threads, ThreadFinalize(t, u) PROVE Counts
  BY <1>20 DEF ThreadFinalize
<1>21. CASE ThreadFinalizeLock(t)
  BY <1>21 DEF ThreadFinalizeLock
<1>22. CASE SweepDone(t)
  BY <1>22 DEF SweepDone
<1>23. CASE ExitSlot(t)
  BY <1>23 DEF ExitSlot
<1>24. CASE ExitDone(t)
  BY <1>24 DEF ExitDone
<1>25. CASE GlobalExit(t)
  BY <1>25 DEF GlobalExit
<1>26. CASE CollectEnd(t)
  BY <1>26 DEF CollectEnd
<1>27. CASE Throw(t)
  BY <1>27 DEF Throw
<1> QED BY <1>1, <1>2, <1>3, <1>4, <1>5, <1>6, <1>7, <1>8, <1>9, <1>10,
           <1>11, <1>12, <1>13, <1>14, <1>15, <1>16, <1>17, <1>18, <1>19,
           <1>20, <1>21, <1>22, <1>23, <1>24, <1>25, <1>26, <1>27 DEF ThreadNext

\* The remaining state components.
LEMMA DataKept ==
  ASSUME GateInv, NEW t \in Threads, ThreadNext(t)
  PROVE  /\ globalLock' \in Threads \cup {None}
         /\ target' \in [Threads -> Threads \cup {None}]
         /\ handle' \in [Threads -> {"none", "open", "closed"}]
         /\ marked' \in SUBSET Threads /\ world' \in SUBSET Threads
<1>1. CASE EnterRead(t)
  <2>1. Visited(t) \in Threads \cup {None}
    BY <1>1, VisitedType DEF GateInv, EnterRead
  <2> QED BY <1>1, <2>1 DEF EnterRead, GateInv, TypeOK
<1> DEFINE Data == /\ globalLock' \in Threads \cup {None}
                   /\ target' \in [Threads -> Threads \cup {None}]
                   /\ handle' \in [Threads -> {"none", "open", "closed"}]
                   /\ marked' \in SUBSET Threads /\ world' \in SUBSET Threads
<1>2. ASSUME NEW u \in Threads, Start(t, u) \/ ThreadFinalize(t, u) PROVE Data
  <2>1. target' = [target EXCEPT ![t] = u]
    BY <1>2 DEF Start, ThreadFinalize
  <2>2. handle' = handle \/ handle' = [handle EXCEPT ![u] = "closed"]
    BY <1>2 DEF Start, ThreadFinalize
  <2>3. UNCHANGED <<globalLock, marked, world>>
    BY <1>2 DEF Start, ThreadFinalize, gateVars
  <2> QED BY <2>1, <2>2, <2>3 DEF GateInv, TypeOK
<1>3. CASE Publish(t)
  <2>1. handle' \in [Threads -> {"none", "open", "closed"}]
    BY <1>3 DEF Publish, GateInv, TypeOK
  <2>2. target' \in [Threads -> Threads \cup {None}]
    BY <1>3 DEF Publish, GateInv, TypeOK
  <2> QED BY <1>3, <2>1, <2>2 DEF Publish, gateVars, GateInv, TypeOK
<1>4. CASE EnterLock(t) \/ ThreadFinalizeLock(t)
  BY <1>4 DEF EnterLock, ThreadFinalizeLock, GateInv, TypeOK
<1>5. CASE GlobalEnter(t) \/ GlobalExit(t) \/ Mark(t)
  BY <1>5 DEF GlobalEnter, GlobalExit, Mark, GateInv, TypeOK
<1>6. CASE UNCHANGED <<globalLock, target, handle, marked, world>>
  BY <1>6 DEF GateInv, TypeOK
<1>7. \/ EnterRead(t) \/ (\E u \in Threads : Start(t, u) \/ ThreadFinalize(t, u))
      \/ Publish(t) \/ EnterLock(t) \/ ThreadFinalizeLock(t)
      \/ GlobalEnter(t) \/ GlobalExit(t) \/ Mark(t)
      \/ UNCHANGED <<globalLock, target, handle, marked, world>>
  BY DEF ThreadNext, gateVars, threadVars,
       Link, LinkLock, LinkPush, UnlinkLock, UnlinkPop, Throw, Create, Spin,
       UnregisterSelf, CollectBegin, Skip, EnterDone, FinalizerCall,
       FinalizerReturn, SweepDone, ExitSlot, ExitDone, CollectEnd
<1> QED BY <1>1, <1>2, <1>3, <1>4, <1>5, <1>6, <1>7

\* The counter: an increment adds a collector if there was none and somebody to
\* be turned away otherwise, a decrement removes the one or the other.
LEMMA CounterStepKept ==
  ASSUME GateInv, NEW t \in Threads, ThreadNext(t)
  PROVE  executing' \in Nat /\ CounterExact' /\ OneCollector'
<1> USE DEF GateInv, TypeOK
<1>1. CASE \E to \in {"managed", "unlinking"} : CollectBegin(t, to)
  <2>1. PICK to \in {"managed", "unlinking"} : CollectBegin(t, to)
    BY <1>1
  <2>2. executing' = executing + 1 /\ pc[t] = "managed" /\ t \notin Skippers
    BY <2>1 DEF CollectBegin, Skippers, SkipPc
  <2>3. CASE TurnedAway(executing')
    <3>1. PICK q \in SkipPc : pc' = [pc EXCEPT ![t] = q]
      BY <2>1, <2>3 DEF CollectBegin, SkipPc
    <3>2. cont' = cont
      BY <2>1, <2>3 DEF CollectBegin
    <3>3. Collectors' = Collectors /\ Skippers' = Skippers \cup {t}
      BY <3>1, <3>2 DEF Collectors, Skippers, Collecting
    <3>4. Cardinality(Skippers \cup {t}) = Cardinality(Skippers) + 1
      BY <2>2, CountedSets, FS_AddElement
    <3> QED BY <2>2, <3>2, <3>3, <3>4, CountedSets
          DEF CounterExact, OneCollector, Collecting
  <2>4. CASE ~TurnedAway(executing')
    <3>1. executing = 0
      BY <2>2, <2>4 DEF TurnedAway
    <3>2. /\ pc' = [pc EXCEPT ![t] = "global"]
          /\ cont' = [cont EXCEPT ![t] = to]
      BY <2>1, <2>4 DEF CollectBegin
    <3>3. \A u \in Threads : ~Collecting(u)
      BY <3>1, NobodyCounted
    <3>4. Collectors' = Collectors \cup {t} /\ Skippers' = Skippers /\ t \notin Collectors
      BY <2>2, <3>2, <3>3 DEF Collectors, Skippers, Collecting, SkipPc
    <3>5. Cardinality(Collectors \cup {t}) = Cardinality(Collectors) + 1
      BY <3>4, CountedSets, FS_AddElement
    <3>6. OneCollector'
      BY <3>2, <3>3 DEF OneCollector, Collecting
    <3> QED BY <2>2, <3>4, <3>5, <3>6, CountedSets DEF CounterExact
  <2> QED BY <2>3, <2>4
<1>2. CASE Skip(t)
  <2>1. executing' = executing - 1 /\ cont' = cont /\ t \in Skippers
    BY <1>2 DEF Skip, Skippers
  <2>2. PICK q \in {"unlinking", "managed"} : pc' = [pc EXCEPT ![t] = q]
    BY <1>2 DEF Skip
  <2>3. Collectors' = Collectors /\ Skippers' = Skippers \ {t}
    BY <2>1, <2>2 DEF Collectors, Skippers, Collecting, SkipPc
  <2>4. Cardinality(Skippers \ {t}) = Cardinality(Skippers) - 1
    BY <2>1, CountedSets, FS_RemoveElement
  <2>5. Cardinality(Skippers) # 0
    BY <2>1, CountedSets, FS_EmptySet
  <2> QED BY <2>1, <2>3, <2>4, <2>5, CountedSets DEF CounterExact, OneCollector, Collecting
<1>3. CASE CollectEnd(t)
  <2>1. /\ executing' = executing - 1
        /\ pc[t] = "leave" /\ t \in Collectors
        /\ pc' = [pc EXCEPT ![t] = cont[t]]
        /\ cont' = [cont EXCEPT ![t] = "none"]
    BY <1>3 DEF CollectEnd, Collectors, CollectorAtWork, CollectPc
  <2>2. Collectors' = Collectors \ {t} /\ Skippers' = Skippers
    BY <2>1 DEF Collectors, Skippers, Collecting, SkipPc
  <2>3. Cardinality(Collectors \ {t}) = Cardinality(Collectors) - 1
    BY <2>1, CountedSets, FS_RemoveElement
  <2>4. Cardinality(Collectors) # 0
    BY <2>1, CountedSets, FS_EmptySet
  <2>5. OneCollector'
    BY <2>1 DEF OneCollector, Collecting
  <2> QED BY <2>1, <2>2, <2>3, <2>4, <2>5, CountedSets DEF CounterExact
<1>4. CASE /\ UNCHANGED <<executing, cont>>
           /\ \A v \in Threads : pc'[v] \in SkipPc <=> pc[v] \in SkipPc
  BY <1>4, CounterKept
<1> QED BY <1>1, <1>2, <1>3, <1>4, CounterSteps

\* Every step, and every stutter, keeps the invariant.
LEMMA NextGateInv == GateInv /\ [Next]_vars => GateInv'
<1> SUFFICES ASSUME GateInv, [Next]_vars PROVE GateInv'
  OBVIOUS
<1>1. CASE UNCHANGED vars
  BY <1>1 DEF vars, GateInv, TypeOK, WalkInTable, OwnedIsCounted, CollectorAtWork,
              FrameToPop, BottomFrame, StartsUnborn, CounterExact, OneCollector,
              Collectors, Skippers, Collecting, InCollection
<1>2. ASSUME NEW t \in Threads, ThreadNext(t) PROVE GateInv'
  <2>1. TypeOK'
    BY <1>2, LocksAndSlotsKept, ControlKept, FramesKept, DataKept, CounterStepKept
       DEF TypeOK
  <2> QED BY <1>2, <2>1, LocksAndSlotsKept, ControlKept, FramesKept, CounterStepKept
          DEF GateInv
<1> QED BY <1>1, <1>2 DEF Next
-----------------------------------------------------------------------------
\* The inductive invariant of the gate holds throughout every behaviour.
THEOREM GateInvariant == Spec => []GateInv
<1>1. Init => GateInv
  BY InitGateInv
<1>2. GateInv /\ [Next]_vars => GateInv'
  BY NextGateInv
<1> QED BY <1>1, <1>2, PTL DEF Spec

\* The state always has its type, in particular the counter never drops below
\* zero and no frame is popped from an empty chain (il2c_gc.c:507 and 596,
\* il2c_allocator.c:222).
THEOREM TypeCorrect == Spec => []TypeOK
<1>1. GateInv => TypeOK
  BY DEF GateInv
<1> QED BY <1>1, GateInvariant, PTL

\* At most one thread is ever between the successful increment of
\* g_ExecutingCollection__ and its last decrement (il2c_gc.c:505 and 596).
THEOREM MutualExclusion == Spec => []OneCollector
<1>1. GateInv => OneCollector
  BY DEF GateInv
<1> QED BY <1>1, GateInvariant, PTL

\* g_ExecutingCollection__ is the number of threads that have incremented and
\* not yet decremented it, nothing is lost or counted twice.
THEOREM CounterIsExact == Spec => []CounterExact
<1>1. GateInv => CounterExact
  BY DEF GateInv
<1> QED BY <1>1, GateInvariant, PTL

-----------------------------------------------------------------------------
(* The locks.                                                              *)

\* The reference ref is in the k-th slot of a table, counted from its end.
HasAt(table, k, ref) == k \in 1 .. Len(table) /\ table[Len(table) - k + 1] = ref
SlotAt(k, ref) == HasAt(slots, k, ref)

OneSlotEach(table, null) ==
  \A k, l, ref : ref # null /\ HasAt(table, k, ref) /\ HasAt(table, l, ref) => k = l

\* The position a new registration takes.
Taken(table, null) == IF Assigned(table, null)
                      THEN Len(table) - FirstSlot(table, null) + 1
                      ELSE Len(table) + BlockSize

\* Being assigned, in terms of positions.
LEMMA AssignedAt ==
  ASSUME NEW S, NEW table \in Seq(S), NEW ref
  PROVE  Assigned(table, ref) <=> \E k : HasAt(table, k, ref)
<1>1. Len(table) \in Nat
  BY LenProperties
<1>2. ASSUME NEW i \in 1 .. Len(table), table[i] = ref
      PROVE  HasAt(table, Len(table) - i + 1, ref)
  <2>1. Len(table) - (Len(table) - i + 1) + 1 = i
    BY <1>1
  <2>2. Len(table) - i + 1 \in 1 .. Len(table)
    BY <1>1
  <2> QED BY <2>1, <2>2, <1>2 DEF HasAt
<1>3. ASSUME NEW k, HasAt(table, k, ref)
      PROVE  Assigned(table, ref)
  <2>1. Len(table) - k + 1 \in 1 .. Len(table)
    BY <1>1, <1>3 DEF HasAt
  <2> QED BY <2>1, <1>3 DEF HasAt, Assigned
<1> QED BY <1>2, <1>3 DEF Assigned

\* FirstSlot finds a slot that holds the reference, if one does.
LEMMA FirstSlotHolds ==
  ASSUME NEW S, NEW table \in Seq(S), NEW ref, Assigned(table, ref)
  PROVE  FirstSlot(table, ref) \in 1 .. Len(table) /\ table[FirstSlot(table, ref)] = ref
<1> DEFINE Where == {i \in 1 .. Len(table) : table[i] = ref}
<1>1. Len(table) \in Nat
  BY LenProperties
<1>2. Where # {} /\ Where \subseteq Nat
  BY <1>1 DEF Assigned
<1>3. PICK i \in Where : \A j \in Where : i <= j
  <2> DEFINE R == OpToRel(<, Nat)
  <2>1. \A a, b \in Nat : <<a, b>> \in R <=> a < b
    BY Zenon DEF OpToRel
  <2>2. IsWellFoundedOn(R, Nat)
    BY NatLessThanWellFounded
  <2> HIDE DEF R, Where
  <2>3. PICK i \in Where : \A j \in Where : ~(<<j, i>> \in R)
    BY <1>2, <2>2, WFMin
  <2>4. ASSUME NEW j \in Where PROVE i <= j
    <3>1. i \in Nat /\ j \in Nat
      BY <1>2
    <3>2. ~(j < i)
      BY <2>1, <2>3, <3>1
    <3> QED BY <3>1, <3>2
  <2> QED BY <2>4
<1>4. IsFirst(table, ref, i)
  BY <1>1, <1>3 DEF IsFirst
<1>5. IsFirst(table, ref, FirstSlot(table, ref))
  BY <1>4 DEF FirstSlot, IsFirst
<1> QED BY <1>5 DEF IsFirst

\* A new registration takes one position that held nothing, or a position of
\* its own in front; every other reference stays where it is.
LEMMA RegisteredAt ==
  ASSUME NEW S, NEW null \in S, NEW table \in Seq(S), NEW ref \in S, ref # null
  PROVE  \A k, v : v # null =>
           (HasAt(Register(table, ref, null), k, v) <=>
              \/ HasAt(table, k, v)
              \/ ~Assigned(table, ref) /\ k = Taken(table, null) /\ v = ref)
<1>1. Len(table) \in Nat /\ \A i \in 1 .. Len(table) : table[i] \in S
  BY LenProperties, ElementOfSeq
<1>2. CASE Assigned(table, ref)
  BY <1>2 DEF Register
<1>3. CASE ~Assigned(table, ref) /\ Assigned(table, null)
  <2> DEFINE f == FirstSlot(table, null)
             after == [table EXCEPT ![f] = ref]
  <2>1. f \in 1 .. Len(table) /\ table[f] = null
    BY <1>3, FirstSlotHolds
  <2>2. Register(table, ref, null) = after
    BY <1>3 DEF Register
  <2> HIDE DEF f
  <2>3. Len(after) = Len(table) /\ after[f] = ref
        /\ \A i \in 1 .. Len(table) : i # f => after[i] = table[i]
    BY <2>1, ExceptSeq
  <2> HIDE DEF after
  <2>4. ASSUME NEW k, NEW v, v # null
        PROVE  HasAt(after, k, v) <=>
                 HasAt(table, k, v) \/ (k = Len(table) - f + 1 /\ v = ref)
    <3>1. CASE k \notin 1 .. Len(table)
      BY <1>1, <2>1, <2>3, <3>1 DEF HasAt
    <3>2. CASE k \in 1 .. Len(table)
      <4>1. Len(table) - k + 1 \in 1 .. Len(table)
        BY <1>1, <3>2
      <4>2. Len(table) - k + 1 = f <=> k = Len(table) - f + 1
        BY <1>1, <2>1, <3>2
      <4> QED BY <2>1, <2>3, <2>4, <3>2, <4>1, <4>2 DEF HasAt
    <3> QED BY <3>1, <3>2
  <2>5. Taken(table, null) = Len(table) - f + 1
    BY <1>3 DEF Taken, f
  <2> QED BY <1>3, <2>2, <2>4, <2>5
<1>4. CASE ~Assigned(table, ref) /\ ~Assigned(table, null)
  <2> DEFINE after == NewBlock(ref, null) \o table
  <2>1. Register(table, ref, null) = after
    BY <1>4 DEF Register
  <2>2. NewBlock(ref, null) \in Seq(S) /\ Len(NewBlock(ref, null)) = 3
        /\ \A i \in 1 .. 3 : NewBlock(ref, null)[i] = IF i = 1 THEN ref ELSE null
    BY DEF NewBlock, BlockSize
  <2> DEFINE block == NewBlock(ref, null)
  <2> HIDE DEF block
  <2>3. /\ Len(after) = Len(table) + 3
        /\ after[1] = ref /\ after[2] = null /\ after[3] = null
        /\ \A i \in 1 .. Len(table) : after[i + 3] = table[i]
    <3>1. block \in Seq(S) /\ Len(block) = 3 /\ block[1] = ref /\ block[2] = null
          /\ block[3] = null
      BY <2>2 DEF block
    <3>2. /\ Len(block \o table) = 3 + Len(table)
          /\ \A i \in 1 .. 3 + Len(table) :
               (block \o table)[i] = IF i <= 3 THEN block[i] ELSE table[i - 3]
      <4>1. /\ Len(block \o table) = Len(block) + Len(table)
            /\ \A i \in 1 .. Len(block) + Len(table) :
                 (block \o table)[i] = IF i <= Len(block) THEN block[i]
                                       ELSE table[i - Len(block)]
        BY <3>1, ConcatProperties
      <4> QED BY <3>1, <4>1
    <3>3. \A i \in 1 .. Len(table) : (block \o table)[i + 3] = table[i]
      <4> TAKE i \in 1 .. Len(table)
      <4>1. i + 3 \in 1 .. 3 + Len(table) /\ ~(i + 3 <= 3) /\ i + 3 - 3 = i
        BY <1>1
      <4> QED BY <3>2, <4>1
    <3> QED BY <1>1, <3>1, <3>2, <3>3 DEF block
  <2> HIDE DEF after
  <2>4. ASSUME NEW k, NEW v, v # null
        PROVE  HasAt(after, k, v) <=>
                 HasAt(table, k, v) \/ (k = Len(table) + 3 /\ v = ref)
    <3>1. CASE k \notin 1 .. Len(table) + 3
      BY <1>1, <2>3, <3>1 DEF HasAt
    <3>2. CASE k \in 1 .. Len(table)
      <4>1. Len(table) - k + 1 \in 1 .. Len(table)
            /\ Len(after) - k + 1 = (Len(table) - k + 1) + 3
        BY <1>1, <2>3, <3>2
      <4>2. after[Len(after) - k + 1] = table[Len(table) - k + 1]
        BY <2>3, <4>1
      <4> QED BY <1>1, <2>3, <3>2, <4>2 DEF HasAt
    <3>3. CASE k \in {Len(table) + 1, Len(table) + 2, Len(table) + 3}
      <4>1. Len(after) - k + 1 \in {1, 2, 3} /\ k \notin 1 .. Len(table)
            /\ k \in 1 .. Len(after) /\ (Len(after) - k + 1 = 1 <=> k = Len(table) + 3)
        BY <1>1, <2>3, <3>3
      <4> QED BY <2>3, <2>4, <4>1 DEF HasAt
    <3> QED BY <1>1, <3>1, <3>2, <3>3
  <2>5. Taken(table, null) = Len(table) + 3
    BY <1>4 DEF Taken, BlockSize
  <2> QED BY <1>4, <2>1, <2>4, <2>5
<1> QED BY <1>2, <1>3, <1>4

\* Unregistering a reference that has one position empties just that one.
LEMMA UnregisteredAt ==
  ASSUME NEW S, NEW null \in S, NEW table \in Seq(S), NEW ref \in S, ref # null,
         OneSlotEach(table, null)
  PROVE  \A k, v : v # null =>
           (HasAt(Unregister(table, ref, null), k, v) <=> HasAt(table, k, v) /\ v # ref)
<1>1. Len(table) \in Nat
  BY LenProperties
<1>2. CASE ~Assigned(table, ref)
  <2>1. \A k : ~HasAt(table, k, ref)
    BY <1>2, AssignedAt
  <2> QED BY <1>2, <2>1 DEF Unregister, HasAt
<1>3. CASE Assigned(table, ref)
  <2> DEFINE f == FirstSlot(table, ref)
             after == [table EXCEPT ![f] = null]
  <2>1. f \in 1 .. Len(table) /\ table[f] = ref
    BY <1>3, FirstSlotHolds
  <2>2. Unregister(table, ref, null) = after
    BY <1>3 DEF Unregister
  <2> HIDE DEF f
  <2>3. Len(after) = Len(table) /\ after[f] = null
        /\ \A i \in 1 .. Len(table) : i # f => after[i] = table[i]
    BY <2>1, ExceptSeq
  <2> HIDE DEF after
  <2>4. HasAt(table, Len(table) - f + 1, ref)
    <3>1. Len(table) - (Len(table) - f + 1) + 1 = f /\ Len(table) - f + 1 \in 1 .. Len(table)
      BY <1>1, <2>1
    <3> QED BY <2>1, <3>1 DEF HasAt
  <2>5. ASSUME NEW k, NEW v, v # null
        PROVE  HasAt(after, k, v) <=> HasAt(table, k, v) /\ v # ref
    <3>1. CASE k \notin 1 .. Len(table)
      BY <2>3, <3>1 DEF HasAt
    <3>2. CASE k \in 1 .. Len(table)
      <4>1. Len(table) - k + 1 \in 1 .. Len(table)
        BY <1>1, <3>2
      <4>2. HasAt(table, k, ref) => Len(table) - k + 1 = f
        <5>1. HasAt(table, k, ref) => k = Len(table) - f + 1
          BY <2>4 DEF OneSlotEach
        <5> QED BY <1>1, <2>1, <3>2, <5>1
      <4>3. CASE Len(table) - k + 1 = f
        BY <2>1, <2>3, <2>5, <4>3 DEF HasAt
      <4>4. CASE Len(table) - k + 1 # f
        BY <2>3, <3>2, <4>1, <4>2, <4>4 DEF HasAt
      <4> QED BY <4>3, <4>4
    <3> QED BY <3>1, <3>2
  <2> QED BY <2>2, <2>5
<1> QED BY <1>2, <1>3

-----------------------------------------------------------------------------
\* What a thread registers and leaves, and when: it is in the table, once, from
\* Thread.Start to the end of InternalEntryPoint.
TableInv ==
  /\ OneSlotEach(slots, None)
  /\ \A t \in Threads : pc[t] \notin {"unborn", "dead"} => Registered(t)
  /\ \A t \in Threads : pc[t] = "create" => Registered(target[t])
  /\ \A u \in Threads : pc[u] = "dead" => ~Registered(u)
  /\ \A u \in world : ~Registered(u) => pc[u] = "dead"

\* A thread that steps is alive, and steps of its own kind move no other thread:
\* only Create does, the unborn thread it starts.
LEMMA PcSteps ==
  ASSUME GateInv, NEW t \in Threads, ThreadNext(t)
  PROVE  /\ pc[t] \notin {"unborn", "dead"} /\ pc'[t] # "unborn"
         /\ \A v \in Threads \ {t} :
              /\ target'[v] = target[v] /\ walk'[v] = walk[v] /\ cont'[v] = cont[v]
              /\ pc'[v] # pc[v] => /\ pc[t] = "create" /\ v = target[t]
                                   /\ pc[v] = "unborn" /\ pc'[v] = "spin"
<1> DEFINE Alive == pc[t] \notin {"unborn", "dead"} /\ pc'[t] # "unborn"
           Others == \A v \in Threads \ {t} :
              /\ target'[v] = target[v] /\ walk'[v] = walk[v] /\ cont'[v] = cont[v]
              /\ pc'[v] # pc[v] => /\ pc[t] = "create" /\ v = target[t]
                                   /\ pc[v] = "unborn" /\ pc'[v] = "spin"
<1>0. /\ pc \in [Threads -> Pc] /\ target \in [Threads -> Threads \cup {None}]
      /\ walk \in [Threads -> Nat]
      /\ cont \in [Threads -> {"none", "managed", "unlinking"}]
  BY DEF GateInv, TypeOK
<1> USE DEF Goto, gateVars, threadVars
<1>1. CASE Create(t)
  <2>1. target[t] \in Threads /\ pc[target[t]] = "unborn" /\ pc[t] = "create"
    BY <1>1 DEF Create, GateInv, StartsUnborn
  <2>2. /\ pc' = [pc EXCEPT ![t] = "publish", ![target[t]] = "spin"]
        /\ UNCHANGED <<walk, cont, target>>
    BY <1>1 DEF Create
  <2> QED BY <1>0, <2>1, <2>2
<1>2. CASE \/ Link(t) \/ LinkLock(t) \/ LinkPush(t) \/ UnlinkLock(t) \/ UnlinkPop(t) \/ Throw(t)
           \/ \E u \in Threads : Start(t, u)
  BY <1>0, <1>2 DEF Link, LinkLock, LinkPush, UnlinkLock, UnlinkPop, Throw, Start
<1>3. CASE \/ Publish(t) \/ Spin(t) \/ UnregisterSelf(t) \/ GlobalEnter(t)
           \/ EnterRead(t) \/ EnterLock(t) \/ EnterDone(t) \/ Mark(t)
  BY <1>0, <1>3 DEF Publish, Spin, UnregisterSelf, GlobalEnter, EnterRead,
       EnterLock, EnterDone, Mark
<1>4. CASE \/ FinalizerCall(t) \/ FinalizerReturn(t)
           \/ \E u \in Threads : ThreadFinalize(t, u)
           \/ ThreadFinalizeLock(t) \/ SweepDone(t)
           \/ ExitSlot(t) \/ ExitDone(t) \/ GlobalExit(t)
  BY <1>0, <1>4 DEF FinalizerCall, FinalizerReturn, ThreadFinalize,
       ThreadFinalizeLock, SweepDone, ExitSlot, ExitDone, GlobalExit
<1>5. CASE \/ \E to \in {"managed", "unlinking"} : CollectBegin(t, to)
           \/ Skip(t) \/ CollectEnd(t)
  BY <1>0, <1>5 DEF CollectBegin, Skip, CollectEnd, SkipPc
<1> QED BY <1>1, <1>2, <1>3, <1>4, <1>5 DEF ThreadNext

\* Registered, in terms of positions.
LEMMA RegisteredIsAt ==
  ASSUME slots \in Seq(Threads \cup {None}), NEW u
  PROVE  Registered(u) <=> \E k : SlotAt(k, u)
BY AssignedAt DEF Registered, SlotAt

\* What a step does to the table, in terms of positions.
LEMMA TableSteps ==
  ASSUME GateInv, OneSlotEach(slots, None), NEW t \in Threads, ThreadNext(t)
  PROVE  \/ /\ slots' = slots
            /\ pc'[t] \notin {"create", "dead"}
         \/ \E u \in Threads :
              /\ Start(t, u)
              /\ \A k, v : v # None =>
                   (SlotAt(k, v)' <=> \/ SlotAt(k, v)
                                      \/ ~Registered(u) /\ k = Taken(slots, None) /\ v = u)
         \/ /\ UnregisterSelf(t)
            /\ \A k, v : v # None => (SlotAt(k, v)' <=> SlotAt(k, v) /\ v # t)
<1>1. \/ slots' = slots /\ pc'[t] \notin {"create", "dead"}
      \/ UnregisterSelf(t) \/ \E u \in Threads : Start(t, u)
  <2>0. /\ pc \in [Threads -> Pc]
        /\ cont[t] \in {"none", "managed", "unlinking"}
        /\ pc[t] = "create" => target[t] # t
    BY DEF GateInv, TypeOK, StartsUnborn
  <2> USE <2>0 DEF Goto, gateVars, threadVars
  <2>1. CASE \/ Link(t) \/ LinkLock(t) \/ LinkPush(t) \/ UnlinkLock(t) \/ UnlinkPop(t) \/ Throw(t)
             \/ Create(t) \/ Publish(t) \/ Spin(t) \/ GlobalEnter(t)
    BY <2>1 DEF Link, LinkLock, LinkPush, UnlinkLock, UnlinkPop, Throw, Create, Publish,
         Spin, GlobalEnter
  <2>2. CASE \/ EnterRead(t) \/ EnterLock(t) \/ EnterDone(t) \/ Mark(t)
             \/ FinalizerCall(t) \/ FinalizerReturn(t)
             \/ \E u \in Threads : ThreadFinalize(t, u)
    BY <2>2 DEF EnterRead, EnterLock, EnterDone, Mark, FinalizerCall,
         FinalizerReturn, ThreadFinalize
  <2>3. CASE \/ ThreadFinalizeLock(t) \/ SweepDone(t)
             \/ ExitSlot(t) \/ ExitDone(t) \/ GlobalExit(t) \/ CollectEnd(t)
             \/ Skip(t) \/ \E to \in {"managed", "unlinking"} : CollectBegin(t, to)
    BY <2>3 DEF ThreadFinalizeLock, SweepDone, ExitSlot, ExitDone, GlobalExit,
         CollectEnd, Skip, CollectBegin
  <2> QED BY <2>1, <2>2, <2>3 DEF ThreadNext
<1> DEFINE S == Threads \cup {None}
<1>2. slots \in Seq(S) /\ None \in S /\ t \in S /\ t # None
  BY ThreadAssumption DEF GateInv, TypeOK
<1>3. ASSUME NEW u \in Threads, Start(t, u)
      PROVE  \A k, v : v # None =>
               (SlotAt(k, v)' <=> \/ SlotAt(k, v)
                                  \/ ~Registered(u) /\ k = Taken(slots, None) /\ v = u)
  <2>1. slots' = Register(slots, u, None) /\ u \in S /\ u # None
    BY <1>3, ThreadAssumption DEF Start
  <2> HIDE DEF S
  <2> QED BY <1>2, <2>1, RegisteredAt DEF SlotAt, Registered
<1>4. ASSUME UnregisterSelf(t)
      PROVE  \A k, v : v # None => (SlotAt(k, v)' <=> SlotAt(k, v) /\ v # t)
  <2>1. slots' = Unregister(slots, t, None)
    BY <1>4 DEF UnregisterSelf
  <2> HIDE DEF S
  <2> QED BY <1>2, <2>1, UnregisteredAt DEF SlotAt
<1> QED BY <1>1, <1>3, <1>4, Zenon

\* The set of threads a collection stops is fixed when it has the global lock.
LEMMA WorldSteps ==
  ASSUME NEW t \in Threads, ThreadNext(t)
  PROVE  world' = world \/ GlobalEnter(t)
BY DEF ThreadNext, gateVars, threadVars,
       Link, LinkLock, LinkPush, UnlinkLock, UnlinkPop, Throw, Start, Create,
       Publish, Spin, UnregisterSelf, CollectBegin, Skip,
       EnterRead, EnterLock, EnterDone, Mark, FinalizerCall, FinalizerReturn,
       ThreadFinalize, ThreadFinalizeLock, SweepDone, ExitSlot, ExitDone,
       GlobalExit, CollectEnd

\* The table invariant starts with Main alone in its slot.
LEMMA InitTable == Init => TableInv
<1> SUFFICES ASSUME Init PROVE TableInv
  OBVIOUS
<1>1. Len(slots) = 3 /\ slots[1] = Main /\ slots[2] = None /\ slots[3] = None
  BY DEF Init, NewBlock, BlockSize
<1>2. \A u : u # None => (Registered(u) <=> u = Main)
  BY <1>1 DEF Registered, Assigned
<1>3. OneSlotEach(slots, None)
  BY <1>1 DEF OneSlotEach, HasAt
<1> QED BY <1>2, <1>3, ThreadAssumption DEF Init, TableInv

\* Every step keeps it.
LEMMA TableKept ==
  ASSUME GateInv, TableInv, NEW t \in Threads, ThreadNext(t)
  PROVE  TableInv'
<1>0. /\ slots \in Seq(Threads \cup {None}) /\ slots' \in Seq(Threads \cup {None})
      /\ None \notin Threads /\ TypeOK /\ world \subseteq Threads
  BY LocksAndSlotsKept, ThreadAssumption DEF GateInv, TypeOK
<1>a. \A u : Registered(u) <=> \E k : SlotAt(k, u)
  BY <1>0, RegisteredIsAt
<1>b. \A u : Registered(u)' <=> \E k : SlotAt(k, u)'
  BY <1>0, AssignedAt DEF Registered, SlotAt
<1>c. \A s \in Threads : pc[s] = "create" => target[s] \in Threads /\ pc[target[s]] = "unborn"
  BY DEF GateInv, StartsUnborn
<1>1. CASE slots' = slots /\ pc'[t] \notin {"create", "dead"}
  <2>1. \A u : Registered(u)' <=> Registered(u)
    BY <1>1 DEF Registered
  <2>2. OneSlotEach(slots, None)'
    BY <1>1 DEF TableInv, OneSlotEach
  <2>3. \A s \in Threads : pc'[s] \notin {"unborn", "dead"} => Registered(s)'
    <3> SUFFICES ASSUME NEW s \in Threads, pc'[s] \notin {"unborn", "dead"}
                 PROVE  Registered(s)
      BY <2>1
    <3>1. CASE s = t \/ pc'[s] = pc[s]
      BY <3>1, PcSteps DEF TableInv
    <3>2. CASE s # t /\ pc'[s] # pc[s]
      BY <3>2, PcSteps DEF TableInv
    <3> QED BY <3>1, <3>2
  <2>4. \A s \in Threads : pc'[s] = "create" => Registered(target[s])' /\ target'[s] = target[s]
    BY <1>1, <2>1, PcSteps DEF TableInv
  <2>5. \A u \in Threads : pc'[u] = "dead" => ~Registered(u)'
    BY <1>1, <2>1, PcSteps DEF TableInv
  <2>6. \A u \in world' : ~Registered(u)' => pc'[u] = "dead"
    <3>1. CASE world' = world
      BY <1>0, <2>1, <3>1, PcSteps DEF TableInv
    <3>2. CASE GlobalEnter(t)
      BY <2>1, <3>2 DEF GlobalEnter
    <3> QED BY <3>1, <3>2, WorldSteps
  <2>7. \A s \in Threads : pc'[s] = "create" => Registered(target[s])'
    BY <2>4
  <2> QED BY <2>1, <2>2, <2>3, <2>4, <2>5, <2>6 DEF TableInv
<1>2. ASSUME NEW u \in Threads, Start(t, u),
             \A k, v : v # None =>
               (SlotAt(k, v)' <=> \/ SlotAt(k, v)
                                  \/ ~Registered(u) /\ k = Taken(slots, None) /\ v = u)
      PROVE  TableInv'
  <2>1. /\ pc' = [pc EXCEPT ![t] = "create"] /\ target' = [target EXCEPT ![t] = u]
        /\ pc[t] = "managed" /\ pc[u] = "unborn" /\ world' = world
        /\ pc \in [Threads -> Pc] /\ target \in [Threads -> Threads \cup {None}]
    BY <1>0, <1>2 DEF Start, Goto, TypeOK
  <2>2. \A v : v # None => (Registered(v)' <=> Registered(v) \/ v = u)
    BY <1>2, <1>a, <1>b
  <2>3. OneSlotEach(slots, None)'
    <3> SUFFICES ASSUME NEW k, NEW l, NEW v, v # None, SlotAt(k, v)', SlotAt(l, v)'
                 PROVE  k = l
      BY DEF OneSlotEach, SlotAt
    <3>1. SlotAt(k, v) /\ SlotAt(l, v) => k = l
      BY DEF TableInv, OneSlotEach, SlotAt
    <3> QED BY <1>2, <1>a, <3>1
  <2>4. \A s \in Threads : pc'[s] \notin {"unborn", "dead"} => Registered(s)'
    BY <1>0, <2>1, <2>2 DEF TableInv
  <2>5. \A s \in Threads : pc'[s] = "create" => Registered(target[s])'
    <3> SUFFICES ASSUME NEW s \in Threads, pc'[s] = "create"
                 PROVE  Registered(target[s])'
      OBVIOUS
    <3>1. CASE s = t
      BY <1>0, <2>1, <2>2, <3>1 DEF Registered
    <3>2. CASE s # t
      <4>1. pc[s] = "create" /\ target'[s] = target[s]
        BY <2>1, <3>2
      <4> QED BY <1>0, <1>c, <2>2, <4>1 DEF TableInv, Registered
    <3> QED BY <3>1, <3>2
  <2>6. \A v \in Threads : pc'[v] = "dead" => ~Registered(v)'
    BY <1>0, <2>1, <2>2 DEF TableInv
  <2>7. \A v \in world' : ~Registered(v)' => pc'[v] = "dead"
    BY <1>0, <2>1, <2>2 DEF TableInv
  <2> QED BY <2>3, <2>4, <2>5, <2>6, <2>7 DEF TableInv
<1>3. ASSUME UnregisterSelf(t),
             \A k, v : v # None => (SlotAt(k, v)' <=> SlotAt(k, v) /\ v # t)
      PROVE  TableInv'
  <2>1. /\ pc' = [pc EXCEPT ![t] = "dead"] /\ target' = target
        /\ pc[t] = "unregister" /\ world' = world
        /\ pc \in [Threads -> Pc]
    BY <1>0, <1>3 DEF UnregisterSelf, Goto, TypeOK
  <2>2. \A v : v # None => (Registered(v)' <=> Registered(v) /\ v # t)
    BY <1>3, <1>a, <1>b
  <2>3. OneSlotEach(slots, None)'
    <3> SUFFICES ASSUME NEW k, NEW l, NEW v, v # None, SlotAt(k, v)', SlotAt(l, v)'
                 PROVE  k = l
      BY DEF OneSlotEach, SlotAt
    <3>1. SlotAt(k, v) /\ SlotAt(l, v) => k = l
      BY DEF TableInv, OneSlotEach, SlotAt
    <3> QED BY <1>3, <3>1
  <2>4. \A s \in Threads : pc'[s] \notin {"unborn", "dead"} => Registered(s)'
    BY <1>0, <2>1, <2>2 DEF TableInv
  <2>5. \A s \in Threads : pc'[s] = "create" => Registered(target[s])'
    <3> SUFFICES ASSUME NEW s \in Threads, pc'[s] = "create"
                 PROVE  Registered(target[s])'
      OBVIOUS
    <3>1. pc[s] = "create" /\ target'[s] = target[s] /\ target[s] # t
      BY <1>c, <2>1
    <3> QED BY <1>0, <1>c, <2>2, <3>1 DEF TableInv, Registered
  <2>6. \A v \in Threads : pc'[v] = "dead" => ~Registered(v)'
    BY <1>0, <2>1, <2>2 DEF TableInv
  <2>7. \A v \in world' : ~Registered(v)' => pc'[v] = "dead"
    BY <1>0, <2>1, <2>2 DEF TableInv
  <2> QED BY <2>3, <2>4, <2>5, <2>6, <2>7 DEF TableInv
<1> QED BY <1>0, <1>1, <1>2, <1>3, TableSteps DEF TableInv
-----------------------------------------------------------------------------
Busy(t) == pc[t] \in {"linked", "unlinked"}
\* Thread t owns the lock of a thread the collector can still find.
Holds(t, u) == Registered(u) /\ lock[u].owner = t
\* The walk of thread t has still to visit u.
Ahead(t, u) == \E k \in 1 .. walk[t] : SlotAt(k, u)
\* Thread t read u from its slot and waits for its lock.
Waited(t, u) == pc[t] = "enterLock" /\ target[t] = u

\* What the owner of a lock is doing: threads change their own frames, or
\* collect, and the collector has each lock once until its exit walk comes by.
OwnerBusy(t) ==
  \A u \in Threads : Holds(t, u) =>
    /\ \/ Collecting(t) /\ pc[t] \notin {"global", "globalExit", "leave"}
       \/ t = u /\ Busy(t)
    /\ lock[u].count = 1 \/ (lock[u].count = 2 /\ t = u /\ Busy(t) /\ Collecting(t))

\* The walk that takes the locks takes no lock twice.
TakesOnce(t) ==
  /\ pc[t] = "enterLock" =>
       /\ target[t] \in Threads
       /\ Registered(target[t]) \/ pc[target[t]] = "dead"
       /\ ~Holds(t, target[t])
  /\ pc[t] \in {"enter", "enterLock"} =>
       \A u \in Threads : Holds(t, u) \/ Waited(t, u) => ~Ahead(t, u)

\* It passes over nobody: a thread of the world is ahead of it or locked.
TakesAll(t) ==
  \A u \in world : Registered(u) =>
    /\ pc[t] \in {"enter", "enterLock"} => Holds(t, u) \/ Waited(t, u) \/ Ahead(t, u)
    /\ pc[t] = "mark" => Holds(t, u)

\* The walk that gives them back has what is still locked ahead of it.
GivesAll(t) ==
  pc[t] = "exit" => \A u \in Threads : Holds(t, u) => Ahead(t, u)

ThreadLocks(t) ==
  /\ Busy(t) => lock[t].owner = t
  /\ OwnerBusy(t) /\ TakesOnce(t) /\ TakesAll(t) /\ GivesAll(t)

\* A lock nobody owns was exited as often as entered; nobody enters the lock of
\* a thread that was never registered.
LockInv ==
  /\ \A u \in Threads :
       /\ lock[u].owner = None => lock[u].count = 0
       /\ ~Registered(u) /\ pc[u] # "dead" => lock[u].owner = None
  /\ \A t \in Threads : ThreadLocks(t)

LocksInv == GateInv /\ TableInv /\ LockInv
-----------------------------------------------------------------------------
\* What every step leaves alone in the table: who appears in it was unborn, who
\* disappears is the thread that ends, and nobody else moves.
LEMMA TableEffects ==
  ASSUME GateInv, TableInv, NEW t \in Threads, ThreadNext(t), NEW u \in Threads
  PROVE  /\ Registered(u)' /\ ~Registered(u) => pc[u] = "unborn" /\ pc'[u] = "unborn"
         /\ Registered(u) /\ ~Registered(u)' => u = t /\ pc'[t] = "dead"
         /\ \A k : Registered(u)' /\ SlotAt(k, u) => SlotAt(k, u)'
         /\ \A k : Registered(u) /\ SlotAt(k, u)' => SlotAt(k, u)
<1>0. /\ slots \in Seq(Threads \cup {None}) /\ slots' \in Seq(Threads \cup {None})
      /\ None \notin Threads /\ u # None /\ pc \in [Threads -> Pc]
  BY LocksAndSlotsKept, ThreadAssumption DEF GateInv, TypeOK
<1>a. Registered(u) <=> \E k : SlotAt(k, u)
  BY <1>0, RegisteredIsAt
<1>b. Registered(u)' <=> \E k : SlotAt(k, u)'
  BY <1>0, AssignedAt DEF Registered, SlotAt
<1>1. CASE slots' = slots
  BY <1>1 DEF Registered, SlotAt
<1>2. ASSUME NEW w \in Threads, Start(t, w),
             \A k, v : v # None =>
               (SlotAt(k, v)' <=> \/ SlotAt(k, v)
                                  \/ ~Registered(w) /\ k = Taken(slots, None) /\ v = w)
      PROVE  /\ Registered(u)' /\ ~Registered(u) => pc[u] = "unborn" /\ pc'[u] = "unborn"
             /\ Registered(u) /\ ~Registered(u)' => u = t /\ pc'[t] = "dead"
             /\ \A k : Registered(u)' /\ SlotAt(k, u) => SlotAt(k, u)'
             /\ \A k : Registered(u) /\ SlotAt(k, u)' => SlotAt(k, u)
  <2>1. pc[w] = "unborn" /\ pc'[w] = "unborn"
    BY <1>0, <1>2 DEF Start, Goto
  <2>2. \A k : SlotAt(k, u)' <=> \/ SlotAt(k, u)
                                 \/ ~Registered(w) /\ k = Taken(slots, None) /\ u = w
    BY <1>0, <1>2
  <2> QED BY <1>a, <1>b, <2>1, <2>2
<1>3. ASSUME UnregisterSelf(t),
             \A k, v : v # None => (SlotAt(k, v)' <=> SlotAt(k, v) /\ v # t)
      PROVE  /\ Registered(u)' /\ ~Registered(u) => pc[u] = "unborn" /\ pc'[u] = "unborn"
             /\ Registered(u) /\ ~Registered(u)' => u = t /\ pc'[t] = "dead"
             /\ \A k : Registered(u)' /\ SlotAt(k, u) => SlotAt(k, u)'
             /\ \A k : Registered(u) /\ SlotAt(k, u)' => SlotAt(k, u)
  <2>1. pc'[t] = "dead"
    BY <1>0, <1>3 DEF UnregisterSelf, Goto
  <2>2. \A k : SlotAt(k, u)' <=> SlotAt(k, u) /\ u # t
    BY <1>0, <1>3
  <2> QED BY <1>a, <1>b, <2>1, <2>2
<1> QED BY <1>1, <1>2, <1>3, TableSteps DEF TableInv

\* A step of t enters a lock that is free or its own, or exits one; locks that
\* another thread owns are not touched by it.
LEMMA LockEffects ==
  ASSUME GateInv, NEW t \in Threads, ThreadNext(t),
         NEW u \in Threads, NEW v \in Threads, v # t
  PROVE  /\ lock'[u].owner = v <=> lock[u].owner = v
         /\ lock[u].owner = v => lock'[u] = lock[u]
<1>0. lock \in [Threads -> Lock] /\ None \notin Threads
  BY ThreadAssumption DEF GateInv, TypeOK
<1>1. \/ lock' = lock
      \/ \E w : Available(w, t) /\ lock' = Entered(w, t)
      \/ \E w : lock' = Exited(w, t)
  BY DEF ThreadNext, gateVars, threadVars,
         Link, LinkLock, LinkPush, UnlinkLock, UnlinkPop, Throw, Start, Create,
         Publish, Spin, UnregisterSelf, CollectBegin, Skip, GlobalEnter,
         EnterRead, EnterLock, EnterDone, Mark, FinalizerCall, FinalizerReturn,
         ThreadFinalize, ThreadFinalizeLock, SweepDone, ExitSlot, ExitDone,
         GlobalExit, CollectEnd
<1>2. ASSUME NEW w, Available(w, t), lock' = Entered(w, t)
      PROVE  /\ lock'[u].owner = v <=> lock[u].owner = v
             /\ lock[u].owner = v => lock'[u] = lock[u]
  BY <1>0, <1>2 DEF Available, Entered
<1>3. ASSUME NEW w, lock' = Exited(w, t)
      PROVE  /\ lock'[u].owner = v <=> lock[u].owner = v
             /\ lock[u].owner = v => lock'[u] = lock[u]
  <2>1. lock'[u] = lock[u] \/ lock'[u] = Unlocked(lock[u], t)
    BY <1>0, <1>3 DEF Exited
  <2> QED BY <1>0, <2>1 DEF Unlocked, Free
<1> QED BY <1>1, <1>2, <1>3

\* What a thread other than the one that steps has locked stays as it is.
LEMMA OthersKept ==
  ASSUME LocksInv, NEW t \in Threads, ThreadNext(t), NEW v \in Threads \ {t}
  PROVE  ThreadLocks(v)'
<1> USE DEF LocksInv
<1>0. /\ None \notin Threads /\ pc \in [Threads -> Pc] /\ world \subseteq Threads
      /\ ThreadLocks(v) /\ pc[t] \notin {"unborn", "dead"}
      /\ target'[v] = target[v] /\ walk'[v] = walk[v] /\ cont'[v] = cont[v]
      /\ pc'[v] = pc[v] \/ (pc[v] = "unborn" /\ pc'[v] = "spin")
  BY PcSteps, ThreadAssumption DEF GateInv, TypeOK, LockInv
<1>1. ASSUME NEW u \in Threads
      PROVE  /\ Holds(v, u)' => Holds(v, u)
             /\ Holds(v, u) /\ Registered(u)' => Holds(v, u)'
             /\ Holds(v, u) => lock'[u] = lock[u]
  <2>1. Registered(u)' /\ ~Registered(u) => lock[u].owner = None
    BY TableEffects DEF LockInv
  <2> QED BY <1>0, <2>1, LockEffects DEF Holds
<1>2. \A u \in Threads : Ahead(v, u)' /\ Registered(u) => Ahead(v, u)
  BY <1>0, TableEffects DEF Ahead
<1>3. \A u \in Threads : Ahead(v, u) /\ Registered(u)' => Ahead(v, u)'
  BY <1>0, TableEffects DEF Ahead
<1>4. CASE pc'[v] = pc[v]
  <2>1. Busy(v)' => lock'[v].owner = v
    BY <1>0, <1>4, LockEffects DEF ThreadLocks, Busy
  <2>2. OwnerBusy(v)'
    BY <1>0, <1>1, <1>4 DEF ThreadLocks, OwnerBusy, Busy, Collecting
  <2>3. TakesOnce(v)'
    <3>1. ASSUME pc[v] = "enterLock"
          PROVE  /\ target'[v] \in Threads
                 /\ Registered(target[v])' \/ pc'[target'[v]] = "dead"
                 /\ ~Holds(v, target[v])'
      <4> DEFINE w == target[v]
      <4>1. w \in Threads /\ (Registered(w) \/ pc[w] = "dead") /\ ~Holds(v, w)
        BY <1>0, <3>1 DEF ThreadLocks, TakesOnce
      <4>2. pc[w] = "dead" => pc'[w] = "dead"
        BY <4>1, PcSteps
      <4>3. Assigned(slots, w) /\ ~Assigned(slots', w) => pc'[w] = "dead"
        BY <4>1, TableEffects DEF Registered
      <4>4. ~(Assigned(slots', w) /\ lock'[w].owner = v)
        BY <1>1, <4>1 DEF Holds, Registered
      <4> QED BY <1>0, <4>1, <4>2, <4>3, <4>4 DEF Holds, Registered
    <3>2. ASSUME pc[v] \in {"enter", "enterLock"}, NEW u \in Threads,
                 Holds(v, u)' \/ Waited(v, u)', Ahead(v, u)'
          PROVE  FALSE
      <4>1. Holds(v, u) \/ Waited(v, u)
        BY <1>0, <1>1, <1>4, <3>2 DEF Waited
      <4>2. ~Ahead(v, u)
        BY <1>0, <3>2, <4>1 DEF ThreadLocks, TakesOnce
      <4>3. ~Registered(u)
        BY <1>2, <3>2, <4>2
      <4>4. Waited(v, u) /\ pc[u] = "dead"
        BY <1>0, <4>1, <4>3 DEF Holds, Waited, ThreadLocks, TakesOnce
      <4>5. Registered(u)'
        <5>1. slots' \in Seq(Threads \cup {None})
          BY LocksAndSlotsKept
        <5> QED BY <3>2, <5>1, AssignedAt DEF Ahead, SlotAt, Registered
      <4> QED BY <4>3, <4>4, <4>5, TableEffects
    <3> QED BY <1>4, <3>1, <3>2 DEF TakesOnce
  <2>4. TakesAll(v)'
    <3> SUFFICES ASSUME NEW u \in world', Registered(u)', pc[v] \in {"enter", "enterLock", "mark"}
                 PROVE  /\ pc[v] \in {"enter", "enterLock"} =>
                             Holds(v, u)' \/ Waited(v, u)' \/ Ahead(v, u)'
                        /\ pc[v] = "mark" => Holds(v, u)'
      BY <1>4 DEF TakesAll
    <3>1. world' = world
      <4>1. Collecting(v)
        BY DEF GateInv, CollectorAtWork, CollectPc
      <4>2. GlobalEnter(t) => Collecting(t)
        BY DEF GlobalEnter, Goto, GateInv, CollectorAtWork, CollectPc
      <4> QED BY <4>1, <4>2, WorldSteps DEF GateInv, OneCollector
    <3>2. u \in Threads /\ Registered(u)
      BY <1>0, <3>1, TableEffects DEF TableInv
    <3> QED BY <1>0, <1>1, <1>3, <1>4, <3>1, <3>2 DEF ThreadLocks, TakesAll, Waited
  <2>5. GivesAll(v)'
    BY <1>0, <1>1, <1>3, <1>4 DEF ThreadLocks, GivesAll, Holds
  <2> QED BY <2>1, <2>2, <2>3, <2>4, <2>5 DEF ThreadLocks
<1>5. CASE pc[v] = "unborn" /\ pc'[v] = "spin"
  <2>1. \A u \in Threads : ~Holds(v, u)'
    BY <1>0, <1>1, <1>5 DEF ThreadLocks, OwnerBusy, Busy, GateInv, CollectorAtWork
  <2> QED BY <1>5, <2>1 DEF ThreadLocks, Busy, OwnerBusy, TakesOnce, TakesAll, GivesAll
<1> QED BY <1>0, <1>4, <1>5

\* A step of t that touches neither a lock nor the walk keeps what t has locked
\* wherever nothing is promised about the place it goes to.
LEMMA QuietStepKept ==
  ASSUME LocksInv, NEW t \in Threads, ThreadNext(t), ~Busy(t),
         lock' = lock, cont'[t] = cont[t],
         pc'[t] \notin {"linked", "unlinked", "global", "enter", "enterLock",
                        "mark", "exit", "globalExit", "leave"}
  PROVE  ThreadLocks(t)'
<1> USE DEF LocksInv
<1>1. ASSUME NEW u \in Threads, Holds(t, u)'
      PROVE  Collecting(t) /\ lock[u].count = 1
  <2>1. Registered(u)' /\ ~Registered(u) => lock[u].owner = None
    BY TableEffects DEF LockInv
  <2>2. Holds(t, u)
    BY <1>1, <2>1, ThreadAssumption DEF Holds
  <2> QED BY <2>2 DEF LockInv, ThreadLocks, OwnerBusy
<1> QED BY <1>1 DEF ThreadLocks, OwnerBusy, TakesOnce, TakesAll, GivesAll, Busy,
                    Collecting

\* A thread owns no lock that matters where it does not collect.
LEMMA OwnsNothing ==
  ASSUME LocksInv, NEW t \in Threads, ~Busy(t),
         ~Collecting(t) \/ pc[t] \in {"global", "globalExit", "leave"}
  PROVE  \A u \in Threads : ~Holds(t, u)
BY DEF LocksInv, LockInv, ThreadLocks, OwnerBusy

\* The same for a step to anywhere, of a thread that has nothing locked.
LEMMA NothingLockedKept ==
  ASSUME LocksInv, NEW t \in Threads, ThreadNext(t), lock' = lock,
         \A u \in Threads : ~Holds(t, u),
         pc'[t] \notin {"linked", "unlinked", "enter", "enterLock", "mark"}
  PROVE  ThreadLocks(t)'
<1> USE DEF LocksInv
<1>1. ASSUME NEW u \in Threads PROVE ~Holds(t, u)'
  <2>1. Registered(u)' /\ ~Registered(u) => lock[u].owner = None
    BY TableEffects DEF LockInv
  <2> QED BY <2>1, ThreadAssumption DEF Holds
<1> QED BY <1>1 DEF ThreadLocks, OwnerBusy, TakesOnce, TakesAll, GivesAll, Busy

\* Entering one's own lock to change one's frames.
LEMMA FrameLockKept ==
  ASSUME LocksInv, NEW t \in Threads, LinkLock(t) \/ UnlinkLock(t)
  PROVE  ThreadLocks(t)'
<1> USE DEF LocksInv
<1>0. /\ lock \in [Threads -> Lock] /\ None \notin Threads /\ pc \in [Threads -> Pc]
      /\ OwnerBusy(t)
      /\ lock[t].owner = None => lock[t].count = 0
  BY ThreadAssumption DEF GateInv, TypeOK, LockInv, ThreadLocks
<1>1. /\ lock' = [lock EXCEPT ![t] = [owner |-> t, count |-> lock[t].count + 1]]
      /\ lock[t].owner \in {None, t}
      /\ pc[t] \notin {"linked", "unlinked"} /\ pc'[t] \in {"linked", "unlinked"}
      /\ pc[t] \notin {"global", "globalExit", "leave"}
      /\ slots' = slots /\ cont' = cont
  BY <1>0 DEF LinkLock, UnlinkLock, Goto, Available, Entered
<1>2. \A u : Registered(u)' <=> Registered(u)
  BY <1>1 DEF Registered
<1>3. lock'[t] = [owner |-> t, count |-> lock[t].count + 1]
      /\ \A u \in Threads \ {t} : lock'[u] = lock[u]
  BY <1>0, <1>1
<1>4. Registered(t) =>
        lock'[t].count = 1 \/ (lock'[t].count = 2 /\ Collecting(t))
  <2>1. CASE lock[t].owner = None
    BY <1>0, <1>3, <2>1
  <2>2. CASE lock[t].owner = t /\ Registered(t)
    BY <1>0, <1>1, <1>3, <2>2 DEF OwnerBusy, Holds, Busy
  <2> QED BY <1>1, <2>1, <2>2
<1>5. OwnerBusy(t)'
  <2> SUFFICES ASSUME NEW u \in Threads, Holds(t, u)'
               PROVE  /\ Collecting(t)' \/ t = u
                      /\ \/ lock'[u].count = 1
                         \/ lock'[u].count = 2 /\ t = u /\ Collecting(t)'
    BY <1>1 DEF OwnerBusy, Busy
  <2>1. CASE u = t
    BY <1>1, <1>2, <1>4, <2>1 DEF Collecting, Holds
  <2>2. CASE u # t
    BY <1>0, <1>1, <1>2, <1>3, <2>2 DEF Holds, OwnerBusy, Busy, Collecting
  <2> QED BY <2>1, <2>2
<1> QED BY <1>1, <1>3, <1>5 DEF ThreadLocks, TakesOnce, TakesAll, GivesAll, Busy

\* Giving one's own lock back after changing one's frames.
LEMMA FrameUnlockKept ==
  ASSUME LocksInv, NEW t \in Threads, LinkPush(t) \/ UnlinkPop(t)
  PROVE  ThreadLocks(t)'
<1> USE DEF LocksInv
<1>0. /\ lock \in [Threads -> Lock] /\ None \notin Threads /\ pc \in [Threads -> Pc]
      /\ OwnerBusy(t)
      /\ Busy(t) => lock[t].owner = t
  BY ThreadAssumption DEF GateInv, TypeOK, LockInv, ThreadLocks
<1>1. /\ lock' = [lock EXCEPT ![t] = Unlocked(lock[t], t)]
      /\ Busy(t) /\ pc'[t] \in {"managed", "unregister"}
      /\ slots' = slots /\ cont' = cont
  BY <1>0 DEF LinkPush, UnlinkPop, Goto, Exited, Busy
<1>2. \A u : Registered(u)' <=> Registered(u)
  BY <1>1 DEF Registered
<1>3. lock'[t] = Unlocked(lock[t], t) /\ \A u \in Threads \ {t} : lock'[u] = lock[u]
  BY <1>0, <1>1
<1>4. OwnerBusy(t)'
  <2> SUFFICES ASSUME NEW u \in Threads, Holds(t, u)'
               PROVE  Collecting(t)' /\ lock'[u].count = 1
    BY <1>1 DEF OwnerBusy, Busy
  <2>1. CASE u = t
    <3>1. lock[t].count # 1
      BY <1>0, <1>1, <1>3, <2>1 DEF Holds, Unlocked, Free
    <3>2. lock[t].count = 2 /\ Collecting(t)
      BY <1>0, <1>1, <1>2, <2>1, <3>1 DEF OwnerBusy, Holds
    <3> QED BY <1>0, <1>1, <1>3, <2>1, <3>2 DEF Unlocked, Collecting
  <2>2. CASE u # t
    BY <1>0, <1>1, <1>2, <1>3, <2>2 DEF Holds, OwnerBusy, Collecting
  <2> QED BY <2>1, <2>2
<1> QED BY <1>1, <1>4 DEF ThreadLocks, TakesOnce, TakesAll, GivesAll, Busy

\* The finalizer of a Thread exits the lock of a thread that has ended.
LEMMA FinalizeLockKept ==
  ASSUME LocksInv, NEW t \in Threads, ThreadFinalizeLock(t)
  PROVE  ThreadLocks(t)'
<1> USE DEF LocksInv
<1>0. /\ lock \in [Threads -> Lock] /\ None \notin Threads /\ pc \in [Threads -> Pc]
      /\ OwnerBusy(t)
  BY ThreadAssumption DEF GateInv, TypeOK, LockInv, ThreadLocks
<1>1. /\ lock' = Exited(target[t], t)
      /\ pc[t] = "finLock" /\ pc'[t] = "sweep"
      /\ slots' = slots /\ cont' = cont
  BY <1>0 DEF ThreadFinalizeLock, Goto
<1>2. \A u : Registered(u)' <=> Registered(u)
  BY <1>1 DEF Registered
<1>3. ASSUME NEW u \in Threads, Holds(t, u)'
      PROVE  Collecting(t)' /\ lock'[u].count = 1
  <2>1. lock'[u] = IF u = target[t] THEN Unlocked(lock[u], t) ELSE lock[u]
    BY <1>0, <1>1 DEF Exited
  <2>2. Holds(t, u)
    BY <1>0, <1>2, <1>3, <2>1 DEF Holds, Unlocked, Free
  <2>3. lock[u].count = 1 /\ lock[u].owner = t /\ Collecting(t)
    BY <1>0, <1>1, <2>2 DEF OwnerBusy, Busy, Holds
  <2>4. lock'[u].owner = t
    BY <1>3 DEF Holds
  <2> QED BY <1>0, <1>1, <2>1, <2>3, <2>4 DEF Unlocked, Free, Collecting
<1> QED BY <1>1, <1>3 DEF ThreadLocks, OwnerBusy, TakesOnce, TakesAll, GivesAll, Busy

\* The walk that takes the locks begins with everybody ahead of it.
LEMMA GlobalEnterKept ==
  ASSUME LocksInv, NEW t \in Threads, GlobalEnter(t)
  PROVE  ThreadLocks(t)'
<1> USE DEF LocksInv
<1>1. /\ pc[t] = "global" /\ pc'[t] = "enter" /\ UNCHANGED <<lock, slots>>
      /\ walk'[t] = Len(slots) /\ world' = {u \in Threads : Registered(u)}
  BY DEF GlobalEnter, Goto, GateInv, TypeOK
<1>2. \A u \in Threads : ~Holds(t, u)'
  BY <1>1, OwnsNothing DEF Holds, Registered, Busy
<1>3. ASSUME NEW u \in world' PROVE Ahead(t, u)'
  <2>1. \E k : SlotAt(k, u)
    BY <1>1, <1>3, RegisteredIsAt DEF GateInv, TypeOK
  <2> QED BY <1>1, <2>1 DEF Ahead, SlotAt, HasAt
<1> QED BY <1>1, <1>2, <1>3
        DEF ThreadLocks, OwnerBusy, TakesOnce, TakesAll, GivesAll, Busy, Waited

\* It reads one slot: who was there is no longer ahead, it is waited for.
LEMMA EnterReadKept ==
  ASSUME LocksInv, NEW t \in Threads, EnterRead(t)
  PROVE  ThreadLocks(t)'
<1> USE DEF LocksInv
<1> DEFINE w == Visited(t)
<1>0. /\ None \notin Threads /\ walk[t] \in Nat /\ walk[t] <= Len(slots) /\ Len(slots) \in Nat
      /\ OwnerBusy(t) /\ TakesOnce(t) /\ TakesAll(t) /\ w \in Threads \cup {None}
      /\ world \subseteq Threads
  BY VisitedType, ThreadAssumption
     DEF GateInv, TypeOK, LockInv, ThreadLocks, WalkInTable, EnterRead
<1>1. /\ pc[t] = "enter" /\ walk[t] > 0 /\ walk'[t] = walk[t] - 1 /\ target'[t] = w
      /\ pc'[t] = IF w = None THEN "enter" ELSE "enterLock"
      /\ UNCHANGED <<lock, slots, cont, world>>
  BY DEF EnterRead, GateInv, TypeOK
<1>2. SlotAt(walk[t], w)
  BY <1>0, <1>1 DEF SlotAt, HasAt, Visited
<1> HIDE DEF w
<1>3. \A u : Registered(u)' <=> Registered(u)
  BY <1>1 DEF Registered
<1>4. \A u \in Threads : Holds(t, u)' <=> Holds(t, u)
  BY <1>1 DEF Holds, Registered
<1>5. \A k, u : SlotAt(k, u)' <=> SlotAt(k, u)
  BY <1>1 DEF SlotAt
<1>6. ASSUME NEW u \in Threads
      PROVE  /\ Ahead(t, u)' => Ahead(t, u) /\ u # w
             /\ Ahead(t, u) /\ u # w => Ahead(t, u)'
  <2>1. \A k : SlotAt(k, u) /\ SlotAt(k, w) => u = w
    BY DEF SlotAt, HasAt
  <2>2. \A k : SlotAt(k, u) /\ u = w => k = walk[t]
    BY <1>0, <1>2, <1>6 DEF TableInv, OneSlotEach, SlotAt
  <2>3. ASSUME Ahead(t, u)' PROVE Ahead(t, u) /\ u # w
    <3>1. PICK k \in 1 .. walk[t] - 1 : SlotAt(k, u)
      BY <1>1, <2>3 DEF Ahead, SlotAt
    <3>2. k \in 1 .. walk[t] /\ k # walk[t]
      BY <1>0, <3>1
    <3> QED BY <2>2, <3>1, <3>2 DEF Ahead
  <2>4. ASSUME Ahead(t, u), u # w PROVE Ahead(t, u)'
    <3>1. PICK k \in 1 .. walk[t] : SlotAt(k, u)
      BY <2>4 DEF Ahead
    <3>2. k \in 1 .. walk[t] - 1
      BY <1>0, <1>1, <1>2, <2>1, <2>4, <3>1
    <3> QED BY <1>1, <3>1, <3>2 DEF Ahead, SlotAt
  <2> QED BY <2>3, <2>4
<1>7. OwnerBusy(t)'
  BY <1>0, <1>1, <1>4 DEF OwnerBusy, Busy, Collecting
<1>8. w \in Threads => Ahead(t, w) /\ Registered(w)
  <2>1. w \in Threads => Ahead(t, w)
    <3>1. walk[t] \in 1 .. walk[t]
      BY <1>0, <1>1
    <3> QED BY <1>2, <3>1 DEF Ahead
  <2> QED BY <1>2, <2>1, RegisteredIsAt DEF GateInv, TypeOK
<1>9. TakesOnce(t)'
  <2>1. w \in Threads => ~Holds(t, w)
    BY <1>0, <1>1, <1>8 DEF TakesOnce
  <2>2. ASSUME w # None
        PROVE  /\ target'[t] \in Threads
               /\ Registered(target[t])' /\ ~Holds(t, target[t])'
    BY <1>0, <1>1, <1>8, <2>1, <2>2 DEF Registered, Holds
  <2>3. \A u \in Threads : Holds(t, u)' \/ Waited(t, u)' => ~Ahead(t, u)'
    BY <1>0, <1>1, <1>4, <1>6 DEF TakesOnce, Waited
  <2> QED BY <1>1, <2>2, <2>3 DEF TakesOnce
<1>10. TakesAll(t)'
  <2> SUFFICES ASSUME NEW u \in world', Registered(u)'
               PROVE  Holds(t, u)' \/ Waited(t, u)' \/ Ahead(t, u)'
    BY <1>1 DEF TakesAll
  <2>1. u \in Threads /\ (Holds(t, u) \/ Ahead(t, u))
    BY <1>0, <1>1, <1>3 DEF TakesAll, Waited
  <2>2. CASE u = w
    BY <1>0, <1>1, <2>1, <2>2 DEF Waited
  <2>3. CASE u # w
    BY <1>4, <1>6, <2>1, <2>3
  <2> QED BY <2>2, <2>3
<1> QED BY <1>1, <1>7, <1>9, <1>10 DEF ThreadLocks, GivesAll, Busy

\* It locks whom it waited for.
LEMMA EnterLockKept ==
  ASSUME LocksInv, NEW t \in Threads, EnterLock(t)
  PROVE  ThreadLocks(t)'
<1> USE DEF LocksInv
<1> DEFINE w == target[t]
<1>0. /\ None \notin Threads /\ lock \in [Threads -> Lock]
      /\ OwnerBusy(t) /\ TakesOnce(t) /\ TakesAll(t) /\ world \subseteq Threads
      /\ Collecting(t)
  BY ThreadAssumption
     DEF GateInv, TypeOK, LockInv, ThreadLocks, EnterLock, Goto, CollectorAtWork, CollectPc
<1>1. /\ pc[t] = "enterLock" /\ pc'[t] = "enter" /\ walk' = walk
      /\ lock' = Entered(w, t) /\ lock[w].owner \in {None, t}
      /\ UNCHANGED <<slots, cont, world>>
  BY DEF EnterLock, Goto, Available, GateInv, TypeOK
<1>2. w \in Threads /\ Waited(t, w) /\ ~Holds(t, w)
  BY <1>0, <1>1 DEF TakesOnce, Waited
<1>3. \A u \in Threads : Waited(t, u) => u = w
  BY DEF Waited
<1> HIDE DEF w
<1>4. \A u : Registered(u)' <=> Registered(u)
  BY <1>1 DEF Registered
<1>5. lock'[w] = [owner |-> t, count |-> lock[w].count + 1]
      /\ \A u \in Threads \ {w} : lock'[u] = lock[u]
  BY <1>0, <1>1, <1>2 DEF Entered
<1>6. Registered(w) => lock'[w].count = 1
  BY <1>1, <1>2, <1>5 DEF Holds, LockInv
<1>7. \A u \in Threads : Holds(t, u)' <=> Holds(t, u) \/ (Registered(u) /\ u = w)
  BY <1>4, <1>5 DEF Holds
<1>8. \A u \in Threads : Ahead(t, u)' <=> Ahead(t, u)
  BY <1>1 DEF Ahead, SlotAt
<1>9. OwnerBusy(t)'
  <2> SUFFICES ASSUME NEW u \in Threads, Holds(t, u)' PROVE lock'[u].count = 1
    BY <1>0, <1>1 DEF OwnerBusy, Busy, Collecting
  <2>1. CASE u = w
    BY <1>4, <1>6, <2>1 DEF Holds
  <2>2. CASE u # w
    BY <1>0, <1>1, <1>5, <1>7, <2>2 DEF OwnerBusy, Busy
  <2> QED BY <2>1, <2>2
<1>10. TakesOnce(t)'
  BY <1>0, <1>1, <1>2, <1>7, <1>8 DEF TakesOnce, Waited
<1>11. TakesAll(t)'
  BY <1>0, <1>1, <1>3, <1>4, <1>7, <1>8 DEF TakesAll
<1> QED BY <1>1, <1>9, <1>10, <1>11 DEF ThreadLocks, GivesAll, Busy

\* The exit walk frees the lock of the thread its slot names.
LEMMA ExitSlotKept ==
  ASSUME LocksInv, NEW t \in Threads, ExitSlot(t)
  PROVE  ThreadLocks(t)'
<1> USE DEF LocksInv
<1> DEFINE w == Visited(t)
<1>0. /\ None \notin Threads /\ walk[t] \in Nat /\ walk[t] <= Len(slots) /\ Len(slots) \in Nat
      /\ lock \in [Threads -> Lock]
      /\ OwnerBusy(t) /\ GivesAll(t)
  BY ThreadAssumption DEF GateInv, TypeOK, LockInv, ThreadLocks, WalkInTable
<1>1. /\ pc[t] = "exit" /\ pc'[t] = "exit" /\ walk[t] > 0 /\ walk'[t] = walk[t] - 1
      /\ lock' = IF w = None THEN lock ELSE Exited(w, t)
      /\ UNCHANGED <<slots, cont>>
  BY DEF ExitSlot, threadVars, GateInv, TypeOK
<1>2. SlotAt(walk[t], w)
  BY <1>0, <1>1 DEF SlotAt, HasAt, Visited
<1> HIDE DEF w
<1>3. \A u : Registered(u)' <=> Registered(u)
  BY <1>1 DEF Registered
<1>4. ASSUME NEW u \in Threads, Holds(t, u)'
      PROVE  Holds(t, u) /\ lock[u].count = 1 /\ u # w /\ lock'[u] = lock[u] /\ Collecting(t)
  <2>1. lock'[u] = IF u = w THEN Unlocked(lock[u], t) ELSE lock[u]
    BY <1>0, <1>1 DEF Exited
  <2>2. Holds(t, u)
    BY <1>0, <1>3, <1>4, <2>1 DEF Holds, Unlocked, Free
  <2>3. lock[u].count = 1 /\ lock[u].owner = t /\ Collecting(t)
    BY <1>0, <1>1, <2>2 DEF OwnerBusy, Busy, Holds
  <2>4. lock'[u].owner = t
    BY <1>4 DEF Holds
  <2> QED BY <1>0, <2>1, <2>2, <2>3, <2>4 DEF Unlocked, Free
<1>5. ASSUME NEW u \in Threads, Holds(t, u)'
      PROVE  Ahead(t, u)'
  <2>1. PICK k \in 1 .. walk[t] : SlotAt(k, u)
    BY <1>0, <1>1, <1>4, <1>5 DEF GivesAll, Ahead
  <2>2. k # walk[t]
    BY <1>2, <1>4, <1>5, <2>1 DEF SlotAt, HasAt
  <2>3. k \in 1 .. walk[t] - 1
    BY <1>0, <2>2
  <2> QED BY <1>1, <2>1, <2>3 DEF Ahead, SlotAt
<1> QED BY <1>1, <1>4, <1>5
        DEF ThreadLocks, OwnerBusy, TakesOnce, TakesAll, GivesAll, Busy, Collecting

\* The exit walk begins with everybody ahead of it.
LEMMA SweepDoneKept ==
  ASSUME LocksInv, NEW t \in Threads, SweepDone(t)
  PROVE  ThreadLocks(t)'
<1> USE DEF LocksInv
<1>1. /\ pc[t] = "sweep" /\ pc'[t] = "exit" /\ UNCHANGED <<lock, slots, cont>>
      /\ walk'[t] = Len(slots)
  BY DEF SweepDone, Goto, GateInv, TypeOK
<1>2. \A u \in Threads : Holds(t, u)' <=> Holds(t, u)
  BY <1>1 DEF Holds, Registered
<1>3. ASSUME NEW u \in Threads, Holds(t, u) PROVE Ahead(t, u)'
  <2>1. \E k : SlotAt(k, u)
    BY <1>3, RegisteredIsAt DEF GateInv, TypeOK, Holds
  <2> QED BY <1>1, <2>1 DEF Ahead, SlotAt, HasAt
<1>4. OwnerBusy(t)'
  BY <1>1, <1>2 DEF LockInv, ThreadLocks, OwnerBusy, Busy, Collecting
<1> QED BY <1>1, <1>2, <1>3, <1>4 DEF ThreadLocks, TakesOnce, TakesAll, GivesAll, Busy

\* When no slot is left to visit, everybody registered in the world is locked.
LEMMA EnterDoneKept ==
  ASSUME LocksInv, NEW t \in Threads, EnterDone(t)
  PROVE  ThreadLocks(t)'
<1> USE DEF LocksInv
<1>1. /\ pc[t] = "enter" /\ pc'[t] = "mark" /\ walk[t] = 0
      /\ UNCHANGED <<lock, slots, cont, world>>
  BY DEF EnterDone, Goto, GateInv, TypeOK, gateVars
<1>2. \A u \in Threads : Holds(t, u)' <=> Holds(t, u)
  BY <1>1 DEF Holds, Registered
<1>3. \A u : Registered(u)' <=> Registered(u)
  BY <1>1 DEF Registered
<1>4. \A u \in Threads : ~Ahead(t, u)
  BY <1>1 DEF Ahead
<1>5. world \subseteq Threads /\ OwnerBusy(t) /\ TakesAll(t)
  BY DEF GateInv, TypeOK, LockInv, ThreadLocks
<1>6. OwnerBusy(t)'
  BY <1>1, <1>2, <1>5 DEF OwnerBusy, Busy, Collecting
<1>7. TakesAll(t)'
  BY <1>1, <1>2, <1>3, <1>4, <1>5 DEF TakesAll, Waited
<1> QED BY <1>1, <1>6, <1>7 DEF ThreadLocks, TakesOnce, GivesAll, Busy

\* When the exit walk is over nothing is locked, and from there the collection
\* runs out without locking anything.
LEMMA CollectionEndKept ==
  ASSUME LocksInv, NEW t \in Threads, ThreadNext(t),
         ExitDone(t) \/ GlobalExit(t) \/ CollectEnd(t)
  PROVE  ThreadLocks(t)'
<1> USE DEF LocksInv
<1>1. /\ lock' = lock
      /\ pc'[t] \in {"globalExit", "leave", "none", "managed", "unlinking"}
      /\ pc[t] \in {"exit", "globalExit", "leave"}
      /\ pc[t] = "exit" => walk[t] = 0
  BY DEF ExitDone, GlobalExit, CollectEnd, Goto, gateVars, GateInv, TypeOK
<1>2. \A u \in Threads : ~Holds(t, u)
  <2>1. CASE pc[t] = "exit"
    BY <1>1, <2>1 DEF LockInv, ThreadLocks, GivesAll, Ahead
  <2>2. CASE pc[t] # "exit"
    BY <1>1, <2>2, OwnsNothing DEF Busy
  <2> QED BY <2>1, <2>2
<1> QED BY <1>1, <1>2, NothingLockedKept

\* A collection begins with nothing locked; a call that is turned away changes
\* nothing here.
LEMMA CollectBeginKept ==
  ASSUME LocksInv, NEW t \in Threads, ThreadNext(t),
         NEW to \in {"managed", "unlinking"}, CollectBegin(t, to)
  PROVE  ThreadLocks(t)'
<1> USE DEF LocksInv
<1>1. lock' = lock /\ pc[t] = "managed" /\ executing' = executing + 1 /\ executing \in Nat
      /\ pc \in [Threads -> Pc] /\ ~Busy(t)
  BY DEF CollectBegin, GateInv, TypeOK, Busy
<1>2. CASE TurnedAway(executing')
  <2>1. pc'[t] \in SkipPc /\ cont' = cont
    BY <1>1, <1>2 DEF CollectBegin, SkipPc
  <2> QED BY <1>1, <2>1, QuietStepKept DEF SkipPc
<1>3. CASE ~TurnedAway(executing')
  <2>1. executing = 0 /\ pc'[t] = "global"
    BY <1>1, <1>3 DEF CollectBegin, TurnedAway
  <2>2. ~Collecting(t)
    BY <2>1, NobodyCounted DEF GateInv
  <2> QED BY <1>1, <2>1, <2>2, OwnsNothing, NothingLockedKept
<1> QED BY <1>2, <1>3

\* What the thread that steps has locked, one case per kind of step.
LEMMA OwnKept ==
  ASSUME LocksInv, NEW t \in Threads, ThreadNext(t)
  PROVE  ThreadLocks(t)'
<1>0. pc \in [Threads -> Pc] /\ (pc[t] = "create" => target[t] # t)
  BY DEF LocksInv, GateInv, TypeOK, StartsUnborn
<1>1. CASE \/ Link(t) \/ Create(t) \/ Publish(t) \/ Spin(t) \/ UnregisterSelf(t)
           \/ Throw(t) \/ Skip(t) \/ Mark(t) \/ FinalizerCall(t) \/ FinalizerReturn(t)
           \/ \E u \in Threads : Start(t, u) \/ ThreadFinalize(t, u)
  <2>1. /\ lock' = lock /\ cont' = cont
        /\ pc[t] \notin {"linked", "unlinked"}
        /\ pc'[t] \in {"linking", "publish", "managed", "dead", "unlinking", "sweep",
                       "create", "finLock"}
    BY <1>0, <1>1 DEF Link, Create, Publish, Spin, UnregisterSelf, Throw, Skip, Mark,
         FinalizerCall, FinalizerReturn, Start, ThreadFinalize, Goto, gateVars, SkipPc
  <2> QED BY <2>1, QuietStepKept DEF Busy
<1>2. CASE LinkLock(t) \/ UnlinkLock(t)
  BY <1>2, FrameLockKept
<1>3. CASE LinkPush(t) \/ UnlinkPop(t)
  BY <1>3, FrameUnlockKept
<1>4. CASE ThreadFinalizeLock(t)
  BY <1>4, FinalizeLockKept
<1>5. CASE GlobalEnter(t) \/ EnterRead(t) \/ EnterLock(t) \/ EnterDone(t)
  BY <1>5, GlobalEnterKept, EnterReadKept, EnterLockKept, EnterDoneKept
<1>6. CASE SweepDone(t) \/ ExitSlot(t)
  BY <1>6, SweepDoneKept, ExitSlotKept
<1>7. CASE ExitDone(t) \/ GlobalExit(t) \/ CollectEnd(t)
  BY <1>7, CollectionEndKept
<1>8. CASE \E to \in {"managed", "unlinking"} : CollectBegin(t, to)
  BY <1>8, CollectBeginKept
<1> QED BY <1>1, <1>2, <1>3, <1>4, <1>5, <1>6, <1>7, <1>8 DEF ThreadNext

\* A lock nobody owns counts nothing, and nobody locks a stranger.
LEMMA UnownedKept ==
  ASSUME LocksInv, NEW t \in Threads, ThreadNext(t), NEW u \in Threads
  PROVE  /\ lock'[u].owner = None => lock'[u].count = 0
         /\ ~Registered(u)' /\ pc'[u] # "dead" => lock'[u].owner = None
<1> USE DEF LocksInv
<1>0. /\ lock \in [Threads -> Lock] /\ None \notin Threads
      /\ lock[u].owner = None => lock[u].count = 0
      /\ ~Registered(u) /\ pc[u] # "dead" => lock[u].owner = None
  BY ThreadAssumption DEF GateInv, TypeOK, LockInv
<1>1. \/ lock'[u] = lock[u] \/ lock'[u] = Unlocked(lock[u], t)
      \/ /\ lock'[u] = [owner |-> t, count |-> lock[u].count + 1]
         /\ Registered(u) \/ pc[u] = "dead"
  <2>1. CASE lock' = lock \/ \E w : lock' = Exited(w, t)
    BY <1>0, <2>1 DEF Exited
  <2>2. CASE LinkLock(t) \/ UnlinkLock(t)
    <3>1. Registered(t)
      BY PcSteps DEF TableInv
    <3> QED BY <1>0, <2>2, <3>1 DEF LinkLock, UnlinkLock, Entered
  <2>3. CASE EnterLock(t)
    <3>1. Registered(target[t]) \/ pc[target[t]] = "dead"
      BY <2>3 DEF EnterLock, Goto, LockInv, ThreadLocks, TakesOnce
    <3>2. CASE u = target[t]
      BY <1>0, <2>3, <3>1, <3>2 DEF EnterLock, Entered
    <3>3. CASE u # target[t]
      BY <1>0, <2>3, <3>3 DEF EnterLock, Entered
    <3> QED BY <3>2, <3>3
  <2>4. \/ lock' = lock \/ \E w : lock' = Exited(w, t)
        \/ LinkLock(t) \/ UnlinkLock(t) \/ EnterLock(t)
    BY DEF ThreadNext, gateVars, threadVars,
           Link, LinkPush, UnlinkPop, Throw, Start, Create,
           Publish, Spin, UnregisterSelf, CollectBegin, Skip, GlobalEnter,
           EnterRead, EnterDone, Mark, FinalizerCall, FinalizerReturn,
           ThreadFinalize, ThreadFinalizeLock, SweepDone, ExitSlot, ExitDone,
           GlobalExit, CollectEnd
  <2> QED BY <2>1, <2>2, <2>3, <2>4
<1>2. lock'[u].owner = None => lock'[u].count = 0
  BY <1>0, <1>1 DEF Unlocked, Free
<1>3. ~Registered(u)' /\ pc'[u] # "dead" => ~Registered(u) /\ pc[u] # "dead"
  BY TableEffects, PcSteps
<1>4. ~Registered(u)' /\ pc'[u] # "dead" => lock'[u].owner = None
  BY <1>0, <1>1, <1>3 DEF Unlocked, Free
<1> QED BY <1>2, <1>4

\* In the beginning no lock is owned.
LEMMA InitLocks == Init => LockInv
BY ThreadAssumption DEF Init, LockInv, ThreadLocks, OwnerBusy, TakesOnce, TakesAll,
   GivesAll, Holds, Waited, Busy, Free

\* Every step, and every stutter, keeps the invariant.
LEMMA NextLocksInv == LocksInv /\ [Next]_vars => LocksInv'
<1> SUFFICES ASSUME LocksInv, [Next]_vars PROVE LocksInv'
  OBVIOUS
<1>1. GateInv'
  BY NextGateInv DEF LocksInv
<1>2. ASSUME NEW t \in Threads, ThreadNext(t) PROVE TableInv' /\ LockInv'
  <2>1. TableInv'
    BY <1>2, TableKept DEF LocksInv
  <2>2. \A v \in Threads : ThreadLocks(v)'
    BY <1>2, OwnKept, OthersKept
  <2>3. LockInv'
    BY <1>2, <2>2, UnownedKept DEF LockInv
  <2> QED BY <2>1, <2>3
<1>3. CASE UNCHANGED vars
  <2>1. UNCHANGED <<lock, slots, pc, cont, target, walk, world>>
    BY <1>3 DEF vars
  <2>2. TableInv'
    BY <2>1 DEF LocksInv, TableInv, Registered
  <2>3. \A t, u : /\ Holds(t, u)' <=> Holds(t, u)
                  /\ Ahead(t, u)' <=> Ahead(t, u)
                  /\ Waited(t, u)' <=> Waited(t, u)
    BY <2>1 DEF Holds, Ahead, Waited, Registered, SlotAt
  <2>4. \A t \in Threads : ThreadLocks(t)'
    BY <2>1, <2>3 DEF LocksInv, LockInv, ThreadLocks, OwnerBusy, TakesOnce, TakesAll,
       GivesAll, Busy, Registered, Collecting, Holds, Waited, Ahead, SlotAt
  <2>5. LockInv'
    BY <2>1, <2>4 DEF LocksInv, LockInv, Registered
  <2> QED BY <1>1, <2>2, <2>5 DEF LocksInv
<1> QED BY <1>1, <1>2, <1>3 DEF Next, LocksInv
-----------------------------------------------------------------------------
\* The inductive invariant of the locks holds throughout every behaviour.
THEOREM LocksInvariant == Spec => []LocksInv
<1>1. Init => LocksInv
  BY InitGateInv, InitTable, InitLocks DEF LocksInv
<1>2. LocksInv /\ [Next]_vars => LocksInv'
  BY NextLocksInv
<1> QED BY <1>1, <1>2, PTL DEF Spec

\* No collection leaves a registered thread locked out: its lockForCollect is
\* owned by the one collector, until its exit walk comes by, or by the thread
\* itself while it changes its frames (il2c_gc.c:439-493).
THEOREM NobodyLockedOut == Spec => []LocksGivenBack
<1>1. LocksInv => LocksGivenBack
  BY DEF LocksInv, LockInv, ThreadLocks, OwnerBusy, LocksGivenBack, Holds, Busy
<1> QED BY <1>1, LocksInvariant, PTL

\* While the collector marks, a thread that was registered when it began is outside
\* the two places where frames are linked and unlinked under the thread's lock.
OutsideLinking ==
  \A t \in Threads : pc[t] = "mark" => \A u \in world \ {t} : ~Busy(u)

\* Frames change under their thread's lock, or by a throw.
LEMMA FrameSteps ==
  ASSUME GateInv, NEW t \in Threads, ThreadNext(t), NEW u \in Threads
  PROVE  frames[u]' = frames[u] \/ Busy(u) \/ Throw(u)
<1> frames \in [Threads -> Nat]
  BY DEF GateInv, TypeOK
<1>1. CASE LinkPush(t) \/ UnlinkPop(t)
  <2>1. Busy(t)
    BY <1>1 DEF LinkPush, UnlinkPop, Goto, Busy
  <2>2. u # t => frames[u]' = frames[u]
    BY <1>1 DEF LinkPush, UnlinkPop
  <2> QED BY <2>1, <2>2
<1>2. CASE Throw(t)
  <2>1. u # t => frames[u]' = frames[u]
    BY <1>2 DEF Throw
  <2> QED BY <1>2, <2>1
<1>3. CASE ~LinkPush(t) /\ ~UnlinkPop(t) /\ ~Throw(t)
  <2>1. frames' = frames
    BY <1>3 DEF ThreadNext, gateVars, threadVars,
       Link, LinkLock, UnlinkLock, Start, Create,
       Publish, Spin, UnregisterSelf, CollectBegin, Skip, GlobalEnter,
       EnterRead, EnterLock, EnterDone, Mark, FinalizerCall, FinalizerReturn,
       ThreadFinalize, ThreadFinalizeLock, SweepDone, ExitSlot, ExitDone,
       GlobalExit, CollectEnd
  <2> QED BY <2>1
<1> QED BY <1>1, <1>2, <1>3

\* While the collector marks, it owns the lock of every thread that was
\* registered when it began and still is; a thread that links or unlinks a frame
\* owns its own.  So no call and no return changes a chain that is being read
\* (il2c_allocator.c:181-194 and 219-225); a throw, which takes no lock, does
\* (il2c_exception.c:55).
THEOREM MarkingStopsCalls == Spec => FramesChangeByThrowOnly
<1>1. LocksInv => OutsideLinking
  <2> SUFFICES ASSUME LocksInv, NEW t \in Threads, pc[t] = "mark", NEW u \in world \ {t},
                      Busy(u)
               PROVE  FALSE
    BY DEF OutsideLinking
  <2>1. u \in Threads /\ lock[u].owner = u
    BY DEF LocksInv, GateInv, TypeOK, LockInv, ThreadLocks
  <2>2. Registered(u)
    BY <2>1 DEF LocksInv, TableInv, Busy
  <2>3. lock[u].owner = t
    BY <2>2 DEF LocksInv, LockInv, ThreadLocks, TakesAll, Holds
  <2> QED BY <2>1, <2>3
<1>2. ASSUME LocksInv, [Next]_vars
      PROVE  [\A t, u \in Threads :
               pc[t] = "mark" /\ u \in world \ {t} => UNCHANGED frames[u] \/ Throw(u)]_vars
  <2>1. CASE UNCHANGED vars
    BY <2>1
  <2>2. ASSUME NEW s \in Threads, ThreadNext(s), NEW t \in Threads, NEW u \in Threads,
               pc[t] = "mark", u \in world \ {t}
        PROVE  UNCHANGED frames[u] \/ Throw(u)
    BY <1>1, <1>2, <2>2, FrameSteps DEF OutsideLinking, LocksInv
  <2> QED BY <1>2, <2>1, <2>2 DEF Next
<1> QED BY <1>2, LocksInvariant, PTL DEF Spec, FramesChangeByThrowOnly
=============================================================================
