---------------------------- MODULE MCThreadsProofs ----------------------------
(***************************************************************************)
(* The properties of MCThreads, from what is proved about its components:  *)
(* a behaviour of MCThreads never leaves the part it begins in, and there  *)
(* it is one of that component.  Threads and objects may be any.           *)
(* Delegates has its invariant here, at the end.                           *)
(***************************************************************************)
EXTENDS MCThreads, FiniteSets, SequenceTheorems, WellFoundedInduction, NaturalsInduction, TLAPS

HolesP == INSTANCE MonitorTableProofs
  WITH Threads <- Others, Null <- None, Reclaimed <- Objects, Slots <- 2, MaxBlocks <- 1,
       MaxDepth <- 2, lock <- mutex, pc <- step
SmallP == INSTANCE MonitorTableProofs
  WITH Threads <- Others, Null <- None, Objects <- Objects \cup {Reborn}, Reclaimed <- {Reborn},
       Slots <- 1, MaxBlocks <- 2, MaxDepth <- 1, lock <- mutex, pc <- step
HeapP == INSTANCE SharedHeapProofs WITH Threads <- Others, Headers <- Objects, Null <- None
RegistryP == INSTANCE RootRegistryProofs
  WITH Threads <- Others, Null <- None, BlockSize <- 2, MaxSlots <- 6,
       slots <- fixed, handle <- owned, at <- stage, walk <- visits, marked <- reached

ThreadsConstants ==
  /\ None \notin Threads \cup Objects /\ "begin" \notin Objects
  /\ Reborn # None

AllVars == <<part, vars, monitorVars, heapVars, registryVars, eventVars>>

\* What the components ask of their constants.
LEMMA ConstantsFit ==
  ThreadsConstants =>
    /\ HolesP!Sizes /\ SmallP!Sizes /\ SmallP!OneReclaimed
    /\ HeapP!HeapConstants /\ RegistryP!RegistryConstants
BY DEF ThreadsConstants, HolesP!Sizes, SmallP!Sizes, SmallP!OneReclaimed, HeapP!HeapConstants,
  RegistryP!RegistryConstants, Others

\* A behaviour stays in its part.
LEMMA PartStays == [ThreadsNext]_AllVars => part' = part
BY DEF ThreadsNext, AllVars

\* What part "heap" does, SharedHeap does.
LEMMA HeapPart ==
  /\ part = "heap" /\ ThreadsInit => HeapP!Init
  /\ part = "heap" /\ [ThreadsNext]_AllVars => [HeapP!Next]_(HeapP!vars)
<1>1. part = "heap" /\ ThreadsInit => HeapP!Init
  BY DEF ThreadsInit, Heap!Init, HeapP!Init
<1>2. ASSUME NEW t \in Others, Heap!Allocate(t) PROVE HeapP!Allocate(t)
  BY <1>2
  DEF Heap!Allocate, Heap!Keep, Heap!New, Heap!Malloc, Heap!ReadHead, Heap!Link, Heap!ReadIndex,
      Heap!SetMark, Heap!SetAnchor, Heap!Initialize, Heap!Return, Heap!At, Heap!Same,
      Heap!heapVars, Heap!refVars, Heap!threadVars, Heap!sweepVars,
      HeapP!Allocate, HeapP!Keep, HeapP!New, HeapP!Malloc, HeapP!ReadHead, HeapP!Link,
      HeapP!ReadIndex, HeapP!SetMark, HeapP!SetAnchor, HeapP!Initialize, HeapP!Return, HeapP!At,
      HeapP!Same, HeapP!heapVars, HeapP!refVars, HeapP!threadVars, HeapP!sweepVars
<1>3. ASSUME NEW c \in Others, Heap!Collect(c) PROVE HeapP!Collect(c)
  <2>1. Heap!Invert(c) => HeapP!Invert(c)
    BY DEF Heap!Invert, HeapP!Invert, Heap!SetToSeqs, Heap!FlattenSeq, HeapP!SetToSeqs,
      HeapP!FlattenSeq, Heap!Cardinality, HeapP!Cardinality,
      Heap!At, Heap!Garbage, Heap!heapVars, Heap!refVars, Heap!threadVars, Heap!sweepVars,
      HeapP!At, HeapP!Garbage, HeapP!heapVars, HeapP!refVars, HeapP!threadVars, HeapP!sweepVars
  <2>2. Heap!MarkRoot(c) => HeapP!MarkRoot(c)
    BY DEF Heap!MarkRoot, HeapP!MarkRoot,
      Heap!At, Heap!Garbage, Heap!heapVars, Heap!refVars, Heap!threadVars, Heap!sweepVars,
      HeapP!At, HeapP!Garbage, HeapP!heapVars, HeapP!refVars, HeapP!threadVars, HeapP!sweepVars
  <2>3. Heap!BeginSweep(c) => HeapP!BeginSweep(c)
    BY DEF Heap!BeginSweep, HeapP!BeginSweep,
      Heap!At, Heap!Garbage, Heap!heapVars, Heap!refVars, Heap!threadVars, Heap!sweepVars,
      HeapP!At, HeapP!Garbage, HeapP!heapVars, HeapP!refVars, HeapP!threadVars, HeapP!sweepVars
  <2>4. Heap!SweepKeep(c) => HeapP!SweepKeep(c)
    BY DEF Heap!SweepKeep, HeapP!SweepKeep,
      Heap!At, Heap!Garbage, Heap!heapVars, Heap!refVars, Heap!threadVars, Heap!sweepVars,
      HeapP!At, HeapP!Garbage, HeapP!heapVars, HeapP!refVars, HeapP!threadVars, HeapP!sweepVars
  <2>5. Heap!SweepUnlink(c) => HeapP!SweepUnlink(c)
    BY DEF Heap!SweepUnlink, HeapP!SweepUnlink,
      Heap!At, Heap!Garbage, Heap!heapVars, Heap!refVars, Heap!threadVars, Heap!sweepVars,
      HeapP!At, HeapP!Garbage, HeapP!heapVars, HeapP!refVars, HeapP!threadVars, HeapP!sweepVars
  <2>6. Heap!SweepFree(c) => HeapP!SweepFree(c)
    BY DEF Heap!SweepFree, HeapP!SweepFree,
      Heap!At, Heap!Garbage, Heap!heapVars, Heap!refVars, Heap!threadVars, Heap!sweepVars,
      HeapP!At, HeapP!Garbage, HeapP!heapVars, HeapP!refVars, HeapP!threadVars, HeapP!sweepVars
  <2>7. Heap!EndCollection(c) => HeapP!EndCollection(c)
    BY DEF Heap!EndCollection, HeapP!EndCollection,
      Heap!At, Heap!Garbage, Heap!heapVars, Heap!refVars, Heap!threadVars, Heap!sweepVars,
      HeapP!At, HeapP!Garbage, HeapP!heapVars, HeapP!refVars, HeapP!threadVars, HeapP!sweepVars
  <2> QED BY <1>3, <2>1, <2>2, <2>3, <2>4, <2>5, <2>6, <2>7 DEF Heap!Collect, HeapP!Collect
<1>4. Heap!Next => HeapP!Next
  BY <1>2, <1>3 DEF Heap!Next, HeapP!Next
<1>5. part = "heap" /\ [ThreadsNext]_AllVars => Heap!Next \/ UNCHANGED heapVars
  BY DEF ThreadsNext, AllVars
<1> QED BY <1>1, <1>4, <1>5 DEF heapVars, HeapP!vars

\* The list of headers of any threads and objects ends, without a header that was
\* given back or discarded, in the behaviours of MCThreads too (ListStaysSound).
THEOREM ThreadsListSound ==
  ASSUME ThreadsConstants PROVE ThreadsSpec => []ListSound
<1>1. part = "heap" /\ ThreadsInit => HeapP!Init
  BY HeapPart
<1>2. part = "heap" /\ [ThreadsNext]_AllVars => [HeapP!Next]_(HeapP!vars)
  BY HeapPart
<1>3. HeapP!Spec => []HeapP!ListSound
  BY ConstantsFit, HeapP!ListStaysSound
<1>4. HeapP!ListSound => Heap!ListSound
  BY DEF HeapP!ListSound, HeapP!Listed, HeapP!Walk, Heap!ListSound, Heap!Listed, Heap!Walk,
        HeapP!ToSet, Heap!ToSet
<1>5. part = "heap" /\ [ThreadsNext]_AllVars => (part = "heap")'
  BY PartStays
<1>6. ~(part = "heap") /\ [ThreadsNext]_AllVars => (~(part = "heap"))'
  BY PartStays
<1>7. ~(part = "heap") => ListSound
  BY DEF ListSound
<1>8. Heap!ListSound => ListSound
  BY DEF ListSound
<1> QED
  BY <1>1, <1>2, <1>3, <1>4, <1>5, <1>6, <1>7, <1>8, PTL DEF ThreadsSpec, HeapP!Spec, AllVars
-----------------------------------------------------------------------------
\* What part "holes" does, MonitorTable does with a block of two slots.
LEMMA HolesPart ==
  /\ part = "holes" /\ ThreadsInit => HolesP!Init
  /\ part = "holes" /\ [ThreadsNext]_AllVars => [HolesP!Next]_(HolesP!vars)
<1>1. part = "holes" /\ ThreadsInit => HolesP!Init
  BY DEF ThreadsInit, Holes!Init, Holes!EmptyBlock, Holes!Mutexes, Holes!Positions, Holes!Beyond,
         Holes!Free, Holes!NoLock, HolesP!Init, HolesP!EmptyBlock, HolesP!Mutexes,
         HolesP!Positions, HolesP!Beyond, HolesP!Free, HolesP!NoLock
<1>2. ASSUME NEW t \in Others, Holes!ThreadNext(t) PROVE HolesP!ThreadNext(t)
  <2>1. \A what, o : Holes!Begin(t, what, o) => HolesP!Begin(t, what, o)
    BY DEF
      Holes!Begin, HolesP!Begin
  <2>2. \A p : Holes!LookupFound(t, p) => HolesP!LookupFound(t, p)
    BY DEF
      Holes!LookupFound, Holes!StopsAt, Holes!Stops, Holes!Return, HolesP!LookupFound,
      HolesP!StopsAt, HolesP!Stops, HolesP!Return
  <2>3. \A p : Holes!LookupAssign(t, p) => HolesP!LookupAssign(t, p)
    BY DEF
      Holes!LookupAssign, Holes!StopsAt, Holes!Stops, Holes!Return, Holes!Free,
      HolesP!LookupAssign, HolesP!StopsAt, HolesP!Stops, HolesP!Return, HolesP!Free
  <2>4. Holes!LookupExtend(t) => HolesP!LookupExtend(t)
    BY DEF
      Holes!LookupExtend, Holes!NowhereToStop, Holes!Stops, Holes!Blocks, Holes!EmptyBlock,
      Holes!Free, Holes!Beyond, Holes!Return, HolesP!LookupExtend, HolesP!NowhereToStop,
      HolesP!Stops, HolesP!Blocks, HolesP!EmptyBlock, HolesP!Free, HolesP!Beyond,
      HolesP!Return
  <2>5. Holes!LookupFails(t) => HolesP!LookupFails(t)
    BY DEF
      Holes!LookupFails, Holes!NowhereToStop, Holes!Stops, Holes!Return, Holes!NoLock,
      HolesP!LookupFails, HolesP!NowhereToStop, HolesP!Stops, HolesP!Return, HolesP!NoLock
  <2>6. Holes!Enter(t) => HolesP!Enter(t)
    BY DEF
      Holes!Enter, Holes!Available, Holes!Entered, Holes!Finish, HolesP!Enter,
      HolesP!Available, HolesP!Entered, HolesP!Finish
  <2>7. Holes!TryEnterFails(t) => HolesP!TryEnterFails(t)
    BY DEF
      Holes!TryEnterFails, Holes!Available, Holes!Finish, HolesP!TryEnterFails,
      HolesP!Available, HolesP!Finish
  <2>8. Holes!Exit(t) => HolesP!Exit(t)
    BY DEF
      Holes!Exit, Holes!Exited, Holes!Free, Holes!NoLock, Holes!Finish, HolesP!Exit,
      HolesP!Exited, HolesP!Free, HolesP!NoLock, HolesP!Finish
  <2> QED BY <1>2, <2>1, <2>2, <2>3, <2>4, <2>5, <2>6, <2>7, <2>8
      DEF Holes!ThreadNext, HolesP!ThreadNext
<1>3. ASSUME NEW o \in Objects, Holes!Reclaim(o) PROVE HolesP!Reclaim(o)
  BY <1>3 DEF Holes!Reclaim, Holes!Unused, Holes!Holders, Holes!Free, Holes!threadVars,
              HolesP!Reclaim, HolesP!Unused, HolesP!Holders, HolesP!Free, HolesP!threadVars
<1>4. Holes!Next => HolesP!Next
  BY <1>2, <1>3 DEF Holes!Next, HolesP!Next
<1>5. part = "holes" /\ [ThreadsNext]_AllVars => Holes!Next \/ UNCHANGED monitorVars
  BY DEF ThreadsNext, AllVars
<1> QED BY <1>1, <1>4, <1>5 DEF monitorVars, HolesP!vars

LEMMA HolesHold ==
  ASSUME ThreadsConstants
  PROVE  ThreadsSpec =>
           [](part = "holes" => Holes!TypeOK /\ Holes!MonitorExcludes /\ Holes!HolderOwnsItsLock)
<1>1. part = "holes" /\ ThreadsInit => HolesP!Init
  BY HolesPart
<1>2. part = "holes" /\ [ThreadsNext]_AllVars => [HolesP!Next]_(HolesP!vars)
  BY HolesPart
<1>3. HolesP!Spec => []HolesP!MonitorExcludes
  BY ConstantsFit, HolesP!MonitorsExclude
<1>4. HolesP!Spec => []HolesP!HolderOwnsItsLock
  BY ConstantsFit, HolesP!HoldersOwn
<1>5. HolesP!Spec => []HolesP!MonitorInv
  BY ConstantsFit, HolesP!MonitorInvariant
<1>6. HolesP!MonitorExcludes => Holes!MonitorExcludes
  BY DEF HolesP!MonitorExcludes, HolesP!Holders, Holes!MonitorExcludes, Holes!Holders
<1>7. HolesP!HolderOwnsItsLock => Holes!HolderOwnsItsLock
  BY DEF HolesP!HolderOwnsItsLock, Holes!HolderOwnsItsLock
<1>8. HolesP!MonitorInv => Holes!TypeOK
  BY DEF HolesP!MonitorInv, HolesP!TypeOK, HolesP!Mutexes, HolesP!Positions, HolesP!Beyond,
         HolesP!NoLock, HolesP!Lock, Holes!TypeOK, Holes!Mutexes, Holes!Positions, Holes!Beyond,
         Holes!NoLock, Holes!Lock
<1>9. part = "holes" /\ [ThreadsNext]_AllVars => (part = "holes")'
  BY PartStays
<1>10. ~(part = "holes") /\ [ThreadsNext]_AllVars => (~(part = "holes"))'
  BY PartStays
<1> QED
  BY <1>1, <1>2, <1>3, <1>4, <1>5, <1>6, <1>7, <1>8, <1>9, <1>10, PTL
  DEF ThreadsSpec, HolesP!Spec, AllVars

-----------------------------------------------------------------------------
\* What part "small" does, MonitorTable does with blocks of one slot.
LEMMA SmallPart ==
  /\ part = "small" /\ ThreadsInit => SmallP!Init
  /\ part = "small" /\ [ThreadsNext]_AllVars => [SmallP!Next]_(SmallP!vars)
<1>1. part = "small" /\ ThreadsInit => SmallP!Init
  BY DEF ThreadsInit, Small!Init, Small!EmptyBlock, Small!Mutexes, Small!Positions, Small!Beyond,
         Small!Free, Small!NoLock, SmallP!Init, SmallP!EmptyBlock, SmallP!Mutexes,
         SmallP!Positions, SmallP!Beyond, SmallP!Free, SmallP!NoLock
<1>2. ASSUME NEW t \in Others, Small!ThreadNext(t) PROVE SmallP!ThreadNext(t)
  <2>1. \A what, o : Small!Begin(t, what, o) => SmallP!Begin(t, what, o)
    BY DEF
      Small!Begin, SmallP!Begin
  <2>2. \A p : Small!LookupFound(t, p) => SmallP!LookupFound(t, p)
    BY DEF
      Small!LookupFound, Small!StopsAt, Small!Stops, Small!Return, SmallP!LookupFound,
      SmallP!StopsAt, SmallP!Stops, SmallP!Return
  <2>3. \A p : Small!LookupAssign(t, p) => SmallP!LookupAssign(t, p)
    BY DEF
      Small!LookupAssign, Small!StopsAt, Small!Stops, Small!Return, Small!Free,
      SmallP!LookupAssign, SmallP!StopsAt, SmallP!Stops, SmallP!Return, SmallP!Free
  <2>4. Small!LookupExtend(t) => SmallP!LookupExtend(t)
    BY DEF
      Small!LookupExtend, Small!NowhereToStop, Small!Stops, Small!Blocks, Small!EmptyBlock,
      Small!Free, Small!Beyond, Small!Return, SmallP!LookupExtend, SmallP!NowhereToStop,
      SmallP!Stops, SmallP!Blocks, SmallP!EmptyBlock, SmallP!Free, SmallP!Beyond,
      SmallP!Return
  <2>5. Small!LookupFails(t) => SmallP!LookupFails(t)
    BY DEF
      Small!LookupFails, Small!NowhereToStop, Small!Stops, Small!Return, Small!NoLock,
      SmallP!LookupFails, SmallP!NowhereToStop, SmallP!Stops, SmallP!Return, SmallP!NoLock
  <2>6. Small!Enter(t) => SmallP!Enter(t)
    BY DEF
      Small!Enter, Small!Available, Small!Entered, Small!Finish, SmallP!Enter,
      SmallP!Available, SmallP!Entered, SmallP!Finish
  <2>7. Small!TryEnterFails(t) => SmallP!TryEnterFails(t)
    BY DEF
      Small!TryEnterFails, Small!Available, Small!Finish, SmallP!TryEnterFails,
      SmallP!Available, SmallP!Finish
  <2>8. Small!Exit(t) => SmallP!Exit(t)
    BY DEF
      Small!Exit, Small!Exited, Small!Free, Small!NoLock, Small!Finish, SmallP!Exit,
      SmallP!Exited, SmallP!Free, SmallP!NoLock, SmallP!Finish
  <2> QED BY <1>2, <2>1, <2>2, <2>3, <2>4, <2>5, <2>6, <2>7, <2>8
      DEF Small!ThreadNext, SmallP!ThreadNext
<1>3. ASSUME NEW o \in Objects \cup {Reborn}, Small!Reclaim(o) PROVE SmallP!Reclaim(o)
  BY <1>3 DEF Small!Reclaim, Small!Unused, Small!Holders, Small!Free, Small!threadVars,
              SmallP!Reclaim, SmallP!Unused, SmallP!Holders, SmallP!Free, SmallP!threadVars
<1>4. Small!Next => SmallP!Next
  BY <1>2, <1>3 DEF Small!Next, SmallP!Next
<1>5. part = "small" /\ [ThreadsNext]_AllVars => Small!Next \/ UNCHANGED monitorVars
  BY DEF ThreadsNext, AllVars
<1> QED BY <1>1, <1>4, <1>5 DEF monitorVars, SmallP!vars

LEMMA SmallHold ==
  ASSUME ThreadsConstants
  PROVE  ThreadsSpec =>
           [](part = "small" => Small!TypeOK /\ Small!MonitorExcludes /\ Small!HolderOwnsItsLock)
<1>1. part = "small" /\ ThreadsInit => SmallP!Init
  BY SmallPart
<1>2. part = "small" /\ [ThreadsNext]_AllVars => [SmallP!Next]_(SmallP!vars)
  BY SmallPart
<1>3. SmallP!Spec => []SmallP!MonitorExcludes
  BY ConstantsFit, SmallP!MonitorsExclude
<1>4. SmallP!Spec => []SmallP!HolderOwnsItsLock
  BY ConstantsFit, SmallP!HoldersOwn
<1>5. SmallP!Spec => []SmallP!MonitorInv
  BY ConstantsFit, SmallP!MonitorInvariant
<1>6. SmallP!MonitorExcludes => Small!MonitorExcludes
  BY DEF SmallP!MonitorExcludes, SmallP!Holders, Small!MonitorExcludes, Small!Holders
<1>7. SmallP!HolderOwnsItsLock => Small!HolderOwnsItsLock
  BY DEF SmallP!HolderOwnsItsLock, Small!HolderOwnsItsLock
<1>8. SmallP!MonitorInv => Small!TypeOK
  BY DEF SmallP!MonitorInv, SmallP!TypeOK, SmallP!Mutexes, SmallP!Positions, SmallP!Beyond,
         SmallP!NoLock, SmallP!Lock, Small!TypeOK, Small!Mutexes, Small!Positions, Small!Beyond,
         Small!NoLock, Small!Lock
<1>9. part = "small" /\ [ThreadsNext]_AllVars => (part = "small")'
  BY PartStays
<1>10. ~(part = "small") /\ [ThreadsNext]_AllVars => (~(part = "small"))'
  BY PartStays
<1> QED
  BY <1>1, <1>2, <1>3, <1>4, <1>5, <1>6, <1>7, <1>8, <1>9, <1>10, PTL
  DEF ThreadsSpec, SmallP!Spec, AllVars

-----------------------------------------------------------------------------
\* One thread at a time is inside a monitor that the table keeps one mutex of, and
\* the state keeps its types, in the behaviours of MCThreads too (MonitorsExclude).
THEOREM ThreadsMonitorsExclude ==
  ASSUME ThreadsConstants PROVE ThreadsSpec => []MonitorExcludes
BY HolesHold, SmallHold, PTL DEF MonitorExcludes

\* The mutex that a thread owns is the one its next lookup returns, in the
\* behaviours of MCThreads too (HoldersOwn).
THEOREM ThreadsHoldersOwn ==
  ASSUME ThreadsConstants PROVE ThreadsSpec => []HolderOwnsItsLock
BY HolesHold, SmallHold, PTL DEF HolderOwnsItsLock

\* A found object is flagged, in the behaviours of MCThreads too, where the
\* collector frees one object again and again (FoundObjectsAreFlagged).
THEOREM ThreadsFoundIsFlagged ==
  ASSUME ThreadsConstants PROVE ThreadsSpec => []SmallFoundIsFlagged
<1>1. part = "small" /\ ThreadsInit => SmallP!Init
  BY SmallPart
<1>2. part = "small" /\ [ThreadsNext]_AllVars => [SmallP!Next]_(SmallP!vars)
  BY SmallPart
<1>3. SmallP!Spec => []SmallP!FoundIsFlagged
  BY ConstantsFit, SmallP!FoundObjectsAreFlagged
<1>4. SmallP!FoundIsFlagged => Small!FoundIsFlagged
  BY DEF SmallP!FoundIsFlagged, SmallP!StopsAt, SmallP!Stops,
         Small!FoundIsFlagged, Small!StopsAt, Small!Stops
<1>5. part = "small" /\ [ThreadsNext]_AllVars => (part = "small")'
  BY PartStays
<1>6. ~(part = "small") /\ [ThreadsNext]_AllVars => (~(part = "small"))'
  BY PartStays
<1>7. ~(part = "small") => SmallFoundIsFlagged
  BY DEF SmallFoundIsFlagged
<1>8. Small!FoundIsFlagged => SmallFoundIsFlagged
  BY DEF SmallFoundIsFlagged
<1> QED
  BY <1>1, <1>2, <1>3, <1>4, <1>5, <1>6, <1>7, <1>8, PTL DEF ThreadsSpec, SmallP!Spec, AllVars

-----------------------------------------------------------------------------
\* What part "roots" does, RootRegistry does.
LEMMA RegistryPart ==
  /\ part = "roots" /\ ThreadsInit => RegistryP!Init
  /\ part = "roots" /\ [ThreadsNext]_AllVars => [RegistryP!Next]_(RegistryP!vars)
<1>1. part = "roots" /\ ThreadsInit => RegistryP!Init
  BY DEF ThreadsInit, Registry!Init, RegistryP!Init
<1>2. ASSUME NEW t \in Others
      PROVE  /\ Registry!Fresh = RegistryP!Fresh
             /\ \A where, o : Registry!Walk(t, where, o) <=> RegistryP!Walk(t, where, o)
  BY DEF Registry!Fresh, Registry!Of, Registry!Walk, Registry!Move,
         RegistryP!Fresh, RegistryP!Of, RegistryP!Walk, RegistryP!Move
<1>3. ASSUME NEW t \in Others
      PROVE  /\ Registry!Alloc(t) => RegistryP!Alloc(t)
             /\ Registry!AllocObject(t) => RegistryP!AllocObject(t)
  BY <1>2 DEF
      Registry!Alloc, Registry!AllocObject, Registry!MakeBare, Registry!handleVars,
      Registry!markVars, RegistryP!Alloc, RegistryP!AllocObject, RegistryP!MakeBare,
      RegistryP!handleVars, RegistryP!markVars
<1>4. ASSUME NEW t \in Others
      PROVE  \A value : Registry!FreeHandle(t, value) => RegistryP!FreeHandle(t, value)
  BY <1>2 DEF
      Registry!FreeHandle, Registry!threadVars, Registry!handleVars, Registry!markVars,
      RegistryP!FreeHandle, RegistryP!threadVars, RegistryP!handleVars, RegistryP!markVars
<1>5. ASSUME NEW t \in Others PROVE Registry!Visit(t) => RegistryP!Visit(t)
  BY DEF
      Registry!Visit, Registry!Slot, Registry!Move, Registry!threadVars, Registry!handleVars,
      Registry!markVars, RegistryP!Visit, RegistryP!Slot, RegistryP!Move, RegistryP!threadVars,
      RegistryP!handleVars, RegistryP!markVars
<1>6. ASSUME NEW t \in Others PROVE Registry!TryStore(t) => RegistryP!TryStore(t)
  BY DEF
      Registry!TryStore, Registry!Slot, Registry!Move, Registry!Stored, Registry!StillFree,
      Registry!threadVars, Registry!handleVars, Registry!markVars, RegistryP!TryStore,
      RegistryP!Slot, RegistryP!Move, RegistryP!Stored, RegistryP!StillFree,
      RegistryP!threadVars, RegistryP!handleVars, RegistryP!markVars
<1>7. ASSUME NEW t \in Others PROVE Registry!AppendBlock(t) => RegistryP!AppendBlock(t)
  BY DEF
      Registry!AppendBlock, Registry!Move, Registry!threadVars, Registry!handleVars,
      Registry!markVars, RegistryP!AppendBlock, RegistryP!Move, RegistryP!threadVars,
      RegistryP!handleVars, RegistryP!markVars
<1>8. ASSUME NEW t \in Others PROVE Registry!Registered(t) => RegistryP!Registered(t)
  BY DEF
      Registry!Registered, Registry!Move, Registry!threadVars, Registry!handleVars,
      Registry!markVars, RegistryP!Registered, RegistryP!Move, RegistryP!threadVars,
      RegistryP!handleVars, RegistryP!markVars
<1>9. ASSUME NEW t \in Others PROVE Registry!Search(t) => RegistryP!Search(t)
  BY DEF
      Registry!Search, Registry!Slot, Registry!Move, Registry!threadVars, Registry!handleVars,
      Registry!markVars, RegistryP!Search, RegistryP!Slot, RegistryP!Move,
      RegistryP!threadVars, RegistryP!handleVars, RegistryP!markVars
<1>10. ASSUME NEW t \in Others PROVE Registry!Clear(t) => RegistryP!Clear(t)
  BY DEF
      Registry!Clear, Registry!Stored, Registry!Move, Registry!threadVars, Registry!handleVars,
      Registry!markVars, RegistryP!Clear, RegistryP!Stored, RegistryP!Move,
      RegistryP!threadVars, RegistryP!handleVars, RegistryP!markVars
<1>11. ASSUME NEW t \in Others PROVE Registry!Unregistered(t) => RegistryP!Unregistered(t)
  BY <1>2 DEF
      Registry!Unregistered, Registry!Move, Registry!threadVars, Registry!handleVars,
      Registry!markVars, RegistryP!Unregistered, RegistryP!Move, RegistryP!threadVars,
      RegistryP!handleVars, RegistryP!markVars
<1>12. Registry!BeginMark => RegistryP!BeginMark
  BY DEF
      Registry!BeginMark, Registry!threadVars, Registry!handleVars, Registry!markVars,
      RegistryP!BeginMark, RegistryP!threadVars, RegistryP!handleVars, RegistryP!markVars
<1>13. Registry!Mark => RegistryP!Mark
  BY DEF
      Registry!Mark, Registry!Slot, Registry!threadVars, Registry!handleVars,
      Registry!markVars, RegistryP!Mark, RegistryP!Slot, RegistryP!threadVars,
      RegistryP!handleVars, RegistryP!markVars
<1>14. Registry!Next => RegistryP!Next
  BY <1>2, <1>3, <1>4, <1>5, <1>6, <1>7, <1>8, <1>9, <1>10, <1>11, <1>12, <1>13
  DEF Registry!Next, RegistryP!Next
<1>15. part = "roots" /\ [ThreadsNext]_AllVars => Registry!Next \/ UNCHANGED registryVars
  BY DEF ThreadsNext, AllVars
<1> QED BY <1>1, <1>14, <1>15 DEF registryVars, RegistryP!vars

\* The object of a handle that registers is registered once and a collection marks
\* it, in the behaviours of MCThreads too (RegistrationsAgree).
THEOREM ThreadsRegistryAgrees ==
  ASSUME ThreadsConstants PROVE ThreadsSpec => []RegistryAgrees
<1>1. part = "roots" /\ ThreadsInit => RegistryP!Init
  BY RegistryPart
<1>2. part = "roots" /\ [ThreadsNext]_AllVars => [RegistryP!Next]_(RegistryP!vars)
  BY RegistryPart
<1>3. RegistryP!Spec => []RegistryP!RegistryAgrees
  BY ConstantsFit, RegistryP!RegistrationsAgree
<1>4. RegistryP!RegistryAgrees => Registry!RegistryAgrees
  BY DEF RegistryP!RegistryAgrees, RegistryP!Fresh, RegistryP!Of, RegistryP!Occurrences,
         Registry!RegistryAgrees, Registry!Fresh, Registry!Of, Registry!Occurrences,
         RegistryP!Cardinality, Registry!Cardinality
<1>5. part = "roots" /\ [ThreadsNext]_AllVars => (part = "roots")'
  BY PartStays
<1>6. ~(part = "roots") /\ [ThreadsNext]_AllVars => (~(part = "roots"))'
  BY PartStays
<1>7. ~(part = "roots") => RegistryAgrees
  BY DEF RegistryAgrees
<1>8. Registry!RegistryAgrees => RegistryAgrees
  BY DEF RegistryAgrees
<1> QED
  BY <1>1, <1>2, <1>3, <1>4, <1>5, <1>6, <1>7, <1>8, PTL DEF ThreadsSpec, RegistryP!Spec, AllVars
-----------------------------------------------------------------------------
(***************************************************************************)
(* The handlers of events.  What Without cuts out is what Taken does: both *)
(* look for the last place where the list has the removed handlers.        *)
(***************************************************************************)
\* The CHOOSE of a largest number, and of a smallest one.
LEMMA LastChosen ==
  ASSUME NEW n \in Int, NEW S \in SUBSET (0 .. n), S # {}
  PROVE  LET last == CHOOSE i \in S : \A j \in S : j <= i
         IN  last \in S /\ \A j \in S : j <= last
<1> DEFINE R == OpToRel(<, Nat)
           T == {k \in Nat : n - k \in S}
<1>1. \A a, b \in Nat : <<a, b>> \in R <=> a < b
  BY Zenon DEF OpToRel
<1>2. IsWellFoundedOn(R, Nat)
  BY NatLessThanWellFounded
<1> HIDE DEF R
<1>3. T # {} /\ T \subseteq Nat
  <2>1. PICK s \in S : TRUE OBVIOUS
  <2>2. n - s \in Nat /\ n - (n - s) = s OBVIOUS
  <2> QED BY <2>1, <2>2
<1>4. PICK k \in T : \A j \in T : ~(<<j, k>> \in R)
  <2> HIDE DEF T
  <2> QED BY <1>2, <1>3, WFMin
<1>5. n - k \in S /\ \A j \in S : j <= n - k
  <2> SUFFICES ASSUME NEW j \in S PROVE j <= n - k
    OBVIOUS
  <2>1. n - j \in T
    <3>1. n - j \in Nat /\ n - (n - j) = j OBVIOUS
    <3> QED BY <3>1
  <2>2. ~(n - j < k)
    BY <1>1, <1>3, <1>4, <2>1
  <2> QED BY <2>1, <2>2
<1> QED BY <1>5

LEMMA FirstChosen ==
  ASSUME NEW S, S \subseteq Int, NEW m \in S, \A j \in S : m <= j
  PROVE  (CHOOSE i \in S : \A j \in S : i <= j) = m
<1>1. \A i \in S : (\A j \in S : i <= j) => i = m
  OBVIOUS
<1> QED BY <1>1

\* A list has v behind its first i elements if and only if it is put together
\* of these, v and the rest.
HasAt(s, v, i) == SubSeq(s, i + 1, i + Len(v)) = v
Joined(s, v, i) == SubSeq(s, 1, i) \o v \o SubSeq(s, i + Len(v) + 1, Len(s))
LEMMA CutAround ==
  ASSUME NEW H, NEW s \in Seq(H), NEW v \in Seq(H), NEW i \in Nat, i + Len(v) <= Len(s)
  PROVE  /\ HasAt(s, v, i) <=> s = Joined(s, v, i)
         /\ SubSeq(s, 1, i) \in Seq(H) /\ Len(SubSeq(s, 1, i)) = i
         /\ SubSeq(s, i + Len(v) + 1, Len(s)) \in Seq(H)
         /\ Len(SubSeq(s, i + Len(v) + 1, Len(s))) = Len(s) - Len(v) - i
<1> DEFINE front == SubSeq(s, 1, i)
           middle == SubSeq(s, i + 1, i + Len(v))
           back == SubSeq(s, i + Len(v) + 1, Len(s))
<1>1. Len(s) \in Nat /\ Len(v) \in Nat /\ \A k \in 1 .. Len(s) : s[k] \in H
  BY LenProperties, ElementOfSeq
<1>2. front \in Seq(H) /\ Len(front) = i
  <2>1. \A k \in 1 .. i : s[k] \in H
    BY <1>1
  <2> QED BY <2>1, <1>1, SubSeqProperties
<1>3. middle \in Seq(H)
  <2>1. \A k \in (i + 1) .. (i + Len(v)) : s[k] \in H
    BY <1>1
  <2> QED BY <2>1, <1>1, SubSeqProperties
<1>4. back \in Seq(H) /\ Len(back) = Len(s) - Len(v) - i
  <2>1. \A k \in (i + Len(v) + 1) .. Len(s) : s[k] \in H
    BY <1>1
  <2> QED BY <2>1, <1>1, SubSeqProperties
<1>5. front \o middle = SubSeq(s, 1, i + Len(v))
  <2>1. 1 \in 1 .. Len(s) + 1 /\ i \in 1 - 1 .. Len(s) /\ i + Len(v) \in i .. Len(s)
    BY <1>1
  <2> QED BY <2>1, ConcatAdjacentSubSeq
<1>6. SubSeq(s, 1, i + Len(v)) \o back = s
  <2>1. 1 \in 1 .. Len(s) + 1 /\ i + Len(v) \in 1 - 1 .. Len(s)
        /\ Len(s) \in i + Len(v) .. Len(s)
    BY <1>1
  <2>2. SubSeq(s, 1, i + Len(v)) \o back = SubSeq(s, 1, Len(s))
    BY <2>1, ConcatAdjacentSubSeq
  <2> QED BY <2>2, SubSeqFull
<1> HIDE DEF front, middle, back
<1>7. ASSUME s = front \o v \o back PROVE middle = v
  <2>1. /\ front \o middle \in Seq(H) /\ front \o v \in Seq(H)
        /\ (front \o middle) \o back = (front \o v) \o back
    BY <1>2, <1>3, <1>5, <1>6, <1>7, ConcatProperties
  <2>2. front \o middle = front \o v
    BY <1>4, <2>1, ConcatSimplifications
  <2> QED BY <1>2, <1>3, <2>2, ConcatSimplifications
<1>8. middle = v => s = front \o v \o back
  BY <1>5, <1>6
<1> QED BY <1>2, <1>4, <1>7, <1>8 DEF front, middle, back, HasAt, Joined

Places(s, v) == {i \in 0 .. Len(s) - Len(v) : HasAt(s, v, i)}
LastPlace(s, v) == CHOOSE i \in Places(s, v) : \A j \in Places(s, v) : j <= i
Rest(s, v) ==
  SubSeq(s, 1, LastPlace(s, v)) \o SubSeq(s, LastPlace(s, v) + Len(v) + 1, Len(s))

\* What .NET keeps, said with the last place.
LEMMA TakenIsRest ==
  ASSUME NEW H, NEW s \in Seq(H), NEW v \in Seq(H)
  PROVE  /\ Places(s, v) = {} => Events!Taken(s, v) = s
         /\ Places(s, v) # {} =>
              /\ LastPlace(s, v) \in Places(s, v)
              /\ Events!Taken(s, v) = Rest(s, v)
              /\ Rest(s, v) \in Seq(H) /\ Len(Rest(s, v)) = Len(s) - Len(v)
<1> DEFINE Cut(p, n) == SubSeq(s, 1, p) \o v \o SubSeq(s, Len(s) - n + 1, Len(s))
           around == {n \in 0 .. Len(s) :
                        \E p \in 0 .. Len(s) : s = Cut(p, n) /\ p + Len(v) + n = Len(s)}
           P == Places(s, v)
<1>1. Len(s) \in Nat /\ Len(v) \in Nat
  BY LenProperties
<1>2. \A i \in P : i \in Nat /\ i + Len(v) <= Len(s)
  BY <1>1 DEF Places
<1>3. ASSUME NEW p \in P PROVE Len(s) - Len(v) - p \in around
  <2> DEFINE n == Len(s) - Len(v) - p
  <2>1. p \in Nat /\ p + Len(v) <= Len(s) /\ HasAt(s, v, p)
    BY <1>2, <1>3 DEF Places
  <2>2. s = Joined(s, v, p)
    BY <2>1, CutAround
  <2>3. n \in 0 .. Len(s) /\ p \in 0 .. Len(s) /\ p + Len(v) + n = Len(s)
        /\ Len(s) - n + 1 = p + Len(v) + 1
    BY <1>1, <2>1
  <2> HIDE DEF n
  <2>4. n \in around
    BY <2>2, <2>3 DEF Joined
  <2> QED BY <2>4 DEF n
<1>4. ASSUME NEW n \in around PROVE n \in 0 .. Len(s) /\ Len(s) - Len(v) - n \in P
  <2>1. PICK p \in 0 .. Len(s) : s = Cut(p, n) /\ p + Len(v) + n = Len(s)
    BY <1>4
  <2>2. n \in 0 .. Len(s) /\ Len(s) - n + 1 = p + Len(v) + 1 /\ p + Len(v) <= Len(s)
        /\ p = Len(s) - Len(v) - n /\ p \in 0 .. Len(s) - Len(v)
    <3>1. p \in 0 .. Len(s) /\ n \in 0 .. Len(s) /\ p + Len(v) + n = Len(s)
      BY <1>4, <2>1
    <3> HIDE DEF Cut, around, P
    <3> QED BY <1>1, <3>1
  <2>3. s = Joined(s, v, p)
    BY <2>1, <2>2 DEF Joined
  <2>4. HasAt(s, v, p)
    BY <2>2, <2>3, CutAround
  <2> QED BY <2>2, <2>4 DEF Places
<1>5. Events!Taken(s, v) =
        IF around = {} THEN s
        ELSE LET n == CHOOSE n \in around : \A m \in around : n <= m
             IN  SubSeq(s, 1, Len(s) - n - Len(v)) \o SubSeq(s, Len(s) - n + 1, Len(s))
  BY DEF Events!Taken
<1> HIDE DEF around, P
<1>6. CASE P = {}
  BY <1>4, <1>5, <1>6 DEF P
<1>7. CASE P # {}
  <2> DEFINE i == LastPlace(s, v)
             n == Len(s) - Len(v) - i
  <2>1. i \in P /\ \A j \in P : j <= i
    <3>1. P \in SUBSET (0 .. Len(s) - Len(v)) /\ Len(s) - Len(v) \in Int
      BY <1>1 DEF P, Places
    <3> QED BY <1>7, <3>1, LastChosen DEF LastPlace, P
  <2> HIDE DEF i
  <2>2. i \in Nat /\ i + Len(v) <= Len(s) /\ n \in Nat
        /\ Len(s) - n - Len(v) = i /\ Len(s) - n + 1 = i + Len(v) + 1
    BY <1>1, <1>2, <2>1
  <2>3. n \in around /\ \A m \in around : n <= m
    <3>1. n \in around
      BY <1>3, <2>1
    <3>2. ASSUME NEW m \in around PROVE n <= m
      <4>1. m \in 0 .. Len(s) /\ Len(s) - Len(v) - m <= i
        BY <1>4, <2>1, <3>2
      <4> QED BY <1>1, <2>2, <4>1
    <3> QED BY <3>1, <3>2
  <2> HIDE DEF n
  <2>4. (CHOOSE x \in around : \A m \in around : x <= m) = n
    <3>1. around \subseteq Int
      BY <1>1 DEF around
    <3> QED BY <2>3, <3>1, FirstChosen
  <2>5. Events!Taken(s, v) = SubSeq(s, 1, i) \o SubSeq(s, i + Len(v) + 1, Len(s))
    BY <1>5, <2>2, <2>3, <2>4
  <2>6. /\ SubSeq(s, 1, i) \in Seq(H) /\ Len(SubSeq(s, 1, i)) = i
        /\ SubSeq(s, i + Len(v) + 1, Len(s)) \in Seq(H)
        /\ Len(SubSeq(s, i + Len(v) + 1, Len(s))) = Len(s) - Len(v) - i
    BY <2>2, CutAround
  <2>7. Rest(s, v) \in Seq(H) /\ Len(Rest(s, v)) = i + (Len(s) - Len(v) - i)
    BY <2>6, ConcatProperties DEF Rest, i
  <2>8. Len(Rest(s, v)) = Len(s) - Len(v)
    BY <1>1, <2>2, <2>7
  <2> QED BY <1>7, <2>1, <2>5, <2>7, <2>8 DEF Rest, i, P
<1> QED BY <1>6, <1>7 DEF P
-----------------------------------------------------------------------------
\* Method tables are not empty; a delegate is the number of its table.
Lists == Seq(Objects) \ {<< >>}
Made(ts) == {Events!NULL} \cup 1 .. Len(ts)
ListOf(ts, d) == IF d = Events!NULL THEN << >> ELSE ts[d]
After(kind, list, v) == IF kind = "add" THEN list \o v ELSE Events!Taken(list, v)

Changes(ts) ==
  [of : Events!Fields, kind : {"add", "remove"}, read : Made(ts), made : Made(ts)]
Calls(ts) ==
  [delegate : Made(ts), index : Nat, called : Seq(Objects), promised : Seq(Objects)]
EventTypes ==
  /\ tables \in Seq(Lists)
  /\ field \in [Events!Fields -> Made(tables)]
  /\ kept \in [Events!Fields -> Seq(Objects)]
  /\ doing \in [Raisers -> {"body", "read", "made", "invoke", "returned"}]
  /\ own \in [Raisers -> Made(tables)]
  /\ change \in [Raisers -> Changes(tables)]
  /\ call \in [Raisers -> Calls(tables)]

\* What a thread has read of the AppDomain's handlers is still there, as nobody
\* else stores them; what it has made of what it has read is what .NET makes.
Changing(t) ==
  doing[t] \in {"read", "made"} =>
    /\ own[t] # Events!NULL
    /\ change[t].of = "domain" => t \in Storers /\ change[t].read = field["domain"]
    /\ doing[t] = "made" =>
         ListOf(tables, change[t].made) =
           After(change[t].kind, ListOf(tables, change[t].read), ListOf(tables, own[t]))
\* An invocation goes through the table of its delegate.
Calling(t) ==
  /\ doing[t] = "invoke" =>
       /\ call[t].promised = ListOf(tables, call[t].delegate)
       /\ call[t].index < Len(call[t].promised)
       /\ call[t].called = SubSeq(call[t].promised, 1, call[t].index)
  /\ doing[t] = "returned" => call[t].called = call[t].promised

EventsInv ==
  /\ EventTypes
  /\ \A f \in Events!Fields : ListOf(tables, field[f]) = kept[f]
  /\ \A t \in Raisers : Changing(t) /\ Calling(t)

\* Tables that were made stay.
Grow(ts, us) ==
  us \in Seq(Lists) /\ Len(ts) <= Len(us) /\ \A d \in 1 .. Len(ts) : us[d] = ts[d]

\* Delegates that were made have a list of handlers, and keep it.
LEMMA ListsMade ==
  ASSUME NEW ts \in Seq(Lists)
  PROVE  /\ Len(ts) \in Nat /\ Events!NULL \in Made(ts) /\ Grow(ts, ts)
         /\ \A d : Events!Table(d) = ListOf(tables, d)
         /\ \A d \in Made(ts) : ListOf(ts, d) \in Seq(Objects)
         /\ \A d \in Made(ts) \ {Events!NULL} : ListOf(ts, d) = ts[d] /\ ts[d] \in Lists
         /\ \A us : Grow(ts, us) =>
              /\ Made(ts) \subseteq Made(us)
              /\ \A d \in Made(ts) : ListOf(us, d) = ListOf(ts, d)
<1>1. Len(ts) \in Nat /\ \A d \in 1 .. Len(ts) : ts[d] \in Lists
  BY LenProperties, ElementOfSeq
<1>2. << >> \in Seq(Objects)
  BY EmptySeq
<1>3. ASSUME NEW us, Grow(ts, us)
      PROVE  Made(ts) \subseteq Made(us) /\ \A d \in Made(ts) : ListOf(us, d) = ListOf(ts, d)
  <2>1. Len(us) \in Nat /\ Len(ts) <= Len(us) /\ \A d \in 1 .. Len(ts) : us[d] = ts[d]
    BY <1>3, LenProperties DEF Grow
  <2>2. Made(ts) \subseteq Made(us)
    BY <1>1, <2>1 DEF Made
  <2> QED BY <2>1, <2>2 DEF Made, ListOf
<1>4. Grow(ts, ts)
  BY <1>1 DEF Grow
<1>5. \A d : Events!Table(d) = ListOf(tables, d)
  BY DEF Events!Table, ListOf
<1>6. \A d \in Made(ts) : ListOf(ts, d) \in Seq(Objects)
  BY <1>1, <1>2 DEF Made, ListOf, Lists
<1>7. \A d \in Made(ts) \ {Events!NULL} : ListOf(ts, d) = ts[d] /\ ts[d] \in Lists
  BY <1>1 DEF Made, ListOf
<1> QED BY <1>1, <1>3, <1>4, <1>5, <1>6, <1>7 DEF Made

\* What an operation on delegates returns: a delegate with the list.
Returns(r, list) ==
  /\ Grow(tables, r.tables)
  /\ r.delegate \in Made(r.tables)
  /\ ListOf(r.tables, r.delegate) = list

\* A new delegate.
LEMMA MakeReturns ==
  ASSUME tables \in Seq(Lists), NEW list \in Lists
  PROVE  Returns(Events!Make(list), list) /\ Events!Make(list).delegate # Events!NULL
<1> DEFINE ts == Append(tables, list)
           d == Len(tables) + 1
<1>1. /\ ts \in Seq(Lists) /\ Len(ts) = d /\ Len(tables) \in Nat
      /\ \A i \in 1 .. Len(tables) : ts[i] = tables[i]
      /\ ts[d] = list
  BY AppendProperties, LenProperties
<1>2. Events!Make(list).tables = ts /\ Events!Make(list).delegate = d
  BY DEF Events!Make
<1> HIDE DEF ts
<1>3. Grow(tables, ts) /\ d \in Made(ts) /\ d # Events!NULL
  BY <1>1 DEF Grow, Made, Events!NULL
<1>4. ListOf(ts, d) = list
  BY <1>1, <1>3 DEF ListOf
<1> QED BY <1>2, <1>3, <1>4 DEF Returns

\* An old one.
LEMMA ReuseReturns ==
  ASSUME tables \in Seq(Lists), NEW d \in Made(tables)
  PROVE  Returns(Events!Reuse(d), ListOf(tables, d)) /\ Events!Reuse(d).delegate = d
BY ListsMade DEF Returns, Events!Reuse

\* Combine puts one list behind the other.
LEMMA CombineReturns ==
  ASSUME tables \in Seq(Lists), NEW a \in Made(tables), NEW b \in Made(tables)
  PROVE  /\ Returns(Events!Combine(a, b), ListOf(tables, a) \o ListOf(tables, b))
         /\ b # Events!NULL => Events!Combine(a, b).delegate # Events!NULL
<1> DEFINE s == ListOf(tables, a)
           v == ListOf(tables, b)
<1>1. s \in Seq(Objects) /\ v \in Seq(Objects)
  BY ListsMade
<1>2. CASE a = Events!NULL
  <2>1. s = << >> /\ Events!Combine(a, b) = Events!Reuse(b)
    BY <1>2 DEF ListOf, Events!Combine
  <2>2. s \o v = v
    BY <1>1, <2>1, ConcatEmptySeq
  <2> QED BY <2>1, <2>2, ReuseReturns
<1>3. CASE a # Events!NULL /\ b = Events!NULL
  <2>1. v = << >> /\ Events!Combine(a, b) = Events!Reuse(a)
    BY <1>3 DEF ListOf, Events!Combine
  <2>2. s \o v = s
    BY <1>1, <2>1, ConcatEmptySeq
  <2> QED BY <1>3, <2>1, <2>2, ReuseReturns
<1>4. CASE a # Events!NULL /\ b # Events!NULL
  <2>1. Events!Combine(a, b) = Events!Make(s \o v)
    BY <1>4, ListsMade DEF Events!Combine
  <2>2. s \in Lists
    BY <1>4, ListsMade
  <2>3. s \o v \in Lists
    <3> HIDE DEF s, v
    <3>1. s \o v \in Seq(Objects) /\ s \o v # << >>
      BY <1>1, <2>2, ConcatProperties, ConcatEqualIffEmpty DEF Lists
    <3> QED BY <3>1 DEF Lists
  <2> QED BY <2>1, <2>3, MakeReturns
<1> QED BY <1>2, <1>3, <1>4

\* Without cuts out what .NET takes out.
LEMMA WithoutReturns ==
  ASSUME tables \in Seq(Lists), NEW a \in Made(tables), NEW b \in Made(tables), b # Events!NULL
  PROVE  Returns(Events!Without(a, b), Events!Taken(ListOf(tables, a), ListOf(tables, b)))
<1> DEFINE s == ListOf(tables, a)
           v == ListOf(tables, b)
<1>1. s \in Seq(Objects) /\ v \in Lists /\ v \in Seq(Objects) /\ Events!NULL \in Made(tables)
  <2>1. b \in Made(tables) \ {Events!NULL}
    OBVIOUS
  <2>2. v = tables[b] /\ tables[b] \in Lists
    BY <2>1, ListsMade
  <2> QED BY <2>2, ListsMade
<1>2. Events!Table(a) = s /\ Events!Table(b) = v
  BY ListsMade
<1> HIDE DEF s, v
<1>3. Len(s) \in Nat /\ Len(v) \in Nat \ {0}
  BY <1>1, LenProperties, EmptySeq DEF Lists
<1>4. Events!Without(a, b) =
        IF a = Events!NULL \/ Places(s, v) = {} THEN Events!Reuse(a)
        ELSE IF Len(s) <= Len(v) THEN Events!Reuse(Events!NULL)
        ELSE Events!Make(Rest(s, v))
  <2> DEFINE f == {i \in 0 .. Len(s) - Len(v) : SubSeq(s, i + 1, i + Len(v)) = v}
             l == CHOOSE i \in f : \A j \in f : j <= i
  <2>1. Events!Without(a, b) =
          IF a = Events!NULL \/ b = Events!NULL \/ f = {} THEN Events!Reuse(a)
          ELSE IF Len(s) <= Len(v) THEN Events!Reuse(Events!NULL)
          ELSE Events!Make(SubSeq(s, 1, l) \o SubSeq(s, l + Len(v) + 1, Len(s)))
    <3> DEFINE places(x, y) == {i \in 0 .. Len(x) - Len(y) : SubSeq(x, i + 1, i + Len(y)) = y}
               largest(x, y) == CHOOSE i \in places(x, y) : \A j \in places(x, y) : j <= i
               Result(x, y) ==
                 IF a = Events!NULL \/ b = Events!NULL \/ places(x, y) = {} THEN Events!Reuse(a)
                 ELSE IF Len(x) <= Len(y) THEN Events!Reuse(Events!NULL)
                 ELSE Events!Make(SubSeq(x, 1, largest(x, y))
                                  \o SubSeq(x, largest(x, y) + Len(y) + 1, Len(x)))
    <3>1. Events!Without(a, b) = Result(Events!Table(a), Events!Table(b))
      BY DEF Events!Without
    <3> HIDE DEF Result
    <3>2. Events!Without(a, b) = Result(s, v)
      BY <1>2, <3>1
    <3> QED BY <3>2 DEF Result
  <2>2. Places(s, v) = f
    BY Zenon DEF Places, HasAt
  <2>3. LastPlace(s, v) = l
    BY <2>2, Zenon DEF LastPlace
  <2>4. Rest(s, v) = SubSeq(s, 1, l) \o SubSeq(s, l + Len(v) + 1, Len(s))
    BY <2>3, Zenon DEF Rest
  <2> HIDE DEF f, l
  <2> QED BY <2>1, <2>2, <2>4
<1>5. CASE a = Events!NULL \/ Places(s, v) = {}
  <2>1. Places(s, v) = {}
    <3>1. CASE a = Events!NULL
      <4>1. Len(s) = 0
        BY <3>1, EmptySeq DEF s, ListOf
      <4> QED BY <1>3, <4>1 DEF Places
    <3> QED BY <1>5, <3>1
  <2>2. Events!Taken(s, v) = s
    BY <1>1, <2>1, TakenIsRest
  <2> QED BY <1>4, <1>5, <2>2, ReuseReturns DEF s, v
<1>6. CASE a # Events!NULL /\ Places(s, v) # {}
  <2>1. /\ Events!Taken(s, v) = Rest(s, v) /\ Rest(s, v) \in Seq(Objects)
        /\ Len(Rest(s, v)) = Len(s) - Len(v)
    BY <1>1, <1>6, TakenIsRest
  <2>2. LastPlace(s, v) \in 0 .. Len(s) - Len(v)
    BY <1>1, <1>6, TakenIsRest DEF Places
  <2>3. CASE Len(s) <= Len(v)
    <3>1. Len(Rest(s, v)) = 0
      BY <1>3, <2>1, <2>2, <2>3
    <3>2. Rest(s, v) = << >>
      BY <2>1, <3>1, EmptySeq
    <3>3. Returns(Events!Reuse(Events!NULL), << >>)
      <4>1. ListOf(tables, Events!NULL) = << >>
        BY DEF ListOf
      <4> QED BY <1>1, <4>1, ReuseReturns
    <3> QED BY <1>4, <1>6, <2>1, <2>3, <3>2, <3>3 DEF s, v
  <2>4. CASE ~(Len(s) <= Len(v))
    <3>1. Len(Rest(s, v)) # 0
      BY <1>3, <2>1, <2>4
    <3>2. Rest(s, v) \in Lists
      BY <2>1, <3>1, EmptySeq DEF Lists
    <3> QED BY <1>4, <1>6, <2>1, <2>4, <3>2, MakeReturns DEF s, v
  <2> QED BY <2>3, <2>4
<1> QED BY <1>5, <1>6

\* What has its type keeps it when tables are made.
LEMMA TypesGrow ==
  ASSUME EventTypes, NEW ts, Grow(tables, ts)
  PROVE  /\ ts \in Seq(Lists)
         /\ field \in [Events!Fields -> Made(ts)] /\ own \in [Raisers -> Made(ts)]
         /\ change \in [Raisers -> Changes(ts)] /\ call \in [Raisers -> Calls(ts)]
<1>1. Made(tables) \subseteq Made(ts)
  BY ListsMade DEF EventTypes
<1>2. Changes(tables) \subseteq Changes(ts) /\ Calls(tables) \subseteq Calls(ts)
  BY <1>1 DEF Changes, Calls
<1> HIDE DEF Changes, Calls
<1> QED BY <1>1, <1>2 DEF EventTypes, Grow

\* A step of one thread, which changes only what is its own and the fields.
LEMMA EventsStep ==
  ASSUME EventsInv, \A t, u \in Storers : t = u, NEW t \in Raisers,
         Grow(tables, tables'), EventTypes',
         \A u \in Raisers \ {t} : /\ doing'[u] = doing[u] /\ own'[u] = own[u]
                                  /\ change'[u] = change[u] /\ call'[u] = call[u],
         field'["domain"] = field["domain"] \/ t \in Storers,
         \A f \in Events!Fields : ListOf(tables', field'[f]) = kept'[f],
         Changing(t)', Calling(t)'
  PROVE  EventsInv'
<1> SUFFICES ASSUME NEW u \in Raisers \ {t} PROVE Changing(u)' /\ Calling(u)'
  BY DEF EventsInv
<1>1. Changing(u) /\ Calling(u)
  BY DEF EventsInv
<1>2. /\ change[u].read \in Made(tables) /\ change[u].made \in Made(tables)
      /\ own[u] \in Made(tables) /\ call[u].delegate \in Made(tables)
  BY DEF EventsInv, EventTypes, Changes, Calls
<1>3. \A d \in Made(tables) : ListOf(tables', d) = ListOf(tables, d)
  BY ListsMade DEF EventsInv, EventTypes
<1>4. Changing(u)'
  <2>1. doing[u] \in {"read", "made"} /\ change[u].of = "domain" => field'["domain"] = field["domain"]
    BY <1>1 DEF Changing
  <2> QED BY <1>1, <1>2, <1>3, <2>1 DEF Changing
<1>5. Calling(u)'
  BY <1>1, <1>2, <1>3 DEF Calling
<1> QED BY <1>4, <1>5

\* An operation that makes the delegate of a thread.
LEMMA OwnMade ==
  ASSUME EventsInv, \A t, u \in Storers : t = u, NEW t \in Raisers, NEW r, NEW list,
         doing[t] = "body", Returns(r, list), Events!Allocated(r),
         own' = [own EXCEPT ![t] = r.delegate],
         UNCHANGED <<field, kept, doing, change, call>>
  PROVE  EventsInv'
<1>1. tables' = r.tables /\ Grow(tables, tables') /\ r.delegate \in Made(tables')
  BY DEF Events!Allocated, Returns
<1>2. EventTypes /\ EventTypes'
  BY <1>1, TypesGrow DEF EventsInv, EventTypes
<1>3. \A f \in Events!Fields : ListOf(tables', field'[f]) = kept'[f]
  BY <1>1, <1>2, ListsMade DEF EventsInv, EventTypes
<1>4. Changing(t)' /\ Calling(t)'
  BY DEF Changing, Calling
<1>5. \A u \in Raisers \ {t} : own'[u] = own[u]
  BY <1>2 DEF EventTypes
<1> QED BY <1>1, <1>2, <1>3, <1>4, <1>5, EventsStep

\* Every action keeps the invariant.
LEMMA NewKeeps ==
  ASSUME EventsInv, \A t, u \in Storers : t = u, NEW t \in Raisers,
         NEW h \in Objects, Events!New(t, h)
  PROVE  EventsInv'
<1>1. <<h>> \in Lists
  BY EmptySeq DEF Lists
<1>2. Returns(Events!Make(<<h>>), <<h>>)
  BY <1>1, MakeReturns DEF EventsInv, EventTypes
<1> QED BY <1>2, OwnMade DEF Events!New

\* A delegate combined with another.
LEMMA ExtendKeeps ==
  ASSUME EventsInv, \A t, u \in Storers : t = u, NEW t \in Raisers,
         NEW d \in DOMAIN tables, Events!Extend(t, d)
  PROVE  EventsInv'
<1>1. d \in Made(tables) /\ own[t] \in Made(tables) /\ tables \in Seq(Lists)
  <2>1. tables \in Seq(Lists) /\ DOMAIN tables = 1 .. Len(tables)
    BY LenProperties DEF EventsInv, EventTypes
  <2> QED BY <2>1 DEF Made, EventsInv, EventTypes
<1>2. PICK list : Returns(Events!Combine(own[t], d), list)
  BY <1>1, CombineReturns
<1> QED BY <1>2, OwnMade DEF Events!Extend

\* The handlers are read.
LEMMA BeginKeeps ==
  ASSUME EventsInv, \A t, u \in Storers : t = u, NEW t \in Raisers,
         NEW f \in Events!Fields, NEW k \in {"add", "remove"}, Events!Begin(t, f, k)
  PROVE  EventsInv'
<1> DEFINE c == [of |-> f, kind |-> k, read |-> field[f], made |-> Events!NULL]
<1>1. EventTypes /\ tables' = tables /\ Grow(tables, tables') /\ Events!NULL \in Made(tables)
  BY ListsMade DEF EventsInv, EventTypes, Events!Begin
<1>2. c \in Changes(tables)
  BY <1>1 DEF EventTypes, Changes
<1>3. change'[t] = c /\ doing'[t] = "read"
  BY <1>1 DEF Events!Begin, EventTypes
<1>4. EventTypes'
  BY <1>1, <1>2 DEF Events!Begin, EventTypes
<1>5. Changing(t)' /\ Calling(t)'
  BY <1>3 DEF Events!Begin, Changing, Calling
<1>6. \A u \in Raisers \ {t} : doing'[u] = doing[u] /\ change'[u] = change[u]
  BY <1>1 DEF Events!Begin, EventTypes
<1> QED BY <1>1, <1>4, <1>5, <1>6, EventsStep DEF Events!Begin, EventsInv

\* The new ones are made of those read, which are there to be read for ever.
LEMMA PrepareKeeps ==
  ASSUME EventsInv, \A t, u \in Storers : t = u, NEW t \in Raisers, Events!Prepare(t)
  PROVE  EventsInv'
<1> DEFINE c == change[t]
           r == IF c.kind = "add" THEN Events!Combine(c.read, own[t])
                ELSE Events!Without(c.read, own[t])
<1>1. /\ EventTypes /\ Changing(t) /\ doing[t] = "read" /\ Events!Allocated(r)
      /\ change' = [change EXCEPT ![t].made = r.delegate]
      /\ doing' = [doing EXCEPT ![t] = "made"]
      /\ UNCHANGED <<field, kept, own, call>>
  BY DEF EventsInv, Events!Prepare
<1>2. /\ c \in Changes(tables) /\ c.read \in Made(tables) /\ c.kind \in {"add", "remove"}
      /\ own[t] \in Made(tables) /\ own[t] # Events!NULL /\ tables \in Seq(Lists)
  BY <1>1 DEF EventTypes, Changes, Changing
<1>3. Returns(r, After(c.kind, ListOf(tables, c.read), ListOf(tables, own[t])))
  BY <1>2, CombineReturns, WithoutReturns DEF After
<1> HIDE DEF r
<1>4. /\ tables' = r.tables /\ Grow(tables, tables') /\ r.delegate \in Made(tables')
      /\ ListOf(tables', r.delegate) = After(c.kind, ListOf(tables, c.read), ListOf(tables, own[t]))
  BY <1>1, <1>3 DEF Events!Allocated, Returns
<1>5. \A d \in Made(tables) : ListOf(tables', d) = ListOf(tables, d)
  BY <1>2, <1>4, ListsMade
<1>6. /\ change \in [Raisers -> Changes(tables')] /\ field' \in [Events!Fields -> Made(tables')]
      /\ own' \in [Raisers -> Made(tables')] /\ call' \in [Raisers -> Calls(tables')]
      /\ tables' \in Seq(Lists)
  BY <1>1, <1>4, TypesGrow
<1>7. change'[t] = [c EXCEPT !.made = r.delegate] /\ doing'[t] = "made"
  BY <1>1 DEF EventTypes
<1>8. change' \in [Raisers -> Changes(tables')]
  BY <1>1, <1>4, <1>6 DEF Changes
<1>9. EventTypes'
  BY <1>1, <1>6, <1>8 DEF EventTypes
<1>10. Changing(t)'
  <2>1. change'[t].of = c.of /\ change'[t].kind = c.kind /\ change'[t].read = c.read
        /\ change'[t].made = r.delegate
    BY <1>2, <1>7 DEF Changes
  <2> QED BY <1>1, <1>2, <1>4, <1>5, <1>7, <2>1 DEF Changing
<1>11. Calling(t)'
  BY <1>7 DEF Calling
<1>12. \A u \in Raisers \ {t} : doing'[u] = doing[u] /\ change'[u] = change[u]
  BY <1>1 DEF EventTypes
<1>13. \A f \in Events!Fields : ListOf(tables', field'[f]) = kept'[f]
  BY <1>1, <1>5 DEF EventsInv, EventTypes
<1> QED BY <1>1, <1>4, <1>9, <1>10, <1>11, <1>12, <1>13, EventsStep

\* A store that nobody came before leaves in the field what .NET has in it.
LEMMA StoredKeeps ==
  ASSUME EventsInv, \A t, u \in Storers : t = u, NEW t \in Raisers,
         doing[t] = "made", change[t].of = "domain" => t \in Storers,
         change[t].read = field[change[t].of], Events!Stored(t)
  PROVE  EventsInv'
<1> DEFINE c == change[t]
           list == After(c.kind, kept[c.of], ListOf(tables, own[t]))
<1>1. /\ EventTypes /\ Changing(t) /\ tables' = tables /\ own' = own /\ call' = call
      /\ doing' = [doing EXCEPT ![t] = "body"]
      /\ change' = [change EXCEPT ![t] = Events!NoChange]
      /\ field' = [field EXCEPT ![c.of] = c.made]
  BY DEF EventsInv, Events!Stored
<1>2. /\ c.of \in Events!Fields /\ c.made \in Made(tables) /\ Grow(tables, tables')
      /\ Events!NULL \in Made(tables) /\ tables \in Seq(Lists)
  BY <1>1, ListsMade DEF EventTypes, Changes
<1>3. kept' = [kept EXCEPT ![c.of] = list]
  <2>1. Events!Table(own[t]) = ListOf(tables, own[t])
    BY <1>2, ListsMade
  <2> QED BY <2>1 DEF Events!Stored, After
<1>4. ListOf(tables, c.made) = list
  <2>1. ListOf(tables, c.read) = kept[c.of]
    BY <1>2 DEF EventsInv
  <2> QED BY <1>1, <2>1 DEF Changing
<1>5. list \in Seq(Objects)
  BY <1>2, <1>4, ListsMade
<1> HIDE DEF list
<1>6. Events!NoChange \in Changes(tables)
  BY <1>2 DEF Events!NoChange, Changes, Events!Fields
<1>7. EventTypes'
  BY <1>1, <1>2, <1>3, <1>5, <1>6 DEF EventTypes
<1>8. \A f \in Events!Fields : ListOf(tables', field'[f]) = kept'[f]
  <2> SUFFICES ASSUME NEW f \in Events!Fields PROVE ListOf(tables', field'[f]) = kept'[f]
    OBVIOUS
  <2>1. CASE f = c.of
    BY <1>1, <1>3, <1>4, <2>1 DEF EventTypes
  <2>2. CASE f # c.of
    <3>1. field'[f] = field[f] /\ kept'[f] = kept[f]
      BY <1>1, <1>3, <2>2 DEF EventTypes
    <3> QED BY <1>1, <3>1 DEF EventsInv
  <2> QED BY <2>1, <2>2
<1>9. field'["domain"] = field["domain"] \/ t \in Storers
  BY <1>1, <1>2 DEF EventTypes, Events!Fields
<1>10. doing'[t] = "body" /\ \A u \in Raisers \ {t} : doing'[u] = doing[u] /\ change'[u] = change[u]
  BY <1>1 DEF EventTypes
<1>11. Changing(t)' /\ Calling(t)'
  BY <1>10 DEF Changing, Calling
<1> QED BY <1>1, <1>2, <1>7, <1>8, <1>9, <1>10, <1>11, EventsStep

\* The loop goes round with the handlers that another thread has stored.
LEMMA RetryKeeps ==
  ASSUME EventsInv, \A t, u \in Storers : t = u, NEW t \in Raisers, Events!Retry(t)
  PROVE  EventsInv'
<1>1. /\ EventTypes /\ Changing(t) /\ tables' = tables /\ Grow(tables, tables')
      /\ doing[t] = "made" /\ change[t].of = "event"
      /\ change' = [change EXCEPT ![t].read = field["event"]]
      /\ doing' = [doing EXCEPT ![t] = "read"]
      /\ UNCHANGED <<tables, field, kept, own, call>>
  BY ListsMade DEF EventsInv, EventTypes, Events!Retry
<1>2. /\ change'[t] = [change[t] EXCEPT !.read = field["event"]] /\ doing'[t] = "read"
      /\ \A u \in Raisers \ {t} : doing'[u] = doing[u] /\ change'[u] = change[u]
  BY <1>1 DEF EventTypes
<1>3. field["event"] \in Made(tables)
  BY <1>1 DEF EventTypes, Events!Fields
<1>4. EventTypes'
  BY <1>1, <1>3 DEF EventTypes, Changes
<1>5. change'[t].of = "event"
  BY <1>1, <1>2 DEF EventTypes, Changes
<1>6. Changing(t)' /\ Calling(t)'
  BY <1>1, <1>2, <1>5 DEF Changing, Calling
<1> QED BY <1>1, <1>2, <1>4, <1>6, EventsStep DEF EventsInv

\* An invocation begins with no handler called.
LEMMA RaiseKeeps ==
  ASSUME EventsInv, \A t, u \in Storers : t = u, NEW t \in Raisers,
         NEW f \in Events!Fields, Events!Raise(t, f)
  PROVE  EventsInv'
<1> DEFINE c == [delegate |-> field[f], index |-> 0, called |-> << >>, promised |-> kept[f]]
<1>1. /\ EventTypes /\ tables' = tables /\ Grow(tables, tables') /\ tables \in Seq(Lists)
      /\ field[f] \in Made(tables) \ {Events!NULL} /\ kept[f] = ListOf(tables, field[f])
  BY ListsMade DEF EventsInv, EventTypes, Events!Raise
<1>2. << >> \in Seq(Objects) /\ kept[f] \in Lists /\ kept[f] \in Seq(Objects)
  <2>1. ListOf(tables, field[f]) \in Lists
    BY <1>1, ListsMade
  <2> QED BY <1>1, <2>1, EmptySeq DEF Lists
<1>3. c \in Calls(tables)
  BY <1>1, <1>2 DEF Calls
<1>4. call'[t] = c /\ doing'[t] = "invoke"
  BY <1>1 DEF Events!Raise, EventTypes
<1>5. EventTypes'
  BY <1>1, <1>3 DEF Events!Raise, EventTypes
<1>6. Changing(t)'
  BY <1>4 DEF Changing
<1>7. Calling(t)'
  <2>1. Len(kept[f]) \in Nat /\ Len(kept[f]) # 0
    BY <1>2, LenProperties, EmptySeq DEF Lists
  <2>2. SubSeq(kept[f], 1, 0) = << >>
    BY <1>2, SubSeqEmpty
  <2> QED BY <1>1, <1>4, <2>1, <2>2 DEF Calling
<1>8. \A u \in Raisers \ {t} : doing'[u] = doing[u] /\ call'[u] = call[u]
  BY <1>1 DEF Events!Raise, EventTypes
<1> QED BY <1>1, <1>5, <1>6, <1>7, <1>8, EventsStep DEF Events!Raise, EventsInv

\* The handlers called are those at the front of the table.
LEMMA InvokeKeeps ==
  ASSUME EventsInv, \A t, u \in Storers : t = u, NEW t \in Raisers, Events!Invoke(t)
  PROVE  EventsInv'
<1> DEFINE c == call[t]
           s == c.promised
           i == c.index
<1>1. /\ EventTypes /\ Calling(t) /\ tables' = tables /\ Grow(tables, tables')
      /\ tables \in Seq(Lists) /\ doing[t] = "invoke"
  BY ListsMade DEF EventsInv, EventTypes, Events!Invoke
<1>2. /\ c \in Calls(tables) /\ i \in Nat /\ s \in Seq(Objects) /\ Len(s) \in Nat
      /\ i < Len(s) /\ c.called = SubSeq(s, 1, i)
      /\ s = ListOf(tables, c.delegate)
  <2>1. c \in Calls(tables)
    BY <1>1 DEF EventTypes
  <2> QED BY <1>1, <2>1, LenProperties DEF Calls, Calling
<1>3. Events!Table(c.delegate) = s
  BY <1>1, <1>2, ListsMade
<1>4. /\ call' = [call EXCEPT ![t].called = Append(@, s[i + 1]), ![t].index = @ + 1]
      /\ doing' = [doing EXCEPT ![t] = IF i + 1 < Len(s) THEN "invoke" ELSE "returned"]
      /\ UNCHANGED <<tables, field, kept, own, change>>
  BY <1>3 DEF Events!Invoke
<1>5. Append(c.called, s[i + 1]) = SubSeq(s, 1, i + 1) /\ SubSeq(s, 1, i + 1) \in Seq(Objects)
  <2>1. \A k \in 1 .. Len(s) : s[k] \in Objects
    BY <1>2, ElementOfSeq
  <2> DEFINE x == SubSeq(s, 1, i)
             y == SubSeq(s, 1, i + 1)
             z == Append(x, s[i + 1])
  <2>2. x \in Seq(Objects) /\ Len(x) = i /\ \A k \in 1 .. i : x[k] = s[k]
    BY <1>2, <2>1, SubSeqProperties
  <2>3. y \in Seq(Objects) /\ Len(y) = i + 1 /\ \A k \in 1 .. i + 1 : y[k] = s[k]
    BY <1>2, <2>1, SubSeqProperties
  <2>4. s[i + 1] \in Objects
    BY <1>2, <2>1
  <2> HIDE DEF x, y
  <2>5. z \in Seq(Objects) /\ Len(z) = i + 1 /\ z[i + 1] = s[i + 1] /\ \A k \in 1 .. i : z[k] = s[k]
    BY <2>2, <2>4, AppendProperties
  <2> HIDE DEF z
  <2>6. z = y
    <3>1. \A k \in 1 .. i + 1 : z[k] = y[k]
      BY <1>2, <2>3, <2>5
    <3> QED BY <2>3, <2>5, <3>1, SeqEqual
  <2> QED BY <1>2, <2>3, <2>6 DEF x, y, z
<1>6. /\ call'[t] = [c EXCEPT !.called = SubSeq(s, 1, i + 1), !.index = i + 1]
      /\ doing'[t] = IF i + 1 < Len(s) THEN "invoke" ELSE "returned"
      /\ \A u \in Raisers \ {t} : doing'[u] = doing[u] /\ call'[u] = call[u]
  BY <1>1, <1>4, <1>5 DEF EventTypes
<1>7. call'[t] \in Calls(tables) /\ call'[t].called = SubSeq(s, 1, i + 1)
      /\ call'[t].index = i + 1 /\ call'[t].promised = s /\ call'[t].delegate = c.delegate
  <2> DEFINE front == SubSeq(s, 1, i + 1)
  <2>1. front \in Seq(Objects) /\ call'[t] = [c EXCEPT !.called = front, !.index = i + 1]
    BY <1>5, <1>6
  <2> HIDE DEF front
  <2>2. call'[t] \in Calls(tables) /\ call'[t].called = front /\ call'[t].index = i + 1
        /\ call'[t].promised = s /\ call'[t].delegate = c.delegate
    <3>1. i + 1 \in Nat /\ c \in Calls(tables) /\ c.promised = s /\ c.delegate = call[t].delegate
      BY <1>2
    <3> HIDE DEF c, s
    <3>2. \A n \in Nat : [c EXCEPT !.called = front, !.index = n]
            \in {x \in Calls(tables) : /\ x.called = front /\ x.index = n
                                      /\ x.promised = c.promised /\ x.delegate = c.delegate}
      BY <2>1, <3>1 DEF Calls
    <3> QED BY <2>1, <3>1, <3>2
  <2> QED BY <2>2 DEF front
<1>8. call' \in [Raisers -> Calls(tables')]
  <2>1. call' = [call EXCEPT ![t] = call'[t]]
    BY <1>1, <1>4 DEF EventTypes
  <2> QED BY <1>1, <1>7, <2>1 DEF EventTypes
<1>9. EventTypes'
  BY <1>1, <1>4, <1>8 DEF EventTypes
<1>10. Changing(t)'
  BY <1>6 DEF Changing
<1>11. Calling(t)'
  <2>1. CASE i + 1 < Len(s)
    BY <1>1, <1>2, <1>6, <1>7, <2>1 DEF Calling
  <2>2. CASE ~(i + 1 < Len(s))
    <3>1. SubSeq(s, 1, i + 1) = s
      BY <1>2, <2>2, SubSeqFull
    <3> QED BY <1>6, <1>7, <2>2, <3>1 DEF Calling
  <2> QED BY <2>1, <2>2
<1> QED BY <1>1, <1>4, <1>6, <1>9, <1>10, <1>11, EventsStep DEF EventsInv

\* An invocation ends.
LEMMA ReturnKeeps ==
  ASSUME EventsInv, \A t, u \in Storers : t = u, NEW t \in Raisers, Events!Return(t)
  PROVE  EventsInv'
<1>1. /\ EventTypes /\ tables' = tables /\ Grow(tables, tables')
      /\ Events!NULL \in Made(tables)
  BY ListsMade DEF EventsInv, EventTypes, Events!Return
<1>2. Events!NoCall \in Calls(tables)
  BY <1>1, EmptySeq DEF Events!NoCall, Calls
<1>3. EventTypes'
  BY <1>1, <1>2 DEF Events!Return, EventTypes
<1>4. doing'[t] = "body" /\ \A u \in Raisers \ {t} : doing'[u] = doing[u] /\ call'[u] = call[u]
  BY <1>1 DEF Events!Return, EventTypes
<1>5. Changing(t)' /\ Calling(t)'
  BY <1>4 DEF Changing, Calling
<1> QED BY <1>1, <1>3, <1>4, <1>5, EventsStep DEF Events!Return, EventsInv

\* No thread has done anything.
LEMMA EventsInitially == Events!Init => EventsInv
<1> SUFFICES ASSUME Events!Init PROVE EventsInv
  OBVIOUS
<1>1. tables \in Seq(Lists) /\ << >> \in Seq(Objects)
  BY EmptySeq DEF Events!Init
<1>2. Events!NULL \in Made(tables)
  BY DEF Made
<1>3. Events!NoChange \in Changes(tables) /\ Events!NoCall \in Calls(tables)
  BY <1>1, <1>2 DEF Events!NoChange, Events!NoCall, Changes, Calls, Events!Fields
<1>4. EventTypes
  BY <1>1, <1>2, <1>3 DEF Events!Init, EventTypes
<1>5. \A f \in Events!Fields : ListOf(tables, field[f]) = kept[f]
  BY DEF Events!Init, ListOf
<1>6. \A t \in Raisers : Changing(t) /\ Calling(t)
  BY DEF Events!Init, Changing, Calling
<1> QED BY <1>4, <1>5, <1>6 DEF EventsInv

\* Every step keeps the invariant.
LEMMA EventsStays ==
  ASSUME EventsInv, \A t, u \in Storers : t = u, Events!Next
  PROVE  EventsInv'
<1>1. PICK t \in Raisers :
        \/ \E h \in Objects : Events!New(t, h)
        \/ \E d \in DOMAIN tables : Events!Extend(t, d)
        \/ \E f \in Events!Fields : Events!Raise(t, f) \/ \E k \in {"add", "remove"} : Events!Begin(t, f, k)
        \/ Events!Prepare(t) \/ Events!CompareExchange(t) \/ Events!Retry(t) \/ Events!Store(t)
        \/ Events!Invoke(t) \/ Events!Return(t)
  BY DEF Events!Next
<1>2. CASE Events!CompareExchange(t)
  BY <1>2, StoredKeeps DEF Events!CompareExchange, Events!Same
<1>3. CASE Events!Store(t)
  <2>1. change[t].read = field["domain"] /\ t \in Storers
    BY <1>3 DEF Events!Store, EventsInv, Changing
  <2> QED BY <1>3, <2>1, StoredKeeps DEF Events!Store
<1> QED BY <1>1, <1>2, <1>3, NewKeeps, ExtendKeeps, RaiseKeeps, BeginKeeps, PrepareKeeps,
           RetryKeeps, InvokeKeeps, ReturnKeeps

\* The invariant is strong enough.
LEMMA EventsAgree == EventsInv => Events!DelegatesAgree
<1> SUFFICES ASSUME EventsInv PROVE Events!DelegatesAgree
  OBVIOUS
<1>1. \A f \in Events!Fields : Events!Table(field[f]) = kept[f]
  BY ListsMade DEF EventsInv, EventTypes
<1>2. ASSUME NEW t \in Raisers, doing[t] = "invoke"
      PROVE  Events!IsPrefix(call[t].called, call[t].promised)
  <2> DEFINE s == call[t].promised
             i == call[t].index
             p == call[t].called
  <2>1. i \in Nat /\ s \in Seq(Objects) /\ Len(s) \in Nat /\ i < Len(s) /\ p = SubSeq(s, 1, i)
    BY <1>2, LenProperties DEF EventsInv, EventTypes, Calling, Calls
  <2>2. p \in Seq(Objects) /\ Len(p) = i
    <3>1. \A k \in 1 .. i : s[k] \in Objects
      BY <2>1, ElementOfSeq
    <3> QED BY <2>1, <3>1, SubSeqProperties
  <2>3. SubSeq(p, 1, Len(p)) = SubSeq(s, 1, Len(p))
    BY <2>1, <2>2, SubSeqFull
  <2> QED BY <2>1, <2>2, <2>3 DEF Events!IsPrefix
<1>3. \A t \in Raisers : doing[t] = "returned" => call[t].called = call[t].promised
  BY DEF EventsInv, Calling
<1> QED BY <1>1, <1>2, <1>3 DEF Events!DelegatesAgree

\* Threads lose no handler of an event, and an invocation calls the handlers
\* there were when it began, in their order, in the behaviours of MCThreads: for
\* any number of threads, handlers and delegates, if one thread at most changes
\* the handlers of the AppDomain, which are stored without a comparison
\* (Delegate.c:47, Delegate.c:123, FunctionWriter.cs:740, Interlocked.c:6).
THEOREM ThreadsDelegatesAgree ==
  ASSUME \A t, u \in Storers : t = u PROVE ThreadsSpec => []DelegatesAgree
<1>1. part = "delegates" /\ ThreadsInit => EventsInv
  BY EventsInitially DEF ThreadsInit
<1>2. EventsInv /\ part = "delegates" /\ [ThreadsNext]_AllVars => EventsInv'
  <2> SUFFICES ASSUME EventsInv, part = "delegates", [ThreadsNext]_AllVars PROVE EventsInv'
    OBVIOUS
  <2>1. CASE Events!Next
    BY <2>1, EventsStays
  <2>2. CASE UNCHANGED eventVars
    BY <2>2 DEF eventVars, EventsInv, EventTypes, Changing, Calling
  <2> QED BY <2>1, <2>2 DEF ThreadsNext, AllVars
<1>3. part = "delegates" /\ [ThreadsNext]_AllVars => (part = "delegates")'
  BY PartStays
<1>4. ~(part = "delegates") /\ [ThreadsNext]_AllVars => (~(part = "delegates"))'
  BY PartStays
<1>5. ~(part = "delegates") => DelegatesAgree
  BY DEF DelegatesAgree
<1>6. EventsInv => DelegatesAgree
  BY EventsAgree DEF DelegatesAgree
<1> QED
  BY <1>1, <1>2, <1>3, <1>4, <1>5, <1>6, PTL DEF ThreadsSpec, AllVars
================================================================================
