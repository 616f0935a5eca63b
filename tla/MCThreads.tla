------------------------------- MODULE MCThreads -------------------------------
(***************************************************************************)
(* Model-checking instance of what threads do at the same time: the gate   *)
(* of the collector (CollectGate), the monitors (MonitorTable), the list   *)
(* of headers (SharedHeap), the root references (RootRegistry) and the     *)
(* handlers of events (Delegates).  A behaviour is of one of them.         *)
(* Threads, objects and headers are model values.                          *)
(***************************************************************************)
EXTENDS CollectGate, TLC

CONSTANTS
  Part,
  Objects,      \* headers of "heap", handlers of "delegates"
  Reborn,       \* an object of "small" that is freed, and its memory used again
  Raisers, Storers, MaxDelegates    \* of "delegates"
VARIABLES
  part,
  table, mutex, blockLock, flagged, step, op, obj, found, depth, spoiled,
  begin, pNext, init, mark, index, allocated, anchor, slot, at, header, read,
  collector, roots, current, previous, scheduled,
  fixed, owned, bare, stage, object, next, left, free, visits, reached, held,
  tables, field, kept, doing, own, change, call

Others == Threads \ {Main}

\* A block whose objects are all reclaimed and come again: they leave holes.
Holes == INSTANCE MonitorTable
  WITH Threads <- Others, Null <- None, Reclaimed <- Objects, Slots <- 2, MaxBlocks <- 1,
       MaxDepth <- 2, lock <- mutex, pc <- step
\* Blocks of one slot, so that the table grows, and one object that is reclaimed.
Small == INSTANCE MonitorTable
  WITH Threads <- Others, Null <- None, Objects <- Objects \cup {Reborn}, Reclaimed <- {Reborn},
       Slots <- 1, MaxBlocks <- 2, MaxDepth <- 1, lock <- mutex, pc <- step
monitorVars == <<table, mutex, blockLock, flagged, step, op, obj, found, depth, spoiled>>

Heap == INSTANCE SharedHeap WITH Threads <- Others, Headers <- Objects, Null <- None
heapVars == <<begin, pNext, init, mark, index, allocated, anchor, slot, at, header, read,
              collector, roots, current, previous, scheduled>>

Registry == INSTANCE RootRegistry
  WITH Threads <- Others, Null <- None, BlockSize <- 2, MaxSlots <- 6,
       slots <- fixed, handle <- owned, at <- stage, walk <- visits, marked <- reached
registryVars == <<fixed, owned, bare, stage, object, next, left, free, visits, reached, held>>

Events == INSTANCE Delegates
  WITH Threads <- Raisers, Handlers <- Objects, DomainWriters <- Storers, pc <- doing, value <- own
eventVars == <<tables, field, kept, doing, own, change, call>>

\* The variables of the parts that a behaviour is not of.
MonitorsIdle ==
  /\ table = 0 /\ mutex = 0 /\ blockLock = 0 /\ flagged = 0 /\ step = 0 /\ op = 0 /\ obj = 0
  /\ found = 0 /\ depth = 0 /\ spoiled = 0
HeapIdle ==
  /\ begin = 0 /\ pNext = 0 /\ init = 0 /\ mark = 0 /\ index = 0 /\ allocated = 0 /\ anchor = 0
  /\ slot = 0 /\ at = 0 /\ header = 0 /\ read = 0 /\ collector = 0 /\ roots = 0 /\ current = 0
  /\ previous = 0 /\ scheduled = 0
RegistryIdle ==
  /\ fixed = 0 /\ owned = 0 /\ bare = 0 /\ stage = 0 /\ object = 0 /\ next = 0 /\ left = 0
  /\ free = 0 /\ visits = 0 /\ reached = 0 /\ held = 0
EventsIdle ==
  /\ tables = 0 /\ field = 0 /\ kept = 0 /\ doing = 0 /\ own = 0 /\ change = 0 /\ call = 0
ThreadsInit ==
  /\ part \in Part
  /\ Init
  /\ IF part = "holes" THEN Holes!Init ELSE IF part = "small" THEN Small!Init ELSE MonitorsIdle
  /\ IF part = "heap" THEN Heap!Init ELSE HeapIdle
  /\ IF part = "roots" THEN Registry!Init ELSE RegistryIdle
  /\ IF part = "delegates" THEN Events!Init ELSE EventsIdle
ThreadsNext ==
  \/ part = "gate" /\ Next /\ UNCHANGED <<part, monitorVars, heapVars, registryVars, eventVars>>
  \/ part = "holes" /\ Holes!Next /\ UNCHANGED <<part, vars, heapVars, registryVars, eventVars>>
  \/ part = "small" /\ Small!Next /\ UNCHANGED <<part, vars, heapVars, registryVars, eventVars>>
  \/ part = "heap" /\ Heap!Next /\ UNCHANGED <<part, vars, monitorVars, registryVars, eventVars>>
  \/ part = "roots" /\ Registry!Next /\ UNCHANGED <<part, vars, monitorVars, heapVars, eventVars>>
  \/ part = "delegates" /\ Events!Next
     /\ UNCHANGED <<part, vars, monitorVars, heapVars, registryVars>>
  \* Those without the gate stop at their bounds.
  \/ part # "gate" /\ UNCHANGED <<part, vars, monitorVars, heapVars, registryVars, eventVars>>
ThreadsSpec ==
  ThreadsInit /\ [][ThreadsNext]_<<part, vars, monitorVars, heapVars, registryVars, eventVars>>

\* One thread at a time is inside a monitor that the table keeps one mutex of,
\* and the state has its type (MonitorTable).
MonitorExcludes ==
  /\ part = "holes" => Holes!TypeOK /\ Holes!MonitorExcludes
  /\ part = "small" => Small!TypeOK /\ Small!MonitorExcludes
\* Its thread will find the mutex it owns (MonitorTable).
HolderOwnsItsLock ==
  /\ part = "holes" => Holes!HolderOwnsItsLock
  /\ part = "small" => Small!HolderOwnsItsLock
\* A found object is flagged, where the table is too small and the collector
\* empties slots (MonitorTable).
SmallFoundIsFlagged == part = "small" => Small!FoundIsFlagged
\* The list of headers stays one, however pushes and the sweep meet (SharedHeap).
ListSound == part = "heap" => Heap!ListSound
\* Handles that register their object do so once, and a walk of the collector
\* finds it; one made by Alloc(object) does not (RootRegistry).
RegistryAgrees == part = "roots" => Registry!RegistryAgrees
\* Threads lose no handler, and an invocation calls those there were (Delegates).
DelegatesAgree == part = "delegates" => Events!DelegatesAgree

Symmetric == Permutations(Others) \cup Permutations(Objects)
===============================================================================
