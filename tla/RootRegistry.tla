----------------------------- MODULE RootRegistry -----------------------------
(***************************************************************************)
(* GCHandle.c and the root references of il2c_allocator.c that it          *)
(* registers: threads that register and unregister, slot by slot and       *)
(* without a lock, while the collector walks over the same slots.          *)
(*                                                                         *)
(* The slots of all blocks are one sequence (RootSlots).  New blocks are   *)
(* linked in front, so a walk keeps the number of slots that it has left.  *)
(***************************************************************************)
EXTENDS Integers, SequencesExt

CONSTANTS
  Threads,      \* each has one handle
  Objects,
  Null,
  BlockSize,
  MaxSlots      \* bound: slots of all blocks

VARIABLES
  slots,        \* g_pFixedReferences__
  handle,       \* the object of each handle
  bare,         \* threads whose handle registered nothing, weak or not
  at,           \* where a thread is
  object,       \* the object that it registers or unregisters
  next,         \* what set_Target registers afterwards
  left,         \* slots that its walk has not visited
  free,         \* ppFreeReference: a position from the end, or 0
  walk,         \* slots that the collector's walk has not visited
  marked,       \* the objects it marked
  held          \* history: objects that were registered when it began, and stayed so

threadVars == <<at, object, next, left, free>>
handleVars == <<handle, bare>>
markVars == <<walk, marked, held>>
vars == <<slots, handle, bare, at, object, next, left, free, walk, marked, held>>

Init ==
  /\ slots = <<>>
  /\ handle = [t \in Threads |-> Null] /\ bare = {}
  /\ at = [t \in Threads |-> "idle"] /\ object = [t \in Threads |-> Null]
  /\ next = [t \in Threads |-> Null] /\ left = [t \in Threads |-> 0] /\ free = [t \in Threads |-> 0]
  /\ walk = 0 /\ marked = {} /\ held = {}

Slot(n) == slots[Len(slots) - n + 1]
Stored(n, o) == slots' = [slots EXCEPT ![Len(slots) - n + 1] = o]
Of(t) == {handle[t], object[t], next[t]} \ {Null}
\* Objects that no other handle has: handles of one object share its slot, and
\* what one unregisters the others lose.
Fresh == Objects \ UNION {Of(u) : u \in Threads}
Move(t, where) == at' = [at EXCEPT ![t] = where]
\* The walk of il2c_register_root_reference__ or il2c_unregister_root_reference__
\* over the blocks there are.
Walk(t, where, o) ==
  /\ Move(t, where) /\ object' = [object EXCEPT ![t] = o]
  /\ left' = [left EXCEPT ![t] = Len(slots)] /\ free' = [free EXCEPT ![t] = 0]
-----------------------------------------------------------------------------
\* A handle that registers nothing.
MakeBare(t, o) ==
  /\ handle' = [handle EXCEPT ![t] = o] /\ bare' = bare \cup {t}
  /\ UNCHANGED <<at, object, left, free>>
\* GCHandle.Alloc(object, type): a weak one, or a normal or pinned one.
Alloc(t) ==
  /\ at[t] = "idle" /\ handle[t] = Null
  /\ \E o \in Fresh : MakeBare(t, o) \/ (Walk(t, "register", o) /\ UNCHANGED handleVars)
  /\ UNCHANGED <<slots, next, markVars>>
\* GCHandle.Alloc(object): a normal handle, but nothing keeps its object alive.
AllocObject(t) ==
  /\ at[t] = "idle" /\ handle[t] = Null
  /\ \E o \in Fresh : MakeBare(t, o)
  /\ UNCHANGED <<slots, next, markVars>>
\* GCHandle.Free, and set_Target, which begins with it.
FreeHandle(t, value) ==
  /\ at[t] = "idle" /\ handle[t] # Null
  /\ next' = [next EXCEPT ![t] = value] /\ Walk(t, "unregister", handle[t])
  /\ held' = held \ {handle[t]}
  /\ UNCHANGED <<slots, handleVars, walk, marked>>
-----------------------------------------------------------------------------
\* A slot is read: the object is registered already, or a free slot remembered.
Visit(t) ==
  LET v == Slot(left[t])
  IN /\ at[t] = "register" /\ left[t] > 0
     /\ IF v = object[t] THEN Move(t, "registered") /\ UNCHANGED free
        ELSE /\ free' = [free EXCEPT ![t] = IF v = Null /\ @ = 0 THEN left[t] ELSE @]
             /\ UNCHANGED at
     /\ left' = [left EXCEPT ![t] = @ - 1]
     /\ UNCHANGED <<slots, handleVars, object, next, markVars>>
\* Mutant: the slot that was free is taken, whoever took it meanwhile.
StillFreeAnyway(t) == TRUE
StillFree(t) == Slot(free[t]) = Null
TryStore(t) ==
  /\ at[t] = "register" /\ left[t] = 0 /\ free[t] > 0
  /\ IF StillFree(t) THEN Stored(free[t], object[t]) /\ Move(t, "registered")
     ELSE UNCHANGED <<slots, at>>
  /\ free' = [free EXCEPT ![t] = 0]
  /\ UNCHANGED <<handleVars, object, next, left, markVars>>
AppendBlock(t) ==
  /\ at[t] = "register" /\ left[t] = 0 /\ free[t] = 0 /\ Len(slots) + BlockSize <= MaxSlots
  /\ slots' = [i \in 1 .. BlockSize |-> IF i = 1 THEN object[t] ELSE Null] \o slots
  /\ Move(t, "registered")
  /\ UNCHANGED <<handleVars, object, next, left, free, markVars>>
\* The handle gets the object.
Registered(t) ==
  /\ at[t] = "registered"
  /\ handle' = [handle EXCEPT ![t] = object[t]] /\ bare' = bare \ {t}
  /\ Move(t, "idle") /\ object' = [object EXCEPT ![t] = Null]
  /\ left' = [left EXCEPT ![t] = 0] /\ free' = [free EXCEPT ![t] = 0]
  /\ UNCHANGED <<slots, next, markVars>>

Search(t) ==
  /\ at[t] = "unregister" /\ left[t] > 0
  /\ IF Slot(left[t]) = object[t] THEN Move(t, "clear") /\ UNCHANGED left
     ELSE left' = [left EXCEPT ![t] = @ - 1] /\ UNCHANGED at
  /\ UNCHANGED <<slots, handleVars, object, next, free, markVars>>
Clear(t) ==
  /\ at[t] = "clear"
  /\ Stored(left[t], Null) /\ Move(t, "unregister") /\ left' = [left EXCEPT ![t] = 0]
  /\ UNCHANGED <<handleVars, object, next, free, markVars>>
\* The handle is empty; set_Target goes on to register.
Unregistered(t) ==
  /\ at[t] = "unregister" /\ left[t] = 0
  /\ handle' = [handle EXCEPT ![t] = Null] /\ bare' = bare \ {t} /\ next' = [next EXCEPT ![t] = Null]
  /\ IF next[t] # Null THEN Walk(t, "register", next[t])
     ELSE Move(t, "idle") /\ object' = [object EXCEPT ![t] = Null] /\ UNCHANGED <<left, free>>
  /\ UNCHANGED <<slots, markVars>>
-----------------------------------------------------------------------------
\* il2c_step2_mark_gcmark_for_root_referfences__
BeginMark ==
  /\ walk = 0 /\ slots # <<>>
  /\ walk' = Len(slots) /\ marked' = {}
  /\ held' = {handle[t] : t \in {t \in Threads \ bare : at[t] = "idle"}} \ {Null}
  /\ UNCHANGED <<slots, handleVars, threadVars>>
Mark ==
  /\ walk > 0
  /\ walk' = walk - 1 /\ marked' = marked \cup ({Slot(walk)} \ {Null})
  /\ UNCHANGED <<slots, handleVars, threadVars, held>>

Next ==
  \/ \E t \in Threads :
       \/ Alloc(t) \/ AllocObject(t) \/ Visit(t) \/ TryStore(t) \/ AppendBlock(t) \/ Registered(t)
       \/ \E value \in Fresh \cup {handle[t], Null} : FreeHandle(t, value)
       \/ Search(t) \/ Clear(t) \/ Unregistered(t)
  \/ BeginMark \/ Mark
Spec == Init /\ [][Next]_vars
-----------------------------------------------------------------------------
Occurrences(o) == Cardinality({i \in DOMAIN slots : slots[i] = o})

\* Whatever other threads register and unregister at the same time: the object of
\* a handle that was allocated as normal or pinned, or set as a target, is
\* registered exactly once; those of weak handles and of Alloc(object), which
\* registers nothing for its normal handle (GCHandle.c:46), and those without a
\* handle are not; and a collection marks every object that was registered by its
\* handle when the walk began and still is when it ends (il2c_allocator.c:288,
\* il2c_allocator.c:310, GCHandle.c:30).  Each object has one handle at a time:
\* what one of two unregisters the other loses.
RegistryAgrees ==
  /\ \A t \in Threads : at[t] = "idle" /\ handle[t] # Null =>
       Occurrences(handle[t]) = IF t \in bare THEN 0 ELSE 1
  /\ \A o \in Fresh : Occurrences(o) = 0
  /\ walk = 0 => held \subseteq marked
===============================================================================
