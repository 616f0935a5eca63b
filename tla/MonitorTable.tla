----------------------------- MODULE MonitorTable -----------------------------
(***************************************************************************)
(* System.Threading.Monitor: the table that gives every locked object a    *)
(* lock of its own.                                                        *)
(*                                                                         *)
(* Objects are hashed into buckets that share nothing; this is one of      *)
(* them.  A bucket is a chain of blocks of Slots slots, flattened here     *)
(* into one sequence; a slot pairs an object with a recursive mutex.  The  *)
(* chain is walked and changed with the bucket's blockLock held, so a      *)
(* lookup is one step; entering or leaving the mutex it returned is        *)
(* another.  Sweeping an object that has acquired a lock empties its slot. *)
(*                                                                         *)
(* A failed il2c_assert has no effect, as in a release build.              *)
(***************************************************************************)
EXTENDS Integers, SequencesExt

CONSTANTS
  Threads,
  Objects,      \* objects whose addresses fall into this bucket
  Reclaimed,    \* those the collector frees, their blocks are used again
  Null,         \* an empty slot, an unowned lock
  Slots,        \* slots of a block
  MaxBlocks,    \* bound: blocks of the chain
  MaxDepth      \* bound: recursive entries of a thread, and of a mutex

VARIABLES
  table,        \* pReferences of all blocks, in the order of the chain
  lock,         \* the mutex of each slot
  blockLock,    \* owner of blockLock between lookups: nobody should
  flagged,      \* objects with ACQUIRED_MONITOR_LOCK
  pc, op, obj,  \* what a thread calls, on which object
  found,        \* pLock: the position the lookup returned, or NoLock
  depth,        \* times a thread is inside the monitor of an object
  spoiled       \* history: objects with a second mutex, or one that is not safe

threadVars == <<pc, op, obj, found>>
vars == <<table, lock, blockLock, flagged, pc, op, obj, found, depth, spoiled>>

NoLock == 0
\* The mutex "behind" block k, where index 4 of its array would be.
Beyond(k) == -k
Positions == 1 .. MaxBlocks * Slots
Mutexes == Positions \cup {Beyond(k) : k \in 1 .. MaxBlocks}
Free == [owner |-> Null, count |-> 0]
Lock == [owner : Threads \cup {Null}, count : Nat]

Available(p, t) == lock[p].owner \in {Null, t}
Entered(p, t) == [lock EXCEPT ![p] = [owner |-> t, count |-> @.count + 1]]
\* Mutant: one unlock releases a mutex entered twice.
ExitedFully(p, t) == [lock EXCEPT ![p] = IF @.owner # t THEN @ ELSE Free]
Exited(p, t) ==
  [lock EXCEPT ![p] = IF @.owner # t THEN @
                      ELSE IF @.count = 1 THEN Free
                      ELSE [owner |-> t, count |-> @.count - 1]]
EmptyBlock == [i \in 1 .. Slots |-> Null]
Holders(o) == {t \in Threads : depth[t][o] > 0}
-----------------------------------------------------------------------------
Init ==
  /\ table = EmptyBlock
  /\ lock = [p \in Mutexes |-> Free]
  /\ blockLock = Null
  /\ flagged = {}
  /\ pc = [t \in Threads |-> "idle"]
  /\ op = [t \in Threads |-> "enter"]
  /\ obj = [t \in Threads |-> Null]
  /\ found = [t \in Threads |-> NoLock]
  /\ depth = [t \in Threads |-> [o \in Objects |-> 0]]
  /\ spoiled = {}

\* A thread calls Enter, TryEnter, or the Exit of a monitor it has entered.
Begin(t, what, o) ==
  /\ pc[t] = "idle"
  /\ IF what = "exit" THEN depth[t][o] > 0 ELSE depth[t][o] < MaxDepth
  /\ pc' = [pc EXCEPT ![t] = "lookup"]
  /\ op' = [op EXCEPT ![t] = what]
  /\ obj' = [obj EXCEPT ![t] = o]
  /\ UNCHANGED <<table, lock, blockLock, flagged, found, depth, spoiled>>

\* The walk stops at the object's slot or, unless for Exit, at a free slot,
\* whichever comes first.
Stops(t, p) ==
  \/ table[p] = obj[t]
  \/ table[p] = Null /\ op[t] # "exit"
StopsAt(t, p) ==
  /\ p \in DOMAIN table
  /\ Stops(t, p)
  /\ \A q \in 1 .. (p - 1) : ~Stops(t, q)

Return(t, p) ==
  /\ found' = [found EXCEPT ![t] = p]
  /\ pc' = [pc EXCEPT ![t] = "lock"]

LookupFound(t, p) ==
  /\ pc[t] = "lookup" /\ blockLock \in {Null, t}
  /\ StopsAt(t, p) /\ table[p] = obj[t]
  /\ Return(t, p)
  /\ UNCHANGED <<table, lock, blockLock, flagged, op, obj, depth, spoiled>>

\* Mutant: the object is not flagged.
LookupAssignUnflagged(t, p) ==
  /\ pc[t] = "lookup" /\ blockLock \in {Null, t}
  /\ StopsAt(t, p) /\ table[p] = Null
  /\ lock' = [lock EXCEPT ![p] = Free]
  /\ table' = [table EXCEPT ![p] = obj[t]]
  /\ Return(t, p)
  /\ UNCHANGED <<blockLock, flagged, op, obj, depth, spoiled>>

\* The object may have a mutex already, further on: Monitor.c:102 asserts that
\* it has none.
LookupAssign(t, p) ==
  /\ pc[t] = "lookup" /\ blockLock \in {Null, t}
  /\ StopsAt(t, p) /\ table[p] = Null
  /\ lock' = [lock EXCEPT ![p] = Free]
  /\ flagged' = flagged \cup {obj[t]}
  /\ table' = [table EXCEPT ![p] = obj[t]]
  /\ spoiled' = spoiled \cup ({obj[t]} \cap flagged)
  /\ Return(t, p)
  /\ UNCHANGED <<blockLock, op, obj, depth>>

NowhereToStop(t) == \A p \in DOMAIN table : ~Stops(t, p)
Blocks == Len(table) \div Slots

\* A full chain gets a new block, and the object the slot after the last one of
\* the OLD block: its reference overwrites the first mutex of that block, its
\* mutex is the memory behind the block.
LookupExtend(t) ==
  /\ pc[t] = "lookup" /\ blockLock \in {Null, t}
  /\ NowhereToStop(t) /\ op[t] # "exit" /\ Blocks < MaxBlocks
  /\ table' = table \o EmptyBlock
  /\ \E broken \in {Free} \cup {[owner |-> u, count |-> 1] : u \in Threads} :
       lock' = [lock EXCEPT ![(Blocks - 1) * Slots + 1] = broken,
                            ![Beyond(Blocks)] = Free]
  /\ flagged' = flagged \cup {obj[t]}
  /\ spoiled' = spoiled \cup {obj[t], table[(Blocks - 1) * Slots + 1]}
  /\ Return(t, Beyond(Blocks))
  /\ UNCHANGED <<blockLock, op, obj, depth>>

\* Exit does not find the object: the function returns NULL and keeps blockLock.
LookupFails(t) ==
  /\ pc[t] = "lookup" /\ blockLock \in {Null, t}
  /\ NowhereToStop(t) /\ op[t] = "exit"
  /\ blockLock' = t
  /\ Return(t, NoLock)
  /\ UNCHANGED <<table, lock, flagged, op, obj, depth, spoiled>>
-----------------------------------------------------------------------------
\* The end of each call.  Enter waits for the mutex.
Finish(t) == pc' = [pc EXCEPT ![t] = "idle"]

\* Mutant: the result of trying to enter is ignored.
EnterWithoutWaiting(t) ==
  /\ pc[t] = "lock" /\ op[t] \in {"enter", "try"} /\ lock[found[t]].count < MaxDepth
  /\ lock' = Entered(found[t], t)
  /\ depth' = [depth EXCEPT ![t][obj[t]] = @ + 1]
  /\ Finish(t)
  /\ UNCHANGED <<table, blockLock, flagged, op, obj, found, spoiled>>

Enter(t) ==
  /\ pc[t] = "lock" /\ op[t] \in {"enter", "try"}
  /\ Available(found[t], t) /\ lock[found[t]].count < MaxDepth
  /\ lock' = Entered(found[t], t)
  /\ depth' = [depth EXCEPT ![t][obj[t]] = @ + 1]
  /\ Finish(t)
  /\ UNCHANGED <<table, blockLock, flagged, op, obj, found, spoiled>>

TryEnterFails(t) ==
  /\ pc[t] = "lock" /\ op[t] = "try"
  /\ ~Available(found[t], t)
  /\ Finish(t)
  /\ UNCHANGED <<table, lock, blockLock, flagged, op, obj, found, depth, spoiled>>

Exit(t) ==
  /\ pc[t] = "lock" /\ op[t] = "exit" /\ found[t] # NoLock
  /\ lock' = Exited(found[t], t)
  /\ depth' = [depth EXCEPT ![t][obj[t]] = @ - 1]
  /\ Finish(t)
  /\ UNCHANGED <<table, blockLock, flagged, op, obj, found, spoiled>>

\* The sweep frees an object nobody uses: il2c_release_monitor_lock_from_objref__
\* empties the first slot that has it, if one has.
Unused(o) == Holders(o) = {} /\ \A t \in Threads : pc[t] # "idle" => obj[t] # o

\* Mutant: the slot keeps the reference.
ReclaimKeepsSlot(o) ==
  /\ o \in Reclaimed \cap flagged /\ Unused(o)
  /\ blockLock = Null
  /\ flagged' = flagged \ {o}
  /\ UNCHANGED <<table, lock, blockLock, threadVars, depth, spoiled>>

Reclaim(o) ==
  /\ o \in Reclaimed \cap flagged /\ Unused(o)
  /\ blockLock = Null
  /\ \/ \E p \in DOMAIN table :
          /\ table[p] = o
          /\ \A q \in 1 .. (p - 1) : table[q] # o
          /\ table' = [table EXCEPT ![p] = Null]
          /\ lock' = [lock EXCEPT ![p] = Free]
     \/ (\A p \in DOMAIN table : table[p] # o) /\ UNCHANGED <<table, lock>>
  /\ flagged' = flagged \ {o}
  /\ UNCHANGED <<blockLock, threadVars, depth, spoiled>>
-----------------------------------------------------------------------------
ThreadNext(t) ==
  \/ \E what \in {"enter", "try", "exit"}, o \in Objects : Begin(t, what, o)
  \/ \E p \in DOMAIN table : LookupFound(t, p) \/ LookupAssign(t, p)
  \/ LookupExtend(t) \/ LookupFails(t)
  \/ Enter(t) \/ TryEnterFails(t) \/ Exit(t)

Next == (\E t \in Threads : ThreadNext(t)) \/ (\E o \in Objects : Reclaim(o))

Spec == Init /\ [][Next]_vars
-----------------------------------------------------------------------------
TypeOK ==
  /\ table \in Seq(Objects \cup {Null}) /\ Len(table) \in {k * Slots : k \in 1 .. MaxBlocks}
  /\ lock \in [Mutexes -> Lock]
  /\ blockLock \in Threads \cup {Null}
  /\ flagged \in SUBSET Objects
  /\ pc \in [Threads -> {"idle", "lookup", "lock"}]
  /\ op \in [Threads -> {"enter", "try", "exit"}]
  /\ obj \in [Threads -> Objects \cup {Null}]
  /\ found \in [Threads -> Mutexes \cup {NoLock}]
  /\ depth \in [Threads -> [Objects -> Nat]]
  /\ spoiled \in SUBSET Objects

\* At most one thread is inside the monitor of an object, though each looks its
\* lock up anew in a table that other calls and the collector change
\* (Monitor.c:75-109, 161-195).  It is so for the objects that the table keeps one
\* safe mutex of.  It does not for those spoiled: a slot that the sweep emptied
\* before the object's own makes the next lookup give it a second mutex, and
\* growing takes the mutex of the object in the first slot of the full block, and
\* one behind the block for the object it grows for.
MonitorExcludes == \A o \in Objects \ spoiled : \A t, u \in Holders(o) : t = u

\* A thread inside a monitor of an object that is not spoiled owns the mutex its
\* next lookup will return, as often as it has entered: Exit will undo Enter
\* (Monitor.c:340-351).
HolderOwnsItsLock ==
  \A t \in Threads, o \in Objects \ spoiled : depth[t][o] > 0 =>
    \E p \in DOMAIN table :
      /\ table[p] = o
      /\ \A q \in 1 .. (p - 1) : table[q] # o
      /\ lock[p] = [owner |-> t, count |-> depth[t][o]]

\* Monitor.c:82 asserts that an object found in the table is flagged: without the
\* flag the sweep would leave its slot behind for the next object at the address.
\* It holds while one object is reclaimed.  The slot that one leaves is taken by
\* an object that has its own further on, whose sweep then empties only the first.
FoundIsFlagged ==
  \A t \in Threads, p \in DOMAIN table :
    pc[t] = "lookup" /\ StopsAt(t, p) /\ table[p] = obj[t] => obj[t] \in flagged

\* Monitor.c:348 asserts that the Exit of an entered monitor finds its lock.
ExitFindsItsLock ==
  \A t \in Threads : pc[t] = "lock" /\ op[t] = "exit" => found[t] # NoLock
=============================================================================
